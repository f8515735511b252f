----------------------------- MODULE PathCache ------------------------------
(***************************************************************************)
(* eclypse/graph/infrastructure.py and invalidating_dict.py: an            *)
(* infrastructure that remembers its paths and what it aggregates along    *)
(* them, while the simulation's thread changes nodes and links.            *)
(*                                                                         *)
(* In a remote simulation RemoteSimulator.route calls path() and           *)
(* processing_time() on the Ray actor's thread, beside the simulation's    *)
(* and without a lock.  A query is the same code in both; its steps are    *)
(* the reads and stores between which the other thread may have gone on.   *)
(* The path algorithm is one step: that it may fail on a graph that grows  *)
(* under it is left out.                                                   *)
(*                                                                         *)
(* _costs holds the attribute dictionaries of the links themselves: it is  *)
(* the path they are of.  A removed link keeps the assets it had, and does *)
(* not come back under the same name.                                      *)
(***************************************************************************)
EXTENDS Routing

CONSTANTS
    Nodes,        \* the nodes of the infrastructure at the start
    Links,        \* every link there ever is, with its assets [lat, bw]
    Later,        \* those that are added later
    Queries,      \* the pairs of nodes paths are asked for
    LinkAssets,   \* the assets a link may be given
    Times,        \* the processing times a node may be given
    FirstTimes,   \* those the nodes start with
    MaxChanges    \* bound: changes of the infrastructure

ASSUME PathCacheAssumption ==
    /\ IsFiniteSet(Nodes)
    /\ DOMAIN Links \subseteq Nodes \X Nodes
    /\ \A e \in DOMAIN Links : Links[e] \in [lat : Nat, bw : Nat]
    /\ Later \subseteq DOMAIN Links
    /\ Queries \subseteq Nodes \X Nodes
    /\ Queries # {}
    /\ LinkAssets \subseteq [lat : Nat, bw : Nat]
    /\ Times \subseteq Nat
    /\ FirstTimes \in [Nodes -> Times]
    /\ MaxChanges \in Nat

VARIABLES
    nodes,        \* the nodes present
    up,           \* those with availability > 0
    time,         \* the processing_time of each node
    link,         \* the links present, with their assets
    gone,         \* the links that were removed, with the assets they had last
    cache,        \* _paths, _costs, _path_resources, _processing_times
    stale,        \* the caches the hook has yet to clear, in its order
    at,           \* of a thread: where it is in its query
    asked,        \* the pair it asks for
    aim,          \* the cache it wants an answer from
    then,         \* where it goes once it has computed
    held,         \* what it has computed and not stored yet
    outdated,     \* history: the graph changed since it computed that
    raced,        \* history: the entries that were stored outdated
    changes

graph  == <<nodes, up, time, link, gone>>
query  == <<asked, aim, then>>
thread == <<at, query, held, outdated>>
vars   == <<graph, cache, stale, thread, raced, changes>>

Caches  == {"paths", "costs", "resources", "times"}
All     == <<"paths", "costs", "resources", "times">>
Threads == {"simulation", "actor"}

Path(q)      == ShortestPath(nodes \cap up, Latencies(link), q[1], q[2])
Aggregate(p) ==
    LET dicts == link @@ gone
    IN  [lat |-> PathLatency(p, dicts), bw |-> PathBandwidth(p, dicts)]
TimeOf(p)    == PathTime(p, time)

Init ==
    /\ nodes = Nodes
    /\ up = Nodes
    /\ time = FirstTimes
    /\ link = [e \in DOMAIN Links \ Later |-> Links[e]]
    /\ gone = <<>>
    /\ cache = [c \in Caches |-> <<>>]
    /\ stale = <<>>
    /\ at = [t \in Threads |-> "idle"]
    /\ asked = [t \in Threads |-> CHOOSE q \in Queries : TRUE]
    /\ aim = [t \in Threads |-> "paths"]
    /\ then = [t \in Threads |-> "check"]
    /\ held = [t \in Threads |-> NoPath]
    /\ outdated = [t \in Threads |-> FALSE]
    /\ raced = {}
    /\ changes = 0

-----------------------------------------------------------------------------
(* Changes, in the simulation's thread: the value first, then the hook.    *)

Free(t) == at[t] \in {"idle", "raised"}

\* The caches that what a thread holds is meant for.
HeldFor(t) ==
    CASE at[t] \in {"cost", "storePath"} -> {"paths", "costs"}
      [] at[t] = "storeCosts"            -> {"costs"}
      [] at[t] = "storeResources"        -> {"resources"}
      [] at[t] = "storeTime"             -> {"times"}
      [] OTHER                           -> {}

\* Mutants: a hook forgets a latency, or a bandwidth.
LatencyIgnored(old, new) == <<"resources">>
BandwidthIgnored(old, new) == IF new.lat # old.lat THEN All ELSE <<>>

\* _invalidate_edge_attrs: latency is the cost of paths, bandwidth is
\* aggregated along them.
StaleByLink(old, new) == IF new.lat # old.lat THEN All ELSE <<"resources">>

Change(invalidated) ==
    /\ stale = <<>> /\ Free("simulation")
    /\ changes < MaxChanges
    /\ changes' = changes + 1
    /\ stale' = invalidated
    /\ outdated' = [t \in Threads |->
                       outdated[t] \/ HeldFor(t) \cap ToSet(invalidated) # {}]
    /\ UNCHANGED <<cache, at, query, held, raced>>

SetLink(e, assets) ==
    /\ e \in DOMAIN link
    /\ assets # link[e]
    /\ Change(StaleByLink(link[e], assets))
    /\ link' = [link EXCEPT ![e] = assets]
    /\ UNCHANGED <<nodes, up, time, gone>>

\* _invalidate_node_attrs.
SetAvailability(n) ==
    /\ n \in nodes
    /\ Change(All)
    /\ up' = IF n \in up THEN up \ {n} ELSE up \cup {n}
    /\ UNCHANGED <<nodes, time, link, gone>>

SetTime(n, t) ==
    /\ n \in nodes
    /\ t # time[n]
    /\ Change(<<"times">>)
    /\ time' = [time EXCEPT ![n] = t]
    /\ UNCHANGED <<nodes, up, link, gone>>

AddLink(e) ==
    /\ e \notin DOMAIN link \cup DOMAIN gone
    /\ e[1] \in nodes /\ e[2] \in nodes
    /\ Change(All)
    /\ link' = With(link, e, Links[e])
    /\ UNCHANGED <<nodes, up, time, gone>>

Drop(cut) ==
    /\ link' = [e \in DOMAIN link \ cut |-> link[e]]
    /\ gone' = [e \in cut \cup DOMAIN gone |-> IF e \in cut THEN link[e] ELSE gone[e]]

RemoveLink(e) ==
    /\ e \in DOMAIN link
    /\ Change(All)
    /\ Drop({e})
    /\ UNCHANGED <<nodes, up, time>>

RemoveNode(n) ==
    /\ n \in nodes
    /\ Change(All)
    /\ nodes' = nodes \ {n}
    /\ Drop({e \in DOMAIN link : n \in {e[1], e[2]}})
    /\ UNCHANGED <<up, time>>

AddNode(n) ==
    /\ n \notin nodes
    /\ Change(All)
    /\ nodes' = nodes \cup {n}
    /\ UNCHANGED <<up, time, link, gone>>

\* The hook clears one dictionary after the other.
Clear ==
    /\ stale # <<>>
    /\ cache' = [cache EXCEPT ![Head(stale)] = <<>>]
    /\ raced' = {x \in raced : x[1] # Head(stale)}
    /\ stale' = Tail(stale)
    /\ UNCHANGED <<graph, thread, changes>>

\* evolve() clears everything once more when its policies have run.
EvolveEnds ==
    /\ stale = <<>> /\ Free("simulation")
    /\ stale' = All
    /\ UNCHANGED <<graph, cache, thread, raced, changes>>

-----------------------------------------------------------------------------
(* A query, in either thread.                                              *)

Goto(t, l) == at' = [at EXCEPT ![t] = l]
Holds(t, v, doubt) ==
    /\ held' = [held EXCEPT ![t] = v]
    /\ outdated' = [outdated EXCEPT ![t] = doubt]
HoldsNothing(t) == Holds(t, NoPath, FALSE)

\* The query is over, with an answer or with an exception.
Ends(t, l) ==
    /\ Goto(t, l)
    /\ HoldsNothing(t)
    /\ aim' = [aim EXCEPT ![t] = "paths"]
    /\ then' = [then EXCEPT ![t] = "check"]
    /\ UNCHANGED <<graph, cache, stale, asked, raced, changes>>

Cached(c, t) == asked[t] \in DOMAIN cache[c]

\* The entry was stored outdated, or is about to be cleared.
Doubtful(c, q) == <<c, q>> \in raced \/ c \in ToSet(stale)

\* path() looks the pair up, for its own caller or for those of
\* path_resources() and processing_time().
Look(t, q, c) ==
    /\ Free(t) /\ (t = "simulation" => stale = <<>>)
    /\ Goto(t, IF q \in DOMAIN cache["paths"] THEN "check" ELSE "compute")
    /\ asked' = [asked EXCEPT ![t] = q]
    /\ aim' = [aim EXCEPT ![t] = c]
    /\ UNCHANGED <<graph, cache, stale, then, held, outdated, raced, changes>>

\* _compute_path.  Without a path, path() answers None.
Compute(t) ==
    /\ at[t] = "compute"
    /\ Path(asked[t]) # NoPath
    /\ Holds(t, Path(asked[t]), FALSE)
    /\ Goto(t, "cost")
    /\ UNCHANGED <<graph, cache, stale, query, raced, changes>>

NoneFound(t) == at[t] = "compute" /\ Path(asked[t]) = NoPath /\ Ends(t, "idle")

\* _path_costs.
Cost(t) ==
    /\ at[t] = "cost"
    /\ Hops(held[t]) \subseteq DOMAIN link
    /\ Goto(t, "storePath")
    /\ UNCHANGED <<graph, cache, stale, query, held, outdated, raced, changes>>

\* Mutant: the entry of the way back.
StoreBack(t, c, next) ==
    LET q == <<asked[t][2], asked[t][1]>> IN
    /\ cache' = [cache EXCEPT ![c] = With(@, q, held[t])]
    /\ Goto(t, next)
    /\ IF c = "paths" THEN UNCHANGED <<held, outdated>> ELSE HoldsNothing(t)
    /\ UNCHANGED <<graph, stale, query, raced, changes>>

Store(t, c, next) ==
    /\ cache' = [cache EXCEPT ![c] = With(@, asked[t], held[t])]
    /\ raced' = IF outdated[t] THEN raced \cup {<<c, asked[t]>>} ELSE raced \ {<<c, asked[t]>>}
    /\ Goto(t, next)
    /\ IF c = "paths" THEN UNCHANGED <<held, outdated>> ELSE HoldsNothing(t)
    /\ UNCHANGED <<graph, stale, query, changes>>

StorePath(t)  == at[t] = "storePath"  /\ Store(t, "paths", "storeCosts")
StoreCosts(t) == at[t] = "storeCosts" /\ Store(t, "costs", "readCosts")

\* _cache_path_resources, from the costs in the cache.
ReadCosts(t) ==
    /\ at[t] = "readCosts"
    /\ Cached("costs", t)
    /\ Holds(t, Aggregate(cache["costs"][asked[t]]), Doubtful("costs", asked[t]))
    /\ Goto(t, "storeResources")
    /\ UNCHANGED <<graph, cache, stale, query, raced, changes>>

StoreResources(t) ==
    /\ at[t] = "storeResources"
    /\ Store(t, "resources", IF then[t] = "return" THEN "return" ELSE "readPath")

\* _cache_processing_time, from the path in the cache and its nodes' attributes.
Readable(t) == Cached("paths", t) /\ ToSet(cache["paths"][asked[t]]) \subseteq nodes

ReadPath(t) ==
    /\ at[t] = "readPath"
    /\ Readable(t)
    /\ Holds(t, TimeOf(cache["paths"][asked[t]]), Doubtful("paths", asked[t]))
    /\ Goto(t, "storeTime")
    /\ UNCHANGED <<graph, cache, stale, query, raced, changes>>

StoreTime(t) == at[t] = "storeTime" /\ Store(t, "times", then[t])

\* A path with a node that is not available is computed again.
Check(t) ==
    /\ at[t] = "check"
    /\ Cached("paths", t)
    /\ IF ToSet(cache["paths"][asked[t]]) \subseteq nodes \cap up
       THEN Goto(t, "compare") /\ UNCHANGED then
       ELSE Goto(t, "compute") /\ then' = [then EXCEPT ![t] = "answer"]
    /\ UNCHANGED <<graph, cache, stale, asked, aim, held, outdated, raced, changes>>

CostChanged(c, cached) ==
    IF cached = 0 THEN c # 0 ELSE 20 * (IF c < cached THEN cached - c ELSE c - cached) >= cached

\* The costs of the path's hops against those in the cache, which may be of
\* another path.
Differ(p, cached) ==
    LET Lat(i, path) == (link @@ gone)[<<path[i], path[i + 1]>>].lat
    IN  \/ Len(p) # Len(cached)
        \/ \E i \in 1..(Len(p) - 1) : CostChanged(Lat(i, p), Lat(i, cached))

Comparable(t) ==
    /\ Cached("paths", t) /\ Cached("costs", t)
    /\ Hops(cache["paths"][asked[t]]) \subseteq DOMAIN link

Compare(t) ==
    /\ at[t] = "compare"
    /\ Comparable(t)
    /\ IF Differ(cache["paths"][asked[t]], cache["costs"][asked[t]])
       THEN Goto(t, "compute") /\ then' = [then EXCEPT ![t] = "answer"]
       ELSE Goto(t, "answer") /\ UNCHANGED then
    /\ UNCHANGED <<graph, cache, stale, asked, aim, held, outdated, raced, changes>>

\* path() returns.  path_resources() and processing_time() return their sum
\* from the cache, where they first put it if it is not there.
Answer(t) ==
    /\ at[t] = "answer"
    /\ Cached("costs", t) /\ aim[t] # "paths"
    /\ Goto(t, IF Cached(aim[t], t) THEN "return"
               ELSE IF aim[t] = "times" THEN "readPath" ELSE "readCosts")
    /\ then' = [then EXCEPT ![t] = "return"]
    /\ UNCHANGED <<graph, cache, stale, asked, aim, held, outdated, raced, changes>>

Return(t) ==
    /\ \/ at[t] = "answer" /\ aim[t] = "paths" /\ Cached("costs", t)
       \/ at[t] = "return" /\ Cached(aim[t], t)
    /\ Ends(t, "idle")

\* A link that is gone, or what is in the cache no more, raises KeyError.
Raise(t) ==
    /\ \/ at[t] = "cost" /\ ~(Hops(held[t]) \subseteq DOMAIN link)
       \/ at[t] = "check" /\ ~Cached("paths", t)
       \/ at[t] = "compare" /\ ~Comparable(t)
       \/ at[t] \in {"answer", "readCosts"} /\ ~Cached("costs", t)
       \/ at[t] = "readPath" /\ ~Readable(t)
       \/ at[t] = "return" /\ ~Cached(aim[t], t)
    /\ Ends(t, "raised")

Aims(t) == IF t = "actor" THEN {"paths", "times"} ELSE {"paths", "resources", "times"}

Query(t) ==
    \/ \E q \in Queries, c \in Aims(t) : Look(t, q, c)
    \/ Check(t) \/ Compare(t) \/ Answer(t) \/ Return(t) \/ Raise(t)
    \/ Compute(t) \/ NoneFound(t) \/ Cost(t) \/ StorePath(t) \/ StoreCosts(t)
    \/ ReadCosts(t) \/ StoreResources(t) \/ ReadPath(t) \/ StoreTime(t)

Next ==
    \/ \E e \in DOMAIN Links :
          \/ \E assets \in LinkAssets : SetLink(e, assets)
          \/ AddLink(e)
          \/ RemoveLink(e)
    \/ \E n \in Nodes :
          \/ SetAvailability(n)
          \/ \E t \in Times : SetTime(n, t)
          \/ RemoveNode(n)
          \/ AddNode(n)
    \/ Clear
    \/ EvolveEnds
    \/ \E t \in Threads : Query(t)

Spec == Init /\ [][Next]_vars

-----------------------------------------------------------------------------
(* Properties.                                                             *)

Places ==
    {"idle", "raised", "check", "compare", "answer", "return", "compute", "cost", "storePath",
     "storeCosts", "readCosts", "storeResources", "readPath", "storeTime"}

\* What a cache should hold of a pair.
Fresh(c, q) ==
    CASE c \in {"paths", "costs"} -> Path(q)
      [] c = "resources"          -> Aggregate(Path(q))
      [] c = "times"              -> TimeOf(Path(q))

\* Every variable has its type; the entries are of the pairs asked for, and a
\* hook runs while the simulation's thread has no query under way.
TypeOK ==
    /\ nodes \subseteq Nodes /\ up \subseteq Nodes
    /\ time \in [Nodes -> Times]
    /\ DOMAIN link \cup DOMAIN gone \subseteq DOMAIN Links
    /\ DOMAIN link \cap DOMAIN gone = {}
    /\ \A e \in DOMAIN link : link[e] \in [lat : Nat, bw : Nat]
    /\ DOMAIN cache = Caches /\ \A c \in Caches : DOMAIN cache[c] \subseteq Queries
    /\ stale \in Seq(Caches) /\ (stale # <<>> => Free("simulation"))
    /\ at \in [Threads -> Places]
    /\ asked \in [Threads -> Queries]
    /\ aim \in [Threads -> Caches \ {"costs"}]
    /\ then \in [Threads -> {"check", "answer", "return"}]
    /\ DOMAIN held = Threads /\ outdated \in [Threads -> BOOLEAN]
    /\ raced \subseteq Caches \X Queries
    /\ changes \in 0..MaxChanges

Settled == stale = <<>>

\* Between two changes a cached path, and its costs, are those that would be
\* computed now, unless the graph changed between their computation and their
\* store: no change goes without its hook, whatever it is a change of.
CachedPathsFresh ==
    Settled =>
        \A c \in {"paths", "costs"} : \A q \in DOMAIN cache[c] :
            <<c, q>> \notin raced => cache[c][q] = Fresh(c, q)

\* What is cached along a path is what the links and nodes of that path hold
\* now, with the same exception; what was computed from an entry stored late,
\* or about to be cleared, counts as late itself.
CachedSumsFresh ==
    Settled =>
        \A c \in {"resources", "times"} : \A q \in DOMAIN cache[c] :
            <<c, q>> \notin raced => cache[c][q] = Fresh(c, q)

\* The docstring of path(), "or None if no path exists", of the simulation's
\* own queries: none of them raises.  Violated: between the store of a path and
\* that of its costs by the actor.
OwnQueriesAnswer == at["simulation"] # "raised"

\* The docstring of _invalidate_cache(), "so that stale paths are not returned":
\* what path() is about to return to the simulation is the path of now.  Violated: the actor
\* computed it before a change and stored it after.
StaleNotReturned ==
    at["simulation"] = "answer" /\ Cached("costs", "simulation") =>
        cache["costs"][asked["simulation"]] = Path(asked["simulation"])
=============================================================================
