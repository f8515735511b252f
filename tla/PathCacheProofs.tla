-------------------------- MODULE PathCacheProofs ---------------------------
(***************************************************************************)
(* What the caches of PathCache.tla hold, for any graph, any changes and   *)
(* any interleaving of the two threads' queries with them.  Of             *)
(* ShortestPath the proofs use only that it depends on the nodes that are  *)
(* up and the latencies of the links.                                      *)
(***************************************************************************)
EXTENDS PathCache, DataProofs

GraphOK ==
    /\ nodes \subseteq Nodes /\ up \subseteq Nodes
    /\ time \in [Nodes -> Times]
    /\ DOMAIN link \cup DOMAIN gone \subseteq DOMAIN Links
    /\ DOMAIN link \cap DOMAIN gone = {}
    /\ \A e \in DOMAIN link : link[e] \in [lat : Nat, bw : Nat]

\* What a hook clears: everything, or the sums of one kind.
Hooks == {All, <<"resources">>, <<"times">>}

\* What a hook has yet to clear.
HookOfChange ==
    stale \in Hooks \cup {<<>>, <<"costs", "resources", "times">>, <<"resources", "times">>}

\* Entries are fresh, but for what the hook under way is about to clear and
\* for what was stored outdated.
EntriesFresh ==
    \A c \in Caches : c \notin ToSet(stale) =>
        \A q \in DOMAIN cache[c] : <<c, q>> \notin raced => cache[c][q] = Fresh(c, q)

\* So is what a thread holds, unless the graph changed since.
HeldFresh ==
    \A t \in Threads : ~outdated[t] => \A c \in HeldFor(t) : held[t] = Fresh(c, asked[t])

Inv ==
    /\ TypeOK
    /\ HookOfChange
    /\ EntriesFresh
    /\ HeldFresh

LEMMA HookTypes ==
    /\ <<"paths", "costs", "resources", "times">> \in Seq(Caches)
    /\ <<"costs", "resources", "times">> \in Seq(Caches)
    /\ <<"resources", "times">> \in Seq(Caches)
    /\ <<"resources">> \in Seq(Caches)
    /\ <<"times">> \in Seq(Caches)
    /\ <<>> \in Seq(Caches)
<1>1. <<"paths", "costs", "resources", "times">> \in Seq(Caches)
  BY DEF Caches
<1>2. <<"costs", "resources", "times">> \in Seq(Caches)
  BY DEF Caches
<1>3. <<"resources", "times">> \in Seq(Caches)
  BY DEF Caches
<1>4. <<"resources">> \in Seq(Caches)
  BY DEF Caches
<1>5. <<"times">> \in Seq(Caches)
  BY DEF Caches
<1> QED
  BY <1>1, <1>2, <1>3, <1>4, <1>5

LEMMA HookFacts ==
    ASSUME HookOfChange
    PROVE  /\ stale \in Seq(Caches)
           /\ stale = <<>> => ToSet(stale) = {}
           /\ stale # <<>> =>
                /\ Head(stale) \in Caches
                /\ Tail(stale) \in Seq(Caches)
                /\ Tail(stale) \in {<<>>, <<"costs", "resources", "times">>,
                                    <<"resources", "times">>, <<"times">>}
                /\ ToSet(stale) \subseteq ToSet(Tail(stale)) \cup {Head(stale)}
<1>1. stale \in Seq(Caches)
  BY HookTypes DEF HookOfChange, Hooks, All
<1>2. stale = <<>> => ToSet(stale) = {}
  BY DEF ToSet
<1>3. ASSUME stale # <<>>
      PROVE  /\ Head(stale) \in Caches
             /\ Tail(stale) \in Seq(Caches)
             /\ ToSet(stale) \subseteq ToSet(Tail(stale)) \cup {Head(stale)}
  <2>1. /\ Head(stale) \in Caches /\ Tail(stale) \in Seq(Caches)
        /\ Len(stale) \in Nat /\ Len(Tail(stale)) = Len(stale) - 1 /\ Head(stale) = stale[1]
        /\ \A i \in 1..Len(Tail(stale)) : Tail(stale)[i] = stale[i + 1]
    BY <1>1, <1>3, HeadTailProperties
  <2>2. DOMAIN stale = 1..Len(stale) /\ DOMAIN Tail(stale) = 1..Len(Tail(stale))
    BY <1>1, <2>1, LenProperties
  <2>3. ASSUME NEW i \in 1..Len(stale), i # 1
        PROVE  i - 1 \in 1..Len(Tail(stale)) /\ Tail(stale)[i - 1] = stale[i]
    BY <2>1, <2>3
  <2>4. ASSUME NEW i \in DOMAIN stale
        PROVE  stale[i] \in ToSet(Tail(stale)) \cup {Head(stale)}
    BY <2>1, <2>2, <2>3, <2>4 DEF ToSet
  <2> QED
    BY <2>1, <2>4 DEF ToSet
<1>4. ASSUME stale # <<>>
      PROVE  Tail(stale) \in {<<>>, <<"costs", "resources", "times">>,
                              <<"resources", "times">>, <<"times">>}
  <2>1. CASE stale = <<"paths", "costs", "resources", "times">>
    BY <2>1
  <2>2. CASE stale = <<"costs", "resources", "times">>
    BY <2>2
  <2>3. CASE stale = <<"resources", "times">>
    BY <2>3
  <2>4. CASE stale \in {<<"resources">>, <<"times">>}
    <3>1. Tail(<<"resources">>) = <<>> /\ Tail(<<"times">>) = <<>>
      OBVIOUS
    <3> QED
      BY <2>4, <3>1
  <2> QED
    BY <1>4, <2>1, <2>2, <2>3, <2>4 DEF HookOfChange, Hooks, All
<1> QED
  BY <1>1, <1>2, <1>3, <1>4

-----------------------------------------------------------------------------
(* Changes.                                                                *)

\* A change is sound when its hook clears whatever it makes stale.
LEMMA ChangeInv ==
    ASSUME PathCacheAssumption, Inv, GraphOK', NEW cs \in Hooks, Change(cs),
           \A c \in Caches \ ToSet(cs) : \A q \in Queries : Fresh(c, q)' = Fresh(c, q)
    PROVE  Inv'
<1>1. /\ stale = <<>> /\ stale' = cs /\ Free("simulation")
      /\ changes' = changes + 1 /\ changes < MaxChanges
      /\ outdated' = [t \in Threads |-> outdated[t] \/ HeldFor(t) \cap ToSet(cs) # {}]
      /\ UNCHANGED <<cache, at, asked, aim, then, held, raced>>
  BY DEF Change, query
<1>2. TypeOK'
  <2>1. changes' \in 0..MaxChanges
    BY <1>1, PathCacheAssumption DEF Inv, TypeOK, PathCacheAssumption
  <2>2. stale' \in Seq(Caches) /\ Free("simulation")'
    <3>1. cs \in Seq(Caches)
      BY HookTypes DEF Hooks, All
    <3> QED
      BY <1>1, <3>1 DEF Free
  <2>3. outdated' \in [Threads -> BOOLEAN]
    BY <1>1
  <2> QED
    BY <1>1, <2>1, <2>2, <2>3 DEF Inv, TypeOK, GraphOK
<1>3. HookOfChange'
  BY <1>1 DEF HookOfChange
<1>4. EntriesFresh'
  <2> SUFFICES ASSUME NEW c \in Caches, c \notin ToSet(cs), NEW q \in DOMAIN cache[c],
                      <<c, q>> \notin raced
               PROVE  cache[c][q] = Fresh(c, q)'
    BY <1>1 DEF EntriesFresh
  <2>1. c \notin ToSet(stale)
    BY <1>1, HookFacts DEF Inv
  <2>2. q \in Queries
    BY DEF Inv, TypeOK
  <2> QED
    BY <2>1, <2>2 DEF Inv, EntriesFresh
<1>5. HeldFresh'
  <2> SUFFICES ASSUME NEW t \in Threads, ~outdated[t], HeldFor(t) \cap ToSet(cs) = {},
                      NEW c \in HeldFor(t)
               PROVE  held[t] = Fresh(c, asked[t])'
    BY <1>1 DEF HeldFresh, HeldFor
  <2>1. c \in Caches /\ asked[t] \in Queries
    BY DEF HeldFor, Caches, Inv, TypeOK
  <2> QED
    BY <1>1, <2>1 DEF Inv, HeldFresh
<1> QED
  BY <1>2, <1>3, <1>4, <1>5 DEF Inv

\* Every cache is in ToSet(All).
LEMMA AllCaches == ToSet(All) = Caches /\ All \in Hooks
BY DEF All, Caches, ToSet, Hooks

LEMMA SumHooks ==
    /\ ToSet(<<"resources">>) = {"resources"} /\ <<"resources">> \in Hooks
    /\ ToSet(<<"times">>) = {"times"} /\ <<"times">> \in Hooks
BY DEF ToSet, Hooks

LEMMA SetLinkInv ==
    ASSUME PathCacheAssumption, Inv, NEW e \in DOMAIN Links, NEW assets \in LinkAssets,
           SetLink(e, assets)
    PROVE  Inv'
<1>1. /\ e \in DOMAIN link
      /\ link' = [link EXCEPT ![e] = assets]
      /\ UNCHANGED <<nodes, up, time, gone>>
      /\ Change(StaleByLink(link[e], assets))
  BY DEF SetLink
<1>2. GraphOK'
  BY <1>1, PathCacheAssumption DEF PathCacheAssumption, Inv, TypeOK, GraphOK
<1>3. CASE assets.lat # link[e].lat
  <2>1. StaleByLink(link[e], assets) = All
    BY <1>3 DEF StaleByLink
  <2> QED
    BY <1>1, <1>2, <2>1, AllCaches, ChangeInv
<1>4. CASE assets.lat = link[e].lat
  <2>1. StaleByLink(link[e], assets) = <<"resources">>
    BY <1>4 DEF StaleByLink
  <2>2. Latencies(link') = Latencies(link)
    BY <1>1, <1>4 DEF Latencies
  <2>3. \A c \in Caches \ {"resources"} : \A q \in Queries : Fresh(c, q)' = Fresh(c, q)
    BY <1>1, <2>2 DEF Fresh, Path, TimeOf, Caches
  <2> QED
    BY <1>1, <1>2, <2>1, <2>3, SumHooks, ChangeInv
<1> QED
  BY <1>3, <1>4

LEMMA SetTimeInv ==
    ASSUME PathCacheAssumption, Inv, NEW n \in Nodes, NEW t \in Times, SetTime(n, t)
    PROVE  Inv'
<1>1. /\ time' = [time EXCEPT ![n] = t]
      /\ UNCHANGED <<nodes, up, link, gone>>
      /\ Change(<<"times">>)
  BY DEF SetTime
<1>2. GraphOK'
  BY <1>1 DEF Inv, TypeOK, GraphOK
<1>3. \A c \in Caches \ {"times"} : \A q \in Queries : Fresh(c, q)' = Fresh(c, q)
  BY <1>1 DEF Fresh, Path, Aggregate, Caches
<1> QED
  BY <1>1, <1>2, <1>3, SumHooks, ChangeInv

\* The changes whose hook clears everything.
LEMMA OtherChangesInv ==
    ASSUME PathCacheAssumption, Inv,
           \/ \E e \in DOMAIN Links : AddLink(e) \/ RemoveLink(e)
           \/ \E n \in Nodes : SetAvailability(n) \/ RemoveNode(n) \/ AddNode(n)
    PROVE  Inv'
<1>1. Change(All)
  BY DEF AddLink, RemoveLink, SetAvailability, RemoveNode, AddNode
<1>2. GraphOK'
  <2>1. ASSUME NEW cut \in SUBSET DOMAIN link, Drop(cut)
        PROVE  /\ DOMAIN link' = DOMAIN link \ cut
               /\ \A e \in DOMAIN link' : link'[e] = link[e]
               /\ DOMAIN gone' = cut \cup DOMAIN gone
    BY <2>1 DEF Drop
  <2>2. ASSUME NEW e \in DOMAIN Links, AddLink(e) PROVE GraphOK'
    <3>1. /\ DOMAIN link' = DOMAIN link \cup {e}
          /\ \A d \in DOMAIN link' : link'[d] = IF d = e THEN Links[e] ELSE link[d]
      BY <2>2 DEF AddLink, With
    <3>2. Links[e] \in [lat : Nat, bw : Nat]
      BY PathCacheAssumption DEF PathCacheAssumption
    <3>3. \A d \in DOMAIN link' : link'[d] \in [lat : Nat, bw : Nat]
      BY <3>1, <3>2 DEF Inv, TypeOK
    <3> QED
      BY <2>2, <3>1, <3>3 DEF AddLink, Inv, TypeOK, GraphOK
  <2>3. ASSUME NEW e \in DOMAIN Links, RemoveLink(e) PROVE GraphOK'
    <3>1. {e} \in SUBSET DOMAIN link /\ Drop({e}) /\ UNCHANGED <<nodes, up, time>>
      BY <2>3 DEF RemoveLink
    <3>2. /\ DOMAIN link' = DOMAIN link \ {e}
          /\ DOMAIN gone' = {e} \cup DOMAIN gone
          /\ \A d \in DOMAIN link' : link'[d] = link[d]
      BY <2>1, <3>1
    <3> QED
      BY <3>1, <3>2 DEF Inv, TypeOK, GraphOK
  <2>4. ASSUME NEW n \in Nodes, SetAvailability(n) \/ AddNode(n) PROVE GraphOK'
    BY <2>4 DEF SetAvailability, AddNode, Inv, TypeOK, GraphOK
  <2>5. ASSUME NEW n \in Nodes, RemoveNode(n) PROVE GraphOK'
    <3> DEFINE cut == {e \in DOMAIN link : n \in {e[1], e[2]}}
    <3>1. /\ cut \in SUBSET DOMAIN link /\ Drop(cut)
          /\ nodes' = nodes \ {n} /\ UNCHANGED <<up, time>>
      BY <2>5 DEF RemoveNode
    <3> HIDE DEF cut
    <3>2. /\ DOMAIN link' = DOMAIN link \ cut
          /\ DOMAIN gone' = cut \cup DOMAIN gone
          /\ \A d \in DOMAIN link' : link'[d] = link[d]
      BY <2>1, <3>1
    <3> QED
      BY <3>1, <3>2 DEF Inv, TypeOK, GraphOK
  <2> QED
    BY <2>2, <2>3, <2>4, <2>5
<1> QED
  BY <1>1, <1>2, AllCaches, ChangeInv

\* What is cleared holds nothing stale.
LEMMA ClearInv == ASSUME Inv, Clear PROVE Inv'
<1>1. /\ stale # <<>> /\ stale' = Tail(stale)
      /\ cache' = [cache EXCEPT ![Head(stale)] = <<>>]
      /\ raced' = {x \in raced : x[1] # Head(stale)}
      /\ UNCHANGED <<nodes, up, time, link, gone, at, asked, aim, then, held, outdated, changes>>
      /\ UNCHANGED graph
  BY DEF Clear, graph, thread, query
<1>2. /\ Head(stale) \in Caches
      /\ Tail(stale) \in Seq(Caches)
      /\ ToSet(stale) \subseteq ToSet(Tail(stale)) \cup {Head(stale)}
  BY <1>1, HookFacts DEF Inv
<1>3. DOMAIN <<>> = {}
  OBVIOUS
<1>4. /\ cache'[Head(stale)] = <<>>
      /\ \A c \in Caches \ {Head(stale)} : cache'[c] = cache[c]
      /\ DOMAIN cache' = Caches
  BY <1>1, <1>2 DEF Inv, TypeOK
<1>5. TypeOK'
  <2>1. \A c \in Caches : DOMAIN cache'[c] \subseteq Queries
    BY <1>3, <1>4 DEF Inv, TypeOK
  <2>2. raced' \subseteq Caches \X Queries
    BY <1>1 DEF Inv, TypeOK
  <2>3. stale' \in Seq(Caches) /\ (stale' # <<>> => Free("simulation")')
    BY <1>1, <1>2 DEF Inv, TypeOK, Free
  <2> QED
    BY <1>1, <1>4, <2>1, <2>2, <2>3 DEF Inv, TypeOK
<1>6. HookOfChange'
  BY <1>1, HookFacts DEF Inv, HookOfChange, Hooks
<1>7. EntriesFresh'
  <2> SUFFICES ASSUME NEW c \in Caches, c \notin ToSet(Tail(stale)), NEW q \in DOMAIN cache'[c],
                      <<c, q>> \notin raced'
               PROVE  cache'[c][q] = Fresh(c, q)'
    BY <1>1 DEF EntriesFresh
  <2>1. c # Head(stale)
    BY <1>3, <1>4
  <2>2. c \notin ToSet(stale) /\ cache'[c] = cache[c] /\ <<c, q>> \notin raced
    BY <1>1, <1>2, <1>4, <2>1
  <2>3. cache[c][q] = Fresh(c, q)
    BY <2>2 DEF Inv, EntriesFresh
  <2> QED
    BY <1>1, <2>2, <2>3 DEF Fresh, Path, Aggregate, TimeOf
<1>8. HeldFresh'
  BY <1>1 DEF Inv, HeldFresh, HeldFor, Fresh, Path, Aggregate, TimeOf
<1> QED
  BY <1>5, <1>6, <1>7, <1>8 DEF Inv

\* The graph is as it was: so is what the caches should hold of it.
LEMMA GraphFrame ==
    ASSUME UNCHANGED graph
    PROVE  /\ UNCHANGED <<nodes, up, time, link, gone>>
           /\ \A c, q : Fresh(c, q)' = Fresh(c, q)
           /\ \A q : Path(q)' = Path(q)
BY DEF graph, Fresh, Path, Aggregate, TimeOf

LEMMA EvolveEndsInv == ASSUME Inv, EvolveEnds PROVE Inv'
<1>1. /\ stale = <<>> /\ stale' = All /\ Free("simulation")
      /\ UNCHANGED <<nodes, up, time, link, gone, cache, at, asked, aim, then, held, outdated,
                     raced, changes>>
  BY DEF EvolveEnds, graph, thread, query
<1>2. TypeOK'
  <2>1. stale' \in Seq(Caches) /\ Free("simulation")'
    BY <1>1 DEF All, Caches, Free
  <2> QED
    BY <1>1, <2>1 DEF Inv, TypeOK
<1>3. HookOfChange'
  BY <1>1 DEF HookOfChange, Hooks
<1>4. EntriesFresh'
  BY <1>1, AllCaches DEF EntriesFresh
<1>5. HeldFresh'
  BY <1>1 DEF Inv, HeldFresh, HeldFor, Fresh, Path, Aggregate, TimeOf
<1> QED
  BY <1>2, <1>3, <1>4, <1>5 DEF Inv

-----------------------------------------------------------------------------
(* Queries.                                                                *)

\* A step of a query that stores nothing keeps the invariant if what the
\* thread holds afterwards is fresh or known to be outdated.
LEMMA QuietStep ==
    ASSUME Inv, NEW t \in Threads,
           UNCHANGED <<graph, cache, stale, raced, changes>>,
           t = "simulation" => stale = <<>>,
           at' \in [Threads -> Places], asked' \in [Threads -> Queries],
           aim' \in [Threads -> Caches \ {"costs"}],
           then' \in [Threads -> {"check", "answer", "return"}],
           DOMAIN held' = Threads, outdated' \in [Threads -> BOOLEAN],
           \A u \in Threads \ {t} :
               /\ at'[u] = at[u] /\ asked'[u] = asked[u]
               /\ held'[u] = held[u] /\ outdated'[u] = outdated[u],
           ~outdated'[t] => \A c \in HeldFor(t)' : held'[t] = Fresh(c, asked'[t])
    PROVE  Inv'
<1>1. /\ UNCHANGED <<nodes, up, time, link, gone>>
      /\ \A c, q : Fresh(c, q)' = Fresh(c, q)
  BY GraphFrame
<1>2. TypeOK'
  <2>1. stale' # <<>> => Free("simulation")'
    <3>1. CASE t = "simulation"
      BY <3>1
    <3>2. CASE t # "simulation"
      BY <3>2 DEF Inv, TypeOK, Free, Threads
    <3> QED
      BY <3>1, <3>2
  <2> QED
    BY <1>1, <2>1 DEF Inv, TypeOK
<1>3. HookOfChange' /\ EntriesFresh'
  BY <1>1 DEF Inv, HookOfChange, EntriesFresh
<1>4. HeldFresh'
  <2> SUFFICES ASSUME NEW u \in Threads, ~outdated'[u], NEW c \in HeldFor(u)'
               PROVE  held'[u] = Fresh(c, asked'[u])
    BY <1>1 DEF HeldFresh
  <2>1. CASE u = t
    BY <2>1
  <2>2. CASE u # t
    <3>1. HeldFor(u)' = HeldFor(u)
      BY <2>2 DEF HeldFor
    <3> QED
      BY <2>2, <3>1 DEF Inv, HeldFresh
  <2> QED
    BY <2>1, <2>2
<1> QED
  BY <1>2, <1>3, <1>4 DEF Inv

\* A thread with a query under way is not amid a hook.
LEMMA Busy ==
    ASSUME Inv, NEW t \in Threads, ~Free(t) PROVE t = "simulation" => stale = <<>>
BY DEF Inv, TypeOK

\* A thread that goes on in its query with what it holds, and holds it for
\* nothing it did not hold it for before.
LEMMA GoesOn ==
    ASSUME Inv, NEW t \in Threads, NEW l \in Places,
           UNCHANGED <<graph, cache, stale, raced, changes, held, outdated>>,
           t = "simulation" => stale = <<>>,
           at' = [at EXCEPT ![t] = l], asked' \in [Threads -> Queries],
           aim' \in [Threads -> Caches \ {"costs"}],
           then' \in [Threads -> {"check", "answer", "return"}],
           \A u \in Threads \ {t} : asked'[u] = asked[u],
           \/ l \in {"check", "compare", "answer", "return", "compute", "readCosts", "readPath"}
           \/ l = "storePath" /\ at[t] = "cost" /\ asked' = asked
    PROVE  Inv'
<1>1. /\ at' \in [Threads -> Places] /\ at'[t] = l
      /\ \A u \in Threads \ {t} : at'[u] = at[u]
  BY DEF Inv, TypeOK
<1>2. DOMAIN held' = Threads /\ outdated' \in [Threads -> BOOLEAN]
  BY DEF Inv, TypeOK
<1>3. ~outdated'[t] => \A c \in HeldFor(t)' : held'[t] = Fresh(c, asked'[t])
  <2>1. CASE l \in {"check", "compare", "answer", "return", "compute", "readCosts", "readPath"}
    <3>1. HeldFor(t)' = {}
      BY <1>1, <2>1 DEF HeldFor
    <3> QED
      BY <3>1
  <2>2. CASE l = "storePath" /\ at[t] = "cost" /\ asked' = asked
    <3>1. HeldFor(t)' = HeldFor(t)
      BY <1>1, <2>2 DEF HeldFor
    <3> QED
      BY <2>2, <3>1 DEF Inv, HeldFresh
  <2> QED
    BY <2>1, <2>2
<1> QED
  BY <1>1, <1>2, <1>3, QuietStep

LEMMA LookInv ==
    ASSUME Inv, NEW t \in Threads, NEW q \in Queries, NEW c \in Aims(t), Look(t, q, c)
    PROVE  Inv'
<1>1. PICK l \in {"check", "compute"} : at' = [at EXCEPT ![t] = l]
  BY DEF Look, Goto
<1>2. /\ asked' \in [Threads -> Queries]
      /\ \A u \in Threads \ {t} : asked'[u] = asked[u]
      /\ aim' \in [Threads -> Caches \ {"costs"}]
      /\ then' \in [Threads -> {"check", "answer", "return"}]
  BY DEF Look, Aims, Caches, Inv, TypeOK
<1>3. /\ UNCHANGED <<graph, cache, stale, raced, changes, held, outdated>>
      /\ t = "simulation" => stale = <<>>
  BY DEF Look
<1> QED
  BY <1>1, <1>2, <1>3, GoesOn DEF Places

LEMMA CheckInv ==
    ASSUME Inv, NEW t \in Threads, Check(t) \/ Compare(t) \/ Answer(t)
    PROVE  Inv'
<1>1. PICK l \in {"compare", "compute", "answer", "return", "readCosts", "readPath"} :
          at' = [at EXCEPT ![t] = l]
  BY DEF Check, Compare, Answer, Goto
<1>2. /\ asked' = asked /\ aim' = aim
      /\ then' \in [Threads -> {"check", "answer", "return"}]
  BY DEF Check, Compare, Answer, Inv, TypeOK
<1>3. /\ UNCHANGED <<graph, cache, stale, raced, changes, held, outdated>>
      /\ ~Free(t)
  BY DEF Check, Compare, Answer, Free
<1> QED
  BY <1>1, <1>2, <1>3, GoesOn, Busy DEF Places, Inv, TypeOK

LEMMA CostInv == ASSUME Inv, NEW t \in Threads, Cost(t) PROVE Inv'
<1>1. /\ at[t] = "cost" /\ ~Free(t)
      /\ at' = [at EXCEPT ![t] = "storePath"]
      /\ UNCHANGED <<graph, cache, stale, raced, changes, held, outdated, asked, aim, then>>
  BY DEF Cost, Goto, query, Free
<1> QED
  BY <1>1, GoesOn, Busy DEF Places, Inv, TypeOK

\* A thread that ends its query, or has computed something.
LEMMA HoldsInv ==
    ASSUME Inv, NEW t \in Threads, ~Free(t), NEW v, NEW doubt \in BOOLEAN, NEW l \in Places,
           Holds(t, v, doubt), Goto(t, l),
           UNCHANGED <<graph, cache, stale, asked, raced, changes>>,
           aim' \in [Threads -> Caches \ {"costs"}],
           then' \in [Threads -> {"check", "answer", "return"}],
           ~doubt => \A c \in HeldFor(t)' : v = Fresh(c, asked[t])
    PROVE  Inv'
<1>1. /\ at' \in [Threads -> Places] /\ at'[t] = l
      /\ \A u \in Threads \ {t} : at'[u] = at[u]
  BY DEF Goto, Inv, TypeOK
<1>2. /\ DOMAIN held' = Threads /\ held'[t] = v
      /\ \A u \in Threads \ {t} : held'[u] = held[u]
  BY DEF Holds, Inv, TypeOK
<1>3. /\ outdated' \in [Threads -> BOOLEAN] /\ outdated'[t] = doubt
      /\ \A u \in Threads \ {t} : outdated'[u] = outdated[u]
  BY DEF Holds, Inv, TypeOK
<1>4. asked' \in [Threads -> Queries] /\ asked' = asked
  BY DEF Inv, TypeOK
<1>5. t = "simulation" => stale = <<>>
  BY Busy
<1>6. ~outdated'[t] => \A c \in HeldFor(t)' : held'[t] = Fresh(c, asked'[t])
  BY <1>2, <1>3, <1>4
<1> QED
  BY <1>1, <1>2, <1>3, <1>4, <1>5, <1>6, QuietStep

LEMMA ComputeInv == ASSUME Inv, NEW t \in Threads, Compute(t) PROVE Inv'
<1>1. /\ ~Free(t) /\ Holds(t, Path(asked[t]), FALSE) /\ Goto(t, "cost")
      /\ UNCHANGED <<graph, cache, stale, asked, raced, changes, aim, then>>
  BY DEF Compute, Free, query
<1>2. HeldFor(t)' = {"paths", "costs"}
  BY <1>1 DEF Goto, HeldFor, Inv, TypeOK
<1>3. \A c \in HeldFor(t)' : Path(asked[t]) = Fresh(c, asked[t])
  BY <1>2 DEF Fresh
<1>4. aim' \in [Threads -> Caches \ {"costs"}] /\ then' \in [Threads -> {"check", "answer", "return"}]
  BY <1>1 DEF Inv, TypeOK
<1>5. "cost" \in Places
  BY DEF Places
<1> QED
  BY <1>1, <1>3, <1>4, <1>5, HoldsInv

LEMMA EndsInv ==
    ASSUME Inv, NEW t \in Threads, NoneFound(t) \/ Return(t) \/ Raise(t) PROVE Inv'
<1>1. PICK l \in {"idle", "raised"} : Ends(t, l)
  BY DEF NoneFound, Return, Raise
<1>2. ~Free(t)
  BY DEF NoneFound, Return, Raise, Free
<1>3. /\ Holds(t, NoPath, FALSE) /\ Goto(t, l)
      /\ UNCHANGED <<graph, cache, stale, asked, raced, changes>>
      /\ aim' = [aim EXCEPT ![t] = "paths"] /\ then' = [then EXCEPT ![t] = "check"]
  BY <1>1 DEF Ends, HoldsNothing
<1>4. /\ aim' \in [Threads -> Caches \ {"costs"}]
      /\ then' \in [Threads -> {"check", "answer", "return"}]
  BY <1>3 DEF Caches, Inv, TypeOK
<1>5. HeldFor(t)' = {}
  BY <1>3 DEF Goto, HeldFor, Inv, TypeOK
<1>6. l \in Places
  BY DEF Places
<1> QED
  BY <1>2, <1>3, <1>4, <1>5, <1>6, HoldsInv

\* What the cache has of a pair, if it is not doubtful, is what it should have.
LEMMA NotDoubtful ==
    ASSUME Inv, NEW t \in Threads, NEW c \in Caches, Cached(c, t), ~Doubtful(c, asked[t])
    PROVE  cache[c][asked[t]] = Fresh(c, asked[t])
BY DEF Inv, EntriesFresh, Cached, Doubtful

LEMMA ReadInv == ASSUME Inv, NEW t \in Threads, ReadCosts(t) \/ ReadPath(t) PROVE Inv'
<1>1. aim \in [Threads -> Caches \ {"costs"}] /\ then \in [Threads -> {"check", "answer", "return"}]
  BY DEF Inv, TypeOK
<1>2. CASE ReadCosts(t)
  <2> DEFINE v == Aggregate(cache["costs"][asked[t]])
             d == Doubtful("costs", asked[t])
  <2>1. /\ ~Free(t) /\ Cached("costs", t) /\ Holds(t, v, d) /\ Goto(t, "storeResources")
        /\ UNCHANGED <<graph, cache, stale, asked, raced, changes, aim, then>>
    BY <1>2 DEF ReadCosts, Free, query
  <2>2. HeldFor(t)' = {"resources"}
    BY <2>1 DEF Goto, HeldFor, Inv, TypeOK
  <2>3. ~d => v = Fresh("resources", asked[t])
    BY <2>1, NotDoubtful DEF Fresh, Caches
  <2>4. "storeResources" \in Places /\ d \in BOOLEAN
    BY DEF Places, Doubtful
  <2> HIDE DEF v, d
  <2> QED
    BY <1>1, <2>1, <2>2, <2>3, <2>4, HoldsInv
<1>3. CASE ReadPath(t)
  <2> DEFINE v == TimeOf(cache["paths"][asked[t]])
             d == Doubtful("paths", asked[t])
  <2>1. /\ ~Free(t) /\ Cached("paths", t) /\ Holds(t, v, d) /\ Goto(t, "storeTime")
        /\ UNCHANGED <<graph, cache, stale, asked, raced, changes, aim, then>>
    BY <1>3 DEF ReadPath, Readable, Free, query
  <2>2. HeldFor(t)' = {"times"}
    BY <2>1 DEF Goto, HeldFor, Inv, TypeOK
  <2>3. ~d => v = Fresh("times", asked[t])
    BY <2>1, NotDoubtful DEF Fresh, Caches
  <2>4. "storeTime" \in Places /\ d \in BOOLEAN
    BY DEF Places, Doubtful
  <2> HIDE DEF v, d
  <2> QED
    BY <1>1, <2>1, <2>2, <2>3, <2>4, HoldsInv
<1> QED
  BY <1>2, <1>3

\* A store: the entry is fresh if what is stored is not outdated.
LEMMA StoreInv ==
    ASSUME Inv, NEW t \in Threads, ~Free(t), NEW c \in Caches, NEW l \in Places,
           Store(t, c, l), c \in HeldFor(t),
           l = "storeCosts" \/ (c # "paths" /\
                l \in {"readCosts", "readPath", "return", "check", "answer"}),
           l = "storeCosts" => c = "paths" /\ at[t] = "storePath"
    PROVE  Inv'
<1> DEFINE q == asked[t]
<1>1. /\ cache' = [cache EXCEPT ![c] = With(cache[c], q, held[t])]
      /\ raced' = IF outdated[t] THEN raced \cup {<<c, q>>} ELSE raced \ {<<c, q>>}
      /\ at' = [at EXCEPT ![t] = l]
      /\ UNCHANGED <<nodes, up, time, link, gone, stale, asked, aim, then, changes>>
      /\ \A x, y : Fresh(x, y)' = Fresh(x, y)
  BY GraphFrame DEF Store, Goto, query
<1>2. q \in Queries /\ t \in Threads /\ (t = "simulation" => stale = <<>>)
  BY Busy DEF Inv, TypeOK
<1>3. /\ DOMAIN held' = Threads /\ outdated' \in [Threads -> BOOLEAN]
      /\ \A u \in Threads \ {t} : held'[u] = held[u] /\ outdated'[u] = outdated[u]
      /\ c = "paths" => held'[t] = held[t] /\ outdated'[t] = outdated[t]
  BY DEF Store, HoldsNothing, Holds, Inv, TypeOK
<1>4. /\ at' \in [Threads -> Places] /\ at'[t] = l
      /\ \A u \in Threads \ {t} : at'[u] = at[u]
  BY <1>1 DEF Inv, TypeOK
<1>5. /\ DOMAIN cache' = Caches
      /\ cache'[c] = With(cache[c], q, held[t])
      /\ \A x \in Caches \ {c} : cache'[x] = cache[x]
  BY <1>1 DEF Inv, TypeOK
<1>6. /\ DOMAIN cache'[c] = DOMAIN cache[c] \cup {q}
      /\ cache'[c][q] = held[t]
      /\ \A x \in DOMAIN cache[c] \ {q} : cache'[c][x] = cache[c][x]
  BY <1>5 DEF With
<1>7. TypeOK'
  <2>1. \A x \in Caches : DOMAIN cache'[x] \subseteq Queries
    BY <1>2, <1>5, <1>6 DEF Inv, TypeOK
  <2>2. raced' \subseteq Caches \X Queries
    BY <1>1, <1>2 DEF Inv, TypeOK
  <2>3. stale' \in Seq(Caches) /\ (stale' # <<>> => Free("simulation")')
    <3>1. CASE t = "simulation"
      BY <1>1, <1>2, <3>1 DEF Inv, TypeOK
    <3>2. CASE t # "simulation"
      BY <1>1, <1>4, <3>2 DEF Inv, TypeOK, Free, Threads
    <3> QED
      BY <3>1, <3>2
  <2> QED
    BY <1>1, <1>3, <1>4, <1>5, <2>1, <2>2, <2>3 DEF Inv, TypeOK
<1>8. HookOfChange'
  BY <1>1 DEF Inv, HookOfChange
<1>9. EntriesFresh'
  <2> SUFFICES ASSUME NEW x \in Caches, x \notin ToSet(stale), NEW y \in DOMAIN cache'[x],
                      <<x, y>> \notin raced'
               PROVE  cache'[x][y] = Fresh(x, y)
    BY <1>1 DEF EntriesFresh
  <2>1. CASE x = c /\ y = q
    <3>1. ~outdated[t]
      BY <1>1, <2>1
    <3> QED
      BY <1>6, <2>1, <3>1 DEF Inv, HeldFresh
  <2>2. CASE ~(x = c /\ y = q)
    <3>1. y \in DOMAIN cache[x] /\ cache'[x][y] = cache[x][y]
      BY <1>5, <1>6, <2>2
    <3>2. <<x, y>> \notin raced
      BY <1>1, <2>2
    <3> QED
      BY <3>1, <3>2 DEF Inv, EntriesFresh
  <2> QED
    BY <2>1, <2>2
<1>10. HeldFresh'
  <2> SUFFICES ASSUME NEW u \in Threads, ~outdated'[u], NEW x \in HeldFor(u)'
               PROVE  held'[u] = Fresh(x, asked[u])
    BY <1>1 DEF HeldFresh
  <2>1. CASE u # t
    <3>1. HeldFor(u)' = HeldFor(u)
      BY <1>4, <2>1 DEF HeldFor
    <3> QED
      BY <1>3, <2>1, <3>1 DEF Inv, HeldFresh
  <2>2. CASE u = t /\ l # "storeCosts"
    <3>1. HeldFor(t)' = {}
      BY <1>4, <2>2 DEF HeldFor
    <3> QED
      BY <2>2, <3>1
  <2>3. CASE u = t /\ l = "storeCosts"
    <3>1. at[t] = "storePath" /\ HeldFor(t)' = {"costs"} /\ HeldFor(t) = {"paths", "costs"}
      BY <1>4, <2>3 DEF HeldFor
    <3>2. held'[t] = held[t] /\ outdated'[t] = outdated[t]
      BY <1>3, <2>3
    <3> QED
      BY <2>3, <3>1, <3>2 DEF Inv, HeldFresh
  <2> QED
    BY <2>1, <2>2, <2>3
<1> QED
  BY <1>7, <1>8, <1>9, <1>10 DEF Inv

LEMMA StoresInv ==
    ASSUME Inv, NEW t \in Threads,
           StorePath(t) \/ StoreCosts(t) \/ StoreResources(t) \/ StoreTime(t)
    PROVE  Inv'
<1>1. then[t] \in {"check", "answer", "return"}
  BY DEF Inv, TypeOK
<1>2. CASE StorePath(t)
  <2>1. at[t] = "storePath" /\ Store(t, "paths", "storeCosts")
    BY <1>2 DEF StorePath
  <2> QED
    BY <2>1, StoreInv DEF HeldFor, Free, Caches, Places
<1>3. CASE StoreCosts(t)
  <2>1. at[t] = "storeCosts" /\ Store(t, "costs", "readCosts")
    BY <1>3 DEF StoreCosts
  <2> QED
    BY <2>1, StoreInv DEF HeldFor, Free, Caches, Places
<1>4. CASE StoreResources(t)
  <2>1. PICK l \in {"return", "readPath"} :
            at[t] = "storeResources" /\ Store(t, "resources", l)
    BY <1>4 DEF StoreResources
  <2> QED
    BY <2>1, StoreInv DEF HeldFor, Free, Caches, Places
<1>5. CASE StoreTime(t)
  <2>1. at[t] = "storeTime" /\ Store(t, "times", then[t])
    BY <1>5 DEF StoreTime
  <2> QED
    BY <1>1, <2>1, StoreInv DEF HeldFor, Free, Caches, Places
<1> QED
  BY <1>2, <1>3, <1>4, <1>5

LEMMA StutterInv == ASSUME Inv, UNCHANGED vars PROVE Inv'
<1>1. /\ UNCHANGED <<cache, stale, raced, changes, at, asked, aim, then, held, outdated>>
      /\ UNCHANGED <<nodes, up, time, link, gone>>
      /\ \A c, q : Fresh(c, q)' = Fresh(c, q)
  BY GraphFrame DEF vars, thread, query
<1>2. TypeOK'
  BY <1>1 DEF Inv, TypeOK, Free
<1>3. HookOfChange' /\ EntriesFresh'
  BY <1>1 DEF Inv, HookOfChange, EntriesFresh
<1>4. HeldFresh'
  BY <1>1 DEF Inv, HeldFresh, HeldFor
<1> QED
  BY <1>2, <1>3, <1>4 DEF Inv

-----------------------------------------------------------------------------
(* The theorems.                                                           *)

\* The invariant the others follow from: every change is followed by a hook
\* that clears what it made stale, and what a thread stores is of the graph as
\* it is unless the graph changed since the thread computed it.
THEOREM Invariance == Spec => []Inv
<1>1. Init => Inv
  <2> SUFFICES ASSUME Init PROVE Inv
    OBVIOUS
  <2>1. GraphOK
    BY PathCacheAssumption DEF Init, GraphOK, PathCacheAssumption
  <2>2. (CHOOSE q \in Queries : TRUE) \in Queries
    BY PathCacheAssumption DEF PathCacheAssumption
  <2>3. DOMAIN <<>> = {} /\ <<>> \in Seq(Caches)
    OBVIOUS
  <2>4. TypeOK
    <3>1. DOMAIN cache = Caches /\ \A c \in Caches : DOMAIN cache[c] \subseteq Queries
      BY <2>3 DEF Init
    <3>2. /\ at \in [Threads -> Places] /\ asked \in [Threads -> Queries]
          /\ aim \in [Threads -> Caches \ {"costs"}]
          /\ then \in [Threads -> {"check", "answer", "return"}]
          /\ DOMAIN held = Threads /\ outdated \in [Threads -> BOOLEAN]
      BY <2>2 DEF Init, Places, Caches
    <3>3. stale = <<>> /\ raced = {} /\ changes = 0
      BY DEF Init
    <3>4. changes \in 0..MaxChanges
      BY <3>3, PathCacheAssumption DEF PathCacheAssumption
    <3> QED
      BY <2>1, <2>3, <3>1, <3>2, <3>3, <3>4 DEF TypeOK, GraphOK
  <2>5. HookOfChange
    BY DEF Init, HookOfChange
  <2>6. EntriesFresh
    BY <2>3 DEF Init, EntriesFresh
  <2>7. HeldFresh
    BY DEF Init, HeldFresh, HeldFor
  <2> QED
    BY <2>4, <2>5, <2>6, <2>7 DEF Inv
<1>2. Inv /\ [Next]_vars => Inv'
  <2> SUFFICES ASSUME Inv, [Next]_vars PROVE Inv'
    OBVIOUS
  <2>1. ASSUME NEW e \in DOMAIN Links, NEW assets \in LinkAssets, SetLink(e, assets) PROVE Inv'
    BY <2>1, PathCacheAssumption, SetLinkInv
  <2>2. ASSUME NEW n \in Nodes, NEW t \in Times, SetTime(n, t) PROVE Inv'
    BY <2>2, PathCacheAssumption, SetTimeInv
  <2>3. ASSUME \/ \E e \in DOMAIN Links : AddLink(e) \/ RemoveLink(e)
               \/ \E n \in Nodes : SetAvailability(n) \/ RemoveNode(n) \/ AddNode(n)
        PROVE  Inv'
    BY <2>3, PathCacheAssumption, OtherChangesInv
  <2>4. CASE Clear \/ EvolveEnds
    BY <2>4, ClearInv, EvolveEndsInv
  <2>5. ASSUME NEW t \in Threads, Query(t) PROVE Inv'
    <3>1. CASE \E q \in Queries, c \in Aims(t) : Look(t, q, c)
      BY <3>1, LookInv
    <3>2. CASE Check(t) \/ Compare(t) \/ Answer(t)
      BY <3>2, CheckInv
    <3>3. CASE Return(t) \/ Raise(t) \/ NoneFound(t)
      BY <3>3, EndsInv
    <3>4. CASE Compute(t) \/ Cost(t)
      BY <3>4, ComputeInv, CostInv
    <3>5. CASE ReadCosts(t) \/ ReadPath(t)
      BY <3>5, ReadInv
    <3>6. CASE StorePath(t) \/ StoreCosts(t) \/ StoreResources(t) \/ StoreTime(t)
      BY <3>6, StoresInv
    <3> QED
      BY <2>5, <3>1, <3>2, <3>3, <3>4, <3>5, <3>6 DEF Query
  <2>6. CASE UNCHANGED vars
    BY <2>6, StutterInv
  <2> QED
    BY <2>1, <2>2, <2>3, <2>4, <2>5, <2>6 DEF Next
<1> QED
  BY <1>1, <1>2, PTL DEF Spec

\* Every variable has its type, and a hook runs only while the simulation's
\* thread has no query under way.
THEOREM TypeCorrect == Spec => []TypeOK
<1>1. Inv => TypeOK
  BY DEF Inv
<1> QED
  BY <1>1, Invariance, PTL

\* Between two changes a cached path, and its costs, are those that would be
\* computed now, unless the graph changed between computing and storing them.
THEOREM CachedPathsAreFresh == Spec => []CachedPathsFresh
<1>1. Inv => CachedPathsFresh
  BY DEF Inv, EntriesFresh, CachedPathsFresh, Settled, Caches, ToSet
<1> QED
  BY <1>1, Invariance, PTL

\* What path_resources() and processing_time() cache is what the links and
\* nodes of such a path hold now, with the same exception, however the two
\* threads' stores and the clearing of the four caches interleave.
THEOREM CachedSumsAreFresh == Spec => []CachedSumsFresh
<1>1. Inv => CachedSumsFresh
  BY DEF Inv, EntriesFresh, CachedSumsFresh, Settled, Caches, ToSet
<1> QED
  BY <1>1, Invariance, PTL
=============================================================================
