----------------------------- MODULE Placement ------------------------------
(***************************************************************************)
(* eclypse/placement: the placement manager, its view of what placements   *)
(* require, and the placement strategies, over one infrastructure that     *)
(* update policies change between two rounds.                              *)
(*                                                                         *)
(* A round is one "enact" event: audit() maps and checks the applications  *)
(* in a random order, then enact() resets those it marked.  One action is  *)
(* one turn of audit()'s loop: generate_mapping, _update_view, validate    *)
(* and the marks.  A turn may raise: the event fails and the simulation    *)
(* stops, but the rounds and steps queued by then are still executed.      *)
(*                                                                         *)
(* Nodes carry one additive asset (cpu), links an additive one (bw) and a  *)
(* concave one (lat).  Paths are those of Routing: that the caches of      *)
(* Infrastructure agree with them is the matter of module PathCache.       *)
(***************************************************************************)
EXTENDS Routing

CONSTANTS
    Apps,         \* the registered applications
    Nodes,        \* the nodes the infrastructure may have
    NoNode,       \* a name no node has
    Links,        \* the links it may have, with their assets [lat, bw]
    Services,     \* the services of each application, in insertion order
    Needs,        \* the cpu each service requires
    Flows,        \* the edges of each application: [from, to, lat, bw]
    Registered,   \* the strategies an application may be registered with
    Static,       \* the mapping of those placed by StaticStrategy
    Capacities,   \* the cpu a node may have
    MaxLatency,   \* lower bound of the concave asset: no requirement
    MaxChanges    \* bound: changes of the infrastructure

ServicesOf(a) == ToSet(Services[a])

Strategies == {"first_fit", "best_fit", "random", "round_robin", "static"}

ASSUME PlacementAssumption ==
    /\ IsFiniteSet(Apps) /\ IsFiniteSet(Nodes) /\ NoNode \notin Nodes
    /\ \A a \in Apps : Services[a] \in Seq(DOMAIN Needs)
    /\ \A s \in DOMAIN Needs : Needs[s] \in Nat
    /\ \A a \in Apps :
         Flows[a] \in Seq([from : ServicesOf(a), to : ServicesOf(a), lat : Nat, bw : Nat])
    /\ Capacities \subseteq Nat
    /\ MaxLatency \in Nat
    /\ DOMAIN Links \subseteq Nodes \X Nodes
    /\ \A e \in DOMAIN Links : Links[e] \in [lat : 0..MaxLatency, bw : Nat]
    /\ Registered \in [Apps -> SUBSET Strategies]
    /\ MaxChanges \in Nat

VARIABLES
    strategy,     \* Placement.strategy, given at registration
    nodes,        \* the nodes of the infrastructure
    up,           \* those with availability > 0
    cpu,          \* the cpu of each node
    link,         \* the links present, with their assets
    mapping,      \* Placement.mapping
    toReset,      \* Placement._to_reset
    needed,       \* PlacementView: cpu required on each node
    linkNeeded,   \* PlacementView: [lat, bw] required between two nodes
    usedBy,       \* PlacementView.nodes_used_by
    residual,     \* PlacementView.residual: cpu left on each node
    linkResidual, \* PlacementView.residual: bw left on each link
    pending,      \* applications audit() has not come to yet
    phase,
    changes

infrastructure == <<nodes, up, cpu, link>>
view           == <<needed, linkNeeded, usedBy, residual, linkResidual>>
vars           == <<strategy, infrastructure, mapping, toReset, view, pending, phase, changes>>

Phases  == {"idle", "audit", "enacted", "raised"}
NoMapping == <<>>

Path(s, t) == ShortestPath(nodes \cap up, Latencies(link), s, t)

Init ==
    /\ strategy \in {f \in [Apps -> Strategies] : \A a \in Apps : f[a] \in Registered[a]}
    /\ nodes = Nodes
    /\ up = Nodes
    /\ cpu \in [Nodes -> Capacities]
    /\ link = Links
    /\ mapping = [a \in Apps |-> NoMapping]
    /\ toReset = [a \in Apps |-> FALSE]
    /\ needed = [n \in Nodes |-> 0]
    /\ linkNeeded = <<>>
    /\ usedBy = [n \in Nodes |-> {}]
    /\ residual = cpu
    /\ linkResidual = [e \in DOMAIN Links |-> Links[e].bw]
    /\ pending = {}
    /\ phase = "idle"
    /\ changes = 0

-----------------------------------------------------------------------------
(* Strategies: the mappings place() may return for a.                      *)

Left(left, n, s) == [left EXCEPT ![n] = @ - Needs[s]]

\* One service after the other takes the first node, in a random order fixed
\* for the call, that still satisfies it; the others stay unplaced.
FirstFit(a, order) ==
    LET Place(acc, s) ==
          LET fit == {i \in DOMAIN order : acc.left[order[i]] >= Needs[s]}
              n   == order[Min(fit)]
          IN  IF fit = {} THEN acc
              ELSE [left |-> Left(acc.left, n, s), map |-> acc.map @@ (s :> n)]
    IN  FoldLeft(Place, [left |-> residual, map |-> NoMapping], Services[a]).map

\* As above, with the last node whose residual is no larger than that of the
\* best so far (its residual in the view, before this application's services).
BestFit(a, order) ==
    LET Place(acc, s) ==
          LET Better(best, n) ==
                IF acc.left[n] >= Needs[s]
                   /\ (best = {} \/ \A b \in best : residual[b] >= acc.left[n])
                THEN {n} ELSE best
              found == FoldLeft(Better, {}, order)
              n     == CHOOSE x \in found : TRUE
          IN  IF found = {} THEN acc
              ELSE [left |-> Left(acc.left, n, s), map |-> acc.map @@ (s :> n)]
    IN  FoldLeft(Place, [left |-> residual, map |-> NoMapping], Services[a]).map

Orders == SetToSeqs(nodes)

Placed(a) ==
    CASE strategy[a] = "first_fit" ->
           IF nodes \cap up = {} THEN {NoMapping}
           ELSE {FirstFit(a, order) : order \in Orders}
      [] strategy[a] = "best_fit" ->
           IF nodes \cap up = {} THEN {NoMapping}
           ELSE {BestFit(a, order) : order \in Orders}
      [] strategy[a] = "random" ->
           IF nodes = {} THEN {NoMapping} ELSE [ServicesOf(a) -> nodes]
      [] strategy[a] = "round_robin" ->
           {[s \in ServicesOf(a) |-> order[CHOOSE i \in DOMAIN order : Services[a][i] = s]] :
              order \in Orders}
      [] strategy[a] = "static" ->
           IF Range(Static[a]) \subseteq nodes \cap up THEN {Static[a]} ELSE {NoMapping}

\* RoundRobinStrategy appends a bare name where it pops (node, assets) pairs:
\* with more services than nodes, unpacking the name raises, or a name of two
\* letters yields its first one.
StrategyRaises(a) ==
    strategy[a] = "round_robin" /\ Len(Services[a]) > Cardinality(nodes)

\* The mappings with such a letter, on which _update_view raises.  It is appended
\* in turn, and the service that pops it raises.
Misnamed(a) ==
    IF Len(Services[a]) > 2 * Cardinality(nodes) THEN {}
    ELSE {[s \in ServicesOf(a) |->
             IF \E i \in DOMAIN order : Services[a][i] = s
             THEN order[CHOOSE i \in DOMAIN order : Services[a][i] = s] ELSE NoNode] :
          order \in Orders}

\* generate_mapping: a partial placement is no placement.
Complete(a, m) == IF DOMAIN m = ServicesOf(a) THEN m ELSE NoMapping

-----------------------------------------------------------------------------
(* The view, after the update for a mapped application a.                  *)

Load(m, n) == SumFunctionOnSet(Needs, {s \in DOMAIN m : m[s] = n})

\* Mutant: what other flows require of a hop is forgotten.
NothingRequired(asked, e) == [lat |-> MaxLatency, bw |-> 0]

\* The lower bounds of the edge assets: what is required where nothing is.
Required(asked, e) ==
    IF e \in DOMAIN asked THEN asked[e] ELSE [lat |-> MaxLatency, bw |-> 0]

\* A flow adds its bandwidth to every hop and its latency to the pair of its
\* end nodes, over what the pair had.  The residual of a hop loses what the
\* view now requires of it, earlier flows included.
Carry(acc, f, path) ==
    LET hops  == Hops(path)
        pair  == <<path[1], Last(path)>>
        asked == [e \in DOMAIN acc.asked \cup hops |->
                    IF e \in hops
                    THEN [Required(acc.asked, e) EXCEPT !.bw = @ + f.bw]
                    ELSE acc.asked[e]]
    IN  [asked |-> With(asked, pair, [lat |-> f.lat, bw |-> Required(asked, pair).bw]),
         left  |-> [e \in DOMAIN acc.left |->
                      acc.left[e] - (IF e \in hops THEN asked[e].bw ELSE 0)],
         found |-> TRUE]

\* The flows of a that leave their node under the mapping m, and their paths.
Crossing(a, m)  == {i \in DOMAIN Flows[a] : m[Flows[a][i].from] # m[Flows[a][i].to]}
Route(a, m, i)  == Path(m[Flows[a][i].from], m[Flows[a][i].to])

AddFlow(a, m, acc, i) ==
    IF ~acc.found \/ i \notin Crossing(a, m) THEN acc
    ELSE IF Route(a, m, i) = NoPath THEN [acc EXCEPT !.found = FALSE]
    ELSE Carry(acc, Flows[a][i], Route(a, m, i))

\* The flows in order, up to the first one without a path.
FlowsOf(a, m) ==
    LET after[i \in 0..Len(Flows[a])] ==
          IF i = 0 THEN [asked |-> linkNeeded, left |-> linkResidual, found |-> TRUE]
          ELSE AddFlow(a, m, after[i - 1], i)
    IN  after[Len(Flows[a])]

-----------------------------------------------------------------------------
(* Infrastructure.validate: the nodes it returns for a view.               *)

\* Mutants: a node one short is accepted; a full one is refused.
OverloadedByTwo(asked) == {n \in DOMAIN asked : cpu[n] + 1 < asked[n]}
OverloadedWhenFull(asked) == {n \in DOMAIN asked : cpu[n] <= asked[n]}

Overloaded(asked) == {n \in DOMAIN asked : cpu[n] < asked[n]}

\* path_resources: without a path, the lower bounds.
Satisfied(e, req) ==
    LET path == Path(e[1], e[2])
    IN  IF path = NoPath THEN req.bw = 0 /\ MaxLatency <= req.lat
        ELSE /\ PathBandwidth(path, link) >= req.bw
             /\ PathLatency(path, link) <= req.lat

Unmet(asked) ==
    UNION {{e[1], e[2]} : e \in {d \in DOMAIN asked : ~Satisfied(d, asked[d])}}

-----------------------------------------------------------------------------
(* audit()                                                                 *)

\* Mutant: the residual of the last round is kept.
KeptResidual == [n \in nodes |-> IF n \in DOMAIN residual THEN residual[n] ELSE cpu[n]]

\* _reset_residual, on the nodes.
FreshResidual == [n \in nodes |-> cpu[n]]

StartAudit ==
    /\ phase # "audit"
    /\ phase' = "audit"
    /\ pending' = Apps
    /\ needed' = [n \in nodes |-> 0]
    /\ linkNeeded' = <<>>
    /\ usedBy' = [n \in nodes |-> {}]
    /\ residual' = FreshResidual
    /\ linkResidual' = [e \in DOMAIN link |-> link[e].bw]
    /\ UNCHANGED <<strategy, infrastructure, mapping, toReset, changes>>

\* The mapping a has when its turn comes to be added to the view.
Mapped(a) ==
    IF mapping[a] # NoMapping THEN {mapping[a]}
    ELSE {Complete(a, m) : m \in Placed(a)}

\* _update_view.  node_service_mapping lists every node of the infrastructure:
\* a placed application is entered as a user of all of them.
Enter(a, m) ==
    /\ needed' = [n \in nodes |-> needed[n] + Load(m, n)]
    /\ residual' = [n \in nodes |-> residual[n] - Load(m, n)]
    /\ usedBy' = [n \in nodes |-> usedBy[n] \cup {a}]
    /\ linkNeeded' = FlowsOf(a, m).asked
    /\ linkResidual' = FlowsOf(a, m).left

\* The nodes the view asks too much of, and every user of one of them.
NotRespected(asked, linkAsked) == Overloaded(asked) \cup Unmet(linkAsked)
Users(used, bad) == UNION {used[n] : n \in bad \cap DOMAIN used}

\* One turn of the loop.  A mapping that stays empty clears the mark
\* (_reset_mapping); a flow without a path sets it.
Audit(a) ==
    /\ phase = "audit"
    /\ a \in pending
    /\ mapping[a] = NoMapping => ~StrategyRaises(a)
    /\ \E m \in Mapped(a) :
         /\ Range(m) \subseteq nodes
         /\ mapping' = [mapping EXCEPT ![a] = m]
         /\ IF m = NoMapping THEN UNCHANGED view ELSE Enter(a, m)
         /\ LET marked == Users(usedBy', NotRespected(needed', linkNeeded'))
                cut    == m # NoMapping /\ ~FlowsOf(a, m).found
            IN  toReset' = [b \in Apps |->
                    \/ b \in marked
                    \/ IF b = a THEN cut \/ (toReset[a] /\ m # NoMapping) ELSE toReset[b]]
    /\ pending' = pending \ {a}
    /\ UNCHANGED <<strategy, infrastructure, phase, changes>>

\* audit() raises: in the strategy, or in _update_view on a name that is not, or
\* no longer, a node.  The mapping stays, and so do the marks of the turns
\* before: the next enact() that is reached resets by them.  What this turn did
\* to the view is gone with the next audit's reset of it.
AuditRaises(a) ==
    /\ phase = "audit"
    /\ a \in pending
    /\ \/ /\ mapping[a] = NoMapping /\ StrategyRaises(a)
          /\ \/ UNCHANGED mapping
             \/ \E m \in Misnamed(a) : mapping' = [mapping EXCEPT ![a] = m]
       \/ /\ mapping[a] # NoMapping /\ ~(Range(mapping[a]) \subseteq nodes)
          /\ UNCHANGED mapping
    /\ phase' = "raised"
    /\ UNCHANGED <<strategy, infrastructure, toReset, view, pending, changes>>

\* Mutant: enact() leaves the marks.
MarksKept == toReset

\* clear_reset.
MarksCleared == [a \in Apps |-> FALSE]

Enact ==
    /\ phase = "audit"
    /\ pending = {}
    /\ phase' = "enacted"
    /\ mapping' = [a \in Apps |-> IF toReset[a] THEN NoMapping ELSE mapping[a]]
    /\ toReset' = MarksCleared
    /\ UNCHANGED <<strategy, infrastructure, view, pending, changes>>

-----------------------------------------------------------------------------
(* Update policies (graph.evolve, in the "step" event): what they do to the *)
(* infrastructure between two rounds.                                      *)

Degrade(n, c) ==
    /\ cpu' = [cpu EXCEPT ![n] = c]
    /\ UNCHANGED <<nodes, up, link>>

KillOrRevive(n) ==
    /\ up' = IF n \in up THEN up \ {n} ELSE up \cup {n}
    /\ UNCHANGED <<nodes, cpu, link>>

CutLink(e) ==
    /\ link' = [d \in DOMAIN link \ {e} |-> link[d]]
    /\ UNCHANGED <<nodes, up, cpu>>

AddLink(e) ==
    /\ link' = With(link, e, Links[e])
    /\ UNCHANGED <<nodes, up, cpu>>

RemoveNode(n) ==
    /\ nodes' = nodes \ {n}
    /\ link' = [d \in {e \in DOMAIN link : n \notin {e[1], e[2]}} |-> link[d]]
    /\ UNCHANGED <<up, cpu>>

AddNode(n) ==
    /\ nodes' = nodes \cup {n}
    /\ up' = up \cup {n}
    /\ UNCHANGED <<cpu, link>>

Evolve ==
    /\ phase # "audit"
    /\ changes < MaxChanges
    /\ phase' = "idle"
    /\ changes' = changes + 1
    /\ \/ \E n \in nodes, c \in Capacities : Degrade(n, c)
       \/ \E n \in nodes : KillOrRevive(n)
       \/ \E e \in DOMAIN link : CutLink(e)
       \/ \E e \in DOMAIN Links \ DOMAIN link : e[1] \in nodes /\ e[2] \in nodes /\ AddLink(e)
       \/ \E n \in nodes : RemoveNode(n)
       \/ \E n \in Nodes \ nodes : AddNode(n)
    /\ UNCHANGED <<strategy, mapping, toReset, view, pending>>

Next ==
    \/ StartAudit
    \/ \E a \in Apps : Audit(a) \/ AuditRaises(a)
    \/ Enact
    \/ Evolve

Spec == Init /\ [][Next]_vars

-----------------------------------------------------------------------------
(* Properties, on what the applications require rather than on the view.   *)

PlacedApps == {a \in Apps : mapping[a] # NoMapping}

NodeLoad(apps, n) == SumFunction([a \in apps |-> Load(mapping[a], n)])

\* What the flows of a take of a link.
FlowLoad(a, e) ==
    SumFunctionOnSet([i \in DOMAIN Flows[a] |-> Flows[a][i].bw],
        {i \in Crossing(a, mapping[a]) : e \in Hops(Route(a, mapping[a], i))})

LinkLoad(apps, e) == SumFunction([a \in apps |-> FlowLoad(a, e)])

\* The flows of the applications as that have to be routed.
Routed(apps) == UNION {{a} \X Crossing(a, mapping[a]) : a \in apps}
FlowPath(x) == Route(x[1], mapping[x[1]], x[2])

\* What audit() and enact() decide by has its type, no placement is partial,
\* only what is placed is marked, and enact() leaves no mark.
StateOK ==
    /\ strategy \in [Apps -> Strategies]
    /\ nodes \subseteq Nodes /\ up \subseteq Nodes
    /\ cpu \in [Nodes -> Nat]
    /\ DOMAIN link \subseteq DOMAIN Links
    /\ DOMAIN mapping = Apps
    /\ \A a \in Apps : DOMAIN mapping[a] \in {{}, ServicesOf(a)}
    /\ toReset \in [Apps -> BOOLEAN]
    /\ \A a \in Apps : toReset[a] => mapping[a] # NoMapping
    /\ phase = "enacted" => \A a \in Apps : ~toReset[a]
    /\ \A n \in DOMAIN usedBy : usedBy[n] \subseteq Apps
    /\ pending \subseteq Apps
    /\ phase \in Phases
    /\ changes \in 0..MaxChanges

\* Every variable has its type, the sums of the view included.
TypeOK ==
    /\ StateOK
    /\ \A n \in DOMAIN needed : needed[n] \in Nat
    /\ \A e \in DOMAIN linkNeeded : linkNeeded[e] \in [lat : Nat, bw : Nat]
    /\ \A n \in DOMAIN residual : residual[n] \in Int

\* The view is respected once enact() has reset what audit() marked, or nothing
\* is placed any more: a view that asks too much of one node empties them all.
ViewRespected ==
    phase = "enacted" /\ PlacedApps # {} => NotRespected(needed, linkNeeded) \cap nodes = {}

\* After enact() the applications that stay placed fit: whatever order they
\* were audited in, no node hosts more than its cpu at the audit.
NoOverload ==
    phase = "enacted" =>
        \A n \in nodes : NodeLoad(PlacedApps, n) <= cpu[n]

\* After enact() every flow of a placed application has a path and no link
\* carries more than its bandwidth, over all applications.
LinksCarry ==
    phase = "enacted" =>
        /\ \A x \in Routed(PlacedApps) : FlowPath(x) # NoPath
        /\ \A e \in DOMAIN link : LinkLoad(PlacedApps, e) <= link[e].bw

\* What a strategy is offered is never more than the applications audited
\* before it leave: exactly their rest on a node, at most their rest on a link
\* (each flow is subtracted again with every later one of the hop).
ResidualSound ==
    phase = "audit" =>
        LET audited == PlacedApps \ pending IN
        /\ \A n \in nodes : residual[n] = cpu[n] - NodeLoad(audited, n)
        /\ (\A x \in Routed(audited) : FlowPath(x) # NoPath) =>
             \A e \in DOMAIN link : linkResidual[e] <= link[e].bw - LinkLoad(audited, e)

\* Together the placements of apps ask for more cpu or bandwidth than there is,
\* or a flow has no path or too slow a one.
Cause(apps) ==
    \/ \E n \in nodes : NodeLoad(apps, n) > cpu[n]
    \/ \E e \in DOMAIN link : LinkLoad(apps, e) > link[e].bw
    \/ \E x \in Routed(apps) :
         \/ FlowPath(x) = NoPath
         \/ PathLatency(FlowPath(x), link) > Flows[x[1]][x[2]].lat

\* A turn of audit() marks a placement only for a cause among the placements it
\* has come to: what the strategies are still to place is not counted, and what
\* a flow before it, or a round that raised, left in the view is no cause.
MarkHasCause ==
    [][\A a \in Apps : toReset'[a] /\ ~toReset[a] => Cause(PlacedApps \ pending)']_vars

\* "Check placements and reset those violating infrastructure constraints"
\* (_manager.py:54): a round that takes a placement away has a cause in what it
\* finds.  Violated: a mark of a round that raised is not such a cause.
ResetHasCause ==
    [][\A a \in PlacedApps : phase = "audit" /\ mapping'[a] = NoMapping => Cause(PlacedApps)]_vars

\* "resets the placement of the applications whose requirements are not
\* respected" (_manager.py:59): no flow of an application that stays placed is
\* slower than it requires.
LatencyRespected ==
    phase = "enacted" =>
        \A x \in Routed(PlacedApps) :
            PathLatency(FlowPath(x), link) <= Flows[x[1]][x[2]].lat
=============================================================================
