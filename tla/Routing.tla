------------------------------ MODULE Routing -------------------------------
(***************************************************************************)
(* eclypse/graph/infrastructure.py: the path an infrastructure finds       *)
(* between two nodes and what it aggregates along it.  A link is a pair of *)
(* nodes; "links" maps those present to their assets [lat, bw], "cost" to  *)
(* what the path algorithm weighs them by.                                 *)
(***************************************************************************)
EXTENDS Integers, SequencesExt

\* The dictionary f once f[x] = y is assigned.
With(f, x, y) == [z \in DOMAIN f \cup {x} |-> IF z = x THEN y ELSE f[z]]

Hops(path) == {<<path[i], path[i + 1]>> : i \in 1..(Len(path) - 1)}

\* The default path aggregators: latencies add up, the narrowest link bounds
\* the bandwidth.
Latencies(links)           == [e \in DOMAIN links |-> links[e].lat]
PathCost(path, cost)       == SumFunctionOnSet(cost, Hops(path))
PathLatency(path, links)   == PathCost(path, Latencies(links))
PathBandwidth(path, links) == Min({links[e].bw : e \in Hops(path)})

\* The processing times of its nodes add up as well.
PathTime(path, time) == SumFunction([i \in DOMAIN path |-> time[path[i]]])

NoLonger(p, q, cost) ==
    \/ PathCost(p, cost) < PathCost(q, cost)
    \/ PathCost(p, cost) = PathCost(q, cost) /\ Len(p) <= Len(q)

NoPath == <<>>

\* The paths without a repeated node, of the links between usable nodes.
SimplePaths(usable, cost) ==
    UNION {{p \in [1..k -> usable] : IsInjective(p) /\ Hops(p) \subseteq DOMAIN cost} :
             k \in 1..Cardinality(usable)}

\* Dijkstra; NoPath stands for NetworkXNoPath and NodeNotFound.
Shortest(paths, cost, s, t) ==
    LET between == {p \in paths : p[1] = s /\ Last(p) = t}
    IN  IF between = {} THEN NoPath
        ELSE CHOOSE p \in between : \A q \in between : NoLonger(p, q, cost)

ShortestPath(usable, cost, s, t) == Shortest(SimplePaths(usable, cost), cost, s, t)
=============================================================================
