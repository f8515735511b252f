---------------------------- MODULE MCPathCache -----------------------------
(* Two routes from n1 to n3: over n2, and a direct link that may be slower, *)
(* may be lost, or may only be added later.                                 *)
EXTENDS PathCache

CONSTANTS n1, n2, n3

MCLinks ==
    (<<n1, n2>> :> [lat |-> 1, bw |-> 2]) @@
    (<<n2, n3>> :> [lat |-> 1, bw |-> 2]) @@
    (<<n1, n3>> :> [lat |-> 1, bw |-> 1])

MCLater   == {<<n1, n3>>}
MCQueries == {<<n1, n3>>}
MCAssets  == {[lat |-> 4, bw |-> 2], [lat |-> 1, bw |-> 1]}
MCTimes   == [n \in {n1, n2, n3} |-> 0]
=============================================================================
