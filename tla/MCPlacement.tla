---------------------------- MODULE MCPlacement -----------------------------
(* Three nodes in a line with a slow direct link between its ends: the path *)
(* from n1 to n3 has two hops until n2 or one of them is lost.  The two     *)
(* flows of application a share their path when s2 and s3 share a node.     *)
EXTENDS Placement

CONSTANTS n1, n2, n3, none, a, b, s1, s2, s3, t1, t2

MCLinks ==
    (<<n1, n2>> :> [lat |-> 1, bw |-> 3]) @@
    (<<n2, n3>> :> [lat |-> 1, bw |-> 2]) @@
    (<<n1, n3>> :> [lat |-> 5, bw |-> 2])

MCServices == (a :> <<s1, s2, s3>>) @@ (b :> <<t1, t2>>)
MCNeeds    == (s1 :> 1) @@ (s2 :> 1) @@ (s3 :> 1) @@ (t1 :> 2) @@ (t2 :> 1)
MCFlows    ==
    (a :> <<[from |-> s1, to |-> s2, lat |-> 1, bw |-> 1],
            [from |-> s1, to |-> s3, lat |-> 5, bw |-> 1]>>) @@
    (b :> <<[from |-> t1, to |-> t2, lat |-> 9, bw |-> 1]>>)
MCStatic   ==
    (a :> ((s1 :> n1) @@ (s2 :> n3) @@ (s3 :> n3))) @@ (b :> ((t1 :> n1) @@ (t2 :> n2)))

\* Round robin raises while a node is missing, and asks nothing of the links.
LooseFlows == [MCFlows EXCEPT ![a] = <<>>]
Raising    == (a :> {"round_robin"}) @@ (b :> {"static"})

MCRegistered == (a :> {"static", "best_fit", "round_robin"}) @@ (b :> {"first_fit", "random"})
=============================================================================
