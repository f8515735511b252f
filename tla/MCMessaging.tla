---------------------------- MODULE MCMessaging -----------------------------
(* Two services that send to each other, first on two nodes, then on the     *)
(* same node.                                                                *)
EXTENDS Messaging

Apart     == [s \in {"a", "b"} |-> IF s = "a" THEN "n1" ELSE "n2"]
Together  == [s \in {"a", "b"} |-> "n1"]

MCNeighbors == [s \in {"a", "b"} |-> {"a", "b"} \ {s}]
MCMappings  == <<{Apart}, {Together}>>
=============================================================================
