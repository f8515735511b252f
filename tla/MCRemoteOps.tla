----------------------------- MODULE MCRemoteOps ----------------------------
(* Three applications over two nodes.  One has two services; each of the      *)
(* others has one, whose id is also the id of one of the first.               *)
EXTENDS RemoteOps

MCOrder    == <<"p", "q", "r">>
MCServices == [p |-> {"s1", "s2"}, q |-> {"s1"}, r |-> {"s2"}]
=============================================================================
