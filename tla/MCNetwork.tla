------------------------------ MODULE MCNetwork -----------------------------
(* Two hosts, two routers with a symmetric link between them and a slow      *)
(* direct way to one host; one application per direction.                    *)
EXTENDS Network

MCHosts   == <<"h1", "h2">>
MCRouters == <<"r1", "r2">>
MCLinks   ==
    (<<"h1", "r1">> :> [cost |-> 1, rate |-> 2, max |-> 2]) @@
    (<<"h2", "r2">> :> [cost |-> 1, rate |-> 2, max |-> 2]) @@
    (<<"r1", "r2">> :> [cost |-> 1, rate |-> 2, max |-> 2]) @@
    (<<"r2", "r1">> :> [cost |-> 1, rate |-> 2, max |-> 2]) @@
    (<<"r2", "h2">> :> [cost |-> 1, rate |-> 2, max |-> 2]) @@
    (<<"r1", "h2">> :> [cost |-> 3, rate |-> 1, max |-> 1]) @@
    (<<"r1", "h1">> :> [cost |-> 1, rate |-> 2, max |-> 2])
MCSymmetric == {<<"r1", "r2">>, <<"r2", "r1">>}
MCFlows   ==
    [there |-> [app |-> "a", from |-> "s", to |-> "t", size |-> 1],
     back  |-> [app |-> "b", from |-> "u", to |-> "v", size |-> 2]]
MCPackets == [there |-> 2, back |-> 1]
MCApps    == <<"a", "b">>
MCPlacements ==
    {[s |-> "h1", t |-> "h2", u |-> "h2", v |-> "h1"],
     [s |-> "h1", t |-> "h1", u |-> "r2", v |-> "h1"],
     [s |-> "h1", t |-> "r2", u |-> "unmapped", v |-> "unmapped"]}
=============================================================================
