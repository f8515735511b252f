----------------------------- MODULE MCReporter -----------------------------
(* Two metrics: m1 is reported on a channel of its own and on one it shares *)
(* with m2, as two metrics of one type are.                                 *)
EXTENDS Reporter

CONSTANTS m1, m2, c1, c2

MCRoute    == [m \in Metrics |-> IF m = m1 THEN {c1, c2} ELSE {c2}]
MCMaxExecs == [m \in Metrics |-> IF m = m1 THEN 2 ELSE 1]
=============================================================================
