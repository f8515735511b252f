----------------------------- MODULE MCSimulator -----------------------------
(* Configurations of Simulator for TLC: the four default events, a metric    *)
(* and a callback on the driving event, and one event of the user's.         *)
EXTENDS Simulator

CONSTANTS start, enact, step, stop,   \* eclypse/workflow/event/defaults.py
          update,                     \* an event of the user's
          load,                       \* a metric
          note                        \* a callback

OnEach(e)     == [kind |-> "every", on |-> e, n |-> 1]
OnEvery(e, k) == [kind |-> "every", on |-> e, n |-> k]
Cadence(ms)   == [kind |-> "periodic", on |-> None, n |-> ms]
AtRandom(e)   == [kind |-> "chance", on |-> e, n |-> 1]
Timeout       == [kind |-> "scheduled", on |-> None, n |-> 0]
At(e)         == [kind |-> "at", on |-> e, n |-> 1]

MCEvents  == {start, enact, step, stop, update, load, note}
MCOrder   == <<update, note, start, enact, step, stop, load>>
MCPost    == {load, note}
MCMetrics == {load}
MCArity   == [e \in MCEvents |-> CASE e = start -> "none"
                                   [] e = step -> "one"
                                   [] OTHER -> "either"]

Unlimited == 1000000

\* step_every_ms = "auto", max_steps = 2: update is drawn at random at each
\* step, note comes after the first step only.
AutoTriggers ==
    [e \in MCEvents |-> CASE e = enact -> {Cadence(0)}
                          [] e = step -> {OnEach(enact)}
                          [] e = stop -> {OnEvery(enact, 2)}
                          [] e = update -> {AtRandom(step)}
                          [] e = load -> {OnEach(enact)}
                          [] e = note -> {At(step)}
                          [] OTHER -> {}]
ConditionOf   == [e \in MCEvents |-> IF e \in {enact, stop} THEN "all" ELSE "any"]
AutoMax       == [e \in MCEvents |-> IF e = enact THEN 2 ELSE Unlimited]
AutoTimetable == [e \in MCEvents |-> IF e = note THEN <<1>> ELSE <<>>]
NoAlarms      == [e \in MCEvents |-> 0]
AutoManual    == [e \in MCEvents |-> IF e = enact THEN 1 ELSE 0]

\* step_every_ms = None: the client drives, with trigger("step") as well.
\* max_steps = 2 and a timeout; update and load come with each step.
ManualEvents == MCEvents \ {note}
ManualOrder  == <<update, start, enact, step, stop, load>>
ManualPost   == {load}
ManualTriggers ==
    [e \in ManualEvents |-> CASE e \in {step, load} -> {OnEach(enact)}
                              [] e = stop -> {OnEvery(enact, 2), Timeout}
                              [] e = update -> {OnEach(step)}
                              [] OTHER -> {}]
ManualArity  == [e \in ManualEvents |-> MCArity[e]]
NoTimetable  == [e \in ManualEvents |-> <<>>]
StopAlarm    == [e \in ManualEvents |-> IF e = stop THEN 1 ELSE 0]
ManualCalls  == [e \in ManualEvents |-> CASE e = enact -> 3
                                          [] e = step -> 1
                                          [] OTHER -> 0]

\* The configurations above are such as the theorems about the end ask for.
ASSUME EndsAsConfigured == StopConfigured /\ FollowsSteps(step)
=============================================================================
