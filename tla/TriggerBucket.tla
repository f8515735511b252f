---------------------------- MODULE TriggerBucket ----------------------------
(***************************************************************************)
(* eclypse/workflow/trigger: the trigger bucket of every event.            *)
(*                                                                         *)
(* A bucket decides whether its event fires.  It is asked in two ways:     *)
(* without an event, once per pass of the simulation loop, and with the    *)
(* event just enqueued, when that event's cascade is computed.  Only       *)
(* cascade triggers answer the second question and only the others answer  *)
(* the first.                                                              *)
(*                                                                         *)
(* Time and random draws are not modelled: a trigger that depends on them  *)
(* may answer either way.                                                  *)
(***************************************************************************)
EXTENDS Integers, Sequences

CONSTANTS
    Events,        \* the names of the configured events
    Triggers,      \* the triggers in each event's bucket
    Condition,     \* "any" or "all", for each event
    MaxTriggers,   \* max_triggers of each event
    Timetable,     \* times of each event's ScheduledCascadeTrigger, sorted
    Alarms,        \* how many times each event's ScheduledTrigger holds
    None           \* no triggering event

CascadeKinds == {"every", "at", "chance"}
OwnKinds     == {"periodic", "scheduled", "random"}

\* "on" is the triggering event of a cascade trigger; "n" is the period, in
\* triggers of "on" for "every" (a plain CascadeTrigger has period 1) and in
\* milliseconds for "periodic".  A bucket has at most one trigger of a kind
\* that keeps state.
TriggerRecords ==
    [kind : CascadeKinds, on : Events, n : Nat \ {0}]
        \cup [kind : OwnKinds, on : {None}, n : Nat]

ASSUME BucketAssumption ==
    /\ None \notin Events
    /\ \A e \in Events :
         /\ Triggers[e] \in SUBSET TriggerRecords
         /\ Condition[e] \in {"any", "all"}
         /\ MaxTriggers[e] \in Nat
         /\ Timetable[e] \in Seq(Nat)
         /\ Alarms[e] \in Nat

VARIABLES
    manual,        \* _manual_activation
    nTriggers,     \* _n_triggers
    nCalls,        \* _n_executions; reset() is called once per execution
    primed,        \* first_trigger of the PeriodicTrigger
    times,         \* scheduled_times of the ScheduledCascadeTrigger
    alarms         \* how many _scheduled_times the ScheduledTrigger has left

bucketVars == <<manual, nTriggers, nCalls, primed, times, alarms>>

BucketInit ==
    /\ manual = [e \in Events |-> 0]
    /\ nTriggers = [e \in Events |-> 0]
    /\ nCalls = [e \in Events |-> 0]
    /\ primed = [e \in Events |-> FALSE]
    /\ times = [e \in Events |-> Timetable[e]]
    /\ alarms = [e \in Events |-> Alarms[e]]

BucketTypeOK ==
    /\ manual \in [Events -> Nat]
    /\ nTriggers \in [Events -> Nat]
    /\ nCalls \in [Events -> Nat]
    /\ primed \in [Events -> BOOLEAN]
    /\ times \in [Events -> Seq(Nat)]
    /\ alarms \in [Events -> Nat]

-----------------------------------------------------------------------------

\* Mutant: a cascade trigger counts the executions.
CallsOf(by) == nCalls[by]

\* What a cascade trigger counts: the triggers, executed or not.
TriggersOf(by) == nTriggers[by]

\* What trigger t of event e may answer; "by" is the event enqueued, or None.
\* last_exec_time of a PeriodicTrigger is None until its event has executed.
CascadeAnswers(e, t, by) ==
    CASE by # t.on -> {FALSE}
      [] by = t.on /\ t.kind = "every" -> {TriggersOf(by) % t.n = 0}
      [] by = t.on /\ t.kind = "at" ->
           {times[e] # <<>> /\ Head(times[e]) = TriggersOf(by)}
      [] by = t.on /\ t.kind = "chance" -> BOOLEAN

OwnAnswers(e, t) ==
    CASE t.kind = "periodic" /\ nCalls[e] = 0 -> {~primed[e]}
      [] t.kind = "periodic" /\ nCalls[e] > 0 /\ t.n = 0 -> {TRUE}
      [] t.kind = "scheduled" /\ alarms[e] = 0 -> {FALSE}
      [] OTHER -> BOOLEAN

Asked(e, by) ==
    {t \in Triggers[e] : (t.kind \in CascadeKinds) <=> (by # None)}

Answers(e, by) ==
    {yes \in SUBSET Asked(e, by) : \A t \in Asked(e, by) :
        (t \in yes) \in IF by = None THEN OwnAnswers(e, t)
                                     ELSE CascadeAnswers(e, t, by)}

\* An empty bucket never fires.
Fires(e, by, yes) ==
    /\ Asked(e, by) # {}
    /\ IF Condition[e] = "any" THEN yes # {} ELSE yes = Asked(e, by)

Said(yes, kind) == \E t \in yes : t.kind = kind

\* What asking leaves behind: the first question primes a PeriodicTrigger, and
\* a scheduled time is used up by a yes, whether or not the event then fires.
AfterAsking(e, by, yes) ==
    /\ primed' = [primed EXCEPT ![e] =
                    @ \/ (nCalls[e] = 0 /\ Said(Asked(e, by), "periodic"))]
    /\ times' = IF Said(yes, "at") THEN [times EXCEPT ![e] = Tail(@)] ELSE times
    /\ alarms' = IF Said(yes, "scheduled") THEN [alarms EXCEPT ![e] = @ - 1] ELSE alarms

Count(e) == nTriggers' = [nTriggers EXCEPT ![e] = @ + 1]

Exhausted(e) == nTriggers[e] >= MaxTriggers[e]

\* Mutants: the count of manual activations is off by one, either way.
ActivatedAtZero(e) == manual[e] >= 0
ActivatedTwice(e)  == manual[e] > 1

Activated(e) == manual[e] > 0

\* TriggerBucket.trigger(by) returns "fires".  The limit comes first, then one
\* pending manual activation, whatever the question; the triggers come last.
Ask(e, by, fires) ==
    \/ /\ Exhausted(e)
       /\ ~fires
       /\ UNCHANGED bucketVars
    \/ /\ ~Exhausted(e)
       /\ Activated(e)
       /\ fires
       /\ manual' = [manual EXCEPT ![e] = @ - 1]
       /\ Count(e)
       /\ UNCHANGED <<nCalls, primed, times, alarms>>
    \/ /\ ~Exhausted(e)
       /\ ~Activated(e)
       /\ \E yes \in Answers(e, by) :
            /\ fires <=> Fires(e, by, yes)
            /\ AfterAsking(e, by, yes)
       /\ IF fires THEN Count(e) ELSE UNCHANGED nTriggers
       /\ UNCHANGED <<manual, nCalls>>

\* TriggerBucket.reset(), after an execution that did not raise.
Reset(e) ==
    /\ nCalls' = [nCalls EXCEPT ![e] = @ + 1]
    /\ UNCHANGED <<manual, nTriggers, primed, times, alarms>>

\* Simulator.trigger(e) from the client's thread.
Activate(e) ==
    /\ manual' = [manual EXCEPT ![e] = @ + 1]
    /\ UNCHANGED <<nTriggers, nCalls, primed, times, alarms>>
=============================================================================
