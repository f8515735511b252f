------------------------------ MODULE Simulator ------------------------------
(***************************************************************************)
(* eclypse/simulation/_simulator/local.py: Simulator.                      *)
(*                                                                         *)
(* Two threads.  The client calls start(), trigger() and stop(); the       *)
(* simulation's thread runs an asyncio loop with the coroutine run(),      *)
(* which asks every event whether it fires, and fires one queued event per *)
(* pass.  Enqueuing an event asks every other event with it, depth first:  *)
(* the nested calls of enqueue_event are the stack "cascade".  stop()      *)
(* submits one more enqueue_event to the loop, which runs only where run() *)
(* suspends; the client's own steps come anywhere.                         *)
(*                                                                         *)
(* The reporter's start() and stop(), awaited by run(), are in Reporter.   *)
(***************************************************************************)
EXTENDS TriggerBucket, FiniteSets, Lists

CONSTANTS
    Order,         \* the events as configured: a sequence without repeats
    Post,          \* the callbacks and the metrics
    Metrics,       \* the metrics
    StartEvent, StopEvent, DrivingEvent,
    Arity,         \* does __call__ take a triggering event: "none", "one", "either"
    Faulty,        \* events whose __call__ may raise
    MaxManual,     \* bound: calls of trigger() for each event
    MaxStops       \* bound: calls of stop()

ASSUME SimulatorAssumption ==
    /\ Order \in Seq(Events)
    /\ \A e \in Events : \E i \in DOMAIN Order : Order[i] = e
    /\ \A i, j \in DOMAIN Order : i < j => Order[i] # Order[j]
    /\ Post \subseteq Events
    /\ Metrics \subseteq Post
    /\ {StartEvent, StopEvent, DrivingEvent} \subseteq Events \ Post
    /\ StartEvent # StopEvent /\ DrivingEvent \notin {StartEvent, StopEvent}
    /\ Arity \in [Events -> {"none", "one", "either"}]
    /\ Faulty \subseteq Events
    /\ MaxManual \in [Events -> Nat]
    /\ MaxStops \in Nat

VARIABLES
    status,        \* _status
    stopRequested, \* _stop_requested
    finished,      \* _finished
    pc,            \* where run() is; "closed" once the loop is
    scan,          \* the position of run()'s "for event in self._events"
    queue,         \* _events_queue
    cascade,       \* enqueue_event calls under way, the innermost first
    submitted,     \* enqueue_event coroutines submitted and not yet run
    client,        \* how far the client is in stop()
    requested,     \* calls of trigger()
    stops,         \* calls of stop()
    raised,        \* history: executions of each event that raised
    lastRun,       \* history: the last event executed, posts excepted
    lastReport     \* history: the last report made

loopVars   == <<status, finished, pc, scan, queue, cascade, submitted>>
clientVars == <<client, requested, stops>>
ghosts     == <<raised, lastRun, lastReport>>
vars == <<bucketVars, loopVars, stopRequested, clientVars, ghosts>>

Points  == {"new", "boot", "test", "scan", "get", "wait", "pause", "finalize", "ended", "closed"}
By      == Events \cup {None}
Items   == [name : Events, by : By, nth : Nat]
Frames  == [event : Events, nth : Nat, next : Nat \ {0}]
Reports == [metric : Metrics, by : Events, nth : Nat, idx : Nat, after : By]

\* _ordered_events, sorted by "role is EVENT": posts come first.
\* Mutant: the order of the configuration is kept.
Unsorted(order) == order

Sorted(order) == Sublist(order, Post) \o Sublist(order, Events \ Post)

Ordered == Sorted(Order)

Init ==
    /\ BucketInit
    /\ status = "IDLE"
    /\ stopRequested = FALSE
    /\ finished = TRUE
    /\ pc = "new"
    /\ scan = 1
    /\ queue = <<>>
    /\ cascade = <<>>
    /\ submitted = 0
    /\ client = "free"
    /\ requested = [e \in Events |-> 0]
    /\ stops = 0
    /\ raised = [e \in Events |-> 0]
    /\ lastRun = None
    /\ lastReport = None

-----------------------------------------------------------------------------
(* The client's thread.                                                    *)

Start ==
    /\ client = "free"
    /\ pc = "new"
    /\ finished' = FALSE
    /\ stopRequested' = FALSE
    /\ status' = "RUNNING"
    /\ pc' = "boot"
    /\ UNCHANGED <<bucketVars, scan, queue, cascade, submitted, clientVars, ghosts>>

\* Bound: a client that called stop() does not call trigger() any more.
Trigger(e) ==
    /\ client = "free"
    /\ stops = 0
    /\ requested[e] < MaxManual[e]
    /\ Activate(e)
    /\ requested' = [requested EXCEPT ![e] = @ + 1]
    /\ UNCHANGED <<loopVars, stopRequested, client, stops, ghosts>>

\* stop() reads the status and the flag, then sets the flag, then submits the
\* coroutine: the simulation's thread may take steps in between.
StopReturns == status = "IDLE" \/ stopRequested

StopReads ==
    /\ client = "free"
    /\ stops < MaxStops
    /\ stops' = stops + 1
    /\ client' = IF StopReturns THEN "free" ELSE "requesting"
    /\ UNCHANGED <<bucketVars, loopVars, stopRequested, requested, ghosts>>

StopRequests ==
    /\ client = "requesting"
    /\ client' = "submitting"
    /\ stopRequested' = TRUE
    /\ UNCHANGED <<bucketVars, loopVars, requested, stops, ghosts>>

\* A closed loop refuses the coroutine: stop() raises RuntimeError.
StopSubmits ==
    /\ client = "submitting"
    /\ IF pc = "closed"
       THEN client' = "refused" /\ UNCHANGED submitted
       ELSE client' = "free" /\ submitted' = submitted + 1
    /\ UNCHANGED <<bucketVars, status, finished, pc, scan, queue, cascade,
                   stopRequested, requested, stops, ghosts>>

-----------------------------------------------------------------------------
(* The simulation's thread: enqueue_event.                                 *)

\* Mutant: an enqueued stop does not change the status.
StatusKept(e) == status

StatusAfter(e) == IF e = StopEvent THEN "STOPPING" ELSE status

\* Mutant: a stop triggers nothing.
CascadesButStop(e) == e \notin Post \cup {StopEvent}

Cascades(e) == e \notin Post

\* enqueue_event(e, by) called with q in the queue and "outer" calls under way;
\* "nth" is the ordinal of by's trigger.
\* An event enqueued more often than it triggered (start, stop) has no ordinal.
Put(q, e, by, nth, outer) ==
    /\ queue' = Append(q, [name |-> e, by |-> by, nth |-> nth])
    /\ status' = StatusAfter(e)
    /\ cascade' = IF Cascades(e)
                  THEN <<[event |-> e, nth |-> nTriggers'[e], next |-> 1]>> \o outer
                  ELSE outer

Idle == cascade = <<>>      \* no enqueue_event under way

Top  == Head(cascade)
Advanced == <<[Top EXCEPT !.next = @ + 1]>> \o Tail(cascade)

\* The loop over _ordered_events goes on: the event asked is not the one
\* enqueued, and it fires or it does not.
CascadeAsk(fires) ==
    /\ ~Idle
    /\ Top.next <= Len(Ordered)
    /\ \E curr \in Events \ {Top.event} :
         /\ curr = Ordered[Top.next]
         /\ Ask(curr, Top.event, fires)
         /\ IF fires
            THEN Put(queue, curr, Top.event, Top.nth, Advanced)
            ELSE cascade' = Advanced /\ UNCHANGED <<queue, status>>
    /\ UNCHANGED <<finished, pc, scan, submitted, stopRequested, clientVars, ghosts>>

CascadeSkip ==
    /\ ~Idle
    /\ Top.next <= Len(Ordered)
    /\ Ordered[Top.next] = Top.event
    /\ cascade' = Advanced
    /\ UNCHANGED <<bucketVars, status, finished, pc, scan, queue, submitted,
                   stopRequested, clientVars, ghosts>>

CascadeReturn ==
    /\ ~Idle
    /\ Top.next > Len(Ordered)
    /\ cascade' = Tail(cascade)
    /\ UNCHANGED <<bucketVars, status, finished, pc, scan, queue, submitted,
                   stopRequested, clientVars, ghosts>>

-----------------------------------------------------------------------------
(* The simulation's thread: run().                                         *)

Boot ==
    /\ pc = "boot"
    /\ pc' = "test"
    /\ UNCHANGED bucketVars
    /\ Put(queue, StartEvent, None, 0, <<>>)
    /\ UNCHANGED <<finished, scan, submitted, stopRequested, clientVars, ghosts>>

\* Mutant: a stop leaves at once, with events in the queue.
LeavesAtOnce == status # "RUNNING"

Leaves == status # "RUNNING" /\ (status # "STOPPING" \/ queue = <<>>)

Scans == status = "RUNNING"

\* The condition of the while loop, and of the scan.
Loop ==
    /\ pc \in {"test", "pause"}
    /\ Idle
    /\ pc' = IF Leaves THEN "finalize"
             ELSE IF Scans THEN "scan" ELSE "get"
    /\ UNCHANGED <<bucketVars, status, finished, scan, queue, cascade, submitted,
                   stopRequested, clientVars, ghosts>>

\* One event is asked, without a triggering event.  The scan goes on to the
\* last event even if the simulation is stopping by then.
Scan(fires) ==
    /\ pc = "scan"
    /\ Idle
    /\ Ask(Order[scan], None, fires)
    /\ IF fires
       THEN Put(queue, Order[scan], None, 0, <<>>)
       ELSE UNCHANGED <<queue, status, cascade>>
    /\ IF scan = Len(Order)
       THEN scan' = 1 /\ pc' = "get"
       ELSE scan' = scan + 1 /\ UNCHANGED pc
    /\ UNCHANGED <<finished, submitted, stopRequested, clientVars, ghosts>>

\* wait_for() finds an empty queue, and run() is suspended in it.
Wait ==
    /\ pc = "get"
    /\ Idle
    /\ status = "RUNNING"
    /\ queue = <<>>
    /\ pc' = "wait"
    /\ UNCHANGED <<bucketVars, status, finished, scan, queue, cascade, submitted,
                   stopRequested, clientVars, ghosts>>

\* get_nowait() found nothing, or wait_for() timed out: also with an event in
\* the queue by then, which get() has been woken for and does not take, since it
\* is cancelled before it goes on.
GetNothing ==
    /\ \/ pc = "wait"
       \/ pc = "get" /\ status # "RUNNING" /\ queue = <<>>
    /\ Idle
    /\ pc' = "pause"
    /\ UNCHANGED <<bucketVars, status, finished, scan, queue, cascade, submitted,
                   stopRequested, clientVars, ghosts>>

\* _call_by_type calls self(event) if there is a triggering event, else self().
Misfit(item) ==
    Arity[item.name] = (IF item.by = None THEN "one" ELSE "none")

\* Mutant: taking an event empties the queue.
RestDropped == <<>>

Unqueued == Tail(queue)

\* The event returned: a metric that was triggered is reported, with the
\* number of executions of the event that triggered it.
Fire ==
    /\ pc \in {"get", "wait"}
    /\ Idle
    /\ queue # <<>>
    /\ LET item == Head(queue) IN
         /\ ~Misfit(item)
         /\ Reset(item.name)
         /\ lastRun' = IF item.name \in Post THEN lastRun ELSE item.name
         /\ lastReport' =
              IF item.name \in Metrics /\ item.by # None
              THEN [metric |-> item.name, by |-> item.by, nth |-> item.nth,
                    idx |-> nCalls[item.by], after |-> lastRun]
              ELSE lastReport
    /\ queue' = Unqueued
    /\ pc' = "pause"
    /\ UNCHANGED <<status, finished, scan, cascade, submitted, stopRequested,
                   clientVars, raised>>

\* The event raised: the bucket is not reset, nothing is reported, and the
\* simulation stops unless it is stopping already.
FireRaises ==
    /\ pc \in {"get", "wait"}
    /\ Idle
    /\ queue # <<>>
    /\ LET item == Head(queue) IN
         /\ Misfit(item) \/ item.name \in Faulty
         /\ raised' = [raised EXCEPT ![item.name] = @ + 1]
    /\ UNCHANGED bucketVars
    /\ IF status = "STOPPING"
       THEN queue' = Unqueued /\ UNCHANGED <<status, cascade>>
       ELSE Put(Unqueued, StopEvent, None, 0, <<>>)
    /\ pc' = "pause"
    /\ UNCHANGED <<finished, scan, submitted, stopRequested, clientVars, lastRun, lastReport>>

\* run() is suspended and the loop runs what stop() submitted: in wait_for
\* (on an empty queue; Python 3.11 suspends in it on any other too), in sleep, in
\* the reporter's stop(), or in the last turn of the loop, when run() has returned.
Suspended ==
    \/ pc = "get" /\ status = "RUNNING" /\ queue # <<>>
    \/ pc \in {"wait", "pause", "finalize", "ended"}

RunSubmitted ==
    /\ Suspended
    /\ Idle
    /\ submitted > 0
    /\ submitted' = submitted - 1
    /\ UNCHANGED bucketVars
    /\ Put(queue, StopEvent, None, 0, <<>>)
    /\ UNCHANGED <<finished, pc, scan, stopRequested, clientVars, ghosts>>

\* _finalize_shutdown, once the reporter's stop() has returned.
Finalize ==
    /\ pc = "finalize"
    /\ Idle
    /\ status' = "IDLE"
    /\ stopRequested' = FALSE
    /\ finished' = TRUE
    /\ pc' = "ended"
    /\ UNCHANGED <<bucketVars, scan, queue, cascade, submitted, clientVars, ghosts>>

\* The loop is closed; what was submitted and has not run never will.
CloseLoop ==
    /\ pc = "ended"
    /\ Idle
    /\ pc' = "closed"
    /\ submitted' = 0
    /\ UNCHANGED <<bucketVars, status, finished, scan, queue, cascade, stopRequested,
                   clientVars, ghosts>>

-----------------------------------------------------------------------------

Client ==
    \/ Start
    \/ \E e \in Events : Trigger(e)
    \/ StopReads
    \/ StopRequests
    \/ StopSubmits

Run ==
    \/ \E fires \in BOOLEAN : CascadeAsk(fires) \/ Scan(fires)
    \/ CascadeSkip
    \/ CascadeReturn
    \/ Boot
    \/ Loop
    \/ Wait
    \/ GetNothing
    \/ Fire
    \/ FireRaises
    \/ Finalize
    \/ CloseLoop

Next == Client \/ Run \/ RunSubmitted

Spec == Init /\ [][Next]_vars

\* The two threads run.  The loop serves its ready queue in order, so it does
\* not pass over a submitted coroutine for ever, although run() is suspended
\* only now and then.  The client need not call anything, but it finishes the
\* call of stop() it is in.
Fairness ==
    /\ WF_vars(Run)
    /\ SF_vars(RunSubmitted)
    /\ WF_vars(StopRequests)
    /\ WF_vars(StopSubmits)

FairSpec == Spec /\ Fairness
-----------------------------------------------------------------------------
(* Properties.                                                             *)

\* Every variable has its type; every event in the queue is a configured one.
TypeOK ==
    /\ BucketTypeOK
    /\ status \in {"IDLE", "RUNNING", "STOPPING"}
    /\ stopRequested \in BOOLEAN
    /\ finished \in BOOLEAN
    /\ pc \in Points
    /\ scan \in 1..Len(Order)
    /\ queue \in Seq(Items)
    /\ cascade \in Seq(Frames)
    /\ submitted \in Nat
    /\ client \in {"free", "requesting", "submitting", "refused"}
    /\ requested \in [Events -> Nat]
    /\ stops \in Nat
    /\ raised \in [Events -> Nat]
    /\ lastRun \in By
    /\ lastReport \in Reports \cup {None}

\* How often e waits in the queue.
Queued(e) == Cardinality({i \in DOMAIN queue : queue[i].name = e})

\* The events enqueued only after their bucket fired.
Triggered == Events \ {StartEvent, StopEvent}

\* Each time a bucket says yes its event is enqueued, and then executed, once:
\* neither the cascade's recursion, nor the wait_for that times out, nor an
\* exception, nor a stop drops an event or executes it twice.
EveryTriggerRunsOnce ==
    \A e \in Triggered : nTriggers[e] = nCalls[e] + raised[e] + Queued(e)

\* max_triggers (max_steps, for the driving event) bounds the executions, on
\* whatever path the event was enqueued, manual activations included.
StepsWithinMax ==
    \A e \in Triggered : nCalls[e] + raised[e] <= MaxTriggers[e]

\* A metric is reported with the ordinal of the very execution that triggered
\* it, and right after that execution: the data it reads and the event_idx it
\* is stored under belong together.  An event that raised earlier is behind
\* with its executions, so its metrics are left out.
ReportsLabelled ==
    lastReport # None =>
        LET r == lastReport IN
            raised[r.by] = 0 /\ r.by \in Triggered
                => r.idx = r.nth /\ r.after = r.by

\* When wait() returns, everything enqueued has been executed, but for what a
\* stop that came after the loop's last test enqueued.
FinishedMeansDrained ==
    finished /\ queue # <<>> => queue[1].name = StopEvent /\ queue[1].by = None

\* stop as SimulationConfig leaves it: max_steps and the timeout are its only
\* triggers.  The client calls stop(), not trigger("stop").
StopConfigured ==
    /\ MaxManual[StopEvent] = 0
    /\ \A t \in Triggers[StopEvent] :
         \/ t.kind = "scheduled"
         \/ t.kind = "every" /\ t.on = DrivingEvent /\ t.n = MaxTriggers[DrivingEvent]

\* e is an event as StepEvent: each trigger of the driving event triggers it,
\* and its own limit does not come first.
FollowsSteps(e) ==
    /\ e \in Triggered \ (Post \cup {DrivingEvent})
    /\ Triggers[e] = {[kind |-> "every", on |-> DrivingEvent, n |-> 1]}
    /\ MaxTriggers[e] >= MaxTriggers[DrivingEvent] + MaxManual[e]

\* No event raised, and the time did not run out.
Undisturbed ==
    /\ alarms = [e \in Events |-> Alarms[e]]
    /\ \A e \in Events : raised[e] = 0

\* A simulation that ended without a stop() has executed max_steps steps, no
\* more and no less.
MaxStepsExact ==
    pc = "ended" /\ Undisturbed /\ stops = 0
        => nCalls[DrivingEvent] = MaxTriggers[DrivingEvent]

\* run(steps) and tests/integration/simulation/test_recovery.py:53-60: the steps
\* triggered before stop() are executed before the simulation ends, even those
\* no scan came across: the cascade of the stop itself uses them up.
StepsBeforeStop ==
    pc = "ended" /\ Undisturbed
        => \/ nCalls[DrivingEvent] >= requested[DrivingEvent]
           \/ nCalls[DrivingEvent] = MaxTriggers[DrivingEvent]

\* A requested stop ends the simulation: queued events do not keep it going.
StopFinishes == stopRequested ~> finished

\* A simulation with max_steps and a cadence ends without help.
MaxStepsFinishes == (pc = "boot") ~> finished

\* Every manual step is executed, unless a stop comes first.
StepsRun ==
    \A n \in 1..MaxManual[DrivingEvent] :
        requested[DrivingEvent] >= n
            ~> (nCalls[DrivingEvent] >= n \/ status # "RUNNING")

\* tests/integration/simulation/test_recovery.py:58: a stopped simulation is
\* IDLE.
IdleAtTheEnd == pc = "closed" => status = "IDLE"
=============================================================================
