------------------------------ MODULE Reporter ------------------------------
(***************************************************************************)
(* eclypse/simulation/_simulator/reporter.py: SimulationReporter.          *)
(*                                                                         *)
(* The simulation loop calls report() after each execution of a metric.    *)
(* For every reporter the metric names there is an asyncio queue per       *)
(* metric type, a buffer and a writer task; stop() joins the queues, puts  *)
(* None on each, waits for the writers and closes the reporters.           *)
(*                                                                         *)
(* What report() queues is a generator (eclypse/report/reporters): it      *)
(* reads the metric's data when the writer runs buffer.extend(item), not   *)
(* when it is queued.  A row here records both: the execution it is        *)
(* labelled with and the execution its data comes from, and which of the   *)
(* generator's rows it is.                                                 *)
(*                                                                         *)
(* All of this runs on one asyncio loop, so an action is what a task does  *)
(* between two awaits that suspend.  Queues are unbounded: put() never     *)
(* suspends.                                                               *)
(***************************************************************************)
EXTENDS Integers, Sequences

CONSTANTS
    Metrics,      \* the events whose results are reported
    Channels,     \* the (reporter type, metric type) pairs
    Route,        \* the channels each metric is reported on
    ChunkSize,    \* report_chunk_size
    MaxBatch,     \* bound: rows one execution yields on one channel
    MaxExecs,     \* bound: executions of each metric
    Fallible,     \* whether a generator or reporter.write may raise
    Shutdown      \* the None that ends a writer

Items == [metric : Metrics, of : Nat]
Rows  == [metric : Metrics, of : Nat, at : Nat, data : Nat]

ASSUME ConstantsAssumption ==
    /\ Route \in [Metrics -> SUBSET Channels]
    /\ ChunkSize \in Nat \ {0}
    /\ MaxBatch \in Nat
    /\ MaxExecs \in [Metrics -> Nat]
    /\ Fallible \in BOOLEAN
    /\ Shutdown \notin Items

VARIABLES
    phase,        \* how far start() and stop() have come
    execs,        \* n_calls of each metric
    queue,        \* self.queues
    unfinished,   \* asyncio.Queue's count of items without a task_done()
    writer,       \* where each writer task is; "none" before _ensure_queue
    buffer,       \* self.buffers
    storage,      \* rows in the reporter's file
    drained       \* history: every row a writer has taken from its generator

vars == <<phase, execs, queue, unfinished, writer, buffer, storage, drained>>

Phases     == {"idle", "running", "joining", "gathering", "closed"}
Terminated == {"done", "failed"}
Writers    == {"none", "get", "write", "flush"} \cup Terminated

Opened == {c \in Channels : writer[c] # "none"}

\* The writer's get() returns at once.
Holds(c) == writer[c] = "get" /\ queue[c] # <<>>

Init ==
    /\ phase = "idle"
    /\ execs = [m \in Metrics |-> 0]
    /\ queue = [c \in Channels |-> <<>>]
    /\ unfinished = [c \in Channels |-> 0]
    /\ writer = [c \in Channels |-> "none"]
    /\ buffer = [c \in Channels |-> <<>>]
    /\ storage = [c \in Channels |-> <<>>]
    /\ drained = [c \in Channels |-> <<>>]

-----------------------------------------------------------------------------
(* The simulation's coroutine.                                             *)

Start ==
    /\ phase = "idle"
    /\ phase' = "running"
    /\ UNCHANGED <<execs, queue, unfinished, writer, buffer, storage, drained>>

\* The metric runs and report() queues it.  After each execution the
\* simulation sleeps, and put() has made the writers ready: each runs until
\* its queue is empty or it awaits a write, before the next execution.  A
\* channel of its route outside "targets" got no item: the reporter answered
\* None.
Report(m) ==
    /\ phase = "running"
    /\ execs[m] < MaxExecs[m]
    /\ \A c \in Channels : ~Holds(c)
    /\ execs' = [execs EXCEPT ![m] = @ + 1]
    /\ \E targets \in SUBSET Route[m] :
         /\ queue' = [c \in Channels |->
                        IF c \in targets
                        THEN Append(queue[c], [metric |-> m, of |-> execs[m] + 1])
                        ELSE queue[c]]
         /\ unfinished' = [c \in Channels |->
                             unfinished[c] + (IF c \in targets THEN 1 ELSE 0)]
         /\ writer' = [c \in Channels |->
                         IF c \in targets /\ writer[c] = "none"
                         THEN "get" ELSE writer[c]]
    /\ UNCHANGED <<phase, buffer, storage, drained>>

\* stop() is awaited from a finally: also when start() never completed.
Stop ==
    /\ phase \in {"idle", "running"}
    /\ phase' = "joining"
    /\ UNCHANGED <<execs, queue, unfinished, writer, buffer, storage, drained>>

\* Every join() has returned.  stop() awaits them one after the other; nobody
\* reports any more, so a count that reached zero stays there and the last
\* join returns exactly when all counts are zero.
Signal ==
    /\ phase = "joining"
    /\ \A c \in Opened : unfinished[c] = 0
    /\ phase' = "gathering"
    /\ queue' = [c \in Channels |->
                   IF c \in Opened THEN Append(queue[c], Shutdown) ELSE queue[c]]
    /\ unfinished' = [c \in Channels |->
                        unfinished[c] + (IF c \in Opened THEN 1 ELSE 0)]
    /\ UNCHANGED <<execs, writer, buffer, storage, drained>>

\* Mutant: stop() does not wait for the tasks it signalled.
NotGathered == TRUE

Gathered == \A c \in Opened : writer[c] \in Terminated

\* gather() has returned; every reporter is closed.
Close ==
    /\ phase = "gathering"
    /\ Gathered
    /\ phase' = "closed"
    /\ UNCHANGED <<execs, queue, unfinished, writer, buffer, storage, drained>>

-----------------------------------------------------------------------------
(* A writer task.                                                          *)

Pop(c)      == queue' = [queue EXCEPT ![c] = Tail(@)]
Goto(c, l)  == writer' = [writer EXCEPT ![c] = l]

\* Mutants: an item is counted as done twice, or never.
TwiceDone(c) == unfinished' = [unfinished EXCEPT ![c] = @ - 2]
NotDone(c)   == unfinished' = unfinished

TaskDone(c) == unfinished' = [unfinished EXCEPT ![c] = @ - 1]

\* buffer.extend(item) runs the generator: n rows labelled item.of that carry
\* whatever data the metric has by now.
Block(item, n) ==
    [i \in 1..n |-> [metric |-> item.metric, of |-> item.of, at |-> i,
                     data |-> execs[item.metric]]]

Take(c) ==
    /\ Holds(c)
    /\ Head(queue[c]) # Shutdown
    /\ Pop(c)
    /\ \E n \in 0..MaxBatch :
         LET block == Block(Head(queue[c]), n) IN
         /\ buffer' = [buffer EXCEPT ![c] = @ \o block]
         /\ drained' = [drained EXCEPT ![c] = @ \o block]
    /\ IF Len(buffer'[c]) >= ChunkSize
       THEN Goto(c, "write") /\ UNCHANGED unfinished
       ELSE TaskDone(c) /\ UNCHANGED writer
    /\ UNCHANGED <<phase, execs, storage>>

\* The generator raises: the error is logged and the task returns.  The rows it
\* yielded before are left out: they stay in a buffer nobody writes any more.
TakeRaises(c) ==
    /\ Fallible
    /\ Holds(c)
    /\ Head(queue[c]) # Shutdown
    /\ Pop(c)
    /\ TaskDone(c)
    /\ Goto(c, "failed")
    /\ UNCHANGED <<phase, execs, buffer, storage, drained>>

\* Mutant: the buffer is not cleared after a write.
NeverCleared(c) == buffer' = buffer

Clear(c) == buffer' = [buffer EXCEPT ![c] = <<>>]

Write(c) ==
    /\ writer[c] = "write"
    /\ storage' = [storage EXCEPT ![c] = @ \o buffer[c]]
    /\ Clear(c)
    /\ TaskDone(c)
    /\ Goto(c, "get")
    /\ UNCHANGED <<phase, execs, queue, drained>>

\* The write raises after some of the buffer reached the file: the task
\* returns without a retry and without the final flush.
WriteRaises(c) ==
    /\ Fallible
    /\ writer[c] = "write"
    /\ \E k \in 0..Len(buffer[c]) :
         storage' = [storage EXCEPT ![c] = @ \o SubSeq(buffer[c], 1, k)]
    /\ TaskDone(c)
    /\ Goto(c, "failed")
    /\ UNCHANGED <<phase, execs, queue, buffer, drained>>

TakeShutdown(c) ==
    /\ Holds(c)
    /\ Head(queue[c]) = Shutdown
    /\ Pop(c)
    /\ TaskDone(c)
    /\ Goto(c, IF buffer[c] = <<>> THEN "done" ELSE "flush")
    /\ UNCHANGED <<phase, execs, buffer, storage, drained>>

\* The final flush leaves the buffer as it is: the task ends here.
Flush(c) ==
    /\ writer[c] = "flush"
    /\ storage' = [storage EXCEPT ![c] = @ \o buffer[c]]
    /\ Goto(c, "done")
    /\ UNCHANGED <<phase, execs, queue, unfinished, buffer, drained>>

FlushRaises(c) ==
    /\ Fallible
    /\ writer[c] = "flush"
    /\ \E k \in 0..Len(buffer[c]) :
         storage' = [storage EXCEPT ![c] = @ \o SubSeq(buffer[c], 1, k)]
    /\ Goto(c, "failed")
    /\ UNCHANGED <<phase, execs, queue, unfinished, buffer, drained>>

WriterStep(c) ==
    \/ Take(c)
    \/ TakeRaises(c)
    \/ Write(c)
    \/ WriteRaises(c)
    \/ TakeShutdown(c)
    \/ Flush(c)
    \/ FlushRaises(c)

Next ==
    \/ Start
    \/ \E m \in Metrics : Report(m)
    \/ Stop
    \/ Signal
    \/ Close
    \/ \E c \in Channels : WriterStep(c)

Spec == Init /\ [][Next]_vars

\* The loop schedules every ready task and file writes end: the writers and
\* stop() are fair.  That a run starts, reports or stops is not assumed.
FairSpec ==
    /\ Spec
    /\ WF_vars(Signal)
    /\ WF_vars(Close)
    /\ \A c \in Channels : WF_vars(WriterStep(c))

-----------------------------------------------------------------------------
(* Properties.                                                             *)

\* Every variable has its type; task_done() is never called once too often,
\* where asyncio would raise.
TypeOK ==
    /\ phase \in Phases
    /\ execs \in [Metrics -> Nat]
    /\ queue \in [Channels -> Seq(Items \cup {Shutdown})]
    /\ unfinished \in [Channels -> Nat]
    /\ writer \in [Channels -> Writers]
    /\ buffer \in [Channels -> Seq(Rows)]
    /\ storage \in [Channels -> Seq(Rows)]
    /\ drained \in [Channels -> Seq(Rows)]

InFlight(c) == IF writer[c] = "write" THEN 1 ELSE 0

\* join() in stop() may return only when nothing is queued and no chunk is
\* being written: the count of unfinished items is that of the queue plus the
\* item whose write is under way.
UnfinishedIsPending ==
    \A c \in Channels : unfinished[c] = Len(queue[c]) + InFlight(c)

\* While a writer is alive every row it took is in the file or in its buffer,
\* once and in the order taken.
NothingLostInFlight ==
    \A c \in Channels :
        writer[c] \in {"none", "get", "write", "flush"} =>
            storage[c] \o buffer[c] = drained[c]

\* Whatever fails, the file holds a prefix of the rows taken: a write that
\* raised half-way is never repeated, and nothing is written after a gap.
StoredIsPrefix ==
    \A c \in Channels :
        /\ Len(storage[c]) <= Len(drained[c])
        /\ \A i \in 1..Len(storage[c]) : storage[c][i] = drained[c][i]

\* The row x comes before the row y, if they are of one metric.
Before(x, y) ==
    x.metric = y.metric => x.of < y.of \/ (x.of = y.of /\ x.at < y.at)

\* The rows of a metric are in the file in the order of its executions, those of
\* one execution in the order of its generator, and none is there twice.  What
\* is still queued is of later executions.  No row carries data older than the
\* execution it is labelled with.
RowsInOrder ==
    \A c \in Channels :
        /\ \A i, j \in 1..Len(storage[c]) : i < j => Before(storage[c][i], storage[c][j])
        /\ \A i \in 1..Len(storage[c]) : \A j \in 1..Len(queue[c]) :
              queue[c][j] # Shutdown /\ queue[c][j].metric = storage[c][i].metric
                => storage[c][i].of < queue[c][j].of
        /\ \A i \in 1..Len(storage[c]) : storage[c][i].of <= storage[c][i].data

\* stop() has returned: the writers that did not fail have nothing left to
\* take and every row they took is in the file.
ClosedMeansDurable ==
    phase = "closed" =>
        \A c \in Opened : writer[c] # "failed" =>
            queue[c] = <<>> /\ storage[c] = drained[c]

\* The reporter is a journal per channel: accepted is what its writer took, and
\* stored what is in the file.
FailedWriters == {c \in Channels : writer[c] = "failed"}

J == INSTANCE Journal WITH accepted <- drained, stored <- storage,
                           failed <- FailedWriters, closed <- phase = "closed"

\* Every run of the reporter is one of a journal: what the writers do at their
\* own pace, with buffers, chunks and a shutdown signal, only ever adds to a
\* file what was taken from the generators, in order, and stop() closes no file
\* that lacks rows unless its writer failed.
KeepsAJournal == J!Spec

\* stop() returns, unless a writer failed and left items nobody will take:
\* then its join() waits for ever.
StopBlocksOnlyOnFailure ==
    phase = "joining" ~>
        \/ phase = "closed"
        \/ \E c \in Channels : writer[c] = "failed" /\ unfinished[c] > 0

\* "Shut down all writer tasks cleanly" (reporter.py:79): stop() returns.
StopReturns == phase = "joining" ~> phase = "closed"

\* A row labelled with an execution carries that execution's data
\* (report/reporter.py:61, "callback: The executed event").
RowsOfTheirExecution ==
    \A c \in Channels : \A i \in 1..Len(storage[c]) :
        storage[c][i].data = storage[c][i].of
=============================================================================
