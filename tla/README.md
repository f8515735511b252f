# A verification project for ECLYPSE

ECLYPSE simulates applications placed on an edge-cloud infrastructure. A simulation is a set
of *events* (workflow steps, callbacks, metrics), each with a bucket of triggers; a loop asks
the buckets, executes the events that fire, and hands their rows to a reporter that writes
files in the background. Around that core stand the placement of applications, the attributed
graph of the infrastructure with its caches, a packet network, update policies, and a remote
back end that deploys services on Ray actors.

This directory holds TLA+ models of that code (paths below are relative to `src/`), the TLC
configurations that check them and proofs checked by TLAPS. `PROJECT.json` maps every
definition to the lines it models and lists runs, mutants, findings, hazards and theorems.

    tlc -workers 2 -config MCReporter.cfg MCReporter          # seconds
    tlc -workers 2 -config MCSimulatorAuto.cfg MCSimulator    # seconds
    tlc -workers 2 -config MCSimulatorManual.cfg MCSimulator  # about a minute
    tlc -workers 2 -config MCPlacement.cfg MCPlacement        # about a minute
    tlc -workers 2 -config MCPathCache.cfg MCPathCache        # two minutes
    tlc -workers 2 -config MCNetwork.cfg MCNetwork            # two minutes
    tlc -workers 2 -config MCRemoteOps.cfg MCRemoteOps        # two minutes
    tlc -workers 2 -config MCMessaging.cfg MCMessaging        # about a minute
    tlapm ReporterProofs.tla                                  # and SimulatorProofs,
                                                              # PlacementProofs, PathCacheProofs,
                                                              # RemoteOpsProofs, MessagingProofs,
                                                              # NetworkProofs, DataProofs: about a
                                                              # minute each, NetworkProofs several

## 1. Inventory

The parts of `src/eclypse`, by what they keep and what can go wrong.

| Component | State | Operations | Hard behaviour | Correct when | Model |
|---|---|---|---|---|---|
| Simulator (`simulation/_simulator/local.py`) | status, stop flag, finished event, event queue | start, trigger, stop, run, enqueue_event, fire, finalize | client thread against loop thread; recursion of enqueue_event; an event that raises; wait_for | every trigger executed once; bounds kept; stop drains and terminates | `Simulator` |
| Trigger buckets (`workflow/trigger`) | manual activations, trigger and execution counters, per-trigger memory | trigger, reset, init | order of max, manual, triggers; counters read by other events | a cadence counts what it promises | `TriggerBucket` |
| Events and roles (`workflow/event`) | reference to bucket and simulator | _trigger, _fire, _call_by_type | arity mismatch raises inside the loop | a misfit event stops, not corrupts | in `Simulator` |
| Simulation reporter (`_simulator/reporter.py`) | queue, buffer and task per metric and channel | start, report, stop, _writer | lazy generators, failing writes, shutdown sentinel, `queue.join()` | every row written once, in order; stop makes durable | `Reporter`, `Journal` |
| Reporters (`report/reporters`) | open handles | report (generator), write | reads the event's data late | rows are of the execution they are labelled with | in `Reporter` |
| Facade and configuration (`simulation/{simulation,config}.py`) | options | step, trigger, run, stop, wait | run(steps) is several calls | steps asked for are executed | the client of `Simulator` |
| Placement manager, placements, view (`placement`) | placements, view, residuals | audit, mapping, generate, reset, enact | several applications share a view; partial mappings | no node over-committed; reset only what is violated | `Placement` |
| Strategies (`placement/strategies`) | round-robin cursor, static table | place | which infrastructure is passed | each service on a feasible node | in `Placement` |
| Assets (`graph/assets`) | none | aggregate, satisfies, consume | double subtraction | algebra of additive, concave, convex | in `Placement` |
| Infrastructure (`graph/infrastructure.py`) | path, cost and availability caches | path, path_resources, set attribute, add/remove | which mutation drops which cache | a cached path is what recomputation gives | `Routing`, `PathCache` |
| Packet network (`network`) | flows, queues, router buffers, forwarding table, failures | send, forward, fail, restore | drop-tail, counters, table after failure | packets conserved; no stale route used | `Network` |
| Remote simulator and operations (`_simulator/{remote,ops_handler}.py`) | the placement enacted so far | enact, deploy, start, stop, undeploy, cleanup | partial failure over several nodes | nothing left running after cleanup | `RemoteOps`; `route` in `PathCache` |
| Remote nodes and services (`remote/_node`, `remote/service`) | service table, operations thread, service state | deploy, start, stop, undeploy | thread against calls; stop of a service never started | life cycle; registry agrees with what runs | `RemoteOps`, `Messaging` |
| Communication (`remote/communication`) | message queue, pending requests | send, broadcast, receive | route vanishes, recipient stopped | each request answered or failed | `Messaging` (MPI) |
| Schedules, failures (`policies/{schedule,failure,degrade}`) | counters, saved values | call per step | boundaries, restoring what was saved | steps on which the policy acts | their effects only: changes in `Placement`, `PathCache`, `Network` |
| Other policies | walks, traces | call per step | floating-point data | data only | no |
| Bootstrap, builders, import/export, reports and queries, metrics, utilities | options, documents, data frames | configuration, I/O, pure functions | none of the kinds above | data only | no |

Interactions. The client's thread calls `start`, `trigger`, `stop` and `wait`; `stop` reaches
the loop only by submitting a coroutine. The loop executes an event by calling it; the event
may call the placement manager (`audit`, `enact`) or the graphs' update policies, and its data
is handed to the reporter by `report`, which enqueues a lazy generator per channel. The
remote simulator overrides `enact` and `cleanup` with blocking calls to Ray actors. Placement
reads residual resources and paths from the infrastructure, whose caches updates invalidate.

The hazards found while reading this code are in `PROJECT.json` under `hazards`, each at its
line, with the properties that would catch it or the reason why none does.

## 2. The modules

### TriggerBucket: the bucket of triggers (`workflow/trigger/bucket.py`, `trigger.py`, `cascade.py`)

The state is a function per attribute over the events: `manual` (`_manual_activation`),
`nTriggers` and `nCalls` (the counters of triggers and of executions), `primed`, `times` and
`alarms` (what a periodic, a scheduled cascade and a scheduled trigger remember). `Ask` is
`TriggerBucket.trigger`: the limit first, then a pending manual activation, then the triggers
combined with `any` or `all`. A trigger answers either the scan's question (no triggering
event) or a cascade's, so `Asked` keeps those concerned. Clocks and random draws are
nondeterministic answers; what remains certain is kept (the first question of a periodic
trigger says yes, a period of 0 says yes ever after, an exhausted schedule says no). `Reset`
and `Activate` are `reset` and the client's `trigger`.

### Simulator: the event loop (`simulation/_simulator/local.py`)

EXTENDS TriggerBucket. Two threads interleave:

* the client: `Start`, `Trigger(e)`, and `stop()` in its three steps, `StopReads` (status and
  flag), `StopRequests` (the flag), `StopSubmits` (`run_coroutine_threadsafe`);
* the loop: `pc` says where `run()` is. `Boot` enqueues the start event, `Loop` is the while
  condition, `Scan` asks one event of the `for`, `Wait`, `GetNothing`, `Fire` and `FireRaises` are
  the dequeue and the execution (a `wait_for` that times out may leave an event put meanwhile), `Finalize` and `CloseLoop` the end. `enqueue_event` calls itself:
  the calls under way are the stack `cascade`, a frame per call with the position of its loop,
  and `CascadeAsk`, `CascadeSkip` and `CascadeReturn` are one turn of the innermost. Posts
  (callbacks and metrics) are enqueued and start no cascade, as in the code.
* `RunSubmitted` runs the coroutine that `stop()` submitted, only where `run()` suspends.

The frame keeps the ordinal of the trigger that opened it and the queue's items carry it along:
a history, like `raised`, `lastRun` and `lastReport`, that no guard reads.

`Lists` defines the sublist that the sort of the events is made of, and the lists one after the
other, as recursive functions, so that they can be proved about.

### Reporter: the background writers (`simulation/_simulator/reporter.py`)

A *channel* is a reporter and a metric type: the code keeps a queue, a buffer and a writer task
for each. `Report(m)` is `report()`: it counts an execution of a metric and puts a generator on
the queue of each channel that is to have it, creating queue and writer on first use. A writer
is `Take` (get the item and drain it into the buffer), `Write` when the buffer has a chunk,
`TakeShutdown` and `Flush` at the end; `TakeRaises`, `WriteRaises` and `FlushRaises` are the
exceptions that end the task, a write having stored any part of the buffer. `stop()` is `Stop`,
`Signal` once every join has returned, and `Close` after gather. `unfinished` is the count of
`asyncio.Queue` behind `join()`. Everything runs on one loop, so an action is what a task does
between two awaits that suspend.

The rows' data is read when the generator is drained, not when it is queued, because `report()`
of the reporters is a generator: a row records the execution it is labelled with and the one
its data comes from. Its position in the generator is kept too. `drained` is a history of the rows taken,
which no guard reads.

### Journal: what the reporter promises

An abstract specification: per channel the rows accepted and the rows stored, `Accept`,
`Store` (all accepted so far), `Fail` (with a prefix in the file, for good) and `Close` (only
when every journal that did not fail is complete). `Reporter` implements it with
`J == INSTANCE Journal`: accepted is `drained`, stored is `storage`, and the failed ones are
those of failed writers; buffers, chunks, queues, joins and the shutdown signal are hidden.

### Routing: paths (`graph/infrastructure.py`)

No state: the paths Dijkstra may find among the usable nodes and the aggregates along a path
(latencies and processing times add up, bandwidth is the narrowest). `Placement`, `PathCache`
and `Network` use it. Ties between paths of equal cost and length are left open.

### Placement: manager, view and strategies (`placement/`)

A round is one `enact` event. `StartAudit` resets the view; `Audit(a)` is one turn of
`audit()`'s loop, in any order of the applications: `generate_mapping` with one of the five
strategies, `_update_view` on nodes and links, `validate` and the marks; `AuditRaises` is a
strategy or a view update that raises: the marks of the turns before it stay, and as the loop only
enqueues a stop, further rounds and steps may follow; `Enact` resets what is marked. Strategies are the sets
of mappings `place()` may return, folds over the services in the order of the code. `Evolve`
is what update policies do between two rounds: degrade, kill, revive, remove and add nodes, cut
and add links. Kept from the code, though they surprise: every placed application is a user of
every node (so one overloaded node resets all), the latency required between two nodes is that of
the last flow, and a hop's residual loses the sum of what is required of it, not the increment.

### PathCache: caches and invalidation (`graph/infrastructure.py`, `invalidating_dict.py`)

The graph changes by one action per mutation, each with the caches its hook clears (`stale`),
after the value is stored, as in the code; `Clear` is one dictionary of the four, one after the
other, and `EvolveEnds` the clear at the end of `evolve()`. A query (`path`, `path_resources` or
`processing_time`) is the same code in two threads without a lock, the simulation's and, by
`RemoteSimulator.route`, the actor's: `Look`, `Check` and `Compare` are what `path()` reads,
`Compute`, `Cost`, `StorePath`, `StoreCosts` and the sums each computed (`ReadCosts`, `ReadPath`)
before they are stored (`StoreResources`, `StoreTime`) what `_compute_path()` does, `Raise` a KeyError
on what another thread has taken away or not yet stored. Either thread may go on between any two.
The simulation's changes nothing while its own query is under way. `outdated` and `raced` are
histories: an entry stored after the graph changed since it was computed.

### Network: packets (`network/`)

`Generate` draws packets for every application and clears those no routing has taken: steps
that are pending together nest in their cascades, so several generations may come before the first
routing (`due` counts the routings queued). `Route` is the routing event; for each application in
turn (it is executed once per application), `Inject` and one hop for every packet in the network:
`Hop` is `get_next_hop`, the multiplexer's choice of a source and `forward_one_hop` with the
drop-tail deque; `Build` is the forwarding table made when there is none; `EndRouting` turns
what was passed on into the next buffers. `InjectRaises` is a routing that meets a node
removed since: what it had injected stays so, and what is queued still runs. `Between` is a removal, an addition or a new placement
between steps. A deque shared by the two directions of a symmetric edge is one deque here
too, with a byte count per direction as in the code. `delivered` and `ended` are histories.
The packets drawn are one list per application (`Joined`), of which a node injects its own
(`Sublist`); both are in `Lists`.

### RemoteOps: the remote simulator and its nodes (`_simulator/{remote,ops_handler}.py`, `remote/_node`, `remote/service`)

`Audit` chooses any new mappings and marks (what they can be is `Placement`'s matter). `Visit`
is a turn of the loop of `enact()` or `cleanup()`, `Gathered` and `GatherRaises` the end of a
round of remote calls without or with an ERROR, `LoopEnds` the end of the loop. Per service,
in any order, the operations thread of its node does `Deploy`, `Start`, `StopService` or
`Undeploy`; each has the outcomes of the code's `try`: RuntimeError answers ERROR, any other
exception ends the operations thread and the answer never comes. `ServiceEnds` is a `run()`
that returns or raises at any time.

A node keeps its services by the id local to their application, which nothing makes unique across
applications (both DeathStarBench builders have a `UniqueIdService`). So `registered` holds, for each
id and node, at most one copy, named by the placement that deployed it; `Registers` replaces
the one before, which may live on out of reach (`strays`), and `StopService` and `Undeploy` act on
whatever copy has the entry. `clashed` is the history of the placements that were deployed with one
sharing an id on a node. The service object that `undeploy` hands back, which may then be another
application's, is not followed further: the next deployment of an id is a new copy.

### Messaging: requests between services (`remote/communication/mpi`, `remote/service`, `remote/_node`)

The rounds of `RemoteOps` for one application, now with the interior of a service: its life
from registration to a closed loop, `_running`, the coroutines scheduled on its loop, its input
queue. `Send` covers unicast, multicast and broadcast, awaited or not. A message goes through
`RouteFound`, `NoRoute` or `RouteRaises` (`path()` beside `evolve()`), `Depart` (the call to the other node), `Handle` (the entry point
up to the test of `connected`), `Schedule` (`run_coroutine_threadsafe` on the recipient's
loop), and `Execute` (into the queue, and the answer back); each is where another thread may come
between. `Cancel` is a cancelled `run()` reaching a request that has not left yet.

### The MC modules

Give the constants values for TLC: small sets, workflows, infrastructures and the bounds.

## 3. What the runs check

| Run | Instance | Shows |
|---|---|---|
| `reporter` | 2 metrics (one on both of 2 channels, the other on the one they share), chunks of 2, batches of 0 to 2 rows, 2 and 1 executions, generators and writes that may raise; 62 thousand states | no row lost, repeated or reordered, on disk or before what is queued; `join()`'s count is right; a stop that returns leaves everything of healthy writers on disk; only a failed writer can block a stop; it implements `Journal` |
| `reporter_stop` (violation) | the same, batches of at most 1 row | `StopReturns`: a stop() under way returns. It does not once a writer has failed |
| `reporter_late` (violation) | no failures | `RowsOfTheirExecution`: a row holds the data of the execution it is labelled with. It does not if the writer is awaiting a write when the metric fires again |
| `auto` | start, enact (periodic, `max_steps` 2), a step with a cascade, an event on a timetable, a metric, a callback, stop on the last step; two stop() calls at any time; 15 thousand states | exactly `max_steps` steps without a stop, what ends is drained, a stop and a bounded run terminate |
| `manual` | no cadence: steps by `trigger()`, an alarm that stops (the timeout), an event that may raise; 309 thousand states | every trigger is executed once and reports are labelled right while manual activations race the loop; triggered steps are executed, also before a stopped simulation ends |
| `idle` (violation) | as `auto` | `IdleAtTheEnd`: a finished simulation is IDLE. A stop() racing the natural end leaves it STOPPING |
| `placement` | 2 applications of 3 and 2 services, 3 nodes with two ways between the ends, 5 strategies, 2 changes; 299 thousand states | what stays placed after a round fits on every node and link; the residual offered to strategies is never too large; nothing is marked without a cause, also after a round that raised |
| `placement_latency` (violation) | the same without changes | `LatencyRespected`: a flow of a placed application is no slower than it requires. Of two flows between the same nodes only the last one counts |
| `path_cache` | 3 nodes, 3 links of which one comes later, 2 pairs asked for by two threads, 2 changes; 1.5 million states, deadlock checked | whatever changes, each hook clears enough: cached paths, costs, resources and times are those computed now, unless the graph changed between their computation and their store |
| `network` | 2 hosts, 2 routers, 7 links (2 of them one symmetric edge), 2 applications, 3 packets, 2 changes, routings that queue up; 884 thousand states | every packet is in one place or has one fate; the forwarding table leads to the destination after any removal or addition; shared deques and their byte counts agree; flows arrive in order |
| `remote` | 3 applications, two of which share a service id with the first, 2 nodes, 3 rounds, 2 faults anywhere; 4.4 million states | of placements that never clashed, whatever the others do: bookkeeping is right until something fails, nothing lives that is not marked deployed, a cleanup without failures stops everything; and only faults and clashes end an operations thread |
| `messaging` | 2 services that send to each other, deployed twice on different nodes, then on one; a request each; 247 thousand states | acknowledged means delivered, once; while the application is up nothing fails but the search for a route; requests and rounds of operations end |

Each property of a passing run has a mutant, a plausible slip in the modelled code (a kept
queue head, a dropped sort, an off-by-one in a limit, a hook that forgets a cache...), that the
run reports.

Bounds. `MaxExecs`, `MaxBatch` and `ChunkSize` make batches that fill a chunk exactly,
overfill it and leave a rest for the shutdown, and several items waiting behind a write; writers
interact only through the stop, and metrics only by sharing a channel, so two of each suffice. In the
simulator `MaxStops = 2` covers a stop during a stop, `MaxTriggers` and the workflows give
cascades two deep, a trigger of the same event on two paths, and exhaustion; the counters are
bounded by `MaxTriggers`, so nothing else needs a cap but `MaxManual`. In `placement` cpu 1 or 3
per node makes services that fit together, singly or not at all, links of bandwidth 2 and 3 are
filled and overfilled by the three flows, and two changes give a loss and a recovery; each round
starts from the mappings of the last, so any number of rounds is covered. `path_cache`: a change and another after it, between any two steps of two queries at once; the
two routes differ in cost either way as latencies change, and one change makes an entry stale
that the other, or `evolve()`, must clear. `network`: deques of 1 and 2 packets fill up; two changes are a loss and a repair,
or a loss and a new placement; `MaxDue = 2`
lets a generation come before the routing of the last; `MaxAge = 2` steps empty any queue.
`remote`: deploy, reset and deploy again, with a fault in one round and one in another, and a placement that clashes with none, one or both of the others.
`messaging`: a second deployment meets messages of the first, and each service sends while it
is sent to; a third service would add only independent requests.

Fairness. In `Reporter` and `Simulator` the loop's thread keeps running and so does each
writer task: weak fairness of the steps of `run()` and of each writer. A submitted coroutine is in
the loop's FIFO ready queue, and `run()` comes to a suspension again and again, which is strong
fairness of `RunSubmitted`. The client need not call anything (none of `Start`, `Trigger`,
`StopReads` is fair), but finishes the call of `stop()` it has begun. Nothing forces a trigger
with a clock to fire, so liveness is stated only where the workflow's own triggers guarantee it.
In `Messaging` operations threads, service threads, a running service's loop and the engine
of a node go on (weak fairness of `RoundEnds`, `Operation`, `Thread`, `Execute` and `Engine`); services
need not send, receive or end, and the simulator need not deploy or stop. The other modules
state no liveness: `enact()` may wait for ever for a dead operations thread, which is the hazard
`ThreadsServe` bounds, and placements and caches have no step that must come.

Deadlock checking is off where a system ends or its changes are bounded: a simulation that has
stopped, an event that raised, a cleanup that is done, an operations thread that died (the
simulator then waits for ever), all changes and packets spent. It is on in `path_cache`, where there
is always a query or an `evolve()` to come.

## 4. What is proved

All theorems hold for any constants that meet the named assumption of the component's module
and, where a number bounds a run (changes, rounds, faults, requests), for any such number. The
form is the same throughout: an inductive invariant `Inv` at the head of each proof module, one
lemma per action that it is kept, `THEOREM Invariance`, and the results as its consequences.

`ReporterProofs`:

* `TypeCorrect`: `Spec => []TypeOK`. `unfinished` never becomes negative, where asyncio's
  `task_done()` would raise.
* `JoinCounts`: `join()` counts the items queued and the one being written.
* `NoRowLost`: file and buffer of a live writer together are the rows taken, in order.
* `FileIsPrefix`: whatever raised, the file is a prefix of the rows taken.
* `FileIsInOrder` (`RowsInOrder`): the rows of a metric are in the file in the order of its
  executions, those of one execution in the order of its generator, none twice; what is queued is
  of later executions, and no row carries data older than its label. Its own invariant,
  `RowsFollowItems`, says the same of the rows taken, in file and buffer.
* `Durability`: a stop that returned leaves all rows of the healthy writers on disk.
* `ReporterIsJournal`: `Spec => J!Spec`, the refinement: every step of a writer accepts rows,
  stores all accepted, fails, closes, or changes neither.

`Inv` strengthens them by `QueuesFollowStop` (before the joins have returned no queue holds
the shutdown signal and no writer has ended well; afterwards nobody writes a chunk, and a queue
holds the signal and nothing else until its writer takes it), `DoneIsDurable` (a writer that
ended well has written all it took) and `ClosedIsOver` (after gather every writer has ended).
Together with `UnfinishedIsPending` they are why the signal finds empty queues: a count of zero
means nothing queued and nothing being written; a writer that failed with items left keeps its
count above zero and the signal from being sent. Lemmas on sequences (concatenation,
prefixes, `SubSeq`) are stated once.

`SimulatorProofs`, for any workflow and any number of calls from the client:

* `TypeCorrect`: `Spec => []TypeOK`.
* `TriggersRunOnce`: `nTriggers[e]` is the executions of `e`, those that raised included, plus
  the times it waits in the queue, for every event but start and stop (which are also enqueued
  without a trigger).
* `LimitsHold`: no event executes more often than its `max_triggers`.
* `EndIsDrained`: when `wait()` returns, the queue is empty or a late stop is first in it.
* `ReportsAreLabelled` (`ReportsLabelled`): a metric is stored under the ordinal of the
  execution that triggered it, and runs right after that execution.
* `MaxStepsAreExact` (`MaxStepsExact`), if `StopConfigured`: a simulation that ends by itself,
  undisturbed, has executed `max_steps` steps.
* `StepsComeBeforeStop` (`StepsBeforeStop`), if `StopConfigured` and for an event `s` that
  `FollowsSteps`: steps triggered before `stop()` have executed when the simulation ends,
  unless `max_steps` came first.

The last two are false of some workflows (a stop with a trigger on another event may end the
run at any step), so they have hypotheses, and these say what the code configures.
`StopConfigured`: the only triggers of stop are `max_steps` and the timeout
(`SimulationConfig._validate`), and the client calls `stop()`, not `trigger("stop")`. `FollowsSteps(s)`: `s` is
triggered by each driving event, like `StepEvent`, and its own limit does not come first. TLC
evaluates both as an ASSUME of `MCSimulator`: its instances satisfy them, with `step` for `s`. That the names of
events are distinct, which `SimulatorAssumption` says, is what `_catch_duplicates` enforces.

`Inv` is the types, the equation of `TriggersRunOnce` (the proof counts the places of an event
in the queue before and after an append and a removal), `TriggersWithinMax` (a bucket fires
only below its limit; with the equation it gives `LimitsHold`, which is not inductive, since an
execution says nothing of the trigger it comes from), `StatusFollowsRun` (where `run()` is
determines what the status can be) and `OnlyStopLeft` (the loop is left with an empty queue and no
cascade, and only a submitted stop enqueues anything after that, itself first).

`ReportsAreLabelled` rests on an invariant of its own, `Labels`. An item's ordinal is
what its triggering event will have counted when its turn comes: executions so far, those that raised,
and the places of that event in front (`Ordinal`). `ItemsLabelled` says so of every callback and metric
in the queue, and that the last item in front that is none is its triggering event. `CallsLabelled`
is why a new item satisfies it: only the innermost call of `enqueue_event` can still have posts to
ask, and its event is then the last one enqueued, because the sorted order asks posts first
(`PostsFirst`) and an event that is no post begins a call of its own. When the item gets to the
head, its triggering event has just run.

The results on the end rest on four more. `CallsCounted`: the calls of `trigger()` are within the
client's bounds, each is pending or has been answered by an activation, and no call of `enqueue_event` for
the driving event is under way before it has triggered. `EndsForCause`: without `stop()`, a raise and the
timeout, only the driving event at its limit makes the simulation stop, and the loop is not left
before that event has executed. `RoomToFollow`: what `s` has triggered and holds pending, with
the calls for the driving event that have yet to ask it, is at most the triggers of the driving event
and the calls of `trigger(s)`, so its limit does not come first. `StepsDrain`: while
an activation of the driving event is pending after the stop, some call under way will still ask
the driving event, or `s`, whose own call asks the driving event again (`Coming`), so the cascade of the stop ends only
when none is left.

`DataProofs` holds the lemmas the other modules share: the members of a list in a set (`Sublist`,
the sort of the events), sums over finite sets (a sum is
unfolded at any member, grows with its set and its values, splits over disjoint sets) and
shortest paths (a stretch of a simple path is one, two that meet can be joined for no more than
both cost, the shortest path between the ends of a hop is that hop, and what follows the first
hop of the path chosen is nearer). The library's induction theorems cannot be instantiated;
induction over a finite set or a length takes a minimal counterexample instead
(`MinimalSubset`, `LeastMember`, from the well-foundedness of strict inclusion and of `<`).

`PlacementProofs`, for any applications, infrastructure, strategies and order of the audit:

* `TypeCorrect`: types of the manager and of the view; `StateCorrect` is the part audit and
  enact decide by: only what is placed is marked, and `enact()` leaves no mark. A mark of a round
  that raised outlives it.
* `RespectedOrEmpty`: after `enact()` nodes and links respect the view, or nothing is placed.
* `PlacementsFit` (`NoOverload`) and `PlacedFlowsAreCarried` (`LinksCarry`): what stays placed
  after a round fits on every node and link, and every flow has a route.
* `RestIsSound` (`ResidualSound`): the residual offered to strategies is what nodes have left,
  and at most what links have left.
* `MarksHaveCauses` (the action property `MarkHasCause`): `audit()` marks a placement only for
  a cause among the placements it has come to. What a mark of a round that raised resets later
  may have none by then (finding 9).

The argument is the code's. In the view a placed application is a user of every node
(`UsersKnown`), so as soon as some node of the view is asked too much every placement in it is
marked (`AllMarked`), and a round ends with a view that is respected or with nothing. What the
view says is then carried over to the placements: on a node it is exactly the load of the
placements entered (`NodeView`), on a link at least that of those kept and at most that of all
(`LinkView`: the flows behind one without a path are left out, but that placement is marked), and
the residual of a link loses at least what its placements need (`LinkRest`). So a view that is
not respected when a turn marks means, by `ViewHasCause`, that the loads of the placements it holds exceed a
capacity, or that a flow of theirs lacks a path or has one too slow; a pair of
the view asks for a latency only on account of a flow between its ends (`Origin`). A hop of a
shortest path is itself the shortest path between its ends (`HopIsShortest`), which is why
`validate`, who looks for a path again, tests the links the view has charged.

`PathCacheProofs`, for any graph, queries and changes, and any interleaving of the two threads:

* `TypeCorrect`; `CachedPathsAreFresh`: between two changes a cached path, and its costs, are
  those recomputed, unless the graph changed between their computation and their store;
  `CachedSumsAreFresh`: the same of the resources and processing times aggregated along them, where
  what was computed from a late entry, or from one about to be cleared, is late itself.

Nothing is assumed of one dictionary having what another has: stores and clears of the two
threads mix. `Inv` says of each dictionary that what it holds of a pair is fresh but for what the
hook under way has yet to clear (`EntriesFresh`), and the same of what a thread holds between
computing and storing it (`HeldFresh`). A change is sound if its hook clears what it makes stale, and makes
outdated what the threads hold of it; each mutation meets that: only latencies enter paths, a
removed link is still aggregated with its last attributes, a time is a sum over the nodes of
the path and only the times of those that changed differ.

`RemoteOpsProofs`, for any placements, nodes and services, whatever ids they share, and any
failures. `RemoteAssumption` asks only that an application has services. Of each placement that was
never deployed together with one sharing an id on a node (`Clear`), whatever those that were have done to
each other:

* `LiveServicesAreKnown`: what lives is registered, and belongs to a placement marked deployed and mapped
  there; copies out of reach are of placements that clashed;
* `BookkeepingIsExact`: until an operation fails, what is marked is what runs;
* `CleanupIsComplete`: a cleanup without failures leaves nothing alive, and nothing registered
  unless a deployment had failed.

And of all: `TypeCorrect`; `OperationsThreadsServe`: without a fault and without a clash no
operations thread ends.

`Inv` says how far the loops have come (`Visited`), what the round under way is about
(`RoundOf`) and has done for those who answered (`RoundDone`), that deployed placements which share
an entry are known as clashed (`Apart`: so the operations of the others reach their own copies), and what is
true of services outside the round (`RunningIsDeployed`, `NothingLeft`, `DeployedRuns`, `FaultFree`).

`MessagingProofs`, for any services, neighbours and sequences of mappings:

* `TypeCorrect`; `AcknowledgedIsDelivered`: a message is acknowledged if and only if it got into
  its recipient's queue, and it got there once; `UpMeansDelivery`: while all services run, no
  message of the current deployment is turned down or cancelled, or fails once it has its route, and within
  a node it gets one. Between nodes the search for it may find none, or raise beside `evolve()`.

`Inv` says what is scheduled or queued is there once and at the right stage (`Boxes`), how far
the round has brought each service (`Progress`), and what holds of messages of this
deployment (`Current`: the sender was started in it, the route is that of the mapping, and who
gave a message up no longer runs); the last is why an up application delivers.

`NetworkProofs`, for any hosts, routers, links, flows and placements, and any number of packets,
failures and repairs:

* `Types` (`TypeOK`): no deque is longer than its link allows, nothing waits at a node that was
  removed, and a packet makes at most one hop less than there are nodes between two changes of
  the routes.
* `TableLeadsOn` (`RoutesLeadOn`): the next hops of the table are links, and following them leads
  to the destination, whatever was removed or added since it was built.
* `BytesAreQueued` (`BytesQueued`): over the links a deque was made for, byte counts add up to
  the bytes in it.
* `NothingLostOrDoubled` (`PacketsConserved`): a packet created is in one place or has one fate,
  also when generations come before the routing of the last (which clear its packets, the
  fate "cleared") and when a routing raises half-way. A packet stuck in a host's buffer is in that place.
* `ArriveInOrder` (`InOrder`): while nothing changes, the packets of a flow are delivered in the
  order they were created in.

`NetInv` is the types and the first three results. What they rest on: a table is that of some
set of links (`IsRouteTable`), which by `NextIsNearer` leads from each node to one nearer the
destination. `Distance` counts the nodes nearer still; it is below the number of nodes and falls with
every hop, so trails end (`TrailEnds`). `TravelOK` adds it to the hops of each packet, which bounds
them: a hop trades one for the other, and a change of the routes allows another round.

`Conserved` has a row for each box, each flow's deliveries and each fate: a packet's key is
in exactly one row if it was created and in none otherwise (`Placed`), and no row holds it twice
(`Separate`). Every step creates packets or moves a set of them from their rows to others, and one
lemma says that this keeps `Placed` (`Relocated`); that the number of whereabouts is one
follows (`OnePlace`).

`OrderOK` is the invariant for the order, under the condition that nothing has changed. Packets of
a flow are on one way, so the hops say which node a packet is at and which it came from (`Ways`,
`SamePlace`); every box has a flow by its numbers (`Lined`); none is further than one created
before it (`Paced`), strictly for what was passed on and what waits; and deliveries are older than
what is under way, and that than what is not yet injected (`Older`). A router draws its source at
random, but of that source it takes the first packet, and all of a flow have the same source: what it
takes is the first of its flow at that distance (`FirstOut`). Dropped packets leave gaps, which
do no harm.

The assumption of the module says of the constants what the code ensures: an edge added as
symmetric has the same attributes in both directions, as `add_edge` passes them, and
the flows are those of the applications routed. Nothing is assumed of capacities, costs (but that they are
positive), or the graph's shape.

Model-checked only: all liveness (fairness and ENABLED are beyond TLAPS). Every safety
invariant of a passing run is stated by a theorem.

## 5. Findings

Disagreements between the code and its documents, met while modelling. Paths below
`src/eclypse`.

With a run that shows them:

1. `simulation/_simulator/reporter.py:168`: after an error a writer returns, its items are never
   marked done and `queue.join()` waits for ever, though stop() promises to shut down cleanly
   (`reporter_stop`).
2. `simulation/_simulator/reporter.py:158`: the generator reads `callback.data` when drained, so
   late rows can carry the data of the next execution (`reporter_late`).
3. `simulation/_simulator/local.py:185`: a stop() racing the natural end leaves the status
   STOPPING for good (`idle`).
4. `placement/view.py:223`: the latency required between two nodes is that of the last flow
   between them; audit() says it resets what is not respected (`placement_latency`).

Without a run of their own. The first five are long interleavings: the property named states
what the document says, and TLC violates it when it takes the place of the properties in the
configuration of the module's passing run.

5. `simulation/_simulator/remote.py:103`: route() computes and stores paths on another thread
   without a lock, and can leave a path of the old graph in a cache just cleared, which path()
   then returns (`StaleNotReturned` of `PathCache`).
6. `graph/infrastructure.py:294`: between the stores of a path and of its costs by that thread,
   path() on the simulation's raises KeyError, and the event fails (`OwnQueriesAnswer` of `PathCache`).
7. `remote/_node/ops_thread.py:161`: two applications with a service of the same id on a node share
   an entry of its registry; stopping the second raises KeyError and ends the operations thread
   (`OperationsAnswer` of `RemoteOps`).
8. `network/network_application.py:97`: with several steps pending, packets are generated again
   before the routing, and the first ones cleared (`AllTaken` of `Network`, `MaxChanges = 0` to be quick).
9. `placement/_manager.py:71`: an audit that raises leaves its marks, and a later round resets by
   them what violates nothing (`ResetHasCause` of `Placement`; with `Registered <- Raising`,
   `Flows <- LooseFlows` and three changes: a node lost, a capacity mended and the node added
   again).

The others are one guard or call each, visible in the definition named.

10. `workflow/trigger/bucket.py:71`: the limit is tested before the manual activation, whereas the
    docstring of `Simulator.trigger` says that it overrides it (`Ask`).
11. `workflow/trigger/trigger.py:95`: a period of 0.0 fires at every scan after the first
    execution; the docstring says that it does not trigger (`OwnAnswers`).
12. `placement/_manager.py:65`: one violated node resets every placement, not the "applications
    whose requirements are not respected" (`Users`, `Enter`).
13. `placement/view.py:175`, `network/traffic_event.py:63`: a service mapped to a node that was
    removed is not reset; the update of the view, or the routing event, raises and the
    simulation stops (`AuditRaises`, `InjectRaises`).
14. `placement/strategies/round_robin.py:80`: the second round over the nodes takes names for
    pairs, so more services than nodes raise (`StrategyRaises`), or are mapped to a letter of a name
    (`Misnamed`).
15. `network/network.py:142`: `path_algorithm` answers an empty list where `path()` promises None.
16. `network/traffic_event.py:194`: RoutingEvent, "called exactly once per step", runs once for
    each application and moves all packets each time (`EndRouting`).
17. `network/traffic_event.py:76`: packets are injected beside the router buffer, not into it, and
    what a route leads through a host stays there (`Work`).
18. `simulation/_simulator/remote.py:62`: cleanup() passes over a deployment that failed half-way
    and over all placements behind a stop that fails (`CleanEnd` says what holds).
19. `remote/service/service.py:174`: a service whose `run()` returned has closed its loop; its
    stop raises and the placement cannot be taken down (`StopService`, `Stop`).
20. `remote/_node/node.py:153`: a service between deploy and start has no `_comm`; a request to it
    raises AttributeError instead of getting the response of a service not connected (`Handle`).
21. `remote/communication/mpi/interface.py:89`: send() drops the timestamp it is given.

## 6. What is not modelled

Of the modelled components:

* Clocks, random draws and their values: a trigger that depends on them may answer either way;
  simulated delays of packets and messages are left out.
* `manual += 1` against `manual -= 1` from two threads is taken as atomic (CPython 3.11 and
  later do not switch threads between these instructions).
* A second `start()` on a simulator that has ended, the interpreter's recursion limit, and
  the rows a generator produced before it raised.
* `report()` raising before it queues anything. A client calling trigger() after stop() has
  begun is left out to bound the state space.
* The fan-out of a typed event over applications, services, nodes and links: it changes what
  is computed, not what is triggered.
* The reporter and the loop are checked apart: they share only `report()` and the awaited
  `stop()`, during which the simulator may only run a submitted coroutine, which `Simulator`
  has at `pc = "finalize"`.
* Of assets, one additive of the nodes and an additive and a concave one of the links; the
  others differ in the operator only. `Placement` computes paths without their cache, which
  `PathCache` justifies as long as no actor's thread asks for paths too. In `PathCache` the path
  algorithm is one step: that the search may itself fail on a graph that changes under it is left out.
* REST requests: they reach the recipient's loop as MPI requests do and run a handler of the
  user there. `RemoteOps` and `Messaging` are checked apart: the first has the failures and several
  placements, the second the interior of the services of one.

Not modelled at all:

* Schedules of update policies (`policies/schedule`): counters that decide on which step a
  wrapped policy runs. Every model lets a policy run, or not, before any round, which
  includes every schedule; that a schedule keeps its own promise is arithmetic on one counter.
* Noise, distributions, constraints, replay, workload and compose policies: floating-point data.
* Bootstrap and builders: start-up data with no later state. Import and export, reports and
  queries, report formats: parsing, layout and data frames. Metrics: pure functions, whose
  scheduling and reporting are in `Simulator` and `Reporter`. Utilities: types and logging.
* Notebooks, examples and documentation hold most of the remaining lines.

## 7. What is left

* An abstract specification of the simulator, a bag of triggered executions, refined by
  `Simulator` with the queue as the bag.
* `RemoteOps` and `Messaging` composed, so that failures of hooks meet messages under way.
