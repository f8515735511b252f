----------------------------- MODULE RemoteOps ------------------------------
(***************************************************************************)
(* The remote simulator (_simulator/remote.py, ops_handler.py) and the     *)
(* nodes that carry out its operations (remote/_node, remote/service).     *)
(*                                                                         *)
(* enact() and cleanup() go through the placements; for each they call     *)
(* deploy and start, or stop and undeploy.  Each of these is one round of  *)
(* remote calls, one per service, that the operations thread of each node  *)
(* executes, in an order left open; the simulator waits for all results.   *)
(* A node keeps its services by an id that is local to the application, so *)
(* services of two applications may have one entry of its registry: they   *)
(* clash.  UniqueIdService of the two DeathStarBench builders is one such  *)
(* id.                                                                     *)
(* An operation that raises RuntimeError answers ERROR; any other          *)
(* exception ends the operations thread, and what it was asked is never    *)
(* answered.                                                               *)
(***************************************************************************)
EXTENDS Integers, FiniteSets, Functions, SequencesExt

CONSTANTS
    Order,       \* the placements, in the order they were registered
    Nodes,
    ServicesOf,  \* the ids of the services of each placement's application
    MaxRounds,   \* bound: audits
    MaxFaults    \* bound: exceptions of hooks, constructors and threads

Placements == ToSet(Order)
Services   == UNION Range(ServicesOf)

ASSUME RemoteAssumption ==
    /\ Order \in Seq(Placements)
    /\ DOMAIN ServicesOf = Placements
    /\ {} \notin Range(ServicesOf)
    /\ MaxRounds \in Nat /\ MaxFaults \in Nat

VARIABLES
    mapping,     \* Placement.mapping
    toReset,     \* Placement._to_reset
    deployed,    \* Placement._deployed
    registered,  \* node.services, as copies: <<placement that deployed it, id, node>>
    running,     \* the copies in it with Service._running
    thread,      \* Service._thread of a copy in it: "none", "new", "ready" once the
                 \* copy has a _comm, "alive" or "ended"
    strays,      \* copies that live on after another took their entry in node.services
    serving,     \* nodes whose operations thread is alive
    phase,
    todo,        \* placements the loop of enact() or cleanup() has not done
    op,          \* the round under way, or "none"
    waiting,     \* services whose result is outstanding
    errors,      \* a result of this round is ERROR
    failed,      \* history: the rounds that had an error
    clashed,     \* history: the placements that were deployed with one clashing
    faults,
    rounds

placement == <<mapping, toReset, deployed>>
service   == <<registered, running, thread, strays>>
calls     == <<op, waiting, errors>>
vars      == <<placement, service, serving, phase, todo, calls, failed, clashed, faults, rounds>>

Ops       == {"deploy", "start", "stop", "undeploy"}
NoMapping == <<>>
Copies    == {c \in Placements \X Services \X Nodes : c[2] \in ServicesOf[c[1]]}

Init ==
    /\ mapping = [p \in Placements |-> NoMapping]
    /\ toReset = [p \in Placements |-> FALSE]
    /\ deployed = [p \in Placements |-> FALSE]
    /\ registered = {} /\ running = {} /\ strays = {}
    /\ thread = [c \in Copies |-> "none"]
    /\ serving = Nodes
    /\ phase = "idle"
    /\ todo = <<>>
    /\ op = "none" /\ waiting = {} /\ errors = FALSE
    /\ failed = {} /\ clashed = {}
    /\ faults = 0
    /\ rounds = 0

-----------------------------------------------------------------------------
(* Rounds of the simulation                                                *)

\* Manager.audit(), as far as enact() can tell: placements without a mapping
\* may get one, those with one may be marked (module Placement).  A mark that a
\* failed enact() left is still there.
Audit ==
    /\ phase = "idle"
    /\ rounds < MaxRounds
    /\ rounds' = rounds + 1
    /\ mapping' \in {m \in [Placements -> {NoMapping} \cup
                                            UNION {[ServicesOf[p] -> Nodes] : p \in Placements}] :
                       \A p \in Placements :
                           m[p] \in IF mapping[p] # NoMapping THEN {mapping[p]}
                                    ELSE [ServicesOf[p] -> Nodes] \cup {NoMapping}}
    /\ toReset' \in {r \in [Placements -> BOOLEAN] :
                       \A p \in Placements : /\ toReset[p] => r[p]
                                             /\ r[p] => mapping'[p] # NoMapping}
    /\ phase' = "enact"
    /\ todo' = Order
    /\ UNCHANGED <<deployed, service, serving, calls, failed, clashed, faults>>

\* The simulation stops, between two events.
Stop ==
    /\ phase = "idle"
    /\ phase' = "cleanup"
    /\ todo' = Order
    /\ UNCHANGED <<placement, service, serving, calls, failed, clashed, faults, rounds>>

-----------------------------------------------------------------------------
(* The loops of enact() and cleanup()                                      *)

p0 == Head(todo)

\* Mutants: cleanup() takes down only what is marked; a mapping is enough to be
\* taken down; enact() deploys what is marked, and what has no mapping.
StopsMapped(p)   == mapping[p] # NoMapping /\ (phase = "cleanup" \/ toReset[p])
StopsMarked(p)   == deployed[p] /\ toReset[p]
DeploysBefore(p) == phase = "enact" /\ mapping[p] # NoMapping /\ ~deployed[p]
DeploysAll(p)    == phase = "enact" /\ ~toReset[p] /\ ~deployed[p]

\* The conditions of enact(), and that of cleanup().
StopsNow(p)    == deployed[p] /\ (phase = "cleanup" \/ toReset[p])
DeploysNow(p)  == phase = "enact" /\ ~toReset[p] /\ mapping[p] # NoMapping /\ ~deployed[p]

\* p and q have a service of the same id mapped to the same node; the placements
\* that are deployed and clash with p in this way.
Share(p, q)  == \E s \in ServicesOf[p] \cap ServicesOf[q] : mapping[p][s] = mapping[q][s]
ClashWith(p) == {q \in Placements \ {p} : deployed[q] /\ Share(p, q)}

Call(o) ==
    /\ op' = o
    /\ waiting' = ServicesOf[p0]
    /\ errors' = FALSE
    /\ UNCHANGED <<placement, service, serving, phase, todo, failed, faults, rounds>>

Visit ==
    /\ phase \in {"enact", "cleanup"}
    /\ todo # <<>>
    /\ op = "none"
    /\ \/ StopsNow(p0) /\ Call("stop") /\ UNCHANGED clashed
       \/ /\ DeploysNow(p0)
          /\ Call("deploy")
          /\ clashed' = clashed \cup ClashWith(p0) \cup {p \in {p0} : ClashWith(p0) # {}}
       \/ /\ ~StopsNow(p0) /\ ~DeploysNow(p0)
          /\ todo' = Tail(todo)
          /\ UNCHANGED <<placement, service, serving, phase, calls, failed, clashed, faults, rounds>>

\* Mutant: a placement counts as deployed only once it is started.
MarkedLate(o) == IF o = "start" THEN TRUE ELSE IF o = "undeploy" THEN FALSE ELSE deployed[p0]

\* mark_deployed, mark_undeployed.
Marked(o) == IF o = "deploy" THEN TRUE ELSE IF o = "undeploy" THEN FALSE ELSE deployed[p0]

\* Every result is there and none is an error: the next round of the
\* placement, or the next placement.
Gathered ==
    /\ op # "none" /\ waiting = {} /\ ~errors
    /\ deployed' = [deployed EXCEPT ![p0] = Marked(op)]
    /\ IF op \in {"deploy", "stop"}
       THEN /\ op' = IF op = "deploy" THEN "start" ELSE "undeploy"
            /\ waiting' = ServicesOf[p0]
            /\ UNCHANGED todo
       ELSE /\ op' = "none"
            /\ waiting' = {}
            /\ todo' = Tail(todo)
    /\ UNCHANGED <<mapping, toReset, service, serving, phase, errors, failed, clashed, faults, rounds>>

\* _handle_error raises.  In enact() the event fails and stop is enqueued: what
\* is in the queue before it, another audit and enact() maybe, still runs.  In
\* cleanup() what the loop had not come to is left as it is.
GatherRaises ==
    /\ op # "none" /\ waiting = {} /\ errors
    /\ op' = "none"
    /\ errors' = FALSE
    /\ failed' = failed \cup {<<phase, op>>}
    /\ phase' = IF phase = "enact" THEN "idle" ELSE "ended"
    /\ todo' = <<>>
    /\ UNCHANGED <<placement, service, serving, waiting, clashed, faults, rounds>>

\* The loop ends: enact() goes on to reset what is marked, in super().enact().
LoopEnds ==
    /\ phase \in {"enact", "cleanup"}
    /\ todo = <<>>
    /\ IF phase = "enact"
       THEN /\ mapping' = [p \in Placements |-> IF toReset[p] THEN NoMapping ELSE mapping[p]]
            /\ toReset' = [p \in Placements |-> FALSE]
       ELSE UNCHANGED <<mapping, toReset>>
    /\ phase' = IF phase = "enact" THEN "idle" ELSE "ended"
    /\ UNCHANGED <<deployed, service, serving, todo, calls, failed, clashed, faults, rounds>>

-----------------------------------------------------------------------------
(* Operations threads.  s is among the services of the round, n its node.  *)

NodeOf(s) == mapping[p0][s]

Executes(s, o) ==
    /\ op = o
    /\ s \in waiting
    /\ NodeOf(s) \in serving
    /\ UNCHANGED <<placement, phase, todo, op, failed, clashed, rounds>>

Answers(s, ok) ==
    /\ waiting' = waiting \ {s}
    /\ errors' = (errors \/ ~ok)
    /\ UNCHANGED serving

\* Any exception but RuntimeError ends the thread; the result never comes.
Dies(s) ==
    /\ serving' = serving \ {NodeOf(s)}
    /\ UNCHANGED <<waiting, errors>>

Fault   == faults < MaxFaults /\ faults' = faults + 1
NoFault == faults' = faults

\* The copy this round deploys of s; node.services[s], at most one copy.
Copy(s)  == <<p0, s, NodeOf(s)>>
Entry(s) == {c \in registered : c[2] = s /\ c[3] = NodeOf(s)}

\* node.services[s] is set to a new copy; the one it was set to, of an earlier
\* deployment or of another placement, is out of reach.
Registers(s) ==
    /\ registered' = (registered \ Entry(s)) \cup {Copy(s)}
    /\ running' = running \ Entry(s)
    /\ strays' = strays \cup {c \in Entry(s) : thread[c] = "alive"}

Replaced(s, t) == [c \in Copies |-> IF c = Copy(s) THEN t
                                    ELSE IF c \in Entry(s) THEN "none" ELSE thread[c]]

\* deploy: a new copy of the service, registered and attached before on_deploy
\* is called.
Deploy(s) ==
    /\ Executes(s, "deploy")
    /\ Registers(s)
    /\ \/ thread' = Replaced(s, "new") /\ Answers(s, TRUE) /\ NoFault
       \/ thread' = Replaced(s, "none") /\ Fault /\ (Answers(s, FALSE) \/ Dies(s))

\* start_service, of the copies just deployed: connect() may raise; so may
\* Thread.start, once _running is set.
Start(s) ==
    /\ Executes(s, "start")
    /\ \/ /\ running' = running \cup {Copy(s)}
          /\ thread' = [thread EXCEPT ![Copy(s)] = "alive"]
          /\ Answers(s, TRUE) /\ NoFault
       \/ /\ running' = running \cup {Copy(s)}
          /\ thread' = [thread EXCEPT ![Copy(s)] = "ready"]
          /\ Answers(s, FALSE) /\ Fault
       \/ /\ thread' = [thread EXCEPT ![Copy(s)] = "ready"]
          /\ UNCHANGED running
          /\ Fault
          /\ Answers(s, FALSE) \/ Dies(s)
    /\ UNCHANGED <<registered, strays>>

\* stop_service: KeyError if no such service is on the node.  If its thread has
\* ended by itself the loop is closed, and if it was never started it cannot be
\* joined: RuntimeError, after _running was cleared.
StopService(s) ==
    /\ Executes(s, "stop")
    /\ NoFault
    /\ \/ Entry(s) = {} /\ Dies(s) /\ UNCHANGED <<running, thread>>
       \/ \E c \in Entry(s) :
            /\ running' = running \ {c}
            /\ IF c \in running /\ thread[c] = "alive"
               THEN thread' = [thread EXCEPT ![c] = "ended"] /\ Answers(s, TRUE)
               ELSE thread' = thread /\ Answers(s, c \notin running)
    /\ UNCHANGED <<registered, strays>>

\* undeploy: on_undeploy may raise; after it, a copy that was never connected has
\* no _comm to disconnect.  Every service of the round has just answered stop, so
\* an entry is there and does not run.
Undeploy(s) ==
    /\ Executes(s, "undeploy")
    /\ \E c \in Entry(s) :
         \/ UNCHANGED service /\ Fault /\ (Answers(s, FALSE) \/ Dies(s))
         \/ thread[c] \in {"none", "new"} /\ UNCHANGED service /\ NoFault /\ Dies(s)
         \/ /\ thread[c] \notin {"none", "new"}
            /\ registered' = registered \ {c}
            /\ thread' = [thread EXCEPT ![c] = "none"]
            /\ UNCHANGED <<running, strays>>
            /\ Answers(s, TRUE) /\ NoFault

\* run() of a service returns or raises: the thread closes its loop and ends.
ServiceEnds(c) ==
    /\ \/ /\ thread[c] = "alive"
          /\ thread' = [thread EXCEPT ![c] = "ended"]
          /\ UNCHANGED strays
       \/ /\ c \in strays
          /\ strays' = strays \ {c}
          /\ UNCHANGED thread
    /\ UNCHANGED <<placement, registered, running, serving, phase, todo, calls, failed, clashed,
                   faults, rounds>>

Next ==
    \/ Audit \/ Stop \/ Visit \/ Gathered \/ GatherRaises \/ LoopEnds
    \/ \E s \in Services : Deploy(s) \/ Start(s) \/ StopService(s) \/ Undeploy(s)
    \/ \E c \in Copies : ServiceEnds(c)

Spec == Init /\ [][Next]_vars

-----------------------------------------------------------------------------
(* Properties                                                              *)

\* The variables have their types; a round is about a placement with a mapping
\* and waits for services of it; a node has one service of an id.
TypeOK ==
    /\ \A p \in Placements : mapping[p] \in [ServicesOf[p] -> Nodes] \cup {NoMapping}
    /\ toReset \in [Placements -> BOOLEAN]
    /\ deployed \in [Placements -> BOOLEAN]
    /\ running \subseteq registered /\ registered \subseteq Copies /\ strays \subseteq Copies
    /\ \A c, d \in registered : c[2] = d[2] /\ c[3] = d[3] => c = d
    /\ thread \in [Copies -> {"none", "new", "ready", "alive", "ended"}]
    /\ serving \subseteq Nodes
    /\ phase \in {"idle", "enact", "cleanup", "ended"}
    /\ todo \in Seq(Placements)
    /\ op \in Ops \cup {"none"}
    /\ errors \in BOOLEAN
    /\ failed \subseteq {"enact", "cleanup"} \X Ops
    /\ clashed \subseteq Placements
    /\ op # "none" => /\ phase \in {"enact", "cleanup"} /\ todo # <<>>
                      /\ mapping[p0] # NoMapping /\ waiting \subseteq ServicesOf[p0]
    /\ faults \in 0..MaxFaults /\ rounds \in 0..MaxRounds

Clear == Placements \ clashed

\* As long as no operation failed, the simulator's bookkeeping and the nodes
\* agree between two events on every placement that was never deployed with one
\* clashing, whatever the others have done to each other: its services run on the
\* nodes they are mapped to and nowhere else if it is deployed, and are nowhere if
\* it is not.
BooksAgree ==
    phase = "idle" /\ failed = {} =>
        \A p \in Clear :
            LET mine == {c \in registered : c[1] = p}
            IN  /\ mine \subseteq running
                /\ mine = IF deployed[p] /\ mapping[p] # NoMapping
                          THEN {<<p, s, mapping[p][s]>> : s \in ServicesOf[p]}
                          ELSE {}

\* Whatever fails, the threads of a placement's services live only while it is
\* marked deployed and mapped to that node: nothing runs that cleanup() does not
\* look for, or would look for on another node; unless it was deployed with one
\* clashing.
AliveIsDeployed ==
    /\ \A p \in Clear : \A s \in ServicesOf[p], n \in Nodes :
          thread[<<p, s, n>>] = "alive" =>
              /\ deployed[p] /\ mapping[p] # NoMapping /\ mapping[p][s] = n
              /\ <<p, s, n>> \in registered
    /\ \A c \in strays : c[1] \in clashed

\* A cleanup() in which no operation failed has stopped every service, also
\* after failures of enact(); and what stays on a node then is what a
\* deployment that failed has left there.  Not so for placements that clashed.
CleanEnd ==
    phase = "ended" /\ (\A o \in Ops : <<"cleanup", o>> \notin failed) =>
        \A p \in Clear :
            /\ \A c \in Copies : c[1] = p => thread[c] # "alive" /\ c \notin strays
            /\ <<"enact", "deploy">> \notin failed => \A c \in registered : c[1] # p

\* Without a fault, and without a clash, no operations thread ends, so enact() and
\* cleanup() get every answer: also when services have ended by themselves.
ThreadsServe == faults = 0 /\ clashed = {} => serving = Nodes

\* stop_service and undeploy give "The result of the operation." (ops_thread.py:158
\* and 104): as long as nothing raises in a service, every operation is answered.
\* Violated: of two clashing placements one stops and undeploys the copy of the
\* other, whose stop then finds no entry; the KeyError ends the operations thread.
OperationsAnswer == faults = 0 => serving = Nodes
=============================================================================
