----------------------------- MODULE Messaging ------------------------------
(***************************************************************************)
(* Requests between the services of an application (remote/communication,  *)
(* remote/service, remote/_node), while the simulator takes the            *)
(* application up and down.                                                *)
(*                                                                         *)
(* A service runs on a loop and a thread of its own; what the node does    *)
(* for its requests (_process_request, service_comm_entrypoint) runs on    *)
(* the node's engine loop; its operations are the operations thread's, and *)
(* the route comes from the simulator's actor.  A step is what one of      *)
(* these does between two points where another can see the difference.     *)
(***************************************************************************)
EXTENDS Integers, FiniteSets, SequencesExt

CONSTANTS
    Services, Nodes,
    Mappings,    \* bound: a set of mappings to choose from for each deployment
    Neighbors,   \* the services each service may send to
    MaxSends     \* bound: requests of a service

ASSUME MessagingAssumption ==
    /\ Neighbors \in [Services -> SUBSET Services]
    /\ Mappings \in Seq(SUBSET [Services -> Nodes])
    /\ Nodes # {}
    /\ MaxSends \in Nat

\* A message is named by sender, recipient and the ordinal of the request it
\* belongs to: a multicast or a broadcast is several messages.
Messages == {m \in Services \X Services \X (1..MaxSends) : m[2] \in Neighbors[m[1]]}

From(m) == m[1]
To(m)   == m[2]

VARIABLES
    round,     \* what the simulator does with the application
    waiting,   \* services whose operation of this round is outstanding
    errors,    \* an operation of this round answered ERROR
    deploys,   \* the deployments so far; copies of a service differ by it
    mapping,   \* Placement.mapping
    life,      \* of a service's copy: registration, _comm, loop and thread
    running,   \* the services with Service._running
    told,      \* services that _stop() is joining
    awaiting,  \* the messages whose answers run() awaits
    inbox,     \* coroutines scheduled on a service's loop: its _ready queue
    queue,     \* EclypseMPI._input_queue
    sent,      \* the requests a service has made
    stage,     \* of a message: see Flying and Over
    of,        \* the deployment a message was sent in
    at,        \* at "checked": that of the copy whose connection was checked
    route,     \* its route: the nodes of sender and recipient
    abandoned, \* messages whose awaiting run() was cancelled
    gone       \* history: messages that recv() took, or that went with their copy

application == <<round, waiting, errors, deploys, mapping>>
copy        == <<life, running, told, awaiting, inbox, queue>>
message     == <<sent, stage, of, at, route, abandoned>>
vars        == <<application, copy, message, gone>>

\* "deployed" has no _comm yet; "attached" one that is not connected; the loop
\* runs in "running"; in "halted" run_until_complete has returned; "unconnected"
\* and "closed" are after the last two lines of _start_loop.
Lives  == {"absent", "deployed", "attached", "running", "halted", "unconnected", "closed"}
Rounds == {"down", "deploy", "start", "up", "stop", "undeploy"}
Flying == {"routing", "routed", "called", "checked", "accepted"}
Over   == {"ok", "error", "raised", "noroute", "cancelled"}

\* Mutant: the two nodes of a route change places.
RouteBack(m) == <<mapping[To(m)], mapping[From(m)]>>

RouteOf(m) == <<mapping[From(m)], mapping[To(m)]>>

Init ==
    /\ round = "down" /\ waiting = {} /\ errors = FALSE /\ deploys = 0
    /\ mapping = [s \in Services |-> CHOOSE n \in Nodes : TRUE]
    /\ life = [s \in Services |-> "absent"]
    /\ running = {} /\ told = {}
    /\ awaiting = [s \in Services |-> {}]
    /\ inbox = [s \in Services |-> <<>>]
    /\ queue = [s \in Services |-> <<>>]
    /\ sent = [s \in Services |-> 0]
    /\ stage = [m \in Messages |-> "idle"]
    /\ of = [m \in Messages |-> 0]
    /\ at = [m \in Messages |-> 0]
    /\ route = [m \in Messages |-> RouteOf(m)]
    /\ abandoned = {}
    /\ gone = {}

-----------------------------------------------------------------------------
(* The simulator: rounds of operations, one per service (module RemoteOps)  *)

Begins(r) ==
    /\ round' = r
    /\ waiting' = Services
    /\ errors' = FALSE

\* enact() with a new mapping.
DeployApp ==
    /\ round = "down" /\ deploys < Len(Mappings)
    /\ Begins("deploy")
    /\ deploys' = deploys + 1
    /\ mapping' \in Mappings[deploys + 1]
    /\ UNCHANGED <<copy, message, gone>>

\* enact() of a placement to reset, or cleanup().
StopApp ==
    /\ round = "up"
    /\ Begins("stop")
    /\ UNCHANGED <<deploys, mapping, copy, message, gone>>

\* All results are there.  An error of stop leaves the placement deployed: the
\* next that stops it, at the latest cleanup(), makes the round again.
RoundEnds ==
    /\ round \in {"deploy", "start", "stop", "undeploy"} /\ waiting = {}
    /\ \/ round = "deploy"   /\ Begins("start")
       \/ round = "stop" /\ ~errors /\ Begins("undeploy")
       \/ /\ round \in {"start", "undeploy"} \/ (round = "stop" /\ errors)
          /\ round' = IF round = "undeploy" THEN "down" ELSE "up"
          /\ UNCHANGED <<waiting, errors>>
    /\ UNCHANGED <<deploys, mapping, copy, message, gone>>

-----------------------------------------------------------------------------
(* Operations thread and service thread                                     *)

Answers(s) ==
    /\ waiting' = waiting \ {s}
    /\ UNCHANGED <<round, deploys, mapping>>

Becomes(s, l) == life' = [life EXCEPT ![s] = l]

Deploy(s) ==
    /\ round = "deploy" /\ s \in waiting
    /\ Becomes(s, "deployed")
    /\ Answers(s)
    /\ UNCHANGED <<errors, running, told, awaiting, inbox, queue, message, gone>>

\* _start: a new interface, its connection, the thread.
Attach(s) ==
    /\ round = "start" /\ s \in waiting /\ life[s] = "deployed"
    /\ Becomes(s, "attached")
    /\ UNCHANGED <<application, running, told, awaiting, inbox, queue, message, gone>>

\* Once connected, the service has _running and its thread is started.
Connect(s) ==
    /\ life[s] = "attached"
    /\ Becomes(s, "running")
    /\ running' = running \cup {s}
    /\ Answers(s)
    /\ UNCHANGED <<errors, told, awaiting, inbox, queue, message, gone>>

\* Mutant: stop() does not join the thread.
TellsOnly(s) ==
    /\ told' = told \cup {s}
    /\ Answers(s)
    /\ UNCHANGED <<errors, abandoned>>

Tells(s) ==
    /\ told' = told \cup {s}
    /\ abandoned' = abandoned \cup {m \in awaiting[s] : stage[m] \in Flying}
    /\ UNCHANGED application

\* _stop: it cancels run() and stops the loop, if the service has _running.  A
\* loop that is closed, since run() ended, raises RuntimeError.
Stop(s) ==
    /\ round = "stop" /\ s \in waiting \ told
    /\ running' = running \ {s}
    /\ IF s \in running /\ life[s] # "closed"
       THEN Tells(s)
       ELSE /\ Answers(s)
            /\ errors' = (errors \/ s \in running)
            /\ UNCHANGED <<told, abandoned>>
    /\ UNCHANGED <<life, awaiting, inbox, queue, sent, stage, of, at, route, gone>>

\* _undeploy, and the registry's pop: on_undeploy, the detachment from the node.
Undeploy(s) ==
    /\ round = "undeploy" /\ s \in waiting
    /\ Becomes(s, "absent")
    /\ queue' = [queue EXCEPT ![s] = <<>>]
    /\ gone' = gone \cup ToSet(queue[s])
    /\ Answers(s)
    /\ UNCHANGED <<errors, running, told, awaiting, inbox, message>>

\* run() is no more: stopped from outside, or at the end of what it did.
Ends(s) ==
    /\ life[s] = "running"
    /\ Becomes(s, "halted")
    /\ awaiting' = [awaiting EXCEPT ![s] = {}]
    /\ UNCHANGED <<application, running, told, inbox, queue, message, gone>>

\* Mutant: the loop is stopped once its run() has its answers.
HaltIdle(s) == s \in told /\ awaiting[s] = {} /\ Ends(s)

Halt(s)    == s \in told /\ Ends(s)
RunEnds(s) == awaiting[s] = {} /\ Ends(s)

\* The rest of _start_loop.  Closing a loop drops what is scheduled on it, and
\* who is told to stop has now been joined.
Disconnect(s) ==
    /\ life[s] = "halted"
    /\ Becomes(s, "unconnected")
    /\ UNCHANGED <<application, running, told, awaiting, inbox, queue, message, gone>>

Close(s) ==
    /\ life[s] = "unconnected"
    /\ Becomes(s, "closed")
    /\ inbox' = [inbox EXCEPT ![s] = <<>>]
    /\ IF s \in told THEN Answers(s) ELSE UNCHANGED <<round, waiting, deploys, mapping>>
    /\ told' = told \ {s}
    /\ UNCHANGED <<errors, running, awaiting, queue, message, gone>>

-----------------------------------------------------------------------------
(* run() of a service                                                       *)

\* send() or bcast(), awaited or not.  A run() that is being cancelled gets no
\* further than the await.
Send(s, to, awaited) ==
    LET ms == {<<s, r, sent[s] + 1>> : r \in to} IN
    /\ life[s] = "running" /\ awaiting[s] = {} /\ sent[s] < MaxSends
    /\ sent' = [sent EXCEPT ![s] = @ + 1]
    /\ stage' = [m \in Messages |-> IF m \in ms THEN "routing" ELSE stage[m]]
    /\ of' = [m \in Messages |-> IF m \in ms THEN deploys ELSE of[m]]
    /\ awaiting' = [awaiting EXCEPT ![s] = IF awaited THEN ms ELSE {}]
    /\ abandoned' = IF awaited /\ s \in told THEN abandoned \cup ms ELSE abandoned
    /\ UNCHANGED <<application, life, running, told, inbox, queue, at, route, gone>>

\* All answers are there, or there is no route to one of the recipients, which
\* run() takes as the end of the step.
Continue(s) ==
    /\ life[s] = "running" /\ s \notin told /\ awaiting[s] # {}
    /\ \/ \A m \in awaiting[s] : stage[m] \in {"ok", "error"}
       \/ \E m \in awaiting[s] : stage[m] = "noroute"
    /\ awaiting' = [awaiting EXCEPT ![s] = {}]
    /\ UNCHANGED <<application, life, running, told, inbox, queue, message, gone>>

\* Any other exception of a request ends run().
Breaks(s) ==
    /\ s \notin told
    /\ \E m \in awaiting[s] : stage[m] = "raised"
    /\ Ends(s)

Recv(s) ==
    /\ life[s] = "running" /\ awaiting[s] = {} /\ queue[s] # <<>>
    /\ gone' = gone \cup {Head(queue[s])}
    /\ queue' = [queue EXCEPT ![s] = Tail(@)]
    /\ UNCHANGED <<application, life, running, told, awaiting, inbox, message>>

-----------------------------------------------------------------------------
(* A message under way                                                      *)

Moves(m, st) == stage' = [stage EXCEPT ![m] = st]

\* RemoteSimulator.route: None where there is no mapping, or no path.
RouteFound(m) ==
    /\ stage[m] = "routing" /\ round # "down"
    /\ Moves(m, "routed")
    /\ route' = [route EXCEPT ![m] = RouteOf(m)]
    /\ UNCHANGED <<application, copy, sent, of, at, abandoned, gone>>

NoRoute(m) ==
    /\ stage[m] = "routing"
    /\ round = "down" \/ mapping[From(m)] # mapping[To(m)]
    /\ Moves(m, "noroute")
    /\ UNCHANGED <<application, copy, sent, of, at, route, abandoned, gone>>

\* Between nodes, path() and processing_time() run beside evolve() on another
\* thread (module PathCache): an entry or an edge they look up may be gone.
RouteRaises(m) ==
    /\ stage[m] = "routing" /\ round # "down" /\ mapping[From(m)] # mapping[To(m)]
    /\ Moves(m, "raised")
    /\ UNCHANGED <<application, copy, sent, of, at, route, abandoned, gone>>

NoHop(m) == route[m][1] = route[m][2]

\* The sender's copy is still on its node: Service.node raises otherwise.
HasSender(m) == of[m] = deploys /\ life[From(m)] # "absent"

\* The call to the other node's actor, after the cost of the route.
Depart(m) ==
    /\ stage[m] = "routed" /\ ~NoHop(m)
    /\ Moves(m, IF HasSender(m) THEN "called" ELSE "raised")
    /\ UNCHANGED <<application, copy, sent, of, at, route, abandoned, gone>>

\* The recipient has a copy on the node the message was sent to.
IsThere(m) == life[To(m)] # "absent" /\ mapping[To(m)] = route[m][2]

Connected(s) == life[s] \in {"running", "halted"}

\* service_comm_entrypoint and _handle_request up to the test of connected.
\* What is not in services, or has no _comm, raises.  The engine loop goes on
\* with Schedule before it turns to another message.
Handle(m) ==
    /\ stage[m] = "called" \/ (stage[m] = "routed" /\ NoHop(m))
    /\ \A k \in Messages : stage[k] = "checked" => route[k][2] # route[m][2]
    /\ IF \/ stage[m] = "routed" /\ ~HasSender(m)
          \/ ~IsThere(m)
          \/ life[To(m)] = "deployed"
       THEN Moves(m, "raised") /\ UNCHANGED at
       ELSE IF Connected(To(m))
            THEN Moves(m, "checked") /\ at' = [at EXCEPT ![m] = deploys]
            ELSE Moves(m, "error") /\ UNCHANGED at
    /\ UNCHANGED <<application, copy, sent, of, route, abandoned, gone>>

\* run_coroutine_threadsafe on the copy's loop, which raises once it is closed.
Schedule(m) ==
    /\ stage[m] = "checked"
    /\ IF at[m] = deploys /\ life[To(m)] \notin {"closed", "absent"}
       THEN /\ Moves(m, "accepted")
            /\ inbox' = [inbox EXCEPT ![To(m)] = Append(@, m)]
       ELSE /\ Moves(m, "raised")
            /\ UNCHANGED inbox
    /\ at' = [at EXCEPT ![m] = 0]
    /\ UNCHANGED <<application, life, running, told, awaiting, queue, sent, of, route,
                   abandoned, gone>>

\* Mutants: a loop that waits with its run(); what was executed is kept.
TurnsIdle(s)  == life[s] = "running" /\ awaiting[s] = {}
InboxKept(s)  == inbox

Turns(s)      == life[s] = "running"
InboxAfter(s) == [inbox EXCEPT ![s] = Tail(@)]

\* _execute_request on the service's loop, and the way of the answer back.
Execute(s) ==
    /\ Turns(s) /\ inbox[s] # <<>>
    /\ Moves(Head(inbox[s]), "ok")
    /\ inbox' = InboxAfter(s)
    /\ queue' = [queue EXCEPT ![s] = Append(@, Head(inbox[s]))]
    /\ UNCHANGED <<application, life, running, told, awaiting, sent, of, at, route,
                   abandoned, gone>>

\* The cancellation of run() reaches _process_request.  A call to another node
\* is not taken back, nor what a loop was given: it takes the cancellation after
\* the message.
Cancel(m) ==
    /\ m \in abandoned /\ stage[m] \in {"routing", "routed"}
    /\ Moves(m, "cancelled")
    /\ abandoned' = abandoned \ {m}
    /\ UNCHANGED <<application, copy, sent, of, at, route, gone>>

-----------------------------------------------------------------------------
Operation(s) == Deploy(s) \/ Attach(s) \/ Connect(s) \/ Stop(s) \/ Undeploy(s)
Thread(s)    == Halt(s) \/ Disconnect(s) \/ Close(s)
Routes(m)    == RouteFound(m) \/ NoRoute(m) \/ RouteRaises(m)
Engine(m)    == Routes(m) \/ Depart(m) \/ Handle(m) \/ Schedule(m)

Next ==
    \/ DeployApp \/ StopApp \/ RoundEnds
    \/ \E s \in Services :
        \/ Operation(s) \/ Thread(s) \/ RunEnds(s)
        \/ \E to \in (SUBSET Neighbors[s]) \ {{}}, aw \in BOOLEAN : Send(s, to, aw)
        \/ Continue(s) \/ Breaks(s) \/ Recv(s) \/ Execute(s)
    \/ \E m \in Messages : Engine(m) \/ Cancel(m)

\* Threads, loops and calls of the nodes go on; services need not do anything,
\* and the simulator need not deploy or stop, but finishes what it began.
Fairness ==
    /\ WF_vars(RoundEnds)
    /\ \A s \in Services : /\ WF_vars(Operation(s)) /\ WF_vars(Thread(s))
                           /\ WF_vars(Execute(s))
    /\ \A m \in Messages : WF_vars(Engine(m))

Spec == Init /\ [][Next]_vars /\ Fairness
-----------------------------------------------------------------------------
(* Properties                                                              *)

\* The variables have their types; _stop() joins only services whose operation
\* of the round is outstanding.
TypeOK ==
    /\ round \in Rounds /\ waiting \subseteq Services /\ errors \in BOOLEAN
    /\ deploys \in 0..Len(Mappings)
    /\ mapping \in [Services -> Nodes]
    /\ life \in [Services -> Lives]
    /\ running \subseteq Services /\ told \subseteq waiting
    /\ awaiting \in [Services -> SUBSET Messages]
    /\ inbox \in [Services -> Seq(Messages)]
    /\ queue \in [Services -> Seq(Messages)]
    /\ sent \in [Services -> 0..MaxSends]
    /\ stage \in [Messages -> Flying \cup Over \cup {"idle"}]
    /\ of \in [Messages -> 0..deploys] /\ at \in [Messages -> 0..deploys]
    /\ route \in [Messages -> Nodes \X Nodes]
    /\ abandoned \subseteq Messages /\ gone \subseteq Messages

\* An acknowledged message was put into the recipient's queue, once, and is
\* there still unless it was received or the recipient undeployed; no other
\* message ever gets there.
DeliveredOnce ==
    \A m \in Messages :
        LET r == To(m)
            places == Cardinality({i \in DOMAIN queue[r] : queue[r][i] = m}) +
                      (IF m \in gone THEN 1 ELSE 0)
        IN  places = (IF stage[m] = "ok" THEN 1 ELSE 0)

\* The whole application runs.
Up == round = "up" /\ \A s \in Services : life[s] = "running" /\ s \in running

\* The search for a route, between two nodes, gives none or raises.
Unrouted(m) ==
    /\ stage[m] = "routing" /\ stage'[m] \in {"noroute", "raised"}
    /\ mapping[From(m)] # mapping[To(m)]

\* While the whole application runs, a message of this deployment is not turned
\* down and does not fail once it has its route, and always has one within a
\* node, however the rounds before went and whatever is still under way.
UpDelivers ==
    [][\A m \in Messages :
         Up /\ of[m] = deploys /\ stage'[m] # stage[m] =>
             stage'[m] \in Flying \cup {"ok"} \/ Unrouted(m)]_vars

\* The recipient's loop was closed with the message in it: nobody will answer.
Orphan(m) == stage[m] = "accepted" /\ m \notin ToSet(inbox[To(m)])

\* A request comes to an end, unless the recipient's does first: services that
\* await each other's answers do not block each other.
RequestsEnd ==
    \A m \in Messages : stage[m] \in Flying ~> stage[m] \in Over \/ Orphan(m)

\* A round of operations comes to its end, whatever its services await.
RoundsComplete == round \in {"deploy", "start", "stop", "undeploy"} ~> round \in {"up", "down"}
=============================================================================
