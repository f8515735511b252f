-------------------------- MODULE MessagingProofs ---------------------------
(***************************************************************************)
(* What Messaging.tla guarantees for any services, nodes, neighbours and   *)
(* mappings: messages are delivered once, and an application that is up    *)
(* delivers what was sent since its deployment.                            *)
(***************************************************************************)
EXTENDS Messaging, FiniteSetTheorems, SequenceTheorems, TLAPS

Started == {"running", "halted", "unconnected", "closed"}

\* A request that was not made yet has no messages.
Unsent == \A m \in Messages : m[3] > sent[From(m)] => stage[m] = "idle"

Once(q) == \A i, j \in 1..Len(q) : q[i] = q[j] => i = j

\* What is scheduled is accepted, and there once.
Scheduled ==
    \A s \in Services :
        /\ Once(inbox[s])
        /\ \A i \in 1..Len(inbox[s]) :
             stage[inbox[s][i]] = "accepted" /\ To(inbox[s][i]) = s

\* What is in an input queue was acknowledged, is there once and not received.
Queued ==
    \A s \in Services :
        /\ Once(queue[s])
        /\ \A i \in 1..Len(queue[s]) :
             stage[queue[s][i]] = "ok" /\ To(queue[s][i]) = s /\ queue[s][i] \notin gone

IsQueued(m) == \E i \in 1..Len(queue[To(m)]) : queue[To(m)][i] = m

Acknowledged ==
    \A m \in Messages :
        /\ m \in gone => stage[m] = "ok"
        /\ stage[m] = "ok" => m \in gone \/ IsQueued(m)

Boxes == Scheduled /\ Queued /\ Acknowledged

\* How far the operations of the round have brought a service.
Progress ==
    /\ told # {} => round = "stop"
    /\ \A s \in Services :
        /\ round \in {"down", "deploy", "undeploy"} => s \notin running
        /\ round = "down" => life[s] = "absent"
        /\ round = "deploy" => life[s] = IF s \in waiting THEN "absent" ELSE "deployed"
        /\ round = "start" => IF s \in waiting
                              THEN s \notin running /\ life[s] \in {"deployed", "attached"}
                              ELSE s \in running /\ life[s] \in Started
        /\ round = "undeploy" => life[s] = IF s \in waiting THEN "closed" ELSE "absent"
        /\ round \in {"up", "stop"} => life[s] \in Started
        /\ round \in {"up", "stop"} /\ s \notin running \cup told => life[s] = "closed"
        /\ round = "stop" /\ ~errors /\ s \notin waiting => s \notin running
        /\ s \in told => s \notin running

\* run() awaits messages of its own, and so are those it gave up.
Own ==
    /\ \A s \in Services : \A m \in awaiting[s] : From(m) = s
    /\ \A m \in abandoned : stage[m] # "idle"

\* A message of this deployment: its sender was started in it and, if it gave
\* the message up, is not running any more; its route is that of the mapping.
Current ==
    \A m \in Messages : of[m] = deploys /\ stage[m] # "idle" =>
        /\ \/ life[From(m)] \in Started
           \/ round \in {"undeploy", "down"} /\ life[From(m)] = "absent"
        /\ stage[m] \in {"routed", "called"} => route[m] = RouteOf(m)
        /\ stage[m] = "checked" => at[m] = deploys
        /\ m \in abandoned => From(m) \notin running

Inv == TypeOK /\ Unsent /\ Boxes /\ Progress /\ Own /\ Current
LEMMA MessageParts ==
  ASSUME NEW m \in Messages
  PROVE  /\ From(m) \in Services /\ To(m) \in Services
         /\ m[3] \in 1..MaxSends
  BY DEF Messages, From, To

LEMMA BoxElements ==
  ASSUME TypeOK, NEW s \in Services
  PROVE  /\ \A i \in 1..Len(inbox[s]) : inbox[s][i] \in Messages
         /\ \A i \in 1..Len(queue[s]) : queue[s][i] \in Messages
  BY ElementOfSeq DEF TypeOK

\* A message that is neither scheduled nor acknowledged changes its stage.
LEMMA BoxesMove ==
  ASSUME TypeOK, Boxes, NEW m \in Messages, NEW st,
         stage[m] \notin {"accepted", "ok"}, st # "ok",
         stage' = [stage EXCEPT ![m] = st], UNCHANGED <<inbox, queue, gone>>
  PROVE  Boxes'
<1>1. \A k \in Messages : k # m => stage'[k] = stage[k]
  BY DEF TypeOK
<1>2. stage'[m] = st
  BY DEF TypeOK
<1>3. Scheduled'
  BY <1>1, BoxElements DEF Boxes, Scheduled, Once
<1>4. Queued'
  BY <1>1, BoxElements DEF Boxes, Queued, Once
<1>5. Acknowledged'
  BY <1>1, <1>2 DEF Boxes, Acknowledged, IsQueued
<1>6. QED
  BY <1>3, <1>4, <1>5 DEF Boxes

LEMMA DeployAppKeeps ==
  ASSUME Inv, DeployApp
  PROVE  Inv'
<1>0. TypeOK /\ Unsent /\ Boxes /\ Progress /\ Own /\ Current
  BY DEF Inv
<1>1. TypeOK'
  <2>1. deploys' \in 0..Len(Mappings) /\ deploys <= deploys'
    BY <1>0, MessagingAssumption, LenProperties DEF TypeOK, DeployApp
  <2>2. mapping' \in [Services -> Nodes]
    BY <1>0, MessagingAssumption, ElementOfSeq, LenProperties DEF TypeOK, DeployApp
  <2>3. of' \in [Messages -> 0..deploys'] /\ at' \in [Messages -> 0..deploys']
    BY <1>0, <2>1, MessagingAssumption, LenProperties DEF TypeOK, DeployApp, message
  <2>4. told' \subseteq waiting'
    BY <1>0 DEF TypeOK, DeployApp, Begins, copy
  <2>5. QED
    BY <1>0, <2>1, <2>2, <2>3, <2>4 DEF TypeOK, DeployApp, Begins, Rounds, copy, message
<1>2. Unsent'
  BY <1>0, MessageParts DEF Unsent, DeployApp, Begins, RouteOf, application, copy, message, TypeOK
<1>3. Boxes'
  BY <1>0, MessageParts DEF Boxes, Scheduled, Queued, Acknowledged, IsQueued, Once, DeployApp, Begins, RouteOf, application, copy, message, TypeOK
<1>4. Progress'
  BY <1>0, MessageParts DEF Progress, DeployApp, Begins, RouteOf, application, copy, message, Started, TypeOK
<1>5. Own'
  BY <1>0, MessageParts DEF Own, DeployApp, Begins, RouteOf, application, copy, message, Flying, TypeOK
<1>6. Current'
  BY <1>0, MessageParts DEF Current, DeployApp, Begins, RouteOf, application, copy, message, Started, TypeOK
<1>7. QED
  BY <1>1, <1>2, <1>3, <1>4, <1>5, <1>6 DEF Inv

LEMMA StopAppKeeps ==
  ASSUME Inv, StopApp
  PROVE  Inv'
<1>0. TypeOK /\ Unsent /\ Boxes /\ Progress /\ Own /\ Current
  BY DEF Inv
<1>1. TypeOK'
  BY <1>0, MessageParts, MessagingAssumption DEF TypeOK, StopApp, Begins, copy, message, Flying, Over, Lives, Rounds
<1>2. Unsent'
  BY <1>0, MessageParts DEF Unsent, StopApp, Begins, copy, message, TypeOK
<1>3. Boxes'
  BY <1>0, MessageParts DEF Boxes, Scheduled, Queued, Acknowledged, IsQueued, Once, StopApp, Begins, copy, message, TypeOK
<1>4. Progress'
  BY <1>0, MessageParts DEF Progress, StopApp, Begins, copy, message, Started, TypeOK
<1>5. Own'
  BY <1>0, MessageParts DEF Own, StopApp, Begins, copy, message, Flying, TypeOK
<1>6. Current'
  BY <1>0, MessageParts DEF Current, StopApp, Begins, copy, message, Started, RouteOf, TypeOK
<1>7. QED
  BY <1>1, <1>2, <1>3, <1>4, <1>5, <1>6 DEF Inv

LEMMA RoundEndsKeeps ==
  ASSUME Inv, RoundEnds
  PROVE  Inv'
<1>0. TypeOK /\ Unsent /\ Boxes /\ Progress /\ Own /\ Current
  BY DEF Inv
<1>1. TypeOK'
  BY <1>0, MessageParts, MessagingAssumption DEF TypeOK, RoundEnds, Begins, copy, message, Flying, Over, Lives, Rounds
<1>2. Unsent'
  BY <1>0, MessageParts DEF Unsent, RoundEnds, Begins, copy, message, TypeOK
<1>3. Boxes'
  BY <1>0, MessageParts DEF Boxes, Scheduled, Queued, Acknowledged, IsQueued, Once, RoundEnds, Begins, copy, message, TypeOK
<1>4. Progress'
  BY <1>0, MessageParts DEF Progress, RoundEnds, Begins, copy, message, Started, TypeOK
<1>5. Own'
  BY <1>0, MessageParts DEF Own, RoundEnds, Begins, copy, message, Flying, TypeOK
<1>6. Current'
  BY <1>0, MessageParts DEF Current, RoundEnds, Begins, copy, message, Started, RouteOf, TypeOK
<1>7. QED
  BY <1>1, <1>2, <1>3, <1>4, <1>5, <1>6 DEF Inv

LEMMA DeployKeeps ==
  ASSUME Inv, NEW s \in Services, Deploy(s)
  PROVE  Inv'
<1>0. TypeOK /\ Unsent /\ Boxes /\ Progress /\ Own /\ Current
  BY DEF Inv
<1>1. TypeOK'
  <2>1. told' \subseteq waiting'
    BY <1>0 DEF Progress, Started, Deploy, Becomes, Answers, message
  <2>2. life' \in [Services -> Lives]
    BY <1>0 DEF TypeOK, Deploy, Becomes, Answers, message, Lives
  <2>4. QED
    BY <1>0, <2>1, <2>2 DEF TypeOK, Deploy, Becomes, Answers, message
<1>2. Unsent'
  BY <1>0, MessageParts DEF Unsent, Deploy, Becomes, Answers, message, TypeOK
<1>3. Boxes'
  BY <1>0, MessageParts DEF Boxes, Scheduled, Queued, Acknowledged, IsQueued, Once, Deploy, Becomes, Answers, message, TypeOK
<1>4. Progress'
  BY <1>0, MessageParts DEF Progress, Deploy, Becomes, Answers, message, Started, TypeOK
<1>5. Own'
  BY <1>0, MessageParts DEF Own, Deploy, Becomes, Answers, message, Flying, TypeOK
<1>6. Current'
  <2>1. \A m \in Messages : of[m] = deploys /\ stage[m] # "idle" => FALSE
    BY <1>0, MessageParts DEF Deploy, Progress, Current, Started
  <2>2. QED
    BY <2>1 DEF Current, Deploy, Answers, message
<1>7. QED
  BY <1>1, <1>2, <1>3, <1>4, <1>5, <1>6 DEF Inv

LEMMA AttachKeeps ==
  ASSUME Inv, NEW s \in Services, Attach(s)
  PROVE  Inv'
<1>0. TypeOK /\ Unsent /\ Boxes /\ Progress /\ Own /\ Current
  BY DEF Inv
<1>1. TypeOK'
  BY <1>0, MessageParts, MessagingAssumption DEF TypeOK, Attach, Becomes, application, message, Flying, Over, Lives, Rounds
<1>2. Unsent'
  BY <1>0, MessageParts DEF Unsent, Attach, Becomes, application, message, TypeOK
<1>3. Boxes'
  BY <1>0, MessageParts DEF Boxes, Scheduled, Queued, Acknowledged, IsQueued, Once, Attach, Becomes, application, message, TypeOK
<1>4. Progress'
  BY <1>0, MessageParts DEF Progress, Attach, Becomes, application, message, Started, TypeOK
<1>5. Own'
  BY <1>0, MessageParts DEF Own, Attach, Becomes, application, message, Flying, TypeOK
<1>6. Current'
  BY <1>0, MessageParts DEF Current, Attach, Becomes, application, message, Started, RouteOf, TypeOK
<1>7. QED
  BY <1>1, <1>2, <1>3, <1>4, <1>5, <1>6 DEF Inv

LEMMA ConnectKeeps ==
  ASSUME Inv, NEW s \in Services, Connect(s)
  PROVE  Inv'
<1>0. TypeOK /\ Unsent /\ Boxes /\ Progress /\ Own /\ Current
  BY DEF Inv
<1>1. TypeOK'
  <2>1. told' \subseteq waiting'
    BY <1>0 DEF Progress, Started, Connect, Becomes, Answers, message
  <2>2. life' \in [Services -> Lives]
    BY <1>0 DEF TypeOK, Connect, Becomes, Answers, message, Lives
  <2>4. QED
    BY <1>0, <2>1, <2>2 DEF TypeOK, Connect, Becomes, Answers, message
<1>2. Unsent'
  BY <1>0, MessageParts DEF Unsent, Connect, Becomes, Answers, message, TypeOK
<1>3. Boxes'
  BY <1>0, MessageParts DEF Boxes, Scheduled, Queued, Acknowledged, IsQueued, Once, Connect, Becomes, Answers, message, TypeOK
<1>4. Progress'
  BY <1>0, MessageParts DEF Progress, Connect, Becomes, Answers, message, Started, TypeOK
<1>5. Own'
  BY <1>0, MessageParts DEF Own, Connect, Becomes, Answers, message, Flying, TypeOK
<1>6. Current'
  BY <1>0, MessageParts DEF Current, Connect, Becomes, Answers, message, Started, RouteOf, TypeOK
<1>7. QED
  BY <1>1, <1>2, <1>3, <1>4, <1>5, <1>6 DEF Inv

LEMMA StopKeeps ==
  ASSUME Inv, NEW s \in Services, Stop(s)
  PROVE  Inv'
<1>0. TypeOK /\ Unsent /\ Boxes /\ Progress /\ Own /\ Current
  BY DEF Inv
<1>1. TypeOK'
  <2>1. abandoned' \subseteq Messages
    BY <1>0 DEF TypeOK, Stop, Tells
  <2>2. told' \subseteq waiting' /\ waiting' \subseteq Services
    BY <1>0 DEF TypeOK, Stop, Tells, Answers, application
  <2>3. errors' \in BOOLEAN
    BY <1>0 DEF TypeOK, Stop, Tells, application
  <2>4. running' \subseteq Services
    BY <1>0 DEF TypeOK, Stop
  <2>5. round' = round /\ deploys' = deploys /\ mapping' = mapping
    BY DEF Stop, Tells, Answers, application
  <2>6. QED
    BY <1>0, <2>1, <2>2, <2>3, <2>4, <2>5 DEF TypeOK, Stop
<1>2. Unsent'
  BY <1>0, MessageParts DEF Unsent, Stop, Tells, Answers, application, TypeOK
<1>3. Boxes'
  BY <1>0, MessageParts DEF Boxes, Scheduled, Queued, Acknowledged, IsQueued, Once, Stop, Tells, Answers, application, TypeOK
<1>4. Progress'
  BY <1>0, MessageParts DEF Progress, Stop, Tells, Answers, application, Started, TypeOK
<1>5. Own'
  BY <1>0, MessageParts DEF Own, Stop, Tells, Answers, application, Flying, TypeOK
<1>6. Current'
  <2>1. \A m \in abandoned' \ abandoned : From(m) = s
    BY <1>0 DEF Own, Stop, Tells
  <2>2. round' = round /\ deploys' = deploys /\ mapping' = mapping /\ running' = running \ {s}
    BY DEF Stop, Tells, Answers, application
  <2>3. life' = life /\ stage' = stage /\ of' = of /\ at' = at /\ route' = route
    BY DEF Stop
  <2>4. QED
    BY <1>0, <2>1, <2>2, <2>3 DEF Current, RouteOf
<1>7. QED
  BY <1>1, <1>2, <1>3, <1>4, <1>5, <1>6 DEF Inv

LEMMA UndeployKeeps ==
  ASSUME Inv, NEW s \in Services, Undeploy(s)
  PROVE  Inv'
<1>0. TypeOK /\ Unsent /\ Boxes /\ Progress /\ Own /\ Current
  BY DEF Inv
<1>1. TypeOK'
  <2>1. told' \subseteq waiting'
    BY <1>0 DEF Progress, Started, Undeploy, Becomes, Answers, message
  <2>2. life' \in [Services -> Lives]
    BY <1>0 DEF TypeOK, Undeploy, Becomes, Answers, message, Lives
  <2>3. queue' \in [Services -> Seq(Messages)] /\ gone' \subseteq Messages
    BY SMTT(20), <1>0, BoxElements, EmptySeq DEF TypeOK, Undeploy, ToSet
  <2>4. QED
    BY <1>0, <2>1, <2>2, <2>3 DEF TypeOK, Undeploy, Becomes, Answers, message
<1>2. Unsent'
  BY <1>0, MessageParts DEF Unsent, Undeploy, Becomes, Answers, message, TypeOK
<1>3. Boxes'
  <2>1. queue'[s] = <<>> /\ \A r \in Services \ {s} : queue'[r] = queue[r]
    BY <1>0 DEF TypeOK, Undeploy
  <2>2. inbox' = inbox /\ stage' = stage /\ gone' = gone \cup ToSet(queue[s])
    BY DEF Undeploy, message
  <2>3. \A m \in ToSet(queue[s]) : To(m) = s /\ stage[m] = "ok"
    BY <1>0 DEF Boxes, Queued, ToSet, TypeOK
  <2>4. Scheduled'
    BY <1>0, <2>2 DEF Boxes, Scheduled, Once
  <2>5. Queued'
    <3> SUFFICES ASSUME NEW r \in Services
                 PROVE  /\ Once(queue'[r])
                        /\ \A i \in 1..Len(queue'[r]) :
                             /\ stage'[queue'[r][i]] = "ok" /\ To(queue'[r][i]) = r
                             /\ queue'[r][i] \notin gone'
      BY DEF Queued, Once
    <3>1. CASE r = s
      BY <3>1, <2>1, EmptySeq DEF Once
    <3>2. CASE r # s
      BY <1>0, <3>2, <2>1, <2>2, <2>3 DEF Boxes, Queued
    <3>3. QED
      BY <3>1, <3>2
  <2>6. Acknowledged'
    <3> SUFFICES ASSUME NEW m \in Messages
                 PROVE  /\ m \in gone' => stage'[m] = "ok"
                        /\ stage'[m] = "ok" => m \in gone' \/ IsQueued(m)'
      BY DEF Acknowledged
    <3>1. m \in gone' => stage'[m] = "ok"
      BY <1>0, <2>2, <2>3 DEF Boxes, Acknowledged
    <3>2. ASSUME stage[m] = "ok", m \notin gone  PROVE  m \in gone' \/ IsQueued(m)'
      <4>1. PICK i \in 1..Len(queue[To(m)]) : queue[To(m)][i] = m
        BY <1>0, <3>2 DEF Boxes, Acknowledged, IsQueued
      <4>2. CASE To(m) = s
        BY <1>0, <4>1, <4>2, <2>2 DEF ToSet, TypeOK
      <4>3. CASE To(m) # s
        BY <4>1, <4>3, <2>1, MessageParts DEF IsQueued
      <4>4. QED
        BY <4>2, <4>3
    <3>3. QED
      BY <3>1, <3>2, <2>2
  <2>7. QED
    BY <2>4, <2>5, <2>6 DEF Boxes
<1>4. Progress'
  BY <1>0, MessageParts DEF Progress, Undeploy, Becomes, Answers, message, Started, TypeOK
<1>5. Own'
  BY <1>0, MessageParts DEF Own, Undeploy, Becomes, Answers, message, Flying, TypeOK
<1>6. Current'
  BY <1>0, MessageParts DEF Current, Undeploy, Becomes, Answers, message, Started, RouteOf, TypeOK
<1>7. QED
  BY <1>1, <1>2, <1>3, <1>4, <1>5, <1>6 DEF Inv

LEMMA EndsKeeps ==
  ASSUME Inv, NEW s \in Services, Ends(s)
  PROVE  Inv'
<1>0. TypeOK /\ Unsent /\ Boxes /\ Progress /\ Own /\ Current
  BY DEF Inv
<1>1. TypeOK'
  BY <1>0, MessageParts, MessagingAssumption DEF TypeOK, Ends, Becomes, application, message, Flying, Over, Lives, Rounds
<1>2. Unsent'
  BY <1>0, MessageParts DEF Unsent, Ends, Becomes, application, message, TypeOK
<1>3. Boxes'
  BY <1>0, MessageParts DEF Boxes, Scheduled, Queued, Acknowledged, IsQueued, Once, Ends, Becomes, application, message, TypeOK
<1>4. Progress'
  BY <1>0, MessageParts DEF Progress, Ends, Becomes, application, message, Started, TypeOK
<1>5. Own'
  BY <1>0, MessageParts DEF Own, Ends, Becomes, application, message, Flying, TypeOK
<1>6. Current'
  BY <1>0, MessageParts DEF Current, Ends, Becomes, application, message, Started, RouteOf, TypeOK
<1>7. QED
  BY <1>1, <1>2, <1>3, <1>4, <1>5, <1>6 DEF Inv

LEMMA DisconnectKeeps ==
  ASSUME Inv, NEW s \in Services, Disconnect(s)
  PROVE  Inv'
<1>0. TypeOK /\ Unsent /\ Boxes /\ Progress /\ Own /\ Current
  BY DEF Inv
<1>1. TypeOK'
  BY <1>0, MessageParts, MessagingAssumption DEF TypeOK, Disconnect, Becomes, application, message, Flying, Over, Lives, Rounds
<1>2. Unsent'
  BY <1>0, MessageParts DEF Unsent, Disconnect, Becomes, application, message, TypeOK
<1>3. Boxes'
  BY <1>0, MessageParts DEF Boxes, Scheduled, Queued, Acknowledged, IsQueued, Once, Disconnect, Becomes, application, message, TypeOK
<1>4. Progress'
  BY <1>0, MessageParts DEF Progress, Disconnect, Becomes, application, message, Started, TypeOK
<1>5. Own'
  BY <1>0, MessageParts DEF Own, Disconnect, Becomes, application, message, Flying, TypeOK
<1>6. Current'
  BY <1>0, MessageParts DEF Current, Disconnect, Becomes, application, message, Started, RouteOf, TypeOK
<1>7. QED
  BY <1>1, <1>2, <1>3, <1>4, <1>5, <1>6 DEF Inv

LEMMA CloseKeeps ==
  ASSUME Inv, NEW s \in Services, Close(s)
  PROVE  Inv'
<1>0. TypeOK /\ Unsent /\ Boxes /\ Progress /\ Own /\ Current
  BY DEF Inv
<1>1. TypeOK'
  BY <1>0, MessageParts, MessagingAssumption DEF TypeOK, Close, Becomes, Answers, message, Flying, Over, Lives, Rounds
<1>2. Unsent'
  BY <1>0, MessageParts DEF Unsent, Close, Becomes, Answers, message, TypeOK
<1>3. Boxes'
  <2>1. Scheduled'
    <3> SUFFICES ASSUME NEW r \in Services
                 PROVE  /\ Once(inbox'[r])
                        /\ \A i \in 1..Len(inbox'[r]) :
                             stage'[inbox'[r][i]] = "accepted" /\ To(inbox'[r][i]) = r
      BY DEF Scheduled, Once
    <3>1. CASE r = s
      BY <1>0, <3>1, EmptySeq DEF Close, TypeOK, Once
    <3>2. CASE r # s
      BY <1>0, <3>2 DEF Boxes, Scheduled, Close, TypeOK, message
    <3>3. QED
      BY <3>1, <3>2
  <2>2. Queued' /\ Acknowledged'
    BY <1>0 DEF Boxes, Queued, Acknowledged, IsQueued, Once, Close, message
  <2>3. QED
    BY <2>1, <2>2 DEF Boxes
<1>4. Progress'
  BY <1>0, MessageParts DEF Progress, Close, Becomes, Answers, message, Started, TypeOK
<1>5. Own'
  BY <1>0, MessageParts DEF Own, Close, Becomes, Answers, message, Flying, TypeOK
<1>6. Current'
  BY <1>0, MessageParts DEF Current, Close, Becomes, Answers, message, Started, RouteOf, TypeOK
<1>7. QED
  BY <1>1, <1>2, <1>3, <1>4, <1>5, <1>6 DEF Inv

LEMMA SendKeeps ==
  ASSUME Inv, NEW s \in Services, NEW to \in SUBSET Neighbors[s], NEW aw \in BOOLEAN, Send(s, to, aw)
  PROVE  Inv'
<1>0. TypeOK /\ Unsent /\ Boxes /\ Progress /\ Own /\ Current
  BY DEF Inv
<1> DEFINE ms == {<<s, r, sent[s] + 1>> : r \in to}
<1>a. /\ sent[s] \in Nat /\ sent[s] + 1 \in 1..MaxSends
      /\ sent' = [sent EXCEPT ![s] = @ + 1]
  BY <1>0, MessagingAssumption DEF Send, TypeOK
<1>b. ms \subseteq Messages /\ \A m \in ms : From(m) = s /\ m[3] = sent[s] + 1
  BY <1>a, MessagingAssumption DEF Messages, From
<1>c. \A m \in ms : stage[m] = "idle"
  BY <1>0, <1>a, <1>b DEF Unsent
<1>d. /\ \A m \in ms : stage'[m] = "routing" /\ of'[m] = deploys
      /\ \A m \in Messages \ ms : stage'[m] = stage[m] /\ of'[m] = of[m]
  BY <1>b DEF Send
<1>e. /\ awaiting' \in {[awaiting EXCEPT ![s] = ms], [awaiting EXCEPT ![s] = {}]}
      /\ abandoned' \in {abandoned, abandoned \cup ms}
      /\ abandoned' # abandoned => s \in told
  BY DEF Send
<1>f. life[s] = "running"
  BY DEF Send
<1>1. TypeOK'
  <2>1. stage' \in [Messages -> Flying \cup Over \cup {"idle"}]
    BY <1>0 DEF TypeOK, Send, Flying
  <2>2. of' \in [Messages -> 0..deploys] /\ deploys \in Nat
    BY <1>0, MessagingAssumption, LenProperties DEF TypeOK, Send
  <2>3. sent' \in [Services -> 0..MaxSends]
    BY <1>0, <1>a DEF TypeOK
  <2>4. awaiting' \in [Services -> SUBSET Messages] /\ abandoned' \subseteq Messages
    BY ZenonT(30), <1>0, <1>b, <1>e DEF TypeOK
  <2>5. UNCHANGED <<application, life, running, told, inbox, queue, at, route, gone>>
    BY DEF Send
  <2>6. QED
    BY <1>0, <2>1, <2>2, <2>3, <2>4, <2>5 DEF TypeOK, application
<1>2. Unsent'
  <2> SUFFICES ASSUME NEW m \in Messages, m[3] > sent'[From(m)]
               PROVE  stage'[m] = "idle"
    BY DEF Unsent
  <2>1. m[3] \in Nat /\ From(m) \in Services /\ sent[From(m)] \in Nat
    BY SMTT(20), <1>0, MessageParts, MessagingAssumption DEF TypeOK
  <2>2. m[3] > sent[From(m)]
    BY <1>0, <1>a, <2>1 DEF TypeOK
  <2>3. m \notin ms
    BY <1>0, <1>a, <1>b DEF TypeOK
  <2>4. QED
    BY <1>0, <1>d, <2>2, <2>3 DEF Unsent
<1>3. Boxes'
  <2>1. UNCHANGED <<inbox, queue, gone>>
    BY DEF Send
  <2>2. Scheduled'
    <3>1. \A r \in Services : \A i \in 1..Len(inbox[r]) : inbox[r][i] \in Messages \ ms
      BY <1>0, <1>c, BoxElements DEF Boxes, Scheduled
    <3>2. QED
      BY <1>0, <1>d, <2>1, <3>1 DEF Boxes, Scheduled, Once
  <2>3. Queued'
    <3>1. \A r \in Services : \A i \in 1..Len(queue[r]) : queue[r][i] \in Messages \ ms
      BY <1>0, <1>c, BoxElements DEF Boxes, Queued
    <3>2. QED
      BY <1>0, <1>d, <2>1, <3>1 DEF Boxes, Queued, Once
  <2>4. Acknowledged'
    BY <1>0, <1>c, <1>d, <2>1 DEF Boxes, Acknowledged, IsQueued
  <2>5. QED
    BY <2>2, <2>3, <2>4 DEF Boxes
<1>4. Progress'
  BY <1>0, MessageParts DEF Progress, Send, application, Started, TypeOK
<1>5. Own'
  <2>1. \A r \in Services : awaiting'[r] = awaiting[r] \/ (r = s /\ awaiting'[r] \in {ms, {}})
    BY <1>0, <1>e DEF TypeOK
  <2>2. \A m \in abandoned' : stage'[m] # "idle"
    BY <1>0, <1>b, <1>d, <1>e DEF Own, TypeOK
  <2>3. QED
    BY <1>0, <1>b, <2>1, <2>2 DEF Own
<1>6. Current'
  <2>1. UNCHANGED <<round, deploys, mapping, life, running, at, route>>
    BY DEF Send, application
  <2>2. s \in told => s \notin running
    BY <1>0 DEF Progress
  <2> SUFFICES ASSUME NEW m \in Messages, of'[m] = deploys, stage'[m] # "idle"
               PROVE  /\ \/ life[From(m)] \in Started
                         \/ round \in {"undeploy", "down"} /\ life[From(m)] = "absent"
                      /\ stage'[m] \in {"routed", "called"} => route[m] = RouteOf(m)
                      /\ stage'[m] = "checked" => at[m] = deploys
                      /\ m \in abandoned' => From(m) \notin running
    BY <2>1 DEF Current, RouteOf
  <2>3. CASE m \in ms
    <3>1. m \notin abandoned
      BY <1>0, <1>c, <2>3 DEF Own
    <3>2. QED
      BY <1>b, <1>d, <1>e, <1>f, <2>2, <2>3, <3>1 DEF Started
  <2>4. CASE m \notin ms
    BY <1>0, <1>d, <1>e, <2>4 DEF Current
  <2>5. QED
    BY <2>3, <2>4
<1>7. QED
  BY <1>1, <1>2, <1>3, <1>4, <1>5, <1>6 DEF Inv

LEMMA ContinueKeeps ==
  ASSUME Inv, NEW s \in Services, Continue(s)
  PROVE  Inv'
<1>0. TypeOK /\ Unsent /\ Boxes /\ Progress /\ Own /\ Current
  BY DEF Inv
<1>1. TypeOK'
  BY <1>0, MessageParts, MessagingAssumption DEF TypeOK, Continue, application, message, Flying, Over, Lives, Rounds
<1>2. Unsent'
  BY <1>0, MessageParts DEF Unsent, Continue, application, message, TypeOK
<1>3. Boxes'
  BY <1>0, MessageParts DEF Boxes, Scheduled, Queued, Acknowledged, IsQueued, Once, Continue, application, message, TypeOK
<1>4. Progress'
  BY <1>0, MessageParts DEF Progress, Continue, application, message, Started, TypeOK
<1>5. Own'
  BY <1>0, MessageParts DEF Own, Continue, application, message, Flying, TypeOK
<1>6. Current'
  BY <1>0, MessageParts DEF Current, Continue, application, message, Started, RouteOf, TypeOK
<1>7. QED
  BY <1>1, <1>2, <1>3, <1>4, <1>5, <1>6 DEF Inv

LEMMA RecvKeeps ==
  ASSUME Inv, NEW s \in Services, Recv(s)
  PROVE  Inv'
<1>0. TypeOK /\ Unsent /\ Boxes /\ Progress /\ Own /\ Current
  BY DEF Inv
<1>1. TypeOK'
  <2>1. queue' \in [Services -> Seq(Messages)] /\ gone' \subseteq Messages
    BY <1>0, HeadTailProperties DEF TypeOK, Recv
  <2>2. QED
    BY <1>0, <2>1 DEF TypeOK, Recv, application, message
<1>2. Unsent'
  BY <1>0, MessageParts DEF Unsent, Recv, application, message, TypeOK
<1>3. Boxes'
  <2>1. /\ queue[s] \in Seq(Messages) /\ queue[s] # <<>>
        /\ queue'[s] = Tail(queue[s]) /\ gone' = gone \cup {queue[s][1]}
        /\ \A r \in Services \ {s} : queue'[r] = queue[r]
        /\ inbox' = inbox /\ stage' = stage
    BY <1>0 DEF TypeOK, Recv, message
  <2>2. /\ Len(queue[s]) >= 1 /\ Len(queue'[s]) = Len(queue[s]) - 1
        /\ \A i \in 1..Len(queue'[s]) : queue'[s][i] = queue[s][i + 1]
    BY <2>1, HeadTailProperties, EmptySeq, LenProperties
  <2>3. Len(queue[s]) \in Nat /\ 1 \in 1..Len(queue[s])
    BY <2>1, <2>2, LenProperties
  <2>4. Scheduled'
    BY <1>0, <2>1 DEF Boxes, Scheduled, Once
  <2>5. Queued'
    <3> SUFFICES ASSUME NEW r \in Services
                 PROVE  /\ Once(queue'[r])
                        /\ \A i \in 1..Len(queue'[r]) :
                             /\ stage'[queue'[r][i]] = "ok" /\ To(queue'[r][i]) = r
                             /\ queue'[r][i] \notin gone'
      BY DEF Queued, Once
    <3>1. CASE r = s
      <4>1. \A i \in 1..Len(queue'[s]) : i + 1 \in 1..Len(queue[s]) /\ i + 1 # 1
        BY <2>2, <2>3
      <4>2. Once(queue'[s])
        BY <1>0, <2>2, <4>1 DEF Boxes, Queued, Once
      <4>3. \A i \in 1..Len(queue'[s]) : queue'[s][i] # queue[s][1]
        BY <1>0, <2>2, <2>3, <4>1 DEF Boxes, Queued, Once
      <4>4. QED
        BY <1>0, <3>1, <2>1, <2>2, <4>1, <4>2, <4>3 DEF Boxes, Queued
    <3>2. CASE r # s
      BY <1>0, <3>2, <2>1, <2>3 DEF Boxes, Queued
    <3>3. QED
      BY <3>1, <3>2
  <2>6. Acknowledged'
    <3> SUFFICES ASSUME NEW m \in Messages
                 PROVE  /\ m \in gone' => stage'[m] = "ok"
                        /\ stage'[m] = "ok" => m \in gone' \/ IsQueued(m)'
      BY DEF Acknowledged
    <3>1. m \in gone' => stage'[m] = "ok"
      BY <1>0, <2>1, <2>3 DEF Boxes, Acknowledged, Queued
    <3>2. ASSUME stage[m] = "ok", m \notin gone'  PROVE  IsQueued(m)'
      <4>1. PICK i \in 1..Len(queue[To(m)]) : queue[To(m)][i] = m
        BY <1>0, <2>1, <3>2 DEF Boxes, Acknowledged, IsQueued
      <4>2. CASE To(m) = s
        <5>1. i - 1 \in 1..Len(queue'[s]) /\ queue'[s][i - 1] = m
          BY <4>1, <4>2, <2>1, <2>2, <2>3, <3>2
        <5>2. QED
          BY <5>1, <4>2 DEF IsQueued
      <4>3. CASE To(m) # s
        BY <4>1, <4>3, <2>1, MessageParts DEF IsQueued
      <4>4. QED
        BY <4>2, <4>3
    <3>3. QED
      BY <3>1, <3>2, <2>1
  <2>7. QED
    BY <2>4, <2>5, <2>6 DEF Boxes
<1>4. Progress'
  BY <1>0, MessageParts DEF Progress, Recv, application, message, Started, TypeOK
<1>5. Own'
  BY <1>0, MessageParts DEF Own, Recv, application, message, Flying, TypeOK
<1>6. Current'
  BY <1>0, MessageParts DEF Current, Recv, application, message, Started, RouteOf, TypeOK
<1>7. QED
  BY <1>1, <1>2, <1>3, <1>4, <1>5, <1>6 DEF Inv

LEMMA RouteFoundKeeps ==
  ASSUME Inv, NEW m \in Messages, RouteFound(m)
  PROVE  Inv'
<1>0. TypeOK /\ Unsent /\ Boxes /\ Progress /\ Own /\ Current
  BY DEF Inv
<1>1. TypeOK'
  BY <1>0, MessageParts, MessagingAssumption DEF TypeOK, RouteFound, Moves, RouteOf, application, copy, Flying, Over, Lives, Rounds
<1>2. Unsent'
  BY <1>0, MessageParts DEF Unsent, RouteFound, Moves, RouteOf, application, copy, TypeOK
<1>3. Boxes'
  BY <1>0, BoxesMove DEF RouteFound, Moves, copy, HasSender, NoHop
<1>4. Progress'
  BY <1>0, MessageParts DEF Progress, RouteFound, Moves, RouteOf, application, copy, Started, TypeOK
<1>5. Own'
  BY <1>0, MessageParts DEF Own, RouteFound, Moves, RouteOf, application, copy, Flying, TypeOK
<1>6. Current'
  BY <1>0, MessageParts DEF Current, RouteFound, Moves, RouteOf, application, copy, Started, TypeOK
<1>7. QED
  BY <1>1, <1>2, <1>3, <1>4, <1>5, <1>6 DEF Inv

LEMMA NoRouteKeeps ==
  ASSUME Inv, NEW m \in Messages, NoRoute(m)
  PROVE  Inv'
<1>0. TypeOK /\ Unsent /\ Boxes /\ Progress /\ Own /\ Current
  BY DEF Inv
<1>1. TypeOK'
  BY <1>0, MessageParts, MessagingAssumption DEF TypeOK, NoRoute, Moves, application, copy, Flying, Over, Lives, Rounds
<1>2. Unsent'
  BY <1>0, MessageParts DEF Unsent, NoRoute, Moves, application, copy, TypeOK
<1>3. Boxes'
  BY <1>0, BoxesMove DEF NoRoute, Moves, copy, HasSender, NoHop
<1>4. Progress'
  BY <1>0, MessageParts DEF Progress, NoRoute, Moves, application, copy, Started, TypeOK
<1>5. Own'
  BY <1>0, MessageParts DEF Own, NoRoute, Moves, application, copy, Flying, TypeOK
<1>6. Current'
  BY <1>0, MessageParts DEF Current, NoRoute, Moves, application, copy, Started, RouteOf, TypeOK
<1>7. QED
  BY <1>1, <1>2, <1>3, <1>4, <1>5, <1>6 DEF Inv

LEMMA RouteRaisesKeeps ==
  ASSUME Inv, NEW m \in Messages, RouteRaises(m)
  PROVE  Inv'
<1>0. TypeOK /\ Unsent /\ Boxes /\ Progress /\ Own /\ Current
  BY DEF Inv
<1>1. TypeOK'
  BY <1>0, MessageParts, MessagingAssumption DEF TypeOK, RouteRaises, Moves, application, copy, Flying, Over, Lives, Rounds
<1>2. Unsent'
  BY <1>0, MessageParts DEF Unsent, RouteRaises, Moves, application, copy, TypeOK
<1>3. Boxes'
  BY <1>0, BoxesMove DEF RouteRaises, Moves, copy, HasSender, NoHop
<1>4. Progress'
  BY <1>0, MessageParts DEF Progress, RouteRaises, Moves, application, copy, Started, TypeOK
<1>5. Own'
  BY <1>0, MessageParts DEF Own, RouteRaises, Moves, application, copy, Flying, TypeOK
<1>6. Current'
  BY <1>0, MessageParts DEF Current, RouteRaises, Moves, application, copy, Started, RouteOf, TypeOK
<1>7. QED
  BY <1>1, <1>2, <1>3, <1>4, <1>5, <1>6 DEF Inv

LEMMA DepartKeeps ==
  ASSUME Inv, NEW m \in Messages, Depart(m)
  PROVE  Inv'
<1>0. TypeOK /\ Unsent /\ Boxes /\ Progress /\ Own /\ Current
  BY DEF Inv
<1>1. TypeOK'
  BY <1>0, MessageParts, MessagingAssumption DEF TypeOK, Depart, Moves, application, copy, HasSender, NoHop, Flying, Over, Lives, Rounds
<1>2. Unsent'
  BY <1>0, MessageParts DEF Unsent, Depart, Moves, application, copy, HasSender, NoHop, TypeOK
<1>3. Boxes'
  BY <1>0, BoxesMove DEF Depart, Moves, copy, HasSender, NoHop
<1>4. Progress'
  BY <1>0, MessageParts DEF Progress, Depart, Moves, application, copy, HasSender, NoHop, Started, TypeOK
<1>5. Own'
  BY <1>0, MessageParts DEF Own, Depart, Moves, application, copy, HasSender, NoHop, Flying, TypeOK
<1>6. Current'
  BY <1>0, MessageParts DEF Current, Depart, Moves, application, copy, HasSender, NoHop, Started, RouteOf, TypeOK
<1>7. QED
  BY <1>1, <1>2, <1>3, <1>4, <1>5, <1>6 DEF Inv

LEMMA HandleKeeps ==
  ASSUME Inv, NEW m \in Messages, Handle(m)
  PROVE  Inv'
<1>0. TypeOK /\ Unsent /\ Boxes /\ Progress /\ Own /\ Current
  BY DEF Inv
<1>1. TypeOK'
  <2>1. stage' \in [Messages -> Flying \cup Over \cup {"idle"}]
    BY <1>0 DEF TypeOK, Handle, Moves, Flying, Over
  <2>2. at' \in [Messages -> 0..deploys]
    BY <1>0 DEF TypeOK, Handle
  <2>3. QED
    BY <1>0, <2>1, <2>2 DEF TypeOK, Handle, application, copy
<1>2. Unsent'
  BY <1>0, MessageParts DEF Unsent, Handle, Moves, application, copy, Connected, TypeOK
<1>3. Boxes'
  BY <1>0, BoxesMove DEF Handle, Moves, copy
<1>4. Progress'
  BY <1>0, MessageParts DEF Progress, Handle, Moves, application, copy, Connected, Started, TypeOK
<1>5. Own'
  BY <1>0, MessageParts DEF Own, Handle, Moves, application, copy, Connected, Flying, TypeOK
<1>6. Current'
  BY ZenonT(30), <1>0, MessageParts DEF Current, Handle, Moves, application, copy, Connected, Started, RouteOf, TypeOK
<1>7. QED
  BY <1>1, <1>2, <1>3, <1>4, <1>5, <1>6 DEF Inv

LEMMA ScheduleKeeps ==
  ASSUME Inv, NEW m \in Messages, Schedule(m)
  PROVE  Inv'
<1>0. TypeOK /\ Unsent /\ Boxes /\ Progress /\ Own /\ Current
  BY DEF Inv
<1>1. TypeOK'
  <2>1. stage' \in [Messages -> Flying \cup Over \cup {"idle"}]
    BY ZenonT(30), <1>0 DEF TypeOK, Schedule, Moves, Flying, Over
  <2>a. Append(inbox[To(m)], m) \in Seq(Messages)
    BY <1>0, MessageParts, AppendProperties DEF TypeOK
  <2>2. inbox' \in [Services -> Seq(Messages)]
    BY <1>0, <2>a, MessageParts DEF TypeOK, Schedule
  <2>3. at' \in [Messages -> 0..deploys]
    BY <1>0, MessagingAssumption, LenProperties DEF TypeOK, Schedule
  <2>4. UNCHANGED <<application, life, running, told, awaiting, queue, sent, of, route,
                    abandoned, gone>>
    BY DEF Schedule
  <2>5. QED
    BY <1>0, <2>1, <2>2, <2>3, <2>4 DEF TypeOK, application
<1>2. Unsent'
  BY <1>0, MessageParts DEF Unsent, Schedule, Moves, application, TypeOK
<1>3. Boxes'
  <2>1. CASE inbox' = inbox /\ stage' = [stage EXCEPT ![m] = "raised"]
    BY <1>0, <2>1, BoxesMove DEF Schedule
  <2>2. CASE /\ inbox' = [inbox EXCEPT ![To(m)] = Append(@, m)]
             /\ stage' = [stage EXCEPT ![m] = "accepted"]
    <3> DEFINE s == To(m)
    <3>1. /\ s \in Services /\ inbox[s] \in Seq(Messages) /\ inbox'[s] = Append(inbox[s], m)
          /\ \A r \in Services \ {s} : inbox'[r] = inbox[r]
          /\ queue' = queue /\ gone' = gone /\ stage[m] = "checked"
      BY <1>0, <2>2, MessageParts DEF TypeOK, Schedule
    <3>2. /\ Len(inbox[s]) \in Nat /\ Len(inbox'[s]) = Len(inbox[s]) + 1
          /\ \A i \in 1..Len(inbox[s]) : inbox'[s][i] = inbox[s][i]
          /\ inbox'[s][Len(inbox[s]) + 1] = m
      BY <3>1, AppendProperties, LenProperties
    <3>3. stage'[m] = "accepted" /\ \A k \in Messages \ {m} : stage'[k] = stage[k]
      BY <1>0, <2>2 DEF TypeOK
    <3>4. \A r \in Services : \A i \in 1..Len(inbox[r]) : inbox[r][i] \in Messages \ {m}
      BY <1>0, <3>1, BoxElements DEF Boxes, Scheduled
    <3>5. Scheduled'
      <4> SUFFICES ASSUME NEW r \in Services
                   PROVE  /\ Once(inbox'[r])
                          /\ \A i \in 1..Len(inbox'[r]) :
                               stage'[inbox'[r][i]] = "accepted" /\ To(inbox'[r][i]) = r
        BY DEF Scheduled, Once
      <4>1. CASE r # s
        BY <1>0, <4>1, <3>1, <3>3, <3>4 DEF Boxes, Scheduled
      <4>2. CASE r = s
        <5>1. \A i \in 1..Len(inbox'[s]) : i \in 1..Len(inbox[s]) \/ i = Len(inbox[s]) + 1
          BY <3>2
        <5>2. Once(inbox'[s])
          BY <1>0, <3>1, <3>2, <3>4, <5>1 DEF Boxes, Scheduled, Once
        <5>3. QED
          BY <1>0, <4>2, <3>1, <3>2, <3>3, <3>4, <5>1, <5>2 DEF Boxes, Scheduled
      <4>3. QED
        BY <4>1, <4>2
    <3>6. Queued'
      BY <1>0, <3>1, <3>3, BoxElements DEF Boxes, Queued, Once
    <3>7. Acknowledged'
      BY <1>0, <3>1, <3>3 DEF Boxes, Acknowledged, IsQueued
    <3>8. QED
      BY <3>5, <3>6, <3>7 DEF Boxes
  <2>3. QED
    BY <2>1, <2>2 DEF Schedule, Moves
<1>4. Progress'
  BY <1>0, MessageParts DEF Progress, Schedule, Moves, application, Started, TypeOK
<1>5. Own'
  BY <1>0, MessageParts DEF Own, Schedule, Moves, application, Flying, TypeOK
<1>6. Current'
  BY SMTT(20), <1>0, MessageParts DEF Current, Schedule, Moves, application, Started, RouteOf, TypeOK
<1>7. QED
  BY <1>1, <1>2, <1>3, <1>4, <1>5, <1>6 DEF Inv

LEMMA ExecuteKeeps ==
  ASSUME Inv, NEW s \in Services, Execute(s)
  PROVE  Inv'
<1>0. TypeOK /\ Unsent /\ Boxes /\ Progress /\ Own /\ Current
  BY DEF Inv
<1> DEFINE k == inbox[s][1]
<1>a. /\ inbox[s] \in Seq(Messages) /\ inbox[s] # <<>> /\ queue[s] \in Seq(Messages)
      /\ stage' = [stage EXCEPT ![k] = "ok"] /\ gone' = gone
      /\ inbox' = [inbox EXCEPT ![s] = Tail(@)]
      /\ queue' = [queue EXCEPT ![s] = Append(@, k)]
  BY <1>0 DEF Execute, TypeOK, Moves, InboxAfter
<1>b. /\ Len(inbox[s]) \in Nat /\ 1 \in 1..Len(inbox[s])
      /\ Len(Tail(inbox[s])) = Len(inbox[s]) - 1
      /\ \A i \in 1..Len(Tail(inbox[s])) : Tail(inbox[s])[i] = inbox[s][i + 1]
  BY <1>a, HeadTailProperties, EmptySeq, LenProperties
<1>c. k \in Messages /\ stage[k] = "accepted" /\ To(k) = s
  BY <1>0, <1>b, BoxElements DEF Boxes, Scheduled
<1>d. stage'[k] = "ok" /\ \A m \in Messages \ {k} : stage'[m] = stage[m]
  BY <1>0, <1>a, <1>c DEF TypeOK
<1>1. TypeOK'
  <2>1. inbox' \in [Services -> Seq(Messages)]
    BY <1>0, <1>a, HeadTailProperties DEF TypeOK
  <2>2. queue' \in [Services -> Seq(Messages)]
    BY <1>0, <1>a, <1>c, AppendProperties DEF TypeOK
  <2>3. stage' \in [Messages -> Flying \cup Over \cup {"idle"}]
    BY <1>0, <1>a DEF TypeOK, Over
  <2>4. UNCHANGED <<application, life, running, told, awaiting, sent, of, at, route,
                    abandoned, gone>>
    BY DEF Execute
  <2>5. QED
    BY <1>0, <2>1, <2>2, <2>3, <2>4 DEF TypeOK, application
<1>2. Unsent'
  <2>1. sent' = sent
    BY DEF Execute
  <2>2. QED
    BY <1>0, <1>c, <1>d, <2>1 DEF Unsent
<1>3. Boxes'
  <2>1. Scheduled'
    <3> SUFFICES ASSUME NEW r \in Services
                 PROVE  /\ Once(inbox'[r])
                        /\ \A i \in 1..Len(inbox'[r]) :
                             stage'[inbox'[r][i]] = "accepted" /\ To(inbox'[r][i]) = r
      BY DEF Scheduled, Once
    <3>1. CASE r # s
      <4>1. inbox'[r] = inbox[r]
        BY <1>0, <1>a, <3>1 DEF TypeOK
      <4>2. \A i \in 1..Len(inbox[r]) : inbox[r][i] \in Messages \ {k}
        BY <1>0, <1>c, <3>1, BoxElements DEF Boxes, Scheduled
      <4>3. QED
        BY <1>0, <1>d, <4>1, <4>2 DEF Boxes, Scheduled
    <3>2. CASE r = s
      <4>1. inbox'[s] = Tail(inbox[s])
        BY <1>0, <1>a DEF TypeOK
      <4>2. \A i \in 1..Len(inbox'[s]) : i + 1 \in 1..Len(inbox[s]) /\ i + 1 # 1
        BY <1>b, <4>1
      <4>3. Once(inbox'[s])
        BY <1>0, <1>b, <4>1, <4>2 DEF Boxes, Scheduled, Once
      <4>4. \A i \in 1..Len(inbox'[s]) : inbox'[s][i] \in Messages \ {k}
        BY <1>0, <1>b, <4>1, <4>2, BoxElements DEF Boxes, Scheduled, Once
      <4>5. \A i \in 1..Len(inbox'[s]) : stage[inbox'[s][i]] = "accepted" /\ To(inbox'[s][i]) = s
        BY <1>0, <1>b, <4>1, <4>2 DEF Boxes, Scheduled
      <4>6. QED
        BY <1>d, <3>2, <4>3, <4>4, <4>5
    <3>3. QED
      BY <3>1, <3>2
  <2>2. /\ Len(queue[s]) \in Nat /\ Len(queue'[s]) = Len(queue[s]) + 1
        /\ \A i \in 1..Len(queue[s]) : queue'[s][i] = queue[s][i]
        /\ queue'[s][Len(queue[s]) + 1] = k
    <3>1. queue'[s] = Append(queue[s], k)
      BY <1>0, <1>a DEF TypeOK
    <3>2. QED
      BY <3>1, <1>a, <1>c, AppendProperties, LenProperties
  <2>3. \A r \in Services \ {s} : queue'[r] = queue[r]
    BY <1>0, <1>a DEF TypeOK
  <2>4. \A r \in Services : \A i \in 1..Len(queue[r]) : queue[r][i] \in Messages \ {k}
    BY <1>0, <1>c, BoxElements DEF Boxes, Queued
  <2>5. k \notin gone
    BY <1>0, <1>c DEF Boxes, Acknowledged
  <2>6. Queued'
    <3> SUFFICES ASSUME NEW r \in Services
                 PROVE  /\ Once(queue'[r])
                        /\ \A i \in 1..Len(queue'[r]) :
                             /\ stage'[queue'[r][i]] = "ok" /\ To(queue'[r][i]) = r
                             /\ queue'[r][i] \notin gone'
      BY DEF Queued, Once
    <3>1. CASE r # s
      BY <1>0, <1>a, <1>d, <3>1, <2>3, <2>4 DEF Boxes, Queued
    <3>2. CASE r = s
      <4>1. \A i \in 1..Len(queue'[s]) : i \in 1..Len(queue[s]) \/ i = Len(queue[s]) + 1
        BY <2>2
      <4>2. Once(queue'[s])
        <5>1. Once(queue[s])
          BY <1>0 DEF Boxes, Queued
        <5>2. \A i \in 1..Len(queue[s]) : queue'[s][i] # k
          BY <2>2, <2>4
        <5> SUFFICES ASSUME NEW i \in 1..Len(queue'[s]), NEW j \in 1..Len(queue'[s]),
                            queue'[s][i] = queue'[s][j]
                     PROVE  i = j
          BY DEF Once
        <5>3. QED
          BY <2>2, <4>1, <5>1, <5>2 DEF Once
      <4>3. QED
        BY <1>0, <1>a, <1>c, <1>d, <3>2, <2>2, <2>4, <2>5, <4>1, <4>2 DEF Boxes, Queued
    <3>3. QED
      BY <3>1, <3>2
  <2>7. Acknowledged'
    <3> SUFFICES ASSUME NEW m \in Messages
                 PROVE  /\ m \in gone => stage'[m] = "ok"
                        /\ stage'[m] = "ok" => m \in gone \/ IsQueued(m)'
      BY <1>a DEF Acknowledged
    <3>1. CASE m = k
      <4>1. Len(queue[s]) + 1 \in 1..Len(queue'[s])
        BY <2>2
      <4>2. QED
        BY <1>c, <1>d, <2>2, <2>5, <3>1, <4>1 DEF IsQueued
    <3>2. CASE m # k
      <4>1. stage'[m] = stage[m]
        BY <1>d, <3>2
      <4>2. m \in gone => stage'[m] = "ok"
        BY <1>0, <4>1 DEF Boxes, Acknowledged
      <4>3. ASSUME IsQueued(m)  PROVE IsQueued(m)'
        <5>1. PICK i \in 1..Len(queue[To(m)]) : queue[To(m)][i] = m
          BY <4>3 DEF IsQueued
        <5>2. To(m) \in Services
          BY MessageParts
        <5>3. i \in 1..Len(queue'[To(m)]) /\ queue'[To(m)][i] = m
          BY <5>1, <5>2, <2>2, <2>3
        <5>4. QED
          BY <5>3 DEF IsQueued
      <4>4. QED
        BY <1>0, <4>1, <4>2, <4>3 DEF Boxes, Acknowledged
    <3>3. QED
      BY <3>1, <3>2
  <2>8. QED
    BY <2>1, <2>6, <2>7 DEF Boxes
<1>4. Progress'
  BY <1>0, MessageParts DEF Progress, Execute, Moves, Turns, InboxAfter, application, Started, TypeOK
<1>5. Own'
  BY <1>0, MessageParts DEF Own, Execute, Moves, Turns, InboxAfter, application, Flying, TypeOK
<1>6. Current'
  <2>1. UNCHANGED <<application, life, running, of, at, route, abandoned>>
    BY DEF Execute
  <2>2. QED
    BY <1>0, <1>c, <1>d, <2>1 DEF Current, RouteOf, application
<1>7. QED
  BY <1>1, <1>2, <1>3, <1>4, <1>5, <1>6 DEF Inv

LEMMA CancelKeeps ==
  ASSUME Inv, NEW m \in Messages, Cancel(m)
  PROVE  Inv'
<1>0. TypeOK /\ Unsent /\ Boxes /\ Progress /\ Own /\ Current
  BY DEF Inv
<1>1. TypeOK'
  BY <1>0, MessageParts, MessagingAssumption DEF TypeOK, Cancel, Moves, application, copy, Flying, Over, Lives, Rounds
<1>2. Unsent'
  BY <1>0, MessageParts DEF Unsent, Cancel, Moves, application, copy, TypeOK
<1>3. Boxes'
  BY <1>0, BoxesMove DEF Cancel, Moves, copy, HasSender, NoHop
<1>4. Progress'
  BY <1>0, MessageParts DEF Progress, Cancel, Moves, application, copy, Started, TypeOK
<1>5. Own'
  BY <1>0, MessageParts DEF Own, Cancel, Moves, application, copy, Flying, TypeOK
<1>6. Current'
  BY <1>0, MessageParts DEF Current, Cancel, Moves, application, copy, Started, RouteOf, TypeOK
<1>7. QED
  BY <1>1, <1>2, <1>3, <1>4, <1>5, <1>6 DEF Inv

LEMMA InitIsSound == Init => Inv
<1> SUFFICES ASSUME Init PROVE Inv
  OBVIOUS
<1>0. 0 \in 0..Len(Mappings) /\ 0 \in 0..MaxSends
  BY MessagingAssumption, LenProperties
<1>1. TypeOK
  <2>1. mapping \in [Services -> Nodes]
    BY MessagingAssumption DEF Init
  <2>2. route \in [Messages -> Nodes \X Nodes]
    BY <2>1, MessageParts DEF Init, RouteOf
  <2>3. deploys = 0 /\ 0 \in 0..0
    BY DEF Init
  <2>4. /\ of \in [Messages -> 0..deploys] /\ at \in [Messages -> 0..deploys]
        /\ deploys \in 0..Len(Mappings) /\ sent \in [Services -> 0..MaxSends]
    BY <1>0, <2>3 DEF Init
  <2>5. inbox \in [Services -> Seq(Messages)] /\ queue \in [Services -> Seq(Messages)]
    BY EmptySeq DEF Init
  <2>6. stage \in [Messages -> Flying \cup Over \cup {"idle"}]
    BY DEF Init
  <2>7. QED
    BY <2>1, <2>2, <2>4, <2>5, <2>6 DEF Init, TypeOK, Rounds, Lives
<1>2. \A s \in Services : Once(inbox[s]) /\ Once(queue[s]) /\ Len(inbox[s]) = 0 /\ Len(queue[s]) = 0
  BY EmptySeq DEF Init, Once
<1>3. Boxes
  BY <1>2 DEF Boxes, Scheduled, Queued, Acknowledged, Init
<1>4. Unsent /\ Progress /\ Own /\ Current
  BY DEF Init, Unsent, Progress, Own, Current
<1>5. QED
  BY <1>1, <1>3, <1>4 DEF Inv

LEMMA StepKeeps == Inv /\ [Next]_vars => Inv'
<1> SUFFICES ASSUME Inv, [Next]_vars PROVE Inv'
  OBVIOUS
<1>1. CASE DeployApp \/ StopApp \/ RoundEnds
  BY <1>1, DeployAppKeeps, StopAppKeeps, RoundEndsKeeps
<1>2. ASSUME NEW s \in Services, Operation(s)  PROVE Inv'
  BY <1>2, DeployKeeps, AttachKeeps, ConnectKeeps, StopKeeps, UndeployKeeps DEF Operation
<1>3. ASSUME NEW s \in Services, Thread(s) \/ RunEnds(s) \/ Breaks(s)  PROVE Inv'
  BY <1>3, EndsKeeps, DisconnectKeeps, CloseKeeps DEF Thread, Halt, RunEnds, Breaks
<1>4. ASSUME NEW s \in Services, NEW to \in SUBSET Neighbors[s], NEW aw \in BOOLEAN,
             Send(s, to, aw)
      PROVE  Inv'
  BY <1>4, SendKeeps
<1>5. ASSUME NEW s \in Services, Continue(s) \/ Recv(s) \/ Execute(s)  PROVE Inv'
  BY <1>5, ContinueKeeps, RecvKeeps, ExecuteKeeps
<1>6. ASSUME NEW m \in Messages, Engine(m) \/ Cancel(m)  PROVE Inv'
  BY <1>6, RouteFoundKeeps, NoRouteKeeps, RouteRaisesKeeps, DepartKeeps,
     HandleKeeps, ScheduleKeeps, CancelKeeps DEF Engine, Routes
<1>7. CASE UNCHANGED vars
  <2>1. UNCHANGED <<round, waiting, errors, deploys, mapping, life, running, told, awaiting,
                    inbox, queue, sent, stage, of, at, route, abandoned, gone>>
    BY <1>7 DEF vars, application, copy, message
  <2>2. TypeOK' /\ Unsent' /\ Progress' /\ Own' /\ Current'
    BY <2>1 DEF Inv, TypeOK, Unsent, Progress, Own, Current, RouteOf
  <2>3. Boxes'
    BY <2>1 DEF Inv, Boxes, Scheduled, Queued, Acknowledged, IsQueued, Once
  <2>4. QED
    BY <2>2, <2>3 DEF Inv
<1>8. QED
  BY <1>1, <1>2, <1>3, <1>4, <1>5, <1>6, <1>7 DEF Next

\* The inductive invariant: types; no messages before their request; what is
\* scheduled or queued is there once, at the right stage; how far the round has
\* brought each service; whose messages run() awaits; and what is known of the
\* messages of this deployment.
THEOREM Invariance == Spec => []Inv
BY InitIsSound, StepKeeps, PTL DEF Spec

\* The types, and _stop() joins only services whose operation is outstanding.
THEOREM TypeCorrect == Spec => []TypeOK
<1>1. Inv => TypeOK
  BY DEF Inv
<1>2. QED
  BY <1>1, Invariance, PTL

\* An acknowledged message is in the recipient's queue, or was received or went
\* with its copy, exactly once, and no other message ever is.
THEOREM AcknowledgedIsDelivered == Spec => []DeliveredOnce
<1>1. Inv => DeliveredOnce
  <2> SUFFICES ASSUME Inv, NEW m \in Messages
               PROVE  Cardinality({i \in DOMAIN queue[To(m)] : queue[To(m)][i] = m}) +
                      (IF m \in gone THEN 1 ELSE 0) = (IF stage[m] = "ok" THEN 1 ELSE 0)
    BY DEF DeliveredOnce
  <2> DEFINE q == queue[To(m)]
             places == {i \in DOMAIN q : q[i] = m}
  <2>1. To(m) \in Services /\ DOMAIN q = 1..Len(q)
    BY MessageParts, LenProperties DEF Inv, TypeOK
  <2>2. Once(q) /\ \A i \in 1..Len(q) : stage[q[i]] = "ok" /\ q[i] \notin gone
    BY <2>1 DEF Inv, Boxes, Queued
  <2>3. CASE stage[m] # "ok" \/ m \in gone
    <3>1. places = {}
      BY <2>1, <2>2, <2>3
    <3>2. m \in gone <=> stage[m] = "ok"
      BY <2>3 DEF Inv, Boxes, Acknowledged
    <3>3. Cardinality(places) = 0
      BY <3>1, FS_EmptySet
    <3>4. QED
      BY <2>3, <3>2, <3>3
  <2>4. CASE stage[m] = "ok" /\ m \notin gone
    <3>1. PICK i \in 1..Len(q) : q[i] = m
      BY <2>4 DEF Inv, Boxes, Acknowledged, IsQueued
    <3>2. places = {i}
      BY <2>1, <2>2, <3>1 DEF Once
    <3>3. Cardinality({i}) = 1
      BY FS_Singleton
    <3>4. Cardinality(places) = 1
      BY <3>2, <3>3
    <3>5. QED
      BY <2>4, <3>4
  <2>5. QED
    BY <2>3, <2>4
<1>2. QED
  BY <1>1, Invariance, PTL

\* The step of a message that belongs to the current deployment, while all of
\* the application runs, leads on or to its recipient, unless there is no route.
LEMMA UpStep ==
  ASSUME Inv, [Next]_vars, NEW m \in Messages, Up, of[m] = deploys, stage'[m] # stage[m]
  PROVE  stage'[m] \in Flying \cup {"ok"} \/ Unrouted(m)
<1>0. TypeOK /\ Current /\ From(m) \in Services /\ To(m) \in Services
  BY MessageParts DEF Inv
<1>1. /\ life[From(m)] = "running" /\ life[To(m)] = "running"
      /\ From(m) \in running /\ round = "up"
  BY <1>0 DEF Up
<1>2. ASSUME NEW k \in Messages, NEW st, stage' = [stage EXCEPT ![k] = st]  PROVE k = m /\ stage'[m] = st
  BY <1>0, <1>2 DEF TypeOK
<1>3. ASSUME NEW s \in Services, NEW to \in SUBSET Neighbors[s], NEW aw \in BOOLEAN,
             Send(s, to, aw)
      PROVE  stage'[m] = "routing"
  BY <1>3 DEF Send
<1>4. ASSUME NEW s \in Services, Execute(s)  PROVE stage'[m] = "ok"
  <2>1. inbox[s] \in Seq(Messages) /\ inbox[s] # <<>>
    BY <1>0, <1>4 DEF TypeOK, Execute
  <2>2. Head(inbox[s]) \in Messages
    BY <2>1, HeadTailProperties
  <2>3. QED
    BY <1>2, <1>4, <2>2 DEF Execute, Moves
<1>5. ASSUME NEW k \in Messages, Routes(k)  PROVE stage'[m] = "routed" \/ Unrouted(m)
  <2>1. CASE RouteFound(k)
    BY <1>2, <2>1 DEF RouteFound, Moves
  <2>2. CASE NoRoute(k)
    BY <1>1, <1>2, <2>2 DEF NoRoute, Moves, Unrouted
  <2>3. CASE RouteRaises(k)
    BY <1>2, <2>3 DEF RouteRaises, Moves, Unrouted
  <2>4. QED
    BY <1>5, <2>1, <2>2, <2>3 DEF Routes
<1>6. ASSUME NEW k \in Messages, Depart(k)  PROVE stage'[m] = "called"
  <2>1. k = m /\ HasSender(m)
    BY <1>1, <1>2, <1>6 DEF Depart, Moves, HasSender
  <2>2. QED
    BY <1>2, <1>6, <2>1 DEF Depart, Moves
<1>7. ASSUME NEW k \in Messages, Handle(k)  PROVE stage'[m] = "checked"
  <2>1. k = m
    BY <1>2, <1>7 DEF Handle, Moves
  <2>2. stage[m] \in {"called", "routed"}
    BY <1>7, <2>1 DEF Handle
  <2>3. route[m] = RouteOf(m)
    BY <1>0, <2>2 DEF Current
  <2>4. HasSender(m) /\ IsThere(m) /\ Connected(To(m))
    BY <1>1, <2>3 DEF HasSender, IsThere, Connected, RouteOf
  <2>5. QED
    BY <1>1, <1>2, <1>7, <2>1, <2>4 DEF Handle, Moves
<1>8. ASSUME NEW k \in Messages, Schedule(k)  PROVE stage'[m] = "accepted"
  <2>1. k = m /\ stage[m] = "checked"
    BY <1>2, <1>8 DEF Schedule, Moves
  <2>2. at[m] = deploys
    BY <1>0, <2>1 DEF Current
  <2>3. QED
    BY <1>1, <1>2, <1>8, <2>1, <2>2 DEF Schedule, Moves
<1>9. ASSUME NEW k \in Messages, Cancel(k)  PROVE FALSE
  <2>1. k = m /\ stage[m] # "idle" /\ m \in abandoned
    BY <1>2, <1>9 DEF Cancel, Moves
  <2>2. QED
    BY <1>0, <1>1, <2>1 DEF Current
<1>10. ASSUME stage' = stage  PROVE FALSE
  BY <1>10
<1>11. ASSUME NEW s \in Services,
              Operation(s) \/ Thread(s) \/ RunEnds(s) \/ Continue(s) \/ Breaks(s) \/ Recv(s)
       PROVE  stage' = stage
  BY <1>11 DEF Operation, Thread, Deploy, Attach, Connect, Stop, Undeploy, Halt, RunEnds, Breaks,
               Ends, Disconnect, Close, Continue, Recv, message
<1>12. ASSUME DeployApp \/ StopApp \/ RoundEnds \/ UNCHANGED vars  PROVE stage' = stage
  BY <1>12 DEF DeployApp, StopApp, RoundEnds, vars, message
<1>13. QED
  BY <1>3, <1>4, <1>5, <1>6, <1>7, <1>8, <1>9, <1>10, <1>11, <1>12 DEF Next, Engine, Flying

\* An application that is up delivers what was sent since its deployment: only
\* the search for a route between two nodes, which may find none or raise, is in
\* the way, whatever was under way before.
THEOREM UpMeansDelivery == Spec => UpDelivers
<1>1. Inv /\ [Next]_vars =>
        [\A m \in Messages :
           Up /\ of[m] = deploys /\ stage'[m] # stage[m] =>
               stage'[m] \in Flying \cup {"ok"} \/ Unrouted(m)]_vars
  BY UpStep
<1>2. QED
  BY <1>1, Invariance, PTL DEF Spec, UpDelivers
=============================================================================
