-------------------------- MODULE RemoteOpsProofs ---------------------------
(***************************************************************************)
(* What RemoteOps.tla guarantees for any placements and nodes, whatever    *)
(* operation fails and however often placements are reset: of each         *)
(* placement that was never deployed together with one clashing, also when *)
(* others clash.                                                           *)
(***************************************************************************)
EXTENDS RemoteOps, SequenceTheorems, TLAPS

CleanedUp == \A o \in Ops : <<"cleanup", o>> \notin failed

\* How far the loops have come: what enact() has visited is not both marked and
\* deployed, and what cleanup() has visited is not deployed.
Visited ==
    /\ \A p \in Placements : deployed[p] => mapping[p] # NoMapping
    /\ \A p \in Placements \ ToSet(todo) :
         /\ phase = "enact" => ~(toReset[p] /\ deployed[p])
         /\ phase = "cleanup" => ~deployed[p]
    /\ phase = "ended" /\ CleanedUp => \A p \in Placements : ~deployed[p]

\* What the rounds are about.
RoundOf ==
    /\ op \in {"deploy", "start"} => phase = "enact" /\ ~toReset[p0]
    /\ op = "deploy" => ~deployed[p0]
    /\ op \in {"start", "stop", "undeploy"} => deployed[p0]

\* Deployed placements that clash are known to.
Apart ==
    \A p, q \in Placements :
        /\ p # q /\ Share(p, q)
        /\ deployed[p] /\ (deployed[q] \/ (op = "deploy" /\ q = p0))
        => p \in clashed /\ q \in clashed

AliveRuns == \A c \in Copies : thread[c] = "alive" => c \in running

\* _running is set only for copies of placements that are marked deployed, on
\* the nodes they are mapped to, unless they clashed.
RunningIsDeployed ==
    \A p \in Clear : \A s \in ServicesOf[p], n \in Nodes :
        <<p, s, n>> \in running => deployed[p] /\ mapping[p][s] = n

StraysClashed == \A c \in strays : c[1] \in clashed

\* What a round without an error has done for the services that have answered.
RoundDone ==
    /\ op = "deploy" /\ ~errors => \A s \in ServicesOf[p0] \ waiting : Copy(s) \in registered
    /\ op = "start" => \A s \in ServicesOf[p0] : Copy(s) \in registered
    /\ op = "start" /\ ~errors => \A s \in ServicesOf[p0] \ waiting : Copy(s) \in running
    /\ op = "stop" /\ ~errors => \A s \in ServicesOf[p0] \ waiting : Entry(s) \cap running = {}
    /\ op = "undeploy" => \A s \in ServicesOf[p0] : Entry(s) \cap running = {}
    /\ op = "undeploy" /\ ~errors => \A s \in ServicesOf[p0] \ waiting : Copy(s) \notin registered

\* Unless a deployment failed, what is on a node belongs to a placement that is
\* deployed, or is being, or clashed.
NothingLeft ==
    <<"enact", "deploy">> \notin failed =>
        \A p \in Clear : \A s \in ServicesOf[p], n \in Nodes :
            <<p, s, n>> \in registered =>
                /\ mapping[p] # NoMapping
                /\ mapping[p][s] = n
                /\ deployed[p] \/ (op = "deploy" /\ p = p0)

\* Unless something failed, a deployed placement that no round is about runs.
DeployedRuns ==
    failed = {} =>
        \A p \in Clear : deployed[p] /\ (op = "none" \/ p # p0) =>
            \A s \in ServicesOf[p] : <<p, s, mapping[p][s]>> \in running

\* A deployed service is where stop and undeploy look for it, and was connected.
Found(p, s) ==
    \/ op = "undeploy" /\ p = p0 /\ s \notin waiting
    \/ /\ <<p, s, mapping[p][s]>> \in registered
       /\ \/ thread[<<p, s, mapping[p][s]>>] \in {"ready", "alive", "ended"}
          \/ op = "start" /\ p = p0 /\ s \in waiting

\* Without faults and clashes every operation is answered.
FaultFree ==
    faults = 0 /\ clashed = {} =>
        /\ serving = Nodes
        /\ op = "undeploy" => ~errors
        /\ \A p \in Placements : deployed[p] => \A s \in ServicesOf[p] : Found(p, s)

Inv ==
    /\ TypeOK
    /\ Visited
    /\ RoundOf
    /\ Apart
    /\ AliveRuns
    /\ RunningIsDeployed
    /\ StraysClashed
    /\ RoundDone
    /\ NothingLeft
    /\ DeployedRuns
    /\ FaultFree

-----------------------------------------------------------------------------
(* Placements, services and copies.                                        *)

LEMMA ServiceFacts ==
    ASSUME RemoteAssumption
    PROVE  \A p \in Placements : ServicesOf[p] \subseteq Services /\ ServicesOf[p] # {}
<1>1. \A p \in Placements : ServicesOf[p] \in Range(ServicesOf)
  BY DEF RemoteAssumption, Range
<1> QED
  BY <1>1 DEF RemoteAssumption, Services

\* The first placement of a loop and the rest.
LEMMA HeadTodo ==
    ASSUME TypeOK, todo # <<>>
    PROVE  /\ p0 \in Placements
           /\ Tail(todo) \in Seq(Placements)
           /\ ToSet(todo) = {p0} \cup ToSet(Tail(todo))
<1>1. todo \in Seq(Placements)
  BY DEF TypeOK
<1>2. /\ p0 \in Placements
      /\ Tail(todo) \in Seq(Placements)
      /\ Len(todo) \in Nat \ {0} /\ Len(Tail(todo)) = Len(todo) - 1
      /\ p0 = todo[1]
      /\ \A i \in 1..Len(Tail(todo)) : Tail(todo)[i] = todo[i + 1]
  BY <1>1, HeadTailProperties, LenProperties, EmptySeq DEF p0
<1>3. DOMAIN todo = 1..Len(todo) /\ DOMAIN Tail(todo) = 1..Len(todo) - 1
  BY <1>1, <1>2, LenProperties
<1>4. ASSUME NEW i \in 1..Len(todo), i # 1
      PROVE  todo[i] = Tail(todo)[i - 1] /\ i - 1 \in 1..Len(todo) - 1
  <2>1. i - 1 \in 1..Len(todo) - 1 /\ (i - 1) + 1 = i
    BY <1>2, <1>4
  <2> QED
    BY <1>2, <2>1
<1>5. ASSUME NEW i \in 1..Len(todo) - 1
      PROVE  Tail(todo)[i] = todo[i + 1] /\ i + 1 \in 1..Len(todo)
  BY <1>2, <1>5
<1>6. 1 \in 1..Len(todo)
  BY <1>2
<1>7. ToSet(todo) \subseteq {p0} \cup ToSet(Tail(todo))
  <2> SUFFICES ASSUME NEW i \in 1..Len(todo) PROVE todo[i] \in {p0} \cup ToSet(Tail(todo))
    BY <1>3 DEF ToSet
  <2> QED
    BY <1>2, <1>3, <1>4 DEF ToSet
<1>8. {p0} \cup ToSet(Tail(todo)) \subseteq ToSet(todo)
  BY <1>2, <1>3, <1>5, <1>6 DEF ToSet
<1> QED
  BY <1>2, <1>7, <1>8

\* The placement a round is about, and its services.
LEMMA Busy ==
    ASSUME RemoteAssumption, TypeOK, op # "none"
    PROVE  /\ todo # <<>> /\ p0 \in Placements
           /\ mapping[p0] # NoMapping /\ mapping[p0] \in [ServicesOf[p0] -> Nodes]
           /\ waiting \subseteq ServicesOf[p0]
           /\ ServicesOf[p0] \subseteq Services
           /\ phase \in {"enact", "cleanup"}
           /\ \A s \in ServicesOf[p0] : NodeOf(s) \in Nodes /\ Copy(s) \in Copies
<1>1. /\ todo # <<>> /\ mapping[p0] # NoMapping /\ waiting \subseteq ServicesOf[p0]
      /\ phase \in {"enact", "cleanup"}
  BY DEF TypeOK
<1>2. p0 \in Placements
  BY <1>1, HeadTodo
<1>3. ServicesOf[p0] \subseteq Services
  BY <1>2, ServiceFacts
<1>4. mapping[p0] \in [ServicesOf[p0] -> Nodes]
  BY <1>1, <1>2 DEF TypeOK
<1>5. \A s \in ServicesOf[p0] : NodeOf(s) \in Nodes /\ Copy(s) \in Copies
  BY <1>2, <1>3, <1>4 DEF NodeOf, Copy, Copies
<1> QED
  BY <1>1, <1>2, <1>3, <1>4, <1>5

-----------------------------------------------------------------------------
(* The operations threads.                                                 *)

\* A thread that executes an operation leaves the placements and the loop as
\* they are.
LEMMA ExecutesFrame ==
    ASSUME RemoteAssumption, Inv, NEW s \in Services, NEW o \in Ops, Executes(s, o)
    PROVE  /\ UNCHANGED <<mapping, toReset, deployed, phase, todo, op, failed, clashed, rounds>>
           /\ op = o /\ op # "none" /\ s \in waiting /\ s \in ServicesOf[p0]
           /\ p0' = p0 /\ Clear' = Clear
           /\ \A t \in ServicesOf[p0] : Copy(t)' = Copy(t)
           /\ \A t \in ServicesOf[p0] : Entry(t)' = {c \in registered' : c[2] = t /\ c[3] = NodeOf(t)}
           /\ Copy(s) \in Copies
           /\ Visited' /\ RoundOf' /\ Apart'
<1>1. /\ UNCHANGED <<mapping, toReset, deployed, phase, todo, op, failed, clashed, rounds>>
      /\ op = o /\ op # "none" /\ s \in waiting
  BY DEF Executes, placement, Ops
<1>2. p0' = p0 /\ Clear' = Clear /\ \A t \in ServicesOf[p0] : Copy(t)' = Copy(t)
  BY <1>1 DEF p0, Copy, NodeOf, Clear
<1>3. s \in ServicesOf[p0] /\ Copy(s) \in Copies
  BY <1>1, Busy DEF Inv
<1>4. Visited'
  BY <1>1 DEF Inv, Visited, CleanedUp
<1>5. RoundOf'
  BY <1>1, <1>2 DEF Inv, RoundOf
<1>6. Apart'
  BY <1>1, <1>2 DEF Inv, Apart, Share
<1>7. \A t \in ServicesOf[p0] : Entry(t)' = {c \in registered' : c[2] = t /\ c[3] = NodeOf(t)}
  BY <1>1 DEF Entry, NodeOf, p0
<1> QED
  BY <1>1, <1>2, <1>3, <1>4, <1>5, <1>6, <1>7

\* What the answer to an operation, or its absence, changes.
LEMMA Outcome ==
    ASSUME TypeOK, NEW s, NEW ok \in BOOLEAN,
           Answers(s, ok) \/ Dies(s)
    PROVE  /\ waiting' \subseteq waiting /\ waiting \ waiting' \subseteq {s}
           /\ errors' \in BOOLEAN /\ (~errors' => ~errors)
           /\ serving' \subseteq serving
           /\ ~errors' /\ s \in waiting /\ s \notin waiting' => ok
BY DEF Answers, Dies, TypeOK

\* The registry's entry for a service of the round: it is a copy of that id on
\* that node, and the round's own copy if that one is registered.
LEMMA EntryFacts ==
    ASSUME RemoteAssumption, TypeOK, op # "none", NEW s \in ServicesOf[p0], NEW c \in Entry(s)
    PROVE  /\ c \in registered /\ c \in Copies
           /\ c = <<c[1], s, NodeOf(s)>>
           /\ c[1] \in Placements /\ s \in ServicesOf[c[1]]
           /\ Copy(s) \in registered => c = Copy(s)
<1>1. c \in registered /\ c[2] = s /\ c[3] = NodeOf(s)
  BY DEF Entry
<1>2. c \in Copies
  BY <1>1 DEF TypeOK
<1>3. PICK p \in Placements, t \in Services, n \in Nodes : c = <<p, t, n>> /\ t \in ServicesOf[p]
  BY <1>2 DEF Copies
<1>4. c = <<c[1], s, NodeOf(s)>> /\ c[1] \in Placements /\ s \in ServicesOf[c[1]]
  BY <1>1, <1>3
<1>5. ASSUME Copy(s) \in registered PROVE c = Copy(s)
  <2>1. Copy(s)[2] = s /\ Copy(s)[3] = NodeOf(s)
    BY DEF Copy
  <2> QED
    BY <1>1, <1>5, <2>1 DEF TypeOK
<1> QED
  BY <1>1, <1>2, <1>4, <1>5

\* The round's own copy is the entry once it is registered.
LEMMA OwnEntry ==
    ASSUME NEW s \in ServicesOf[p0], Copy(s) \in registered
    PROVE  Copy(s) \in Entry(s)
BY DEF Copy, Entry

\* An operation that finds the entry of another deployed placement is one of two
\* that clashed.
LEMMA OthersClash ==
    ASSUME RemoteAssumption, Inv, op # "none", op = "deploy" \/ deployed[p0],
           NEW s \in ServicesOf[p0], NEW q \in Placements, q # p0, s \in ServicesOf[q],
           deployed[q], mapping[q][s] = NodeOf(s)
    PROVE  q \in clashed /\ p0 \in clashed
<1>1. p0 \in Placements
  BY Busy DEF Inv
<1>2. Share(q, p0)
  BY DEF Share, NodeOf
<1> QED
  BY <1>1, <1>2 DEF Inv, Apart

\* Hence the copies of the deployed placements that did not clash are not found,
\* but by their own operations.
LEMMA OwnCopiesOnly ==
    ASSUME RemoteAssumption, Inv, op # "none", op = "deploy" \/ deployed[p0],
           NEW s \in ServicesOf[p0],
           NEW p \in Clear, deployed[p], p # p0, NEW t \in ServicesOf[p]
    PROVE  <<p, t, mapping[p][t]>> \notin Entry(s)
<1> SUFFICES ASSUME <<p, t, mapping[p][t]>> \in Entry(s) PROVE FALSE
  OBVIOUS
<1>1. t = s /\ mapping[p][t] = NodeOf(s)
  BY DEF Entry
<1> QED
  BY <1>1, OthersClash DEF Clear

LEMMA DeployInv ==
    ASSUME RemoteAssumption, Inv, NEW s \in Services, Deploy(s)
    PROVE  Inv'
<1>0. Executes(s, "deploy") /\ "deploy" \in Ops
  BY DEF Deploy, Ops
<1>1. /\ UNCHANGED <<mapping, toReset, deployed, phase, todo, op, failed, clashed, rounds>>
      /\ op = "deploy" /\ op # "none" /\ s \in waiting /\ s \in ServicesOf[p0]
      /\ p0' = p0 /\ Clear' = Clear
      /\ \A t \in ServicesOf[p0] : Copy(t)' = Copy(t)
      /\ Copy(s) \in Copies
      /\ Visited' /\ RoundOf' /\ Apart'
  BY <1>0, ExecutesFrame
<1>2. /\ registered' = (registered \ Entry(s)) \cup {Copy(s)}
      /\ running' = running \ Entry(s)
      /\ strays' = strays \cup {c \in Entry(s) : thread[c] = "alive"}
  BY DEF Deploy, Registers
<1>3. PICK k \in {"new", "none"} : thread' = Replaced(s, k)
  BY DEF Deploy
<1>4. /\ thread' \in [Copies -> {"none", "new", "ready", "alive", "ended"}]
      /\ \A c \in Copies : c # Copy(s) /\ c \notin Entry(s) => thread'[c] = thread[c]
      /\ \A c \in Copies : c = Copy(s) \/ c \in Entry(s) => thread'[c] # "alive"
  BY <1>3 DEF Replaced, Inv, TypeOK
<1>5. PICK ok \in BOOLEAN : Answers(s, ok) \/ Dies(s)
  BY DEF Deploy
<1>6. /\ waiting' \subseteq waiting /\ waiting \ waiting' \subseteq {s}
      /\ errors' \in BOOLEAN /\ (~errors' => ~errors)
      /\ serving' \subseteq serving
  BY <1>5, Outcome DEF Inv
<1>7. /\ faults' \in 0..MaxFaults
      /\ faults' = 0 => faults = 0 /\ serving' = serving
  BY DEF Deploy, Fault, NoFault, Answers, Inv, TypeOK, RemoteAssumption
<1>8. p0 \in Placements /\ mapping[p0] # NoMapping /\ ~deployed[p0]
  BY <1>1, Busy DEF Inv, RoundOf
<1>9. \A c \in Entry(s) : c \in Copies /\ c = <<c[1], s, NodeOf(s)>>
                           /\ c[1] \in Placements /\ s \in ServicesOf[c[1]]
  BY <1>1, EntryFacts DEF Inv
<1>10. TypeOK'
  <2>1. \A c, d \in registered' : c[2] = d[2] /\ c[3] = d[3] => c = d
    <3>1. Copy(s)[2] = s /\ Copy(s)[3] = NodeOf(s)
      BY DEF Copy
    <3>2. \A c \in registered : c[2] = s /\ c[3] = NodeOf(s) => c \in Entry(s)
      BY DEF Entry
    <3> QED
      BY <1>2, <3>1, <3>2 DEF Inv, TypeOK
  <2>2. running' \subseteq registered' /\ registered' \subseteq Copies /\ strays' \subseteq Copies
    BY <1>1, <1>2, <1>9 DEF Inv, TypeOK
  <2> QED
    BY <1>1, <1>4, <1>6, <1>7, <2>1, <2>2 DEF Inv, TypeOK
<1>11. AliveRuns'
  BY <1>2, <1>4 DEF Inv, AliveRuns
<1>12. RunningIsDeployed'
  BY <1>1, <1>2 DEF Inv, RunningIsDeployed
<1>13. StraysClashed'
  <2> SUFFICES ASSUME NEW c \in Entry(s), thread[c] = "alive" PROVE c[1] \in clashed
    BY <1>1, <1>2 DEF Inv, StraysClashed
  <2>1. /\ c \in running /\ c = <<c[1], s, NodeOf(s)>>
        /\ c[1] \in Placements /\ s \in ServicesOf[c[1]] /\ NodeOf(s) \in Nodes
    BY <1>1, <1>9, Busy DEF Inv, AliveRuns
  <2>2. CASE c[1] \in Clear
    <3>1. deployed[c[1]] /\ mapping[c[1]][s] = NodeOf(s)
      BY <2>1, <2>2 DEF Inv, RunningIsDeployed
    <3>2. c[1] # p0
      BY <1>8, <3>1
    <3> QED
      BY <1>1, <2>1, <3>1, <3>2, OthersClash
  <2> QED
    BY <2>1, <2>2 DEF Clear
<1>14. RoundDone'
  <2>1. \A t \in ServicesOf[p0] : t # s => Copy(t) \notin Entry(s)
    BY DEF Entry, Copy
  <2> QED
    BY <1>1, <1>2, <1>6, <2>1 DEF Inv, RoundDone
<1>15. NothingLeft'
  BY <1>1, <1>2, <1>8 DEF Inv, NothingLeft, Copy, NodeOf
<1>16. \A p \in Clear : deployed[p] => p # p0 /\ \A t \in ServicesOf[p] :
          /\ <<p, t, mapping[p][t]>> \notin Entry(s)
          /\ <<p, t, mapping[p][t]>> # Copy(s)
  BY <1>1, <1>8, OwnCopiesOnly DEF Copy
<1>17. DeployedRuns'
  BY <1>1, <1>2, <1>16 DEF Inv, DeployedRuns
<1>18. FaultFree'
  <2> SUFFICES ASSUME faults' = 0, clashed' = {}
               PROVE  /\ serving' = Nodes
                      /\ \A p \in Placements : deployed[p] => \A t \in ServicesOf[p] : Found(p, t)'
    BY <1>1 DEF FaultFree
  <2>1. faults = 0 /\ clashed = {} /\ Clear = Placements /\ serving' = serving
    BY <1>1, <1>7 DEF Clear
  <2>2. ASSUME NEW p \in Placements, deployed[p], NEW t \in ServicesOf[p]
        PROVE  Found(p, t)'
    <3> DEFINE c == <<p, t, mapping[p][t]>>
    <3>1. Found(p, t)
      BY <2>1, <2>2 DEF Inv, FaultFree
    <3>2. c \in registered /\ thread[c] \in {"ready", "alive", "ended"}
      BY <1>1, <3>1 DEF Found
    <3>3. c \notin Entry(s) /\ c # Copy(s)
      BY <1>16, <2>1, <2>2
    <3>4. c \in Copies
      BY <3>2 DEF Inv, TypeOK
    <3>5. c \in registered' /\ thread'[c] = thread[c] /\ c = <<p, t, mapping'[p][t]>>
      BY <1>1, <1>2, <1>4, <3>2, <3>3, <3>4
    <3> QED
      BY <3>2, <3>5 DEF Found
  <2> QED
    BY <2>1, <2>2 DEF Inv, FaultFree
<1> QED
  BY <1>1, <1>10, <1>11, <1>12, <1>13, <1>14, <1>15, <1>17, <1>18 DEF Inv

LEMMA StartInv ==
    ASSUME RemoteAssumption, Inv, NEW s \in Services, Start(s)
    PROVE  Inv'
<1>0. Executes(s, "start") /\ "start" \in Ops
  BY DEF Start, Ops
<1>1. /\ UNCHANGED <<mapping, toReset, deployed, phase, todo, op, failed, clashed, rounds>>
      /\ op = "start" /\ op # "none" /\ s \in waiting /\ s \in ServicesOf[p0]
      /\ p0' = p0 /\ Clear' = Clear
      /\ \A t \in ServicesOf[p0] : Copy(t)' = Copy(t)
      /\ Copy(s) \in Copies
      /\ Visited' /\ RoundOf' /\ Apart'
  BY <1>0, ExecutesFrame
<1>2. PICK ok \in BOOLEAN, k \in {"alive", "ready"} :
        /\ Answers(s, ok) \/ Dies(s)
        /\ running' = running \/ running' = running \cup {Copy(s)}
        /\ ok \/ k = "alive" => running' = running \cup {Copy(s)}
        /\ thread' = [thread EXCEPT ![Copy(s)] = k]
        /\ UNCHANGED <<registered, strays>>
  <2>1. UNCHANGED <<registered, strays>>
    BY DEF Start
  <2>2. CASE /\ running' = running \cup {Copy(s)}
             /\ thread' = [thread EXCEPT ![Copy(s)] = "alive"]
             /\ Answers(s, TRUE) /\ NoFault
    BY <2>1, <2>2
  <2>3. CASE /\ running' = running \cup {Copy(s)}
             /\ thread' = [thread EXCEPT ![Copy(s)] = "ready"]
             /\ Answers(s, FALSE) /\ Fault
    BY <2>1, <2>3
  <2>4. CASE /\ thread' = [thread EXCEPT ![Copy(s)] = "ready"]
             /\ UNCHANGED running
             /\ Answers(s, FALSE) \/ Dies(s)
    BY <2>1, <2>4
  <2> QED
    BY <2>2, <2>3, <2>4 DEF Start
<1>3. Copy(s) \in registered
  BY <1>1 DEF Inv, RoundDone
<1>4. /\ waiting' \subseteq waiting /\ waiting \ waiting' \subseteq {s}
      /\ errors' \in BOOLEAN /\ (~errors' => ~errors)
      /\ serving' \subseteq serving
      /\ ~errors' /\ s \notin waiting' => ok
  BY <1>1, <1>2, Outcome DEF Inv
<1>5. /\ faults' \in 0..MaxFaults
      /\ faults' = 0 => faults = 0 /\ serving' = serving
  BY DEF Start, Fault, NoFault, Answers, Inv, TypeOK, RemoteAssumption
<1>6. TypeOK'
  BY <1>1, <1>2, <1>3, <1>4, <1>5 DEF Inv, TypeOK
<1>7. AliveRuns'
  BY <1>1, <1>2 DEF Inv, TypeOK, AliveRuns
<1>8. RunningIsDeployed'
  <2>1. deployed[p0]
    BY <1>1 DEF Inv, RoundOf
  <2>2. \A p \in Placements : \A t \in ServicesOf[p], n \in Nodes :
          <<p, t, n>> = Copy(s) => p = p0 /\ n = mapping[p][t]
    BY DEF Copy, NodeOf
  <2> QED
    BY <1>1, <1>2, <2>1, <2>2 DEF Inv, RunningIsDeployed, Clear
<1>9. StraysClashed'
  BY <1>1, <1>2 DEF Inv, StraysClashed
<1>10. RoundDone'
  BY <1>1, <1>2, <1>4 DEF Inv, RoundDone
<1>11. NothingLeft'
  BY <1>1, <1>2 DEF Inv, NothingLeft
<1>12. DeployedRuns'
  BY <1>1, <1>2 DEF Inv, DeployedRuns
<1>13. FaultFree'
  <2> SUFFICES ASSUME faults' = 0, clashed' = {}
               PROVE  /\ serving' = Nodes
                      /\ \A p \in Placements : deployed[p] => \A u \in ServicesOf[p] : Found(p, u)'
    BY <1>1 DEF FaultFree
  <2>1. faults = 0 /\ clashed = {} /\ serving' = serving
    BY <1>1, <1>5
  <2>2. ASSUME NEW p \in Placements, deployed[p], NEW u \in ServicesOf[p]
        PROVE  Found(p, u)'
    <3> DEFINE c == <<p, u, mapping[p][u]>>
    <3>1. c = <<p, u, mapping'[p][u]>>
      BY <1>1
    <3>2. Found(p, u)
      BY <2>1, <2>2 DEF Inv, FaultFree
    <3>3. c \in registered'
      BY <1>1, <1>2, <3>2 DEF Found
    <3>4. CASE c = Copy(s)
      <4>1. thread'[c] \in {"ready", "alive", "ended"}
        BY <1>1, <1>2, <3>4 DEF Inv, TypeOK
      <4> QED
        BY <3>1, <3>3, <4>1 DEF Found
    <3>5. CASE c # Copy(s)
      <4>1. c \in Copies
        BY <1>2, <3>3 DEF Inv, TypeOK
      <4>2. thread'[c] = thread[c]
        BY <1>2, <3>5, <4>1 DEF Inv, TypeOK
      <4>3. p = p0 => u # s
        BY <3>5 DEF Copy, NodeOf
      <4>4. p = p0 /\ u \in waiting => u \in waiting'
        BY <1>4, <4>3
      <4> QED
        BY <1>1, <3>1, <3>2, <3>3, <4>2, <4>4 DEF Found
    <3> QED
      BY <3>4, <3>5
  <2> QED
    BY <2>1, <2>2 DEF Inv, FaultFree
<1> QED
  BY <1>1, <1>6, <1>7, <1>8, <1>9, <1>10, <1>11, <1>12, <1>13 DEF Inv

LEMMA StopServiceInv ==
    ASSUME RemoteAssumption, Inv, NEW s \in Services, StopService(s)
    PROVE  Inv'
<1>0. Executes(s, "stop") /\ "stop" \in Ops
  BY DEF StopService, Ops
<1>1. /\ UNCHANGED <<mapping, toReset, deployed, phase, todo, op, failed, clashed, rounds>>
      /\ op = "stop" /\ op # "none" /\ s \in waiting /\ s \in ServicesOf[p0]
      /\ p0' = p0 /\ Clear' = Clear
      /\ \A t \in ServicesOf[p0] : Copy(t)' = Copy(t)
      /\ Copy(s) \in Copies
      /\ Visited' /\ RoundOf' /\ Apart'
  BY <1>0, ExecutesFrame
<1>2. UNCHANGED <<registered, strays, faults>> /\ deployed[p0] /\ p0 \in Placements
  BY <1>1, Busy DEF StopService, NoFault, Inv, RoundOf
<1>3. \A t \in ServicesOf[p0] : Entry(t)' = Entry(t)
  BY <1>0, <1>2, ExecutesFrame DEF Entry
<1>4. CASE Entry(s) = {} /\ Dies(s) /\ UNCHANGED <<running, thread>>
  <2>1. /\ waiting' = waiting /\ errors' = errors /\ serving' \subseteq serving
    BY <1>4, Outcome DEF Dies, Inv
  <2>2. TypeOK'
    BY <1>1, <1>2, <1>4, <2>1 DEF Inv, TypeOK
  <2>3. (AliveRuns /\ RunningIsDeployed /\ StraysClashed /\ RoundDone)'
    BY <1>1, <1>2, <1>4, <2>1, <1>3
       DEF Inv, AliveRuns, RunningIsDeployed, StraysClashed, RoundDone
  <2>4. NothingLeft' /\ DeployedRuns'
    BY <1>1, <1>2, <1>4 DEF Inv, NothingLeft, DeployedRuns
  <2>5. ~(faults = 0 /\ clashed = {})
    <3> SUFFICES ASSUME faults = 0, clashed = {} PROVE FALSE
      OBVIOUS
    <3>1. Found(p0, s)
      BY <1>1, <1>2 DEF Inv, FaultFree
    <3>2. Copy(s) \in registered
      BY <1>1, <3>1 DEF Found, Copy, NodeOf
    <3> QED
      BY <1>1, <1>4, <3>2, OwnEntry
  <2>6. FaultFree'
    BY <1>1, <1>2, <2>5 DEF FaultFree
  <2> QED
    BY <1>1, <2>2, <2>3, <2>4, <2>6 DEF Inv
<1>5. ASSUME NEW c \in Entry(s),
             running' = running \ {c},
             IF c \in running /\ thread[c] = "alive"
             THEN thread' = [thread EXCEPT ![c] = "ended"] /\ Answers(s, TRUE)
             ELSE thread' = thread /\ Answers(s, c \notin running)
      PROVE  Inv'
  <2>1. PICK ok \in BOOLEAN : Answers(s, ok)
    BY <1>5
  <2>2. /\ waiting' = waiting \ {s}
        /\ errors' \in BOOLEAN /\ (~errors' => ~errors)
        /\ serving' = serving
    BY <2>1 DEF Answers, Inv, TypeOK
  <2>3. c \in registered /\ c \in Copies /\ (Copy(s) \in registered => c = Copy(s))
    BY <1>1, EntryFacts DEF Inv
  <2>4. /\ thread' \in [Copies -> {"none", "new", "ready", "alive", "ended"}]
        /\ \A d \in Copies : thread'[d] \in {thread[d], "ended"}
        /\ thread'[c] # "alive" \/ c \notin running
    BY <1>5, <2>3 DEF Inv, TypeOK
  <2>5. TypeOK'
    BY <1>1, <1>2, <1>5, <2>2, <2>4 DEF Inv, TypeOK
  <2>6. AliveRuns'
    BY <1>5, <2>4 DEF Inv, AliveRuns
  <2>7. RunningIsDeployed' /\ StraysClashed'
    BY <1>1, <1>2, <1>5 DEF Inv, RunningIsDeployed, StraysClashed
  <2>8. RoundDone'
    <3>1. Entry(s) \subseteq {c}
      BY <1>5, <2>3 DEF Inv, TypeOK, Entry
    <3> QED
      BY <1>1, <1>5, <1>3, <2>2, <3>1 DEF Inv, RoundDone
  <2>9. NothingLeft'
    BY <1>1, <1>2 DEF Inv, NothingLeft
  <2>10. DeployedRuns'
    <3>1. \A p \in Clear : deployed[p] /\ p # p0 =>
            \A t \in ServicesOf[p] : <<p, t, mapping[p][t]>> # c
      BY <1>1, <1>2, <1>5, OwnCopiesOnly
    <3> QED
      BY <1>1, <1>5, <3>1 DEF Inv, DeployedRuns
  <2>11. FaultFree'
    <3> SUFFICES ASSUME faults' = 0, clashed' = {}
                 PROVE  /\ serving' = Nodes
                        /\ \A p \in Placements : deployed[p] => \A t \in ServicesOf[p] : Found(p, t)'
      BY <1>1 DEF FaultFree
    <3>1. ASSUME NEW p \in Placements, deployed[p], NEW t \in ServicesOf[p]
          PROVE  Found(p, t)'
      <4> DEFINE d == <<p, t, mapping[p][t]>>
      <4>1. Found(p, t)
        BY <1>1, <1>2, <3>1 DEF Inv, FaultFree
      <4>2. d \in registered /\ thread[d] \in {"ready", "alive", "ended"}
        BY <1>1, <4>1 DEF Found
      <4>3. d \in registered' /\ thread'[d] \in {"ready", "alive", "ended"}
        BY <1>2, <2>4, <4>2 DEF Inv, TypeOK
      <4>4. d = <<p, t, mapping'[p][t]>>
        BY <1>1
      <4> QED
        BY <4>3, <4>4 DEF Found
    <3> QED
      BY <1>1, <1>2, <2>2, <3>1 DEF Inv, FaultFree
  <2> QED
    BY <1>1, <2>5, <2>6, <2>7, <2>8, <2>9, <2>10, <2>11 DEF Inv
<1> QED
  BY <1>4, <1>5 DEF StopService

LEMMA UndeployInv ==
    ASSUME RemoteAssumption, Inv, NEW s \in Services, Undeploy(s)
    PROVE  Inv'
<1>0. Executes(s, "undeploy") /\ "undeploy" \in Ops
  BY DEF Undeploy, Ops
<1>1. /\ UNCHANGED <<mapping, toReset, deployed, phase, todo, op, failed, clashed, rounds>>
      /\ op = "undeploy" /\ op # "none" /\ s \in waiting /\ s \in ServicesOf[p0]
      /\ p0' = p0 /\ Clear' = Clear
      /\ \A t \in ServicesOf[p0] : Copy(t)' = Copy(t)
      /\ Copy(s) \in Copies
      /\ Visited' /\ RoundOf' /\ Apart'
  BY <1>0, ExecutesFrame
<1>2. PICK c \in Entry(s) :
        \/ UNCHANGED service /\ Fault /\ (Answers(s, FALSE) \/ Dies(s))
        \/ thread[c] \in {"none", "new"} /\ UNCHANGED service /\ NoFault /\ Dies(s)
        \/ /\ thread[c] \notin {"none", "new"}
           /\ registered' = registered \ {c}
           /\ thread' = [thread EXCEPT ![c] = "none"]
           /\ UNCHANGED <<running, strays>>
           /\ Answers(s, TRUE) /\ NoFault
  BY DEF Undeploy
<1>3. PICK ok \in BOOLEAN : Answers(s, ok) \/ Dies(s)
  BY <1>2
<1>4. /\ waiting' \subseteq waiting /\ waiting \ waiting' \subseteq {s}
      /\ errors' \in BOOLEAN /\ (~errors' => ~errors)
      /\ serving' \subseteq serving
  BY <1>3, Outcome DEF Inv
<1>5. /\ UNCHANGED <<running, strays>>
      /\ \/ UNCHANGED <<registered, thread>>
         \/ registered' = registered \ {c} /\ thread' = [thread EXCEPT ![c] = "none"]
  BY <1>2 DEF service
<1>6. /\ c \in registered /\ c \in Copies /\ c = <<c[1], s, NodeOf(s)>>
      /\ Copy(s) \in registered => c = Copy(s)
  BY <1>1, EntryFacts DEF Inv
<1>7. c \notin running
  <2>1. Entry(s) \cap running = {}
    BY <1>1 DEF Inv, RoundDone
  <2>2. c \in Entry(s)
    OBVIOUS
  <2> QED
    BY <2>1, <2>2
<1>8. faults' \in 0..MaxFaults
  <2>1. Fault \/ NoFault
    BY <1>2
  <2> QED
    BY <2>1 DEF Fault, NoFault, Inv, TypeOK, RemoteAssumption
<1>9. TypeOK'
  <2>1. running' \subseteq registered' /\ registered' \subseteq registered
    BY <1>5, <1>7 DEF Inv, TypeOK
  <2>2. thread' \in [Copies -> {"none", "new", "ready", "alive", "ended"}]
    BY <1>5 DEF Inv, TypeOK
  <2> QED
    BY <1>1, <1>4, <1>5, <1>8, <2>1, <2>2 DEF Inv, TypeOK
<1>10. AliveRuns'
  BY <1>5, <1>6 DEF Inv, TypeOK, AliveRuns
<1>11. RunningIsDeployed' /\ StraysClashed'
  BY <1>1, <1>5 DEF Inv, RunningIsDeployed, StraysClashed
<1>12. RoundDone'
  <2>1. ~errors' /\ s \notin waiting' => Copy(s) \notin registered'
    <3>1. ~errors' /\ s \notin waiting' => registered' = registered \ {c}
      BY <1>1, <1>2 DEF Answers, Dies, Inv, TypeOK
    <3> QED
      BY <1>6, <3>1
  <2>2. \A t \in ServicesOf[p0] : Entry(t)' \subseteq Entry(t)
    BY <1>0, <1>5, ExecutesFrame DEF Entry
  <2>3. registered' \subseteq registered
    BY <1>5
  <2> QED
    BY <1>1, <1>4, <1>5, <2>1, <2>2, <2>3 DEF Inv, RoundDone
<1>13. NothingLeft'
  BY <1>1, <1>5 DEF Inv, NothingLeft
<1>14. DeployedRuns'
  BY <1>1, <1>5 DEF Inv, DeployedRuns
<1>15. FaultFree'
  <2> SUFFICES ASSUME faults' = 0, clashed' = {}
               PROVE  /\ serving' = Nodes /\ ~errors'
                      /\ \A p \in Placements : deployed[p] => \A t \in ServicesOf[p] : Found(p, t)'
    BY <1>1 DEF FaultFree
  <2>1. NoFault /\ ~Fault /\ faults = 0 /\ clashed = {}
    <3>1. faults \in Nat
      BY DEF Inv, TypeOK, RemoteAssumption
    <3>2. ~Fault
      BY <3>1 DEF Fault
    <3>3. NoFault
      BY <1>2, <3>2
    <3> QED
      BY <1>1, <3>2, <3>3 DEF NoFault
  <2>2. p0 \in Placements /\ deployed[p0]
    BY <1>1, Busy DEF Inv, RoundOf
  <2>3. Found(p0, s)
    BY <1>1, <2>1, <2>2 DEF Inv, FaultFree
  <2>4. c = Copy(s) /\ thread[c] \in {"ready", "alive", "ended"}
    <3>1. Copy(s) \in registered /\ thread[Copy(s)] \in {"ready", "alive", "ended"}
      BY <1>1, <2>3 DEF Found, Copy, NodeOf
    <3> QED
      BY <1>6, <3>1
  <2>5. /\ registered' = registered \ {c} /\ thread' = [thread EXCEPT ![c] = "none"]
        /\ Answers(s, TRUE)
    BY <1>2, <2>1, <2>4
  <2>6. serving' = serving /\ errors' = errors /\ waiting' = waiting \ {s}
    BY <2>5 DEF Answers, Inv, TypeOK
  <2>7. ASSUME NEW p \in Placements, deployed[p], NEW t \in ServicesOf[p]
        PROVE  Found(p, t)'
    <3> DEFINE d == <<p, t, mapping[p][t]>>
    <3>1. CASE p = p0 /\ t \notin waiting'
      BY <1>1, <3>1 DEF Found
    <3>2. CASE ~(p = p0 /\ t \notin waiting')
      <4>1. Found(p, t) /\ ~(p = p0 /\ t \notin waiting)
        BY <2>1, <2>6, <2>7, <3>2 DEF Inv, FaultFree
      <4>2. d \in registered /\ thread[d] \in {"ready", "alive", "ended"}
        BY <1>1, <4>1 DEF Found
      <4>3. d # c
        <5>1. p = p0 => t # s
          BY <2>6, <3>2
        <5> QED
          BY <2>4, <5>1 DEF Copy
      <4>4. d \in Copies
        BY <4>2 DEF Inv, TypeOK
      <4>5. d \in registered' /\ thread'[d] = thread[d] /\ d = <<p, t, mapping'[p][t]>>
        BY <1>1, <2>5, <4>2, <4>3, <4>4 DEF Inv, TypeOK
      <4> QED
        BY <4>2, <4>5 DEF Found
    <3> QED
      BY <3>1, <3>2
  <2> QED
    BY <1>1, <2>1, <2>6, <2>7 DEF Inv, FaultFree
<1> QED
  BY <1>1, <1>9, <1>10, <1>11, <1>12, <1>13, <1>14, <1>15 DEF Inv

LEMMA ServiceEndsInv == ASSUME Inv, NEW c \in Copies, ServiceEnds(c) PROVE Inv'
<1>1. /\ UNCHANGED <<mapping, toReset, deployed, registered, running, serving, phase, todo,
                     op, waiting, errors, failed, clashed, faults, rounds>>
      /\ thread' = thread \/ (thread[c] = "alive" /\ thread' = [thread EXCEPT ![c] = "ended"])
      /\ strays' \subseteq strays
  BY DEF ServiceEnds, placement, calls
<1>2. /\ thread' \in [Copies -> {"none", "new", "ready", "alive", "ended"}]
      /\ \A d \in Copies : \/ thread'[d] = thread[d]
                           \/ thread[d] = "alive" /\ thread'[d] = "ended"
  BY <1>1 DEF Inv, TypeOK
<1>3. TypeOK'
  BY <1>1, <1>2 DEF Inv, TypeOK, p0
<1>4. AliveRuns' /\ StraysClashed'
  BY <1>1, <1>2 DEF Inv, AliveRuns, StraysClashed
<1>5. (Visited /\ RoundOf /\ RunningIsDeployed /\ RoundDone)'
  BY <1>1 DEF Inv, Visited, CleanedUp, RoundOf, RunningIsDeployed, RoundDone, p0, Entry, Copy,
              NodeOf, Clear
<1>6. (Apart /\ NothingLeft /\ DeployedRuns)'
  BY <1>1 DEF Inv, Apart, Share, NothingLeft, DeployedRuns, p0, Clear
<1>7. FaultFree'
  <2>1. ASSUME NEW p \in Placements, NEW s \in ServicesOf[p], Found(p, s) PROVE Found(p, s)'
    <3> DEFINE d == <<p, s, mapping[p][s]>>
    <3>1. d \in registered => d \in Copies
      BY DEF Inv, TypeOK
    <3>2. d = <<p, s, mapping'[p][s]>>
      BY <1>1
    <3>3. d \in registered => /\ d \in registered'
                              /\ thread[d] \in {"ready", "alive", "ended"} =>
                                   thread'[d] \in {"ready", "alive", "ended"}
      BY <1>1, <1>2, <3>1
    <3> QED
      BY <1>1, <2>1, <3>2, <3>3 DEF Found, p0
  <2> QED
    BY <1>1, <2>1 DEF Inv, FaultFree
<1> QED
  BY <1>3, <1>4, <1>5, <1>6, <1>7 DEF Inv

-----------------------------------------------------------------------------
(* The simulation.                                                         *)

LEMMA InitInv == ASSUME RemoteAssumption, Init PROVE Inv
<1>1. TypeOK
  <2>1. todo \in Seq(Placements)
    BY DEF Init
  <2>2. \A p \in Placements : mapping[p] \in [ServicesOf[p] -> Nodes] \cup {NoMapping}
    BY DEF Init
  <2>3. faults \in 0..MaxFaults /\ rounds \in 0..MaxRounds
    BY DEF Init, RemoteAssumption
  <2> QED
    BY <2>1, <2>2, <2>3 DEF Init, TypeOK
<1>2. AliveRuns /\ RunningIsDeployed /\ StraysClashed /\ NothingLeft
  BY DEF Init, AliveRuns, RunningIsDeployed, StraysClashed, NothingLeft
<1>3. Apart /\ FaultFree
  <2>1. (\A p \in Placements : ~deployed[p]) /\ serving = Nodes /\ op = "none"
    BY DEF Init
  <2> QED
    BY <2>1 DEF Apart, FaultFree
<1>4. Visited /\ RoundOf /\ RoundDone /\ DeployedRuns
  <2>1. /\ \A p \in Placements : ~deployed[p] /\ ~toReset[p]
        /\ op = "none" /\ phase = "idle"
    BY DEF Init
  <2> QED
    BY <2>1 DEF Visited, RoundOf, RoundDone, DeployedRuns, Clear
<1> QED
  BY <1>1, <1>2, <1>3, <1>4 DEF Inv

LEMMA ShareIsSymmetric == ASSUME NEW p, NEW q PROVE Share(p, q) <=> Share(q, p)
BY DEF Share

\* Between two events no round is under way.
LEMMA IdleIsQuiet == ASSUME TypeOK, phase \notin {"enact", "cleanup"} PROVE op = "none"
BY DEF TypeOK

LEMMA AuditInv == ASSUME RemoteAssumption, Inv, Audit PROVE Inv'
<1>1. /\ phase = "idle" /\ phase' = "enact" /\ todo' = Order
      /\ rounds' = rounds + 1 /\ rounds < MaxRounds
      /\ UNCHANGED <<deployed, registered, running, thread, strays, serving, op, waiting, errors,
                     failed, clashed, faults>>
  BY DEF Audit, service, calls
<1>2. op = "none"
  BY <1>1, IdleIsQuiet DEF Inv
<1>3. \A p \in Placements :
        mapping'[p] \in IF mapping[p] # NoMapping THEN {mapping[p]}
                        ELSE [ServicesOf[p] -> Nodes] \cup {NoMapping}
  BY DEF Audit
<1>4. toReset' \in [Placements -> BOOLEAN]
  BY DEF Audit
<1>5. \A p \in Placements : mapping[p] # NoMapping => mapping'[p] = mapping[p]
  BY <1>3
<1>6. \A p \in Placements : deployed[p] => mapping'[p] = mapping[p]
  BY <1>5 DEF Inv, Visited
<1>7. TypeOK'
  <2>1. \A p \in Placements : mapping'[p] \in [ServicesOf[p] -> Nodes] \cup {NoMapping}
    BY <1>3 DEF Inv, TypeOK
  <2> QED
    BY <1>1, <1>2, <1>4, <2>1 DEF Inv, TypeOK, RemoteAssumption
<1>8. Visited'
  BY <1>1, <1>6 DEF Inv, Visited, Placements
<1>9. (RoundOf /\ AliveRuns /\ RoundDone)'
  BY <1>1, <1>2 DEF Inv, RoundOf, AliveRuns, RoundDone
<1>10. (RunningIsDeployed /\ StraysClashed /\ NothingLeft)'
  BY <1>1, <1>2, <1>5, <1>6 DEF Inv, RunningIsDeployed, StraysClashed, NothingLeft, Clear
<1>11. Apart'
  BY <1>1, <1>2, <1>6 DEF Inv, Apart, Share
<1>12. (DeployedRuns /\ FaultFree)'
  BY <1>1, <1>2, <1>6 DEF Inv, DeployedRuns, FaultFree, Found, Clear
<1> QED
  BY <1>7, <1>8, <1>9, <1>10, <1>11, <1>12 DEF Inv

LEMMA StopInv == ASSUME RemoteAssumption, Inv, Stop PROVE Inv'
<1>1. /\ phase = "idle" /\ phase' = "cleanup" /\ todo' = Order
      /\ UNCHANGED <<mapping, toReset, deployed, registered, running, thread, strays, serving, op,
                     waiting, errors, failed, clashed, faults, rounds>>
  BY DEF Stop, placement, service, calls
<1>2. op = "none"
  BY <1>1, IdleIsQuiet DEF Inv
<1>3. TypeOK'
  BY <1>1, <1>2 DEF Inv, TypeOK, RemoteAssumption
<1>4. Visited'
  BY <1>1 DEF Inv, Visited, Placements
<1>5. (RoundOf /\ AliveRuns /\ RunningIsDeployed /\ StraysClashed /\ RoundDone)'
  BY <1>1, <1>2 DEF Inv, RoundOf, AliveRuns, RunningIsDeployed, StraysClashed, RoundDone, Clear
<1>6. (Apart /\ NothingLeft /\ DeployedRuns /\ FaultFree)'
  BY <1>1, <1>2 DEF Inv, Apart, Share, NothingLeft, DeployedRuns, FaultFree, Found, Clear
<1> QED
  BY <1>3, <1>4, <1>5, <1>6 DEF Inv

\* A loop calls the first operation for a placement.
LEMMA CallInv ==
    ASSUME RemoteAssumption, Inv, phase \in {"enact", "cleanup"}, todo # <<>>, op = "none",
           NEW o \in Ops, Call(o),
           \/ o = "stop" /\ StopsNow(p0) /\ UNCHANGED clashed
           \/ /\ o = "deploy" /\ DeploysNow(p0)
              /\ clashed' = clashed \cup ClashWith(p0) \cup {p \in {p0} : ClashWith(p0) # {}}
    PROVE  Inv'
<1>1. /\ op' = o /\ waiting' = ServicesOf[p0] /\ errors' = FALSE
      /\ UNCHANGED <<mapping, toReset, deployed, registered, running, thread, strays, serving, phase,
                     todo, failed, faults, rounds>>
  BY DEF Call, placement, service
<1>2. p0' = p0 /\ p0 \in Placements
  BY <1>1, HeadTodo DEF Inv, p0
<1>3. mapping[p0] # NoMapping
  BY <1>2 DEF StopsNow, DeploysNow, Inv, Visited
<1>4. clashed \subseteq clashed' /\ clashed' \subseteq Placements /\ Clear' \subseteq Clear
  <2>1. ClashWith(p0) \cup {p0} \subseteq Placements
    BY <1>2 DEF ClashWith
  <2> QED
    BY <2>1 DEF Inv, TypeOK, Clear
<1>5. TypeOK'
  BY <1>1, <1>2, <1>3, <1>4 DEF Inv, TypeOK
<1>6. (Visited /\ AliveRuns /\ RunningIsDeployed /\ StraysClashed)'
  BY <1>1, <1>4 DEF Inv, Visited, CleanedUp, AliveRuns, RunningIsDeployed, StraysClashed
<1>7. Apart'
  <2>1. \A p, q : Share(p, q)' <=> Share(p, q)
    BY <1>1 DEF Share
  <2>2. ASSUME NEW p \in Placements, NEW q \in Placements, p # q, Share(p, q), deployed[p], deployed[q]
        PROVE  p \in clashed' /\ q \in clashed'
    BY <1>4, <2>2 DEF Inv, Apart
  <2>3. ASSUME NEW p \in Placements, p # p0, Share(p, p0), deployed[p], op' = "deploy"
        PROVE  p \in clashed' /\ p0 \in clashed'
    <3>1. p \in ClashWith(p0)
      BY <2>3, ShareIsSymmetric DEF ClashWith
    <3> QED
      BY <1>1, <2>3, <3>1
  <2> QED
    BY <1>1, <1>2, <2>1, <2>2, <2>3 DEF Apart
<1>8. RoundOf'
  BY <1>1, <1>2 DEF RoundOf, StopsNow, DeploysNow
<1>9. RoundDone'
  BY <1>1, <1>2 DEF RoundDone
<1>10. NothingLeft' /\ DeployedRuns'
  BY <1>1, <1>2, <1>4 DEF Inv, NothingLeft, DeployedRuns
<1>11. FaultFree'
  <2>1. clashed' = {} => clashed = {}
    BY <1>4
  <2> QED
    BY <1>1, <1>2, <2>1 DEF Inv, FaultFree, Found, Ops
<1> QED
  BY <1>5, <1>6, <1>7, <1>8, <1>9, <1>10, <1>11 DEF Inv

\* A loop has done with its first placement.
LEMMA VisitedMore ==
    ASSUME Inv, todo # <<>>, todo' = Tail(todo),
           UNCHANGED <<mapping, toReset, phase, failed>>,
           \A p \in Placements \ {p0} : deployed'[p] = deployed[p],
           deployed'[p0] => mapping[p0] # NoMapping,
           phase = "enact" => ~(toReset[p0] /\ deployed'[p0]),
           phase = "cleanup" => ~deployed'[p0],
           phase \in {"enact", "cleanup"}
    PROVE  Visited'
<1>1. ToSet(todo) = {p0} \cup ToSet(Tail(todo))
  BY HeadTodo DEF Inv
<1>2. \A p \in Placements : deployed'[p] => mapping'[p] # NoMapping
  BY DEF Inv, Visited
<1>3. ASSUME NEW p \in Placements \ ToSet(todo')
      PROVE  /\ phase' = "enact" => ~(toReset'[p] /\ deployed'[p])
             /\ phase' = "cleanup" => ~deployed'[p]
  <2>1. CASE p = p0
    BY <2>1
  <2>2. CASE p # p0
    BY <1>1, <1>3, <2>2 DEF Inv, Visited
  <2> QED
    BY <2>1, <2>2
<1> QED
  BY <1>2, <1>3 DEF Visited

LEMMA VisitInv == ASSUME RemoteAssumption, Inv, Visit PROVE Inv'
<1>1. phase \in {"enact", "cleanup"} /\ todo # <<>> /\ op = "none"
  BY DEF Visit
<1>2. CASE StopsNow(p0) /\ Call("stop") /\ UNCHANGED clashed
  BY <1>1, <1>2, CallInv DEF Ops
<1>3. CASE /\ DeploysNow(p0)
           /\ Call("deploy")
           /\ clashed' = clashed \cup ClashWith(p0) \cup {p \in {p0} : ClashWith(p0) # {}}
  BY <1>1, <1>3, CallInv DEF Ops
<1>4. CASE /\ ~StopsNow(p0) /\ ~DeploysNow(p0)
           /\ todo' = Tail(todo)
           /\ UNCHANGED <<placement, service, serving, phase, calls, failed, clashed, faults, rounds>>
  <2>1. /\ UNCHANGED <<mapping, toReset, deployed, registered, running, thread, strays, serving,
                       phase, op, waiting, errors, failed, clashed, faults, rounds>>
        /\ todo' = Tail(todo)
    BY <1>4 DEF placement, service, calls
  <2>2. p0 \in Placements /\ Tail(todo) \in Seq(Placements)
    BY <1>1, HeadTodo DEF Inv
  <2>3. TypeOK'
    BY <1>1, <2>1, <2>2 DEF Inv, TypeOK
  <2>4. Visited'
    BY <1>1, <1>4, <2>1, <2>2, VisitedMore DEF StopsNow, Inv, Visited
  <2>5. (RoundOf /\ AliveRuns /\ RunningIsDeployed /\ StraysClashed /\ RoundDone)'
    BY <1>1, <2>1 DEF Inv, RoundOf, AliveRuns, RunningIsDeployed, StraysClashed, RoundDone, Clear
  <2>6. (Apart /\ NothingLeft /\ DeployedRuns /\ FaultFree)'
    BY <1>1, <2>1 DEF Inv, Apart, Share, NothingLeft, DeployedRuns, FaultFree, Found, Clear
  <2> QED
    BY <2>3, <2>4, <2>5, <2>6 DEF Inv
<1> QED
  BY <1>2, <1>3, <1>4 DEF Visit

\* Every service has answered deploy: start is called.
LEMMA DeployedInv == ASSUME RemoteAssumption, Inv, Gathered, op = "deploy" PROVE Inv'
<1>1. /\ waiting = {} /\ ~errors
      /\ deployed' = [deployed EXCEPT ![p0] = TRUE]
      /\ op' = "start" /\ waiting' = ServicesOf[p0]
      /\ UNCHANGED <<mapping, toReset, registered, running, thread, strays, serving, phase, todo,
                     errors, failed, clashed, faults, rounds>>
  BY DEF Gathered, Marked, service
<1>2. p0' = p0 /\ \A t \in ServicesOf[p0] : Copy(t)' = Copy(t)
  BY <1>1 DEF p0, Copy, NodeOf
<1>3. p0 \in Placements /\ todo # <<>> /\ mapping[p0] # NoMapping
      /\ phase = "enact" /\ ~toReset[p0]
  BY Busy DEF Inv, RoundOf
<1>4. /\ deployed'[p0]
      /\ \A p \in Placements \ {p0} : deployed'[p] = deployed[p]
  BY <1>1, <1>3 DEF Inv, TypeOK
<1>5. \A s \in ServicesOf[p0] : Copy(s) \in registered
  BY <1>1 DEF Inv, RoundDone
<1>6. TypeOK'
  BY <1>1, <1>2, <1>3 DEF Inv, TypeOK, Ops
<1>7. Visited'
  BY <1>1, <1>3, <1>4 DEF Inv, Visited
<1>8. RoundOf'
  BY <1>1, <1>2, <1>3, <1>4 DEF RoundOf
<1>9. RoundDone'
  BY <1>1, <1>2, <1>5 DEF RoundDone
<1>10. AliveRuns' /\ RunningIsDeployed' /\ StraysClashed'
  BY <1>1, <1>4 DEF Inv, AliveRuns, RunningIsDeployed, StraysClashed, Clear
<1>11. NothingLeft' /\ DeployedRuns'
  BY <1>1, <1>2, <1>4 DEF Inv, NothingLeft, DeployedRuns, Clear
<1>12. FaultFree'
  BY <1>1, <1>2, <1>4, <1>5 DEF Inv, FaultFree, Found, Copy, NodeOf
<1>13. Apart'
  <2>1. \A p, q : Share(p, q)' <=> Share(p, q)
    BY <1>1 DEF Share
  <2>2. ASSUME NEW p \in Placements, p # p0, Share(p, p0), deployed[p]
        PROVE  p \in clashed /\ p0 \in clashed
    BY <1>3, <2>2 DEF Inv, Apart
  <2> QED
    BY <1>1, <1>3, <1>4, <2>1, <2>2, ShareIsSymmetric DEF Inv, Apart
<1> QED
  BY <1>6, <1>7, <1>8, <1>9, <1>10, <1>11, <1>12, <1>13 DEF Inv

\* Every service has answered start: on to the next placement.
LEMMA StartedInv == ASSUME RemoteAssumption, Inv, Gathered, op = "start" PROVE Inv'
<1>1. /\ waiting = {} /\ ~errors
      /\ deployed' = [deployed EXCEPT ![p0] = deployed[p0]]
      /\ op' = "none" /\ waiting' = {} /\ todo' = Tail(todo)
      /\ UNCHANGED <<mapping, toReset, registered, running, thread, strays, serving, phase,
                     errors, failed, clashed, faults, rounds>>
  BY DEF Gathered, Marked, service
<1>2. p0 \in Placements /\ todo # <<>> /\ mapping[p0] # NoMapping
      /\ phase = "enact" /\ ~toReset[p0] /\ deployed[p0]
  BY Busy DEF Inv, RoundOf
<1>3. deployed' = deployed
  BY <1>1 DEF Inv, TypeOK
<1>4. \A s \in ServicesOf[p0] : <<p0, s, mapping[p0][s]>> \in running
  BY <1>1 DEF Inv, RoundDone, Copy, NodeOf
<1>5. Tail(todo) \in Seq(Placements)
  BY <1>2, HeadTodo DEF Inv
<1>6. TypeOK'
  BY <1>1, <1>2, <1>3, <1>5 DEF Inv, TypeOK
<1>7. Visited'
  BY <1>1, <1>2, <1>3, VisitedMore
<1>8. (RoundOf /\ Apart /\ RoundDone /\ AliveRuns /\ RunningIsDeployed /\ StraysClashed)'
  BY <1>1, <1>3 DEF Inv, RoundOf, Apart, Share, RoundDone, AliveRuns, RunningIsDeployed,
                        StraysClashed, Clear
<1>9. NothingLeft' /\ DeployedRuns'
  BY <1>1, <1>2, <1>3, <1>4 DEF Inv, NothingLeft, DeployedRuns, Clear
<1>10. FaultFree'
  BY <1>1, <1>2, <1>3 DEF Inv, FaultFree, Found
<1> QED
  BY <1>6, <1>7, <1>8, <1>9, <1>10 DEF Inv

\* Every service has answered stop: undeploy is called.
LEMMA StoppedInv == ASSUME RemoteAssumption, Inv, Gathered, op = "stop" PROVE Inv'
<1>1. /\ waiting = {} /\ ~errors
      /\ deployed' = [deployed EXCEPT ![p0] = deployed[p0]]
      /\ op' = "undeploy" /\ waiting' = ServicesOf[p0]
      /\ UNCHANGED <<mapping, toReset, registered, running, thread, strays, serving, phase, todo,
                     errors, failed, clashed, faults, rounds>>
  BY DEF Gathered, Marked, service
<1>2. p0' = p0 /\ \A t \in ServicesOf[p0] : Copy(t)' = Copy(t)
  BY <1>1 DEF p0, Copy, NodeOf
<1>3. p0 \in Placements /\ todo # <<>> /\ mapping[p0] # NoMapping /\ deployed[p0]
  BY Busy DEF Inv, RoundOf
<1>4. deployed' = deployed
  BY <1>1 DEF Inv, TypeOK
<1>5. \A s \in ServicesOf[p0] : Entry(s)' \cap running' = {}
  <2>1. \A s \in ServicesOf[p0] : Entry(s)' = Entry(s)
    BY <1>1, <1>2 DEF Entry, NodeOf
  <2> QED
    BY <1>1, <2>1 DEF Inv, RoundDone
<1>6. TypeOK'
  BY <1>1, <1>2, <1>3, <1>4 DEF Inv, TypeOK, Ops
<1>7. Visited'
  BY <1>1, <1>4 DEF Inv, Visited, CleanedUp
<1>8. RoundOf' /\ RoundDone'
  BY <1>1, <1>2, <1>3, <1>4, <1>5 DEF RoundOf, RoundDone
<1>9. (Apart /\ AliveRuns /\ RunningIsDeployed /\ StraysClashed)'
  BY <1>1, <1>4 DEF Inv, Apart, Share, AliveRuns, RunningIsDeployed, StraysClashed, Clear
<1>10. NothingLeft' /\ DeployedRuns'
  BY <1>1, <1>2, <1>4 DEF Inv, NothingLeft, DeployedRuns, Clear
<1>11. FaultFree'
  BY <1>1, <1>2, <1>4 DEF Inv, FaultFree, Found
<1> QED
  BY <1>6, <1>7, <1>8, <1>9, <1>10, <1>11 DEF Inv

\* Every service has answered undeploy: the placement is not deployed any more.
LEMMA UndeployedInv == ASSUME RemoteAssumption, Inv, Gathered, op = "undeploy" PROVE Inv'
<1>1. /\ waiting = {} /\ ~errors
      /\ deployed' = [deployed EXCEPT ![p0] = FALSE]
      /\ op' = "none" /\ waiting' = {} /\ todo' = Tail(todo)
      /\ UNCHANGED <<mapping, toReset, registered, running, thread, strays, serving, phase,
                     errors, failed, clashed, faults, rounds>>
  BY DEF Gathered, Marked, service
<1>2. p0 \in Placements /\ todo # <<>> /\ phase \in {"enact", "cleanup"}
  BY Busy DEF Inv
<1>3. /\ ~deployed'[p0]
      /\ \A p \in Placements \ {p0} : deployed'[p] = deployed[p]
  BY <1>1, <1>2 DEF Inv, TypeOK
<1>4. \A s \in ServicesOf[p0] :
        <<p0, s, mapping[p0][s]>> \notin running /\ <<p0, s, mapping[p0][s]>> \notin registered
  <2>1. \A s \in ServicesOf[p0] : Copy(s) \notin registered
    BY <1>1 DEF Inv, RoundDone
  <2> QED
    BY <2>1 DEF Inv, TypeOK, Copy, NodeOf
<1>5. Tail(todo) \in Seq(Placements)
  BY <1>2, HeadTodo DEF Inv
<1>6. TypeOK'
  BY <1>1, <1>2, <1>5 DEF Inv, TypeOK
<1>7. Visited'
  BY <1>1, <1>2, <1>3, VisitedMore
<1>8. (RoundOf /\ RoundDone /\ AliveRuns /\ StraysClashed)'
  BY <1>1 DEF Inv, RoundOf, RoundDone, AliveRuns, StraysClashed
<1>9. RunningIsDeployed'
  BY <1>1, <1>3, <1>4 DEF Inv, RunningIsDeployed, Clear
<1>10. NothingLeft'
  BY <1>1, <1>3, <1>4 DEF Inv, NothingLeft, Clear
<1>11. DeployedRuns'
  BY <1>1, <1>3 DEF Inv, DeployedRuns, Clear
<1>12. FaultFree'
  BY <1>1, <1>3 DEF Inv, FaultFree, Found
<1>13. Apart'
  BY <1>1, <1>3 DEF Inv, Apart, Share
<1> QED
  BY <1>6, <1>7, <1>8, <1>9, <1>10, <1>11, <1>12, <1>13 DEF Inv

LEMMA GatherRaisesInv == ASSUME RemoteAssumption, Inv, GatherRaises PROVE Inv'
<1>1. /\ op # "none" /\ op' = "none" /\ errors' = FALSE /\ errors /\ waiting = {}
      /\ failed' = failed \cup {<<phase, op>>}
      /\ phase' = IF phase = "enact" THEN "idle" ELSE "ended"
      /\ todo' = <<>>
      /\ UNCHANGED <<mapping, toReset, deployed, registered, running, thread, strays, serving,
                     waiting, clashed, faults, rounds>>
  BY DEF GatherRaises, placement, service
<1>2. phase \in {"enact", "cleanup"} /\ op \in Ops
  BY <1>1 DEF Inv, TypeOK
<1>3. TypeOK'
  <2>1. failed' \subseteq {"enact", "cleanup"} \X Ops
    BY <1>1, <1>2 DEF Inv, TypeOK
  <2>2. todo' \in Seq(Placements)
    BY <1>1
  <2>3. phase' \in {"idle", "ended"}
    BY <1>1
  <2> QED
    BY <1>1, <2>1, <2>2, <2>3 DEF Inv, TypeOK
<1>4. Visited'
  <2>1. phase = "cleanup" => ~CleanedUp'
    BY <1>1, <1>2 DEF CleanedUp
  <2> QED
    BY <1>1, <1>2, <2>1 DEF Inv, Visited
<1>5. (RoundOf /\ Apart /\ RoundDone /\ AliveRuns /\ RunningIsDeployed /\ StraysClashed)'
  BY <1>1 DEF Inv, RoundOf, Apart, Share, RoundDone, AliveRuns, RunningIsDeployed, StraysClashed, Clear
<1>6. NothingLeft'
  <2>1. op = "deploy" => <<"enact", "deploy">> \in failed'
    BY <1>1 DEF Inv, RoundOf
  <2> QED
    BY <1>1, <2>1 DEF Inv, NothingLeft, Clear
<1>7. DeployedRuns'
  BY <1>1 DEF DeployedRuns
<1>8. FaultFree'
  BY <1>1 DEF Inv, FaultFree, Found
<1> QED
  BY <1>3, <1>4, <1>5, <1>6, <1>7, <1>8 DEF Inv

LEMMA LoopEndsInv == ASSUME RemoteAssumption, Inv, LoopEnds PROVE Inv'
<1>1. /\ phase \in {"enact", "cleanup"} /\ todo = <<>>
      /\ phase' = IF phase = "enact" THEN "idle" ELSE "ended"
      /\ UNCHANGED <<deployed, registered, running, thread, strays, serving, todo, op, waiting, errors,
                     failed, clashed, faults, rounds>>
      /\ \/ phase = "cleanup" /\ UNCHANGED <<mapping, toReset>>
         \/ /\ phase = "enact"
            /\ mapping' = [p \in Placements |-> IF toReset[p] THEN NoMapping ELSE mapping[p]]
            /\ toReset' = [p \in Placements |-> FALSE]
  BY DEF LoopEnds, service, calls
<1>2. op = "none"
  BY <1>1 DEF Inv, TypeOK
<1>3. ToSet(todo) = {}
  BY <1>1 DEF ToSet
<1>4. \A p \in Placements : deployed[p] => mapping'[p] = mapping[p]
  BY <1>1, <1>3 DEF Inv, Visited
<1>5. TypeOK'
  BY <1>1, <1>2 DEF Inv, TypeOK
<1>6. Visited'
  BY <1>1, <1>3, <1>4 DEF Inv, Visited, CleanedUp
<1>7. (RoundOf /\ RoundDone /\ AliveRuns /\ StraysClashed)'
  BY <1>1, <1>2 DEF Inv, RoundOf, RoundDone, AliveRuns, StraysClashed
<1>8. (RunningIsDeployed /\ NothingLeft)'
  BY <1>1, <1>2, <1>4 DEF Inv, RunningIsDeployed, NothingLeft, Clear
<1>9. (DeployedRuns /\ FaultFree)'
  BY <1>1, <1>2, <1>4 DEF Inv, DeployedRuns, FaultFree, Found, Clear
<1>10. Apart'
  BY <1>1, <1>2, <1>4 DEF Inv, Apart, Share
<1> QED
  BY <1>5, <1>6, <1>7, <1>8, <1>9, <1>10 DEF Inv

LEMMA StutterInv == ASSUME Inv, UNCHANGED vars PROVE Inv'
<1>1. UNCHANGED <<mapping, toReset, deployed, registered, running, thread, strays, serving, phase,
                  todo, op, waiting, errors, failed, clashed, faults, rounds>>
  BY DEF vars, placement, service, calls
<1>2. (TypeOK /\ Visited /\ RoundOf /\ Apart /\ AliveRuns /\ RunningIsDeployed /\ StraysClashed)'
  BY <1>1 DEF Inv, TypeOK, Visited, CleanedUp, RoundOf, Apart, Share, AliveRuns,
              RunningIsDeployed, StraysClashed, p0, Clear
<1>3. (RoundDone /\ NothingLeft /\ DeployedRuns /\ FaultFree)'
  BY <1>1 DEF Inv, RoundDone, NothingLeft, DeployedRuns, FaultFree, Found, Entry, Copy, NodeOf, p0, Clear
<1> QED
  BY <1>2, <1>3 DEF Inv

-----------------------------------------------------------------------------
(* The theorems.                                                           *)

\* The invariant the others follow from: where the loops are, what the rounds
\* have done, and which services that leaves on the nodes.
THEOREM Invariance == Spec => []Inv
<1>1. Init => Inv
  BY RemoteAssumption, InitInv
<1>2. Inv /\ [Next]_vars => Inv'
  <2> SUFFICES ASSUME Inv, [Next]_vars PROVE Inv'
    OBVIOUS
  <2>1. CASE Audit
    BY <2>1, RemoteAssumption, AuditInv
  <2>2. CASE Stop
    BY <2>2, RemoteAssumption, StopInv
  <2>3. CASE Visit
    BY <2>3, RemoteAssumption, VisitInv
  <2>4. CASE Gathered
    <3>1. op \in Ops
      BY <2>4 DEF Gathered, Inv, TypeOK
    <3> QED
      BY <2>4, <3>1, RemoteAssumption, DeployedInv, StartedInv, StoppedInv, UndeployedInv DEF Ops
  <2>5. CASE GatherRaises
    BY <2>5, RemoteAssumption, GatherRaisesInv
  <2>6. CASE LoopEnds
    BY <2>6, RemoteAssumption, LoopEndsInv
  <2>7. ASSUME NEW s \in Services, Deploy(s) \/ Start(s) \/ StopService(s) \/ Undeploy(s)
        PROVE  Inv'
    BY <2>7, RemoteAssumption, DeployInv, StartInv, StopServiceInv, UndeployInv
  <2>8. ASSUME NEW c \in Copies, ServiceEnds(c) PROVE Inv'
    BY <2>8, ServiceEndsInv
  <2>9. CASE UNCHANGED vars
    BY <2>9, StutterInv
  <2> QED
    BY <2>1, <2>2, <2>3, <2>4, <2>5, <2>6, <2>7, <2>8, <2>9 DEF Next
<1> QED
  BY <1>1, <1>2, PTL DEF Spec

\* The variables keep their types: a round is always about a placement with a
\* mapping, and a node has one service of an id.
THEOREM TypeCorrect == Spec => []TypeOK
<1>1. Inv => TypeOK
  BY DEF Inv
<1> QED
  BY <1>1, Invariance, PTL

\* Whatever fails, a live service of a placement that never clashed is one
\* cleanup() will look for, on its node; and only those that clashed leave copies
\* behind that are in no registry.
THEOREM LiveServicesAreKnown == Spec => []AliveIsDeployed
<1>1. Inv => AliveIsDeployed
  <2> SUFFICES ASSUME Inv, NEW p \in Clear, NEW s \in ServicesOf[p], NEW n \in Nodes,
                      thread[<<p, s, n>>] = "alive"
               PROVE  /\ deployed[p] /\ mapping[p] # NoMapping /\ mapping[p][s] = n
                      /\ <<p, s, n>> \in registered
    BY DEF AliveIsDeployed, Inv, StraysClashed
  <2>1. p \in Placements /\ <<p, s, n>> \in Copies
    BY RemoteAssumption, ServiceFacts DEF Copies, Clear
  <2>2. <<p, s, n>> \in running
    BY <2>1 DEF Inv, AliveRuns
  <2> QED
    BY <2>1, <2>2 DEF Inv, RunningIsDeployed, TypeOK, Visited
<1> QED
  BY <1>1, Invariance, PTL

\* Until something fails, the simulator's bookkeeping of a placement that never
\* clashed is what the nodes run.
THEOREM BookkeepingIsExact == Spec => []BooksAgree
<1>1. Inv => BooksAgree
  <2> SUFFICES ASSUME Inv, phase = "idle", failed = {}, NEW p \in Clear
               PROVE  LET mine == {c \in registered : c[1] = p}
                      IN  /\ mine \subseteq running
                          /\ mine = IF deployed[p] /\ mapping[p] # NoMapping
                                    THEN {<<p, s, mapping[p][s]>> : s \in ServicesOf[p]}
                                    ELSE {}
    BY DEF BooksAgree
  <2> DEFINE mine == {c \in registered : c[1] = p}
             live == {<<p, s, mapping[p][s]>> : s \in ServicesOf[p]}
  <2>1. op = "none" /\ running \subseteq registered /\ registered \subseteq Copies /\ p \in Placements
    BY DEF Inv, TypeOK, Clear
  <2>2. deployed[p] => live \subseteq running /\ mapping[p] # NoMapping
    BY <2>1 DEF Inv, DeployedRuns, Visited
  <2>3. ASSUME NEW c \in mine PROVE deployed[p] /\ c \in live
    <3>1. PICK s \in ServicesOf[p], n \in Nodes : c = <<p, s, n>>
      BY <2>1 DEF Copies
    <3>2. mapping[p][s] = n /\ deployed[p]
      BY <2>1, <3>1 DEF Inv, NothingLeft
    <3> QED
      BY <3>1, <3>2
  <2>4. \A c \in live : c[1] = p
    OBVIOUS
  <2> QED
    BY <2>1, <2>2, <2>3, <2>4
<1> QED
  BY <1>1, Invariance, PTL

\* A cleanup() without errors leaves no live service of a placement that never
\* clashed, and nothing of it on the nodes but what a failed deployment has put
\* there.
THEOREM CleanupIsComplete == Spec => []CleanEnd
<1>1. Inv => CleanEnd
  <2> SUFFICES ASSUME Inv, phase = "ended", CleanedUp, NEW p \in Clear
               PROVE  /\ \A c \in Copies : c[1] = p => thread[c] # "alive" /\ c \notin strays
                      /\ <<"enact", "deploy">> \notin failed => \A c \in registered : c[1] # p
    BY DEF CleanEnd, CleanedUp
  <2>1. op = "none" /\ registered \subseteq Copies /\ p \in Placements /\ ~deployed[p]
    BY DEF Inv, TypeOK, Visited, Clear
  <2>2. \A c \in Copies : c[1] = p => \E s \in ServicesOf[p], n \in Nodes : c = <<p, s, n>>
    BY DEF Copies
  <2>3. \A c \in Copies : c[1] = p => thread[c] # "alive"
    BY <2>1, <2>2 DEF Inv, AliveRuns, RunningIsDeployed
  <2>4. \A c \in strays : c[1] # p
    BY DEF Inv, StraysClashed, Clear
  <2>5. <<"enact", "deploy">> \notin failed => \A c \in registered : c[1] # p
    BY <2>1, <2>2 DEF Inv, NothingLeft
  <2> QED
    BY <2>3, <2>4, <2>5
<1> QED
  BY <1>1, Invariance, PTL

\* Services that end by themselves make no operations thread end; clashes and
\* faults do.
THEOREM OperationsThreadsServe == Spec => []ThreadsServe
<1>1. Inv => ThreadsServe
  BY DEF Inv, FaultFree, ThreadsServe
<1> QED
  BY <1>1, Invariance, PTL
=============================================================================
