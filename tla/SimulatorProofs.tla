--------------------------- MODULE SimulatorProofs ---------------------------
(***************************************************************************)
(* What Simulator.tla guarantees for any events, triggers, limits and      *)
(* order of configuration, and any number of calls from the client.        *)
(***************************************************************************)
EXTENDS Simulator, DataProofs, FunctionTheorems

Over == {"finalize", "ended", "closed"}

TriggersWithinMax == \A e \in Events : nTriggers[e] <= MaxTriggers[e]

\* The status and what wait() waits for, against the place of run().
StatusFollowsRun ==
    /\ pc = "new" => status = "IDLE" /\ queue = <<>> /\ cascade = <<>>
    /\ pc \notin {"new", "ended", "closed"} => status # "IDLE"
    /\ finished => pc \in {"new", "ended", "closed"}

\* Once the loop has been left, only a submitted stop enqueues anything, itself
\* first.
OnlyStopLeft ==
    pc \in Over =>
        /\ queue = <<>> => cascade = <<>>
        /\ queue # <<>> => queue[1].name = StopEvent /\ queue[1].by = None

Inv ==
    /\ TypeOK
    /\ EveryTriggerRunsOnce
    /\ TriggersWithinMax
    /\ StatusFollowsRun
    /\ OnlyStopLeft

-----------------------------------------------------------------------------
(* The bucket.                                                             *)

\* A trigger of a ScheduledCascadeTrigger or a ScheduledTrigger is only there
\* if it has a time left.
LEMMA YesNeedsTime ==
    ASSUME BucketTypeOK, NEW e \in Events, NEW by \in By,
           NEW yes \in Answers(e, by)
    PROVE  /\ Said(yes, "at") => times[e] # <<>>
           /\ Said(yes, "scheduled") => alarms[e] > 0
<1>1. yes \subseteq Asked(e, by)
  BY DEF Answers
<1>2. ASSUME NEW t \in yes, t.kind = "at"
      PROVE  times[e] # <<>>
  <2>1. by # None
    BY <1>1, <1>2 DEF Asked, CascadeKinds
  <2>2. TRUE \in CascadeAnswers(e, t, by)
    BY <1>1, <2>1 DEF Answers
  <2>3. by = t.on
    BY <2>2, <1>2 DEF CascadeAnswers
  <2> QED
    BY <1>2, <2>2, <2>3 DEF CascadeAnswers
<1>3. ASSUME NEW t \in yes, t.kind = "scheduled"
      PROVE  alarms[e] > 0
  <2>1. by = None
    BY <1>1, <1>3 DEF Asked, CascadeKinds
  <2>2. TRUE \in OwnAnswers(e, t)
    BY <1>1, <2>1 DEF Answers
  <2>3. alarms[e] # 0
    BY <1>3, <2>2 DEF OwnAnswers
  <2> QED
    BY <2>3 DEF BucketTypeOK
<1> QED
  BY <1>2, <1>3 DEF Said

\* Asking keeps the types, executes nothing, and counts a trigger if and only
\* if the bucket fires, which it does only below the limit.
LEMMA AskCounts ==
    ASSUME BucketTypeOK, NEW e \in Events, NEW by \in By, NEW fires \in BOOLEAN,
           Ask(e, by, fires)
    PROVE  /\ BucketTypeOK'
           /\ nCalls' = nCalls
           /\ fires => /\ nTriggers' = [nTriggers EXCEPT ![e] = @ + 1]
                       /\ nTriggers[e] < MaxTriggers[e]
           /\ ~fires => nTriggers' = nTriggers
<1>0. MaxTriggers[e] \in Nat /\ nTriggers[e] \in Nat
  BY BucketAssumption DEF BucketTypeOK
<1>1. CASE Exhausted(e) /\ ~fires /\ UNCHANGED bucketVars
  BY <1>1 DEF BucketTypeOK, bucketVars
<1>2. CASE /\ ~Exhausted(e)
           /\ Activated(e)
           /\ fires
           /\ manual' = [manual EXCEPT ![e] = @ - 1]
           /\ Count(e)
           /\ UNCHANGED <<nCalls, primed, times, alarms>>
  BY <1>0, <1>2 DEF BucketTypeOK, Exhausted, Activated, Count
<1>3. CASE /\ ~Exhausted(e)
           /\ ~Activated(e)
           /\ \E yes \in Answers(e, by) :
                /\ fires <=> Fires(e, by, yes)
                /\ AfterAsking(e, by, yes)
           /\ IF fires THEN Count(e) ELSE UNCHANGED nTriggers
           /\ UNCHANGED <<manual, nCalls>>
  <2>1. PICK yes \in Answers(e, by) : AfterAsking(e, by, yes)
    BY <1>3
  <2>2. primed' \in [Events -> BOOLEAN]
    BY <2>1 DEF AfterAsking, BucketTypeOK
  <2>3. times' \in [Events -> Seq(Nat)]
    <3>1. Said(yes, "at") => Tail(times[e]) \in Seq(Nat)
      BY YesNeedsTime, HeadTailProperties DEF BucketTypeOK
    <3> QED
      BY <2>1, <3>1 DEF AfterAsking, BucketTypeOK
  <2>4. alarms' \in [Events -> Nat]
    <3>1. Said(yes, "scheduled") => alarms[e] > 0
      BY YesNeedsTime
    <3> QED
      BY <2>1, <3>1 DEF AfterAsking, BucketTypeOK
  <2>5. IF fires THEN Count(e) ELSE nTriggers' = nTriggers
    BY <1>3
  <2>6. nTriggers[e] < MaxTriggers[e]
    BY <1>0, <1>3 DEF Exhausted
  <2>7. manual' = manual /\ nCalls' = nCalls
    BY <1>3
  <2>8. CASE fires
    <3>1. nTriggers' = [nTriggers EXCEPT ![e] = @ + 1]
      BY <2>5, <2>8 DEF Count
    <3>2. nTriggers' \in [Events -> Nat]
      BY <1>0, <3>1 DEF BucketTypeOK
    <3> QED
      BY <2>2, <2>3, <2>4, <2>6, <2>7, <2>8, <3>1, <3>2 DEF BucketTypeOK
  <2>9. CASE ~fires
    BY <2>2, <2>3, <2>4, <2>5, <2>7, <2>9 DEF BucketTypeOK
  <2> QED
    BY <2>8, <2>9
<1> QED
  BY <1>1, <1>2, <1>3 DEF Ask

\* An execution counts one call and touches nothing else of the bucket.
LEMMA ResetCounts ==
    ASSUME BucketTypeOK, NEW e \in Events, Reset(e)
    PROVE  /\ BucketTypeOK'
           /\ nCalls' = [nCalls EXCEPT ![e] = @ + 1]
           /\ nTriggers' = nTriggers
BY DEF BucketTypeOK, Reset

LEMMA ActivateCounts ==
    ASSUME BucketTypeOK, NEW e \in Events, Activate(e)
    PROVE  /\ BucketTypeOK'
           /\ nCalls' = nCalls
           /\ nTriggers' = nTriggers
BY DEF BucketTypeOK, Activate

LEMMA BucketUnchanged ==
    ASSUME BucketTypeOK, UNCHANGED bucketVars
    PROVE  /\ BucketTypeOK'
           /\ nCalls' = nCalls
           /\ nTriggers' = nTriggers
BY DEF BucketTypeOK, bucketVars

-----------------------------------------------------------------------------
(* The queue.                                                              *)

\* Where e waits in queue q, and how often.
Places(q, e) == {i \in DOMAIN q : q[i].name = e}
Waiting(q, e) == Cardinality(Places(q, e))

LEMMA QueuedIsWaiting ==
    ASSUME NEW e
    PROVE  Queued(e) = Waiting(queue, e) /\ Queued(e)' = Waiting(queue', e)
BY DEF Queued, Waiting, Places

LEMMA WaitingFinite ==
    ASSUME NEW q \in Seq(Items), NEW e
    PROVE  IsFiniteSet(Places(q, e)) /\ Waiting(q, e) \in Nat
<1>1. DOMAIN q = 1..Len(q) /\ Len(q) \in Nat
  BY LenProperties
<1>2. IsFiniteSet(1..Len(q))
  BY <1>1, FS_Interval
<1>3. Places(q, e) \subseteq 1..Len(q)
  BY <1>1 DEF Places
<1>4. IsFiniteSet(Places(q, e))
  BY <1>2, <1>3, FS_Subset
<1> QED
  BY <1>4, FS_CardinalityType DEF Waiting

\* An event put on the queue waits once more, every other as often as before.
LEMMA WaitingAppend ==
    ASSUME NEW q \in Seq(Items), NEW x \in Items, NEW e
    PROVE  Waiting(Append(q, x), e) = Waiting(q, e) + (IF x.name = e THEN 1 ELSE 0)
<1> DEFINE r == Append(q, x)
           n == Len(q) + 1
<1>1. /\ r \in Seq(Items) /\ Len(r) = n
      /\ \A i \in 1..Len(q) : r[i] = q[i]
      /\ r[n] = x
  BY AppendProperties
<1>2. /\ DOMAIN q = 1..Len(q) /\ Len(q) \in Nat
      /\ DOMAIN r = 1..n
  BY <1>1, LenProperties
<1>3. n \notin Places(q, e)
  BY <1>2 DEF Places
<1>4. IsFiniteSet(Places(q, e)) /\ Waiting(q, e) \in Nat
  BY WaitingFinite
<1>5. CASE x.name = e
  <2>1. Places(r, e) = Places(q, e) \cup {n}
    BY <1>1, <1>2, <1>5 DEF Places
  <2> QED
    BY ZenonT(30), <1>3, <1>4, <1>5, <2>1, FS_AddElement DEF Waiting
<1>6. CASE x.name # e
  <2>1. Places(r, e) = Places(q, e)
    BY <1>1, <1>2, <1>6 DEF Places
  <2> QED
    BY <1>4, <1>6, <2>1 DEF Waiting
<1> QED
  BY <1>5, <1>6

\* How many of the first n items of q are e's.
Before(q, n, e) == Cardinality({i \in 1..n : q[i].name = e})

\* Without the head of the queue, every place counts one less of its events.
LEMMA BeforeTail ==
    ASSUME NEW q \in Seq(Items), q # <<>>, NEW n \in 1..Len(q), NEW e
    PROVE  /\ Before(Tail(q), n - 1, e) \in Nat
           /\ Before(q, n, e) = Before(Tail(q), n - 1, e) + (IF q[1].name = e THEN 1 ELSE 0)
<1> DEFINE t == Tail(q)
           all == {i \in 1..n : q[i].name = e}
           less == {i \in 1..(n - 1) : t[i].name = e}
           later == all \ {1}
           f == [i \in less |-> i + 1]
<1>1. /\ Len(t) = Len(q) - 1 /\ Len(q) \in Nat
      /\ \A i \in 1..Len(t) : t[i] = q[i + 1]
  BY HeadTailProperties, LenProperties
<1>2. \A i \in 1..(n - 1) : t[i] = q[i + 1] /\ i + 1 \in 1..n
  BY <1>1
<1>3. IsFiniteSet(all) /\ IsFiniteSet(less)
  <2>1. IsFiniteSet(1..n) /\ IsFiniteSet(1..(n - 1))
    BY FS_Interval
  <2> QED
    BY <2>1, FS_Subset
<1>4. f \in Bijection(less, later)
  <2>1. \A i \in less : i + 1 \in later
    BY <1>2
  <2>2. f \in [less -> later]
    BY <2>1
  <2>3. \A a, b \in less : f[a] = f[b] => a = b
    OBVIOUS
  <2>4. ASSUME NEW j \in later
        PROVE  \E i \in less : f[i] = j
    <3>1. j - 1 \in 1..(n - 1) /\ (j - 1) + 1 = j
      OBVIOUS
    <3>2. j - 1 \in less
      BY <1>2, <2>4, <3>1
    <3> QED
      BY <3>1, <3>2
  <2> HIDE DEF f, later, less
  <2> QED
    BY <2>2, <2>3, <2>4, Fun_IsBij
<1>5. Cardinality(later) = Cardinality(less) /\ IsFiniteSet(later) /\ Cardinality(less) \in Nat
  <2> HIDE DEF later, less, all, f
  <2>1. ExistsBijection(less, later)
    BY <1>4 DEF ExistsBijection
  <2>2. IsFiniteSet(less)
    BY <1>3
  <2> QED
    BY <2>1, <2>2, FS_Bijection, FS_CardinalityType
<1>6. 1 \notin later /\ (IF q[1].name = e THEN all = later \cup {1} ELSE all = later)
  OBVIOUS
<1>7. Before(q, n, e) = Cardinality(all) /\ Before(Tail(q), n - 1, e) = Cardinality(less)
  BY DEF Before
<1> HIDE DEF later, less, all, f, t
<1>8. CASE q[1].name = e
  <2>1. Cardinality(later \cup {1}) = Cardinality(later) + 1
    BY <1>5, <1>6, FS_AddElement
  <2> QED
    BY <1>5, <1>6, <1>7, <1>8, <2>1
<1>9. CASE q[1].name # e
  BY <1>5, <1>6, <1>7, <1>9
<1> QED
  BY <1>8, <1>9

LEMMA WaitingIsBefore ==
    ASSUME NEW q \in Seq(Items), NEW e PROVE Waiting(q, e) = Before(q, Len(q), e)
<1>1. DOMAIN q = 1..Len(q)
  BY LenProperties
<1>2. Places(q, e) = {i \in 1..Len(q) : q[i].name = e}
  BY <1>1 DEF Places
<1> QED
  BY <1>2 DEF Waiting, Before

\* An event taken from the queue waits once less.
LEMMA WaitingTail ==
    ASSUME NEW q \in Seq(Items), q # <<>>, NEW e
    PROVE  Waiting(q, e) = Waiting(Tail(q), e) + (IF Head(q).name = e THEN 1 ELSE 0)
<1>1. /\ Tail(q) \in Seq(Items) /\ Len(Tail(q)) = Len(q) - 1 /\ Head(q) = q[1]
      /\ Len(q) \in 1..Len(q)
  BY HeadTailProperties, LenProperties, EmptySeq
<1>2. Before(q, Len(q), e) = Before(Tail(q), Len(q) - 1, e) + (IF q[1].name = e THEN 1 ELSE 0)
  BY <1>1, BeforeTail
<1> QED
  BY <1>1, <1>2, WaitingIsBefore

-----------------------------------------------------------------------------
(* Types.                                                                  *)

\* enqueue_event puts one item at the end, may set the status to STOPPING, and
\* begins at most one call.
LEMMA PutTypes ==
    ASSUME TypeOK, BucketTypeOK',
           NEW q \in Seq(Items), NEW e \in Events, NEW by \in By, NEW nth \in Nat,
           NEW outer \in Seq(Frames), Put(q, e, by, nth, outer)
    PROVE  /\ [name |-> e, by |-> by, nth |-> nth] \in Items
           /\ queue' = Append(q, [name |-> e, by |-> by, nth |-> nth])
           /\ queue' \in Seq(Items)
           /\ status' \in {status, "STOPPING"}
           /\ cascade' \in Seq(Frames)
<1> DEFINE x == [name |-> e, by |-> by, nth |-> nth]
           frame == [event |-> e, nth |-> nTriggers'[e], next |-> 1]
<1>1. x \in Items
  BY DEF Items
<1>2. queue' = Append(q, x) /\ queue' \in Seq(Items)
  BY <1>1, AppendProperties DEF Put
<1>3. frame \in Frames
  BY DEF Frames, BucketTypeOK
<1>4. <<frame>> \o outer \in Seq(Frames)
  BY <1>3, ConcatProperties
<1>5. cascade' \in Seq(Frames)
  BY <1>4 DEF Put
<1>6. status' \in {status, "STOPPING"}
  BY DEF Put, StatusAfter
<1> QED
  BY <1>1, <1>2, <1>5, <1>6

LEMMA EmptyCascade == <<>> \in Seq(Frames)
OBVIOUS

LEMMA TopTypes ==
    ASSUME TypeOK, ~Idle
    PROVE  /\ Top \in Frames
           /\ Tail(cascade) \in Seq(Frames)
           /\ Advanced \in Seq(Frames)
<1>1. Head(cascade) \in Frames /\ Tail(cascade) \in Seq(Frames)
  BY HeadTailProperties DEF TypeOK, Idle
<1>2. [Top EXCEPT !.next = @ + 1] \in Frames
  BY <1>1 DEF Top, Frames
<1>3. <<[Top EXCEPT !.next = @ + 1]>> \in Seq(Frames)
  BY <1>2
<1> QED
  BY <1>1, <1>3, ConcatProperties DEF Top, Advanced

LEMMA HeadTypes ==
    ASSUME TypeOK, queue # <<>>
    PROVE  /\ Head(queue) \in Items
           /\ Tail(queue) \in Seq(Items)
BY HeadTailProperties DEF TypeOK

\* What a step of the cascade does: the innermost call asks its next event.
LEMMA CascadeAskDoes ==
    ASSUME TypeOK, NEW fires \in BOOLEAN, CascadeAsk(fires)
    PROVE  \E curr \in Events :
             /\ Ask(curr, Top.event, fires)
             /\ Top.event \in Events
             /\ BucketTypeOK'
             /\ IF fires THEN Put(queue, curr, Top.event, Top.nth, Advanced)
                         ELSE cascade' = Advanced /\ queue' = queue /\ status' = status
<1>1. PICK curr \in Events :
        /\ Ask(curr, Top.event, fires)
        /\ IF fires THEN Put(queue, curr, Top.event, Top.nth, Advanced)
                    ELSE cascade' = Advanced /\ UNCHANGED <<queue, status>>
  BY DEF CascadeAsk
<1>2. Top.event \in Events
  BY TopTypes DEF CascadeAsk, Frames
<1>3. BucketTypeOK'
  BY <1>1, <1>2, AskCounts DEF TypeOK, By
<1> QED
  BY <1>1, <1>2, <1>3

\* Every step keeps the types.
LEMMA TypeStep == ASSUME TypeOK, Next PROVE TypeOK'
<1> USE DEF By
<1>1. CASE Start
  BY <1>1, BucketUnchanged DEF TypeOK, Start, clientVars, ghosts, Points
<1>2. ASSUME NEW e \in Events, Trigger(e) PROVE TypeOK'
  <2>1. BucketTypeOK'
    BY <1>2, ActivateCounts DEF Trigger, TypeOK
  <2> QED
    BY <1>2, <2>1 DEF TypeOK, Trigger, loopVars, ghosts
<1>3. CASE StopReads
  BY <1>3, BucketUnchanged DEF TypeOK, StopReads, loopVars, ghosts
<1>4. CASE StopRequests
  BY <1>4, BucketUnchanged DEF TypeOK, StopRequests, loopVars, ghosts
<1>5. CASE StopSubmits
  BY <1>5, BucketUnchanged DEF TypeOK, StopSubmits, ghosts
<1>6. ASSUME NEW fires \in BOOLEAN, CascadeAsk(fires) PROVE TypeOK'
  <2>1. PICK curr \in Events :
          /\ Top.event \in Events
          /\ BucketTypeOK'
          /\ IF fires THEN Put(queue, curr, Top.event, Top.nth, Advanced)
                      ELSE cascade' = Advanced /\ queue' = queue /\ status' = status
    BY <1>6, CascadeAskDoes
  <2>2. Advanced \in Seq(Frames) /\ Top.nth \in Nat
    BY <1>6, TopTypes DEF CascadeAsk, Frames
  <2>3. /\ queue' \in Seq(Items)
        /\ status' \in {status, "STOPPING"}
        /\ cascade' \in Seq(Frames)
    <3>1. CASE fires
      BY <2>1, <2>2, <3>1, PutTypes DEF TypeOK
    <3>2. CASE ~fires
      BY <2>1, <2>2, <3>2 DEF TypeOK
    <3> QED
      BY <3>1, <3>2
  <2> QED
    BY <1>6, <2>1, <2>3 DEF TypeOK, CascadeAsk, clientVars, ghosts
<1>7. CASE CascadeSkip
  BY <1>7, TopTypes, BucketUnchanged DEF TypeOK, CascadeSkip, clientVars, ghosts
<1>8. CASE CascadeReturn
  BY <1>8, TopTypes, BucketUnchanged DEF TypeOK, CascadeReturn, clientVars, ghosts
<1>9. CASE Boot
  <2>1. BucketTypeOK'
    BY <1>9, BucketUnchanged DEF Boot, TypeOK
  <2>2. /\ queue' \in Seq(Items)
        /\ status' \in {status, "STOPPING"}
        /\ cascade' \in Seq(Frames)
    BY <1>9, <2>1, PutTypes, EmptyCascade, SimulatorAssumption DEF Boot, TypeOK
  <2> QED
    BY <1>9, <2>1, <2>2 DEF TypeOK, Boot, clientVars, ghosts, Points
<1>10. CASE Loop
  BY <1>10, BucketUnchanged DEF TypeOK, Loop, clientVars, ghosts, Points
<1>11. ASSUME NEW fires \in BOOLEAN, Scan(fires) PROVE TypeOK'
  <2>1. Order[scan] \in Events
    BY SimulatorAssumption, ElementOfSeq DEF TypeOK
  <2>2. BucketTypeOK'
    BY <1>11, <2>1, AskCounts DEF Scan, TypeOK
  <2>3. /\ queue' \in Seq(Items)
        /\ status' \in {status, "STOPPING"}
        /\ cascade' \in Seq(Frames)
    BY <1>11, <2>1, <2>2, PutTypes, EmptyCascade DEF Scan, TypeOK
  <2>4. Len(Order) \in Nat /\ scan' \in 1..Len(Order) /\ pc' \in Points
    <3>1. Len(Order) \in Nat /\ scan \in 1..Len(Order)
      BY SimulatorAssumption, LenProperties DEF TypeOK
    <3> QED
      BY <1>11, <3>1 DEF Scan, TypeOK, Points
  <2> QED
    BY <1>11, <2>2, <2>3, <2>4 DEF TypeOK, Scan, clientVars, ghosts
<1>12. CASE Wait \/ GetNothing
  BY <1>12, BucketUnchanged DEF TypeOK, Wait, GetNothing, clientVars, ghosts, Points
<1>13. CASE Fire
  <2> DEFINE item == Head(queue)
  <2>1. item \in Items /\ Tail(queue) \in Seq(Items)
    BY <1>13, HeadTypes DEF Fire
  <2>2. item.name \in Events /\ item.by \in By /\ item.nth \in Nat
    BY <2>1 DEF Items
  <2>3. BucketTypeOK'
    BY <1>13, <2>2, ResetCounts DEF Fire, TypeOK
  <2>4. lastRun' \in By
    BY <1>13, <2>2 DEF Fire, TypeOK
  <2>5. lastReport' \in Reports \cup {None}
    <3>1. item.by # None => nCalls[item.by] \in Nat
      BY <2>2 DEF TypeOK, BucketTypeOK
    <3> QED
      BY <1>13, <2>2, <3>1 DEF Fire, TypeOK, Reports
  <2> QED
    BY <1>13, <2>1, <2>3, <2>4, <2>5
    DEF TypeOK, Fire, Unqueued, clientVars, Points
<1>14. CASE FireRaises
  <2>1. Head(queue).name \in Events /\ Tail(queue) \in Seq(Items)
    BY <1>14, HeadTypes DEF FireRaises, Items
  <2>2. BucketTypeOK'
    BY <1>14, BucketUnchanged DEF FireRaises, TypeOK
  <2>3. /\ queue' \in Seq(Items)
        /\ status' \in {status, "STOPPING"}
        /\ cascade' \in Seq(Frames)
    BY <1>14, <2>1, <2>2, PutTypes, EmptyCascade, SimulatorAssumption
    DEF FireRaises, Unqueued, TypeOK
  <2>4. raised' \in [Events -> Nat]
    BY <1>14, <2>1 DEF FireRaises, TypeOK
  <2> QED
    BY <1>14, <2>2, <2>3, <2>4 DEF TypeOK, FireRaises, clientVars, Points
<1>15. CASE Finalize
  BY <1>15, BucketUnchanged DEF TypeOK, Finalize, clientVars, ghosts, Points
<1>16. CASE CloseLoop
  BY <1>16, BucketUnchanged DEF TypeOK, CloseLoop, clientVars, ghosts, Points
<1>17. CASE RunSubmitted
  <2>1. BucketTypeOK'
    BY <1>17, BucketUnchanged DEF RunSubmitted, TypeOK
  <2>2. /\ queue' \in Seq(Items)
        /\ status' \in {status, "STOPPING"}
        /\ cascade' \in Seq(Frames)
    BY <1>17, <2>1, PutTypes, EmptyCascade, SimulatorAssumption DEF RunSubmitted, TypeOK
  <2> QED
    BY <1>17, <2>1, <2>2 DEF TypeOK, RunSubmitted, clientVars, ghosts
<1> QED
  BY <1>1, <1>2, <1>3, <1>4, <1>5, <1>6, <1>7, <1>8, <1>9, <1>10, <1>11, <1>12,
     <1>13, <1>14, <1>15, <1>16, <1>17 DEF Next, Client, Run

-----------------------------------------------------------------------------
(* Counting.                                                               *)

LEMMA CountTypes ==
    ASSUME TypeOK, NEW e \in Events
    PROVE  /\ nTriggers[e] \in Nat /\ nCalls[e] \in Nat /\ raised[e] \in Nat
           /\ Waiting(queue, e) \in Nat
BY WaitingFinite DEF TypeOK, BucketTypeOK

LEMMA OneMore ==
    ASSUME NEW f \in [Events -> Nat], NEW a \in Events, NEW e \in Events,
           NEW g, g = [f EXCEPT ![a] = @ + 1]
    PROVE  g[e] \in Nat /\ g[e] = f[e] + (IF a = e THEN 1 ELSE 0)
OBVIOUS

\* The equation holds after a step that changes neither side ...
LEMMA BalanceUntouched ==
    ASSUME EveryTriggerRunsOnce,
           nTriggers' = nTriggers, nCalls' = nCalls, raised' = raised, queue' = queue
    PROVE  EveryTriggerRunsOnce'
BY DEF EveryTriggerRunsOnce, Queued

\* ... or enqueues the start or the stop event without a trigger ...
LEMMA BalanceUntriggered ==
    ASSUME TypeOK, EveryTriggerRunsOnce,
           NEW x \in Items, x.name \in {StartEvent, StopEvent},
           nTriggers' = nTriggers, nCalls' = nCalls, raised' = raised,
           queue' = Append(queue, x)
    PROVE  EveryTriggerRunsOnce'
<1> SUFFICES ASSUME NEW e \in Triggered
             PROVE  nTriggers'[e] = nCalls'[e] + raised'[e] + Queued(e)'
  BY DEF EveryTriggerRunsOnce
<1>1. e \in Events /\ x.name # e
  BY DEF Triggered
<1>2. Waiting(Append(queue, x), e) = Waiting(queue, e) + 0
  BY <1>1, WaitingAppend DEF TypeOK
<1>3. Waiting(queue', e) = Waiting(queue, e)
  BY <1>1, <1>2, CountTypes
<1> QED
  BY <1>3, QueuedIsWaiting DEF EveryTriggerRunsOnce

\* ... or enqueues the event whose bucket fired ...
LEMMA BalanceTriggered ==
    ASSUME TypeOK, EveryTriggerRunsOnce,
           NEW x \in Items,
           nTriggers' = [nTriggers EXCEPT ![x.name] = @ + 1],
           nCalls' = nCalls, raised' = raised, queue' = Append(queue, x)
    PROVE  EveryTriggerRunsOnce'
<1> SUFFICES ASSUME NEW e \in Triggered
             PROVE  nTriggers'[e] = nCalls'[e] + raised'[e] + Queued(e)'
  BY DEF EveryTriggerRunsOnce
<1>1. e \in Events
  BY DEF Triggered
<1> DEFINE one == IF x.name = e THEN 1 ELSE 0
           executed == nCalls[e] + raised[e]
           before == Waiting(queue, e)
           after == Waiting(queue', e)
<1>2. after = before + one
  BY WaitingAppend DEF TypeOK
<1>3. nTriggers'[e] = nTriggers[e] + one
  BY SMTT(20), <1>1, CountTypes DEF TypeOK, BucketTypeOK
<1>4. nTriggers[e] = executed + before
  BY QueuedIsWaiting DEF EveryTriggerRunsOnce
<1>5. executed \in Nat /\ before \in Nat /\ one \in Nat
  BY <1>1, CountTypes
<1> HIDE DEF one, executed, before, after
<1>6. nTriggers'[e] = executed + after
  BY <1>2, <1>3, <1>4, <1>5
<1> QED
  BY <1>6, QueuedIsWaiting DEF executed, after

\* ... or takes the first event, which returns or raises.
LEMMA BalanceTaken ==
    ASSUME TypeOK, EveryTriggerRunsOnce, queue # <<>>, NEW q, q = Tail(queue),
           nTriggers' = nTriggers,
           NEW e \in Triggered,
           NEW calls \in Nat, calls = nCalls'[e], NEW raises \in Nat, raises = raised'[e],
           calls + raises =
             nCalls[e] + raised[e] + (IF Head(queue).name = e THEN 1 ELSE 0),
           Waiting(queue', e) = Waiting(q, e)
    PROVE  nTriggers'[e] = nCalls'[e] + raised'[e] + Queued(e)'
<1>1. e \in Events
  BY DEF Triggered
<1>2. Waiting(queue, e) = Waiting(q, e) + (IF Head(queue).name = e THEN 1 ELSE 0)
  BY WaitingTail DEF TypeOK
<1>3. Waiting(q, e) \in Nat
  BY HeadTypes, WaitingFinite
<1>4. nTriggers[e] = nCalls[e] + raised[e] + Waiting(queue, e)
  BY QueuedIsWaiting DEF EveryTriggerRunsOnce
<1> DEFINE one == IF Head(queue).name = e THEN 1 ELSE 0
           before == nCalls[e] + raised[e]
           after == calls + raises
           left == Waiting(q, e)
<1>5. before \in Nat /\ left \in Nat /\ one \in Nat
  BY <1>1, <1>3, CountTypes
<1>6. nTriggers[e] = before + (left + one) /\ after = before + one
  BY <1>2, <1>4
<1> HIDE DEF one, before, after, left
<1>7. nTriggers[e] = after + left
  BY <1>5, <1>6
<1> QED
  BY <1>7, QueuedIsWaiting DEF after, left

LEMMA BalanceStep ==
    ASSUME TypeOK, EveryTriggerRunsOnce, Next
    PROVE  EveryTriggerRunsOnce'
<1> USE DEF By
<1>a. ASSUME UNCHANGED <<bucketVars, queue, raised>> PROVE EveryTriggerRunsOnce'
  BY <1>a, BalanceUntouched DEF bucketVars
<1>1. CASE Start
  BY <1>1, <1>a DEF Start, ghosts
<1>2. ASSUME NEW e \in Events, Trigger(e) PROVE EveryTriggerRunsOnce'
  BY <1>2, ActivateCounts, BalanceUntouched DEF TypeOK, Trigger, loopVars, ghosts
<1>3. CASE StopReads
  BY <1>3, <1>a DEF StopReads, loopVars, ghosts
<1>4. CASE StopRequests
  BY <1>4, <1>a DEF StopRequests, loopVars, ghosts
<1>5. CASE StopSubmits
  BY <1>5, <1>a DEF StopSubmits, ghosts
<1>6. ASSUME NEW fires \in BOOLEAN, CascadeAsk(fires) PROVE EveryTriggerRunsOnce'
  <2>1. PICK curr \in Events :
          /\ Ask(curr, Top.event, fires)
          /\ Top.event \in Events
          /\ BucketTypeOK'
          /\ IF fires THEN Put(queue, curr, Top.event, Top.nth, Advanced)
                      ELSE cascade' = Advanced /\ queue' = queue /\ status' = status
    BY <1>6, CascadeAskDoes
  <2>2. Advanced \in Seq(Frames) /\ Top.nth \in Nat
    BY <1>6, TopTypes DEF CascadeAsk, Frames
  <2>3. raised' = raised
    BY <1>6 DEF CascadeAsk, ghosts
  <2>4. CASE fires
    <3> DEFINE x == [name |-> curr, by |-> Top.event, nth |-> Top.nth]
    <3>1. x \in Items /\ x.name = curr /\ queue' = Append(queue, x)
      BY <2>1, <2>2, <2>4, PutTypes DEF TypeOK
    <3>2. nCalls' = nCalls /\ nTriggers' = [nTriggers EXCEPT ![curr] = @ + 1]
      BY <2>1, <2>4, AskCounts DEF TypeOK
    <3> HIDE DEF x
    <3> QED
      BY <2>3, <3>1, <3>2, BalanceTriggered
  <2>5. CASE ~fires
    BY <2>1, <2>3, <2>5, AskCounts, BalanceUntouched DEF TypeOK
  <2> QED
    BY <2>4, <2>5
<1>7. CASE CascadeSkip
  BY <1>7, <1>a DEF CascadeSkip, ghosts
<1>8. CASE CascadeReturn
  BY <1>8, <1>a DEF CascadeReturn, ghosts
<1>9. CASE Boot
  <2> DEFINE x == [name |-> StartEvent, by |-> None, nth |-> 0]
  <2>1. x \in Items /\ x.name = StartEvent /\ queue' = Append(queue, x)
    BY <1>9, SimulatorAssumption DEF Boot, Put, Items
  <2>2. nTriggers' = nTriggers /\ nCalls' = nCalls /\ raised' = raised
    BY <1>9 DEF Boot, bucketVars, ghosts
  <2> HIDE DEF x
  <2> QED
    BY <2>1, <2>2, BalanceUntriggered
<1>10. CASE Loop
  BY <1>10, <1>a DEF Loop, ghosts
<1>11. ASSUME NEW fires \in BOOLEAN, Scan(fires) PROVE EveryTriggerRunsOnce'
  <2>1. Order[scan] \in Events
    BY SimulatorAssumption, ElementOfSeq DEF TypeOK
  <2>2. raised' = raised
    BY <1>11 DEF Scan, ghosts
  <2>3. CASE fires
    <3> DEFINE x == [name |-> Order[scan], by |-> None, nth |-> 0]
    <3>1. x \in Items /\ x.name = Order[scan] /\ queue' = Append(queue, x)
      BY <1>11, <2>1, <2>3 DEF Scan, Put, Items
    <3>2. nCalls' = nCalls /\ nTriggers' = [nTriggers EXCEPT ![Order[scan]] = @ + 1]
      BY <1>11, <2>1, <2>3, AskCounts DEF Scan, TypeOK
    <3> HIDE DEF x
    <3> QED
      BY <2>2, <3>1, <3>2, BalanceTriggered
  <2>4. CASE ~fires
    <3>0. BucketTypeOK /\ Ask(Order[scan], None, fires) /\ None \in By
      BY <1>11 DEF Scan, TypeOK
    <3>1. nTriggers' = nTriggers /\ nCalls' = nCalls
      BY <2>1, <2>4, <3>0, AskCounts
    <3>2. queue' = queue
      BY <1>11, <2>4 DEF Scan
    <3> QED
      BY <2>2, <3>1, <3>2, BalanceUntouched
  <2> QED
    BY <2>3, <2>4
<1>12. CASE Wait \/ GetNothing
  BY <1>12, <1>a DEF Wait, GetNothing, ghosts
<1>13. CASE Fire
  <2> SUFFICES ASSUME NEW e \in Triggered
               PROVE  nTriggers'[e] = nCalls'[e] + raised'[e] + Queued(e)'
    BY DEF EveryTriggerRunsOnce
  <2>1. queue # <<>> /\ queue' = Tail(queue) /\ raised' = raised
    BY <1>13 DEF Fire, Unqueued
  <2>2. Head(queue).name \in Events /\ e \in Events
    BY <2>1, HeadTypes DEF Items, Triggered
  <2>3. /\ nTriggers' = nTriggers
        /\ nCalls' = [nCalls EXCEPT ![Head(queue).name] = @ + 1]
    BY <1>13, <2>2, ResetCounts DEF Fire, TypeOK
  <2>4. /\ nCalls'[e] \in Nat /\ raised'[e] \in Nat
        /\ nCalls'[e] = nCalls[e] + (IF Head(queue).name = e THEN 1 ELSE 0)
        /\ raised'[e] = raised[e]
    <3>1. nCalls \in [Events -> Nat]
      BY DEF TypeOK, BucketTypeOK
    <3> QED
      BY <2>1, <2>2, <2>3, <3>1, OneMore, CountTypes
  <2>5. nCalls'[e] + raised'[e] =
          nCalls[e] + raised[e] + (IF Head(queue).name = e THEN 1 ELSE 0)
    BY <2>2, <2>4, CountTypes
  <2> QED
    BY <2>1, <2>3, <2>4, <2>5, BalanceTaken
<1>14. CASE FireRaises
  <2> SUFFICES ASSUME NEW e \in Triggered
               PROVE  nTriggers'[e] = nCalls'[e] + raised'[e] + Queued(e)'
    BY DEF EveryTriggerRunsOnce
  <2>1. /\ queue # <<>>
        /\ nTriggers' = nTriggers /\ nCalls' = nCalls
        /\ raised' = [raised EXCEPT ![Head(queue).name] = @ + 1]
    BY <1>14 DEF FireRaises, bucketVars
  <2>2. Head(queue).name \in Events /\ e \in Events /\ Tail(queue) \in Seq(Items)
    BY <2>1, HeadTypes DEF Items, Triggered
  <2>3. /\ nCalls'[e] \in Nat /\ raised'[e] \in Nat
        /\ raised'[e] = raised[e] + (IF Head(queue).name = e THEN 1 ELSE 0)
        /\ nCalls'[e] = nCalls[e]
    BY SMTT(20), <2>1, <2>2, OneMore, CountTypes DEF TypeOK
  <2>5. nCalls'[e] + raised'[e] =
          nCalls[e] + raised[e] + (IF Head(queue).name = e THEN 1 ELSE 0)
    BY <2>2, <2>3, CountTypes
  <2>4. Waiting(queue', e) = Waiting(Tail(queue), e)
    <3>1. CASE status = "STOPPING"
      BY <1>14, <3>1 DEF FireRaises, Unqueued
    <3>2. CASE status # "STOPPING"
      <4> DEFINE x == [name |-> StopEvent, by |-> None, nth |-> 0]
      <4>1. queue' = Append(Tail(queue), x)
        BY <1>14, <3>2 DEF FireRaises, Unqueued, Put
      <4>2. x \in Items /\ x.name = StopEvent
        BY SimulatorAssumption DEF Items
      <4>3. x.name # e
        BY <4>2 DEF Triggered
      <4> HIDE DEF x
      <4>4. Waiting(Append(Tail(queue), x), e) = Waiting(Tail(queue), e) + 0
        BY <2>2, <4>2, <4>3, WaitingAppend
      <4>5. Waiting(Tail(queue), e) \in Nat
        BY <2>2, WaitingFinite
      <4> QED
        BY <4>1, <4>4, <4>5
    <3> QED
      BY <3>1, <3>2
  <2> QED
    BY <2>1, <2>3, <2>4, <2>5, BalanceTaken
<1>15. CASE Finalize
  BY <1>15, <1>a DEF Finalize, ghosts
<1>16. CASE CloseLoop
  BY <1>16, <1>a DEF CloseLoop, ghosts
<1>17. CASE RunSubmitted
  <2> DEFINE x == [name |-> StopEvent, by |-> None, nth |-> 0]
  <2>1. x \in Items /\ x.name = StopEvent /\ queue' = Append(queue, x)
    BY <1>17, SimulatorAssumption DEF RunSubmitted, Put, Items
  <2>2. nTriggers' = nTriggers /\ nCalls' = nCalls /\ raised' = raised
    BY <1>17 DEF RunSubmitted, bucketVars, ghosts
  <2> HIDE DEF x
  <2> QED
    BY <2>1, <2>2, BalanceUntriggered
<1> QED
  BY <1>1, <1>2, <1>3, <1>4, <1>5, <1>6, <1>7, <1>8, <1>9, <1>10, <1>11, <1>12,
     <1>13, <1>14, <1>15, <1>16, <1>17 DEF Next, Client, Run

-----------------------------------------------------------------------------
(* Limits.                                                                 *)

LEMMA LimitsAsked ==
    ASSUME TypeOK, TriggersWithinMax, NEW e \in Events, NEW by \in By,
           NEW fires \in BOOLEAN, Ask(e, by, fires)
    PROVE  TriggersWithinMax'
<1>1. CASE fires
  <2>1. nTriggers' = [nTriggers EXCEPT ![e] = @ + 1] /\ nTriggers[e] < MaxTriggers[e]
    BY <1>1, AskCounts DEF TypeOK
  <2>2. nTriggers \in [Events -> Nat] /\ MaxTriggers[e] \in Nat
    BY BucketAssumption DEF TypeOK, BucketTypeOK
  <2> QED
    BY <2>1, <2>2 DEF TriggersWithinMax
<1>2. CASE ~fires
  BY <1>2, AskCounts DEF TypeOK, TriggersWithinMax
<1> QED
  BY <1>1, <1>2

LEMMA LimitsStep ==
    ASSUME TypeOK, TriggersWithinMax, Next
    PROVE  TriggersWithinMax'
<1>a. ASSUME nTriggers' = nTriggers PROVE TriggersWithinMax'
  BY <1>a DEF TriggersWithinMax
<1>1. ASSUME NEW e \in Events, Trigger(e) PROVE TriggersWithinMax'
  BY <1>1, <1>a DEF Trigger, Activate
<1>2. ASSUME NEW fires \in BOOLEAN, CascadeAsk(fires) PROVE TriggersWithinMax'
  BY <1>2, CascadeAskDoes, LimitsAsked DEF By
<1>3. ASSUME NEW fires \in BOOLEAN, Scan(fires) PROVE TriggersWithinMax'
  <2>1. Order[scan] \in Events /\ None \in By
    BY SimulatorAssumption, ElementOfSeq DEF TypeOK, By
  <2>2. Ask(Order[scan], None, fires)
    BY <1>3 DEF Scan
  <2> QED
    BY <2>1, <2>2, LimitsAsked
<1>4. CASE Fire
  BY <1>4, <1>a DEF Fire, Reset
<1>5. CASE Start \/ StopReads \/ StopRequests \/ StopSubmits
  BY <1>5, <1>a DEF Start, StopReads, StopRequests, StopSubmits, bucketVars
<1>6. CASE CascadeSkip \/ CascadeReturn \/ Boot \/ Loop \/ Wait \/ GetNothing
  BY <1>6, <1>a DEF CascadeSkip, CascadeReturn, Boot, Loop, Wait, GetNothing, bucketVars
<1>7. CASE FireRaises \/ Finalize \/ CloseLoop \/ RunSubmitted
  BY <1>7, <1>a DEF FireRaises, Finalize, CloseLoop, RunSubmitted, bucketVars
<1> QED
  BY <1>1, <1>2, <1>3, <1>4, <1>5, <1>6, <1>7 DEF Next, Client, Run

-----------------------------------------------------------------------------
(* The status and the end.                                                 *)

\* run() begins with the status RUNNING, and what it and stop() enqueue can
\* only change it to STOPPING until the shutdown.
LEMMA StatusStep ==
    ASSUME TypeOK, StatusFollowsRun, Next
    PROVE  StatusFollowsRun'
<1> USE DEF StatusFollowsRun
<1>1. CASE Start
  BY <1>1 DEF Start
<1>2. ASSUME NEW e \in Events, Trigger(e) PROVE StatusFollowsRun'
  BY <1>2 DEF Trigger, loopVars
<1>3. CASE StopReads \/ StopRequests \/ StopSubmits
  BY <1>3 DEF StopReads, StopRequests, StopSubmits, loopVars
<1>4. ASSUME NEW fires \in BOOLEAN, CascadeAsk(fires) PROVE StatusFollowsRun'
  <2>1. pc # "new"
    BY <1>4 DEF CascadeAsk, Idle
  <2>2. status' \in {status, "STOPPING"} /\ pc' = pc /\ finished' = finished
    BY <1>4 DEF CascadeAsk, Put, StatusAfter
  <2> QED
    BY <2>1, <2>2
<1>5. CASE CascadeSkip \/ CascadeReturn \/ Wait \/ GetNothing
  BY <1>5 DEF CascadeSkip, CascadeReturn, Wait, GetNothing, Idle
<1>6. CASE Boot
  BY <1>6 DEF Boot, Put, StatusAfter
<1>7. CASE Loop
  BY <1>7 DEF Loop
<1>8. ASSUME NEW fires \in BOOLEAN, Scan(fires) PROVE StatusFollowsRun'
  BY <1>8 DEF Scan, Put, StatusAfter
<1>9. CASE Fire
  BY <1>9 DEF Fire
<1>10. CASE FireRaises
  BY <1>10 DEF FireRaises, Put, StatusAfter
<1>11. CASE Finalize
  BY <1>11 DEF Finalize
<1>12. CASE CloseLoop
  BY <1>12 DEF CloseLoop
<1>13. CASE RunSubmitted
  BY <1>13 DEF RunSubmitted, Suspended, Put, StatusAfter
<1> QED
  BY <1>1, <1>2, <1>3, <1>4, <1>5, <1>6, <1>7, <1>8, <1>9, <1>10, <1>11, <1>12,
     <1>13 DEF Next, Client, Run

LEMMA FirstOfAppend ==
    ASSUME NEW q \in Seq(Items), NEW x \in Items
    PROVE  /\ Append(q, x) # <<>>
           /\ Append(q, x)[1] = IF q = <<>> THEN x ELSE q[1]
<1>1. /\ Len(q) \in Nat /\ Len(Append(q, x)) = Len(q) + 1
      /\ \A i \in 1..Len(q) : Append(q, x)[i] = q[i]
      /\ Append(q, x)[Len(q) + 1] = x
      /\ q = <<>> <=> Len(q) = 0
      /\ Append(q, x) = <<>> <=> Len(Append(q, x)) = 0
  BY AppendProperties, LenProperties, EmptySeq
<1>2. CASE q = <<>>
  BY <1>1, <1>2
<1>3. CASE q # <<>>
  BY <1>1, <1>3
<1> QED
  BY <1>2, <1>3

\* The loop is left with an empty queue, and a submitted stop is the first to
\* enqueue anything then.
LEMMA LeftStep ==
    ASSUME TypeOK, StatusFollowsRun, OnlyStopLeft, Next
    PROVE  OnlyStopLeft'
<1> USE DEF Over
<1>1. CASE Start
  BY <1>1 DEF Start, OnlyStopLeft
<1>2. ASSUME NEW e \in Events, Trigger(e) PROVE OnlyStopLeft'
  BY <1>2 DEF Trigger, loopVars, OnlyStopLeft
<1>3. CASE StopReads \/ StopRequests \/ StopSubmits
  BY <1>3 DEF StopReads, StopRequests, StopSubmits, loopVars, OnlyStopLeft
<1>4. ASSUME NEW fires \in BOOLEAN, CascadeAsk(fires) PROVE OnlyStopLeft'
  <2> SUFFICES ASSUME pc' \in Over
               PROVE  queue' # <<>> /\ queue'[1].name = StopEvent /\ queue'[1].by = None
    BY DEF OnlyStopLeft
  <2>1. queue # <<>> /\ queue[1].name = StopEvent /\ queue[1].by = None
    BY <1>4 DEF CascadeAsk, Idle, OnlyStopLeft
  <2>2. PICK curr \in Events :
          /\ Top.event \in Events
          /\ IF fires THEN Put(queue, curr, Top.event, Top.nth, Advanced)
                      ELSE queue' = queue
    BY <1>4, CascadeAskDoes
  <2>3. CASE fires
    <3>1. Top.nth \in Nat
      BY <1>4, TopTypes DEF CascadeAsk, Frames
    <3> DEFINE x == [name |-> curr, by |-> Top.event, nth |-> Top.nth]
    <3>2. x \in Items /\ queue' = Append(queue, x)
      BY <2>2, <2>3, <3>1 DEF Put, Items, By
    <3> HIDE DEF x
    <3> QED
      BY <2>1, <3>2, FirstOfAppend DEF TypeOK
  <2>4. CASE ~fires
    BY <2>1, <2>2, <2>4
  <2> QED
    BY <2>3, <2>4
<1>5. CASE CascadeSkip \/ CascadeReturn
  BY <1>5 DEF CascadeSkip, CascadeReturn, Idle, OnlyStopLeft
<1>6. CASE Boot \/ Wait \/ GetNothing \/ Fire \/ FireRaises
  BY <1>6 DEF Boot, Wait, GetNothing, Fire, FireRaises, OnlyStopLeft
<1>7. CASE Loop
  BY <1>7 DEF Loop, Leaves, Idle, OnlyStopLeft, StatusFollowsRun, TypeOK
<1>8. ASSUME NEW fires \in BOOLEAN, Scan(fires) PROVE OnlyStopLeft'
  BY <1>8 DEF Scan, OnlyStopLeft
<1>9. CASE Finalize \/ CloseLoop
  BY <1>9 DEF Finalize, CloseLoop, OnlyStopLeft
<1>10. CASE RunSubmitted
  <2> DEFINE x == [name |-> StopEvent, by |-> None, nth |-> 0]
  <2>1. x \in Items /\ x.name = StopEvent /\ x.by = None
    BY SimulatorAssumption DEF Items, By
  <2>2. queue' = Append(queue, x) /\ pc' = pc
    BY <1>10 DEF RunSubmitted, Put
  <2> HIDE DEF x
  <2> QED
    BY <2>1, <2>2, FirstOfAppend DEF TypeOK, OnlyStopLeft
<1> QED
  BY <1>1, <1>2, <1>3, <1>4, <1>5, <1>6, <1>7, <1>8, <1>9, <1>10 DEF Next, Client, Run

-----------------------------------------------------------------------------
(* Reports.                                                                *)

\* The ordinal of the execution the item of e at place o will be, those that
\* raised counted.
Ordinal(q, calls, raises, o, e) == calls[e] + raises[e] + Before(q, o, e)

\* The last item in front of place p that is no callback and no metric is at o,
\* and is e's.
Owns(q, o, e, p) ==
    o \in 1..(p - 1) /\ q[o].name = e /\ \A i \in (o + 1)..(p - 1) : q[i].name \in Post

\* A callback or metric at place p with a triggering event follows that event's
\* execution, and its ordinal is that execution's.
Labelled(q, calls, raises, last, p) ==
    LET by == q[p].by IN
    q[p].name \in Post /\ by \in Triggered =>
        /\ by \notin Post
        /\ \/ \E o \in 1..(p - 1) : /\ Owns(q, o, by, p)
                                    /\ q[p].nth = Ordinal(q, calls, raises, o, by)
           \/ /\ \A i \in 1..(p - 1) : q[i].name \in Post
              /\ raises[by] = 0 => last = by /\ q[p].nth = calls[by]

\* The loop of an enqueue_event call still has a callback or metric to ask.
AsksPosts(f) == \E j \in f.next..Len(Ordered) : Ordered[j] \in Post

\* A call that does is the innermost, and its event the last one enqueued that
\* is no callback and no metric.
Fresh(q, calls, raises, f) ==
    f.event \in Triggered /\ AsksPosts(f) =>
        \E o \in 1..Len(q) : /\ Owns(q, o, f.event, Len(q) + 1)
                             /\ f.nth = Ordinal(q, calls, raises, o, f.event)

Stacked(q, calls, raises, stack) ==
    \A k \in 1..Len(stack) : /\ stack[k].event \notin Post
                             /\ k > 1 => ~AsksPosts(stack[k])
                             /\ k = 1 => Fresh(q, calls, raises, stack[k])

ItemsLabelled == \A p \in 1..Len(queue) : Labelled(queue, nCalls, raised, lastRun, p)
CallsLabelled == Stacked(queue, nCalls, raised, cascade)

Labels == ItemsLabelled /\ CallsLabelled /\ ReportsLabelled

\* The callbacks and metrics are asked first, whatever the configured order.
LEMMA PostsFirst ==
    /\ Len(Ordered) \in Nat
    /\ \A i, j \in 1..Len(Ordered) : i < j /\ Ordered[j] \in Post => Ordered[i] \in Post
<1> DEFINE a == Sublist(Order, Post)
           b == Sublist(Order, Events \ Post)
<1>1. Order \in Seq(Events)
  BY SimulatorAssumption
<1>2. Thins(Events, a, Order, Post, Len(Order)) /\ Thins(Events, b, Order, Events \ Post, Len(Order))
  BY <1>1, SublistFacts
<1>3. Ordered = a \o b
  BY DEF Ordered, Sorted
<1> HIDE DEF a, b
<1>4. /\ a \in Seq(Events) /\ b \in Seq(Events)
      /\ \A i \in 1..Len(a) : a[i] \in Post
      /\ \A i \in 1..Len(b) : b[i] \notin Post
  BY <1>2 DEF Thins, Leads
<1>5. /\ Len(Ordered) = Len(a) + Len(b) /\ Len(a) \in Nat /\ Len(b) \in Nat
      /\ \A i \in 1..(Len(a) + Len(b)) : Ordered[i] = IF i <= Len(a) THEN a[i] ELSE b[i - Len(a)]
  BY <1>3, <1>4, ConcatProperties, LenProperties
<1>6. ASSUME NEW i \in 1..Len(Ordered), NEW j \in 1..Len(Ordered), i < j, Ordered[j] \in Post
      PROVE  Ordered[i] \in Post
  <2>1. j <= Len(a)
    <3>1. CASE j > Len(a)
      <4>1. j - Len(a) \in 1..Len(b) /\ Ordered[j] = b[j - Len(a)]
        BY <1>5, <3>1
      <4> QED
        BY <1>4, <1>6, <4>1
    <3> QED
      BY <1>5, <3>1
  <2>2. i \in 1..Len(a) /\ Ordered[i] = a[i]
    BY <1>5, <1>6, <2>1
  <2> QED
    BY <1>4, <2>2
<1> QED
  BY <1>5, <1>6

LEMMA BeforeAgrees ==
    ASSUME NEW q, NEW r, NEW n \in Nat, \A i \in 1..n : q[i] = r[i], NEW e
    PROVE  Before(q, n, e) = Before(r, n, e)
<1>1. {i \in 1..n : q[i].name = e} = {i \in 1..n : r[i].name = e}
  OBVIOUS
<1> QED
  BY <1>1 DEF Before

\* What is put behind an item changes nothing of it.
LEMMA AppendedLabels ==
    ASSUME NEW q \in Seq(Items), NEW x \in Items, NEW calls, NEW raises, NEW last,
           NEW p \in 1..Len(q), Labelled(q, calls, raises, last, p)
    PROVE  Labelled(Append(q, x), calls, raises, last, p)
<1> DEFINE r == Append(q, x)
<1>1. Len(q) \in Nat /\ \A i \in 1..Len(q) : r[i] = q[i]
  BY AppendProperties, LenProperties
<1> HIDE DEF r
<1>2. r[p] = q[p] /\ p \in Nat
  BY <1>1
<1>3. \A o \in 1..(p - 1) : o \in 1..Len(q) /\ o \in Nat /\ \A i \in 1..o : i \in 1..Len(q)
  BY <1>1
<1>4. \A o \in 1..(p - 1) : \A e : Before(r, o, e) = Before(q, o, e)
  BY <1>1, <1>3, BeforeAgrees
<1>5. \A o \in 1..(p - 1) : \A e : Owns(q, o, e, p) => Owns(r, o, e, p)
  <2>1. \A o \in 1..(p - 1) : \A i \in (o + 1)..(p - 1) : i \in 1..Len(q)
    BY <1>1
  <2> QED
    BY <1>1, <1>3, <2>1 DEF Owns
<1>6. (\A i \in 1..(p - 1) : q[i].name \in Post) => \A i \in 1..(p - 1) : r[i].name \in Post
  BY <1>1, <1>3
<1>7. Labelled(r, calls, raises, last, p)
  BY <1>2, <1>4, <1>5, <1>6 DEF Labelled, Ordinal
<1> QED
  BY <1>7 DEF r

\* A callback or metric behind it leaves an owner in place.
LEMMA AppendedOwner ==
    ASSUME NEW q \in Seq(Items), NEW x \in Items, x.name \in Post, NEW calls, NEW raises,
           NEW o \in 1..Len(q), NEW e, Owns(q, o, e, Len(q) + 1)
    PROVE  LET r == Append(q, x)
           IN  /\ Owns(r, o, e, Len(r)) /\ Owns(r, o, e, Len(r) + 1)
               /\ Ordinal(r, calls, raises, o, e) = Ordinal(q, calls, raises, o, e)
<1> DEFINE r == Append(q, x)
<1>1. /\ Len(q) \in Nat /\ Len(r) = Len(q) + 1 /\ r[Len(q) + 1] = x
      /\ \A i \in 1..Len(q) : r[i] = q[i]
  BY AppendProperties, LenProperties
<1> HIDE DEF r
<1>2. \A i \in (o + 1)..Len(r) : (i \in (o + 1)..Len(q) /\ r[i] = q[i]) \/ i = Len(q) + 1
  BY <1>1
<1>3. Len(r) - 1 = Len(q) /\ (Len(r) + 1) - 1 = Len(r) /\ (Len(q) + 1) - 1 = Len(q)
  BY <1>1
<1>4. r[o].name = e /\ \A i \in (o + 1)..Len(q) : q[i].name \in Post
  BY <1>1, <1>3 DEF Owns
<1>5. \A i \in (o + 1)..Len(r) : r[i].name \in Post
  BY <1>1, <1>2, <1>4
<1>6. o \in 1..Len(r) /\ \A i \in (o + 1)..Len(q) : i \in (o + 1)..Len(r)
  BY <1>1
<1>7. Owns(r, o, e, Len(r)) /\ Owns(r, o, e, Len(r) + 1)
  BY <1>3, <1>4, <1>5, <1>6 DEF Owns
<1>8. Before(r, o, e) = Before(q, o, e)
  <2>1. \A i \in 1..o : r[i] = q[i]
    BY <1>1
  <2> QED
    BY <2>1, BeforeAgrees
<1> QED
  BY <1>7, <1>8 DEF Ordinal, r

\* The call that an enqueued event begins is fresh.
LEMMA PutIsFresh ==
    ASSUME TypeOK', EveryTriggerRunsOnce', NEW q \in Seq(Items), NEW x \in Items,
           queue' = Append(q, x), NEW f, f.event = x.name, f.nth = nTriggers'[x.name]
    PROVE  Fresh(queue', nCalls', raised', f)
<1> SUFFICES ASSUME x.name \in Triggered
             PROVE  \E o \in 1..Len(queue') :
                       /\ Owns(queue', o, x.name, Len(queue') + 1)
                       /\ f.nth = Ordinal(queue', nCalls', raised', o, x.name)
  BY DEF Fresh
<1> DEFINE o == Len(queue')
<1>1. queue' \in Seq(Items) /\ o = Len(q) + 1 /\ queue'[o] = x /\ Len(q) \in Nat
  BY AppendProperties, LenProperties
<1>2. o \in 1..Len(queue') /\ Owns(queue', o, x.name, Len(queue') + 1)
  BY <1>1 DEF Owns
<1>3. {i \in DOMAIN queue' : queue'[i].name = x.name} = {i \in 1..o : queue'[i].name = x.name}
  BY <1>1, LenProperties
<1>4. Queued(x.name)' = Before(queue', o, x.name)
  BY <1>3 DEF Queued, Before
<1>5. nTriggers'[x.name] = nCalls'[x.name] + raised'[x.name] + Queued(x.name)'
  BY DEF EveryTriggerRunsOnce
<1>6. f.nth = Ordinal(queue', nCalls', raised', o, x.name)
  BY <1>4, <1>5 DEF Ordinal
<1> QED
  BY <1>2, <1>6

\* What stands in front moves every other place one on.
LEMMA Prepended ==
    ASSUME NEW S, NEW x \in S, NEW s \in Seq(S)
    PROVE  /\ <<x>> \o s \in Seq(S) /\ Len(<<x>> \o s) = Len(s) + 1 /\ Len(s) \in Nat
           /\ (<<x>> \o s)[1] = x
           /\ \A k \in 1..Len(s) : (<<x>> \o s)[k + 1] = s[k]
<1> DEFINE one == <<x>>
<1>1. one \in Seq(S) /\ Len(one) = 1 /\ one[1] = x
  OBVIOUS
<1>2. Len(s) \in Nat
  BY LenProperties
<1> HIDE DEF one
<1>3. /\ one \o s \in Seq(S) /\ Len(one \o s) = 1 + Len(s)
      /\ \A i \in 1..(1 + Len(s)) : (one \o s)[i] = IF i <= 1 THEN one[i] ELSE s[i - 1]
  <2>1. one \in Seq(S) /\ s \in Seq(S)
    BY <1>1
  <2>2. /\ one \o s \in Seq(S) /\ Len(one \o s) = Len(one) + Len(s)
        /\ \A i \in 1..(Len(one) + Len(s)) :
              (one \o s)[i] = IF i <= Len(one) THEN one[i] ELSE s[i - Len(one)]
    BY <2>1, ConcatProperties
  <2> QED
    BY <1>1, <2>2
<1>4. (one \o s)[1] = x
  <2>1. 1 \in 1..(1 + Len(s))
    BY <1>2
  <2> QED
    BY <1>1, <1>3, <2>1
<1>5. ASSUME NEW k \in 1..Len(s) PROVE (one \o s)[k + 1] = s[k]
  <2> HIDE DEF one
  <2>1. k + 1 \in 1..(1 + Len(s)) /\ ~(k + 1 <= 1) /\ (k + 1) - 1 = k
    BY <1>2
  <2> QED
    BY <1>3, <2>1
<1>6. Len(one \o s) = Len(s) + 1
  BY <1>2, <1>3
<1> QED
  BY <1>2, <1>3, <1>4, <1>5, <1>6 DEF one

\* The calls under way once the innermost has gone on.
LEMMA AdvancedIs ==
    ASSUME TypeOK, ~Idle
    PROVE  /\ Advanced \in Seq(Frames) /\ Len(Advanced) = Len(cascade) /\ Len(cascade) \in Nat \ {0}
           /\ Advanced[1] = [Top EXCEPT !.next = @ + 1] /\ cascade[1] = Top
           /\ \A k \in 2..Len(cascade) : Advanced[k] = cascade[k]
           /\ Len(Tail(cascade)) = Len(cascade) - 1
           /\ \A k \in 1..Len(Tail(cascade)) : Tail(cascade)[k] = cascade[k + 1]
<1>1. cascade \in Seq(Frames) /\ cascade # <<>>
  BY DEF TypeOK, Idle
<1>2. /\ Len(cascade) \in Nat \ {0} /\ Len(Tail(cascade)) = Len(cascade) - 1
      /\ \A k \in 1..Len(Tail(cascade)) : Tail(cascade)[k] = cascade[k + 1]
      /\ Head(cascade) = cascade[1] /\ Tail(cascade) \in Seq(Frames)
  BY <1>1, HeadTailProperties, EmptySeq, LenProperties
<1> DEFINE top == [Top EXCEPT !.next = @ + 1]
<1>3. top \in Frames
  <2>1. Top \in Frames
    BY TopTypes
  <2> QED
    BY <2>1 DEF Frames
<1>4. Advanced = <<top>> \o Tail(cascade)
  BY DEF Advanced
<1> HIDE DEF top
<1>5. /\ Advanced \in Seq(Frames) /\ Len(Advanced) = Len(Tail(cascade)) + 1
      /\ Advanced[1] = top
      /\ \A k \in 1..Len(Tail(cascade)) : Advanced[k + 1] = Tail(cascade)[k]
  BY <1>2, <1>3, <1>4, Prepended
<1>6. \A k \in 2..Len(cascade) : Advanced[k] = cascade[k]
  <2> TAKE k \in 2..Len(cascade)
  <2>1. k - 1 \in 1..Len(Tail(cascade)) /\ (k - 1) + 1 = k
    BY <1>2
  <2>2. Tail(cascade)[k - 1] = cascade[k] /\ Advanced[k] = Tail(cascade)[k - 1]
    BY <1>2, <1>5, <2>1
  <2> QED
    BY <2>2
<1>7. Len(Advanced) = Len(cascade)
  BY <1>2, <1>5
<1> QED
  BY <1>2, <1>5, <1>6, <1>7 DEF Top, top

LEMMA AdvancedAsks ==
    ASSUME TypeOK, ~Idle
    PROVE  /\ AsksPosts(Advanced[1]) => AsksPosts(Top)
           /\ Advanced[1].event = Top.event /\ Advanced[1].nth = Top.nth
           /\ Top.next <= Len(Ordered) /\ Ordered[Top.next] \notin Post => ~AsksPosts(Advanced[1])
<1>1. Top \in Frames /\ Advanced[1] = [Top EXCEPT !.next = @ + 1]
  BY TopTypes, AdvancedIs
<1>2. /\ Top.next \in Nat \ {0} /\ Advanced[1].next = Top.next + 1
      /\ Advanced[1].event = Top.event /\ Advanced[1].nth = Top.nth
  BY <1>1 DEF Frames
<1>3. Len(Ordered) \in Nat
  BY PostsFirst
<1>4. AsksPosts(Advanced[1]) => AsksPosts(Top)
  <2>1. \A j \in (Top.next + 1)..Len(Ordered) : j \in Top.next..Len(Ordered)
    BY <1>2, <1>3
  <2> QED
    BY <1>2, <2>1 DEF AsksPosts
<1>5. ASSUME Top.next <= Len(Ordered), Ordered[Top.next] \notin Post
      PROVE  ~AsksPosts(Advanced[1])
  <2> SUFFICES ASSUME NEW j \in (Top.next + 1)..Len(Ordered), Ordered[j] \in Post
               PROVE  FALSE
    BY <1>2 DEF AsksPosts
  <2>1. Top.next \in 1..Len(Ordered) /\ j \in 1..Len(Ordered) /\ Top.next < j
    BY <1>2, <1>3, <1>5
  <2> QED
    BY <1>5, <2>1, PostsFirst
<1> QED
  BY <1>2, <1>4, <1>5

\* What the innermost call asks next changes nothing else of the calls.
LEMMA AdvancedStack ==
    ASSUME TypeOK, ~Idle, NEW q, NEW calls, NEW raises, Stacked(q, calls, raises, cascade)
    PROVE  Stacked(q, calls, raises, Advanced)
<1>1. \A k \in 1..Len(Advanced) : /\ k \in 1..Len(cascade)
                                  /\ k = 1 \/ (k \in 2..Len(cascade) /\ k > 1 /\ Advanced[k] = cascade[k])
  <2>1. /\ Len(Advanced) = Len(cascade) /\ Len(cascade) \in Nat
        /\ \A k \in 2..Len(cascade) : Advanced[k] = cascade[k]
    BY AdvancedIs
  <2>2. \A n \in Nat : \A k \in 1..n : k = 1 \/ (k \in 2..n /\ k > 1)
    OBVIOUS
  <2> QED
    BY <2>1, <2>2
<1>2. 1 \in 1..Len(cascade) /\ cascade[1] = Top
  BY AdvancedIs
<1>3. Top.event \notin Post /\ Fresh(q, calls, raises, Top)
  BY <1>2 DEF Stacked
<1>4. Advanced[1].event \notin Post /\ Fresh(q, calls, raises, Advanced[1])
  BY <1>3, AdvancedAsks DEF Fresh
<1> QED
  BY <1>1, <1>4 DEF Stacked

\* ... and the call that returns gives way to one that asks no more posts.
LEMMA ReturnedStack ==
    ASSUME TypeOK, ~Idle, NEW q, NEW calls, NEW raises, Stacked(q, calls, raises, cascade)
    PROVE  Stacked(q, calls, raises, Tail(cascade))
<1>1. \A k \in 1..Len(Tail(cascade)) : /\ k + 1 \in 1..Len(cascade) /\ k + 1 > 1
                                       /\ Tail(cascade)[k] = cascade[k + 1]
  BY AdvancedIs
<1>2. \A k \in 1..Len(Tail(cascade)) : Tail(cascade)[k].event \notin Post /\ ~AsksPosts(Tail(cascade)[k])
  BY <1>1 DEF Stacked
<1> QED
  BY <1>2 DEF Stacked, Fresh

LEMMA NoneIsUntriggered == None \notin Triggered /\ Triggered \subseteq Events
BY BucketAssumption DEF Triggered

\* An event without a triggering event, enqueued while no call is under way.
LEMMA PutUncaused ==
    ASSUME TypeOK', EveryTriggerRunsOnce', NEW q \in Seq(Items), NEW e \in Events, NEW nth \in Nat,
           Put(q, e, None, nth, <<>>),
           \A p \in 1..Len(q) : Labelled(q, nCalls', raised', lastRun', p)
    PROVE  ItemsLabelled' /\ CallsLabelled'
<1> DEFINE x == [name |-> e, by |-> None, nth |-> nth]
<1>1. x \in Items /\ x.name = e /\ x.by = None /\ queue' = Append(q, x)
  BY DEF Items, By, Put
<1> HIDE DEF x
<1>2. /\ Len(q) \in Nat /\ Len(queue') = Len(q) + 1 /\ queue'[Len(queue')] = x
  BY <1>1, AppendProperties, LenProperties
<1>3. ItemsLabelled'
  <2> SUFFICES ASSUME NEW p \in 1..Len(queue')
               PROVE  Labelled(queue', nCalls', raised', lastRun', p)
    BY DEF ItemsLabelled
  <2>1. CASE p = Len(queue')
    BY <1>1, <1>2, <2>1, NoneIsUntriggered DEF Labelled
  <2>2. CASE p # Len(queue')
    <3>1. p \in 1..Len(q)
      BY <1>2, <2>2
    <3> QED
      BY <1>1, <3>1, AppendedLabels
  <2> QED
    BY <2>1, <2>2
<1>4. CallsLabelled'
  <2> DEFINE f == [event |-> e, nth |-> nTriggers'[e], next |-> 1]
  <2>1. CASE e \in Post
    <3>1. cascade' = <<>> /\ Len(<<>>) = 0
      BY <2>1 DEF Put, Cascades
    <3> QED
      BY <3>1 DEF CallsLabelled, Stacked
  <2>2. CASE e \notin Post
    <3>1. cascade' = <<f>> \o <<>>
      BY <2>2 DEF Put, Cascades
    <3>2. Fresh(queue', nCalls', raised', f)
      BY <1>1, PutIsFresh
    <3>3. f.event \notin Post
      BY <2>2
    <3> HIDE DEF f
    <3>4. cascade' = <<f>> /\ Len(<<f>>) = 1
      BY <3>1
    <3> QED
      BY <3>2, <3>3, <3>4 DEF CallsLabelled, Stacked
  <2> QED
    BY <2>1, <2>2
<1> QED
  BY <1>3, <1>4

\* What the innermost call enqueues is its event's, and labelled with its
\* ordinal.
LEMMA PutCaused ==
    ASSUME TypeOK, TypeOK', EveryTriggerRunsOnce', ItemsLabelled, CallsLabelled,
           CascadeAsk(TRUE), nCalls' = nCalls
    PROVE  ItemsLabelled' /\ CallsLabelled'
<1>1. PICK e \in Events : /\ e = Ordered[Top.next]
                          /\ Put(queue, e, Top.event, Top.nth, Advanced)
  BY DEF CascadeAsk
<1>2. /\ ~Idle /\ Top.next <= Len(Ordered) /\ raised' = raised /\ lastRun' = lastRun
      /\ Top \in Frames
  BY TopTypes DEF CascadeAsk, ghosts
<1> DEFINE x == [name |-> e, by |-> Top.event, nth |-> Top.nth]
<1>3. /\ x \in Items /\ x.name = e /\ x.by = Top.event /\ x.nth = Top.nth
      /\ queue' = Append(queue, x)
  BY <1>1, <1>2 DEF Items, By, Put, Frames
<1> HIDE DEF x
<1>4. /\ queue \in Seq(Items) /\ Len(queue) \in Nat
      /\ Len(queue') = Len(queue) + 1 /\ queue'[Len(queue')] = x
  BY <1>3, AppendProperties, LenProperties DEF TypeOK
<1>5. Top.event \notin Post /\ Fresh(queue, nCalls, raised, Top)
  BY <1>2, AdvancedIs DEF CallsLabelled, Stacked
<1>6. \A p \in 1..Len(queue) : Labelled(queue', nCalls', raised', lastRun', p)
  BY <1>2, <1>3, <1>4, AppendedLabels DEF ItemsLabelled
<1>7. CASE e \notin Post
  <2>1. Labelled(queue', nCalls', raised', lastRun', Len(queue'))
    BY <1>3, <1>4, <1>7 DEF Labelled
  <2>2. ItemsLabelled'
    <3>1. \A p \in 1..Len(queue') : p \in 1..Len(queue) \/ p = Len(queue')
      BY <1>4
    <3> QED
      BY <1>6, <2>1, <3>1 DEF ItemsLabelled
  <2> DEFINE f == [event |-> e, nth |-> nTriggers'[e], next |-> 1]
  <2>3. cascade' = <<f>> \o Advanced
    BY <1>1, <1>7 DEF Put, Cascades
  <2>4. Fresh(queue', nCalls', raised', f)
    BY <1>3, <1>4, PutIsFresh
  <2>5. f.event \notin Post /\ <<f>> \in Seq({f}) /\ Len(<<f>>) = 1 /\ <<f>>[1] = f
    BY <1>7
  <2> HIDE DEF f
  <2>6. Advanced \in Seq(Frames) /\ Len(Advanced) \in Nat
    BY <1>2, AdvancedIs
  <2>7. /\ Len(cascade') = Len(Advanced) + 1 /\ cascade'[1] = f
        /\ \A k \in 1..Len(Advanced) : cascade'[k + 1] = Advanced[k]
    <3>1. f \in Frames \cup {f} /\ Advanced \in Seq(Frames \cup {f})
      BY <2>6
    <3> QED
      BY <2>3, <3>1, Prepended
  <2>8. \A k \in 1..Len(Advanced) : Advanced[k].event \notin Post /\ ~AsksPosts(Advanced[k])
    <3>1. \A k \in 1..Len(Advanced) : k = 1 \/ (k \in 2..Len(cascade) /\ k > 1 /\ k \in 1..Len(cascade))
      <4>1. Len(Advanced) = Len(cascade) /\ Len(cascade) \in Nat
        BY <1>2, AdvancedIs
      <4>2. \A n \in Nat : \A k \in 1..n : k = 1 \/ (k \in 2..n /\ k > 1)
        OBVIOUS
      <4> QED
        BY <4>1, <4>2
    <3>2. ~AsksPosts(Advanced[1]) /\ Advanced[1].event \notin Post
      BY <1>1, <1>2, <1>5, <1>7, AdvancedAsks
    <3>3. \A k \in 2..Len(cascade) : Advanced[k] = cascade[k]
      BY <1>2, AdvancedIs
    <3> QED
      BY <3>1, <3>2, <3>3 DEF CallsLabelled, Stacked
  <2>9. \A n \in Nat : \A k \in 1..(n + 1) : k = 1 \/ (k > 1 /\ k - 1 \in 1..n /\ (k - 1) + 1 = k)
    OBVIOUS
  <2>10. \A k \in 1..Len(cascade') : \/ k = 1 /\ cascade'[k] = f
                                     \/ k > 1 /\ k # 1 /\ cascade'[k].event \notin Post /\ ~AsksPosts(cascade'[k])
    <3> TAKE k \in 1..Len(cascade')
    <3>1. k = 1 \/ (k > 1 /\ k - 1 \in 1..Len(Advanced) /\ (k - 1) + 1 = k)
      BY <2>6, <2>7, <2>9
    <3>2. CASE k = 1
      BY <2>7, <3>2
    <3>3. CASE k > 1 /\ k - 1 \in 1..Len(Advanced) /\ (k - 1) + 1 = k
      <4>1. cascade'[k] = Advanced[k - 1] /\ k # 1
        BY <2>7, <3>3
      <4> QED
        BY <2>8, <3>3, <4>1
    <3> QED
      BY <3>1, <3>2, <3>3
  <2>11. CallsLabelled'
    BY <2>4, <2>5, <2>10 DEF CallsLabelled, Stacked
  <2> QED
    BY <2>2, <2>11
<1>8. CASE e \in Post
  <2>1. cascade' = Advanced
    BY <1>1, <1>8 DEF Put, Cascades
  <2>2. AsksPosts(Top)
    <3>1. Len(Ordered) \in Nat /\ Top.next \in Nat
      BY <1>2, PostsFirst DEF Frames
    <3>2. Top.next \in Top.next..Len(Ordered)
      BY <1>2, <3>1
    <3> QED
      BY <1>1, <1>8, <3>2 DEF AsksPosts
  <2>3. Labelled(queue', nCalls', raised', lastRun', Len(queue'))
    <3>1. CASE Top.event \notin Triggered
      BY <1>3, <1>4, <3>1 DEF Labelled
    <3>2. CASE Top.event \in Triggered
      <4>1. PICK o \in 1..Len(queue) :
              /\ Owns(queue, o, Top.event, Len(queue) + 1)
              /\ Top.nth = Ordinal(queue, nCalls, raised, o, Top.event)
        BY <1>5, <2>2, <3>2 DEF Fresh
      <4>2. /\ Owns(queue', o, Top.event, Len(queue'))
            /\ Ordinal(queue', nCalls, raised, o, Top.event) = Ordinal(queue, nCalls, raised, o, Top.event)
        BY <1>3, <1>4, <1>8, <4>1, AppendedOwner
      <4>3. o \in 1..(Len(queue') - 1)
        BY <1>4
      <4> QED
        BY <1>2, <1>3, <1>4, <1>5, <4>1, <4>2, <4>3 DEF Labelled
    <3> QED
      BY <3>1, <3>2
  <2>4. ItemsLabelled'
    <3>1. \A p \in 1..Len(queue') : p \in 1..Len(queue) \/ p = Len(queue')
      BY <1>4
    <3> QED
      BY <1>6, <2>3, <3>1 DEF ItemsLabelled
  <2>5. Fresh(queue', nCalls', raised', Top)
    <3> SUFFICES ASSUME Top.event \in Triggered, AsksPosts(Top)
                 PROVE  \E o \in 1..Len(queue') :
                           /\ Owns(queue', o, Top.event, Len(queue') + 1)
                           /\ Top.nth = Ordinal(queue', nCalls', raised', o, Top.event)
      BY DEF Fresh
    <3>1. PICK o \in 1..Len(queue) :
            /\ Owns(queue, o, Top.event, Len(queue) + 1)
            /\ Top.nth = Ordinal(queue, nCalls, raised, o, Top.event)
      BY <1>5 DEF Fresh
    <3>2. /\ Owns(queue', o, Top.event, Len(queue') + 1)
          /\ Ordinal(queue', nCalls, raised, o, Top.event) = Ordinal(queue, nCalls, raised, o, Top.event)
      BY <1>3, <1>4, <1>8, <3>1, AppendedOwner
    <3>3. o \in 1..Len(queue')
      BY <1>4
    <3> QED
      BY <1>2, <3>1, <3>2, <3>3
  <2>6. Stacked(queue', nCalls', raised', cascade)
    <3>1. \A k \in 1..Len(cascade) : k = 1 => cascade[k] = Top
      BY <1>2, AdvancedIs
    <3> QED
      BY <2>5, <3>1 DEF CallsLabelled, Stacked
  <2>7. CallsLabelled'
    BY <1>2, <2>1, <2>6, AdvancedStack DEF CallsLabelled
  <2> QED
    BY <2>4, <2>7
<1> QED
  BY <1>7, <1>8

LEMMA TakenCounts ==
    ASSUME NEW c \in Nat, NEW r \in Nat, NEW c2 \in Nat, NEW r2 \in Nat, NEW one \in {0, 1},
           (r2 = r /\ c2 = c + one) \/ (c2 = c /\ r2 = r + one)
    PROVE  /\ r2 = 0 => r = 0
           /\ \A b \in Nat : c + r + (b + one) = c2 + r2 + b
<1>1. CASE r2 = r /\ c2 = c + one
  BY <1>1
<1>2. CASE c2 = c /\ r2 = r + one
  BY <1>2
<1> QED
  BY <1>1, <1>2

\* The event at the head leaves the queue: it has run, or raised.
LEMMA TakenLabels ==
    ASSUME NEW q \in Seq(Items), q # <<>>, NEW calls, NEW raises, NEW last,
           NEW calls2, NEW raises2, NEW last2,
           \A e \in Triggered : /\ calls[e] \in Nat /\ raises[e] \in Nat
                                /\ calls2[e] \in Nat /\ raises2[e] \in Nat,
           \/ /\ raises2 = raises
              /\ \A e \in Triggered : calls2[e] = calls[e] + (IF q[1].name = e THEN 1 ELSE 0)
              /\ last2 = IF q[1].name \in Post THEN last ELSE q[1].name
           \/ /\ calls2 = calls /\ last2 = last
              /\ \A e \in Triggered : raises2[e] = raises[e] + (IF q[1].name = e THEN 1 ELSE 0),
           \A p \in 1..Len(q) : Labelled(q, calls, raises, last, p)
    PROVE  \A p \in 1..Len(Tail(q)) : Labelled(Tail(q), calls2, raises2, last2, p)
<1> DEFINE t == Tail(q)
<1>1. /\ t \in Seq(Items) /\ Len(t) = Len(q) - 1 /\ Len(q) \in Nat
      /\ \A i \in 1..Len(t) : t[i] = q[i + 1]
  BY HeadTailProperties, LenProperties
<1> HIDE DEF t
<1> SUFFICES ASSUME NEW p \in 1..Len(t), t[p].name \in Post, t[p].by \in Triggered
             PROVE  Labelled(t, calls2, raises2, last2, p)
  BY DEF Labelled, t
<1>2. p + 1 \in 1..Len(q) /\ t[p] = q[p + 1] /\ (p + 1) - 1 = p /\ p \in Nat
  BY <1>1
<1> DEFINE by == q[p + 1].by
           one == IF q[1].name = by THEN 1 ELSE 0
<1>3. Labelled(q, calls, raises, last, p + 1)
  BY <1>2
<1>4. by \in Triggered /\ by \notin Post
  BY <1>2, <1>3 DEF Labelled
<1>5. /\ calls[by] \in Nat /\ raises[by] \in Nat /\ calls2[by] \in Nat /\ raises2[by] \in Nat
      /\ one \in {0, 1}
      /\ \/ raises2[by] = raises[by] /\ calls2[by] = calls[by] + one
         \/ calls2[by] = calls[by] /\ raises2[by] = raises[by] + one
  <2>1. \A e \in Triggered :
           /\ calls[e] \in Nat /\ raises[e] \in Nat /\ calls2[e] \in Nat /\ raises2[e] \in Nat
           /\ \/ raises2[e] = raises[e] /\ calls2[e] = calls[e] + (IF q[1].name = e THEN 1 ELSE 0)
              \/ calls2[e] = calls[e] /\ raises2[e] = raises[e] + (IF q[1].name = e THEN 1 ELSE 0)
    OBVIOUS
  <2>2. one \in {0, 1}
    OBVIOUS
  <2> HIDE DEF by
  <2> QED
    BY <1>4, <2>1, <2>2
<1>0. /\ raises2[by] = 0 => raises[by] = 0
      /\ \A b \in Nat : calls[by] + raises[by] + (b + one) = calls2[by] + raises2[by] + b
  <2> DEFINE c == calls[by]
             r == raises[by]
             c2 == calls2[by]
             r2 == raises2[by]
  <2>1. /\ c \in Nat /\ r \in Nat /\ c2 \in Nat /\ r2 \in Nat /\ one \in {0, 1}
        /\ (r2 = r /\ c2 = c + one) \/ (c2 = c /\ r2 = r + one)
    BY <1>5
  <2> HIDE DEF c, r, c2, r2, one
  <2>2. r2 = 0 => r = 0
    BY <2>1, TakenCounts
  <2>3. \A b \in Nat : c + r + (b + one) = c2 + r2 + b
    BY <2>1, TakenCounts
  <2> QED
    BY <2>2, <2>3 DEF c, r, c2, r2
<1>6. CASE \E o \in 1..p : Owns(q, o, by, p + 1) /\ q[p + 1].nth = Ordinal(q, calls, raises, o, by)
  <2>1. PICK o \in 1..p : Owns(q, o, by, p + 1) /\ q[p + 1].nth = Ordinal(q, calls, raises, o, by)
    BY <1>6
  <2>2. q[o].name = by /\ \A i \in (o + 1)..p : q[i].name \in Post
    BY <1>2, <2>1 DEF Owns
  <2>3. o \in 1..Len(q) /\ o \in Nat
    BY <1>1, <1>2
  <2>4. Before(q, o, by) = Before(t, o - 1, by) + one /\ Before(t, o - 1, by) \in Nat
    BY <2>3, BeforeTail DEF t
  <2>5. Ordinal(q, calls, raises, o, by) = Ordinal(t, calls2, raises2, o - 1, by)
    <3> DEFINE b == Before(t, o - 1, by)
    <3>1. b \in Nat /\ Before(q, o, by) = b + one
      BY <2>4
    <3> HIDE DEF b, one
    <3>2. calls[by] + raises[by] + (b + one) = calls2[by] + raises2[by] + b
      BY <1>0, <3>1
    <3> QED
      BY <3>1, <3>2 DEF Ordinal, b
  <2>6. CASE o = 1
    <3>1. one = 1 /\ Before(t, 0, by) = 0
      <4>1. {i \in 1..0 : t[i].name = by} = {}
        OBVIOUS
      <4> QED
        BY <2>2, <2>6, <4>1, FS_EmptySet DEF Before
    <3>2. \A i \in 1..(p - 1) : t[i].name \in Post
      <4> TAKE i \in 1..(p - 1)
      <4>1. i \in 1..Len(t) /\ i + 1 \in (o + 1)..p
        BY <1>1, <1>2, <2>6
      <4> QED
        BY <1>1, <2>2, <4>1
    <3>3. raises2[by] = 0 => last2 = by /\ t[p].nth = calls2[by]
      <4> SUFFICES ASSUME raises2[by] = 0
                   PROVE  last2 = by /\ t[p].nth = calls2[by]
        OBVIOUS
      <4>1. q[1].name = by /\ raises[by] = 0
        BY <1>0, <2>2, <2>6
      <4>2. last2 = by
        BY <1>4, <1>5, <4>1
      <4>3. o - 1 = 0 /\ t[p].nth = calls2[by] + raises2[by] + Before(t, 0, by)
        BY <1>2, <2>1, <2>5, <2>6 DEF Ordinal
      <4> QED
        BY <1>5, <3>1, <4>2, <4>3
    <3> QED
      BY <1>2, <1>4, <3>2, <3>3 DEF Labelled
  <2>7. CASE o # 1
    <3>1. o - 1 \in 1..(p - 1) /\ o - 1 \in 1..Len(t) /\ (o - 1) + 1 = o
      BY <1>1, <1>2, <2>7
    <3>2. t[o - 1].name = by
      BY <1>1, <2>2, <3>1
    <3>3. \A i \in o..(p - 1) : t[i].name \in Post
      <4> TAKE i \in o..(p - 1)
      <4>1. i \in 1..Len(t) /\ i + 1 \in (o + 1)..p
        BY <1>1, <1>2
      <4> QED
        BY <1>1, <2>2, <4>1
    <3>4. Owns(t, o - 1, by, p)
      BY <3>1, <3>2, <3>3 DEF Owns
    <3> QED
      BY <1>2, <1>4, <2>1, <2>5, <3>1, <3>4 DEF Labelled
  <2> QED
    BY <2>6, <2>7
<1>7. CASE /\ \A i \in 1..p : q[i].name \in Post
           /\ raises[by] = 0 => last = by /\ q[p + 1].nth = calls[by]
  <2>1. q[1].name \in Post /\ one = 0
    BY <1>2, <1>4, <1>7
  <2>2. \A i \in 1..(p - 1) : t[i].name \in Post
    <3> TAKE i \in 1..(p - 1)
    <3>1. i \in 1..Len(t) /\ i + 1 \in 1..p
      BY <1>1, <1>2
    <3> QED
      BY <1>1, <1>7, <3>1
  <2>3. last2 = last /\ calls2[by] = calls[by]
    BY <1>4, <1>5, <2>1
  <2> QED
    BY <1>2, <1>4, <1>5, <1>7, <2>2, <2>3 DEF Labelled
<1> QED
  BY <1>2, <1>3, <1>6, <1>7 DEF Labelled

\* A report stays labelled as long as it is the last one.
LEMMA ReportsKept ==
    ASSUME TypeOK, ReportsLabelled, lastReport' = lastReport,
           \A e \in Events : raised'[e] = 0 => raised[e] = 0
    PROVE  ReportsLabelled'
<1>1. Triggered \subseteq Events
  BY DEF Triggered
<1> QED
  BY <1>1 DEF ReportsLabelled

LEMMA LabelsKept ==
    ASSUME TypeOK, Labels, queue' = queue, cascade' = cascade, nCalls' = nCalls, UNCHANGED ghosts
    PROVE  Labels'
<1>1. ReportsLabelled'
  BY ReportsKept DEF Labels, ghosts
<1>2. ItemsLabelled' /\ CallsLabelled'
  BY DEF Labels, ItemsLabelled, CallsLabelled, ghosts
<1> QED
  BY <1>1, <1>2 DEF Labels

\* An event enqueued without a triggering event, nothing executed.
LEMMA LabelsPut ==
    ASSUME Inv, Inv', Labels, NEW e \in Events, Put(queue, e, None, 0, <<>>),
           nCalls' = nCalls, UNCHANGED ghosts
    PROVE  Labels'
<1>1. ReportsLabelled'
  BY ReportsKept DEF Labels, ghosts, Inv
<1>2. \A p \in 1..Len(queue) : Labelled(queue, nCalls', raised', lastRun', p)
  BY DEF Labels, ItemsLabelled, ghosts
<1>3. ItemsLabelled' /\ CallsLabelled'
  <2>1. TypeOK' /\ EveryTriggerRunsOnce' /\ queue \in Seq(Items)
    BY DEF Inv, TypeOK
  <2> QED
    BY <1>2, <2>1, PutUncaused
<1> QED
  BY <1>1, <1>3 DEF Labels

\* No call of enqueue_event under way.
LEMMA NoCalls == ASSUME cascade' = <<>> PROVE CallsLabelled'
<1>1. Len(cascade') = 0
  OBVIOUS
<1> QED
  BY <1>1 DEF CallsLabelled, Stacked

LEMMA LabelCascade ==
    ASSUME Inv, Inv', Labels, NEW fires \in BOOLEAN,
           CascadeAsk(fires) \/ CascadeSkip \/ CascadeReturn
    PROVE  Labels'
<1>1. TypeOK /\ TypeOK' /\ EveryTriggerRunsOnce' /\ ItemsLabelled /\ CallsLabelled /\ ReportsLabelled
  BY DEF Inv, Labels
<1>2. nCalls' = nCalls
  <2>1. CASE CascadeAsk(fires)
    <3>1. PICK curr \in Events : Ask(curr, Top.event, fires) /\ Top.event \in Events
      BY <1>1, <2>1, CascadeAskDoes
    <3> QED
      BY <1>1, <3>1, AskCounts DEF TypeOK, By
  <2>2. CASE CascadeSkip \/ CascadeReturn
    BY <2>2 DEF CascadeSkip, CascadeReturn, bucketVars
  <2> QED
    BY <2>1, <2>2
<1>3. ~Idle /\ UNCHANGED ghosts
  BY DEF CascadeAsk, CascadeSkip, CascadeReturn
<1>4. ReportsLabelled'
  BY <1>1, <1>3, ReportsKept DEF ghosts
<1>5. CASE CascadeAsk(fires) /\ fires
  <2>1. CascadeAsk(TRUE)
    BY <1>5
  <2> QED
    BY <1>1, <1>2, <1>4, <2>1, PutCaused DEF Labels
<1>6. CASE \/ CascadeAsk(fires) /\ ~fires
           \/ CascadeSkip \/ CascadeReturn
  <2>1. queue' = queue /\ cascade' \in {Advanced, Tail(cascade)}
    BY <1>6 DEF CascadeAsk, CascadeSkip, CascadeReturn
  <2>2. ItemsLabelled'
    BY <1>1, <1>2, <1>3, <2>1 DEF ItemsLabelled, ghosts
  <2>3. Stacked(queue, nCalls, raised, cascade')
    BY <1>1, <1>3, <2>1, AdvancedStack, ReturnedStack DEF CallsLabelled
  <2>4. CallsLabelled'
    BY <1>2, <1>3, <2>1, <2>3 DEF CallsLabelled, ghosts
  <2> QED
    BY <1>4, <2>2, <2>4 DEF Labels
<1> QED
  BY <1>5, <1>6

\* The execution of the head: its report, if it makes one, is labelled because
\* the item was.
LEMMA LabelFire == ASSUME Inv, Inv', Labels, Fire PROVE Labels'
<1> DEFINE item == Head(queue)
<1>1. TypeOK /\ ItemsLabelled /\ ReportsLabelled
  BY DEF Inv, Labels
<1>2. /\ queue \in Seq(Items) /\ queue # <<>> /\ queue[1] = item /\ item \in Items
      /\ 1 \in 1..Len(queue) /\ queue' = Tail(queue) /\ cascade' = <<>> /\ raised' = raised
  <2>1. queue \in Seq(Items) /\ queue # <<>>
    BY <1>1 DEF Fire, TypeOK
  <2>2. item = queue[1] /\ item \in Items /\ 1 \in 1..Len(queue)
    BY <2>1, HeadTailProperties, EmptySeq, LenProperties
  <2> QED
    BY <2>1, <2>2 DEF Fire, Unqueued, Idle
<1>3. /\ Reset(item.name)
      /\ lastRun' = IF item.name \in Post THEN lastRun ELSE item.name
      /\ lastReport' = IF item.name \in Metrics /\ item.by # None
                       THEN [metric |-> item.name, by |-> item.by, nth |-> item.nth,
                             idx |-> nCalls[item.by], after |-> lastRun]
                       ELSE lastReport
  BY DEF Fire
<1> HIDE DEF item
<1>4. item.name \in Events
  BY <1>2 DEF Items
<1>5. nCalls' = [nCalls EXCEPT ![item.name] = @ + 1]
  BY <1>1, <1>3, <1>4, ResetCounts DEF TypeOK
<1>6. /\ nCalls \in [Events -> Nat] /\ raised \in [Events -> Nat]
      /\ Triggered \subseteq Events
  BY <1>1 DEF TypeOK, BucketTypeOK, Triggered
<1>7. ItemsLabelled'
  <2>1. \A e \in Triggered : /\ nCalls[e] \in Nat /\ raised[e] \in Nat
                             /\ nCalls'[e] \in Nat /\ raised'[e] \in Nat
    BY <1>2, <1>4, <1>5, <1>6
  <2>2. \A e \in Triggered : nCalls'[e] = nCalls[e] + (IF queue[1].name = e THEN 1 ELSE 0)
    BY <1>2, <1>4, <1>5, <1>6
  <2>3. lastRun' = IF queue[1].name \in Post THEN lastRun ELSE queue[1].name
    BY <1>2, <1>3
  <2>4. \A p \in 1..Len(queue) : Labelled(queue, nCalls, raised, lastRun, p)
    BY <1>1 DEF ItemsLabelled
  <2>5. \A p \in 1..Len(Tail(queue)) : Labelled(Tail(queue), nCalls', raised', lastRun', p)
    BY <1>2, <2>1, <2>2, <2>3, <2>4, TakenLabels
  <2> QED
    BY <1>2, <2>5 DEF ItemsLabelled
<1>8. ReportsLabelled'
  <2>1. CASE item.name \in Metrics /\ item.by # None
    <3> DEFINE by == item.by
    <3>1. lastReport' = [metric |-> item.name, by |-> by, nth |-> item.nth,
                         idx |-> nCalls[by], after |-> lastRun]
      BY <1>3, <2>1
    <3> SUFFICES ASSUME raised[by] = 0, by \in Triggered
                 PROVE  nCalls[by] = item.nth /\ lastRun = by
      BY <1>2, <3>1 DEF ReportsLabelled
    <3>2. item.name \in Post
      BY <2>1, SimulatorAssumption
    <3>3. Labelled(queue, nCalls, raised, lastRun, 1)
      BY <1>1, <1>2 DEF ItemsLabelled
    <3>4. \A o \in 1..(1 - 1) : FALSE
      OBVIOUS
    <3> QED
      BY <1>2, <3>2, <3>3, <3>4 DEF Labelled
  <2>2. CASE ~(item.name \in Metrics /\ item.by # None)
    <3>1. lastReport' = lastReport
      BY <1>3, <2>2
    <3> QED
      BY <1>1, <1>2, <3>1, ReportsKept
  <2> QED
    BY <2>1, <2>2
<1> QED
  BY <1>2, <1>7, <1>8, NoCalls DEF Labels

LEMMA LabelRaises == ASSUME Inv, Inv', Labels, FireRaises PROVE Labels'
<1> DEFINE item == Head(queue)
<1>1. TypeOK /\ TypeOK' /\ EveryTriggerRunsOnce' /\ ItemsLabelled /\ ReportsLabelled
  BY DEF Inv, Labels
<1>2. /\ queue \in Seq(Items) /\ queue # <<>> /\ queue[1] = item /\ item \in Items
      /\ Tail(queue) \in Seq(Items) /\ cascade = <<>>
  <2>1. queue \in Seq(Items) /\ queue # <<>>
    BY <1>1 DEF FireRaises, TypeOK
  <2> QED
    BY <2>1, HeadTailProperties DEF FireRaises, Idle
<1>3. /\ raised' = [raised EXCEPT ![item.name] = @ + 1]
      /\ nCalls' = nCalls /\ lastRun' = lastRun /\ lastReport' = lastReport
  BY DEF FireRaises, bucketVars
<1> HIDE DEF item
<1>4. item.name \in Events
  BY <1>2 DEF Items
<1>5. /\ nCalls \in [Events -> Nat] /\ raised \in [Events -> Nat]
      /\ Triggered \subseteq Events
  BY <1>1 DEF TypeOK, BucketTypeOK, Triggered
<1>6. ReportsLabelled'
  <2>1. \A e \in Events : raised'[e] = 0 => raised[e] = 0
    BY <1>3, <1>4, <1>5
  <2> QED
    BY <1>1, <1>3, <2>1, ReportsKept
<1>7. \A p \in 1..Len(Tail(queue)) : Labelled(Tail(queue), nCalls', raised', lastRun', p)
  <2>1. \A e \in Triggered : /\ nCalls[e] \in Nat /\ raised[e] \in Nat
                             /\ nCalls'[e] \in Nat /\ raised'[e] \in Nat
    BY <1>3, <1>4, <1>5
  <2>2. \A e \in Triggered : raised'[e] = raised[e] + (IF queue[1].name = e THEN 1 ELSE 0)
    BY <1>2, <1>3, <1>4, <1>5
  <2>3. \A p \in 1..Len(queue) : Labelled(queue, nCalls, raised, lastRun, p)
    BY <1>1 DEF ItemsLabelled
  <2>4. nCalls' = nCalls /\ lastRun' = lastRun
    BY <1>3
  <2>5. queue \in Seq(Items) /\ queue # <<>>
    BY <1>2
  <2> QED
    BY <2>1, <2>2, <2>3, <2>4, <2>5, TakenLabels
<1>8. CASE status = "STOPPING"
  <2>1. queue' = Tail(queue) /\ cascade' = <<>>
    BY <1>2, <1>8 DEF FireRaises, Unqueued
  <2> QED
    BY <1>6, <1>7, <2>1, NoCalls DEF Labels, ItemsLabelled
<1>9. CASE status # "STOPPING"
  <2>1. Put(Tail(queue), StopEvent, None, 0, <<>>) /\ StopEvent \in Events
    BY <1>9, SimulatorAssumption DEF FireRaises, Unqueued
  <2> QED
    BY <1>1, <1>2, <1>6, <1>7, <2>1, PutUncaused DEF Labels
<1> QED
  BY <1>8, <1>9

LEMMA LabelStep == ASSUME Inv, Inv', Labels, Next PROVE Labels'
<1>1. TypeOK
  BY DEF Inv
<1>2. CASE Start \/ StopReads \/ StopRequests \/ StopSubmits
  BY <1>1, <1>2, LabelsKept DEF Start, StopReads, StopRequests, StopSubmits, loopVars, bucketVars
<1>3. ASSUME NEW e \in Events, Trigger(e)
      PROVE  Labels'
  <2>1. nCalls' = nCalls
    BY <1>1, <1>3, ActivateCounts DEF Trigger, TypeOK
  <2> QED
    BY <1>1, <1>3, <2>1, LabelsKept DEF Trigger, loopVars
<1>4. ASSUME NEW fires \in BOOLEAN, CascadeAsk(fires)
      PROVE  Labels'
  BY <1>4, LabelCascade
<1>5. CASE CascadeSkip \/ CascadeReturn
  BY <1>5, LabelCascade
<1>6. ASSUME NEW fires \in BOOLEAN, Scan(fires)
      PROVE  Labels'
  <2>1. Order[scan] \in Events
    BY <1>1, SimulatorAssumption DEF TypeOK
  <2>2. nCalls' = nCalls
    BY <1>1, <1>6, <2>1, AskCounts DEF Scan, TypeOK, By
  <2>3. UNCHANGED ghosts
    BY <1>6 DEF Scan
  <2>4. CASE fires
    <3>1. Put(queue, Order[scan], None, 0, <<>>)
      BY <1>6, <2>4 DEF Scan
    <3> QED
      BY <2>1, <2>2, <2>3, <3>1, LabelsPut
  <2>5. CASE ~fires
    <3>1. queue' = queue /\ cascade' = cascade
      BY <1>6, <2>5 DEF Scan
    <3> QED
      BY <1>1, <2>2, <2>3, <3>1, LabelsKept
  <2> QED
    BY <2>4, <2>5
<1>7. CASE Boot \/ RunSubmitted
  <2>1. \E e \in Events : Put(queue, e, None, 0, <<>>)
    BY <1>7, SimulatorAssumption DEF Boot, RunSubmitted
  <2>2. nCalls' = nCalls /\ UNCHANGED ghosts
    BY <1>7 DEF Boot, RunSubmitted, bucketVars
  <2> QED
    BY <2>1, <2>2, LabelsPut
<1>8. CASE Loop \/ Wait \/ GetNothing \/ Finalize \/ CloseLoop
  BY <1>1, <1>8, LabelsKept DEF Loop, Wait, GetNothing, Finalize, CloseLoop, bucketVars
<1> QED
  BY <1>2, <1>3, <1>4, <1>5, <1>6, <1>7, <1>8, LabelFire, LabelRaises DEF Next, Client, Run

-----------------------------------------------------------------------------
(* Theorems.                                                               *)

LEMMA InitInv == ASSUME Init PROVE Inv
<1>1. Len(Order) \in Nat /\ 1 \in 1..Len(Order)
  <2>1. PICK i \in DOMAIN Order : Order[i] = StartEvent
    BY SimulatorAssumption
  <2> QED
    BY <2>1, SimulatorAssumption, LenProperties
<1>2. TypeOK
  <2>1. BucketTypeOK
    BY BucketAssumption DEF Init, BucketInit, BucketTypeOK
  <2>2. queue \in Seq(Items) /\ cascade \in Seq(Frames)
    BY DEF Init
  <2>3. requested \in [Events -> Nat] /\ raised \in [Events -> Nat]
    BY DEF Init
  <2> QED
    BY <1>1, <2>1, <2>2, <2>3 DEF Init, TypeOK, Points, By
<1>3. EveryTriggerRunsOnce
  <2> SUFFICES ASSUME NEW e \in Triggered
               PROVE  nTriggers[e] = nCalls[e] + raised[e] + Queued(e)
    BY DEF EveryTriggerRunsOnce
  <2>1. Places(queue, e) = {}
    BY DEF Init, Places
  <2>2. Waiting(queue, e) = 0
    BY <2>1, FS_EmptySet DEF Waiting
  <2>3. Queued(e) = 0
    BY <2>2, QueuedIsWaiting
  <2> QED
    BY <2>3 DEF Init, BucketInit, Triggered
<1>4. TriggersWithinMax
  <2> SUFFICES ASSUME NEW e \in Events
               PROVE  nTriggers[e] <= MaxTriggers[e]
    BY DEF TriggersWithinMax
  <2>1. nTriggers[e] = 0 /\ MaxTriggers[e] \in Nat
    BY BucketAssumption DEF Init, BucketInit
  <2> QED
    BY <2>1
<1>5. StatusFollowsRun /\ OnlyStopLeft
  BY DEF Init, StatusFollowsRun, OnlyStopLeft, Over
<1> QED
  BY <1>2, <1>3, <1>4, <1>5 DEF Inv

LEMMA StepInv == ASSUME Inv, [Next]_vars PROVE Inv'
<1>1. CASE Next
  BY <1>1, TypeStep, BalanceStep, LimitsStep, StatusStep, LeftStep DEF Inv
<1>2. CASE UNCHANGED vars
  <2> USE <1>2 DEF vars, loopVars, clientVars, ghosts
  <2>1. TypeOK'
    BY BucketUnchanged DEF Inv, TypeOK
  <2>2. EveryTriggerRunsOnce'
    BY BalanceUntouched DEF Inv, bucketVars
  <2>3. TriggersWithinMax' /\ StatusFollowsRun' /\ OnlyStopLeft'
    BY DEF Inv, TriggersWithinMax, StatusFollowsRun, OnlyStopLeft, bucketVars
  <2> QED
    BY <2>1, <2>2, <2>3 DEF Inv
<1> QED
  BY <1>1, <1>2

\* The inductive invariant: the types, the equation of triggers and executions,
\* the limits, and what the place of run() says about the status and the queue.
THEOREM Invariance == Spec => []Inv
<1>1. Init => Inv
  BY InitInv
<1>2. Inv /\ [Next]_vars => Inv'
  BY StepInv
<1> QED
  BY <1>1, <1>2, PTL DEF Spec

\* Every variable of the simulator keeps its type: only configured events are
\* enqueued, and the counts of manual activations and of scheduled times left
\* never become negative.
THEOREM TypeCorrect == Spec => []TypeOK
<1>1. Inv => TypeOK
  BY DEF Inv
<1> QED
  BY <1>1, Invariance, PTL

\* Whatever the client calls and whatever raises, each time a bucket fires its
\* event is enqueued and executed once.
THEOREM TriggersRunOnce == Spec => []EveryTriggerRunsOnce
<1>1. Inv => EveryTriggerRunsOnce
  BY DEF Inv
<1> QED
  BY <1>1, Invariance, PTL

\* No event executes more often than max_triggers, however it was enqueued:
\* what has executed has triggered, and no bucket fires at its limit.
THEOREM LimitsHold == Spec => []StepsWithinMax
<1>1. Inv => StepsWithinMax
  <2> SUFFICES ASSUME Inv, NEW e \in Triggered
               PROVE  nCalls[e] + raised[e] <= MaxTriggers[e]
    BY DEF StepsWithinMax
  <2>1. TypeOK /\ e \in Events
    BY DEF Inv, Triggered
  <2>2. nTriggers[e] = nCalls[e] + raised[e] + Waiting(queue, e)
    BY QueuedIsWaiting DEF Inv, EveryTriggerRunsOnce
  <2>3. nTriggers[e] <= MaxTriggers[e] /\ MaxTriggers[e] \in Nat
    BY <2>1, BucketAssumption DEF Inv, TriggersWithinMax
  <2> DEFINE executed == nCalls[e] + raised[e]
             waiting == Waiting(queue, e)
  <2>4. executed \in Nat /\ waiting \in Nat
    BY <2>1, CountTypes
  <2>5. executed + waiting <= MaxTriggers[e]
    BY <2>2, <2>3
  <2> HIDE DEF executed, waiting
  <2>6. executed <= MaxTriggers[e]
    BY <2>3, <2>4, <2>5
  <2> QED
    BY <2>6 DEF executed
<1> QED
  BY <1>1, Invariance, PTL

\* When wait() returns, nothing enqueued is left but what a stop that came
\* after the loop's last test enqueued.
THEOREM EndIsDrained == Spec => []FinishedMeansDrained
<1>1. Inv => FinishedMeansDrained
  BY DEF Inv, FinishedMeansDrained, StatusFollowsRun, OnlyStopLeft, Over
<1> QED
  BY <1>1, Invariance, PTL

\* A metric is stored under the ordinal of the very execution that triggered
\* it, and reads what that execution left: in whatever order the events are
\* configured, the callbacks and the metrics of an event are asked, and so
\* enqueued, before anything else its cascade enqueues.
THEOREM ReportsAreLabelled == Spec => []ReportsLabelled
<1>1. Init => Labels
  <2> SUFFICES ASSUME Init PROVE Labels
    OBVIOUS
  <2>1. Len(queue) = 0 /\ Len(cascade) = 0 /\ lastReport = None
    BY DEF Init
  <2> QED
    BY <2>1 DEF Labels, ItemsLabelled, CallsLabelled, Stacked, ReportsLabelled
<1>2. Inv /\ Inv' /\ Labels /\ [Next]_vars => Labels'
  <2> SUFFICES ASSUME Inv, Inv', Labels, [Next]_vars PROVE Labels'
    OBVIOUS
  <2>1. CASE Next
    BY <2>1, LabelStep
  <2>2. CASE UNCHANGED vars
    BY <2>2, LabelsKept DEF Inv, vars, loopVars, bucketVars
  <2> QED
    BY <2>1, <2>2
<1>3. Labels => ReportsLabelled
  BY DEF Labels
<1> QED
  BY <1>1, <1>2, <1>3, Invariance, PTL DEF Spec

-----------------------------------------------------------------------------
(* How a simulation ends.                                                  *)

\* What one question may change: it uses up one manual activation if there is
\* one and the limit allows, and counts a trigger if and only if it fires.
LEMMA AskUses ==
    ASSUME BucketTypeOK, NEW e \in Events, NEW by \in By, NEW fires \in BOOLEAN,
           Ask(e, by, fires)
    PROVE  /\ \A d \in Events \ {e} : /\ manual'[d] = manual[d] /\ alarms'[d] = alarms[d]
                                      /\ nTriggers'[d] = nTriggers[d]
           /\ alarms'[e] <= alarms[e]
           /\ \/ manual'[e] = manual[e]
              \/ fires /\ manual[e] > 0 /\ manual'[e] = manual[e] - 1
           /\ nTriggers[e] < MaxTriggers[e] /\ manual[e] > 0 => fires /\ manual'[e] = manual[e] - 1
           /\ nTriggers'[e] = IF fires THEN nTriggers[e] + 1 ELSE nTriggers[e]
<1>0. /\ manual \in [Events -> Nat] /\ nTriggers \in [Events -> Nat] /\ alarms \in [Events -> Nat]
      /\ MaxTriggers[e] \in Nat
  BY BucketAssumption DEF BucketTypeOK
<1>1. CASE Exhausted(e) /\ ~fires /\ UNCHANGED bucketVars
  BY <1>0, <1>1 DEF bucketVars, Exhausted
<1>2. CASE /\ ~Exhausted(e)
           /\ Activated(e)
           /\ fires
           /\ manual' = [manual EXCEPT ![e] = @ - 1]
           /\ Count(e)
           /\ UNCHANGED <<nCalls, primed, times, alarms>>
  BY <1>0, <1>2 DEF Activated, Count
<1>3. CASE /\ ~Exhausted(e)
           /\ ~Activated(e)
           /\ \E yes \in Answers(e, by) :
                /\ fires <=> Fires(e, by, yes)
                /\ AfterAsking(e, by, yes)
           /\ IF fires THEN Count(e) ELSE UNCHANGED nTriggers
           /\ UNCHANGED <<manual, nCalls>>
  <2>1. PICK yes \in Answers(e, by) : AfterAsking(e, by, yes)
    BY <1>3
  <2>2. /\ \A d \in Events \ {e} : alarms'[d] = alarms[d]
        /\ alarms'[e] <= alarms[e]
    BY <1>0, <2>1 DEF AfterAsking
  <2>3. manual[e] = 0 /\ manual' = manual
    BY <1>0, <1>3 DEF Activated
  <2>4. nTriggers' = IF fires THEN [nTriggers EXCEPT ![e] = @ + 1] ELSE nTriggers
    BY <1>3 DEF Count
  <2> QED
    BY <1>0, <2>2, <2>3, <2>4
<1> QED
  BY <1>1, <1>2, <1>3 DEF Ask

\* A bucket that fires without a manual activation has been answered yes.
LEMMA FiresByAnswer ==
    ASSUME BucketTypeOK, NEW e \in Events, NEW by \in By, Ask(e, by, TRUE), manual[e] = 0
    PROVE  \E yes \in Answers(e, by) : Fires(e, by, yes) /\ AfterAsking(e, by, yes)
BY DEF Ask, Activated

LEMMA YesGiven ==
    ASSUME NEW e \in Events, NEW by \in By, NEW yes \in Answers(e, by), Fires(e, by, yes)
    PROVE  \E t \in yes : /\ t \in Triggers[e] /\ ((t.kind \in CascadeKinds) <=> (by # None))
                          /\ TRUE \in IF by = None THEN OwnAnswers(e, t) ELSE CascadeAnswers(e, t, by)
<1>1. yes \subseteq Asked(e, by) /\ yes # {}
  BY DEF Answers, Fires
<1>2. PICK t \in yes : t \in Asked(e, by)
  BY <1>1
<1>3. (t \in yes) \in IF by = None THEN OwnAnswers(e, t) ELSE CascadeAnswers(e, t, by)
  BY <1>2 DEF Answers
<1> QED
  BY <1>2, <1>3 DEF Asked

\* What may trigger stop: its timeout, or the driving event at a multiple of
\* the limit.
LEMMA StopCause ==
    ASSUME BucketTypeOK, StopConfigured, manual[StopEvent] = 0, NEW by \in By,
           Ask(StopEvent, by, TRUE)
    PROVE  \/ alarms'[StopEvent] < alarms[StopEvent]
           \/ /\ by = DrivingEvent
              /\ MaxTriggers[DrivingEvent] \in Nat \ {0}
              /\ nTriggers[DrivingEvent] % MaxTriggers[DrivingEvent] = 0
<1>0. StopEvent \in Events /\ alarms \in [Events -> Nat] /\ None \notin Events
  BY SimulatorAssumption, BucketAssumption DEF BucketTypeOK
<1>1. PICK yes \in Answers(StopEvent, by) : Fires(StopEvent, by, yes) /\ AfterAsking(StopEvent, by, yes)
  BY <1>0, FiresByAnswer
<1>2. PICK t \in yes : /\ t \in Triggers[StopEvent] /\ ((t.kind \in CascadeKinds) <=> (by # None))
                       /\ TRUE \in IF by = None THEN OwnAnswers(StopEvent, t)
                                   ELSE CascadeAnswers(StopEvent, t, by)
  BY <1>0, <1>1, YesGiven
<1>3. CASE t.kind = "scheduled"
  <2>1. Said(yes, "scheduled")
    BY <1>2, <1>3 DEF Said
  <2>2. alarms'[StopEvent] = alarms[StopEvent] - 1
    BY <1>0, <1>1, <2>1 DEF AfterAsking
  <2> QED
    BY <1>0, <2>2
<1>4. CASE t.kind = "every" /\ t.on = DrivingEvent /\ t.n = MaxTriggers[DrivingEvent]
  <2>1. by # None /\ TRUE \in CascadeAnswers(StopEvent, t, by)
    BY <1>2, <1>4 DEF CascadeKinds
  <2>2. by = t.on /\ TriggersOf(by) % t.n = 0
    BY <1>4, <2>1 DEF CascadeAnswers
  <2>3. t.n \in Nat \ {0}
    BY <1>0, <1>2, <1>4, BucketAssumption DEF TriggerRecords, OwnKinds
  <2> QED
    BY <1>4, <2>2, <2>3 DEF TriggersOf
<1> QED
  BY <1>2, <1>3, <1>4 DEF StopConfigured

\* An event as StepEvent fires at each trigger of the driving event ...
LEMMA FollowerFires ==
    ASSUME BucketTypeOK, NEW e \in Events, FollowsSteps(e), nTriggers[e] < MaxTriggers[e],
           NEW fires \in BOOLEAN, Ask(e, DrivingEvent, fires)
    PROVE  fires
<1>0. /\ manual[e] \in Nat /\ nTriggers[DrivingEvent] \in Nat /\ nTriggers[e] \in Nat
      /\ MaxTriggers[e] \in Nat /\ DrivingEvent \in By /\ DrivingEvent # None
  BY SimulatorAssumption, BucketAssumption DEF BucketTypeOK, By
<1>1. CASE manual[e] > 0
  BY <1>0, <1>1, AskUses
<1>2. CASE manual[e] = 0
  <2>1. PICK yes \in Answers(e, DrivingEvent) : fires <=> Fires(e, DrivingEvent, yes)
    BY <1>0, <1>2 DEF Ask, Activated, Exhausted
  <2> DEFINE t == [kind |-> "every", on |-> DrivingEvent, n |-> 1]
  <2>2. Asked(e, DrivingEvent) = {t}
    BY <1>0 DEF Asked, FollowsSteps, CascadeKinds
  <2>3. CascadeAnswers(e, t, DrivingEvent) = {TRUE}
    <3>1. TriggersOf(DrivingEvent) % 1 = 0
      BY <1>0 DEF TriggersOf
    <3> QED
      BY <3>1 DEF CascadeAnswers
  <2> HIDE DEF t
  <2>4. t \in yes /\ yes \subseteq {t}
    BY <1>0, <2>1, <2>2, <2>3 DEF Answers
  <2> QED
    BY <2>1, <2>2, <2>4 DEF Fires
<1> QED
  BY <1>0, <1>1, <1>2

\* ... and otherwise only by a manual activation.
LEMMA FollowerElse ==
    ASSUME BucketTypeOK, NEW e \in Events, FollowsSteps(e), NEW by \in By, by # DrivingEvent,
           Ask(e, by, TRUE)
    PROVE  manual[e] > 0 /\ manual'[e] = manual[e] - 1
<1>0. manual[e] \in Nat
  BY DEF BucketTypeOK
<1>1. manual[e] # 0
  <2> SUFFICES ASSUME manual[e] = 0 PROVE FALSE
    OBVIOUS
  <2>1. PICK yes \in Answers(e, by) : Fires(e, by, yes)
    BY FiresByAnswer
  <2>2. PICK t \in yes : /\ t \in Triggers[e] /\ ((t.kind \in CascadeKinds) <=> (by # None))
                         /\ TRUE \in IF by = None THEN OwnAnswers(e, t) ELSE CascadeAnswers(e, t, by)
    BY <2>1, YesGiven
  <2>3. t.kind = "every" /\ t.on = DrivingEvent
    BY <2>2 DEF FollowsSteps
  <2>4. TRUE \in CascadeAnswers(e, t, by)
    BY <2>2, <2>3 DEF CascadeKinds
  <2> QED
    BY <2>3, <2>4 DEF CascadeAnswers
<1>2. manual[e] > 0 /\ Activated(e)
  BY <1>0, <1>1 DEF Activated
<1>3. manual' = [manual EXCEPT ![e] = @ - 1]
  BY <1>2 DEF Ask
<1> QED
  BY <1>2, <1>3 DEF BucketTypeOK

\* Every configured event is asked, once in each call of enqueue_event.
LEMMA OrderedFacts ==
    /\ Ordered \in Seq(Events) /\ Len(Ordered) \in Nat
    /\ \A e \in Events : \E j \in 1..Len(Ordered) : Ordered[j] = e
    /\ \A i, j \in 1..Len(Ordered) : Ordered[i] = Ordered[j] => i = j
<1> DEFINE a == Sublist(Order, Post)
           b == Sublist(Order, Events \ Post)
           R == {x \in Events \X Events : x[1] # x[2]}
<1>1. Order \in Seq(Events) /\ Ranked(Order, R) /\ ToSet(Order) = Events
  <2>1. Order \in Seq(Events)
    BY SimulatorAssumption
  <2>2. DOMAIN Order = 1..Len(Order) /\ \A i \in 1..Len(Order) : Order[i] \in Events
    BY <2>1, LenProperties, ElementOfSeq
  <2>3. Ranked(Order, R)
    BY <2>2, SimulatorAssumption DEF Ranked
  <2>4. ToSet(Order) \subseteq Events /\ \A e \in Events : e \in ToSet(Order)
    BY <2>1, <2>2, MemberOf, SimulatorAssumption
  <2> QED
    BY <2>1, <2>3, <2>4
<1>2. /\ a \in Seq(Events) /\ ToSet(a) = Events \cap Post /\ Ranked(a, R)
      /\ b \in Seq(Events) /\ ToSet(b) = Events \cap (Events \ Post) /\ Ranked(b, R)
  BY <1>1, SublistOrdered
<1>3. Ordered = a \o b
  BY DEF Ordered, Sorted
<1> HIDE DEF a, b
<1>4. \A x \in ToSet(a), y \in ToSet(b) : <<x, y>> \in R
  BY <1>2
<1> HIDE DEF R
<1>5. Ordered \in Seq(Events) /\ ToSet(Ordered) = Events /\ Ranked(Ordered, R)
  <2>1. a \o b \in Seq(Events) /\ ToSet(a \o b) = ToSet(a) \cup ToSet(b) /\ Ranked(a \o b, R)
    BY <1>2, <1>4, ConcatFacts
  <2> QED
    BY <1>2, <1>3, <2>1
<1>6. Len(Ordered) \in Nat /\ \A e \in Events : \E j \in 1..Len(Ordered) : Ordered[j] = e
  BY <1>5, MemberOf
<1>7. \A i, j \in 1..Len(Ordered) : i < j => Ordered[i] # Ordered[j]
  BY <1>5 DEF Ranked, R
<1> QED
  BY <1>5, <1>6, <1>7

\* enqueue_event begins a call for e on top of those under way, or, for a
\* callback or a metric, none.
OnTop(e, outer) ==
    /\ Len(cascade') = Len(outer) + 1
    /\ cascade'[1].event = e /\ cascade'[1].next = 1
    /\ \A k \in 1..Len(outer) : cascade'[k + 1] = outer[k]

LEMMA PutStack ==
    ASSUME BucketTypeOK', NEW q, NEW e \in Events, NEW by, NEW nth,
           NEW outer \in Seq(Frames), Put(q, e, by, nth, outer)
    PROVE  IF e \in Post THEN cascade' = outer ELSE OnTop(e, outer)
<1> DEFINE frame == [event |-> e, nth |-> nTriggers'[e], next |-> 1]
<1>1. frame \in Frames /\ frame.event = e /\ frame.next = 1
  BY DEF Frames, BucketTypeOK
<1>2. cascade' = IF e \in Post THEN outer ELSE <<frame>> \o outer
  BY DEF Put, Cascades
<1> HIDE DEF frame
<1> QED
  BY <1>1, <1>2, Prepended DEF OnTop

\* What the client has called and the buckets have used up; the calls of
\* trigger() are those the counts hold, pending or answered.
CallsCounted ==
    /\ manual[StopEvent] = 0
    /\ \A e \in Events : alarms[e] <= Alarms[e] /\ requested[e] <= MaxManual[e]
    /\ requested[DrivingEvent] <= manual[DrivingEvent] + nTriggers[DrivingEvent]
    /\ \A k \in 1..Len(cascade) : cascade[k].event = DrivingEvent => nTriggers[DrivingEvent] > 0
    /\ stops = 0 => submitted = 0 /\ client = "free"

\* Enqueuing start or stop counts no trigger.
LEMMA CountedPut ==
    ASSUME TypeOK, StopConfigured, CallsCounted, UNCHANGED <<bucketVars, requested>>,
           stops' = 0 => submitted' = 0 /\ client' = "free",
           NEW q, NEW e \in {StartEvent, StopEvent}, Put(q, e, None, 0, <<>>)
    PROVE  CallsCounted'
<1>1. e \in Events /\ e # DrivingEvent
  BY SimulatorAssumption
<1>2. BucketTypeOK' /\ manual' = manual /\ alarms' = alarms /\ nTriggers' = nTriggers
  BY BucketUnchanged DEF TypeOK, bucketVars
<1>3. IF e \in Post THEN cascade' = <<>> ELSE OnTop(e, <<>>)
  BY <1>1, <1>2, EmptyCascade, PutStack
<1>4. \A k \in 1..Len(cascade') : cascade'[k].event # DrivingEvent
  BY <1>1, <1>3 DEF OnTop
<1> QED
  BY <1>2, <1>4 DEF CallsCounted

\* A question is answered, and the event enqueued if it fires.
LEMMA CountedAsked ==
    ASSUME TypeOK, StopConfigured, CallsCounted, UNCHANGED <<requested, stops, submitted, client>>,
           NEW e \in Events, NEW by \in By, NEW fires \in BOOLEAN, Ask(e, by, fires),
           NEW outer \in Seq(Frames),
           \A k \in 1..Len(outer) : \E l \in 1..Len(cascade) : outer[k].event = cascade[l].event,
           IF fires THEN \E q, nth : Put(q, e, by, nth, outer) ELSE cascade' = outer
    PROVE  CallsCounted'
<1>1. /\ manual \in [Events -> Nat] /\ nTriggers \in [Events -> Nat] /\ alarms \in [Events -> Nat]
      /\ Alarms[e] \in Nat /\ requested \in [Events -> Nat]
      /\ StopEvent \in Events /\ DrivingEvent \in Events /\ Len(outer) \in Nat
  BY SimulatorAssumption, BucketAssumption, LenProperties DEF TypeOK, BucketTypeOK
<1>2. /\ BucketTypeOK'
      /\ \A d \in Events \ {e} : /\ manual'[d] = manual[d] /\ alarms'[d] = alarms[d]
                                 /\ nTriggers'[d] = nTriggers[d]
      /\ alarms'[e] <= alarms[e]
      /\ \/ manual'[e] = manual[e]
         \/ fires /\ manual[e] > 0 /\ manual'[e] = manual[e] - 1
      /\ nTriggers'[e] = IF fires THEN nTriggers[e] + 1 ELSE nTriggers[e]
  BY AskUses, AskCounts DEF TypeOK
<1>3. ASSUME NEW d \in Events
      PROVE  /\ alarms'[d] <= alarms[d] /\ nTriggers'[d] >= nTriggers[d]
             /\ manual'[d] + nTriggers'[d] >= manual[d] + nTriggers[d]
  <2>1. /\ manual[d] \in Nat /\ nTriggers[d] \in Nat /\ alarms[d] \in Nat
        /\ manual'[d] \in Nat /\ nTriggers'[d] \in Nat /\ alarms'[d] \in Nat
    BY <1>1, <1>2 DEF BucketTypeOK
  <2>2. CASE d # e
    <3>1. manual'[d] = manual[d] /\ alarms'[d] = alarms[d] /\ nTriggers'[d] = nTriggers[d]
      BY <1>2, <2>2
    <3> QED
      BY <2>1, <3>1
  <2>3. CASE d = e
    <3>1. CASE fires
      BY <1>2, <2>1, <2>3, <3>1, SMTT(20)
    <3>2. CASE ~fires
      BY <1>2, <2>1, <2>3, <3>2
    <3> QED
      BY <3>1, <3>2
  <2> QED
    BY <2>2, <2>3
<1>4. manual'[StopEvent] = 0
  BY <1>1, <1>2, SMTT(20) DEF CallsCounted
<1>5. \A d \in Events : alarms'[d] <= Alarms[d] /\ requested'[d] <= MaxManual[d]
  <2> TAKE d \in Events
  <2>1. alarms[d] <= Alarms[d] /\ requested[d] <= MaxManual[d] /\ alarms[d] \in Nat /\ Alarms[d] \in Nat
        /\ alarms'[d] \in Nat
    BY <1>1, <1>2, BucketAssumption DEF CallsCounted, BucketTypeOK
  <2>2. alarms'[d] <= alarms[d]
    BY <1>3
  <2> QED
    BY <2>1, <2>2
<1>6. requested'[DrivingEvent] <= manual'[DrivingEvent] + nTriggers'[DrivingEvent]
  <2>1. /\ requested[DrivingEvent] <= manual[DrivingEvent] + nTriggers[DrivingEvent]
        /\ requested[DrivingEvent] \in Nat /\ manual[DrivingEvent] \in Nat /\ nTriggers[DrivingEvent] \in Nat
    BY <1>1 DEF CallsCounted
  <2>2. manual'[DrivingEvent] + nTriggers'[DrivingEvent] >= manual[DrivingEvent] + nTriggers[DrivingEvent]
    BY <1>1, <1>3
  <2>3. manual'[DrivingEvent] \in Nat /\ nTriggers'[DrivingEvent] \in Nat
    BY <1>1, <1>2 DEF BucketTypeOK
  <2> QED
    BY <2>1, <2>2, <2>3
<1>7. nTriggers[DrivingEvent] > 0 => nTriggers'[DrivingEvent] > 0
  <2>1. /\ nTriggers'[DrivingEvent] >= nTriggers[DrivingEvent] /\ nTriggers[DrivingEvent] \in Nat
        /\ nTriggers'[DrivingEvent] \in Nat
    BY <1>1, <1>2, <1>3 DEF BucketTypeOK
  <2> QED
    BY <2>1
<1>8. ASSUME NEW k \in 1..Len(outer), outer[k].event = DrivingEvent PROVE nTriggers'[DrivingEvent] > 0
  BY <1>7, <1>8 DEF CallsCounted
<1>9. ASSUME NEW k \in 1..Len(cascade'), cascade'[k].event = DrivingEvent
      PROVE  nTriggers'[DrivingEvent] > 0
  <2>1. CASE cascade' = outer
    BY <1>8, <1>9, <2>1
  <2>2. CASE fires /\ OnTop(e, outer)
    <3>1. CASE k = 1
      BY <1>1, <1>2, <1>9, <2>2, <3>1 DEF OnTop
    <3>2. CASE k # 1
      <4>1. k - 1 \in 1..Len(outer) /\ (k - 1) + 1 = k
        BY <1>1, <2>2, <3>2 DEF OnTop
      <4>2. cascade'[k] = outer[k - 1]
        BY <2>2, <4>1 DEF OnTop
      <4> QED
        BY <1>8, <1>9, <4>1, <4>2
    <3> QED
      BY <3>1, <3>2
  <2> QED
    BY <1>2, <2>1, <2>2, PutStack
<1> QED
  BY <1>4, <1>5, <1>6, <1>9 DEF CallsCounted

\* The innermost call, gone on, and the others are for the same events.
LEMMA AdvancedFor ==
    ASSUME TypeOK, ~Idle
    PROVE  /\ \A k \in 1..Len(Advanced) : \E l \in 1..Len(cascade) : Advanced[k].event = cascade[l].event
           /\ \A k \in 1..Len(Tail(cascade)) : \E l \in 1..Len(cascade) : Tail(cascade)[k].event = cascade[l].event
<1>1. /\ Advanced \in Seq(Frames) /\ Len(Advanced) = Len(cascade) /\ Len(cascade) \in Nat \ {0}
      /\ cascade[1] = Top /\ Advanced[1].event = Top.event
      /\ \A k \in 2..Len(cascade) : Advanced[k] = cascade[k]
      /\ Len(Tail(cascade)) = Len(cascade) - 1
      /\ \A k \in 1..Len(Tail(cascade)) : Tail(cascade)[k] = cascade[k + 1]
  BY AdvancedIs, AdvancedAsks
<1>2. ASSUME NEW k \in 1..Len(Advanced) PROVE Advanced[k].event = cascade[k].event /\ k \in 1..Len(cascade)
  <2>1. k = 1 \/ k \in 2..Len(cascade)
    BY <1>1
  <2> QED
    BY <1>1, <2>1
<1>3. ASSUME NEW k \in 1..Len(Tail(cascade))
      PROVE  k + 1 \in 1..Len(cascade) /\ Tail(cascade)[k].event = cascade[k + 1].event
  BY <1>1
<1> QED
  BY <1>2, <1>3

\* Steps that answer no question and enqueue nothing.
LEMMA CountedKept ==
    ASSUME TypeOK, CallsCounted, UNCHANGED <<manual, nTriggers, alarms, requested>>,
           \A k \in 1..Len(cascade') : \E l \in 1..Len(cascade) : cascade'[k].event = cascade[l].event,
           stops' = 0 => submitted' = 0 /\ client' = "free"
    PROVE  CallsCounted'
<1>1. \A k \in 1..Len(cascade') : cascade'[k].event = DrivingEvent => nTriggers'[DrivingEvent] > 0
  BY DEF CallsCounted
<1> QED
  BY <1>1 DEF CallsCounted

LEMMA CountedStep ==
    ASSUME TypeOK, StopConfigured, CallsCounted, Next
    PROVE  CallsCounted'
<1>0. /\ stops \in Nat /\ requested \in [Events -> Nat] /\ manual \in [Events -> Nat]
      /\ nTriggers \in [Events -> Nat] /\ StopEvent \in Events /\ DrivingEvent \in Events
  BY SimulatorAssumption DEF TypeOK, BucketTypeOK
<1>a. ASSUME cascade' = cascade
      PROVE  \A k \in 1..Len(cascade') : \E l \in 1..Len(cascade) : cascade'[k].event = cascade[l].event
  BY <1>a
<1>b. stops = 0 => submitted = 0 /\ client = "free"
  BY DEF CallsCounted
<1>1. CASE Start
  BY <1>1, <1>a, <1>b, CountedKept DEF Start, bucketVars, clientVars
<1>2. ASSUME NEW e \in Events, Trigger(e) PROVE CallsCounted'
  <2>1. /\ manual' = [manual EXCEPT ![e] = @ + 1] /\ requested' = [requested EXCEPT ![e] = @ + 1]
        /\ requested[e] < MaxManual[e]
        /\ UNCHANGED <<nTriggers, alarms, cascade, submitted, client, stops>>
    BY <1>2 DEF Trigger, Activate, loopVars
  <2>2. e # StopEvent
    BY <1>0, <2>1 DEF StopConfigured
  <2>3. manual'[StopEvent] = 0
    BY <1>0, <2>1, <2>2 DEF CallsCounted
  <2>4. \A d \in Events : alarms'[d] <= Alarms[d] /\ requested'[d] <= MaxManual[d]
    <3>1. MaxManual[e] \in Nat
      BY SimulatorAssumption
    <3> QED
      BY <1>0, <2>1, <3>1 DEF CallsCounted
  <2>5. requested'[DrivingEvent] <= manual'[DrivingEvent] + nTriggers'[DrivingEvent]
    <3>1. /\ requested[DrivingEvent] <= manual[DrivingEvent] + nTriggers[DrivingEvent]
          /\ requested[DrivingEvent] \in Nat /\ manual[DrivingEvent] \in Nat /\ nTriggers[DrivingEvent] \in Nat
      BY <1>0 DEF CallsCounted
    <3>2. CASE e = DrivingEvent
      BY <1>0, <2>1, <3>1, <3>2
    <3>3. CASE e # DrivingEvent
      BY <1>0, <2>1, <3>1, <3>3
    <3> QED
      BY <3>2, <3>3
  <2> QED
    BY <2>1, <2>3, <2>4, <2>5 DEF CallsCounted
<1>3. CASE StopReads
  <2>1. stops' # 0
    BY <1>0, <1>3 DEF StopReads
  <2> QED
    BY <1>3, <2>1, <1>a, CountedKept DEF StopReads, bucketVars, loopVars
<1>4. CASE StopRequests \/ StopSubmits
  <2>1. stops' # 0
    BY <1>4, <1>b DEF StopRequests, StopSubmits
  <2> QED
    BY <1>4, <2>1, <1>a, CountedKept DEF StopRequests, StopSubmits, bucketVars, loopVars
<1>5. ASSUME NEW fires \in BOOLEAN, CascadeAsk(fires) PROVE CallsCounted'
  <2>1. PICK curr \in Events :
          /\ Ask(curr, Top.event, fires)
          /\ IF fires THEN Put(queue, curr, Top.event, Top.nth, Advanced)
                      ELSE cascade' = Advanced
    BY <1>5 DEF CascadeAsk
  <2>2. ~Idle /\ UNCHANGED <<requested, stops, submitted, client>>
    BY <1>5 DEF CascadeAsk, clientVars
  <2>3. Top.event \in By /\ Advanced \in Seq(Frames)
    BY <2>2, TopTypes DEF Frames, By
  <2>4. \A k \in 1..Len(Advanced) : \E l \in 1..Len(cascade) : Advanced[k].event = cascade[l].event
    BY <2>2, AdvancedFor
  <2>5. IF fires THEN \E q, nth : Put(q, curr, Top.event, nth, Advanced) ELSE cascade' = Advanced
    BY <2>1
  <2> QED
    BY <2>1, <2>2, <2>3, <2>4, <2>5, CountedAsked
<1>6. ASSUME NEW fires \in BOOLEAN, Scan(fires) PROVE CallsCounted'
  <2>1. Order[scan] \in Events /\ None \in By
    BY SimulatorAssumption, ElementOfSeq DEF TypeOK, By
  <2>2. /\ Ask(Order[scan], None, fires) /\ cascade = <<>>
        /\ IF fires THEN Put(queue, Order[scan], None, 0, <<>>) ELSE cascade' = cascade
        /\ UNCHANGED <<requested, stops, submitted, client>>
    BY <1>6 DEF Scan, Idle, clientVars
  <2>3. IF fires THEN \E q, nth : Put(q, Order[scan], None, nth, <<>>) ELSE cascade' = <<>>
    BY <2>2
  <2>4. \A k \in 1..Len(<<>>) : \E l \in 1..Len(cascade) : <<>>[k].event = cascade[l].event
    OBVIOUS
  <2> QED
    BY <2>1, <2>2, <2>3, <2>4, EmptyCascade, CountedAsked, ZenonT(30)
<1>7. CASE CascadeSkip
  <2>1. ~Idle /\ cascade' = Advanced
    BY <1>7 DEF CascadeSkip
  <2>2. \A k \in 1..Len(cascade') : \E l \in 1..Len(cascade) : cascade'[k].event = cascade[l].event
    BY <2>1, AdvancedFor
  <2> QED
    BY <1>7, <1>b, <2>2, CountedKept DEF CascadeSkip, bucketVars, clientVars
<1>8. CASE CascadeReturn
  <2>1. ~Idle /\ cascade' = Tail(cascade)
    BY <1>8 DEF CascadeReturn
  <2>2. \A k \in 1..Len(cascade') : \E l \in 1..Len(cascade) : cascade'[k].event = cascade[l].event
    BY <2>1, AdvancedFor
  <2> QED
    BY <1>8, <1>b, <2>2, CountedKept DEF CascadeReturn, bucketVars, clientVars
<1>9. CASE Boot
  <2>1. Put(queue, StartEvent, None, 0, <<>>) /\ UNCHANGED <<bucketVars, requested, stops, submitted, client>>
    BY <1>9 DEF Boot, clientVars
  <2> QED
    BY <1>b, <2>1, CountedPut
<1>10. CASE FireRaises
  <2>1. UNCHANGED <<bucketVars, requested, stops, submitted, client>>
    BY <1>10 DEF FireRaises, clientVars
  <2>2. CASE cascade' = cascade
    BY <1>a, <1>b, <2>1, <2>2, CountedKept DEF bucketVars
  <2>3. CASE Put(Unqueued, StopEvent, None, 0, <<>>)
    BY <1>b, <2>1, <2>3, CountedPut
  <2> QED
    BY <1>10, <2>2, <2>3 DEF FireRaises
<1>11. CASE RunSubmitted
  <2>1. /\ Put(queue, StopEvent, None, 0, <<>>) /\ UNCHANGED <<bucketVars, requested, stops, client>>
        /\ submitted > 0
    BY <1>11 DEF RunSubmitted, clientVars
  <2>2. stops' # 0
    BY <1>b, <2>1
  <2> QED
    BY <2>1, <2>2, CountedPut
<1>12. CASE Loop \/ Wait \/ GetNothing \/ Finalize
  BY <1>12, <1>a, <1>b, CountedKept DEF Loop, Wait, GetNothing, Finalize, bucketVars, clientVars
<1>13. CASE Fire
  BY <1>13, <1>a, <1>b, CountedKept DEF Fire, Reset, clientVars
<1>14. CASE CloseLoop
  BY <1>14, <1>a, <1>b, CountedKept DEF CloseLoop, bucketVars, clientVars
<1> QED
  BY <1>1, <1>2, <1>3, <1>4, <1>5, <1>6, <1>7, <1>8, <1>9, <1>10, <1>11, <1>12,
     <1>13, <1>14 DEF Next, Client, Run

\* No step takes back a trigger, an execution or an exception, or sets a
\* scheduled time again.
LEMMA OnlyGrows ==
    ASSUME TypeOK, Next, NEW d \in Events
    PROVE  /\ alarms'[d] <= alarms[d] /\ nTriggers'[d] >= nTriggers[d]
           /\ nCalls'[d] >= nCalls[d] /\ raised'[d] >= raised[d]
<1>0. /\ nTriggers \in [Events -> Nat] /\ alarms \in [Events -> Nat]
      /\ nCalls \in [Events -> Nat] /\ raised \in [Events -> Nat]
      /\ alarms[d] \in Nat /\ nTriggers[d] \in Nat /\ nCalls[d] \in Nat /\ raised[d] \in Nat
  BY DEF TypeOK, BucketTypeOK
<1> DEFINE G == /\ alarms'[d] <= alarms[d] /\ nTriggers'[d] >= nTriggers[d]
                /\ nCalls'[d] >= nCalls[d] /\ raised'[d] >= raised[d]
<1> SUFFICES G
  OBVIOUS
<1>a. ASSUME alarms' = alarms, nTriggers' = nTriggers, nCalls' = nCalls, raised' = raised PROVE G
  BY <1>0, <1>a
<1>b. ASSUME NEW e \in Events, NEW by \in By, NEW fires \in BOOLEAN, Ask(e, by, fires), raised' = raised
      PROVE  G
  <2>1. /\ nCalls' = nCalls
        /\ \A c \in Events \ {e} : alarms'[c] = alarms[c] /\ nTriggers'[c] = nTriggers[c]
        /\ alarms'[e] <= alarms[e]
        /\ nTriggers'[e] = IF fires THEN nTriggers[e] + 1 ELSE nTriggers[e]
    BY <1>b, AskUses, AskCounts DEF TypeOK
  <2>2. CASE d = e
    BY <1>0, <1>b, <2>1, <2>2
  <2>3. CASE d # e
    BY <1>0, <1>b, <2>1, <2>3
  <2> QED
    BY <2>2, <2>3
<1> HIDE DEF G
<1>1. ASSUME NEW e \in Events, Trigger(e) PROVE G
  BY <1>1, <1>a DEF Trigger, Activate, ghosts
<1>2. ASSUME NEW fires \in BOOLEAN, CascadeAsk(fires) PROVE G
  BY <1>2, <1>b, CascadeAskDoes DEF CascadeAsk, ghosts, By
<1>3. ASSUME NEW fires \in BOOLEAN, Scan(fires) PROVE G
  <2>1. Order[scan] \in Events /\ None \in By
    BY SimulatorAssumption, ElementOfSeq DEF TypeOK, By
  <2> QED
    BY <1>3, <1>b, <2>1 DEF Scan, ghosts
<1>4. CASE Fire
  <2>1. Head(queue).name \in Events
    BY <1>4, HeadTypes DEF Fire, Items
  <2>2. nCalls' = [nCalls EXCEPT ![Head(queue).name] = @ + 1] /\ UNCHANGED <<alarms, nTriggers, raised>>
    BY <1>4 DEF Fire, Reset
  <2> QED
    BY <1>0, <2>1, <2>2 DEF G
<1>5. CASE FireRaises
  <2>1. Head(queue).name \in Events
    BY <1>5, HeadTypes DEF FireRaises, Items
  <2>2. raised' = [raised EXCEPT ![Head(queue).name] = @ + 1] /\ UNCHANGED <<alarms, nTriggers, nCalls>>
    BY <1>5 DEF FireRaises, bucketVars
  <2> QED
    BY <1>0, <2>1, <2>2 DEF G
<1>6. CASE Start \/ StopReads \/ StopRequests \/ StopSubmits
  BY <1>6, <1>a DEF Start, StopReads, StopRequests, StopSubmits, bucketVars, ghosts
<1>7. CASE CascadeSkip \/ CascadeReturn \/ Boot \/ Loop \/ Wait \/ GetNothing
  BY <1>7, <1>a DEF CascadeSkip, CascadeReturn, Boot, Loop, Wait, GetNothing, bucketVars, ghosts
<1>8. CASE Finalize \/ CloseLoop \/ RunSubmitted
  BY <1>8, <1>a DEF Finalize, CloseLoop, RunSubmitted, bucketVars, ghosts
<1> QED
  BY <1>1, <1>2, <1>3, <1>4, <1>5, <1>6, <1>7, <1>8 DEF Next, Client, Run, G

\* What has been disturbed stays so.
LEMMA WasUndisturbed ==
    ASSUME TypeOK, CallsCounted, Next, Undisturbed'
    PROVE  Undisturbed
<1>1. ASSUME NEW d \in Events PROVE alarms[d] = Alarms[d] /\ raised[d] = 0
  <2>1. alarms'[d] = Alarms[d] /\ raised'[d] = 0
    BY DEF Undisturbed
  <2>2. /\ alarms[d] <= Alarms[d] /\ alarms[d] \in Nat /\ Alarms[d] \in Nat /\ raised[d] \in Nat
    BY BucketAssumption DEF CallsCounted, TypeOK, BucketTypeOK
  <2>3. alarms'[d] <= alarms[d] /\ raised'[d] >= raised[d]
    BY OnlyGrows
  <2> QED
    BY <2>1, <2>2, <2>3
<1>2. alarms \in [Events -> Nat]
  BY DEF TypeOK, BucketTypeOK
<1> QED
  BY <1>1, <1>2 DEF Undisturbed

\* Unless the client called stop(), only the driving event at its limit ends an
\* undisturbed simulation, and the loop is not left before it has executed.
EndsForCause ==
    Undisturbed =>
        /\ status = "STOPPING" => Exhausted(DrivingEvent) \/ stops > 0
        /\ pc \in Over => nCalls[DrivingEvent] >= MaxTriggers[DrivingEvent] \/ stops > 0

\* Once the queue is empty, the driving event has executed as often as it has
\* triggered.
LEMMA AllExecuted ==
    ASSUME Inv, StopConfigured, Undisturbed, queue = <<>>
    PROVE  nCalls[DrivingEvent] = nTriggers[DrivingEvent]
<1>1. /\ DrivingEvent \in Triggered /\ DrivingEvent \in Events
      /\ nTriggers[DrivingEvent] = nCalls[DrivingEvent] + raised[DrivingEvent] + Queued(DrivingEvent)
  BY SimulatorAssumption DEF Inv, EveryTriggerRunsOnce, Triggered
<1>2. Queued(DrivingEvent) = 0
  <2>1. Places(queue, DrivingEvent) = {}
    BY DEF Places
  <2>2. Waiting(queue, DrivingEvent) = 0
    BY <2>1, FS_EmptySet DEF Waiting
  <2> QED
    BY <2>2, QueuedIsWaiting
<1>3. raised[DrivingEvent] = 0 /\ nCalls[DrivingEvent] \in Nat
  BY <1>1 DEF Undisturbed, Inv, TypeOK, BucketTypeOK
<1> QED
  BY <1>1, <1>2, <1>3

LEMMA AtMultiple ==
    ASSUME NEW n \in Nat \ {0}, NEW m \in Nat \ {0}, n % m = 0
    PROVE  n >= m
<1>1. CASE n < m
  <2>1. n % m = n
    BY <1>1
  <2> QED
    BY <2>1
<1> QED
  BY <1>1

\* Only the driving event at its limit, or the timeout, triggers stop.
LEMMA StopTriggered ==
    ASSUME TypeOK, StopConfigured, CallsCounted, NEW by \in By, Ask(StopEvent, by, TRUE), Undisturbed',
           by = DrivingEvent => nTriggers[DrivingEvent] > 0
    PROVE  Exhausted(DrivingEvent)
<1>1. /\ StopEvent \in Events /\ DrivingEvent \in Events /\ nTriggers[DrivingEvent] \in Nat
      /\ alarms[StopEvent] \in Nat /\ Alarms[StopEvent] \in Nat /\ MaxTriggers[DrivingEvent] \in Nat
      /\ alarms[StopEvent] <= Alarms[StopEvent]
  BY SimulatorAssumption, BucketAssumption DEF TypeOK, BucketTypeOK, CallsCounted
<1>2. alarms'[StopEvent] = Alarms[StopEvent]
  BY <1>1 DEF Undisturbed
<1>3. manual[StopEvent] = 0 /\ BucketTypeOK
  BY DEF CallsCounted, TypeOK
<1>4. /\ by = DrivingEvent
      /\ MaxTriggers[DrivingEvent] \in Nat \ {0}
      /\ nTriggers[DrivingEvent] % MaxTriggers[DrivingEvent] = 0
  <2>1. ~(alarms'[StopEvent] < alarms[StopEvent])
    BY <1>1, <1>2
  <2> QED
    BY <1>3, <2>1, StopCause
<1> QED
  BY <1>1, <1>4, AtMultiple DEF Exhausted

LEMMA EndsStep ==
    ASSUME Inv, StopConfigured, CallsCounted, EndsForCause, Next
    PROVE  EndsForCause'
<1> SUFFICES ASSUME Undisturbed'
             PROVE  /\ status' = "STOPPING" => Exhausted(DrivingEvent)' \/ stops' > 0
                    /\ pc' \in Over => nCalls'[DrivingEvent] >= MaxTriggers[DrivingEvent] \/ stops' > 0
  BY DEF EndsForCause
<1>0. /\ TypeOK /\ DrivingEvent \in Events /\ nTriggers[DrivingEvent] \in Nat /\ nCalls[DrivingEvent] \in Nat
      /\ MaxTriggers[DrivingEvent] \in Nat /\ stops \in Nat /\ raised \in [Events -> Nat]
  BY SimulatorAssumption, BucketAssumption DEF Inv, TypeOK, BucketTypeOK
<1>a. Undisturbed
  BY <1>0, WasUndisturbed
<1>b. TypeOK'
  BY <1>0, TypeStep
<1>c. /\ nTriggers'[DrivingEvent] >= nTriggers[DrivingEvent] /\ nCalls'[DrivingEvent] >= nCalls[DrivingEvent]
      /\ nTriggers'[DrivingEvent] \in Nat /\ nCalls'[DrivingEvent] \in Nat
  BY <1>0, <1>b, OnlyGrows DEF TypeOK, BucketTypeOK
<1>d. stops' \in {stops, stops + 1} /\ (stops > 0 => stops' > 0)
  BY <1>0 DEF Next, Client, Run, Start, Trigger, StopReads, StopRequests, StopSubmits, CascadeAsk, Scan,
     CascadeSkip, CascadeReturn, Boot, Loop, Wait, GetNothing, Fire, FireRaises, Finalize, CloseLoop,
     RunSubmitted, clientVars
<1>e. Exhausted(DrivingEvent) => Exhausted(DrivingEvent)'
  BY <1>0, <1>c DEF Exhausted
<1>f. /\ status = "STOPPING" => Exhausted(DrivingEvent)' \/ stops' > 0
      /\ pc \in Over => nCalls'[DrivingEvent] >= MaxTriggers[DrivingEvent] \/ stops' > 0
  BY <1>0, <1>a, <1>c, <1>d, <1>e DEF EndsForCause
<1>g. stops = 0 => submitted = 0 /\ client = "free"
  BY DEF CallsCounted
<1>2. CASE Loop
  <2>1. status' = status
    BY <1>2 DEF Loop
  <2>2. ASSUME pc' \in Over PROVE nCalls'[DrivingEvent] >= MaxTriggers[DrivingEvent] \/ stops' > 0
    <3>1. status = "STOPPING" /\ queue = <<>>
      BY <1>2, <2>2 DEF Loop, Leaves, Over, Inv, StatusFollowsRun, TypeOK
    <3>2. Exhausted(DrivingEvent) \/ stops > 0
      BY <1>a, <3>1 DEF EndsForCause
    <3>3. nCalls[DrivingEvent] = nTriggers[DrivingEvent]
      BY <1>a, <3>1, AllExecuted
    <3> QED
      BY <1>0, <1>c, <1>d, <3>2, <3>3 DEF Exhausted
  <2> QED
    BY <1>f, <2>1, <2>2
<1>3. ASSUME NEW fires \in BOOLEAN, CascadeAsk(fires)
      PROVE  /\ status' = "STOPPING" => Exhausted(DrivingEvent)' \/ stops' > 0
             /\ pc' \in Over => nCalls'[DrivingEvent] >= MaxTriggers[DrivingEvent] \/ stops' > 0
  <2>1. PICK curr \in Events :
          /\ Ask(curr, Top.event, fires)
          /\ IF fires THEN Put(queue, curr, Top.event, Top.nth, Advanced)
                      ELSE status' = status
    BY <1>3 DEF CascadeAsk
  <2>2. ~Idle /\ pc' = pc
    BY <1>3 DEF CascadeAsk
  <2>3. Top.event \in By
    BY <1>0, <2>2, TopTypes DEF Frames, By
  <2>4. CASE fires /\ curr = StopEvent
    <3>1. 1 \in 1..Len(cascade) /\ cascade[1] = Top
      BY <1>0, <2>2, AdvancedIs
    <3>2. Top.event = DrivingEvent => nTriggers[DrivingEvent] > 0
      BY <3>1 DEF CallsCounted
    <3>3. Exhausted(DrivingEvent)
      BY <1>0, <2>1, <2>3, <2>4, <3>2, StopTriggered
    <3> QED
      BY <1>e, <1>f, <2>2, <3>3
  <2>5. CASE status' = status
    BY <1>f, <2>2, <2>5
  <2> QED
    BY <2>1, <2>4, <2>5 DEF Put, StatusAfter
<1>4. ASSUME NEW fires \in BOOLEAN, Scan(fires)
      PROVE  /\ status' = "STOPPING" => Exhausted(DrivingEvent)' \/ stops' > 0
             /\ pc' \in Over => nCalls'[DrivingEvent] >= MaxTriggers[DrivingEvent] \/ stops' > 0
  <2>1. /\ Ask(Order[scan], None, fires)
        /\ IF fires THEN Put(queue, Order[scan], None, 0, <<>>) ELSE status' = status
        /\ pc' \notin Over
    BY <1>4 DEF Scan, Over
  <2>2. None \in By /\ None # DrivingEvent
    BY <1>0, BucketAssumption DEF By
  <2>3. CASE fires /\ Order[scan] = StopEvent
    <3>1. Exhausted(DrivingEvent)
      BY <1>0, <2>1, <2>2, <2>3, StopTriggered
    <3> QED
      BY <1>e, <2>1, <3>1
  <2>4. CASE status' = status
    BY <1>f, <2>1, <2>4
  <2> QED
    BY <2>1, <2>3, <2>4 DEF Put, StatusAfter
<1>5. CASE FireRaises
  <2>1. Head(queue).name \in Events
    BY <1>0, <1>5, HeadTypes DEF FireRaises, Items
  <2>2. raised'[Head(queue).name] = raised[Head(queue).name] + 1 /\ raised[Head(queue).name] \in Nat
    BY <1>0, <1>5, <2>1 DEF FireRaises
  <2>3. raised'[Head(queue).name] = 0
    BY <2>1 DEF Undisturbed
  <2> QED
    BY <2>2, <2>3
<1>6. CASE RunSubmitted
  <2>1. stops > 0
    BY <1>0, <1>6, <1>g DEF RunSubmitted
  <2> QED
    BY <1>d, <2>1
<1>7. CASE Start
  BY <1>7, <1>f DEF Start, Over
<1>8. ASSUME NEW e \in Events, Trigger(e)
      PROVE  /\ status' = "STOPPING" => Exhausted(DrivingEvent)' \/ stops' > 0
             /\ pc' \in Over => nCalls'[DrivingEvent] >= MaxTriggers[DrivingEvent] \/ stops' > 0
  BY <1>8, <1>f DEF Trigger, loopVars
<1>9. CASE StopReads \/ StopRequests \/ StopSubmits
  BY <1>9, <1>f DEF StopReads, StopRequests, StopSubmits, loopVars
<1>10. CASE CascadeSkip \/ CascadeReturn \/ Wait \/ GetNothing \/ Fire
  BY <1>10, <1>f DEF CascadeSkip, CascadeReturn, Wait, GetNothing, Fire, Over
<1>11. CASE Boot
  <2>1. status' = status
    BY <1>11, SimulatorAssumption DEF Boot, Put, StatusAfter
  <2> QED
    BY <1>11, <1>f, <2>1 DEF Boot, Over
<1>12. CASE Finalize \/ CloseLoop
  BY <1>12, <1>f DEF Finalize, CloseLoop, Over
<1> QED
  BY <1>2, <1>3, <1>4, <1>5, <1>6, <1>7, <1>8, <1>9, <1>10, <1>11, <1>12 DEF Next, Client, Run

-----------------------------------------------------------------------------
(* The steps triggered before the stop.                                    *)

\* The call f has yet to ask e.
StillAsks(f, e) == \E j \in f.next..Len(Ordered) : Ordered[j] = e

\* The calls under way for the driving event that have yet to ask s, counted
\* from the outermost.
ToFollow(f, s) == f.event = DrivingEvent /\ StillAsks(f, s)
Following(stack, s) == {d \in 0..(Len(stack) - 1) : ToFollow(stack[Len(stack) - d], s)}

\* s triggers once for each trigger of the driving event and for each call of
\* trigger(s), so that its limit does not come before the driving event's.
RoomToFollow(s) ==
    manual[s] + nTriggers[s] + Cardinality(Following(cascade, s))
        <= nTriggers[DrivingEvent] + requested[s]

LEMMA FollowingFinite ==
    ASSUME NEW stack \in Seq(Frames), NEW s
    PROVE  IsFiniteSet(Following(stack, s)) /\ Cardinality(Following(stack, s)) \in Nat
<1>1. Len(stack) \in Nat
  BY LenProperties
<1>2. IsFiniteSet(0..(Len(stack) - 1))
  BY <1>1, FS_Interval
<1>3. Following(stack, s) \subseteq 0..(Len(stack) - 1)
  BY DEF Following
<1> QED
  BY <1>2, <1>3, FS_Subset, FS_CardinalityType

LEMMA FollowingOnTop ==
    ASSUME NEW outer \in Seq(Frames), NEW e \in Events, OnTop(e, outer), NEW s, cascade' \in Seq(Frames)
    PROVE  Cardinality(Following(cascade', s))
               <= Cardinality(Following(outer, s)) + (IF e = DrivingEvent THEN 1 ELSE 0)
<1>1. /\ Len(outer) \in Nat /\ Len(cascade') = Len(outer) + 1 /\ cascade'[1].event = e
      /\ \A k \in 1..Len(outer) : cascade'[k + 1] = outer[k]
  BY LenProperties DEF OnTop
<1>2. ASSUME NEW d \in Following(cascade', s)
      PROVE  d \in Following(outer, s) \/ (d = Len(outer) /\ e = DrivingEvent)
  <2>1. d \in 0..Len(outer) /\ ToFollow(cascade'[(Len(outer) + 1) - d], s)
    BY <1>1 DEF Following
  <2>2. CASE d = Len(outer)
    BY <1>1, <2>1, <2>2 DEF ToFollow
  <2>3. CASE d # Len(outer)
    <3>1. Len(outer) - d \in 1..Len(outer) /\ (Len(outer) - d) + 1 = (Len(outer) + 1) - d
          /\ d \in 0..(Len(outer) - 1)
      BY <1>1, <2>1, <2>3
    <3>2. cascade'[(Len(outer) + 1) - d] = outer[Len(outer) - d]
      BY <1>1, <3>1
    <3> QED
      BY <2>1, <3>1, <3>2 DEF Following
  <2> QED
    BY <2>2, <2>3
<1> DEFINE F == Following(outer, s)
           G == Following(cascade', s)
<1>3. IsFiniteSet(F) /\ Cardinality(F) \in Nat /\ IsFiniteSet(G) /\ Cardinality(G) \in Nat
  BY FollowingFinite
<1>4. G \subseteq F \cup {Len(outer)} /\ (e # DrivingEvent => G \subseteq F)
  BY <1>2
<1> HIDE DEF F, G
<1>5. IsFiniteSet(F \cup {Len(outer)}) /\ Cardinality(F \cup {Len(outer)}) <= Cardinality(F) + 1
      /\ Cardinality(F \cup {Len(outer)}) \in Nat
  <2>1. /\ IsFiniteSet(F \cup {Len(outer)})
        /\ Cardinality(F \cup {Len(outer)}) =
              IF Len(outer) \in F THEN Cardinality(F) ELSE Cardinality(F) + 1
    BY <1>3, FS_AddElement
  <2> QED
    BY <1>3, <2>1
<1>6. CASE e = DrivingEvent
  <2>1. Cardinality(G) <= Cardinality(F \cup {Len(outer)})
    BY <1>4, <1>5, FS_Subset
  <2> QED
    BY <1>3, <1>5, <1>6, <2>1 DEF F, G
<1>7. CASE e # DrivingEvent
  <2>1. Cardinality(G) <= Cardinality(F)
    BY <1>3, <1>4, <1>7, FS_Subset
  <2> QED
    BY <1>3, <1>7, <2>1 DEF F, G
<1> QED
  BY <1>6, <1>7

\* Going on and returning leave no more calls to follow, and one less when the
\* innermost asked s.
LEMMA FollowingLess ==
    ASSUME TypeOK, ~Idle, NEW s
    PROVE  /\ Cardinality(Following(Advanced, s)) <= Cardinality(Following(cascade, s))
           /\ Cardinality(Following(Tail(cascade), s)) <= Cardinality(Following(cascade, s))
           /\ Top.event = DrivingEvent /\ Top.next <= Len(Ordered) /\ Ordered[Top.next] = s
              => Cardinality(Following(Advanced, s)) <= Cardinality(Following(cascade, s)) - 1
<1> DEFINE n == Len(cascade)
           F == Following(cascade, s)
           G == Following(Advanced, s)
           H == Following(Tail(cascade), s)
<1>1. /\ Advanced \in Seq(Frames) /\ Len(Advanced) = n /\ n \in Nat \ {0}
      /\ Advanced[1] = [Top EXCEPT !.next = @ + 1] /\ cascade[1] = Top
      /\ \A k \in 2..n : Advanced[k] = cascade[k]
      /\ Len(Tail(cascade)) = n - 1
      /\ \A k \in 1..Len(Tail(cascade)) : Tail(cascade)[k] = cascade[k + 1]
      /\ Tail(cascade) \in Seq(Frames) /\ cascade \in Seq(Frames) /\ Top \in Frames
  BY AdvancedIs, TopTypes DEF TypeOK
<1>2. /\ Top.next \in Nat \ {0} /\ Advanced[1].next = Top.next + 1 /\ Advanced[1].event = Top.event
      /\ Len(Ordered) \in Nat
  BY <1>1, OrderedFacts DEF Frames
<1> HIDE DEF n
<1>3. StillAsks(Advanced[1], s) => StillAsks(Top, s)
  <2>1. \A j \in (Top.next + 1)..Len(Ordered) : j \in Top.next..Len(Ordered)
    BY <1>2
  <2> QED
    BY <1>2, <2>1 DEF StillAsks
<1>4. ASSUME NEW d \in G PROVE d \in F
  <2>1. d \in 0..(n - 1) /\ ToFollow(Advanced[n - d], s)
    BY <1>1 DEF Following, G
  <2>2. CASE n - d = 1
    BY <1>1, <1>2, <1>3, <2>1, <2>2 DEF Following, ToFollow, F, n
  <2>3. CASE n - d # 1
    <3>1. n - d \in 2..n
      BY <1>1, <2>1, <2>3
    <3> QED
      BY <1>1, <2>1, <3>1 DEF Following, F, n
  <2> QED
    BY <2>2, <2>3
<1>5. ASSUME NEW d \in H PROVE d \in F
  <2>1. d \in 0..((n - 1) - 1) /\ ToFollow(Tail(cascade)[(n - 1) - d], s)
    BY <1>1 DEF Following, H
  <2>2. (n - 1) - d \in 1..(n - 1) /\ ((n - 1) - d) + 1 = n - d /\ d \in 0..(n - 1)
    BY <1>1, <2>1
  <2>3. Tail(cascade)[(n - 1) - d] = cascade[n - d]
    BY <1>1, <2>2
  <2> QED
    BY <2>1, <2>2, <2>3 DEF Following, F, n
<1>6. ASSUME Top.event = DrivingEvent, Top.next <= Len(Ordered), Ordered[Top.next] = s
      PROVE  (n - 1) \in F /\ (n - 1) \notin G
  <2>1. Top.next \in Top.next..Len(Ordered)
    BY <1>2, <1>6
  <2>2. ToFollow(cascade[1], s)
    BY <1>1, <1>6, <2>1 DEF ToFollow, StillAsks
  <2>3. n - 1 \in 0..(n - 1) /\ n - (n - 1) = 1
    BY <1>1
  <2>4. (n - 1) \in F
    BY <2>2, <2>3 DEF Following, F, n
  <2>5. ~StillAsks(Advanced[1], s)
    <3> SUFFICES ASSUME NEW j \in (Top.next + 1)..Len(Ordered), Ordered[j] = s PROVE FALSE
      BY <1>2 DEF StillAsks
    <3>1. j \in 1..Len(Ordered) /\ Top.next \in 1..Len(Ordered) /\ j # Top.next
      BY <1>2, <1>6
    <3> QED
      BY <1>6, <3>1, OrderedFacts
  <2>6. (n - 1) \notin G
    BY <1>1, <2>3, <2>5 DEF Following, ToFollow, G
  <2> QED
    BY <2>4, <2>6
<1>7. /\ IsFiniteSet(F) /\ Cardinality(F) \in Nat /\ Cardinality(G) \in Nat /\ Cardinality(H) \in Nat
  BY <1>1, FollowingFinite
<1> HIDE DEF F, G, H
<1>8. Cardinality(G) <= Cardinality(F) /\ Cardinality(H) <= Cardinality(F)
  BY <1>4, <1>5, <1>7, FS_Subset
<1>9. ASSUME Top.event = DrivingEvent, Top.next <= Len(Ordered), Ordered[Top.next] = s
      PROVE  Cardinality(G) <= Cardinality(F) - 1
  <2>1. G \subseteq F \ {n - 1} /\ (n - 1) \in F
    BY <1>4, <1>6, <1>9
  <2>2. IsFiniteSet(F \ {n - 1}) /\ Cardinality(F \ {n - 1}) = Cardinality(F) - 1
    BY <1>7, <2>1, FS_RemoveElement
  <2>3. Cardinality(G) <= Cardinality(F \ {n - 1})
    BY <2>1, <2>2, FS_Subset
  <2> QED
    BY <2>2, <2>3
<1> QED
  BY <1>8, <1>9 DEF F, G, H

LEMMA OneForOne ==
    \A m, t, c, d, r, m1, n, o \in Nat :
        /\ m + t + c <= d + r
        /\ n <= o
        /\ (m1 <= m /\ o <= c - 1) \/ (m1 = m - 1 /\ o <= c)
        => m1 + (t + 1) + n <= d + r
OBVIOUS

\* A question and what it enqueues leave room for s to follow.
LEMMA RoomAsked ==
    ASSUME TypeOK, NEW s \in Events, FollowsSteps(s), RoomToFollow(s), requested' = requested, TypeOK',
           NEW e \in Events, NEW by \in By, NEW fires \in BOOLEAN, Ask(e, by, fires),
           NEW outer \in Seq(Frames),
           Cardinality(Following(outer, s)) <= Cardinality(Following(cascade, s)),
           e = s /\ by = DrivingEvent
               => Cardinality(Following(outer, s)) <= Cardinality(Following(cascade, s)) - 1,
           IF fires THEN \E q, nth : Put(q, e, by, nth, outer) ELSE cascade' = outer
    PROVE  RoomToFollow(s)'
<1> DEFINE D == DrivingEvent
           c == Cardinality(Following(cascade, s))
           o == Cardinality(Following(outer, s))
           n == Cardinality(Following(cascade', s))
<1>1. /\ manual[s] \in Nat /\ nTriggers[s] \in Nat /\ nTriggers[D] \in Nat /\ requested[s] \in Nat
      /\ manual'[s] \in Nat /\ nTriggers'[s] \in Nat /\ nTriggers'[D] \in Nat
      /\ D \in Events /\ s # D
  BY SimulatorAssumption DEF TypeOK, BucketTypeOK, FollowsSteps
<1>2. c \in Nat /\ o \in Nat /\ n \in Nat
  BY FollowingFinite DEF TypeOK
<1>3. o <= c /\ (e = s /\ by = D => o <= c - 1)
  OBVIOUS
<1>4. IF fires THEN n <= o + (IF e = D THEN 1 ELSE 0) ELSE n = o
  <2>1. CASE ~fires
    BY <2>1
  <2>2. CASE fires
    <3>1. CASE e \in Post
      <4>1. cascade' = outer
        BY <2>2, <3>1, PutStack DEF TypeOK
      <4> QED
        BY <1>1, <1>2, <2>2, <4>1
    <3>2. CASE e \notin Post
      <4>1. OnTop(e, outer) /\ cascade' \in Seq(Frames)
        BY <2>2, <3>2, PutStack DEF TypeOK
      <4> QED
        BY <2>2, <4>1, FollowingOnTop
    <3> QED
      BY <3>1, <3>2
  <2> QED
    BY <2>1, <2>2
<1>5. /\ \A d \in Events \ {e} : manual'[d] = manual[d] /\ nTriggers'[d] = nTriggers[d]
      /\ \/ manual'[e] = manual[e]
         \/ fires /\ manual[e] > 0 /\ manual'[e] = manual[e] - 1
      /\ nTriggers'[e] = IF fires THEN nTriggers[e] + 1 ELSE nTriggers[e]
  BY AskUses DEF TypeOK
<1>6. e = s /\ fires /\ by # D => manual'[s] = manual[s] - 1
  BY FollowerElse DEF TypeOK
<1>7. manual[s] + nTriggers[s] + c <= nTriggers[D] + requested[s]
  BY DEF RoomToFollow
<1> HIDE DEF D, c, o, n
<1>8. manual'[s] + nTriggers'[s] + n <= nTriggers'[D] + requested[s]
  <2>1. CASE ~fires
    <3>1. nTriggers'[s] = nTriggers[s] /\ nTriggers'[D] = nTriggers[D] /\ manual'[s] = manual[s]
      BY <1>1, <1>5, <2>1
    <3> QED
      BY <1>1, <1>2, <1>3, <1>4, <1>7, <2>1, <3>1
  <2>2. CASE fires /\ e = s
    <3>1. nTriggers'[s] = nTriggers[s] + 1 /\ nTriggers'[D] = nTriggers[D] /\ n <= o
      BY <1>1, <1>2, <1>4, <1>5, <2>2
    <3>2. (manual'[s] <= manual[s] /\ o <= c - 1) \/ (manual'[s] = manual[s] - 1 /\ o <= c)
      <4>1. CASE by = D
        BY <1>1, <1>3, <1>5, <2>2, <4>1
      <4>2. CASE by # D
        BY <1>3, <1>6, <2>2, <4>2
      <4> QED
        BY <4>1, <4>2
    <3>3. manual'[s] + (nTriggers[s] + 1) + n <= nTriggers[D] + requested[s]
      BY <1>1, <1>2, <1>7, <3>1, <3>2, OneForOne
    <3> QED
      BY <3>1, <3>3
  <2>3. CASE fires /\ e = D
    <3>1. /\ nTriggers'[s] = nTriggers[s] /\ manual'[s] = manual[s] /\ nTriggers'[D] = nTriggers[D] + 1
          /\ n <= o + 1 /\ o <= c
      BY <1>1, <1>3, <1>4, <1>5, <2>3
    <3> QED
      BY <1>1, <1>2, <1>7, <3>1
  <2>4. CASE fires /\ e \notin {s, D}
    <3>1. /\ nTriggers'[s] = nTriggers[s] /\ manual'[s] = manual[s] /\ nTriggers'[D] = nTriggers[D]
          /\ n <= o /\ o <= c
      BY <1>1, <1>2, <1>3, <1>4, <1>5, <2>4
    <3> QED
      BY <1>1, <1>2, <1>7, <3>1
  <2> QED
    BY <2>1, <2>2, <2>3, <2>4
<1> QED
  BY <1>8 DEF RoomToFollow, D, n

\* Neither start nor stop is followed by s.
LEMMA RoomPut ==
    ASSUME TypeOK, TypeOK', NEW s \in Events, RoomToFollow(s), UNCHANGED <<bucketVars, requested>>,
           NEW q, NEW e \in {StartEvent, StopEvent}, Put(q, e, None, 0, <<>>)
    PROVE  RoomToFollow(s)'
<1>1. e \in Events /\ e # DrivingEvent /\ e \notin Post
  BY SimulatorAssumption
<1>2. OnTop(e, <<>>) /\ cascade' \in Seq(Frames)
  BY <1>1, EmptyCascade, PutStack DEF TypeOK
<1>3. Cardinality(Following(cascade', s)) <= Cardinality(Following(<<>>, s)) + 0
  BY <1>1, <1>2, EmptyCascade, FollowingOnTop
<1>4. Cardinality(Following(<<>>, s)) = 0
  <2>1. Following(<<>>, s) = {}
    BY DEF Following
  <2> QED
    BY <2>1, FS_EmptySet
<1>5. Cardinality(Following(cascade', s)) = 0
  <2>1. Cardinality(Following(cascade', s)) \in Nat
    BY <1>2, FollowingFinite
  <2> QED
    BY <1>3, <1>4, <2>1
<1>6. /\ manual[s] \in Nat /\ nTriggers[s] \in Nat /\ nTriggers[DrivingEvent] \in Nat /\ requested[s] \in Nat
      /\ Cardinality(Following(cascade, s)) \in Nat
  BY SimulatorAssumption, FollowingFinite DEF TypeOK, BucketTypeOK
<1>7. manual[s] + nTriggers[s] + 0 <= nTriggers[DrivingEvent] + requested[s]
  BY <1>6 DEF RoomToFollow
<1>8. manual' = manual /\ nTriggers' = nTriggers
  BY DEF bucketVars
<1> QED
  BY <1>5, <1>7, <1>8 DEF RoomToFollow

LEMMA RoomKept ==
    ASSUME TypeOK, TypeOK', NEW s \in Events, RoomToFollow(s), manual' = manual, nTriggers' = nTriggers,
           requested' = requested,
           Cardinality(Following(cascade', s)) <= Cardinality(Following(cascade, s))
    PROVE  RoomToFollow(s)'
<1>1. /\ manual[s] \in Nat /\ nTriggers[s] \in Nat /\ nTriggers[DrivingEvent] \in Nat /\ requested[s] \in Nat
      /\ Cardinality(Following(cascade, s)) \in Nat /\ Cardinality(Following(cascade', s)) \in Nat
  BY SimulatorAssumption, FollowingFinite DEF TypeOK, BucketTypeOK
<1> QED
  BY <1>1 DEF RoomToFollow

LEMMA RoomStep ==
    ASSUME TypeOK, NEW s \in Events, FollowsSteps(s), RoomToFollow(s), Next
    PROVE  RoomToFollow(s)'
<1>0. TypeOK'
  BY TypeStep
<1>a. Cardinality(Following(cascade, s)) <= Cardinality(Following(cascade, s))
  <2>1. Cardinality(Following(cascade, s)) \in Nat
    BY FollowingFinite DEF TypeOK
  <2> QED
    BY <2>1
<1>b. ASSUME manual' = manual, nTriggers' = nTriggers, requested' = requested, cascade' = cascade
      PROVE  RoomToFollow(s)'
  BY <1>0, <1>a, <1>b, RoomKept
<1>1. CASE Start \/ StopReads \/ StopRequests \/ StopSubmits
  BY <1>1, <1>b DEF Start, StopReads, StopRequests, StopSubmits, bucketVars, loopVars, clientVars
<1>2. ASSUME NEW e \in Events, Trigger(e) PROVE RoomToFollow(s)'
  <2>1. /\ manual' = [manual EXCEPT ![e] = @ + 1] /\ requested' = [requested EXCEPT ![e] = @ + 1]
        /\ nTriggers' = nTriggers /\ cascade' = cascade
    BY <1>2 DEF Trigger, Activate, loopVars
  <2>2. /\ manual[s] \in Nat /\ nTriggers[s] \in Nat /\ nTriggers[DrivingEvent] \in Nat
        /\ requested[s] \in Nat /\ Cardinality(Following(cascade, s)) \in Nat
        /\ manual \in [Events -> Nat] /\ requested \in [Events -> Nat]
    BY SimulatorAssumption, FollowingFinite DEF TypeOK, BucketTypeOK
  <2>3. CASE e = s
    <3>1. manual'[s] = manual[s] + 1 /\ requested'[s] = requested[s] + 1
      BY <2>1, <2>2, <2>3
    <3> QED
      BY <2>1, <2>2, <3>1 DEF RoomToFollow
  <2>4. CASE e # s
    <3>1. manual'[s] = manual[s] /\ requested'[s] = requested[s]
      BY <2>1, <2>2, <2>4
    <3> QED
      BY <2>1, <3>1 DEF RoomToFollow
  <2> QED
    BY <2>3, <2>4
<1>3. ASSUME NEW fires \in BOOLEAN, CascadeAsk(fires) PROVE RoomToFollow(s)'
  <2>1. PICK curr \in Events :
          /\ curr = Ordered[Top.next]
          /\ Ask(curr, Top.event, fires)
          /\ IF fires THEN Put(queue, curr, Top.event, Top.nth, Advanced)
                      ELSE cascade' = Advanced
    BY <1>3 DEF CascadeAsk
  <2>2. ~Idle /\ Top.next <= Len(Ordered) /\ requested' = requested
    BY <1>3 DEF CascadeAsk, clientVars
  <2>3. Top.event \in By /\ Advanced \in Seq(Frames)
    BY <2>2, TopTypes DEF Frames, By
  <2>4. IF fires THEN \E q, nth : Put(q, curr, Top.event, nth, Advanced) ELSE cascade' = Advanced
    BY <2>1
  <2>5. /\ Cardinality(Following(Advanced, s)) <= Cardinality(Following(cascade, s))
        /\ curr = s /\ Top.event = DrivingEvent
           => Cardinality(Following(Advanced, s)) <= Cardinality(Following(cascade, s)) - 1
    BY <2>1, <2>2, FollowingLess
  <2> QED
    BY <1>0, <2>1, <2>2, <2>3, <2>4, <2>5, RoomAsked
<1>4. ASSUME NEW fires \in BOOLEAN, Scan(fires) PROVE RoomToFollow(s)'
  <2>1. Order[scan] \in Events /\ None \in By /\ None # DrivingEvent
    BY SimulatorAssumption, BucketAssumption, ElementOfSeq DEF TypeOK, By
  <2>2. /\ Ask(Order[scan], None, fires) /\ cascade = <<>>
        /\ IF fires THEN Put(queue, Order[scan], None, 0, <<>>) ELSE cascade' = cascade
        /\ requested' = requested
    BY <1>4 DEF Scan, Idle, clientVars
  <2>3. IF fires THEN \E q, nth : Put(q, Order[scan], None, nth, cascade) ELSE cascade' = cascade
    BY <2>2
  <2>4. cascade \in Seq(Frames)
    BY DEF TypeOK
  <2> QED
    BY <1>0, <1>a, <2>1, <2>2, <2>3, <2>4, RoomAsked, ZenonT(30)
<1>5. CASE CascadeSkip
  <2>1. ~Idle /\ cascade' = Advanced /\ manual' = manual /\ nTriggers' = nTriggers /\ requested' = requested
    BY <1>5 DEF CascadeSkip, bucketVars, clientVars
  <2> QED
    BY <1>0, <2>1, FollowingLess, RoomKept
<1>6. CASE CascadeReturn
  <2>1. ~Idle /\ cascade' = Tail(cascade) /\ manual' = manual /\ nTriggers' = nTriggers /\ requested' = requested
    BY <1>6 DEF CascadeReturn, bucketVars, clientVars
  <2> QED
    BY <1>0, <2>1, FollowingLess, RoomKept
<1>7. CASE Boot
  <2>1. Put(queue, StartEvent, None, 0, <<>>) /\ UNCHANGED <<bucketVars, requested>>
    BY <1>7 DEF Boot, clientVars
  <2> QED
    BY <1>0, <2>1, RoomPut
<1>8. CASE FireRaises
  <2>1. UNCHANGED <<bucketVars, requested>>
    BY <1>8 DEF FireRaises, clientVars
  <2>2. CASE cascade' = cascade
    BY <1>b, <2>1, <2>2 DEF bucketVars
  <2>3. CASE Put(Unqueued, StopEvent, None, 0, <<>>)
    BY <1>0, <2>1, <2>3, RoomPut
  <2> QED
    BY <1>8, <2>2, <2>3 DEF FireRaises
<1>9. CASE RunSubmitted
  <2>1. Put(queue, StopEvent, None, 0, <<>>) /\ UNCHANGED <<bucketVars, requested>>
    BY <1>9 DEF RunSubmitted, clientVars
  <2> QED
    BY <1>0, <2>1, RoomPut
<1>10. CASE Loop \/ Wait \/ GetNothing \/ Finalize \/ CloseLoop
  BY <1>10, <1>b DEF Loop, Wait, GetNothing, Finalize, CloseLoop, bucketVars, clientVars
<1>11. CASE Fire
  BY <1>11, <1>b DEF Fire, Reset, clientVars
<1> QED
  BY <1>1, <1>2, <1>3, <1>4, <1>5, <1>6, <1>7, <1>8, <1>9, <1>10, <1>11 DEF Next, Client, Run

\* The call f has yet to ask the driving event or, if it is one for the driving
\* event, the event that follows and will ask it.
Returns(f, s) == StillAsks(f, IF f.event = DrivingEvent THEN s ELSE DrivingEvent)
Coming(stack, s) == \E k \in 1..Len(stack) : Returns(stack[k], s)

LEMMA ComingOnTop ==
    ASSUME NEW outer \in Seq(Frames), NEW e \in Events, OnTop(e, outer), NEW s \in Events
    PROVE  Coming(cascade', s)
<1>1. Len(cascade') \in Nat \ {0} /\ cascade'[1].next = 1
  BY LenProperties DEF OnTop
<1>2. DrivingEvent \in Events
  BY SimulatorAssumption
<1>3. \A c \in Events : \E j \in 1..Len(Ordered) : Ordered[j] = c
  BY OrderedFacts
<1>4. Returns(cascade'[1], s)
  BY <1>1, <1>2, <1>3 DEF Returns, StillAsks
<1> QED
  BY <1>1, <1>4 DEF Coming

LEMMA ComingAdvanced ==
    ASSUME TypeOK, ~Idle, NEW s, Coming(cascade, s)
    PROVE  \/ Coming(Advanced, s)
           \/ /\ Top.next <= Len(Ordered)
              /\ Ordered[Top.next] = IF Top.event = DrivingEvent THEN s ELSE DrivingEvent
<1>1. /\ Len(Advanced) = Len(cascade) /\ Len(cascade) \in Nat \ {0}
      /\ Advanced[1] = [Top EXCEPT !.next = @ + 1] /\ cascade[1] = Top /\ Top \in Frames
      /\ \A k \in 2..Len(cascade) : Advanced[k] = cascade[k]
  BY AdvancedIs, TopTypes
<1>2. /\ Top.next \in Nat \ {0} /\ Advanced[1].next = Top.next + 1 /\ Advanced[1].event = Top.event
      /\ Len(Ordered) \in Nat
  BY <1>1, OrderedFacts DEF Frames
<1>3. PICK k \in 1..Len(cascade) : Returns(cascade[k], s)
  BY DEF Coming
<1>4. CASE k # 1
  <2>1. k \in 2..Len(cascade) /\ k \in 1..Len(Advanced)
    BY <1>1, <1>4
  <2> QED
    BY <1>1, <1>3, <2>1 DEF Coming
<1>5. CASE k = 1
  <2> DEFINE e == IF Top.event = DrivingEvent THEN s ELSE DrivingEvent
  <2>1. StillAsks(Top, e)
    BY <1>1, <1>3, <1>5 DEF Returns
  <2> HIDE DEF e
  <2>2. PICK j \in Top.next..Len(Ordered) : Ordered[j] = e
    BY <2>1 DEF StillAsks
  <2>3. CASE j = Top.next
    BY <1>2, <2>2, <2>3 DEF e
  <2>4. CASE j # Top.next
    <3>1. j \in (Top.next + 1)..Len(Ordered)
      BY <1>2, <2>4
    <3>2. StillAsks(Advanced[1], e)
      BY <1>2, <2>2, <3>1 DEF StillAsks
    <3>3. Returns(Advanced[1], s) /\ 1 \in 1..Len(Advanced)
      BY <1>1, <1>2, <3>2 DEF Returns, e
    <3> QED
      BY <3>3 DEF Coming
  <2> QED
    BY <2>3, <2>4
<1> QED
  BY <1>4, <1>5

LEMMA ComingReturned ==
    ASSUME TypeOK, ~Idle, NEW s, Coming(cascade, s), Top.next > Len(Ordered)
    PROVE  Coming(Tail(cascade), s)
<1>1. /\ Len(cascade) \in Nat \ {0} /\ cascade[1] = Top /\ Top \in Frames
      /\ Len(Tail(cascade)) = Len(cascade) - 1
      /\ \A k \in 1..Len(Tail(cascade)) : Tail(cascade)[k] = cascade[k + 1]
  BY AdvancedIs, TopTypes
<1>2. Top.next \in Nat \ {0} /\ Len(Ordered) \in Nat
  BY <1>1, OrderedFacts DEF Frames
<1>3. PICK k \in 1..Len(cascade) : Returns(cascade[k], s)
  BY DEF Coming
<1>4. ~Returns(Top, s)
  <2>1. Top.next..Len(Ordered) = {}
    BY <1>2
  <2> QED
    BY <2>1 DEF Returns, StillAsks
<1>5. k - 1 \in 1..Len(Tail(cascade)) /\ (k - 1) + 1 = k
  BY <1>1, <1>3, <1>4
<1> QED
  BY <1>1, <1>3, <1>5 DEF Coming

\* A stop that finds activations of the driving event pending has them used up:
\* by its own question or, one after the other, by those of the events that
\* follow the steps.  What was requested has executed when the loop is left.
StepsDrain(s) ==
    Undisturbed =>
        /\ status = "STOPPING" =>
              \/ Exhausted(DrivingEvent)
              \/ stops > 0 /\ (manual[DrivingEvent] = 0 \/ Coming(cascade, s))
        /\ pc \in Over =>
              \/ nCalls[DrivingEvent] >= MaxTriggers[DrivingEvent]
              \/ stops > 0 /\ nCalls[DrivingEvent] >= requested[DrivingEvent]

\* The event that follows is below its limit when the driving event asks it.
LEMMA RoomLeft ==
    ASSUME TypeOK, TriggersWithinMax, CallsCounted, NEW s \in Events, FollowsSteps(s), RoomToFollow(s),
           ~Idle, Top.event = DrivingEvent, Top.next <= Len(Ordered), Ordered[Top.next] = s
    PROVE  nTriggers[s] < MaxTriggers[s]
<1> DEFINE c == Cardinality(Following(cascade, s))
           a == Cardinality(Following(Advanced, s))
           most == MaxTriggers[DrivingEvent]
<1>1. a <= c - 1
  BY FollowingLess
<1>2. a \in Nat /\ c \in Nat
  BY TopTypes, FollowingFinite DEF TypeOK
<1>3. /\ manual[s] \in Nat /\ nTriggers[s] \in Nat /\ nTriggers[DrivingEvent] \in Nat
      /\ requested[s] \in Nat /\ MaxManual[s] \in Nat /\ most \in Nat /\ MaxTriggers[s] \in Nat
  BY SimulatorAssumption, BucketAssumption DEF TypeOK, BucketTypeOK
<1>4. /\ manual[s] + nTriggers[s] + c <= nTriggers[DrivingEvent] + requested[s]
      /\ nTriggers[DrivingEvent] <= most /\ requested[s] <= MaxManual[s]
      /\ MaxTriggers[s] >= most + MaxManual[s]
  BY SimulatorAssumption DEF RoomToFollow, TriggersWithinMax, CallsCounted, FollowsSteps
<1> HIDE DEF c, a, most
<1>5. \A m, t, d, r, k, x, y, u, v \in Nat :
        m + t + k <= d + r /\ d <= x /\ r <= u /\ y >= x + u /\ v <= k - 1 => t < y
  OBVIOUS
<1> QED
  BY <1>1, <1>2, <1>3, <1>4, <1>5

LEMMA DrainsAsk ==
    ASSUME Inv, TypeOK', CallsCounted, NEW s \in Events, FollowsSteps(s), RoomToFollow(s),
           NEW fires \in BOOLEAN, CascadeAsk(fires), manual[DrivingEvent] = 0 \/ Coming(cascade, s)
    PROVE  Exhausted(DrivingEvent)' \/ manual'[DrivingEvent] = 0 \/ Coming(cascade', s)
<1>0. /\ TypeOK /\ TriggersWithinMax /\ DrivingEvent \in Events \ Post /\ s \notin Post /\ s # DrivingEvent
      /\ manual[DrivingEvent] \in Nat /\ nTriggers[DrivingEvent] \in Nat
      /\ MaxTriggers[DrivingEvent] \in Nat
  BY SimulatorAssumption, BucketAssumption DEF Inv, TypeOK, BucketTypeOK, FollowsSteps
<1>1. PICK curr \in Events :
        /\ curr = Ordered[Top.next]
        /\ Ask(curr, Top.event, fires)
        /\ IF fires THEN Put(queue, curr, Top.event, Top.nth, Advanced)
                    ELSE cascade' = Advanced
  BY DEF CascadeAsk
<1>2. ~Idle /\ Top.next <= Len(Ordered)
  BY DEF CascadeAsk
<1>3. Top.event \in By /\ Advanced \in Seq(Frames)
  BY <1>0, <1>2, TopTypes DEF Frames, By
<1>4. /\ \A d \in Events \ {curr} : manual'[d] = manual[d] /\ nTriggers'[d] = nTriggers[d]
      /\ ~fires => manual'[curr] = manual[curr] /\ nTriggers'[curr] = nTriggers[curr]
      /\ nTriggers[curr] < MaxTriggers[curr] /\ manual[curr] > 0 => fires
  <2>1. /\ \A d \in Events \ {curr} : manual'[d] = manual[d] /\ nTriggers'[d] = nTriggers[d]
        /\ \/ manual'[curr] = manual[curr]
           \/ fires /\ manual[curr] > 0 /\ manual'[curr] = manual[curr] - 1
        /\ nTriggers[curr] < MaxTriggers[curr] /\ manual[curr] > 0 => fires
        /\ nTriggers'[curr] = IF fires THEN nTriggers[curr] + 1 ELSE nTriggers[curr]
    <3>1. BucketTypeOK /\ Ask(curr, Top.event, fires)
      BY <1>0, <1>1 DEF TypeOK
    <3> QED
      BY <1>3, <3>1, AskUses
  <2> QED
    BY <2>1
<1>5. CASE fires /\ curr \notin Post
  <2>1. OnTop(curr, Advanced)
    BY <1>1, <1>3, <1>5, PutStack DEF TypeOK
  <2> QED
    BY <1>3, <2>1, ComingOnTop
<1>6. CASE fires /\ curr \in Post
  <2>1. cascade' = Advanced
    BY <1>1, <1>3, <1>6, PutStack DEF TypeOK
  <2>2. curr \notin {s, DrivingEvent}
    BY <1>0, <1>6
  <2>3. manual'[DrivingEvent] = manual[DrivingEvent]
    BY <1>0, <1>4, <2>2
  <2>4. Coming(cascade, s) => Coming(Advanced, s)
    BY <1>0, <1>1, <1>2, <2>2, ComingAdvanced
  <2> QED
    BY <2>1, <2>3, <2>4
<1>7. CASE ~fires
  <2>1. cascade' = Advanced
    BY <1>1, <1>7
  <2>2. manual'[DrivingEvent] = manual[DrivingEvent] /\ nTriggers'[DrivingEvent] = nTriggers[DrivingEvent]
    BY <1>0, <1>4, <1>7
  <2>3. CASE Coming(Advanced, s) \/ manual[DrivingEvent] = 0
    BY <2>1, <2>2, <2>3
  <2>4. CASE curr = s /\ Top.event = DrivingEvent
    <3>1. nTriggers[s] < MaxTriggers[s]
      BY <1>0, <1>1, <1>2, <2>4, RoomLeft
    <3> QED
      BY <1>0, <1>1, <1>7, <2>4, <3>1, FollowerFires DEF TypeOK
  <2>5. CASE curr = DrivingEvent /\ manual[DrivingEvent] # 0
    <3>1. ~(nTriggers[DrivingEvent] < MaxTriggers[DrivingEvent])
      BY <1>0, <1>4, <1>7, <2>5
    <3> QED
      BY <1>0, <2>2, <3>1 DEF Exhausted
  <2> QED
    BY <1>0, <1>1, <1>2, <2>3, <2>4, <2>5, ComingAdvanced
<1> QED
  BY <1>5, <1>6, <1>7

LEMMA DrainsStep ==
    ASSUME Inv, StopConfigured, CallsCounted, NEW s \in Events, FollowsSteps(s), RoomToFollow(s),
           StepsDrain(s), Next
    PROVE  StepsDrain(s)'
<1> DEFINE D == DrivingEvent
           Drained == manual[D] = 0 \/ Coming(cascade, s)
           Stopped == status' = "STOPPING" => Exhausted(D)' \/ (stops' > 0 /\ Drained')
           Left == pc' \in Over => \/ nCalls'[D] >= MaxTriggers[D]
                                   \/ stops' > 0 /\ nCalls'[D] >= requested'[D]
<1> SUFFICES ASSUME Undisturbed'
             PROVE  Stopped /\ Left
  BY DEF StepsDrain
<1>0. /\ TypeOK /\ D \in Events \ Post /\ nTriggers[D] \in Nat /\ nCalls[D] \in Nat /\ manual[D] \in Nat
      /\ requested[D] \in Nat /\ MaxTriggers[D] \in Nat /\ stops \in Nat /\ raised \in [Events -> Nat]
      /\ D \notin {StartEvent, StopEvent} /\ s # D /\ s \notin Post
  BY SimulatorAssumption, BucketAssumption DEF Inv, TypeOK, BucketTypeOK, FollowsSteps
<1>a. Undisturbed
  BY <1>0, WasUndisturbed
<1>b. TypeOK'
  BY <1>0, TypeStep
<1>c. /\ nTriggers'[D] >= nTriggers[D] /\ nCalls'[D] >= nCalls[D]
      /\ nTriggers'[D] \in Nat /\ nCalls'[D] \in Nat /\ manual'[D] \in Nat
  BY <1>0, <1>b, OnlyGrows DEF TypeOK, BucketTypeOK
<1>d. /\ stops > 0 => stops' > 0
      /\ stops > 0 => requested' = requested
  BY <1>0 DEF Next, Client, Run, Start, Trigger, StopReads, StopRequests, StopSubmits, CascadeAsk, Scan,
     CascadeSkip, CascadeReturn, Boot, Loop, Wait, GetNothing, Fire, FireRaises, Finalize, CloseLoop,
     RunSubmitted, clientVars
<1>e. Exhausted(D) => Exhausted(D)'
  BY <1>0, <1>c DEF Exhausted
<1>f. /\ status = "STOPPING" => Exhausted(D)' \/ (stops > 0 /\ stops' > 0 /\ Drained)
      /\ pc \in Over => \/ nCalls'[D] >= MaxTriggers[D]
                        \/ stops' > 0 /\ nCalls'[D] >= requested'[D]
  <2>1. status = "STOPPING" => Exhausted(D) \/ (stops > 0 /\ Drained)
    BY <1>a DEF StepsDrain
  <2>2. pc \in Over => nCalls[D] >= MaxTriggers[D] \/ (stops > 0 /\ nCalls[D] >= requested[D])
    BY <1>a DEF StepsDrain
  <2>3. ASSUME pc \in Over PROVE nCalls'[D] >= MaxTriggers[D] \/ (stops' > 0 /\ nCalls'[D] >= requested'[D])
    <3>1. CASE nCalls[D] >= MaxTriggers[D]
      BY <1>0, <1>c, <3>1
    <3>2. CASE stops > 0 /\ nCalls[D] >= requested[D]
      BY <1>0, <1>c, <1>d, <3>2
    <3> QED
      BY <2>2, <2>3, <3>1, <3>2
  <2> QED
    BY <1>d, <1>e, <2>1, <2>3
<1>g. stops = 0 => submitted = 0 /\ client = "free"
  BY DEF CallsCounted
<1>h. (stops' > 0 /\ Drained') => Stopped
  OBVIOUS
<1>i. ASSUME status' = status, Drained => Drained' PROVE Stopped
  BY <1>f, <1>i
<1>j. ASSUME pc' \in Over => pc \in Over PROVE Left
  BY <1>f, <1>j
<1>k. ASSUME manual' = manual, cascade' = cascade PROVE Drained'
             <=> Drained
  BY <1>k
<1>l. ASSUME NEW outer \in Seq(Frames), NEW e \in Events, OnTop(e, outer) PROVE Drained'
  BY <1>l, ComingOnTop
<1> HIDE DEF Drained, Stopped, Left
<1>1. CASE Start
  <2>1. status' = "RUNNING" /\ pc' = "boot"
    BY <1>1 DEF Start
  <2> QED
    BY <2>1 DEF Stopped, Left, Over
<1>2. ASSUME NEW e \in Events, Trigger(e) PROVE Stopped /\ Left
  <2>1. stops = 0 /\ status' = status /\ pc' = pc
    BY <1>2 DEF Trigger, loopVars
  <2> QED
    BY <1>f, <1>j, <2>1 DEF Stopped
<1>3. CASE StopReads \/ StopRequests \/ StopSubmits
  BY <1>3, <1>i, <1>j, <1>k DEF StopReads, StopRequests, StopSubmits, loopVars, bucketVars
<1>4. ASSUME NEW fires \in BOOLEAN, CascadeAsk(fires) PROVE Stopped /\ Left
  <2>1. PICK curr \in Events :
          /\ Ask(curr, Top.event, fires)
          /\ IF fires THEN Put(queue, curr, Top.event, Top.nth, Advanced)
                      ELSE status' = status
    BY <1>4 DEF CascadeAsk
  <2>2. ~Idle /\ pc' = pc
    BY <1>4 DEF CascadeAsk
  <2>3. Top.event \in By
    BY <1>0, <2>2, TopTypes DEF Frames, By
  <2>4. CASE fires /\ curr = StopEvent
    <3>1. 1 \in 1..Len(cascade) /\ cascade[1] = Top
      BY <1>0, <2>2, AdvancedIs
    <3>2. Top.event = D => nTriggers[D] > 0
      BY <3>1 DEF CallsCounted
    <3>3. Exhausted(D)
      BY <1>0, <2>1, <2>3, <2>4, <3>2, StopTriggered
    <3> QED
      BY <1>e, <1>j, <2>2, <3>3 DEF Stopped
  <2>5. CASE status' = status
    <3>1. Drained => Exhausted(D)' \/ Drained'
      BY <1>4, <1>b, DrainsAsk DEF Drained
    <3> QED
      BY <1>f, <1>j, <2>2, <2>5, <3>1 DEF Stopped
  <2> QED
    BY <2>1, <2>4, <2>5 DEF Put, StatusAfter
<1>5. ASSUME NEW fires \in BOOLEAN, Scan(fires) PROVE Stopped /\ Left
  <2>1. /\ Ask(Order[scan], None, fires) /\ cascade = <<>>
        /\ IF fires THEN Put(queue, Order[scan], None, 0, <<>>) ELSE status' = status /\ cascade' = cascade
        /\ pc' \notin Over
    BY <1>5 DEF Scan, Idle, Over
  <2>2. None \in By /\ None # D /\ Order[scan] \in Events
    BY <1>0, SimulatorAssumption, BucketAssumption, ElementOfSeq DEF By, TypeOK
  <2>3. CASE fires /\ Order[scan] = StopEvent
    <3>1. Exhausted(D)
      BY <1>0, <2>1, <2>2, <2>3, StopTriggered
    <3> QED
      BY <1>e, <2>1, <3>1 DEF Stopped, Left
  <2>4. CASE status' = status
    <3>1. manual'[D] = manual[D] \/ manual[D] > 0
      <4>1. BucketTypeOK
        BY <1>0 DEF TypeOK
      <4>2. /\ \A d \in Events \ {Order[scan]} : manual'[d] = manual[d]
            /\ \/ manual'[Order[scan]] = manual[Order[scan]]
               \/ manual[Order[scan]] > 0 /\ manual'[Order[scan]] = manual[Order[scan]] - 1
        BY <2>1, <2>2, <4>1, AskUses
      <4>3. CASE D = Order[scan]
        BY <4>2, <4>3
      <4>4. CASE D # Order[scan]
        BY <1>0, <4>2, <4>4
      <4> QED
        BY <4>3, <4>4
    <3>2. ~Coming(cascade, s)
      BY <2>1 DEF Coming
    <3>3. Drained => Drained'
      BY <1>0, <3>1, <3>2 DEF Drained
    <3> QED
      BY <1>i, <2>1, <2>4, <3>3 DEF Left
  <2> QED
    BY <2>1, <2>3, <2>4 DEF Put, StatusAfter
<1>6. CASE CascadeSkip
  <2>1. /\ ~Idle /\ cascade' = Advanced /\ manual' = manual /\ status' = status /\ pc' = pc
        /\ Ordered[Top.next] = Top.event
    BY <1>6 DEF CascadeSkip, bucketVars
  <2>2. Coming(cascade, s) => Coming(Advanced, s)
    BY <1>0, <2>1, ComingAdvanced
  <2>3. Drained => Drained'
    BY <2>1, <2>2 DEF Drained
  <2> QED
    BY <1>i, <1>j, <2>1, <2>3
<1>7. CASE CascadeReturn
  <2>1. /\ ~Idle /\ cascade' = Tail(cascade) /\ manual' = manual /\ status' = status /\ pc' = pc
        /\ Top.next > Len(Ordered)
    BY <1>7 DEF CascadeReturn, bucketVars
  <2>2. Coming(cascade, s) => Coming(Tail(cascade), s)
    BY <1>0, <2>1, ComingReturned
  <2>3. Drained => Drained'
    BY <2>1, <2>2 DEF Drained
  <2> QED
    BY <1>i, <1>j, <2>1, <2>3
<1>8. CASE Boot
  <2>1. Put(queue, StartEvent, None, 0, <<>>) /\ pc' \notin Over /\ StartEvent \in Events \ Post
    BY <1>8, SimulatorAssumption DEF Boot, Over
  <2>2. OnTop(StartEvent, <<>>) /\ status' = status
    <3>1. OnTop(StartEvent, <<>>)
      BY <1>b, <2>1, EmptyCascade, PutStack DEF TypeOK
    <3>2. status' = status
      BY <2>1, SimulatorAssumption DEF Put, StatusAfter
    <3> QED
      BY <3>1, <3>2
  <2>3. Drained'
    BY <1>l, <2>1, <2>2, EmptyCascade
  <2> QED
    BY <1>i, <2>1, <2>2, <2>3 DEF Left
<1>9. CASE Loop
  <2>1. status' = status /\ cascade' = cascade /\ manual' = manual
    BY <1>9 DEF Loop, bucketVars
  <2>2. ASSUME pc' \in Over
        PROVE  nCalls'[D] >= MaxTriggers[D] \/ (stops' > 0 /\ nCalls'[D] >= requested'[D])
    <3>1. status = "STOPPING" /\ queue = <<>> /\ cascade = <<>>
      BY <1>9, <2>2 DEF Loop, Leaves, Over, Idle, Inv, StatusFollowsRun, TypeOK
    <3>2. nCalls[D] = nTriggers[D] /\ ~Coming(cascade, s)
      BY <1>a, <3>1, AllExecuted DEF Coming
    <3>3. Exhausted(D) \/ (stops > 0 /\ manual[D] = 0)
      BY <1>a, <3>1, <3>2 DEF StepsDrain
    <3>4. CASE Exhausted(D)
      BY <1>0, <1>c, <3>2, <3>4 DEF Exhausted
    <3>5. CASE stops > 0 /\ manual[D] = 0
      <4>1. requested[D] <= manual[D] + nTriggers[D]
        BY DEF CallsCounted
      <4>2. requested[D] <= nCalls'[D]
        BY <1>0, <1>c, <3>2, <3>5, <4>1
      <4> QED
        BY <1>d, <3>5, <4>2
    <3> QED
      BY <3>3, <3>4, <3>5
  <2> QED
    BY <1>i, <1>k, <2>1, <2>2 DEF Left
<1>10. CASE Wait \/ GetNothing \/ Fire
  <2>1. status' = status /\ cascade' = cascade /\ manual' = manual /\ pc' \notin Over
    BY <1>10 DEF Wait, GetNothing, Fire, Reset, bucketVars, Over
  <2> QED
    BY <1>i, <1>k, <2>1 DEF Left
<1>11. CASE FireRaises
  <2>1. Head(queue).name \in Events
    BY <1>0, <1>11, HeadTypes DEF FireRaises, Items
  <2>2. raised'[Head(queue).name] = raised[Head(queue).name] + 1 /\ raised[Head(queue).name] \in Nat
    BY <1>0, <1>11, <2>1 DEF FireRaises
  <2>3. raised'[Head(queue).name] = 0
    BY <2>1 DEF Undisturbed
  <2> QED
    BY <2>2, <2>3
<1>12. CASE RunSubmitted
  <2>1. stops > 0 /\ Put(queue, StopEvent, None, 0, <<>>) /\ pc' = pc /\ StopEvent \in Events \ Post
    BY <1>0, <1>12, <1>g, SimulatorAssumption DEF RunSubmitted
  <2>2. OnTop(StopEvent, <<>>)
    BY <1>b, <2>1, EmptyCascade, PutStack DEF TypeOK
  <2>3. Drained'
    BY <1>l, <2>1, <2>2, EmptyCascade
  <2> QED
    BY <1>d, <1>h, <1>j, <2>1, <2>3
<1>13. CASE Finalize
  <2>1. status' = "IDLE" /\ pc \in Over
    BY <1>13 DEF Finalize, Over
  <2> QED
    BY <1>j, <2>1 DEF Stopped
<1>14. CASE CloseLoop
  <2>1. status' = status /\ cascade' = cascade /\ manual' = manual /\ pc \in Over
    BY <1>14 DEF CloseLoop, Over, bucketVars
  <2> QED
    BY <1>i, <1>j, <1>k, <2>1
<1> QED
  BY <1>1, <1>2, <1>3, <1>4, <1>5, <1>6, <1>7, <1>8, <1>9, <1>10, <1>11, <1>12, <1>13, <1>14
     DEF Next, Client, Run

LEMMA CountsKeptStill ==
    ASSUME UNCHANGED vars, NEW s
    PROVE  /\ CallsCounted => CallsCounted'
           /\ EndsForCause => EndsForCause'
           /\ RoomToFollow(s) => RoomToFollow(s)'
           /\ StepsDrain(s) => StepsDrain(s)'
<1> USE DEF vars, bucketVars, loopVars, clientVars, ghosts
<1>1. CallsCounted => CallsCounted'
  BY DEF CallsCounted
<1>2. EndsForCause => EndsForCause'
  BY DEF EndsForCause, Undisturbed, Exhausted
<1>3. RoomToFollow(s) => RoomToFollow(s)'
  BY DEF RoomToFollow
<1>4. StepsDrain(s) => StepsDrain(s)'
  BY DEF StepsDrain, Undisturbed, Exhausted
<1> QED
  BY <1>1, <1>2, <1>3, <1>4

LEMMA InitCounted ==
    ASSUME Init, NEW s \in Events
    PROVE  CallsCounted /\ EndsForCause /\ RoomToFollow(s) /\ StepsDrain(s)
<1>1. /\ {StopEvent, DrivingEvent} \subseteq Events
      /\ \A e \in Events : Alarms[e] \in Nat /\ MaxManual[e] \in Nat
  BY SimulatorAssumption, BucketAssumption
<1>2. CallsCounted
  BY <1>1 DEF Init, BucketInit, CallsCounted
<1>3. RoomToFollow(s)
  <2>1. Following(cascade, s) = {}
    BY DEF Init, Following
  <2>2. Cardinality(Following(cascade, s)) = 0
    BY <2>1, FS_EmptySet
  <2> QED
    BY <1>1, <2>2 DEF Init, BucketInit, RoomToFollow
<1> QED
  BY <1>2, <1>3 DEF Init, EndsForCause, StepsDrain, Over

LEMMA EndsInvariance ==
    ASSUME StopConfigured PROVE Spec => [](Inv /\ CallsCounted /\ EndsForCause)
<1>1. Init => CallsCounted /\ EndsForCause
  BY InitCounted, SimulatorAssumption
<1>2. Inv /\ CallsCounted /\ EndsForCause /\ [Next]_vars => CallsCounted' /\ EndsForCause'
  BY CountedStep, EndsStep, CountsKeptStill DEF Inv
<1> QED
  BY <1>1, <1>2, Invariance, PTL DEF Spec

\* With stop as SimulationConfig configures it, a simulation that ends by
\* itself, undisturbed, has executed max_steps steps: the cascade of the last
\* one triggers stop, and the loop is not left before it has executed.
THEOREM MaxStepsAreExact ==
    ASSUME StopConfigured PROVE Spec => []MaxStepsExact
<1>1. Inv /\ EndsForCause /\ StepsWithinMax => MaxStepsExact
  <2> SUFFICES ASSUME Inv, EndsForCause, StepsWithinMax, pc = "ended", Undisturbed, stops = 0
               PROVE  nCalls[DrivingEvent] = MaxTriggers[DrivingEvent]
    BY DEF MaxStepsExact
  <2>1. /\ DrivingEvent \in Events /\ DrivingEvent \in Triggered
        /\ nCalls[DrivingEvent] \in Nat /\ MaxTriggers[DrivingEvent] \in Nat
    BY SimulatorAssumption, BucketAssumption DEF Triggered, Inv, TypeOK, BucketTypeOK
  <2>2. nCalls[DrivingEvent] >= MaxTriggers[DrivingEvent]
    BY DEF EndsForCause, Over
  <2>3. raised[DrivingEvent] = 0 /\ nCalls[DrivingEvent] + raised[DrivingEvent] <= MaxTriggers[DrivingEvent]
    BY <2>1 DEF Undisturbed, StepsWithinMax
  <2> QED
    BY <2>1, <2>2, <2>3
<1> QED
  BY <1>1, EndsInvariance, LimitsHold, PTL

\* With stop and an event s as the configuration and StepEvent make them, every
\* step triggered before stop() has executed when the simulation ends, unless
\* max_steps is reached: what no scan came across, the stop's own cascade uses
\* up, s asking the driving event again after each.
THEOREM StepsComeBeforeStop ==
    ASSUME StopConfigured, NEW s \in Events, FollowsSteps(s)
    PROVE  Spec => []StepsBeforeStop
<1>1. Init => RoomToFollow(s) /\ StepsDrain(s)
  BY InitCounted
<1>2. Inv /\ CallsCounted /\ RoomToFollow(s) /\ StepsDrain(s) /\ [Next]_vars
        => RoomToFollow(s)' /\ StepsDrain(s)'
  BY RoomStep, DrainsStep, CountsKeptStill DEF Inv
<1>3. Spec => [](RoomToFollow(s) /\ StepsDrain(s))
  BY <1>1, <1>2, EndsInvariance, PTL DEF Spec
<1>4. Inv /\ StepsDrain(s) /\ StepsWithinMax => StepsBeforeStop
  <2> SUFFICES ASSUME Inv, StepsDrain(s), StepsWithinMax, pc = "ended", Undisturbed
               PROVE  \/ nCalls[DrivingEvent] >= requested[DrivingEvent]
                      \/ nCalls[DrivingEvent] = MaxTriggers[DrivingEvent]
    BY DEF StepsBeforeStop
  <2>1. /\ DrivingEvent \in Events /\ DrivingEvent \in Triggered
        /\ nCalls[DrivingEvent] \in Nat /\ MaxTriggers[DrivingEvent] \in Nat
    BY SimulatorAssumption, BucketAssumption DEF Triggered, Inv, TypeOK, BucketTypeOK
  <2>2. \/ nCalls[DrivingEvent] >= MaxTriggers[DrivingEvent]
        \/ nCalls[DrivingEvent] >= requested[DrivingEvent]
    BY DEF StepsDrain, Over
  <2>3. raised[DrivingEvent] = 0 /\ nCalls[DrivingEvent] + raised[DrivingEvent] <= MaxTriggers[DrivingEvent]
    BY <2>1 DEF Undisturbed, StepsWithinMax
  <2> QED
    BY <2>1, <2>2, <2>3
<1> QED
  BY <1>3, <1>4, Invariance, LimitsHold, PTL
=============================================================================
