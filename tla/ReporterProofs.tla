--------------------------- MODULE ReporterProofs ---------------------------
(***************************************************************************)
(* What Reporter.tla guarantees for any metrics, channels, routes, chunk   *)
(* size and batches, with and without failures.                            *)
(***************************************************************************)
EXTENDS Reporter, SequenceTheorems, TLAPS

ReportingPhases == {"idle", "running", "joining"}

\* A queue without a writer is empty, and the items a writer has yet to take
\* depend on how far stop() has come: no Shutdown before the queues are joined,
\* nothing but Shutdown after.
QueuesFollowStop ==
    \A c \in Channels :
        /\ writer[c] = "none" => queue[c] = <<>>
        /\ phase \in ReportingPhases =>
             /\ writer[c] \notin {"flush", "done"}
             /\ \A i \in 1..Len(queue[c]) : queue[c][i] # Shutdown
        /\ phase \notin ReportingPhases =>
             /\ writer[c] # "write"
             /\ writer[c] = "get" => queue[c] = <<Shutdown>>
             /\ writer[c] \in {"flush", "done"} => queue[c] = <<>>

\* A writer that is done, or never was, has stored all it took.
DoneIsDurable ==
    \A c \in Channels : writer[c] \in {"none", "done"} => storage[c] = drained[c]

ClosedIsOver ==
    phase = "closed" => \A c \in Opened : writer[c] \in Terminated

Inv ==
    /\ TypeOK
    /\ UnfinishedIsPending
    /\ QueuesFollowStop
    /\ NothingLostInFlight
    /\ DoneIsDurable
    /\ StoredIsPrefix
    /\ ClosedIsOver

-----------------------------------------------------------------------------
(* Sequences.                                                              *)

\* The rows a generator yields are rows.
LEMMA BlockIsRows ==
    ASSUME TypeOK, NEW item \in Items, NEW n \in Nat
    PROVE  Block(item, n) \in Seq(Rows)
<1>1. \A i \in 1..n : [metric |-> item.metric, of |-> item.of, at |-> i,
                       data |-> execs[item.metric]] \in Rows
  BY DEF TypeOK, Items, Rows
<1> QED
  BY <1>1 DEF Block

LEMMA ConcatRows ==
    \A s, t, u \in Seq(Rows) : (s \o t) \o u = s \o (t \o u)
BY ConcatAssociative

\* A sequence split in two begins with every prefix of its first part followed
\* by a prefix of its second part.
LEMMA PrefixOfSplit ==
    ASSUME NEW s \in Seq(Rows), NEW b \in Seq(Rows), NEW k \in 0..Len(b)
    PROVE  /\ s \o SubSeq(b, 1, k) \in Seq(Rows)
           /\ Len(s \o SubSeq(b, 1, k)) <= Len(s \o b)
           /\ \A i \in 1..Len(s \o SubSeq(b, 1, k)) :
                (s \o SubSeq(b, 1, k))[i] = (s \o b)[i]
<1> DEFINE h == SubSeq(b, 1, k)
           p == s \o h
<1>0. Len(s) \in Nat /\ Len(b) \in Nat /\ k \in Nat /\ k <= Len(b)
  BY LenProperties
<1>1. h \in Seq(Rows) /\ Len(h) = k /\ \A i \in 1..k : h[i] = b[i]
  <2>1. \A i \in 1..k : b[i] \in Rows
    BY <1>0, ElementOfSeq
  <2> QED
    BY <1>0, <2>1, SubSeqProperties
<1>2. /\ p \in Seq(Rows)
      /\ Len(p) = Len(s) + k
      /\ \A i \in 1..Len(s) + k :
           p[i] = IF i <= Len(s) THEN s[i] ELSE h[i - Len(s)]
  BY <1>1, ConcatProperties
<1>3. /\ Len(s \o b) = Len(s) + Len(b)
      /\ \A i \in 1..Len(s) + Len(b) :
           (s \o b)[i] = IF i <= Len(s) THEN s[i] ELSE b[i - Len(s)]
  BY ConcatProperties
<1>4. ASSUME NEW i \in 1..Len(s) + k
      PROVE  p[i] = (s \o b)[i]
  <2>1. i \in 1..Len(s) + Len(b)
    BY <1>0
  <2>2. i > Len(s) => i - Len(s) \in 1..k
    BY <1>0
  <2> HIDE DEF p, h
  <2> QED
    BY <1>0, <1>1, <1>2, <1>3, <2>1, <2>2
<1> QED
  BY <1>0, <1>2, <1>3, <1>4

-----------------------------------------------------------------------------
(* The invariant is inductive: one lemma per action.                       *)

LEMMA InitInv == ASSUME ConstantsAssumption, Init PROVE Inv
<1>1. TypeOK
  BY DEF Init, TypeOK, Phases, Writers
<1>2. \A c \in Channels : storage[c] \o buffer[c] = drained[c]
  BY ConcatEmptySeq, EmptySeq DEF Init
<1> QED
  BY <1>1, <1>2 DEF Init, Inv, UnfinishedIsPending, InFlight, QueuesFollowStop,
     NothingLostInFlight, DoneIsDurable, StoredIsPrefix, ClosedIsOver, ReportingPhases

LEMMA StartInv == ASSUME Inv, Start PROVE Inv'
BY DEF Start, Inv, TypeOK, Phases, UnfinishedIsPending, InFlight, QueuesFollowStop,
   NothingLostInFlight, DoneIsDurable, StoredIsPrefix, ClosedIsOver, ReportingPhases

LEMMA StopInv == ASSUME Inv, Stop PROVE Inv'
BY DEF Stop, Inv, TypeOK, Phases, UnfinishedIsPending, InFlight, QueuesFollowStop,
   NothingLostInFlight, DoneIsDurable, StoredIsPrefix, ClosedIsOver, ReportingPhases

LEMMA CloseInv == ASSUME Inv, Close PROVE Inv'
BY DEF Close, Gathered, Inv, TypeOK, Phases, UnfinishedIsPending, InFlight, QueuesFollowStop,
   NothingLostInFlight, DoneIsDurable, StoredIsPrefix, ClosedIsOver, ReportingPhases, Opened

LEMMA ReportInv ==
    ASSUME ConstantsAssumption, Inv, NEW m \in Metrics, Report(m)
    PROVE  Inv'
<1>0. PICK targets \in SUBSET Route[m] :
        /\ queue' = [c \in Channels |->
                       IF c \in targets
                       THEN Append(queue[c], [metric |-> m, of |-> execs[m] + 1])
                       ELSE queue[c]]
        /\ unfinished' = [c \in Channels |->
                            unfinished[c] + (IF c \in targets THEN 1 ELSE 0)]
        /\ writer' = [c \in Channels |->
                        IF c \in targets /\ writer[c] = "none"
                        THEN "get" ELSE writer[c]]
  BY DEF Report
<1> DEFINE item == [metric |-> m, of |-> execs[m] + 1]
           All  == Items \cup {Shutdown}
<1>1. item \in Items /\ item \in All /\ item # Shutdown
  BY DEF Inv, TypeOK, Items, ConstantsAssumption
<1>2. \A c \in Channels : queue[c] \in Seq(All)
  BY DEF Inv, TypeOK
<1>3. \A c \in Channels :
        /\ Append(queue[c], item) \in Seq(All)
        /\ Len(Append(queue[c], item)) = Len(queue[c]) + 1
        /\ \A i \in 1..Len(queue[c]) : Append(queue[c], item)[i] = queue[c][i]
        /\ Append(queue[c], item)[Len(queue[c]) + 1] = item
  BY <1>1, <1>2, AppendProperties
<1>4. \A c \in Channels : Len(queue[c]) \in Nat
  BY <1>2, LenProperties
<1> HIDE DEF item
<1>5. TypeOK'
  <2>1. queue' \in [Channels -> Seq(All)]
    BY <1>0, <1>2, <1>3 DEF item
  <2> QED
    BY <1>0, <2>1 DEF Report, Inv, TypeOK, Writers
<1>6. UnfinishedIsPending'
  <2> SUFFICES ASSUME NEW c \in Channels
               PROVE  unfinished'[c] = Len(queue'[c]) + InFlight(c)'
    BY DEF UnfinishedIsPending
  <2>1. unfinished[c] = Len(queue[c]) + InFlight(c)
    BY DEF Inv, UnfinishedIsPending
  <2>2. InFlight(c)' = InFlight(c)
    BY <1>0 DEF InFlight
  <2>3. InFlight(c) \in Nat
    BY DEF InFlight
  <2> QED
    BY <1>0, <1>3, <1>4, <2>1, <2>2, <2>3 DEF item
<1>7. QueuesFollowStop'
  <2> SUFFICES ASSUME NEW c \in Channels
               PROVE  /\ writer'[c] # "none" \/ queue'[c] = <<>>
                      /\ writer'[c] \notin {"flush", "done"}
                      /\ \A i \in 1..Len(queue'[c]) : queue'[c][i] # Shutdown
    BY DEF Report, QueuesFollowStop, ReportingPhases
  <2>1. \A i \in 1..Len(queue[c]) : queue[c][i] # Shutdown
    BY DEF Report, Inv, QueuesFollowStop, ReportingPhases
  <2>2. \A i \in 1..Len(queue[c]) + 1 : i \in 1..Len(queue[c]) \/ i = Len(queue[c]) + 1
    BY <1>4
  <2>3. \A i \in 1..Len(queue'[c]) : queue'[c][i] # Shutdown
    BY <1>0, <1>1, <1>3, <2>1, <2>2 DEF item
  <2> QED
    BY <1>0, <2>3 DEF Report, Inv, QueuesFollowStop, ReportingPhases
<1>8. (NothingLostInFlight /\ DoneIsDurable /\ StoredIsPrefix /\ ClosedIsOver)'
  BY <1>0 DEF Report, Inv, TypeOK, NothingLostInFlight, DoneIsDurable, StoredIsPrefix,
     ClosedIsOver, QueuesFollowStop, ReportingPhases
<1> QED
  BY <1>5, <1>6, <1>7, <1>8 DEF Inv

LEMMA SignalInv == ASSUME Inv, Signal PROVE Inv'
<1> DEFINE All == Items \cup {Shutdown}
<1>1. \A c \in Channels : queue[c] \in Seq(All) /\ Len(queue[c]) \in Nat
  BY LenProperties DEF Inv, TypeOK
<1>2. \A c \in Opened : Len(queue[c]) = 0 /\ InFlight(c) = 0
  <2> SUFFICES ASSUME NEW c \in Opened
               PROVE  Len(queue[c]) = 0 /\ InFlight(c) = 0
    OBVIOUS
  <2>1. c \in Channels /\ InFlight(c) \in Nat
    BY DEF Opened, InFlight
  <2>2. unfinished[c] = 0 /\ unfinished[c] = Len(queue[c]) + InFlight(c)
    BY <2>1 DEF Signal, Inv, UnfinishedIsPending
  <2> QED
    BY <1>1, <2>1, <2>2
<1>3. \A c \in Channels : queue[c] = <<>>
  BY <1>1, <1>2, EmptySeq DEF Inv, QueuesFollowStop, Opened
<1>4. \A c \in Channels : queue'[c] = IF c \in Opened THEN <<Shutdown>> ELSE <<>>
  <2>1. Append(<<>>, Shutdown) = <<Shutdown>>
    OBVIOUS
  <2>2. \A c \in Channels : queue'[c] = IF c \in Opened THEN Append(queue[c], Shutdown) ELSE queue[c]
    BY DEF Signal
  <2> QED
    BY <1>3, <2>1, <2>2
<1>5. TypeOK'
  <2>0. <<Shutdown>> \in Seq(All) /\ <<>> \in Seq(All)
    OBVIOUS
  <2>1. queue' \in [Channels -> Seq(All)]
    <3>1. \A c \in Channels : queue'[c] \in Seq(All)
      BY <1>4, <2>0
    <3>2. queue' = [c \in Channels |-> queue'[c]]
      BY DEF Signal
    <3> QED
      BY <3>1, <3>2
  <2> QED
    BY <2>1 DEF Signal, Inv, TypeOK, Phases
<1>6. UnfinishedIsPending'
  <2> SUFFICES ASSUME NEW c \in Channels
               PROVE  unfinished'[c] = Len(queue'[c]) + InFlight(c)'
    BY DEF UnfinishedIsPending
  <2>0. Len(<<Shutdown>>) = 1 /\ Len(<<>>) = 0
    OBVIOUS
  <2>1. InFlight(c) = 0 /\ InFlight(c)' = InFlight(c)
    BY <1>2 DEF InFlight, Signal, Opened
  <2>2. Len(queue'[c]) = IF c \in Opened THEN 1 ELSE 0
    <3>1. CASE c \in Opened
      BY <1>4, <2>0, <3>1
    <3>2. CASE c \notin Opened
      BY <1>4, <2>0, <3>2
    <3> QED
      BY <3>1, <3>2
  <2>3. unfinished[c] = 0
    BY <1>3, <2>0, <2>1 DEF Inv, UnfinishedIsPending
  <2> QED
    BY <2>1, <2>2, <2>3 DEF Signal
<1>7. QueuesFollowStop'
  BY <1>2, <1>4 DEF Signal, Inv, QueuesFollowStop, InFlight, Opened, ReportingPhases
<1>8. (NothingLostInFlight /\ DoneIsDurable /\ StoredIsPrefix /\ ClosedIsOver)'
  BY DEF Signal, Inv, NothingLostInFlight, DoneIsDurable, StoredIsPrefix, ClosedIsOver
<1> QED
  BY <1>5, <1>6, <1>7, <1>8 DEF Inv

\* What a step of one writer that takes an item does to the counts.
LEMMA HeldQueue ==
    ASSUME Inv, NEW c \in Channels, Holds(c)
    PROVE  /\ Head(queue[c]) \in Items \cup {Shutdown}
           /\ Head(queue[c]) = queue[c][1]
           /\ Len(queue[c]) \in Nat \ {0}
           /\ Tail(queue[c]) \in Seq(Items \cup {Shutdown})
           /\ Len(Tail(queue[c])) = Len(queue[c]) - 1
           /\ \A i \in 1..Len(Tail(queue[c])) : Tail(queue[c])[i] = queue[c][i+1]
           /\ unfinished[c] = Len(queue[c])
<1>1. queue[c] \in Seq(Items \cup {Shutdown}) /\ queue[c] # <<>> /\ writer[c] = "get"
  BY DEF Inv, TypeOK, Holds
<1>2. Len(queue[c]) \in Nat \ {0}
  BY <1>1, EmptySeq
<1>3. InFlight(c) = 0
  BY <1>1 DEF InFlight
<1>4. unfinished[c] = Len(queue[c]) + InFlight(c)
  BY DEF Inv, UnfinishedIsPending
<1> QED
  BY <1>1, <1>2, <1>3, <1>4, HeadTailProperties

\* A writer that takes an item other than Shutdown runs before the queues are
\* signalled, and leaves no Shutdown behind.
LEMMA BeforeSignal ==
    ASSUME Inv, NEW c \in Channels, Holds(c), Head(queue[c]) # Shutdown
    PROVE  /\ phase \in ReportingPhases
           /\ \A i \in 1..Len(Tail(queue[c])) : Tail(queue[c])[i] # Shutdown
<1>1. phase \in ReportingPhases
  BY DEF Inv, QueuesFollowStop, Holds
<1>2. \A i \in 1..Len(queue[c]) : queue[c][i] # Shutdown
  BY <1>1 DEF Inv, QueuesFollowStop
<1>3. \A i \in 1..Len(Tail(queue[c])) : i + 1 \in 1..Len(queue[c])
  BY HeldQueue
<1> QED
  BY <1>1, <1>2, <1>3, HeldQueue

LEMMA TakeInv ==
    ASSUME ConstantsAssumption, Inv, NEW c \in Channels, Take(c)
    PROVE  Inv'
<1>0. Holds(c) /\ Head(queue[c]) # Shutdown
  BY DEF Take
<1> DEFINE item == Head(queue[c])
<1>1. PICK n \in 0..MaxBatch :
        /\ buffer' = [buffer EXCEPT ![c] = @ \o Block(item, n)]
        /\ drained' = [drained EXCEPT ![c] = @ \o Block(item, n)]
  BY DEF Take
<1> DEFINE block == Block(item, n)
<1>2. item \in Items
  BY <1>0, HeldQueue
<1>3. block \in Seq(Rows)
  BY <1>2, BlockIsRows DEF Inv, ConstantsAssumption
<1>4. /\ buffer[c] \o block \in Seq(Rows)
      /\ drained[c] \o block \in Seq(Rows)
      /\ Len(drained[c] \o block) = Len(drained[c]) + Len(block)
      /\ \A i \in 1..Len(drained[c]) : (drained[c] \o block)[i] = drained[c][i]
      /\ Len(drained[c]) \in Nat /\ Len(block) \in Nat
  <2> HIDE DEF block
  <2>1. buffer[c] \in Seq(Rows) /\ drained[c] \in Seq(Rows)
    BY DEF Inv, TypeOK
  <2>2. Len(drained[c]) \in Nat /\ Len(block) \in Nat
    BY <1>3, <2>1, LenProperties
  <2>3. buffer[c] \o block \in Seq(Rows)
    BY <1>3, <2>1, ConcatProperties
  <2>4. /\ drained[c] \o block \in Seq(Rows)
        /\ Len(drained[c] \o block) = Len(drained[c]) + Len(block)
        /\ \A i \in 1..Len(drained[c]) + Len(block) :
             (drained[c] \o block)[i] =
             IF i <= Len(drained[c]) THEN drained[c][i] ELSE block[i - Len(drained[c])]
    BY <1>3, <2>1, ConcatProperties
  <2>5. \A i \in 1..Len(drained[c]) : i \in 1..Len(drained[c]) + Len(block) /\ i <= Len(drained[c])
    BY <2>2
  <2> QED
    BY <2>2, <2>3, <2>4, <2>5
<1> HIDE DEF block
<1>5. \/ Goto(c, "write") /\ UNCHANGED unfinished
      \/ TaskDone(c) /\ UNCHANGED writer
  BY DEF Take
<1>6. /\ queue' = [queue EXCEPT ![c] = Tail(@)]
      /\ UNCHANGED <<phase, execs, storage>>
      /\ writer[c] = "get"
  BY DEF Take, Pop, Holds
<1>7. unfinished[c] = Len(queue[c]) /\ unfinished[c] \in Nat \ {0}
  BY <1>0, HeldQueue
<1>8. TypeOK'
  <2>1. queue' \in [Channels -> Seq(Items \cup {Shutdown})]
    BY <1>0, <1>6, HeldQueue DEF Inv, TypeOK
  <2>2. buffer' \in [Channels -> Seq(Rows)] /\ drained' \in [Channels -> Seq(Rows)]
    BY <1>1, <1>4 DEF Inv, TypeOK, block
  <2>3. unfinished' \in [Channels -> Nat] /\ writer' \in [Channels -> Writers]
    <3>1. CASE Goto(c, "write") /\ UNCHANGED unfinished
      BY <3>1 DEF Inv, TypeOK, Goto, Writers
    <3>2. CASE TaskDone(c) /\ UNCHANGED writer
      BY <1>7, <3>2 DEF Inv, TypeOK, TaskDone
    <3> QED
      BY <1>5, <3>1, <3>2
  <2> QED
    BY <1>6, <2>1, <2>2, <2>3 DEF Inv, TypeOK
<1>9. UnfinishedIsPending'
  <2> SUFFICES ASSUME NEW d \in Channels
               PROVE  unfinished'[d] = Len(queue'[d]) + InFlight(d)'
    BY DEF UnfinishedIsPending
  <2>1. CASE d = c
    BY <1>0, <1>5, <1>6, <1>7, <2>1, HeldQueue
       DEF Inv, TypeOK, InFlight, Goto, TaskDone
  <2>2. CASE d # c
    BY <1>5, <1>6, <2>2
       DEF Inv, TypeOK, UnfinishedIsPending, InFlight, Goto, TaskDone
  <2> QED
    BY <2>1, <2>2
<1>10. QueuesFollowStop'
  BY <1>0, <1>5, <1>6, BeforeSignal DEF Inv, TypeOK, QueuesFollowStop, Goto
<1>11. NothingLostInFlight'
  <2>1. storage[c] \o buffer[c] = drained[c]
    BY <1>6 DEF Inv, NothingLostInFlight
  <2>2. storage[c] \o (buffer[c] \o block) = drained[c] \o block
    <3>1. storage[c] \in Seq(Rows) /\ buffer[c] \in Seq(Rows)
      BY DEF Inv, TypeOK
    <3>2. (storage[c] \o buffer[c]) \o block = storage[c] \o (buffer[c] \o block)
      BY ZenonT(30), <1>3, <3>1, ConcatRows
    <3> QED
      BY <2>1, <3>2
  <2> QED
    BY <1>1, <1>5, <1>6, <2>2 DEF Inv, TypeOK, NothingLostInFlight, Goto, block
<1>12. DoneIsDurable'
  BY <1>1, <1>5, <1>6 DEF Inv, TypeOK, DoneIsDurable, Goto
<1>13. StoredIsPrefix'
  <2> SUFFICES ASSUME NEW d \in Channels
               PROVE  /\ Len(storage[d]) <= Len(drained'[d])
                      /\ \A i \in 1..Len(storage[d]) : storage[d][i] = drained'[d][i]
    BY <1>6 DEF StoredIsPrefix
  <2>1. /\ Len(storage[d]) \in Nat
        /\ Len(storage[d]) <= Len(drained[d])
        /\ \A i \in 1..Len(storage[d]) : storage[d][i] = drained[d][i]
    BY LenProperties DEF Inv, TypeOK, StoredIsPrefix
  <2>2. CASE d = c
    <3>1. drained'[c] = drained[c] \o block
      BY <1>1 DEF Inv, TypeOK, block
    <3>2. \A i \in 1..Len(storage[c]) : i \in 1..Len(drained[c])
      BY <1>4, <2>1, <2>2
    <3> QED
      BY <1>4, <2>1, <2>2, <3>1, <3>2
  <2>3. CASE d # c
    BY <1>1, <2>1, <2>3 DEF Inv, TypeOK
  <2> QED
    BY <2>2, <2>3
<1>14. ClosedIsOver'
  BY <1>0, <1>6, BeforeSignal DEF ReportingPhases, ClosedIsOver
<1> QED
  BY <1>8, <1>9, <1>10, <1>11, <1>12, <1>13, <1>14 DEF Inv

\* A step that takes an item without keeping any of its rows.
LEMMA TakeRaisesInv == ASSUME Inv, NEW c \in Channels, TakeRaises(c) PROVE Inv'
<1>0. Holds(c) /\ Head(queue[c]) # Shutdown
  BY DEF TakeRaises
<1>1. /\ queue' = [queue EXCEPT ![c] = Tail(@)]
      /\ unfinished' = [unfinished EXCEPT ![c] = @ - 1]
      /\ writer' = [writer EXCEPT ![c] = "failed"]
      /\ UNCHANGED <<phase, execs, buffer, storage, drained>>
      /\ writer[c] = "get"
  BY DEF TakeRaises, Holds, Pop, TaskDone, Goto
<1>2. unfinished[c] = Len(queue[c]) /\ unfinished[c] \in Nat \ {0}
  BY <1>0, HeldQueue
<1>3. TypeOK'
  BY <1>0, <1>1, <1>2, HeldQueue DEF Inv, TypeOK, Writers, Terminated
<1>4. UnfinishedIsPending'
  <2> SUFFICES ASSUME NEW d \in Channels
               PROVE  unfinished'[d] = Len(queue'[d]) + InFlight(d)'
    BY DEF UnfinishedIsPending
  <2>1. CASE d = c
    BY <1>0, <1>1, <1>2, <2>1, HeldQueue DEF Inv, TypeOK, InFlight
  <2>2. CASE d # c
    BY <1>1, <2>2 DEF Inv, TypeOK, UnfinishedIsPending, InFlight
  <2> QED
    BY <2>1, <2>2
<1>5. QueuesFollowStop'
  BY <1>0, <1>1, BeforeSignal DEF Inv, TypeOK, QueuesFollowStop
<1>6. (NothingLostInFlight /\ DoneIsDurable /\ StoredIsPrefix)'
  BY <1>1 DEF Inv, TypeOK, NothingLostInFlight, DoneIsDurable, StoredIsPrefix
<1>7. ClosedIsOver'
  BY <1>0, <1>1, BeforeSignal DEF ReportingPhases, ClosedIsOver
<1> QED
  BY <1>3, <1>4, <1>5, <1>6, <1>7 DEF Inv

LEMMA TakeShutdownInv == ASSUME Inv, NEW c \in Channels, TakeShutdown(c) PROVE Inv'
<1>0. Holds(c) /\ Head(queue[c]) = Shutdown
  BY DEF TakeShutdown
<1>1. /\ queue' = [queue EXCEPT ![c] = Tail(@)]
      /\ unfinished' = [unfinished EXCEPT ![c] = @ - 1]
      /\ writer' = [writer EXCEPT ![c] = IF buffer[c] = <<>> THEN "done" ELSE "flush"]
      /\ UNCHANGED <<phase, execs, buffer, storage, drained>>
      /\ writer[c] = "get"
  BY DEF TakeShutdown, Holds, Pop, TaskDone, Goto
<1>2. unfinished[c] = Len(queue[c]) /\ unfinished[c] \in Nat \ {0}
  BY <1>0, HeldQueue
<1>3. phase \notin ReportingPhases /\ queue[c] = <<Shutdown>>
  <2>1. 1 \in 1..Len(queue[c]) /\ queue[c][1] = Shutdown
    BY <1>0, HeldQueue
  <2> QED
    BY <1>1, <2>1 DEF Inv, QueuesFollowStop
<1>4. queue'[c] = <<>>
  <2>1. Tail(<<Shutdown>>) = <<>>
    OBVIOUS
  <2> QED
    BY <1>1, <1>3, <2>1 DEF Inv, TypeOK
<1>5. TypeOK'
  BY <1>0, <1>1, <1>2, HeldQueue DEF Inv, TypeOK, Writers, Terminated
<1>6. UnfinishedIsPending'
  <2> SUFFICES ASSUME NEW d \in Channels
               PROVE  unfinished'[d] = Len(queue'[d]) + InFlight(d)'
    BY DEF UnfinishedIsPending
  <2>1. CASE d = c
    BY <1>0, <1>1, <1>2, <2>1, HeldQueue DEF Inv, TypeOK, InFlight
  <2>2. CASE d # c
    BY <1>1, <2>2 DEF Inv, TypeOK, UnfinishedIsPending, InFlight
  <2> QED
    BY <2>1, <2>2
<1>7. QueuesFollowStop'
  BY <1>1, <1>3, <1>4 DEF Inv, TypeOK, QueuesFollowStop
<1>8. storage[c] \o buffer[c] = drained[c]
  BY <1>1 DEF Inv, NothingLostInFlight
<1>9. buffer[c] = <<>> => storage[c] = drained[c]
  BY <1>8, ConcatEmptySeq DEF Inv, TypeOK
<1>10. (NothingLostInFlight /\ DoneIsDurable /\ StoredIsPrefix)'
  BY <1>1, <1>8, <1>9 DEF Inv, TypeOK, NothingLostInFlight, DoneIsDurable, StoredIsPrefix
<1>11. ClosedIsOver'
  BY <1>1 DEF Inv, TypeOK, ClosedIsOver, Opened, Terminated
<1> QED
  BY <1>5, <1>6, <1>7, <1>10, <1>11 DEF Inv

\* What a write leaves in the file: the old rows, then the first k of the buffer.
LEMMA WrittenIsPrefix ==
    ASSUME Inv, NEW c \in Channels, writer[c] \in {"write", "flush"},
           NEW k \in 0..Len(buffer[c]),
           storage' = [storage EXCEPT ![c] = @ \o SubSeq(buffer[c], 1, k)],
           UNCHANGED drained
    PROVE  /\ storage' \in [Channels -> Seq(Rows)]
           /\ StoredIsPrefix'
<1>1. storage[c] \o buffer[c] = drained[c]
  BY DEF Inv, NothingLostInFlight
<1>2. storage[c] \in Seq(Rows) /\ buffer[c] \in Seq(Rows)
  BY DEF Inv, TypeOK
<1> DEFINE p == storage[c] \o SubSeq(buffer[c], 1, k)
<1>3. /\ p \in Seq(Rows)
      /\ Len(p) <= Len(storage[c] \o buffer[c])
      /\ \A i \in 1..Len(p) : p[i] = (storage[c] \o buffer[c])[i]
  BY <1>2, PrefixOfSplit, Zenon
<1>4. storage'[c] = p
  BY DEF Inv, TypeOK
<1> HIDE DEF p
<1>5. \A d \in Channels : d # c => storage'[d] = storage[d]
  BY DEF Inv, TypeOK
<1>6. StoredIsPrefix'
  <2> SUFFICES ASSUME NEW d \in Channels
               PROVE  /\ Len(storage'[d]) <= Len(drained[d])
                      /\ \A i \in 1..Len(storage'[d]) : storage'[d][i] = drained[d][i]
    BY ZenonT(30) DEF StoredIsPrefix
  <2>1. CASE d = c
    BY <1>1, <1>3, <1>4, <2>1
  <2>2. CASE d # c
    BY <1>5, <2>2 DEF Inv, StoredIsPrefix
  <2> QED
    BY <2>1, <2>2
<1>7. storage' \in [Channels -> Seq(Rows)]
  BY <1>3, <1>4 DEF Inv, TypeOK
<1> QED
  BY <1>6, <1>7

\* A whole buffer is its own prefix.
LEMMA WholeBuffer ==
    ASSUME Inv, NEW c \in Channels
    PROVE  /\ Len(buffer[c]) \in 0..Len(buffer[c])
           /\ SubSeq(buffer[c], 1, Len(buffer[c])) = buffer[c]
BY LenProperties, SubSeqFull DEF Inv, TypeOK

\* A write is under way only before the queues are signalled; its item counts.
LEMMA DuringWrite ==
    ASSUME Inv, NEW c \in Channels, writer[c] = "write"
    PROVE  /\ phase \in ReportingPhases
           /\ unfinished[c] = Len(queue[c]) + 1
           /\ Len(queue[c]) \in Nat
BY LenProperties DEF Inv, TypeOK, QueuesFollowStop, UnfinishedIsPending, InFlight

LEMMA WriteInv == ASSUME Inv, NEW c \in Channels, Write(c) PROVE Inv'
<1>1. /\ writer[c] = "write"
      /\ storage' = [storage EXCEPT ![c] = @ \o buffer[c]]
      /\ buffer' = [buffer EXCEPT ![c] = <<>>]
      /\ unfinished' = [unfinished EXCEPT ![c] = @ - 1]
      /\ writer' = [writer EXCEPT ![c] = "get"]
      /\ UNCHANGED <<phase, execs, queue, drained>>
  BY DEF Write, Clear, TaskDone, Goto
<1>2. storage' \in [Channels -> Seq(Rows)] /\ StoredIsPrefix'
  <2> DEFINE k == Len(buffer[c])
  <2>1. k \in 0..Len(buffer[c]) /\ SubSeq(buffer[c], 1, k) = buffer[c]
    BY WholeBuffer
  <2>2. storage' = [storage EXCEPT ![c] = @ \o SubSeq(buffer[c], 1, k)]
    BY <1>1, <2>1
  <2> QED
    BY <1>1, <2>1, <2>2, WrittenIsPrefix
<1>3. TypeOK'
  BY SMTT(20), <1>1, <1>2, DuringWrite DEF Inv, TypeOK, Writers
<1>4. UnfinishedIsPending'
  <2> SUFFICES ASSUME NEW d \in Channels
               PROVE  unfinished'[d] = Len(queue[d]) + InFlight(d)'
    BY <1>1 DEF UnfinishedIsPending
  <2>1. CASE d = c
    BY <1>1, <2>1, DuringWrite DEF Inv, TypeOK, InFlight
  <2>2. CASE d # c
    BY <1>1, <2>2 DEF Inv, TypeOK, UnfinishedIsPending, InFlight
  <2> QED
    BY <2>1, <2>2
<1>5. QueuesFollowStop'
  BY <1>1, DuringWrite DEF Inv, TypeOK, QueuesFollowStop
<1>6. NothingLostInFlight'
  <2>1. storage[c] \o buffer[c] = drained[c]
    BY <1>1 DEF Inv, NothingLostInFlight
  <2>2. drained[c] \o <<>> = drained[c]
    BY ConcatEmptySeq DEF Inv, TypeOK
  <2>3. storage'[c] \o buffer'[c] = drained[c]
    BY <1>1, <2>1, <2>2 DEF Inv, TypeOK
  <2> QED
    BY <1>1, <2>3 DEF Inv, TypeOK, NothingLostInFlight
<1>7. (DoneIsDurable /\ ClosedIsOver)'
  BY <1>1, DuringWrite DEF Inv, TypeOK, DoneIsDurable, ClosedIsOver, ReportingPhases
<1> QED
  BY <1>2, <1>3, <1>4, <1>5, <1>6, <1>7 DEF Inv

LEMMA WriteRaisesInv == ASSUME Inv, NEW c \in Channels, WriteRaises(c) PROVE Inv'
<1>0. PICK k \in 0..Len(buffer[c]) :
        storage' = [storage EXCEPT ![c] = @ \o SubSeq(buffer[c], 1, k)]
  BY DEF WriteRaises
<1>1. /\ writer[c] = "write"
      /\ unfinished' = [unfinished EXCEPT ![c] = @ - 1]
      /\ writer' = [writer EXCEPT ![c] = "failed"]
      /\ UNCHANGED <<phase, execs, queue, buffer, drained>>
  BY DEF WriteRaises, TaskDone, Goto
<1>2. storage' \in [Channels -> Seq(Rows)] /\ StoredIsPrefix'
  BY <1>0, <1>1, WrittenIsPrefix
<1>3. TypeOK'
  <2>1. unfinished' \in [Channels -> Nat]
    BY <1>1, DuringWrite DEF Inv, TypeOK
  <2>2. writer' \in [Channels -> Writers]
    BY <1>1 DEF Inv, TypeOK, Writers, Terminated
  <2> QED
    BY <1>1, <1>2, <2>1, <2>2 DEF Inv, TypeOK
<1>4. UnfinishedIsPending'
  <2> SUFFICES ASSUME NEW d \in Channels
               PROVE  unfinished'[d] = Len(queue[d]) + InFlight(d)'
    BY <1>1 DEF UnfinishedIsPending
  <2>1. CASE d = c
    BY <1>1, <2>1, DuringWrite DEF Inv, TypeOK, InFlight
  <2>2. CASE d # c
    BY <1>1, <2>2 DEF Inv, TypeOK, UnfinishedIsPending, InFlight
  <2> QED
    BY <2>1, <2>2
<1>5. QueuesFollowStop'
  BY <1>1, DuringWrite DEF Inv, TypeOK, QueuesFollowStop
<1>6. (NothingLostInFlight /\ DoneIsDurable)'
  BY <1>0, <1>1 DEF Inv, TypeOK, NothingLostInFlight, DoneIsDurable
<1>7. ClosedIsOver'
  BY <1>1, DuringWrite DEF ClosedIsOver, ReportingPhases
<1> QED
  BY <1>2, <1>3, <1>4, <1>5, <1>6, <1>7 DEF Inv

LEMMA FlushInv == ASSUME Inv, NEW c \in Channels, Flush(c) PROVE Inv'
<1>1. /\ writer[c] = "flush"
      /\ storage' = [storage EXCEPT ![c] = @ \o buffer[c]]
      /\ writer' = [writer EXCEPT ![c] = "done"]
      /\ UNCHANGED <<phase, execs, queue, unfinished, buffer, drained>>
  BY DEF Flush, Goto
<1>2. storage' \in [Channels -> Seq(Rows)] /\ StoredIsPrefix'
  <2> DEFINE k == Len(buffer[c])
  <2>1. k \in 0..Len(buffer[c]) /\ SubSeq(buffer[c], 1, k) = buffer[c]
    BY WholeBuffer
  <2>2. storage' = [storage EXCEPT ![c] = @ \o SubSeq(buffer[c], 1, k)]
    BY <1>1, <2>1
  <2> QED
    BY <1>1, <2>1, <2>2, WrittenIsPrefix
<1>3. TypeOK'
  BY <1>1, <1>2 DEF Inv, TypeOK, Writers, Terminated
<1>4. UnfinishedIsPending' /\ QueuesFollowStop'
  BY <1>1 DEF Inv, TypeOK, UnfinishedIsPending, InFlight, QueuesFollowStop
<1>5. (NothingLostInFlight /\ DoneIsDurable)'
  <2>1. storage'[c] = drained[c]
    BY <1>1 DEF Inv, TypeOK, NothingLostInFlight
  <2> QED
    BY <1>1, <2>1 DEF Inv, TypeOK, NothingLostInFlight, DoneIsDurable
<1>6. ClosedIsOver'
  BY <1>1 DEF Inv, TypeOK, ClosedIsOver, Opened, Terminated
<1> QED
  BY <1>2, <1>3, <1>4, <1>5, <1>6 DEF Inv

LEMMA FlushRaisesInv == ASSUME Inv, NEW c \in Channels, FlushRaises(c) PROVE Inv'
<1>0. PICK k \in 0..Len(buffer[c]) :
        storage' = [storage EXCEPT ![c] = @ \o SubSeq(buffer[c], 1, k)]
  BY DEF FlushRaises
<1>1. /\ writer[c] = "flush"
      /\ writer' = [writer EXCEPT ![c] = "failed"]
      /\ UNCHANGED <<phase, execs, queue, unfinished, buffer, drained>>
  BY DEF FlushRaises, Goto
<1>2. storage' \in [Channels -> Seq(Rows)] /\ StoredIsPrefix'
  BY <1>0, <1>1, WrittenIsPrefix
<1>3. TypeOK'
  BY <1>1, <1>2 DEF Inv, TypeOK, Writers, Terminated
<1>4. UnfinishedIsPending' /\ QueuesFollowStop'
  BY <1>1 DEF Inv, TypeOK, UnfinishedIsPending, InFlight, QueuesFollowStop
<1>5. (NothingLostInFlight /\ DoneIsDurable)'
  BY <1>0, <1>1 DEF Inv, TypeOK, NothingLostInFlight, DoneIsDurable
<1>6. ClosedIsOver'
  BY <1>1 DEF Inv, TypeOK, ClosedIsOver, Opened, Terminated
<1> QED
  BY <1>2, <1>3, <1>4, <1>5, <1>6 DEF Inv

-----------------------------------------------------------------------------
(* The theorems.                                                           *)

LEMMA StutterInv == ASSUME Inv, UNCHANGED vars PROVE Inv'
BY DEF vars, Inv, TypeOK, UnfinishedIsPending, InFlight, QueuesFollowStop,
   NothingLostInFlight, DoneIsDurable, StoredIsPrefix, ClosedIsOver, Opened

\* The invariant the others follow from: stop()'s progress, the queues' contents,
\* the counts join() waits for and the rows in flight, together.
THEOREM Invariance == Spec => []Inv
<1>1. Init => Inv
  BY ConstantsAssumption, InitInv
<1>2. Inv /\ [Next]_vars => Inv'
  <2> SUFFICES ASSUME Inv, [Next]_vars PROVE Inv'
    OBVIOUS
  <2>1. CASE Start
    BY <2>1, StartInv
  <2>2. ASSUME NEW m \in Metrics, Report(m) PROVE Inv'
    BY <2>2, ConstantsAssumption, ReportInv
  <2>3. CASE Stop
    BY <2>3, StopInv
  <2>4. CASE Signal
    BY <2>4, SignalInv
  <2>5. CASE Close
    BY <2>5, CloseInv
  <2>6. ASSUME NEW c \in Channels, WriterStep(c) PROVE Inv'
    BY <2>6, ConstantsAssumption, TakeInv, TakeRaisesInv, WriteInv, WriteRaisesInv,
       TakeShutdownInv, FlushInv, FlushRaisesInv DEF WriterStep
  <2>7. CASE UNCHANGED vars
    BY <2>7, StutterInv
  <2> QED
    BY <2>1, <2>2, <2>3, <2>4, <2>5, <2>6, <2>7 DEF Next
<1> QED
  BY <1>1, <1>2, PTL DEF Spec

\* The variables keep their types.
THEOREM TypeCorrect == Spec => []TypeOK
<1>1. Inv => TypeOK
  BY DEF Inv
<1> QED
  BY <1>1, Invariance, PTL

\* join() counts exactly the queued items and the one being written.
THEOREM JoinCounts == Spec => []UnfinishedIsPending
<1>1. Inv => UnfinishedIsPending
  BY DEF Inv
<1> QED
  BY <1>1, Invariance, PTL

\* A live writer neither loses, repeats nor reorders a row.
THEOREM NoRowLost == Spec => []NothingLostInFlight
<1>1. Inv => NothingLostInFlight
  BY DEF Inv
<1> QED
  BY <1>1, Invariance, PTL

\* The file is a prefix of the rows taken, also after a failed write.
THEOREM FileIsPrefix == Spec => []StoredIsPrefix
<1>1. Inv => StoredIsPrefix
  BY DEF Inv
<1> QED
  BY <1>1, Invariance, PTL

\* When stop() returns, the writers that did not fail have stored everything.
THEOREM Durability == Spec => []ClosedMeansDurable
<1>1. Inv => ClosedMeansDurable
  BY DEF Inv, ClosedMeansDurable, ClosedIsOver, DoneIsDurable, QueuesFollowStop,
     ReportingPhases, Terminated, Opened
<1> QED
  BY <1>1, Invariance, PTL

-----------------------------------------------------------------------------
(* Rows stay in the order of the executions they are labelled with.        *)

InTurn(x, y) == x.metric = y.metric => x.of < y.of

\* Of one channel, with the items q in its queue and the rows d taken from it:
\* both are in the order of the executions ex of their metrics, rows before
\* items, and no row is older than its data.
Ordered(q, d, ex) ==
    /\ \A i, j \in 1..Len(d) : i < j => Before(d[i], d[j])
    /\ \A i \in 1..Len(d) : d[i].of <= d[i].data /\ d[i].of <= ex[d[i].metric]
    /\ \A i, j \in 1..Len(q) :
         i < j /\ q[i] # Shutdown /\ q[j] # Shutdown => InTurn(q[i], q[j])
    /\ \A j \in 1..Len(q) : q[j] # Shutdown => q[j].of <= ex[q[j].metric]
    /\ \A i \in 1..Len(d) : \A j \in 1..Len(q) : q[j] # Shutdown => InTurn(d[i], q[j])

RowsFollowItems == \A c \in Channels : Ordered(queue[c], drained[c], execs)

\* What the lemmas below say of queues and rows of any content.
IsQueue(q) == q \in Seq(Items \cup {Shutdown})
IsExecs(ex) == ex \in [Metrics -> Nat]

\* The members of a queue and of the rows taken, as the provers need them.
LEMMA Members ==
    ASSUME NEW q, IsQueue(q), NEW d \in Seq(Rows)
    PROVE  /\ Len(q) \in Nat /\ Len(d) \in Nat
           /\ \A i \in 1..Len(q) : q[i] # Shutdown => q[i].metric \in Metrics /\ q[i].of \in Nat
           /\ \A i \in 1..Len(d) : d[i].metric \in Metrics /\ d[i].of \in Nat /\ d[i].data \in Nat /\ d[i].at \in Nat
<1>1. \A i \in 1..Len(q) : q[i] \in Items \cup {Shutdown}
  BY ElementOfSeq DEF IsQueue
<1>2. \A i \in 1..Len(d) : d[i] \in Rows
  BY ElementOfSeq
<1> QED
  BY <1>1, <1>2, LenProperties DEF Items, Rows, IsQueue

\* A queue that loses its head stays in order.
LEMMA OrderedTail ==
    ASSUME NEW q, IsQueue(q), q # <<>>, NEW d \in Seq(Rows), NEW ex, IsExecs(ex),
           Ordered(q, d, ex)
    PROVE  Ordered(Tail(q), d, ex)
<1>1. /\ Len(q) \in Nat /\ Len(Tail(q)) = Len(q) - 1
      /\ \A i \in 1..Len(Tail(q)) : Tail(q)[i] = q[i + 1]
  BY HeadTailProperties, LenProperties DEF IsQueue
<1>2. \A i \in 1..Len(Tail(q)) : i + 1 \in 1..Len(q)
  BY <1>1
<1>3. \A i, j \in 1..Len(Tail(q)) : i < j => i + 1 < j + 1
  BY <1>1
<1> QED
  BY <1>1, <1>2, <1>3 DEF Ordered

\* The rows of the item at the head of the queue follow those taken before.
LEMMA OrderedTake ==
    ASSUME ConstantsAssumption, TypeOK, NEW c \in Channels, queue[c] # <<>>, Head(queue[c]) # Shutdown,
           Ordered(queue[c], drained[c], execs), NEW n \in Nat
    PROVE  Ordered(Tail(queue[c]), drained[c] \o Block(Head(queue[c]), n), execs)
<1> DEFINE q == queue[c]
           d == drained[c]
           item == Head(q)
           b == Block(item, n)
           w == d \o b
<1>1. IsQueue(q) /\ d \in Seq(Rows) /\ IsExecs(execs)
  BY DEF TypeOK, IsQueue, IsExecs
<1>2. item = q[1] /\ 1 \in 1..Len(q) /\ item \in Items /\ Len(q) \in Nat
  BY <1>1, HeadTailProperties, EmptySeq, LenProperties DEF IsQueue
<1>3. b \in Seq(Rows)
  BY <1>2, BlockIsRows
<1>4. Len(b) = n /\ \A i \in 1..n : b[i].metric = item.metric /\ b[i].of = item.of
                                   /\ b[i].data = execs[item.metric] /\ b[i].at = i
  BY DEF Block
<1> HIDE DEF b, item
<1>5. /\ w \in Seq(Rows) /\ Len(w) = Len(d) + n /\ Len(d) \in Nat
      /\ \A i \in 1..Len(w) : w[i] = IF i <= Len(d) THEN d[i] ELSE b[i - Len(d)]
  <2> HIDE DEF d
  <2>1. Len(d) \in Nat
    BY <1>1, LenProperties
  <2>2. /\ w \in Seq(Rows) /\ Len(w) = Len(d) + Len(b)
        /\ \A i \in 1..Len(d) + Len(b) : w[i] = IF i <= Len(d) THEN d[i] ELSE b[i - Len(d)]
    BY <1>1, <1>3, ConcatProperties
  <2> QED
    BY <1>4, <2>1, <2>2
<1>6. \A i \in 1..Len(w) : \/ i \in 1..Len(d) /\ w[i] = d[i]
                           \/ /\ w[i].metric = item.metric /\ w[i].of = item.of
                              /\ w[i].data = execs[item.metric] /\ i > Len(d)
                              /\ w[i].at = i - Len(d)
  <2> TAKE i \in 1..Len(w)
  <2>1. i > Len(d) => i - Len(d) \in 1..n
    BY <1>5
  <2> QED
    BY <1>4, <1>5, <2>1
<1>7. Ordered(Tail(q), d, execs)
  BY <1>1, OrderedTail
<1>8. /\ item.of <= execs[item.metric] /\ item.of \in Nat /\ item.metric \in Metrics
      /\ \A i \in 1..Len(d) : InTurn(d[i], item)
  BY <1>2 DEF Ordered, Items
<1>9. \A j \in 1..Len(Tail(q)) : Tail(q)[j] # Shutdown => InTurn(item, Tail(q)[j])
  <2> TAKE j \in 1..Len(Tail(q))
  <2>1. Tail(q)[j] = q[j + 1] /\ j + 1 \in 1..Len(q) /\ 1 < j + 1
    BY <1>1, <1>2, HeadTailProperties DEF IsQueue
  <2> QED
    BY <1>2, <2>1 DEF Ordered
<1> HIDE DEF w, q, d
<1>10. ASSUME NEW i \in 1..Len(w), NEW j \in 1..Len(w), i < j PROVE Before(w[i], w[j])
  <2>1. CASE j \in 1..Len(d) /\ w[j] = d[j]
    <3>1. i \in 1..Len(d) /\ w[i] = d[i]
      BY <1>5, <1>6, <1>10, <2>1
    <3> QED
      BY <1>7, <1>10, <2>1, <3>1 DEF Ordered
  <2>2. CASE /\ w[j].metric = item.metric /\ w[j].of = item.of
             /\ j > Len(d) /\ w[j].at = j - Len(d)
    <3>1. CASE i \in 1..Len(d) /\ w[i] = d[i]
      BY <1>8, <2>2, <3>1 DEF InTurn, Before
    <3>2. CASE w[i].of = item.of /\ i > Len(d) /\ w[i].at = i - Len(d)
      BY <1>5, <1>10, <2>2, <3>2 DEF Before
    <3> QED
      BY <1>6, <3>1, <3>2
  <2> QED
    BY <1>6, <2>1, <2>2
<1>11. \A i \in 1..Len(w) : w[i].of <= w[i].data /\ w[i].of <= execs[w[i].metric]
  BY <1>6, <1>7, <1>8 DEF Ordered
<1>12. \A i \in 1..Len(w) : \A j \in 1..Len(Tail(q)) : Tail(q)[j] # Shutdown => InTurn(w[i], Tail(q)[j])
  BY <1>6, <1>7, <1>9 DEF Ordered, InTurn
<1> QED
  BY <1>7, <1>10, <1>11, <1>12 DEF Ordered, w, q, d, b, item

\* The item an execution adds is the youngest of its metric.
LEMMA OrderedReport ==
    ASSUME NEW q, IsQueue(q), NEW d \in Seq(Rows), NEW ex, IsExecs(ex), NEW m \in Metrics,
           Ordered(q, d, ex)
    PROVE  LET new == [ex EXCEPT ![m] = @ + 1]
               item == [metric |-> m, of |-> ex[m] + 1]
           IN  Ordered(q, d, new) /\ Ordered(Append(q, item), d, new)
<1> DEFINE new == [ex EXCEPT ![m] = @ + 1]
           item == [metric |-> m, of |-> ex[m] + 1]
           r == Append(q, item)
<1>1. \A x \in Metrics : ex[x] \in Nat /\ new[x] \in Nat /\ ex[x] <= new[x]
  BY DEF IsExecs
<1>2. new[m] = ex[m] + 1
  BY DEF IsExecs
<1>0. /\ \A i \in 1..Len(q) : q[i] # Shutdown => q[i].metric \in Metrics /\ q[i].of \in Nat
      /\ \A i \in 1..Len(d) : d[i].metric \in Metrics /\ d[i].of \in Nat
  BY Members
<1>3. Ordered(q, d, new)
  <2> HIDE DEF new
  <2>1. \A i \in 1..Len(d) : d[i].of <= new[d[i].metric]
    BY <1>0, <1>1 DEF Ordered
  <2>2. \A i \in 1..Len(q) : q[i] # Shutdown => q[i].of <= new[q[i].metric]
    BY <1>0, <1>1 DEF Ordered
  <2> QED
    BY <2>1, <2>2 DEF Ordered
<1>4. item \in Items
  BY <1>1 DEF Items
<1>5. /\ Len(q) \in Nat /\ Len(r) = Len(q) + 1 /\ r[Len(q) + 1] = item
      /\ \A i \in 1..Len(q) : r[i] = q[i]
  BY <1>4, AppendProperties, LenProperties DEF IsQueue
<1>6. \A i \in 1..Len(r) : \/ i \in 1..Len(q) /\ r[i] = q[i]
                           \/ i = Len(r) /\ r[i] = item
  BY <1>5
<1>7. item.metric = m /\ item.of = ex[m] + 1
  OBVIOUS
<1> HIDE DEF r, item, new
<1>8. \A i \in 1..Len(q) : q[i] # Shutdown => InTurn(q[i], item)
  BY <1>0, <1>1, <1>7 DEF Ordered, InTurn
<1>9. \A i \in 1..Len(d) : InTurn(d[i], item)
  BY <1>0, <1>1, <1>7 DEF Ordered, InTurn
<1>10. ASSUME NEW i \in 1..Len(r), NEW j \in 1..Len(r), i < j, r[i] # Shutdown, r[j] # Shutdown
       PROVE  InTurn(r[i], r[j])
  <2>1. i \in 1..Len(q) /\ r[i] = q[i]
    BY <1>5, <1>6, <1>10
  <2> QED
    BY <1>3, <1>6, <1>8, <1>10, <2>1 DEF Ordered
<1>11. \A j \in 1..Len(r) : r[j] # Shutdown => r[j].of <= new[r[j].metric]
  <2>1. item.of <= new[item.metric]
    BY <1>1, <1>2, <1>7
  <2> QED
    BY <1>3, <1>6, <2>1 DEF Ordered
<1>12. \A i \in 1..Len(d) : \A j \in 1..Len(r) : r[j] # Shutdown => InTurn(d[i], r[j])
  BY <1>3, <1>6, <1>9 DEF Ordered
<1>13. Ordered(r, d, new)
  BY <1>3, <1>10, <1>11, <1>12 DEF Ordered
<1> QED
  BY <1>3, <1>13 DEF r, item, new

\* The shutdown signal stands behind every item.
LEMMA OrderedSignal ==
    ASSUME NEW q, IsQueue(q), NEW d \in Seq(Rows), NEW ex, Ordered(q, d, ex)
    PROVE  Ordered(Append(q, Shutdown), d, ex)
<1> DEFINE r == Append(q, Shutdown)
<1>1. /\ Len(q) \in Nat /\ Len(r) = Len(q) + 1 /\ r[Len(q) + 1] = Shutdown
      /\ \A i \in 1..Len(q) : r[i] = q[i]
  BY AppendProperties, LenProperties DEF IsQueue
<1>2. \A i \in 1..Len(r) : r[i] # Shutdown => i \in 1..Len(q) /\ r[i] = q[i]
  BY <1>1
<1> HIDE DEF r
<1>3. Ordered(r, d, ex)
  BY <1>1, <1>2 DEF Ordered
<1> QED
  BY <1>3 DEF r

LEMMA NextOrdered ==
    ASSUME ConstantsAssumption, Inv, RowsFollowItems, [Next]_vars
    PROVE  RowsFollowItems'
<1> SUFFICES ASSUME NEW c \in Channels
             PROVE  Ordered(queue'[c], drained'[c], execs')
  BY DEF RowsFollowItems
<1>1. Ordered(queue[c], drained[c], execs)
  BY DEF RowsFollowItems
<1>2. IsQueue(queue[c]) /\ drained[c] \in Seq(Rows) /\ IsExecs(execs) /\ TypeOK
  BY DEF Inv, TypeOK, IsQueue, IsExecs
<1>3. CASE UNCHANGED <<execs, queue, drained>>
  BY <1>1, <1>3
<1>4. ASSUME NEW m \in Metrics, Report(m)
      PROVE  Ordered(queue'[c], drained'[c], execs')
  <2>1. /\ execs' = [execs EXCEPT ![m] = @ + 1]
        /\ drained' = drained
        /\ \/ queue'[c] = queue[c]
           \/ queue'[c] = Append(queue[c], [metric |-> m, of |-> execs[m] + 1])
    BY <1>4 DEF Report
  <2>2. /\ Ordered(queue[c], drained[c], [execs EXCEPT ![m] = @ + 1])
        /\ Ordered(Append(queue[c], [metric |-> m, of |-> execs[m] + 1]), drained[c],
                   [execs EXCEPT ![m] = @ + 1])
    BY <1>1, <1>2, <1>4, OrderedReport
  <2> QED
    BY <2>1, <2>2
<1>5. CASE Signal
  <2>1. /\ UNCHANGED <<execs, drained>>
        /\ queue'[c] \in {queue[c], Append(queue[c], Shutdown)}
    BY <1>5 DEF Signal
  <2> QED
    BY <1>1, <1>2, <2>1, OrderedSignal
<1>6. ASSUME NEW x \in Channels, Take(x)
      PROVE  Ordered(queue'[c], drained'[c], execs')
  <2>1. PICK n \in 0..MaxBatch :
          drained' = [drained EXCEPT ![x] = @ \o Block(Head(queue[x]), n)]
    BY <1>6 DEF Take
  <2>2. /\ queue' = [queue EXCEPT ![x] = Tail(@)] /\ execs' = execs
        /\ queue[x] # <<>> /\ Head(queue[x]) # Shutdown /\ n \in Nat
    BY <1>6 DEF Take, Pop, Holds, ConstantsAssumption
  <2>3. CASE x = c
    <3>1. /\ queue'[c] = Tail(queue[c])
          /\ drained'[c] = drained[c] \o Block(Head(queue[c]), n)
      BY <2>1, <2>2, <2>3 DEF Inv, TypeOK
    <3> QED
      BY <1>1, <1>2, <2>2, <2>3, <3>1, OrderedTake
  <2>4. CASE x # c
    BY <1>1, <2>1, <2>2, <2>4 DEF Inv, TypeOK
  <2> QED
    BY <2>3, <2>4
<1>7. ASSUME NEW x \in Channels, TakeRaises(x) \/ TakeShutdown(x)
      PROVE  Ordered(queue'[c], drained'[c], execs')
  <2>1. /\ queue' = [queue EXCEPT ![x] = Tail(@)] /\ UNCHANGED <<execs, drained>>
        /\ queue[x] # <<>>
    BY <1>7 DEF TakeRaises, TakeShutdown, Pop, Holds
  <2>2. queue'[c] \in {queue[c], Tail(queue[c])} /\ (queue'[c] = queue[c] \/ x = c)
    BY <2>1 DEF Inv, TypeOK
  <2> QED
    BY <1>1, <1>2, <2>1, <2>2, OrderedTail
<1> QED
  BY <1>3, <1>4, <1>5, <1>6, <1>7
     DEF Next, vars, Start, Stop, Close, WriterStep, Write, WriteRaises, Flush, FlushRaises

\* The rows of a metric are in the file in the order of its executions and of
\* their generators, none twice, and before those still queued; none carries
\* data older than its label.
THEOREM FileIsInOrder == Spec => []RowsInOrder
<1>1. Init => RowsFollowItems
  <2>1. \A i \in 1..Len(<<>>) : FALSE
    OBVIOUS
  <2> QED
    BY <2>1 DEF Init, RowsFollowItems, Ordered
<1>2. Inv /\ RowsFollowItems /\ [Next]_vars => RowsFollowItems'
  BY NextOrdered, ConstantsAssumption
<1>3. Inv /\ RowsFollowItems => RowsInOrder
  <2> SUFFICES ASSUME Inv, RowsFollowItems, NEW c \in Channels,
                      NEW i \in 1..Len(storage[c]), NEW j \in 1..Len(storage[c])
               PROVE  /\ i < j => Before(storage[c][i], storage[c][j])
                      /\ \A k \in 1..Len(queue[c]) :
                           queue[c][k] # Shutdown /\ queue[c][k].metric = storage[c][i].metric
                             => storage[c][i].of < queue[c][k].of
                      /\ storage[c][i].of <= storage[c][i].data
    BY DEF RowsInOrder
  <2>1. /\ Len(storage[c]) \in Nat /\ Len(drained[c]) \in Nat
        /\ Len(storage[c]) <= Len(drained[c])
        /\ \A k \in 1..Len(storage[c]) : storage[c][k] = drained[c][k]
    BY LenProperties DEF Inv, TypeOK, StoredIsPrefix
  <2>2. i \in 1..Len(drained[c]) /\ j \in 1..Len(drained[c])
    BY <2>1
  <2> QED
    BY <2>1, <2>2 DEF RowsFollowItems, Ordered, InTurn
<1> QED
  BY <1>1, <1>2, <1>3, Invariance, PTL DEF Spec

-----------------------------------------------------------------------------
(* The reporter implements the journal.                                    *)

\* A sequence is a prefix of itself and of what it is continued with.
LEMMA ContinuedPrefix ==
    ASSUME NEW s \in Seq(Rows), NEW t \in Seq(Rows)
    PROVE  J!Prefix(s, s) /\ J!Prefix(s, s \o t)
<1>1. Len(s) \in Nat /\ Len(t) \in Nat
  BY LenProperties
<1>2. /\ Len(s \o t) = Len(s) + Len(t)
      /\ \A i \in 1..Len(s) + Len(t) :
           (s \o t)[i] = IF i <= Len(s) THEN s[i] ELSE t[i - Len(s)]
  BY ConcatProperties
<1> QED
  BY <1>1, <1>2 DEF J!Prefix

\* A writer that fails in the middle of a write has stored more than before,
\* and no more than it took.
LEMMA BrokenWrite ==
    ASSUME Inv, NEW c \in Channels, writer[c] \in {"write", "flush"},
           NEW k \in 0..Len(buffer[c]),
           storage' = [storage EXCEPT ![c] = @ \o SubSeq(buffer[c], 1, k)]
    PROVE  J!Prefix(storage[c], storage'[c]) /\ J!Prefix(storage'[c], drained[c])
<1> DEFINE h == SubSeq(buffer[c], 1, k)
<1>1. storage[c] \in Seq(Rows) /\ buffer[c] \in Seq(Rows) /\ h \in Seq(Rows)
  <2>1. storage[c] \in Seq(Rows) /\ buffer[c] \in Seq(Rows)
    BY DEF Inv, TypeOK
  <2>2. \A i \in 1..k : buffer[c][i] \in Rows
    BY <2>1, ElementOfSeq, LenProperties
  <2> QED
    BY <2>1, <2>2, SubSeqProperties, LenProperties
<1>2. storage'[c] = storage[c] \o h
  BY DEF Inv, TypeOK
<1>3. drained[c] = storage[c] \o buffer[c]
  BY DEF Inv, NothingLostInFlight
<1>4. J!Prefix(storage[c], storage'[c])
  BY <1>1, <1>2, ContinuedPrefix
<1>5. J!Prefix(storage[c] \o h, storage[c] \o buffer[c])
  <2>1. /\ Len(storage[c] \o h) <= Len(storage[c] \o buffer[c])
        /\ \A i \in 1..Len(storage[c] \o h) :
             (storage[c] \o h)[i] = (storage[c] \o buffer[c])[i]
    BY <1>1, PrefixOfSplit
  <2> HIDE DEF h
  <2> QED
    BY <2>1 DEF J!Prefix
<1> QED
  BY <1>2, <1>3, <1>4, <1>5

\* A step after which the same writers have failed and the same rows are taken
\* and stored is none of the journal's.
LEMMA JournalStutters ==
    ASSUME UNCHANGED <<drained, storage>>, FailedWriters' = FailedWriters,
           (phase' = "closed") <=> (phase = "closed")
    PROVE  UNCHANGED J!vars
BY DEF J!vars

\* A writer fails.
LEMMA WriterFails ==
    ASSUME Inv, NEW c \in Channels, writer[c] \in {"get", "write", "flush"},
           writer' = [writer EXCEPT ![c] = "failed"],
           UNCHANGED <<phase, drained>>,
           J!Prefix(storage[c], storage'[c]), J!Prefix(storage'[c], drained[c]),
           \A d \in Channels \ {c} : storage'[d] = storage[d]
    PROVE  J!Fail(c)
<1>1. phase # "closed"
  BY DEF Inv, ClosedIsOver, Opened, Terminated
<1>2. FailedWriters' = FailedWriters \cup {c} /\ c \notin FailedWriters
  BY DEF FailedWriters, Inv, TypeOK
<1> QED
  BY <1>1, <1>2 DEF J!Fail, J!Usable

LEMMA TakeJournal ==
    ASSUME ConstantsAssumption, Inv, NEW c \in Channels, Take(c)
    PROVE  J!Accept(c)
<1>1. PICK n \in 0..MaxBatch :
        drained' = [drained EXCEPT ![c] = @ \o Block(Head(queue[c]), n)]
  BY DEF Take
<1>2. /\ writer[c] = "get" /\ queue[c] # <<>> /\ Head(queue[c]) # Shutdown
      /\ writer' = writer \/ writer' = [writer EXCEPT ![c] = "write"]
      /\ UNCHANGED <<phase, storage>>
  BY DEF Take, Holds, Goto
<1>3. Head(queue[c]) \in Items
  BY <1>2, HeadTailProperties DEF Inv, TypeOK
<1>4. n \in Nat
  BY DEF ConstantsAssumption
<1>5. Block(Head(queue[c]), n) \in Seq(Rows)
  BY <1>3, <1>4, BlockIsRows DEF Inv
<1>6. drained'[c] = drained[c] \o Block(Head(queue[c]), n)
      /\ \A d \in Channels \ {c} : drained'[d] = drained[d]
  BY <1>1 DEF Inv, TypeOK
<1>7. J!Prefix(drained[c], drained'[c])
  BY <1>5, <1>6, ContinuedPrefix DEF Inv, TypeOK
<1>8. phase # "closed"
  BY <1>2 DEF Inv, ClosedIsOver, Opened, Terminated
<1>9. FailedWriters' = FailedWriters /\ c \notin FailedWriters
  BY <1>2 DEF FailedWriters, Inv, TypeOK
<1> QED
  BY <1>2, <1>6, <1>7, <1>8, <1>9 DEF J!Accept, J!Usable

\* A whole write, of a chunk or the last one, stores all that was taken.
LEMMA WholeWrite ==
    ASSUME Inv, NEW c \in Channels, writer[c] \in {"write", "flush"},
           storage' = [storage EXCEPT ![c] = @ \o buffer[c]],
           NEW l \in {"get", "done"}, writer' = [writer EXCEPT ![c] = l],
           UNCHANGED <<phase, drained>>
    PROVE  J!Store(c)
<1>1. storage' = [storage EXCEPT ![c] = drained[c]]
  BY DEF Inv, NothingLostInFlight, TypeOK
<1>2. phase # "closed"
  BY DEF Inv, ClosedIsOver, Opened, Terminated
<1>3. FailedWriters' = FailedWriters /\ c \notin FailedWriters
  BY DEF FailedWriters, Inv, TypeOK
<1> QED
  BY <1>1, <1>2, <1>3 DEF J!Store, J!Usable

LEMMA WriterJournal ==
    ASSUME ConstantsAssumption, Inv, NEW c \in Channels, WriterStep(c)
    PROVE  [J!Next]_(J!vars)
<1>1. CASE Take(c)
  BY <1>1, TakeJournal DEF J!Next
<1>2. CASE TakeRaises(c)
  <2>1. J!Prefix(storage[c], storage'[c]) /\ J!Prefix(storage'[c], drained[c])
    BY <1>2, ContinuedPrefix DEF TakeRaises, Inv, TypeOK, StoredIsPrefix, J!Prefix
  <2>2. J!Fail(c)
    BY <1>2, <2>1, WriterFails DEF TakeRaises, Goto, Holds
  <2> QED
    BY <2>2 DEF J!Next
<1>3. CASE Write(c)
  BY <1>3, WholeWrite DEF Write, Goto, J!Next
<1>4. CASE WriteRaises(c)
  <2>1. PICK k \in 0..Len(buffer[c]) :
          storage' = [storage EXCEPT ![c] = @ \o SubSeq(buffer[c], 1, k)]
    BY <1>4 DEF WriteRaises
  <2>2. writer[c] = "write"
    BY <1>4 DEF WriteRaises
  <2>3. J!Prefix(storage[c], storage'[c]) /\ J!Prefix(storage'[c], drained[c])
    BY <2>1, <2>2, BrokenWrite
  <2>4. \A d \in Channels \ {c} : storage'[d] = storage[d]
    BY <2>1 DEF Inv, TypeOK
  <2>5. J!Fail(c)
    BY <1>4, <2>3, <2>4, WriterFails DEF WriteRaises, Goto
  <2> QED
    BY <2>5 DEF J!Next
<1>5. CASE TakeShutdown(c)
  <2>1. FailedWriters' = FailedWriters
    BY <1>5 DEF TakeShutdown, Holds, Goto, FailedWriters, Inv, TypeOK
  <2> QED
    BY <1>5, <2>1, JournalStutters DEF TakeShutdown
<1>6. CASE Flush(c)
  BY <1>6, WholeWrite DEF Flush, Goto, J!Next
<1>7. CASE FlushRaises(c)
  <2>1. PICK k \in 0..Len(buffer[c]) :
          storage' = [storage EXCEPT ![c] = @ \o SubSeq(buffer[c], 1, k)]
    BY <1>7 DEF FlushRaises
  <2>2. writer[c] = "flush"
    BY <1>7 DEF FlushRaises
  <2>3. J!Prefix(storage[c], storage'[c]) /\ J!Prefix(storage'[c], drained[c])
    BY <2>1, <2>2, BrokenWrite
  <2>4. \A d \in Channels \ {c} : storage'[d] = storage[d]
    BY <2>1 DEF Inv, TypeOK
  <2>5. J!Fail(c)
    BY <1>7, <2>3, <2>4, WriterFails DEF FlushRaises, Goto
  <2> QED
    BY <2>5 DEF J!Next
<1> QED
  BY <1>1, <1>2, <1>3, <1>4, <1>5, <1>6, <1>7 DEF WriterStep

\* stop() closes no journal that lacks rows: its writer is done, has failed or
\* never was.
LEMMA CloseJournal == ASSUME Inv, Close PROVE J!Close
<1>1. phase = "gathering" /\ phase' = "closed" /\ UNCHANGED <<storage, drained>>
      /\ FailedWriters' = FailedWriters
  BY DEF Close, FailedWriters
<1>2. ASSUME NEW c \in Channels \ FailedWriters
      PROVE  storage[c] = drained[c]
  BY DEF Close, Gathered, Opened, Terminated, FailedWriters, Inv, DoneIsDurable
<1> QED
  BY <1>1, <1>2 DEF J!Close

\* Every behaviour of the reporter is, in its files and the rows its writers
\* take, one of a journal: initial states map to the empty journal, a take to
\* an Accept, a write to a Store, an exception to a Fail, the end of stop() to
\* the Close, and what remains, queues, buffers and signals, to nothing.
THEOREM ReporterIsJournal == Spec => KeepsAJournal
<1>1. Init => J!Init
  BY DEF Init, J!Init, FailedWriters
<1>2. Inv /\ [Next]_vars => [J!Next]_(J!vars)
  <2> SUFFICES ASSUME Inv, [Next]_vars PROVE [J!Next]_(J!vars)
    OBVIOUS
  <2>1. CASE Start
    BY <2>1, JournalStutters DEF Start, FailedWriters
  <2>2. ASSUME NEW m \in Metrics, Report(m) PROVE UNCHANGED J!vars
    <3>1. UNCHANGED <<phase, drained, storage>>
      BY <2>2 DEF Report
    <3>2. \A c \in Channels : writer'[c] = "failed" <=> writer[c] = "failed"
      BY <2>2 DEF Report
    <3> QED
      BY <3>1, <3>2, JournalStutters DEF FailedWriters
  <2>3. CASE Stop
    BY <2>3, JournalStutters DEF Stop, FailedWriters
  <2>4. CASE Signal
    BY <2>4, JournalStutters DEF Signal, FailedWriters
  <2>5. CASE Close
    BY <2>5, CloseJournal DEF J!Next
  <2>6. ASSUME NEW c \in Channels, WriterStep(c) PROVE [J!Next]_(J!vars)
    BY <2>6, ConstantsAssumption, WriterJournal
  <2>7. CASE UNCHANGED vars
    BY <2>7, JournalStutters DEF vars, FailedWriters
  <2> QED
    BY <2>1, <2>2, <2>3, <2>4, <2>5, <2>6, <2>7 DEF Next
<1> QED
  BY <1>1, <1>2, Invariance, PTL DEF Spec, J!Spec, KeepsAJournal
=============================================================================
