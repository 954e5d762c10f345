-------------------------- MODULE TradeJournal_proofs --------------------------
(***************************************************************************)
(* Proofs about TradeJournal, for every queue length and number of rows.   *)
(*                                                                         *)
(* FileInOrder is not inductive: it follows from where each row is.  The   *)
(* queue is increasing, everything else is older than the queue (Ordered), *)
(* and a thread works outside the writer's turn only when the writer has   *)
(* been given up, so a flush overtakes it only then (Control).             *)
(* DropsAreCounted and the refinement follow from the places of the rows:  *)
(* a step leaves every row where it is, settles one, or queues one.        *)
(***************************************************************************)
EXTENDS TradeJournal, FiniteSetTheorems, SequenceTheorems, TLAPS

Ordered ==
  /\ \A i, j \in DOMAIN queue : i < j => queue[i] < queue[j]
  /\ \A i \in DOMAIN file, j \in DOMAIN queue : file[i] < queue[j]
  /\ \A r \in thread, j \in DOMAIN queue : r < queue[j]
  /\ \A q, r \in thread : q = r
  /\ \A i \in DOMAIN file, r \in thread : file[i] < r \/ (r \in late /\ file[i] # r)

Control ==
  /\ thread # {} => writer = "writing" \/ (writer = "dead" /\ thread \subseteq late)
  /\ writer \in {"flushing", "done", "dead"} => stop # "no"
  /\ writer = "done" => queue = <<>>
  /\ writer = "dead" <=> stop = "flushing" \/ (stop = "done" /\ writer # "done")
  /\ writer # "dead" => late = {}
  /\ stop = "done" => queue = <<>>

IInv == TypeOK /\ Ordered /\ Control /\ FileInOrder

---------------------------------------------------------------------------
(* Sequences of rows. *)

LEMMA WiderType ==
  ASSUME NEW n \in Nat, NEW m \in Nat, n <= m, NEW s \in Seq(1..n)
  PROVE  s \in Seq(1..m)
<1>1. 1..n \subseteq 1..m
  OBVIOUS
<1>2. QED
  BY <1>1

LEMMA AppendType ==
  ASSUME NEW n \in Nat, NEW m \in Nat, n <= m, NEW s \in Seq(1..n), NEW r \in 1..m
  PROVE  /\ Append(s, r) \in Seq(1..m)
         /\ DOMAIN Append(s, r) = 1..(Len(s) + 1)
         /\ Append(s, r)[Len(s) + 1] = r
         /\ \A i \in DOMAIN s : Append(s, r)[i] = s[i]
BY WiderType

LEMMA TailType ==
  ASSUME NEW n \in Nat, NEW s \in Seq(1..n), s # <<>>
  PROVE  /\ Tail(s) \in Seq(1..n) /\ Head(s) = s[1] /\ Head(s) \in 1..n
         /\ 1 \in DOMAIN s
         /\ DOMAIN Tail(s) = 1..(Len(s) - 1) /\ Len(Tail(s)) = Len(s) - 1
         /\ \A i \in DOMAIN Tail(s) : i + 1 \in DOMAIN s /\ Tail(s)[i] = s[i + 1]
  OBVIOUS

---------------------------------------------------------------------------
(* The invariant. *)

USE TradeJournalAssumption DEF TradeJournalAssumption

LEMMA InitIInv == Init => IInv
BY DEF Init, IInv, TypeOK, Ordered, Control, FileInOrder

\* What remains in the queue when its oldest row is taken.
LEMMA RestOfQueue ==
  ASSUME IInv, queue # <<>>
  PROVE  /\ Tail(queue) \in Seq(1..rows) /\ Len(Tail(queue)) <= QueueMax
         /\ Head(queue) \in 1..rows
         /\ \A j \in DOMAIN Tail(queue) : Head(queue) < Tail(queue)[j]
         /\ \A i, j \in DOMAIN Tail(queue) : i < j => Tail(queue)[i] < Tail(queue)[j]
         /\ \A i \in DOMAIN file, j \in DOMAIN Tail(queue) : file[i] < Tail(queue)[j]
         /\ \A r \in thread, j \in DOMAIN Tail(queue) : r < Tail(queue)[j]
         /\ \A i \in DOMAIN file : file[i] < Head(queue)
         /\ \A r \in thread : r < Head(queue)
<1>1. rows \in Nat /\ queue \in Seq(1..rows) /\ Len(queue) <= QueueMax
  BY DEF IInv, TypeOK
<1>2. /\ Tail(queue) \in Seq(1..rows) /\ Head(queue) = queue[1] /\ Head(queue) \in 1..rows
      /\ 1 \in DOMAIN queue
      /\ DOMAIN Tail(queue) = 1..(Len(queue) - 1) /\ Len(Tail(queue)) = Len(queue) - 1
      /\ \A i \in DOMAIN Tail(queue) : i + 1 \in DOMAIN queue /\ Tail(queue)[i] = queue[i + 1]
  BY <1>1, TailType
<1>3. \A i, j \in DOMAIN Tail(queue) : i < j => Tail(queue)[i] < Tail(queue)[j]
  <2>1. SUFFICES ASSUME NEW i \in DOMAIN Tail(queue), NEW j \in DOMAIN Tail(queue), i < j
                 PROVE  Tail(queue)[i] < Tail(queue)[j]
    OBVIOUS
  <2>2. i + 1 \in DOMAIN queue /\ j + 1 \in DOMAIN queue /\ i + 1 < j + 1
    BY <1>2, <2>1
  <2>3. QED
    BY <1>2, <2>2 DEF IInv, Ordered
<1>4. \A j \in DOMAIN Tail(queue) : Head(queue) < Tail(queue)[j]
  <2>1. SUFFICES ASSUME NEW j \in DOMAIN Tail(queue)
                 PROVE  Head(queue) < Tail(queue)[j]
    OBVIOUS
  <2>2. j + 1 \in DOMAIN queue /\ 1 < j + 1
    BY <1>2
  <2>3. QED
    BY <1>2, <2>2 DEF IInv, Ordered
<1>5. QED
  BY <1>1, <1>2, <1>3, <1>4 DEF IInv, Ordered

\* A younger row is appended to rows in order.
LEMMA Grown ==
  ASSUME NEW n \in Nat, NEW s \in Seq(1..n),
         \A i, j \in DOMAIN s : i < j => s[i] < s[j]
  PROVE  /\ Append(s, n + 1) \in Seq(1..(n + 1)) /\ Len(Append(s, n + 1)) = Len(s) + 1
         /\ \A i, j \in DOMAIN Append(s, n + 1) :
              i < j => Append(s, n + 1)[i] < Append(s, n + 1)[j]
         /\ \A i \in DOMAIN Append(s, n + 1) :
              Append(s, n + 1)[i] = n + 1 \/ (i \in DOMAIN s /\ Append(s, n + 1)[i] = s[i])
<1> DEFINE t == Append(s, n + 1)
<1>1. /\ t \in Seq(1..(n + 1)) /\ DOMAIN t = 1..(Len(s) + 1) /\ t[Len(s) + 1] = n + 1
      /\ \A i \in DOMAIN s : t[i] = s[i]
  BY AppendType, n + 1 \in Nat
<1>2. DOMAIN s = 1..Len(s) /\ Len(s) \in Nat /\ \A i \in DOMAIN s : s[i] \in 1..n
  OBVIOUS
<1>3. Len(t) = Len(s) + 1
  OBVIOUS
<1> HIDE DEF t
<1>4. ASSUME NEW i \in DOMAIN t, NEW j \in DOMAIN t, i < j PROVE t[i] < t[j]
  <2>1. i \in DOMAIN s /\ t[i] = s[i] /\ s[i] \in 1..n
    BY <1>1, <1>2, <1>4
  <2>2. CASE j \in DOMAIN s
    BY <1>1, <1>4, <2>1, <2>2
  <2>3. CASE j \notin DOMAIN s
    <3>1. t[j] = n + 1
      BY <1>1, <1>2, <2>3
    <3>2. QED
      BY <2>1, <3>1
  <2>4. QED
    BY <2>2, <2>3
<1>5. \A i \in DOMAIN t : t[i] = n + 1 \/ (i \in DOMAIN s /\ t[i] = s[i])
  BY <1>1, <1>2
<1>6. QED
  BY <1>1, <1>3, <1>4, <1>5 DEF t

LEMMA QueueStep == IInv /\ QueueRow => IInv'
<1> SUFFICES ASSUME IInv, QueueRow PROVE IInv'
  OBVIOUS
<1>1. rows \in Nat /\ rows' = rows + 1 /\ rows' \in 0..MaxRows /\ stop = "no"
  BY DEF QueueRow, IInv, TypeOK, shutdown
<1>2. UNCHANGED <<writer, thread, file, failed, stop, late>>
  BY DEF QueueRow
<1>3. file' \in Seq(1..rows') /\ thread' \in SUBSET (1..rows') /\ failed' \in SUBSET (1..rows')
      /\ late' \in SUBSET (1..rows')
  <2>1. 1..rows \subseteq 1..rows'
    BY <1>1
  <2>2. rows' \in Nat /\ rows <= rows' /\ file \in Seq(1..rows)
    BY <1>1 DEF IInv, TypeOK
  <2>3. file \in Seq(1..rows')
    BY <1>1, <2>2, WiderType
  <2>4. QED
    BY <1>2, <2>1, <2>3 DEF IInv, TypeOK
\* The rows that stay: all, or all but the oldest.
<1>4. \E s \in Seq(1..rows) :
        /\ queue' = Append(s, rows + 1) /\ Len(s) + 1 <= QueueMax
        /\ \A i, j \in DOMAIN s : i < j => s[i] < s[j]
        /\ \A i \in DOMAIN file, j \in DOMAIN s : file[i] < s[j]
        /\ \A r \in thread, j \in DOMAIN s : r < s[j]
        /\ dropped' \in 0..rows'
  <2>1. CASE Len(queue) < QueueMax
    <3>1. queue' = Append(queue, rows + 1) /\ dropped' = dropped
      BY <1>1, <2>1 DEF QueueRow, Enqueue
    <3>2. Len(queue) + 1 <= QueueMax /\ queue \in Seq(1..rows) /\ dropped' \in 0..rows'
      BY <1>1, <2>1, <3>1 DEF IInv, TypeOK
    <3>3. QED
      BY <3>1, <3>2 DEF IInv, Ordered
  <2>2. CASE ~(Len(queue) < QueueMax)
    <3>1. queue' = Append(Tail(queue), rows + 1) /\ dropped' = dropped + 1
      BY <1>1, <2>2 DEF QueueRow, Enqueue
    <3>2. queue \in Seq(1..rows) /\ Len(queue) = QueueMax /\ queue # <<>>
      BY <2>2 DEF IInv, TypeOK
    <3>3. Len(Tail(queue)) + 1 <= QueueMax /\ dropped' \in 0..rows'
      BY <1>1, <3>1, <3>2 DEF IInv, TypeOK
    <3>4. QED
      BY <3>1, <3>2, <3>3, RestOfQueue
  <2>3. QED
    BY <2>1, <2>2
<1>5. PICK s \in Seq(1..rows) :
        /\ queue' = Append(s, rows + 1) /\ Len(s) + 1 <= QueueMax
        /\ \A i, j \in DOMAIN s : i < j => s[i] < s[j]
        /\ \A i \in DOMAIN file, j \in DOMAIN s : file[i] < s[j]
        /\ \A r \in thread, j \in DOMAIN s : r < s[j]
        /\ dropped' \in 0..rows'
  BY <1>4
<1>6. /\ queue' \in Seq(1..(rows + 1)) /\ Len(queue') = Len(s) + 1
      /\ \A i, j \in DOMAIN queue' : i < j => queue'[i] < queue'[j]
      /\ \A i \in DOMAIN queue' : queue'[i] = rows + 1 \/ (i \in DOMAIN s /\ queue'[i] = s[i])
  BY <1>1, <1>5, Grown
<1>7. TypeOK'
  BY <1>1, <1>2, <1>3, <1>5, <1>6 DEF IInv, TypeOK
<1>8. Ordered'
  <2>1. \A i \in DOMAIN file, j \in DOMAIN queue' : file[i] < queue'[j]
    <3>1. \A i \in DOMAIN file : file[i] \in 1..rows
      BY DEF IInv, TypeOK
    <3>2. QED
      BY <1>1, <1>5, <1>6, <3>1
  <2>2. \A r \in thread, j \in DOMAIN queue' : r < queue'[j]
    <3>1. \A r \in thread : r \in 1..rows
      BY DEF IInv, TypeOK
    <3>2. QED
      BY <1>1, <1>5, <1>6, <3>1
  <2>3. QED
    BY <1>2, <1>6, <2>1, <2>2 DEF IInv, Ordered
<1>9. QED
  BY <1>1, <1>2, <1>7, <1>8 DEF IInv, Control, FileInOrder

LEMMA TakeStep == IInv /\ Take => IInv'
<1> SUFFICES ASSUME IInv, Take PROVE IInv'
  OBVIOUS
<1>1. /\ queue' = Tail(queue) /\ thread' = {Head(queue)} /\ writer' = "writing"
      /\ queue # <<>> /\ writer = "loop" /\ stop = "no"
      /\ UNCHANGED <<rows, dropped, file, failed, stop, late>>
  BY DEF Take, shutdown, IInv, TypeOK
<1>2. TypeOK'
  BY <1>1, RestOfQueue DEF IInv, TypeOK
<1>3. Ordered'
  BY <1>1, RestOfQueue DEF Ordered
<1>4. Control'
  BY <1>1 DEF IInv, Control
<1>5. FileInOrder'
  BY <1>1 DEF IInv, FileInOrder
<1>6. QED
  BY <1>2, <1>3, <1>4, <1>5 DEF IInv

\* A row is appended to the file.
LEMMA FileAppended ==
  ASSUME IInv, NEW r \in 1..rows, file' = Append(file, r), UNCHANGED <<rows, late>>,
         \A i \in DOMAIN file : file[i] < r \/ (r \in late /\ file[i] # r)
  PROVE  /\ file' \in Seq(1..rows) /\ FileInOrder'
         /\ \A i \in DOMAIN file' : i \notin DOMAIN file => file'[i] = r
         /\ \A i \in DOMAIN file : i \in DOMAIN file' /\ file'[i] = file[i]
<1>1. rows \in Nat /\ file \in Seq(1..rows)
  BY DEF IInv, TypeOK
<1>2. /\ file' \in Seq(1..rows) /\ DOMAIN file' = 1..(Len(file) + 1)
      /\ file'[Len(file) + 1] = r
      /\ \A i \in DOMAIN file : file'[i] = file[i]
  BY <1>1, AppendType
<1>3. DOMAIN file = 1..Len(file) /\ Len(file) \in Nat
  BY <1>1
<1>4. FileInOrder'
  <2>1. SUFFICES ASSUME NEW i \in DOMAIN file', NEW j \in DOMAIN file', i < j
                 PROVE  file'[i] < file'[j] \/ (file'[j] \in late' /\ file'[i] # file'[j])
    BY DEF FileInOrder
  <2>2. i \in DOMAIN file /\ file'[i] = file[i]
    BY <1>2, <1>3, <2>1
  <2>3. CASE j \in DOMAIN file
    BY <1>2, <2>1, <2>2, <2>3 DEF IInv, FileInOrder
  <2>4. CASE j \notin DOMAIN file
    BY <1>2, <1>3, <2>2, <2>4
  <2>5. QED
    BY <2>3, <2>4
<1>5. QED
  BY <1>2, <1>3, <1>4

LEMMA WriteStep == IInv /\ Write => IInv'
<1> SUFFICES ASSUME IInv, Write PROVE IInv'
  OBVIOUS
<1>1. CASE ThreadWrites
  <2>1. PICK r \in thread : file' = Append(file, r)
    BY <1>1 DEF ThreadWrites
  <2>2. thread' = {} /\ writer' = Resumed /\ UNCHANGED <<rows, queue, dropped, failed, stop, late>>
    BY <1>1 DEF ThreadWrites
  <2>3. r \in 1..rows /\ \A i \in DOMAIN file : file[i] < r \/ (r \in late /\ file[i] # r)
    BY DEF IInv, TypeOK, Ordered
  <2>4. /\ file' \in Seq(1..rows) /\ FileInOrder'
        /\ \A i \in DOMAIN file' : i \notin DOMAIN file => file'[i] = r
        /\ \A i \in DOMAIN file : i \in DOMAIN file' /\ file'[i] = file[i]
    BY <2>1, <2>2, <2>3, FileAppended
  <2>5. TypeOK'
    BY <2>2, <2>4 DEF IInv, TypeOK, Resumed
  <2>6. Ordered'
    BY <2>2, <2>4 DEF IInv, Ordered
  <2>7. Control'
    BY <2>2 DEF IInv, Control, Resumed, TypeOK
  <2>8. QED
    BY <2>4, <2>5, <2>6, <2>7 DEF IInv
<1>2. CASE ThreadFails
  <2>1. thread' = {} /\ failed' = failed \cup thread /\ writer' = Resumed
        /\ UNCHANGED <<rows, queue, dropped, file, stop, late>>
    BY <1>2 DEF ThreadFails, Recover
  <2>2. TypeOK'
    BY <2>1 DEF IInv, TypeOK, Resumed
  <2>3. Ordered' /\ FileInOrder'
    BY <2>1 DEF IInv, Ordered, FileInOrder
  <2>4. Control'
    BY <2>1 DEF IInv, Control, Resumed, TypeOK
  <2>5. QED
    BY <2>2, <2>3, <2>4 DEF IInv
<1>3. QED
  BY <1>1, <1>2 DEF Write

LEMMA FlushStep == IInv /\ Flush => IInv'
<1> SUFFICES ASSUME IInv, Flush PROVE IInv'
  OBVIOUS
<1>1. CASE FlushRow
  <2>1. queue # <<>> /\ queue' = Tail(queue) /\ UNCHANGED <<rows, dropped, writer, thread, stop, late>>
        /\ flushing
    BY <1>1 DEF FlushRow, FlushOne
  <2> DEFINE r == Head(queue)
  <2>2. r \in 1..rows /\ \A i \in DOMAIN file : file[i] < r
    BY <2>1, RestOfQueue
  <2>3. thread \subseteq late
    BY <2>1 DEF flushing, IInv, Control
  <2>4. CASE file' = Append(file, r) /\ UNCHANGED failed
    <3>1. /\ file' \in Seq(1..rows) /\ FileInOrder'
          /\ \A i \in DOMAIN file' : i \notin DOMAIN file => file'[i] = r
          /\ \A i \in DOMAIN file : i \in DOMAIN file' /\ file'[i] = file[i]
      BY <2>1, <2>2, <2>4, FileAppended
    <3>2. TypeOK'
      BY <2>1, <2>4, <3>1, RestOfQueue DEF IInv, TypeOK
    <3>3. Ordered'
      <4>1. \A i \in DOMAIN file' : file'[i] = r \/ (i \in DOMAIN file /\ file'[i] = file[i])
        BY <3>1
      <4>2. \A i \in DOMAIN file', j \in DOMAIN queue' : file'[i] < queue'[j]
        BY <2>1, <4>1, RestOfQueue
      <4>3. \A i \in DOMAIN file', q \in thread' :
              file'[i] < q \/ (q \in late' /\ file'[i] # q)
        <5>1. SUFFICES ASSUME NEW i \in DOMAIN file', NEW q \in thread'
                       PROVE  file'[i] < q \/ (q \in late' /\ file'[i] # q)
          OBVIOUS
        <5>2. q \in thread /\ q \in late' /\ q < r /\ q \in Nat /\ r \in Nat
          BY <2>1, <2>2, <2>3, RestOfQueue DEF IInv, TypeOK
        <5>3. QED
          BY <4>1, <5>2, <2>1 DEF IInv, Ordered
      <4>4. QED
        BY <2>1, <4>2, <4>3, RestOfQueue DEF IInv, Ordered
    <3>4. Control'
      BY <2>1, RestOfQueue DEF IInv, Control
    <3>5. QED
      BY <3>1, <3>2, <3>3, <3>4 DEF IInv
  <2>5. CASE failed' = failed \cup {r} /\ UNCHANGED file
    <3>1. TypeOK'
      BY <2>1, <2>2, <2>5, RestOfQueue DEF IInv, TypeOK
    <3>2. Ordered' /\ FileInOrder'
      BY <2>1, <2>5, RestOfQueue DEF IInv, Ordered, FileInOrder
    <3>3. Control'
      BY <2>1 DEF IInv, Control
    <3>4. QED
      BY <3>1, <3>2, <3>3 DEF IInv
  <2>6. QED
    BY <1>1, <2>4, <2>5 DEF FlushRow, FlushOne
<1>2. CASE FlushEnds
  <2>1. UNCHANGED <<rows, queue, dropped, thread, file, failed, late>>
    BY <1>2 DEF FlushEnds
  <2>2. TypeOK'
    BY <1>2, <2>1 DEF IInv, TypeOK, FlushEnds
  <2>3. Ordered' /\ FileInOrder'
    BY <2>1 DEF IInv, Ordered, FileInOrder
  <2>4. Control'
    BY <1>2, <2>1 DEF IInv, Control, FlushEnds, flushing
  <2>5. QED
    BY <2>2, <2>3, <2>4 DEF IInv
<1>3. QED
  BY <1>1, <1>2 DEF Flush

LEMMA ControlStep ==
  IInv /\ (Sleep \/ Wake \/ FinalFlush \/ Stop \/ StopReturns \/ GiveUp) => IInv'
<1> SUFFICES ASSUME IInv, Sleep \/ Wake \/ FinalFlush \/ Stop \/ StopReturns \/ GiveUp
             PROVE  IInv'
  OBVIOUS
<1>1. UNCHANGED <<rows, queue, dropped, thread, file, failed>> /\ (late' = late \/ late = {})
  BY DEF Sleep, Wake, FinalFlush, Stop, StopReturns, GiveUp, IInv, Control
<1>2. TypeOK'
  BY <1>1 DEF IInv, TypeOK, Sleep, Wake, FinalFlush, Stop, StopReturns, GiveUp, AfterGivingUp
<1>3. Ordered' /\ FileInOrder'
  BY <1>1 DEF IInv, Ordered, FileInOrder
<1>4. Control'
  BY <1>1 DEF IInv, Control, Sleep, Wake, FinalFlush, Stop, StopReturns, GiveUp,
             AfterGivingUp, shutdown
<1>5. QED
  BY <1>2, <1>3, <1>4 DEF IInv

LEMMA StepIInv == IInv /\ [Next]_vars => IInv'
<1>1. IInv /\ UNCHANGED vars => IInv'
  BY DEF IInv, TypeOK, Ordered, Control, FileInOrder, vars
<1>2. QED
  BY <1>1, QueueStep, TakeStep, WriteStep, FlushStep, ControlStep DEF Next

---------------------------------------------------------------------------
(* The theorems. *)

LEMMA Invariance == Spec => []IInv
<1>1. QED
  BY InitIInv, StepIInv, PTL DEF Spec

\* Every variable of the journal keeps its type; the queue is bounded.
THEOREM TypeCorrect == Spec => []TypeOK
<1>1. IInv => TypeOK
  BY DEF IInv
<1>2. QED
  BY <1>1, Invariance, PTL

\* The file has the rows in the order of the trades, none twice, but for the
\* row of a thread that outlived its writer.
THEOREM FileAlwaysInOrder == Spec => []FileInOrder
<1>1. IInv => FileInOrder
  BY DEF IInv
<1>2. QED
  BY <1>1, Invariance, PTL

\* stop_async_writer() never returns with rows left in the queue.
THEOREM StopAlwaysDrains == Spec => []StopDrains
<1>1. IInv => StopDrains
  BY DEF IInv, Control, StopDrains
<1>2. QED
  BY <1>1, Invariance, PTL

---------------------------------------------------------------------------
(* Where a row is decides its fate. *)

\* The rows that are nowhere.
Dropped == {r \in 1..rows : Fate(r) = "dropped"}

\* A failed row has left the queue and the thread for good, and is in no file.
FailedIsOver ==
  /\ \A r \in failed, j \in DOMAIN queue : r < queue[j]
  /\ failed \cap thread = {} /\ Written \cap failed = {}

\* A row has one place at most.
Apart == Written \cap failed = {} /\ (Written \cup failed) \cap Waiting = {}

\* The fates, place by place.
FateIs(r) ==
  /\ r \in Written => Fate(r) = "written"
  /\ r \in failed => Fate(r) = "failed"
  /\ r \in Waiting => Fate(r) = "waiting"
  /\ r \notin Written \cup failed \cup Waiting => Fate(r) = "dropped"

LEMMA FateNow == ASSUME Apart, NEW r PROVE FateIs(r)
BY Zenon DEF Fate, Apart, FateIs

LEMMA FateNext == ASSUME Apart', NEW r PROVE FateIs(r)'
BY Zenon DEF Fate, Apart, FateIs

LEMMA ApartHolds == IInv /\ FailedIsOver => Apart
<1> SUFFICES ASSUME IInv, FailedIsOver PROVE Apart
  OBVIOUS
<1>0. file \in Seq(1..rows) /\ queue \in Seq(1..rows) /\ failed \subseteq 1..rows /\ rows \in Nat
  BY DEF IInv, TypeOK
<1>1. \A i \in DOMAIN file, j \in DOMAIN queue : file[i] # queue[j]
  BY <1>0 DEF IInv, Ordered
<1>2. \A i \in DOMAIN file, r \in thread : file[i] # r
  BY <1>0 DEF IInv, Ordered, TypeOK
<1>3. \A r \in failed, j \in DOMAIN queue : r # queue[j]
  BY <1>0 DEF FailedIsOver
<1> QED
  BY <1>1, <1>2, <1>3 DEF Apart, Written, Waiting, FailedIsOver

LEMMA ApartNext == ASSUME IInv', FailedIsOver' PROVE Apart'
<1>1. (IInv /\ FailedIsOver => Apart)'
  BY ApartHolds, PTL
<1>2. QED
  BY <1>1

\* The rows of a sequence.
RowsOf(s) == {s[i] : i \in DOMAIN s}

LEMMA RowsAppended ==
  ASSUME NEW s \in Seq(Nat), NEW r \in Nat
  PROVE  RowsOf(Append(s, r)) = RowsOf(s) \cup {r}
<1>1. /\ DOMAIN Append(s, r) = 1..(Len(s) + 1) /\ Append(s, r)[Len(s) + 1] = r
      /\ \A i \in DOMAIN s : Append(s, r)[i] = s[i]
  OBVIOUS
<1>2. DOMAIN s = 1..Len(s) /\ Len(s) \in Nat
  OBVIOUS
<1>3. QED
  BY <1>1, <1>2 DEF RowsOf

LEMMA HeadTaken ==
  ASSUME IInv, queue # <<>>
  PROVE  /\ RowsOf(Tail(queue)) = RowsOf(queue) \ {Head(queue)}
         /\ Head(queue) \in RowsOf(queue) /\ Head(queue) \notin thread
<1>1. queue \in Seq(1..rows) /\ rows \in Nat /\ thread \subseteq 1..rows
  BY DEF IInv, TypeOK
<1>2. /\ Head(queue) = queue[1] /\ 1 \in DOMAIN queue /\ DOMAIN queue = 1..Len(queue)
      /\ Len(queue) \in Nat /\ DOMAIN Tail(queue) = 1..(Len(queue) - 1)
      /\ \A i \in DOMAIN Tail(queue) : i + 1 \in DOMAIN queue /\ Tail(queue)[i] = queue[i + 1]
  BY <1>1, TailType
<1>3. \A i \in DOMAIN queue : i = 1 \/ (i - 1 \in DOMAIN Tail(queue) /\ (i - 1) + 1 = i)
  BY <1>2
<1>4. RowsOf(queue) = RowsOf(Tail(queue)) \cup {Head(queue)}
  BY <1>2, <1>3 DEF RowsOf
<1>5. Head(queue) \notin RowsOf(Tail(queue)) /\ Head(queue) \notin thread
  BY RestOfQueue, <1>1 DEF RowsOf
<1>6. QED
  BY <1>4, <1>5

---------------------------------------------------------------------------
(* What a step does to the fates. *)

FateNames == {"written", "failed", "waiting", "dropped"}

LEMMA FatesType ==
  ASSUME IInv, Apart
  PROVE  /\ Fates \in Seq(FateNames) /\ Len(Fates) = rows /\ DOMAIN Fates = 1..rows
         /\ \A r \in 1..rows : Fates[r] = Fate(r)
<1>1. rows \in Nat
  BY DEF IInv, TypeOK
<1>2. \A r \in 1..rows : Fate(r) \in FateNames
  BY FateNow DEF FateIs, FateNames
<1>3. Fates \in [1..rows -> FateNames]
  BY <1>2 DEF Fates
<1>4. QED
  BY <1>1, <1>3 DEF Fates

LEMMA NothingSettles ==
  ASSUME UNCHANGED rows, Written' = Written, failed' = failed, Waiting' = Waiting
  PROVE  UNCHANGED Fates
<1>1. \A r \in 1..rows : Fate(r)' = Fate(r)
  BY Zenon DEF Fate
<1>2. QED
  BY <1>1 DEF Fates

\* A waiting row is written or its write fails.
LEMMA OneSettles ==
  ASSUME Apart, Apart', UNCHANGED rows, NEW r \in 1..rows, r \in Waiting,
         Waiting' = Waiting \ {r}, NEW f \in {"written", "failed"},
         Written' = IF f = "written" THEN Written \cup {r} ELSE Written,
         failed' = IF f = "failed" THEN failed \cup {r} ELSE failed
  PROVE  Fates' = [Fates EXCEPT ![r] = f] /\ Fates[r] = "waiting"
<1>1. Fate(r) = "waiting" /\ Fate(r)' = f
  BY FateNow, FateNext DEF FateIs
<1>2. ASSUME NEW q \in 1..rows, q # r PROVE Fate(q)' = Fate(q)
  BY <1>2, FateNow, FateNext DEF FateIs
<1>3. QED
  BY <1>1, <1>2 DEF Fates

\* A row is given, and the oldest row of a full queue is dropped for it.
LEMMA OneGiven ==
  ASSUME IInv, Apart, Apart', rows' = rows + 1, Written' = Written, failed' = failed,
         NEW D \in SUBSET Waiting, Waiting' = (Waiting \ D) \cup {rows + 1}
  PROVE  /\ \A r \in D : Fates[r] = "waiting"
         /\ Fates' = Append([r \in 1..rows |-> IF r \in D THEN "dropped" ELSE Fates[r]], "waiting")
<1>0. file \in Seq(1..rows) /\ queue \in Seq(1..rows) /\ rows \in Nat
      /\ failed \subseteq 1..rows /\ thread \subseteq 1..rows
  BY DEF IInv, TypeOK
<1>1. D \subseteq 1..rows /\ Written \subseteq 1..rows /\ Waiting \subseteq 1..rows
  <2>1. \A i \in DOMAIN queue : queue[i] \in 1..rows
    BY <1>0
  <2>2. \A i \in DOMAIN file : file[i] \in 1..rows
    BY <1>0
  <2>3. Waiting \subseteq 1..rows
    BY <1>0, <2>1 DEF Waiting
  <2>4. Written \subseteq 1..rows
    BY <2>2 DEF Written
  <2>5. QED
    BY <2>3, <2>4
<1>2. \A r \in D : Fates[r] = "waiting"
  BY <1>1, FateNow DEF Fates, FateIs
<1> PICK n \in Nat : n = rows + 1
  BY <1>0
<1>3. Fate(n)' = "waiting"
  BY FateNext DEF FateIs
<1>4. ASSUME NEW r \in 1..rows
      PROVE  Fate(r)' = IF r \in D THEN "dropped" ELSE Fates[r]
  <2>1. r # n
    BY <1>0
  <2>2. CASE r \in D
    BY <2>1, <2>2, FateNext DEF FateIs, Apart
  <2>3. CASE r \notin D
    BY <2>1, <2>3, FateNow, FateNext DEF Fates, FateIs
  <2>4. QED
    BY <2>2, <2>3
<1> DEFINE s == [r \in 1..rows |-> IF r \in D THEN "dropped" ELSE Fates[r]]
<1>5. s \in Seq(FateNames) /\ Len(s) = rows
  <2>1. \A r \in 1..rows : Fates[r] \in FateNames
    BY FatesType
  <2>2. s \in [1..rows -> FateNames]
    BY <2>1 DEF FateNames
  <2>3. QED
    BY <1>0, <2>2
<1>6. "waiting" \in FateNames
  BY DEF FateNames
<1>7. \A r \in 1..rows : s[r] = IF r \in D THEN "dropped" ELSE Fates[r]
  OBVIOUS
<1> HIDE DEF s
<1>8. /\ Append(s, "waiting") \in Seq(FateNames) /\ Len(Append(s, "waiting")) = rows + 1
      /\ Append(s, "waiting")[rows + 1] = "waiting" /\ \A r \in 1..rows : Append(s, "waiting")[r] = s[r]
  BY <1>5, <1>6, AppendProperties
<1>9. Fates' = [r \in 1..n |-> Fate(r)']
  BY DEF Fates
<1>10. \A r \in 1..n : Fate(r)' = Append(s, "waiting")[r]
  <2>1. \A r \in 1..n : r = n \/ r \in 1..rows
    BY <1>0
  <2>2. QED
    BY <1>3, <1>4, <1>7, <1>8, <2>1
<1>11. Append(s, "waiting") = [r \in 1..n |-> Append(s, "waiting")[r]]
  <2> DEFINE t == Append(s, "waiting")
  <2>1. t \in [1..Len(t) -> FateNames] /\ Len(t) = n
    BY <1>8, LenProperties
  <2> HIDE DEF t
  <2>2. t = [r \in 1..n |-> t[r]]
    BY <2>1
  <2>3. QED
    BY <2>2 DEF t
<1>12. Fates' = Append(s, "waiting")
  BY <1>9, <1>10, <1>11
<1> QED
  BY <1>2, <1>12 DEF s

\* No row goes anywhere; one row settles; one row is queued.
Still == UNCHANGED <<rows, dropped, failed>> /\ Written' = Written /\ Waiting' = Waiting

Settles(r, f) ==
  /\ UNCHANGED <<rows, dropped>> /\ r \in Waiting /\ Waiting' = Waiting \ {r}
  /\ Written' = IF f = "written" THEN Written \cup {r} ELSE Written
  /\ failed' = IF f = "failed" THEN failed \cup {r} ELSE failed

\* Drops: the rows that are evicted.
Gives(Drops) ==
  /\ rows < MaxRows /\ rows' = rows + 1 /\ Written' = Written /\ failed' = failed
  /\ Drops \subseteq Waiting /\ Waiting' = (Waiting \ Drops) \cup {rows + 1}

GivesOne ==
  \/ Gives({}) /\ dropped' = dropped
  \/ queue # <<>> /\ Gives({Head(queue)}) /\ dropped' = dropped + 1

LEMMA QueueGives == IInv /\ FailedIsOver /\ QueueRow => GivesOne /\ FailedIsOver'
<1> SUFFICES ASSUME IInv, FailedIsOver, QueueRow PROVE GivesOne /\ FailedIsOver'
  OBVIOUS
<1>1. /\ rows \in Nat /\ queue \in Seq(1..rows) /\ thread \subseteq 1..rows
      /\ failed \subseteq 1..rows
  BY DEF IInv, TypeOK
<1>2. /\ rows < MaxRows /\ rows' = rows + 1 /\ Written' = Written
      /\ UNCHANGED <<thread, file, failed>> /\ failed' \cap thread' = {}
  BY DEF QueueRow, Written, FailedIsOver
<1>3. ASSUME NEW s \in Seq(1..rows), queue' = Append(s, rows + 1),
             \A r \in failed, j \in DOMAIN s : r < s[j]
      PROVE  FailedIsOver' /\ RowsOf(queue') = RowsOf(s) \cup {rows + 1}
  <2>1. RowsOf(queue') = RowsOf(s) \cup {rows + 1}
    <3>1. rows + 1 \in Nat /\ s \in Seq(Nat)
      BY <1>1
    <3>2. QED
      BY <1>3, <3>1, RowsAppended
  <2>2. /\ DOMAIN queue' = 1..(Len(s) + 1) /\ queue'[Len(s) + 1] = rows + 1
        /\ \A i \in DOMAIN s : queue'[i] = s[i]
    BY <1>1, <1>3, AppendType
  <2>3. DOMAIN s = 1..Len(s) /\ Len(s) \in Nat
    OBVIOUS
  <2>4. \A r \in failed, j \in DOMAIN queue' : r < queue'[j]
    BY <1>1, <1>3, <2>2, <2>3
  <2>5. QED
    BY <1>2, <2>1, <2>4 DEF FailedIsOver
<1>4. CASE Len(queue) < QueueMax
  <2>1. queue' = Append(queue, rows + 1) /\ dropped' = dropped
    BY <1>4 DEF QueueRow, Enqueue
  <2>2. FailedIsOver' /\ RowsOf(queue') = RowsOf(queue) \cup {rows + 1}
    BY <1>1, <1>3, <2>1 DEF FailedIsOver
  <2>3. QED
    BY <1>2, <2>1, <2>2 DEF GivesOne, Gives, Waiting, RowsOf
<1>5. CASE ~(Len(queue) < QueueMax)
  <2>1. queue' = Append(Tail(queue), rows + 1) /\ dropped' = dropped + 1
    BY <1>5 DEF QueueRow, Enqueue
  <2>2. queue # <<>>
    BY <1>5, TradeJournalAssumption DEF TradeJournalAssumption
  <2>3. Tail(queue) \in Seq(1..rows) /\ \A r \in failed, j \in DOMAIN Tail(queue) : r < Tail(queue)[j]
    BY <1>1, <2>2, TailType DEF FailedIsOver
  <2>4. FailedIsOver' /\ RowsOf(queue') = RowsOf(Tail(queue)) \cup {rows + 1}
    BY <1>3, <2>1, <2>3
  <2>5. QED
    BY <1>2, <2>1, <2>2, <2>4, HeadTaken DEF GivesOne, Gives, Waiting, RowsOf
<1>6. QED
  BY <1>4, <1>5

LEMMA TakeIsStill == IInv /\ FailedIsOver /\ Take => Still /\ FailedIsOver'
<1> SUFFICES ASSUME IInv, FailedIsOver, Take PROVE Still /\ FailedIsOver'
  OBVIOUS
<1>1. /\ queue' = Tail(queue) /\ thread' = {Head(queue)} /\ queue # <<>> /\ thread = {}
      /\ UNCHANGED <<rows, dropped, file, failed>> /\ Written' = Written
  BY DEF Take, Written, IInv, Control
<1>2. Waiting' = Waiting
  BY <1>1, HeadTaken DEF Waiting, RowsOf
<1>3. rows \in Nat /\ queue \in Seq(1..rows) /\ failed \subseteq 1..rows
  BY DEF IInv, TypeOK
<1>4. \A r \in failed, j \in DOMAIN Tail(queue) : r < Tail(queue)[j]
  BY <1>1, <1>3, TailType DEF FailedIsOver
<1>5. Head(queue) \notin failed
  BY <1>1, <1>3, TailType DEF FailedIsOver
<1>6. QED
  BY <1>1, <1>2, <1>4, <1>5 DEF Still, FailedIsOver

\* The row a thread or a flush has done with.
LEMMA RowDone ==
  ASSUME IInv, FailedIsOver, UNCHANGED <<rows, dropped>>,
         NEW r \in Waiting, Waiting' = Waiting \ {r}, NEW f \in {"written", "failed"},
         file' = IF f = "written" THEN Append(file, r) ELSE file,
         failed' = IF f = "failed" THEN failed \cup {r} ELSE failed,
         thread' = thread \ {r},
         \A j \in DOMAIN queue' : r < queue'[j] /\ \A q \in failed : q < queue'[j]
  PROVE  Settles(r, f) /\ FailedIsOver'
<1>1. /\ rows \in Nat /\ queue \in Seq(1..rows) /\ thread \subseteq 1..rows
      /\ file \in Seq(1..rows)
  BY DEF IInv, TypeOK
<1>2. r \in Nat /\ file \in Seq(Nat)
  <2>1. \A j \in DOMAIN queue : queue[j] \in 1..rows
    BY <1>1
  <2>2. r \in 1..rows
    BY <1>1, <2>1 DEF Waiting
  <2>3. 1..rows \subseteq Nat
    BY <1>1
  <2>4. file \in Seq(Nat)
    BY <1>1, <2>3
  <2>5. QED
    BY <2>2, <2>3, <2>4
<1>3. Written' = IF f = "written" THEN Written \cup {r} ELSE Written
  <2>1. RowsOf(Append(file, r)) = RowsOf(file) \cup {r}
    BY <1>2, RowsAppended
  <2>2. QED
    BY <2>1 DEF Written, RowsOf
<1>4. r \notin Written /\ r \notin failed
  BY ApartHolds DEF Apart
<1>5. Written' \cap failed' = {}
  BY <1>3, <1>4 DEF FailedIsOver
<1>6. failed' \cap thread' = {}
  BY <1>1 DEF FailedIsOver
<1>7. QED
  BY <1>3, <1>5, <1>6 DEF Settles, FailedIsOver

LEMMA WriteSettles ==
  IInv /\ FailedIsOver /\ Write =>
    FailedIsOver' /\ \E r \in 1..rows, f \in {"written", "failed"} : Settles(r, f)
<1> SUFFICES ASSUME IInv, FailedIsOver, Write
             PROVE  FailedIsOver' /\ \E r \in 1..rows, f \in {"written", "failed"} : Settles(r, f)
  OBVIOUS
<1>1. /\ rows \in Nat /\ queue \in Seq(1..rows) /\ thread \subseteq 1..rows
  BY DEF IInv, TypeOK
<1>2. PICK r \in thread, f \in {"written", "failed"} :
        /\ file' = IF f = "written" THEN Append(file, r) ELSE file
        /\ failed' = IF f = "failed" THEN failed \cup {r} ELSE failed
  BY DEF Write, ThreadWrites, ThreadFails, IInv, Ordered
<1>3. thread = {r} /\ thread' = {} /\ UNCHANGED <<rows, dropped, queue>>
  BY DEF Write, ThreadWrites, ThreadFails, IInv, Ordered
<1>4. \A j \in DOMAIN queue : r < queue[j] /\ \A q \in failed : q < queue[j]
  BY DEF IInv, Ordered, FailedIsOver
<1>5. r \in Waiting /\ Waiting' = Waiting \ {r}
  BY <1>1, <1>3, <1>4 DEF Waiting
<1>6. QED
  BY <1>1, <1>2, <1>3, <1>4, <1>5, RowDone

LEMMA FlushSettles ==
  IInv /\ FailedIsOver /\ FlushRow =>
    FailedIsOver' /\ \E r \in 1..rows, f \in {"written", "failed"} : Settles(r, f)
<1> SUFFICES ASSUME IInv, FailedIsOver, FlushRow
             PROVE  FailedIsOver' /\ \E r \in 1..rows, f \in {"written", "failed"} : Settles(r, f)
  OBVIOUS
<1>1. /\ rows \in Nat /\ queue \in Seq(1..rows) /\ thread \subseteq 1..rows
  BY DEF IInv, TypeOK
<1>2. queue # <<>> /\ queue' = Tail(queue) /\ UNCHANGED <<rows, dropped, thread>>
  BY DEF FlushRow, FlushOne
<1> DEFINE r == Head(queue)
<1>3. PICK f \in {"written", "failed"} :
        /\ file' = IF f = "written" THEN Append(file, r) ELSE file
        /\ failed' = IF f = "failed" THEN failed \cup {r} ELSE failed
  BY DEF FlushRow, FlushOne
<1>4. r \in 1..rows /\ r \in Waiting /\ Waiting' = Waiting \ {r} /\ thread' = thread \ {r}
  <2>1. r \in 1..rows /\ r \in RowsOf(queue) /\ r \notin thread
    BY <1>2, HeadTaken, RestOfQueue
  <2>2. RowsOf(queue') = RowsOf(queue) \ {r}
    BY <1>2, HeadTaken
  <2>3. QED
    BY <1>2, <2>1, <2>2 DEF Waiting, RowsOf
<1>5. \A j \in DOMAIN queue' : r < queue'[j] /\ \A q \in failed : q < queue'[j]
  BY <1>1, <1>2, RestOfQueue, TailType DEF FailedIsOver
<1>6. QED
  BY <1>2, <1>3, <1>4, <1>5, RowDone

LEMMA OthersAreStill ==
  IInv /\ FailedIsOver /\ (\/ Sleep \/ Wake \/ FinalFlush \/ FlushEnds \/ Stop
                          \/ StopReturns \/ GiveUp \/ UNCHANGED vars)
    => Still /\ FailedIsOver'
BY DEF Sleep, Wake, FinalFlush, FlushEnds, Stop, StopReturns, GiveUp, vars, Still, Written,
       Waiting, FailedIsOver

\* Every step leaves every row where it is, or settles one row, or queues one.
LEMMA Kinds ==
  ASSUME IInv, FailedIsOver, [Next]_vars
  PROVE  /\ FailedIsOver'
         /\ Still \/ GivesOne \/ \E r \in 1..rows, f \in {"written", "failed"} : Settles(r, f)
BY QueueGives, TakeIsStill, WriteSettles, FlushSettles, OthersAreStill DEF Next, Flush


---------------------------------------------------------------------------
(* Every dropped row is counted. *)

Settled == FailedIsOver /\ Cardinality(Dropped) = dropped

LEMMA DroppedRows ==
  ASSUME Apart
  PROVE  Dropped = (1..rows) \ (Written \cup failed \cup Waiting)
BY FateNow DEF Dropped, FateIs

LEMMA DroppedRowsNext ==
  ASSUME Apart'
  PROVE  Dropped' = (1..rows') \ (Written' \cup failed' \cup Waiting')
<1>1. (Apart => Dropped = (1..rows) \ (Written \cup failed \cup Waiting))'
  BY DroppedRows, PTL
<1>2. QED
  BY <1>1

LEMMA SettledStep == IInv /\ Settled /\ [Next]_vars => Settled'
<1> SUFFICES ASSUME IInv, IInv', Settled, [Next]_vars PROVE Settled'
  BY StepIInv
<1>1. FailedIsOver' /\ (Still \/ GivesOne \/ \E r \in 1..rows, f \in {"written", "failed"} : Settles(r, f))
  BY Kinds DEF Settled
<1>2. Apart /\ Apart'
  BY <1>1, ApartHolds, ApartNext DEF Settled
<1>3. /\ Dropped = (1..rows) \ (Written \cup failed \cup Waiting)
      /\ Dropped' = (1..rows') \ (Written' \cup failed' \cup Waiting')
  BY <1>2, DroppedRows, DroppedRowsNext
<1>4. rows \in Nat /\ Written \subseteq 1..rows /\ failed \subseteq 1..rows /\ Waiting \subseteq 1..rows
  <2>1. rows \in Nat /\ file \in Seq(1..rows) /\ queue \in Seq(1..rows)
    BY DEF IInv, TypeOK
  <2>2. \A i \in DOMAIN file : file[i] \in 1..rows
    BY <2>1
  <2>3. \A i \in DOMAIN queue : queue[i] \in 1..rows
    BY <2>1
  <2>4. QED
    BY <2>1, <2>2, <2>3 DEF IInv, TypeOK, Written, Waiting
<1>5. CASE Still
  BY <1>1, <1>3, <1>5 DEF Still, Settled
<1>6. CASE \E r \in 1..rows, f \in {"written", "failed"} : Settles(r, f)
  BY <1>1, <1>3, <1>6 DEF Settles, Settled
<1>7. ASSUME NEW D, Gives(D) PROVE Dropped' = Dropped \cup D
  <2>1. 1..rows' = (1..rows) \cup {rows + 1} /\ rows + 1 \notin 1..rows
    BY <1>4, <1>7 DEF Gives
  <2>2. QED
    BY <1>2, <1>3, <1>4, <1>7, <2>1 DEF Gives, Apart
<1>8. CASE Gives({}) /\ dropped' = dropped
  BY <1>1, <1>7, <1>8 DEF Settled
<1>9. CASE queue # <<>> /\ Gives({Head(queue)}) /\ dropped' = dropped + 1
  <2>1. Dropped' = Dropped \cup {Head(queue)}
    BY <1>7, <1>9
  <2>2. Head(queue) \notin Dropped
    BY <1>3, <1>9 DEF Gives
  <2>3. IsFiniteSet(Dropped)
    <3>1. IsFiniteSet(1..rows)
      BY <1>4, FS_Interval
    <3>2. QED
      BY <1>3, <3>1, FS_Subset
  <2>4. QED
    BY <1>1, <1>9, <2>1, <2>2, <2>3, FS_AddElement DEF Settled
<1>10. QED
  BY <1>1, <1>5, <1>6, <1>8, <1>9 DEF GivesOne

LEMMA Settling == Spec => []Settled
<1>1. Init => Settled
  <2>1. SUFFICES ASSUME Init PROVE Settled
    OBVIOUS
  <2>2. FailedIsOver
    BY <2>1 DEF Init, FailedIsOver, Written
  <2>3. Dropped = {} /\ dropped = 0
    BY <2>1 DEF Init, Dropped
  <2>4. QED
    BY <2>2, <2>3, FS_EmptySet DEF Settled
<1>2. QED
  BY <1>1, Invariance, SettledStep, PTL DEF Spec

\* queue_dropped_count() is exactly the number of rows that vanished: each
\* other row waits, is in the file, or was logged as failed.
THEOREM EveryDropIsCounted == Spec => []DropsAreCounted
<1>1. IInv /\ Settled => DropsAreCounted
  BY ApartHolds DEF Settled, Apart, Dropped, DropsAreCounted
<1>2. QED
  BY <1>1, Invariance, Settling, PTL

---------------------------------------------------------------------------
(* The journal implements its contract. *)

LEMMA WaitingFates ==
  ASSUME IInv, Apart
  PROVE  \A r \in 1..rows : Contract!Waits(r) <=> r \in Waiting
BY FatesType, FateNow DEF Contract!Waits, FateIs, Fates

LEMMA SameCardinality == \A S : Contract!Cardinality(S) = Cardinality(S)
BY DEF Contract!Cardinality, Cardinality

LEMMA StepImplements == IInv /\ Settled /\ [Next]_vars => [Contract!Next]_Fates
<1> SUFFICES ASSUME IInv, IInv', Settled, Settled', [Next]_vars PROVE [Contract!Next]_Fates
  BY StepIInv, SettledStep
<1>1. Still \/ GivesOne \/ \E r \in 1..rows, f \in {"written", "failed"} : Settles(r, f)
  BY Kinds DEF Settled
<1>2. Apart /\ Apart'
  BY ApartHolds, ApartNext DEF Settled
<1>3. /\ Fates \in Seq(FateNames) /\ Len(Fates) = rows /\ DOMAIN Fates = 1..rows
      /\ \A r \in 1..rows : Contract!Waits(r) <=> r \in Waiting
  BY <1>2, FatesType, WaitingFates
<1>4. CASE Still
  BY <1>4, NothingSettles DEF Still
<1>5. ASSUME NEW r \in 1..rows, NEW f \in {"written", "failed"}, Settles(r, f)
      PROVE  Contract!Settle
  <2>1. Fates' = [Fates EXCEPT ![r] = f]
    BY <1>2, <1>5, OneSettles DEF Settles
  <2>2. QED
    BY <1>3, <1>5, <2>1 DEF Contract!Settle, Settles
<1>6. CASE Gives({})
  <2>1. Fates' = Append([r \in 1..rows |-> IF r \in {} THEN "dropped" ELSE Fates[r]], "waiting")
    <3>1. /\ {} \in SUBSET Waiting /\ Waiting' = (Waiting \ {}) \cup {rows + 1}
          /\ rows' = rows + 1 /\ Written' = Written /\ failed' = failed
      BY <1>6 DEF Gives
    <3>2. QED
      BY ONLY IInv, <1>2, <3>1, OneGiven
  <2>2. [r \in 1..rows |-> IF r \in {} THEN "dropped" ELSE Fates[r]] = Fates
    BY <1>3
  <2>3. QED
    BY <1>3, <1>6, <2>1, <2>2 DEF Contract!Next, Contract!Give, Gives
<1>7. CASE queue # <<>> /\ Gives({Head(queue)})
  <2> DEFINE h == Head(queue)
  <2>1. Fates' = Append([r \in 1..rows |-> IF r \in {h} THEN "dropped" ELSE Fates[r]], "waiting")
    BY <1>2, <1>7, OneGiven DEF Gives
  <2>2. h \in 1..rows /\ rows \in Nat
    BY <1>7, RestOfQueue DEF IInv, TypeOK
  <2>3. [r \in 1..rows |-> IF r \in {h} THEN "dropped" ELSE Fates[r]] = [Fates EXCEPT ![h] = "dropped"]
    BY <1>3, <2>2
  <2>4. Contract!Waits(h)
    BY <1>3, <1>7, <2>2 DEF Gives
  \* Only the row that is being written is older than the queue's head.
  <2>5. Cardinality({q \in 1..h : Contract!Waits(q)}) <= 2
    <3>1. \A q \in 1..h : Contract!Waits(q) => q = h \/ q \in thread
      <4>1. SUFFICES ASSUME NEW q \in 1..h, Contract!Waits(q), q \notin thread PROVE q = h
        OBVIOUS
      <4>2. q \in RowsOf(queue)
        BY <1>3, <2>2, <4>1 DEF Waiting, RowsOf
      <4>3. q = h \/ q \in RowsOf(Tail(queue))
        BY <1>7, <4>2, HeadTaken
      <4>4. q \in RowsOf(Tail(queue)) => h < q
        BY <1>7, RestOfQueue DEF RowsOf
      <4>5. QED
        BY <2>2, <4>3, <4>4
    <3>2. PICK t : {q \in 1..h : Contract!Waits(q)} \subseteq {h, t}
      BY <3>1 DEF IInv, Ordered
    <3>3. IsFiniteSet({h, t}) /\ Cardinality({h, t}) <= 2
      <4>1. IsFiniteSet({h}) /\ Cardinality({h}) = 1
        BY FS_Singleton
      <4>2. {h, t} = {h} \cup {t}
        OBVIOUS
      <4>3. QED
        BY <4>1, <4>2, FS_AddElement
    <3>4. QED
      BY <3>2, <3>3, FS_Subset, FS_CardinalityType
  <2>6. QED
    <3>1. rows < MaxRows /\ Fates' = Append([Fates EXCEPT ![h] = "dropped"], "waiting")
      BY <1>7, <2>1, <2>3 DEF Gives
    <3>2. QED
      <4>1. Len(Fates) < MaxRows /\ h \in DOMAIN Fates
        BY <1>3, <2>2, <3>1
      <4>2. QED
        BY Zenon, <2>4, <2>5, <3>1, <4>1, SameCardinality DEF Contract!Next, Contract!Give
<1>8. QED
  BY <1>1, <1>4, <1>5, <1>6, <1>7 DEF GivesOne, Contract!Next

\* The journal implements its contract: every row waits, then meets one final
\* fate, and only one of the two oldest waiting is dropped.
THEOREM JournalImplements == Spec => Implements
<1>1. Init => Contract!Init
  BY DEF Init, Contract!Init, Fates
<1>2. QED
  BY <1>1, StepImplements, Invariance, Settling, PTL DEF Spec, Implements, Contract!Spec
=============================================================================
