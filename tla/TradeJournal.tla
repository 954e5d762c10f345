------------------------------ MODULE TradeJournal ------------------------------
(***************************************************************************)
(* TradeJournal (utils/trade_journal.py): the main loop queues rows        *)
(* without waiting, a writer coroutine takes them one by one to a worker   *)
(* thread, and shutdown drains the queue, synchronously when the writer    *)
(* does not end in time.  A row is the number of its queue_open() or       *)
(* queue_close() call.                                                     *)
(*                                                                         *)
(* Coroutines interleave at awaits only; the worker thread runs beside     *)
(* them, also beside the synchronous flush.                                *)
(***************************************************************************)
EXTENDS Naturals, Sequences, FiniteSets

CONSTANTS
  QueueMax,  \* _JOURNAL_QUEUE_MAX_SIZE
  MaxRows    \* bound: rows the main loop queues

ASSUME TradeJournalAssumption == QueueMax \in Nat \ {0} /\ MaxRows \in Nat

VARIABLES
  rows,     \* rows queued so far
  queue,    \* _write_queue
  dropped,  \* _queue_dropped_count
  writer,   \* _async_writer_task: "loop", "writing", "asleep", "flushing", "done" or "dead"
  thread,   \* the rows the worker thread is writing, at most one
  file,     \* the rows in the file
  failed,   \* rows whose write raised, which is logged
  stop,     \* stop_async_writer(): "no", "waiting", "flushing" or "done"
  late      \* history: the rows a thread was writing when the writer was given up

vars == <<rows, queue, dropped, writer, thread, file, failed, stop, late>>

shutdown == stop # "no"   \* _shutdown_event

---------------------------------------------------------------------------
(* The main loop. *)

\* Mutant of Enqueue: the eviction is not counted.
EnqueueUncounted(r) ==
  /\ queue' = Append(IF Len(queue) < QueueMax THEN queue ELSE Tail(queue), r)
  /\ UNCHANGED dropped

\* Mutant of Enqueue: a row that does not fit waits in front.
EnqueueInFront(r) ==
  IF Len(queue) < QueueMax
    THEN queue' = Append(queue, r) /\ UNCHANGED dropped
    ELSE queue' = <<r>> \o Tail(queue) /\ dropped' = dropped + 1

\* Mutant of Enqueue: a row that does not fit is dropped itself.
EnqueueIfRoom(r) ==
  IF Len(queue) < QueueMax
    THEN queue' = Append(queue, r) /\ UNCHANGED dropped
    ELSE UNCHANGED queue /\ dropped' = dropped + 1

\* _enqueue_journal_row: a full deque evicts its oldest row.
Enqueue(r) ==
  IF Len(queue) < QueueMax
    THEN queue' = Append(queue, r) /\ UNCHANGED dropped
    ELSE queue' = Append(Tail(queue), r) /\ dropped' = dropped + 1

\* queue_open, queue_close
QueueRow ==
  /\ ~shutdown /\ rows < MaxRows
  /\ rows' = rows + 1
  /\ Enqueue(rows + 1)
  /\ UNCHANGED <<writer, thread, file, failed, stop, late>>

---------------------------------------------------------------------------
(* _async_writer_loop *)

Take ==
  /\ writer = "loop" /\ ~shutdown /\ queue # <<>>
  /\ queue' = Tail(queue) /\ thread' = {Head(queue)}
  /\ writer' = "writing"
  /\ UNCHANGED <<rows, dropped, file, failed, stop, late>>

Sleep ==
  /\ writer = "loop" /\ ~shutdown /\ queue = <<>>
  /\ writer' = "asleep"
  /\ UNCHANGED <<rows, queue, dropped, thread, file, failed, stop, late>>

\* The shutdown event is set, or 0.1 s have passed.
Wake ==
  /\ writer = "asleep" /\ writer' = "loop"
  /\ UNCHANGED <<rows, queue, dropped, thread, file, failed, stop, late>>

\* The coroutine awaits the thread, unless it has been given up.
Resumed == IF writer = "writing" THEN "loop" ELSE writer

ThreadWrites ==
  /\ \E r \in thread : file' = Append(file, r)
  /\ thread' = {} /\ writer' = Resumed
  /\ UNCHANGED <<rows, queue, dropped, failed, stop, late>>

\* Mutant of Recover: the exception ends the coroutine.
RecoverNot == IF writer = "writing" THEN "dead" ELSE writer

\* The exception is caught and logged inside the loop.
Recover == Resumed

ThreadFails ==
  /\ thread # {} /\ thread' = {}
  /\ failed' = failed \cup thread /\ writer' = Recover
  /\ UNCHANGED <<rows, queue, dropped, file, stop, late>>

FinalFlush ==
  /\ writer = "loop" /\ shutdown
  /\ writer' = "flushing"
  /\ UNCHANGED <<rows, queue, dropped, thread, file, failed, stop, late>>

---------------------------------------------------------------------------
(* _flush_queue, by the writer or by stop_async_writer(). *)

flushing == writer = "flushing" \/ stop = "flushing"

FlushOne ==
  /\ queue' = Tail(queue)
  /\ \/ file' = Append(file, Head(queue)) /\ UNCHANGED failed
     \/ failed' = failed \cup {Head(queue)} /\ UNCHANGED file

FlushRow ==
  /\ flushing /\ queue # <<>>
  /\ FlushOne
  /\ UNCHANGED <<rows, dropped, writer, thread, stop, late>>

FlushEnds ==
  /\ flushing /\ queue = <<>>
  /\ IF writer = "flushing" THEN writer' = "done" /\ UNCHANGED stop
     ELSE stop' = "done" /\ UNCHANGED writer
  /\ UNCHANGED <<rows, queue, dropped, thread, file, failed, late>>

---------------------------------------------------------------------------
(* stop_async_writer *)

Stop ==
  /\ stop = "no" /\ stop' = "waiting"
  /\ UNCHANGED <<rows, queue, dropped, writer, thread, file, failed, late>>

StopReturns ==
  /\ stop = "waiting" /\ writer = "done" /\ stop' = "done"
  /\ UNCHANGED <<rows, queue, dropped, writer, thread, file, failed, late>>

\* Mutant of AfterGivingUp: the flush is left to the writer.
AfterGivingUpDone == "done"

\* On a timeout or a cancellation the rest is written here.
AfterGivingUp == "flushing"

\* After 5 s, or when the main coroutine is cancelled, the writer's task is
\* cancelled; a thread that writes a row goes on.
GiveUp ==
  /\ stop = "waiting" /\ writer \in {"writing", "asleep"}
  /\ stop' = AfterGivingUp /\ writer' = "dead" /\ late' = thread
  /\ UNCHANGED <<rows, queue, dropped, thread, file, failed>>

---------------------------------------------------------------------------
\* start_async_writer() has just been called.
Init ==
  /\ rows = 0 /\ queue = <<>> /\ dropped = 0
  /\ writer = "loop" /\ thread = {} /\ file = <<>> /\ failed = {}
  /\ stop = "no" /\ late = {}

Write == ThreadWrites \/ ThreadFails
Flush == FlushRow \/ FlushEnds

Next ==
  \/ QueueRow \/ Take \/ Sleep \/ Wake \/ Write \/ FinalFlush \/ Flush
  \/ Stop \/ StopReturns \/ GiveUp

Spec == Init /\ [][Next]_vars

\* The event loop runs the writer's coroutine and the worker thread answers.
Fairness ==
  /\ WF_vars(Take) /\ WF_vars(Wake) /\ WF_vars(Write)
  /\ WF_vars(FinalFlush) /\ WF_vars(Flush)

FairSpec == Spec /\ Fairness

---------------------------------------------------------------------------
(* Properties. *)

\* Every variable has its type.
TypeOK ==
  /\ rows \in 0..MaxRows /\ dropped \in 0..rows
  /\ queue \in Seq(1..rows) /\ Len(queue) <= QueueMax
  /\ writer \in {"loop", "writing", "asleep", "flushing", "done", "dead"}
  /\ thread \in SUBSET (1..rows) /\ file \in Seq(1..rows) /\ failed \in SUBSET (1..rows)
  /\ stop \in {"no", "waiting", "flushing", "done"}
  /\ late \in SUBSET (1..rows)

Written == {file[i] : i \in DOMAIN file}
Waiting == {queue[i] : i \in DOMAIN queue} \cup thread
Fate(r) == CASE r \in Written -> "written"
             [] r \in failed -> "failed"
             [] r \in Waiting -> "waiting"
             [] OTHER -> "dropped"

\* No row is written twice, and the file has them in the order of the trades:
\* only a row whose thread outlived its writer may follow younger ones.
FileInOrder ==
  \A i, j \in DOMAIN file : i < j => file[i] < file[j] \/ (file[j] \in late /\ file[i] # file[j])

\* The returned count is exactly the number of rows that are lost without a
\* logged error: no row vanishes uncounted, whatever fails or is interrupted.
DropsAreCounted ==
  /\ Written \cap failed = {} /\ (Written \cup failed) \cap Waiting = {}
  /\ Cardinality({r \in 1..rows : Fate(r) = "dropped"}) = dropped

\* When stop_async_writer() has returned nothing is left in the queue.
StopDrains == stop = "done" => queue = <<>>

\* The journal implements RowFates.
Fates == [r \in 1..rows |-> Fate(r)]
Contract == INSTANCE RowFates WITH MaxRows <- MaxRows, fates <- Fates
Implements == Contract!Spec

\* Every row settles in the end, also when nobody stops the journal.
RowsSettle == \A r \in 1..MaxRows : rows >= r ~> rows >= r /\ Fate(r) # "waiting"
=============================================================================
