--------------------------- MODULE DatabaseManager ---------------------------
(***************************************************************************)
(* DatabaseManager (src/src/DatabaseManager.cpp): threads enqueue GPS and  *)
(* EKF records under m_stateMutex; one writer thread swaps the queue with  *)
(* its own empty batch and writes the batch in one SQLite transaction;     *)
(* Stop() asks the thread to finish, wakes it and joins it.                *)
(*                                                                         *)
(* A step is what one thread does between two points where another thread  *)
(* can see or change what it works on.  The mutex is held across a step    *)
(* boundary only while the writer has found the predicate of wait_for      *)
(* false and has not yet gone to sleep (pc "blocking").                    *)
(***************************************************************************)
EXTENDS Naturals, Sequences, FiniteSets

CONSTANTS
  Producers,   \* threads that enqueue
  MaxRecords,  \* bound: records enqueued in a behaviour
  MaxSessions  \* bound: calls of Start that spawn a writer thread

ASSUME ProducersAssumption == Producers # {}
ASSUME BoundsAssumption == MaxRecords \in Nat /\ MaxSessions \in Nat

(* The alternatives of DatabaseRecord that are ever enqueued. *)
Records == {"gps", "ekf"}

VARIABLES
  running,        \* m_running
  stopRequested,  \* the stop state of the current writer thread
  owner,          \* pc of the thread that calls Start and Stop
  writer,         \* pc of the writer thread, "none" when there is none
  flushing,       \* the writer has left its loop
  queue,          \* m_recordQueue
  batch,          \* the writer's batch
  execd,          \* records of the batch inserted by the open transaction
  table,          \* committed rows
  producer,       \* pc of each producer
  stats,          \* m_stats
  accepted,       \* history: all records, in the order they were enqueued
  settled,        \* history: how many left the batch, committed or not
  stopMark,       \* history: records enqueued when Stop last asked to stop
  sessions        \* writer threads spawned so far

ownerVars == <<running, stopRequested, owner, stopMark, sessions>>
writerVars == <<writer, flushing, batch, execd, table, settled>>
producerVars == <<producer, accepted>>
vars == <<ownerVars, writerVars, producerVars, queue, stats>>

Stats == [queued : [Records -> Nat], written : [Records -> Nat],
          failedWrites : Nat, currentQueueDepth : Nat]

WriterPcs == {"none", "test", "lock", "blocking", "waiting", "woken",
              "begin", "exec", "exited"}

Init ==
  /\ running = FALSE /\ stopRequested = FALSE
  /\ owner = "idle" /\ writer = "none" /\ flushing = FALSE
  /\ queue = <<>> /\ batch = <<>> /\ execd = 0 /\ table = <<>>
  /\ producer = [p \in Producers |-> "idle"]
  /\ stats = [queued |-> [r \in Records |-> 0],
              written |-> [r \in Records |-> 0],
              failedWrites |-> 0, currentQueueDepth |-> 0]
  /\ accepted = <<>> /\ settled = 0
  /\ stopMark = 0 /\ sessions = 0

-----------------------------------------------------------------------------
(* EnqueueGpsUpdate and EnqueueEkfOutput: append under the mutex, then,    *)
(* with the mutex released, count and notify.                              *)

MutexFree == writer # "blocking"

MutEnqueueFront(p, r) ==
  /\ producer[p] = "idle" /\ MutexFree
  /\ Len(accepted) < MaxRecords
  /\ queue' = <<r>> \o queue
  /\ stats' = [stats EXCEPT !.currentQueueDepth = Len(queue')]
  /\ accepted' = Append(accepted, r)
  /\ producer' = [producer EXCEPT ![p] = r]
  /\ UNCHANGED <<ownerVars, writerVars>>

Enqueue(p, r) ==
  /\ producer[p] = "idle" /\ MutexFree
  /\ Len(accepted) < MaxRecords
  /\ queue' = Append(queue, r)
  /\ stats' = [stats EXCEPT !.currentQueueDepth = Len(queue')]
  /\ accepted' = Append(accepted, r)
  /\ producer' = [producer EXCEPT ![p] = r]
  /\ UNCHANGED <<ownerVars, writerVars>>

(* A lost update: the counter is read in one step and stored in another,  *)
(* as with a plain integer in place of std::atomic, and a concurrent      *)
(* increment of another producer is overwritten.                          *)
MutCountQueued(p) ==
  /\ producer[p] \in Records
  /\ stats' = [stats EXCEPT !.queued[producer[p]] =
                 IF \E q \in Producers \ {p} : producer[q] = producer[p]
                 THEN @ ELSE @ + 1]
  /\ producer' = [producer EXCEPT ![p] = "notify"]
  /\ UNCHANGED <<ownerVars, writerVars, queue, accepted>>

CountQueued(p) ==
  /\ producer[p] \in Records
  /\ stats' = [stats EXCEPT !.queued[producer[p]] = @ + 1]
  /\ producer' = [producer EXCEPT ![p] = "notify"]
  /\ UNCHANGED <<ownerVars, writerVars, queue, accepted>>

NotifyWriter == writer' = IF writer = "waiting" THEN "woken" ELSE writer

NotifyOne(p) ==
  /\ producer[p] = "notify"
  /\ NotifyWriter
  /\ producer' = [producer EXCEPT ![p] = "idle"]
  /\ UNCHANGED <<ownerVars, flushing, batch, execd, table, settled, queue,
                 stats, accepted>>

-----------------------------------------------------------------------------
(* WriterLoop.  TestStop is the while condition; CheckQueue and Block are  *)
(* the two halves of wait_for; a wait ends by a notification (woken) or    *)
(* by the 10 ms timeout.                                                   *)

(* Swap under the mutex; an empty batch goes straight to the end of the    *)
(* loop body, or of the function.                                          *)
SwapThen(next) ==
  /\ batch' = queue /\ queue' = batch
  /\ writer' = IF queue = <<>> THEN next ELSE "begin"

MutTestStopNoFlush ==
  /\ writer = "test"
  /\ writer' = IF stopRequested THEN "exited" ELSE "lock"
  /\ UNCHANGED <<ownerVars, flushing, batch, execd, table, settled,
                 producerVars, queue, stats>>

TestStop ==
  /\ writer = "test"
  /\ IF stopRequested
     THEN SwapThen("exited") /\ flushing' = TRUE
     ELSE writer' = "lock" /\ UNCHANGED <<flushing, batch, queue>>
  /\ UNCHANGED <<ownerVars, execd, table, settled, producerVars, stats>>

CheckQueue ==
  /\ writer \in {"lock", "woken"}
  /\ IF stopRequested \/ queue # <<>>
     THEN SwapThen("test")
     ELSE writer' = "blocking" /\ UNCHANGED <<batch, queue>>
  /\ UNCHANGED <<ownerVars, flushing, execd, table, settled, producerVars, stats>>

Block ==
  /\ writer = "blocking"
  /\ writer' = "waiting"
  /\ UNCHANGED <<ownerVars, flushing, batch, execd, table, settled,
                 producerVars, queue, stats>>

MutWaitForever == FALSE /\ UNCHANGED vars

WaitTimeout ==
  /\ writer = "waiting"
  /\ SwapThen("test")
  /\ UNCHANGED <<ownerVars, flushing, execd, table, settled, producerVars, stats>>

-----------------------------------------------------------------------------
(* WriteBatch: one transaction, one insertion per record, and the catch    *)
(* block that counts a failure.  SQLite::Transaction rolls back in its     *)
(* destructor when an exception leaves the scope before commit.            *)

AfterWrite == IF flushing THEN "exited" ELSE "test"

BeginTransaction ==
  /\ writer = "begin"
  /\ writer' = "exec"
  /\ UNCHANGED <<ownerVars, flushing, batch, execd, table, settled,
                 producerVars, queue, stats>>

MutExecRecordTwice ==
  /\ writer = "exec" /\ execd < Len(batch)
  /\ execd' = execd + 1
  /\ stats' = [stats EXCEPT !.written[batch[execd + 1]] =
                 @ + (IF execd = 0 THEN 1 ELSE 2)]
  /\ UNCHANGED <<ownerVars, writer, flushing, batch, table, settled,
                 producerVars, queue>>

ExecRecord ==
  /\ writer = "exec" /\ execd < Len(batch)
  /\ execd' = execd + 1
  /\ stats' = [stats EXCEPT !.written[batch[execd + 1]] = @ + 1]
  /\ UNCHANGED <<ownerVars, writer, flushing, batch, table, settled,
                 producerVars, queue>>

(* The caller clears the batch when WriteBatch returns (DatabaseManager.cpp *)
(* 107), after a flush by leaving the function.                            *)
Commit ==
  /\ writer = "exec" /\ execd = Len(batch)
  /\ table' = table \o batch
  /\ settled' = settled + Len(batch)
  /\ batch' = <<>> /\ execd' = 0
  /\ writer' = AfterWrite
  /\ UNCHANGED <<ownerVars, flushing, producerVars, queue, stats>>

MutFailStoresPart ==
  /\ writer \in {"begin", "exec"}
  /\ table' = table \o SubSeq(batch, 1, execd)
  /\ stats' = [stats EXCEPT !.failedWrites = @ + 1]
  /\ settled' = settled + Len(batch)
  /\ batch' = <<>> /\ execd' = 0
  /\ writer' = AfterWrite
  /\ UNCHANGED <<ownerVars, flushing, producerVars, queue>>

(* The transaction cannot be opened, an insertion throws, or commit does. *)
WriteFails ==
  /\ writer \in {"begin", "exec"}
  /\ stats' = [stats EXCEPT !.failedWrites = @ + 1]
  /\ settled' = settled + Len(batch)
  /\ batch' = <<>> /\ execd' = 0
  /\ writer' = AfterWrite
  /\ UNCHANGED <<ownerVars, flushing, table, producerVars, queue>>

-----------------------------------------------------------------------------
(* Start and Stop, called by one owner (main.cpp; the destructor is Stop). *)
(* A Start while running and a Stop while stopped return at once.          *)

Start ==
  /\ owner = "idle" /\ ~running
  /\ sessions < MaxSessions
  /\ running' = TRUE /\ stopRequested' = FALSE
  /\ writer' = "test" /\ flushing' = FALSE
  /\ sessions' = sessions + 1
  /\ UNCHANGED <<owner, stopMark, batch, execd, table, settled, producerVars,
                 queue, stats>>

RequestStop ==
  /\ owner = "idle" /\ running
  /\ running' = FALSE /\ stopRequested' = TRUE
  /\ stopMark' = Len(accepted)
  /\ owner' = "notify"
  /\ UNCHANGED <<sessions, writerVars, producerVars, queue, stats>>

NotifyStop ==
  /\ owner = "notify"
  /\ NotifyWriter
  /\ owner' = "join"
  /\ UNCHANGED <<running, stopRequested, stopMark, sessions, flushing, batch,
                 execd, table, settled, producerVars, queue, stats>>

Join ==
  /\ owner = "join" /\ writer = "exited"
  /\ writer' = "none" /\ owner' = "idle"
  /\ UNCHANGED <<running, stopRequested, stopMark, sessions, flushing, batch,
                 execd, table, settled, producerVars, queue, stats>>

-----------------------------------------------------------------------------

ProducerStep(p) ==
  \/ \E r \in Records : Enqueue(p, r)
  \/ CountQueued(p)
  \/ NotifyOne(p)

WriterStep ==
  \/ TestStop \/ CheckQueue \/ Block \/ WaitTimeout
  \/ BeginTransaction \/ ExecRecord \/ Commit \/ WriteFails

OwnerStep == Start \/ RequestStop \/ NotifyStop \/ Join

Next ==
  \/ \E p \in Producers : ProducerStep(p)
  \/ WriterStep
  \/ OwnerStep

Spec == Init /\ [][Next]_vars

(* The threads are scheduled; nobody has to call Start, Stop or Enqueue.   *)
Fairness ==
  /\ WF_vars(WriterStep)
  /\ WF_vars(NotifyStop) /\ WF_vars(Join)

FairSpec == Spec /\ Fairness

-----------------------------------------------------------------------------
(* Properties.                                                             *)

(* Type correctness; execd never passes the end of the batch, and only an  *)
(* open transaction has inserted anything (WriteBatch, 199-291).           *)
TypeOK ==
  /\ running \in BOOLEAN /\ stopRequested \in BOOLEAN /\ flushing \in BOOLEAN
  /\ owner \in {"idle", "notify", "join"}
  /\ writer \in WriterPcs
  /\ queue \in Seq(Records) /\ batch \in Seq(Records) /\ table \in Seq(Records)
  /\ accepted \in Seq(Records)
  /\ execd \in 0..Len(batch) /\ (execd > 0 => writer = "exec")
  /\ producer \in [Producers -> Records \cup {"idle", "notify"}]
  /\ stats \in Stats
  /\ settled \in Nat /\ stopMark \in Nat /\ sessions \in 0..MaxSessions

(* No record is lost, duplicated or overtaken on its way to the writer:    *)
(* the records not yet settled are the batch followed by the queue, in the *)
(* order they were enqueued.  This is what swapping with an empty batch    *)
(* (102, 114) buys.                                                        *)
UnsettledInOrder ==
  SubSeq(accepted, settled + 1, Len(accepted)) = batch \o queue

(* The swap never hands old records back to the queue: the batch is empty  *)
(* whenever the writer is about to swap (102, 107, 114).                   *)
EmptyBatchBeforeSwap ==
  writer \notin {"begin", "exec"} => batch = <<>>

(* When Stop returns, every record enqueued before it asked the writer to  *)
(* stop has been written or counted as failed (flush, 111-119).            *)
StopFlushes ==
  [][Join => settled >= stopMark]_vars

CountOf(r, s) == Cardinality({i \in 1..Len(s) : s[i] = r})

(* The queued counters trail the queue by exactly the producers that have  *)
(* released the mutex and not yet counted (45-53, 75-83).                  *)
QueuedCountersTrail ==
  \A r \in Records :
    stats.queued[r] + Cardinality({p \in Producers : producer[p] = r})
      = CountOf(r, accepted)

(* While no write has failed, the written counters are the rows committed  *)
(* plus those the open transaction has inserted (228, 278).                *)
WrittenCountersExact ==
  stats.failedWrites = 0 =>
    \A r \in Records :
      stats.written[r] = CountOf(r, table) + CountOf(r, SubSeq(batch, 1, execd))

(* The logger implements the abstract record log. *)
Log == INSTANCE RecordLog WITH stored <- table

(* Every step is an acceptance, a batch stored or given up as a whole and  *)
(* in order, or invisible to the callers.                                  *)
ImplementsLog == Log!Spec

(* With the writer running, whatever has been enqueued is eventually       *)
(* settled, without Stop being called: a wake-up that is missed costs a    *)
(* timeout (97-101), not the record.                                       *)
EventuallySettled ==
  \A n \in 1..MaxRecords :
    (Len(accepted) >= n /\ running) ~> (settled >= n)

(* Stop returns.  stop is requested and notified without m_stateMutex      *)
(* (32-33), so the notification can fall between the writer's test of the  *)
(* predicate and its sleep; the timeout of wait_for makes up for it.       *)
StopReturns == (owner # "idle") ~> (owner = "idle")

=============================================================================
