------------------------ MODULE DatabaseManagerProofs ------------------------
(***************************************************************************)
(* Proofs about DatabaseManager, for every set of producers and every      *)
(* bound: type correctness, order and completeness of the unsettled        *)
(* records, what Stop guarantees, what the counters count, and that the    *)
(* logger implements RecordLog.                                            *)
(***************************************************************************)
EXTENDS DatabaseManager, SequenceTheorems, FiniteSetTheorems, FunctionTheorems, TLAPS

-----------------------------------------------------------------------------
(* Type correctness.                                                       *)

(* There is a writer thread from Start until its join, and m_running is     *)
(* false while Stop waits for it.                                          *)
WriterLifetime ==
  /\ owner # "idle" => ~running
  /\ writer = "none" <=> (owner = "idle" /\ ~running)

(* Every update the code makes of m_stats keeps its type. *)
LEMMA StatsUpdates ==
  ASSUME NEW s \in Stats, NEW r \in Records, NEW n \in Nat
  PROVE  /\ [s EXCEPT !.currentQueueDepth = n] \in Stats
         /\ [s EXCEPT !.queued[r] = @ + 1] \in Stats
         /\ [s EXCEPT !.written[r] = @ + 1] \in Stats
<1>1. [s EXCEPT !.currentQueueDepth = n] \in Stats
  BY DEF Stats
<1>2. [s EXCEPT !.queued[r] = @ + 1] \in Stats
  BY DEF Stats
<1>3. [s EXCEPT !.written[r] = @ + 1] \in Stats
  BY DEF Stats
<1>. QED BY <1>1, <1>2, <1>3

(* So does the count of failures. *)
LEMMA StatsFailure ==
  \A s \in Stats : [s EXCEPT !.failedWrites = @ + 1] \in Stats
  BY DEF Stats

(* The initial state is well typed. *)
LEMMA InitTypeOK == Init => TypeOK
<1> SUFFICES ASSUME Init PROVE TypeOK
  OBVIOUS
<1>1. /\ running \in BOOLEAN /\ stopRequested \in BOOLEAN /\ flushing \in BOOLEAN
      /\ owner \in {"idle", "notify", "join"} /\ writer \in WriterPcs
  BY DEF Init, WriterPcs
<1>2. /\ queue \in Seq(Records) /\ batch \in Seq(Records)
      /\ table \in Seq(Records) /\ accepted \in Seq(Records)
  BY EmptySeq DEF Init
<1>3. execd \in 0..Len(batch) /\ (execd > 0 => writer = "exec")
  BY EmptySeq DEF Init
<1>4. producer \in [Producers -> Records \cup {"idle", "notify"}]
  BY DEF Init
<1>5. stats \in Stats
  BY DEF Init, Stats
<1>6. settled \in Nat /\ stopMark \in Nat /\ sessions \in 0..MaxSessions
  BY BoundsAssumption DEF Init
<1>. QED BY <1>1, <1>2, <1>3, <1>4, <1>5, <1>6 DEF TypeOK

(* The steps of a producer keep the types. *)
LEMMA ProducerTypeOK ==
  ASSUME TypeOK, NEW p \in Producers, ProducerStep(p)
  PROVE  TypeOK'
<1>1. ASSUME NEW r \in Records, Enqueue(p, r) PROVE TypeOK'
  <2>1. queue' \in Seq(Records) /\ accepted' \in Seq(Records)
    BY <1>1, AppendProperties DEF Enqueue, TypeOK
  <2>2. stats' \in Stats
    <3>1. Len(queue') \in Nat
      BY <2>1, LenProperties
    <3>. QED BY <1>1, <3>1, StatsUpdates DEF Enqueue, TypeOK
  <2>3. producer' \in [Producers -> Records \cup {"idle", "notify"}]
    BY <1>1 DEF Enqueue, TypeOK
  <2>. QED BY <1>1, <2>1, <2>2, <2>3 DEF Enqueue, TypeOK, ownerVars, writerVars
<1>2. ASSUME CountQueued(p) PROVE TypeOK'
  <2>1. stats' \in Stats
    BY <1>2, StatsUpdates DEF CountQueued, TypeOK
  <2>2. producer' \in [Producers -> Records \cup {"idle", "notify"}]
    BY <1>2 DEF CountQueued, TypeOK
  <2>. QED BY <1>2, <2>1, <2>2 DEF CountQueued, TypeOK, ownerVars, writerVars
<1>3. ASSUME NotifyOne(p) PROVE TypeOK'
  <2>1. producer' \in [Producers -> Records \cup {"idle", "notify"}]
    BY <1>3 DEF NotifyOne, TypeOK
  <2>2. writer' \in WriterPcs /\ (writer' = "exec" <=> writer = "exec")
    BY <1>3 DEF NotifyOne, NotifyWriter, TypeOK, WriterPcs
  <2>. QED BY <1>3, <2>1, <2>2 DEF NotifyOne, TypeOK, ownerVars
<1>. QED BY <1>1, <1>2, <1>3 DEF ProducerStep

(* A swap made outside a transaction is well typed. *)
LEMMA SwapTypes ==
  ASSUME TypeOK, writer \notin {"begin", "exec"},
         NEW next \in {"test", "exited"}, SwapThen(next)
  PROVE  /\ queue' \in Seq(Records) /\ batch' \in Seq(Records)
         /\ writer' \in WriterPcs
         /\ execd \in 0..Len(batch') /\ execd = 0
<1>1. queue' \in Seq(Records) /\ batch' \in Seq(Records) /\ writer' \in WriterPcs
  BY DEF TypeOK, SwapThen, WriterPcs
<1>2. execd = 0
  BY LenProperties DEF TypeOK
<1>. QED BY <1>1, <1>2, LenProperties

(* The steps of the writer keep the types. *)
LEMMA WriterTypeOK ==
  ASSUME TypeOK, WriterStep
  PROVE  TypeOK'
<1> USE DEF ownerVars, producerVars
<1>1. CASE TestStop
  <2>1. CASE stopRequested
    BY <1>1, <2>1, SwapTypes DEF TestStop, TypeOK
  <2>2. CASE ~stopRequested
    BY <1>1, <2>2 DEF TestStop, TypeOK, WriterPcs
  <2>. QED BY <2>1, <2>2
<1>2. CASE CheckQueue
  <2>1. CASE stopRequested \/ queue # <<>>
    BY <1>2, <2>1, SwapTypes DEF CheckQueue, TypeOK
  <2>2. CASE ~(stopRequested \/ queue # <<>>)
    BY <1>2, <2>2 DEF CheckQueue, TypeOK, WriterPcs
  <2>. QED BY <2>1, <2>2
<1>3. CASE Block
  BY <1>3 DEF Block, TypeOK, WriterPcs
<1>4. CASE WaitTimeout
  BY <1>4, SwapTypes DEF WaitTimeout, TypeOK
<1>5. CASE BeginTransaction
  BY <1>5 DEF BeginTransaction, TypeOK, WriterPcs
<1>6. CASE ExecRecord
  <2>1. execd + 1 \in 1..Len(batch)
    BY <1>6, LenProperties DEF ExecRecord, TypeOK
  <2>2. stats' \in Stats
    BY <1>6, <2>1, StatsUpdates, ElementOfSeq DEF ExecRecord, TypeOK
  <2>. QED BY <1>6, <2>1, <2>2 DEF ExecRecord, TypeOK
<1>7. AfterWrite \in WriterPcs
  BY DEF AfterWrite, WriterPcs
<1>8. /\ <<>> \in Seq(Records) /\ 0 \in 0..Len(<<>>)
      /\ settled + Len(batch) \in Nat
  BY EmptySeq, LenProperties DEF TypeOK
<1>9. CASE Commit
  <2>1. table' \in Seq(Records)
    BY <1>9, ConcatProperties DEF Commit, TypeOK
  <2>2. settled' \in Nat /\ batch' \in Seq(Records) /\ execd' \in 0..Len(batch')
    BY <1>9, <1>8 DEF Commit, TypeOK
  <2>. QED BY <1>9, <1>7, <2>1, <2>2 DEF Commit, TypeOK
<1>10. CASE WriteFails
  <2>1. stats' \in Stats
    BY <1>10, StatsFailure DEF WriteFails, TypeOK
  <2>. QED BY <1>10, <1>7, <1>8, <2>1 DEF WriteFails, TypeOK
<1>. QED
  BY <1>1, <1>2, <1>3, <1>4, <1>5, <1>6, <1>9, <1>10 DEF WriterStep

(* The steps of the owner keep the types: a session starts with no open     *)
(* transaction.                                                            *)
LEMMA OwnerTypeOK ==
  ASSUME TypeOK, WriterLifetime, OwnerStep
  PROVE  TypeOK'
<1> USE DEF writerVars, producerVars
<1>1. CASE Start
  <2>1. ~(execd > 0)
    BY <1>1 DEF Start, TypeOK, WriterLifetime
  <2>2. sessions' \in 0..MaxSessions
    BY <1>1, BoundsAssumption DEF Start, TypeOK
  <2>. QED BY <1>1, <2>1, <2>2 DEF Start, TypeOK, WriterPcs
<1>2. CASE RequestStop
  BY <1>2, LenProperties DEF RequestStop, TypeOK
<1>3. CASE NotifyStop
  BY <1>3 DEF NotifyStop, NotifyWriter, TypeOK, WriterPcs
<1>4. CASE Join
  BY <1>4 DEF Join, TypeOK, WriterPcs
<1>. QED BY <1>1, <1>2, <1>3, <1>4 DEF OwnerStep

(* The writer's lifetime is bracketed by Start and Join. *)
LEMMA LifetimeStep ==
  ASSUME TypeOK, WriterLifetime, Next
  PROVE  WriterLifetime'
<1> USE DEF WriterLifetime, ownerVars, writerVars, producerVars
<1>1. ASSUME NEW p \in Producers, ProducerStep(p) PROVE WriterLifetime'
  BY <1>1 DEF ProducerStep, Enqueue, CountQueued, NotifyOne, NotifyWriter
<1>2. CASE WriterStep
  BY <1>2 DEF WriterStep, TestStop, CheckQueue, Block, WaitTimeout, SwapThen,
              BeginTransaction, ExecRecord, Commit, WriteFails, AfterWrite
<1>3. CASE OwnerStep
  BY <1>3 DEF OwnerStep, Start, RequestStop, NotifyStop, NotifyWriter, Join
<1>. QED BY <1>1, <1>2, <1>3 DEF Next

(* Type correctness of the logger (DatabaseManager.cpp): in particular no  *)
(* transaction inserts past its batch, and none is open outside WriteBatch. *)
THEOREM TypeCorrect == Spec => []TypeOK
<1>1. Init => TypeOK /\ WriterLifetime
  BY InitTypeOK DEF Init, WriterLifetime
<1>2. TypeOK /\ WriterLifetime /\ [Next]_vars => (TypeOK /\ WriterLifetime)'
  <2> SUFFICES ASSUME TypeOK, WriterLifetime, [Next]_vars
               PROVE  (TypeOK /\ WriterLifetime)'
    OBVIOUS
  <2>1. CASE Next
    BY <2>1, ProducerTypeOK, WriterTypeOK, OwnerTypeOK, LifetimeStep DEF Next
  <2>2. CASE UNCHANGED vars
    BY <2>2 DEF vars, ownerVars, writerVars, producerVars, TypeOK, WriterLifetime
  <2>. QED BY <2>1, <2>2
<1>. QED BY <1>1, <1>2, PTL DEF Spec

-----------------------------------------------------------------------------
(* Where the records are.  UnsettledInOrder is proved element by element.  *)

(* The unsettled part of the history is the batch followed by the queue.   *)
WhereRecordsAre ==
  /\ settled + Len(batch) + Len(queue) = Len(accepted)
  /\ \A i \in 1..Len(batch) : batch[i] = accepted[settled + i]
  /\ \A i \in 1..Len(queue) : queue[i] = accepted[settled + Len(batch) + i]

(* The records are in their places and a swap finds an empty batch.        *)
Placed == EmptyBatchBeforeSwap /\ WhereRecordsAre

(* A swap moves the whole queue into the empty batch. *)
LEMMA SwapPlaced ==
  ASSUME TypeOK, Placed, writer \notin {"begin", "exec"},
         NEW next \in {"test", "exited"}, SwapThen(next),
         UNCHANGED <<accepted, settled>>
  PROVE  Placed' /\ Len(batch') = Len(queue) /\ Len(batch) = 0
<1>1. batch = <<>> /\ queue' = <<>> /\ batch' = queue
  BY DEF Placed, EmptyBatchBeforeSwap, SwapThen
<1>2. Len(<<>>) = 0 /\ Len(queue) \in Nat
  BY EmptySeq, LenProperties DEF TypeOK
<1>3. WhereRecordsAre'
  BY <1>1, <1>2 DEF Placed, WhereRecordsAre, TypeOK
<1>4. EmptyBatchBeforeSwap'
  BY <1>1 DEF EmptyBatchBeforeSwap, SwapThen
<1>. QED BY <1>1, <1>2, <1>3, <1>4 DEF Placed

(* Settling the batch leaves the queue as the unsettled records. *)
LEMMA SettlePlaced ==
  ASSUME TypeOK, Placed, UNCHANGED <<accepted, queue>>,
         settled' = settled + Len(batch), batch' = <<>>
  PROVE  Placed'
<1>1. Len(<<>>) = 0 /\ Len(queue) \in Nat /\ Len(batch) \in Nat /\ settled \in Nat
  BY EmptySeq, LenProperties DEF TypeOK
<1>2. WhereRecordsAre'
  BY <1>1 DEF Placed, WhereRecordsAre
<1>. QED BY <1>2 DEF Placed, EmptyBatchBeforeSwap

(* A step that moves no record, and does not leave a transaction, changes  *)
(* nothing.                                                                *)
LEMMA UnmovedPlaced ==
  ASSUME Placed, UNCHANGED <<accepted, settled, batch, queue>>,
         writer \in {"begin", "exec"} => writer' \in {"begin", "exec"}
  PROVE  Placed'
  BY DEF Placed, EmptyBatchBeforeSwap, WhereRecordsAre

(* An enqueued record takes the place behind all unsettled ones. *)
LEMMA EnqueuePlaced ==
  ASSUME TypeOK, Placed, NEW p \in Producers, NEW r \in Records, Enqueue(p, r)
  PROVE  Placed'
<1>0. /\ queue' = Append(queue, r) /\ accepted' = Append(accepted, r)
      /\ UNCHANGED <<batch, settled, writer>>
  BY DEF Enqueue, writerVars
<1>1. /\ Len(queue') = Len(queue) + 1 /\ Len(queue) \in Nat
      /\ \A i \in 1..Len(queue) : queue'[i] = queue[i]
      /\ queue'[Len(queue) + 1] = r
  BY <1>0, AppendProperties, LenProperties DEF TypeOK
<1>2. /\ Len(accepted') = Len(accepted) + 1 /\ Len(accepted) \in Nat
      /\ \A i \in 1..Len(accepted) : accepted'[i] = accepted[i]
      /\ accepted'[Len(accepted) + 1] = r
  BY <1>0, AppendProperties, LenProperties DEF TypeOK
<1>3. Len(batch) \in Nat /\ settled \in Nat
  BY LenProperties DEF TypeOK
<1>4. \A i \in 1..Len(batch) : batch[i] = accepted'[settled + i]
  <2> TAKE i \in 1..Len(batch)
  <2>1. settled + i \in 1..Len(accepted)
    BY <1>1, <1>2, <1>3 DEF Placed, WhereRecordsAre
  <2>2. batch[i] = accepted[settled + i]
    BY DEF Placed, WhereRecordsAre
  <2>. QED BY <1>2, <2>1, <2>2
<1>5. \A i \in 1..Len(queue') : queue'[i] = accepted'[settled + Len(batch) + i]
  <2> TAKE i \in 1..Len(queue')
  <2>1. CASE i \in 1..Len(queue)
    <3>1. queue[i] = accepted[settled + Len(batch) + i] /\ queue'[i] = queue[i]
      BY <2>1, <1>1 DEF Placed, WhereRecordsAre
    <3>2. settled + Len(batch) + i \in 1..Len(accepted)
      BY <2>1, <1>1, <1>2, <1>3 DEF Placed, WhereRecordsAre
    <3>. QED BY <1>2, <3>1, <3>2
  <2>2. CASE i = Len(queue) + 1
    BY <2>2, <1>1, <1>2, <1>3 DEF Placed, WhereRecordsAre
  <2>3. i \in 1..Len(queue) \/ i = Len(queue) + 1
    BY <1>1
  <2>. QED BY <2>1, <2>2, <2>3
<1>6. settled + Len(batch) + Len(queue') = Len(accepted')
  BY <1>1, <1>2, <1>3 DEF Placed, WhereRecordsAre
<1>7. WhereRecordsAre'
  BY <1>0, <1>4, <1>5, <1>6 DEF WhereRecordsAre
<1>. QED BY <1>0, <1>7 DEF Placed, EmptyBatchBeforeSwap

(* Every step keeps the records in their places. *)
LEMMA PlacedStep ==
  ASSUME TypeOK, Placed, WriterLifetime, [Next]_vars
  PROVE  Placed'
<1> USE DEF ownerVars, producerVars
<1>1. ASSUME NEW p \in Producers, ProducerStep(p) PROVE Placed'
  <2>1. ASSUME NEW r \in Records, Enqueue(p, r) PROVE Placed'
    BY <2>1, EnqueuePlaced
  <2>2. CASE CountQueued(p)
    BY <2>2, UnmovedPlaced DEF CountQueued, writerVars
  <2>3. CASE NotifyOne(p)
    BY <2>3, UnmovedPlaced DEF NotifyOne, NotifyWriter
  <2>. QED BY <1>1, <2>1, <2>2, <2>3 DEF ProducerStep
<1>2. CASE TestStop
  <2>1. CASE stopRequested
    BY <1>2, <2>1, SwapPlaced DEF TestStop
  <2>2. CASE ~stopRequested
    BY <1>2, <2>2, UnmovedPlaced DEF TestStop
  <2>. QED BY <2>1, <2>2
<1>3. CASE CheckQueue
  <2>1. CASE stopRequested \/ queue # <<>>
    BY <1>3, <2>1, SwapPlaced DEF CheckQueue
  <2>2. CASE ~(stopRequested \/ queue # <<>>)
    BY <1>3, <2>2, UnmovedPlaced DEF CheckQueue
  <2>. QED BY <2>1, <2>2
<1>4. CASE WaitTimeout
  BY <1>4, SwapPlaced DEF WaitTimeout
<1>5. CASE Block \/ BeginTransaction \/ ExecRecord
  BY <1>5, UnmovedPlaced DEF Block, BeginTransaction, ExecRecord
<1>6. CASE Commit \/ WriteFails
  BY <1>6, SettlePlaced DEF Commit, WriteFails
<1>7. CASE Start
  BY <1>7, UnmovedPlaced DEF Start, WriterLifetime
<1>8. CASE RequestStop \/ NotifyStop
  BY <1>8, UnmovedPlaced DEF RequestStop, NotifyStop, NotifyWriter, writerVars
<1>9. CASE Join
  BY <1>9, UnmovedPlaced DEF Join
<1>10. CASE UNCHANGED vars
  BY <1>10, UnmovedPlaced DEF vars, writerVars
<1>. QED
  BY <1>1, <1>2, <1>3, <1>4, <1>5, <1>6, <1>7, <1>8, <1>9, <1>10
     DEF Next, WriterStep, OwnerStep

(* The places, read as sequences, are the order the callers see. *)
LEMMA PlacedInOrder ==
  ASSUME TypeOK, WhereRecordsAre
  PROVE  UnsettledInOrder
<1> DEFINE rest == SubSeq(accepted, settled + 1, Len(accepted))
<1>1. /\ Len(queue) \in Nat /\ Len(batch) \in Nat /\ settled \in Nat
      /\ Len(accepted) \in Nat
  BY LenProperties DEF TypeOK
<1>2. \A i \in settled + 1 .. Len(accepted) : accepted[i] \in Records
  BY <1>1, ElementOfSeq DEF TypeOK
<1>3. /\ rest \in Seq(Records)
      /\ Len(rest) = Len(accepted) - settled
      /\ \A i \in 1..Len(accepted) - settled : rest[i] = accepted[settled + i]
  <2>1. /\ rest \in Seq(Records)
        /\ Len(rest) = IF settled + 1 <= Len(accepted)
                       THEN Len(accepted) - (settled + 1) + 1 ELSE 0
        /\ \A i \in 1..Len(accepted) - (settled + 1) + 1 :
             rest[i] = accepted[settled + 1 + i - 1]
    BY <1>1, <1>2, SubSeqProperties
  <2>. QED BY <2>1, <1>1 DEF WhereRecordsAre
<1>4. /\ batch \o queue \in Seq(Records)
      /\ Len(batch \o queue) = Len(batch) + Len(queue)
      /\ \A i \in 1..Len(batch) + Len(queue) :
           (batch \o queue)[i] = IF i <= Len(batch) THEN batch[i]
                                 ELSE queue[i - Len(batch)]
  BY ConcatProperties DEF TypeOK
<1>5. Len(rest) = Len(batch \o queue)
  BY <1>1, <1>3, <1>4 DEF WhereRecordsAre
<1>6. ASSUME NEW i \in 1..Len(rest) PROVE rest[i] = (batch \o queue)[i]
  <2>1. CASE i <= Len(batch)
    BY <2>1, <1>1, <1>3, <1>4, <1>5 DEF WhereRecordsAre
  <2>2. CASE ~(i <= Len(batch))
    <3>1. i - Len(batch) \in 1..Len(queue)
      BY <2>2, <1>1, <1>4, <1>5
    <3>2. queue[i - Len(batch)] = accepted[settled + Len(batch) + (i - Len(batch))]
      BY <3>1 DEF WhereRecordsAre
    <3>. QED BY <2>2, <3>2, <1>1, <1>3, <1>4, <1>5
  <2>. QED BY <2>1, <2>2
<1>. QED BY <1>3, <1>4, <1>5, <1>6, SeqEqual DEF UnsettledInOrder

(* The invariants about records hold together. *)
LEMMA PlacedInv == Spec => [](TypeOK /\ WriterLifetime /\ Placed)
<1>1. Init => TypeOK /\ WriterLifetime /\ Placed
  <2>1. Init => Placed
    BY EmptySeq DEF Init, Placed, EmptyBatchBeforeSwap, WhereRecordsAre
  <2>. QED BY <2>1, InitTypeOK DEF Init, WriterLifetime
<1>2. /\ TypeOK /\ WriterLifetime /\ Placed /\ [Next]_vars
      => (TypeOK /\ WriterLifetime /\ Placed)'
  <2> SUFFICES ASSUME TypeOK, WriterLifetime, Placed, [Next]_vars
               PROVE  (TypeOK /\ WriterLifetime /\ Placed)'
    OBVIOUS
  <2>1. Placed'
    BY PlacedStep
  <2>2. CASE Next
    BY <2>1, <2>2, ProducerTypeOK, WriterTypeOK, OwnerTypeOK, LifetimeStep DEF Next
  <2>3. CASE UNCHANGED vars
    BY <2>1, <2>3 DEF vars, ownerVars, writerVars, producerVars, TypeOK, WriterLifetime
  <2>. QED BY <2>2, <2>3
<1>. QED BY <1>1, <1>2, PTL DEF Spec

(* No record is lost, duplicated or overtaken between EnqueueX and          *)
(* WriteBatch, for any number of producers and records.                    *)
THEOREM OrderKept == Spec => []UnsettledInOrder
<1>1. TypeOK /\ WriterLifetime /\ Placed => UnsettledInOrder
  BY PlacedInOrder DEF Placed
<1>. QED BY <1>1, PlacedInv, PTL

(* The writer always swaps an empty batch into the queue.                  *)
THEOREM SwapsEmptyBatch == Spec => []EmptyBatchBeforeSwap
<1>1. TypeOK /\ WriterLifetime /\ Placed => EmptyBatchBeforeSwap
  BY DEF Placed
<1>. QED BY <1>1, PlacedInv, PTL

-----------------------------------------------------------------------------
(* What Stop guarantees.                                                   *)

(* Once the writer has left its loop, history and batch cover everything    *)
(* enqueued before the stop, and no new session has begun.                 *)
StopDebt ==
  /\ stopMark <= Len(accepted)
  /\ stopRequested => ~running
  /\ flushing => stopRequested /\ settled + Len(batch) >= stopMark
  /\ writer = "exited" => flushing

(* Every step of the writer, the owner and the producers keeps the debt.   *)
LEMMA StopDebtStep ==
  ASSUME TypeOK, Placed, WriterLifetime, StopDebt, [Next]_vars
  PROVE  StopDebt'
<1> USE DEF StopDebt, ownerVars, producerVars
<1>0. /\ Len(batch) \in Nat /\ Len(queue) \in Nat /\ Len(accepted) \in Nat
      /\ settled \in Nat /\ stopMark \in Nat /\ Len(<<>>) = 0
  BY LenProperties, EmptySeq DEF TypeOK
<1>1. ASSUME NEW p \in Producers, ProducerStep(p) PROVE StopDebt'
  <2>1. ASSUME NEW r \in Records, Enqueue(p, r) PROVE StopDebt'
    <3>1. Len(accepted') = Len(accepted) + 1
      BY <2>1, AppendProperties DEF Enqueue, TypeOK
    <3>. QED BY <2>1, <3>1, <1>0 DEF Enqueue, writerVars
  <2>2. CASE CountQueued(p)
    BY <2>2 DEF CountQueued, writerVars
  <2>3. CASE NotifyOne(p)
    BY <2>3 DEF NotifyOne, NotifyWriter
  <2>. QED BY <1>1, <2>1, <2>2, <2>3 DEF ProducerStep
<1>2. CASE TestStop
  <2>1. CASE stopRequested
    <3>1. Len(batch') = Len(queue) /\ Len(batch) = 0
      BY <1>2, <2>1, SwapPlaced DEF TestStop
    <3>2. settled + Len(batch') >= stopMark
      BY <3>1, <1>0 DEF Placed, WhereRecordsAre
    <3>. QED BY <1>2, <2>1, <3>2 DEF TestStop
  <2>2. CASE ~stopRequested
    BY <1>2, <2>2 DEF TestStop
  <2>. QED BY <2>1, <2>2
<1>3. CASE CheckQueue
  <2>1. CASE stopRequested \/ queue # <<>>
    <3>1. Len(batch') = Len(queue) /\ Len(batch) = 0
      BY <1>3, <2>1, SwapPlaced DEF CheckQueue
    <3>2. settled + Len(batch) >= stopMark => settled + Len(batch') >= stopMark
      BY <3>1, <1>0
    <3>. QED BY <1>3, <2>1, <3>2 DEF CheckQueue, SwapThen
  <2>2. CASE ~(stopRequested \/ queue # <<>>)
    BY <1>3, <2>2 DEF CheckQueue
  <2>. QED BY <2>1, <2>2
<1>4. CASE WaitTimeout
  <2>1. Len(batch') = Len(queue) /\ Len(batch) = 0
    BY <1>4, SwapPlaced DEF WaitTimeout
  <2>2. settled + Len(batch) >= stopMark => settled + Len(batch') >= stopMark
    BY <2>1, <1>0
  <2>. QED BY <1>4, <2>2 DEF WaitTimeout, SwapThen
<1>5. CASE Block \/ BeginTransaction \/ ExecRecord
  BY <1>5 DEF Block, BeginTransaction, ExecRecord
<1>6. CASE Commit \/ WriteFails
  <2>1. settled' + Len(batch') = settled + Len(batch)
    BY <1>6, <1>0 DEF Commit, WriteFails
  <2>. QED BY <1>6, <2>1 DEF Commit, WriteFails, AfterWrite
<1>7. CASE Start
  BY <1>7 DEF Start
<1>8. CASE RequestStop
  BY <1>8, <1>0 DEF RequestStop, writerVars
<1>9. CASE NotifyStop \/ Join
  BY <1>9 DEF NotifyStop, NotifyWriter, Join
<1>10. CASE UNCHANGED vars
  BY <1>10 DEF vars, writerVars
<1>. QED
  BY <1>1, <1>2, <1>3, <1>4, <1>5, <1>6, <1>7, <1>8, <1>9, <1>10
     DEF Next, WriterStep, OwnerStep

(* When Stop returns, everything enqueued before it asked the writer to    *)
(* stop has been settled (DatabaseManager.cpp 27-39 and 111-119).          *)
THEOREM StopFlushesAll == Spec => StopFlushes
<1> DEFINE Inv == TypeOK /\ WriterLifetime /\ Placed
<1>1. Init => StopDebt
  BY EmptySeq DEF Init, StopDebt
<1>2. Inv /\ StopDebt /\ [Next]_vars => StopDebt'
  BY StopDebtStep
<1>3. Inv /\ StopDebt /\ [Next]_vars => [Join => settled >= stopMark]_vars
  <2> SUFFICES ASSUME Inv, StopDebt, Join
               PROVE  settled >= stopMark
    OBVIOUS
  <2>1. batch = <<>> /\ settled + Len(batch) >= stopMark
    BY DEF Join, StopDebt, Placed, EmptyBatchBeforeSwap
  <2>. QED BY <2>1, EmptySeq DEF TypeOK
<1>4. Spec => []Inv
  BY PlacedInv
<1> HIDE DEF Inv
<1>. QED BY <1>1, <1>2, <1>3, <1>4, PTL DEF Spec, StopFlushes

-----------------------------------------------------------------------------
(* Counting the records of a kind. *)

(* The places CountOf counts are finitely many. *)
LEMMA CountIsNat ==
  ASSUME NEW r \in Records, NEW s \in Seq(Records)
  PROVE  /\ IsFiniteSet({i \in 1..Len(s) : s[i] = r})
         /\ CountOf(r, s) \in Nat
<1>1. IsFiniteSet(1..Len(s))
  BY LenProperties, FS_Interval
<1>2. IsFiniteSet({i \in 1..Len(s) : s[i] = r})
  BY <1>1, FS_Subset
<1>. QED BY <1>2, FS_CardinalityType DEF CountOf

LEMMA CountEmpty == ASSUME NEW r PROVE CountOf(r, <<>>) = 0
<1>1. {i \in 1..Len(<<>>) : <<>>[i] = r} = {}
  BY EmptySeq
<1>. QED BY <1>1, FS_EmptySet DEF CountOf

(* One more record counts where it is of the kind. *)
LEMMA CountAppend ==
  ASSUME NEW r \in Records, NEW s \in Seq(Records), NEW x \in Records
  PROVE  CountOf(r, Append(s, x)) = CountOf(r, s) + (IF x = r THEN 1 ELSE 0)
<1> DEFINE here == {i \in 1..Len(s) : s[i] = r}
           there == {i \in 1..Len(Append(s, x)) : Append(s, x)[i] = r}
<1>1. /\ Len(s) \in Nat /\ Len(Append(s, x)) = Len(s) + 1
      /\ \A i \in 1..Len(s) : Append(s, x)[i] = s[i]
      /\ Append(s, x)[Len(s) + 1] = x
  BY AppendProperties, LenProperties
<1>2. \A i \in 1..Len(s) + 1 : i \in 1..Len(s) \/ i = Len(s) + 1
  BY <1>1
<1>3. /\ CountOf(r, s) = Cardinality(here) /\ CountOf(r, Append(s, x)) = Cardinality(there)
      /\ IsFiniteSet(here) /\ Cardinality(here) \in Nat /\ Len(s) + 1 \notin here
  BY <1>1, CountIsNat DEF CountOf
<1>4. CASE x = r
  <2>1. there = here \cup {Len(s) + 1}
    BY <1>1, <1>2, <1>4
  <2>2. Cardinality(here \cup {Len(s) + 1}) = Cardinality(here) + 1
    BY <1>3, FS_AddElement
  <2>. QED BY <1>3, <1>4, <2>1, <2>2
<1>5. CASE x # r
  <2>1. there = here
    BY <1>1, <1>2, <1>5
  <2> HIDE DEF here, there
  <2>. QED BY <1>3, <1>5, <2>1
<1>. QED BY <1>4, <1>5

(* The count of a concatenation is the sum of the counts. *)
LEMMA CountConcat ==
  ASSUME NEW r \in Records, NEW s \in Seq(Records), NEW t \in Seq(Records)
  PROVE  CountOf(r, s \o t) = CountOf(r, s) + CountOf(r, t)
<1> DEFINE inS == {i \in 1..Len(s) : s[i] = r}
           inT == {i \in 1..Len(t) : t[i] = r}
           behind == {i \in Len(s) + 1 .. Len(s) + Len(t) : t[i - Len(s)] = r}
           inBoth == {i \in 1..Len(s \o t) : (s \o t)[i] = r}
           shift == [i \in inT |-> Len(s) + i]
<1>1. /\ Len(s) \in Nat /\ Len(t) \in Nat /\ Len(s \o t) = Len(s) + Len(t)
      /\ \A i \in 1..Len(s) + Len(t) :
           (s \o t)[i] = IF i <= Len(s) THEN s[i] ELSE t[i - Len(s)]
  BY ConcatProperties, LenProperties
<1>2. inBoth = inS \cup behind
  <2>1. ASSUME NEW i \in inBoth PROVE i \in inS \cup behind
    BY <1>1
  <2>2. ASSUME NEW i \in inS PROVE i \in inBoth
    BY <1>1
  <2>3. ASSUME NEW i \in behind PROVE i \in inBoth
    BY <1>1
  <2>. QED BY <2>1, <2>2, <2>3
<1>3. inS \cap behind = {}
  BY <1>1
<1>4. shift \in Bijection(inT, behind)
  <2>1. shift \in [inT -> behind]
    BY <1>1
  <2>2. \A i, j \in inT : shift[i] = shift[j] => i = j
    BY <1>1
  <2>3. \A k \in behind : \E i \in inT : shift[i] = k
    <3>1. \A k \in behind : k - Len(s) \in inT /\ Len(s) + (k - Len(s)) = k
      BY <1>1
    <3>. QED BY <3>1
  <2>. QED BY <2>1, <2>2, <2>3, Fun_IsBij
<1>5. /\ CountOf(r, s) = Cardinality(inS) /\ CountOf(r, t) = Cardinality(inT)
      /\ CountOf(r, s \o t) = Cardinality(inBoth)
      /\ IsFiniteSet(inS) /\ IsFiniteSet(inT) /\ Cardinality(inS) \in Nat /\ Cardinality(inT) \in Nat
  BY CountIsNat DEF CountOf
<1>6. IsFiniteSet(behind) /\ Cardinality(behind) = Cardinality(inT)
  BY <1>4, <1>5, FS_Bijection DEF ExistsBijection
<1> HIDE DEF inS, inT, behind, inBoth
<1>7. Cardinality(inS \cup behind) = Cardinality(inS) + Cardinality(behind) - Cardinality({})
  BY <1>3, <1>5, <1>6, FS_Union
<1>. QED BY <1>2, <1>5, <1>6, <1>7, FS_EmptySet

(* What each update of m_stats does to the counters. *)
LEMMA CounterUpdates ==
  ASSUME NEW s \in Stats, NEW r \in Records, NEW n
  PROVE  /\ LET u == [s EXCEPT !.currentQueueDepth = n]
            IN  u.queued = s.queued /\ u.written = s.written /\ u.failedWrites = s.failedWrites
         /\ LET u == [s EXCEPT !.queued[r] = @ + 1]
            IN  /\ u.written = s.written /\ u.failedWrites = s.failedWrites
                /\ \A q \in Records : u.queued[q] = IF q = r THEN s.queued[q] + 1 ELSE s.queued[q]
         /\ LET u == [s EXCEPT !.written[r] = @ + 1]
            IN  /\ u.queued = s.queued /\ u.failedWrites = s.failedWrites
                /\ \A q \in Records : u.written[q] = IF q = r THEN s.written[q] + 1 ELSE s.written[q]
         /\ LET u == [s EXCEPT !.failedWrites = @ + 1]
            IN  u.queued = s.queued /\ u.failedWrites = s.failedWrites + 1
<1>1. s.queued \in [Records -> Nat] /\ s.written \in [Records -> Nat]
  BY DEF Stats
<1>. QED BY <1>1 DEF Stats

-----------------------------------------------------------------------------
(* The counters of m_stats. *)

Counting(r) == {p \in Producers : producer[p] = r}

(* However many producers there are, only those that have enqueued and not *)
(* yet counted make a difference, and they are finitely many.              *)
CountersTrail == QueuedCountersTrail /\ \A r \in Records : IsFiniteSet(Counting(r))

LEMMA TrailFrame ==
  ASSUME CountersTrail, UNCHANGED <<producer, accepted>>, stats'.queued = stats.queued
  PROVE  CountersTrail'
  BY DEF CountersTrail, QueuedCountersTrail, Counting, CountOf

LEMMA TrailStep ==
  ASSUME TypeOK, CountersTrail, [Next]_vars
  PROVE  CountersTrail'
<1> USE DEF producerVars, ownerVars, writerVars
<1>0. /\ stats \in Stats /\ accepted \in Seq(Records)
      /\ producer \in [Producers -> Records \cup {"idle", "notify"}]
      /\ "idle" \notin Records /\ "notify" \notin Records
  BY DEF TypeOK, Records
<1>1. \A r \in Records : /\ Cardinality(Counting(r)) \in Nat /\ stats.queued[r] \in Nat
                         /\ CountOf(r, accepted) \in Nat
  <2> TAKE r \in Records
  <2>1. Cardinality(Counting(r)) \in Nat
    BY FS_CardinalityType DEF CountersTrail
  <2>2. stats.queued[r] \in Nat
    BY <1>0 DEF Stats
  <2>. QED BY <1>0, <2>1, <2>2, CountIsNat
<1>2. ASSUME NEW p \in Producers, NEW x \in Records, Enqueue(p, x) PROVE CountersTrail'
  <2>1. /\ producer[p] = "idle" /\ producer' = [producer EXCEPT ![p] = x]
        /\ accepted' = Append(accepted, x)
        /\ stats'.queued = stats.queued
    BY <1>0, <1>2, CounterUpdates DEF Enqueue
  <2>2. ASSUME NEW r \in Records
        PROVE  /\ IsFiniteSet(Counting(r)')
               /\ stats'.queued[r] + Cardinality(Counting(r)') = CountOf(r, accepted')
    <3>1. stats.queued[r] + Cardinality(Counting(r)) = CountOf(r, accepted) /\ IsFiniteSet(Counting(r))
      BY DEF CountersTrail, QueuedCountersTrail, Counting
    <3>2. CountOf(r, accepted') = CountOf(r, accepted) + (IF x = r THEN 1 ELSE 0)
      BY <1>0, <2>1, CountAppend
    <3>3. CASE x = r
      <4>1. Counting(r)' = Counting(r) \cup {p} /\ p \notin Counting(r)
        BY <1>0, <2>1, <3>3 DEF Counting
      <4>2. IsFiniteSet(Counting(r)') /\ Cardinality(Counting(r)') = Cardinality(Counting(r)) + 1
        BY <3>1, <4>1, FS_AddElement
      <4>3. stats'.queued[r] = stats.queued[r] /\ stats.queued[r] \in Nat
        BY <1>1, <2>1
      <4>4. CountOf(r, accepted') = CountOf(r, accepted) + 1
        BY <3>2, <3>3
      <4>. QED BY ONLY <3>1, <4>2, <4>3, <4>4, FS_CardinalityType
    <3>4. CASE x # r
      <4>1. Counting(r)' = Counting(r)
        BY <1>0, <2>1, <3>4 DEF Counting
      <4>. QED BY <1>1, <2>1, <3>1, <3>2, <3>4, <4>1
    <3>. QED BY <3>3, <3>4
  <2>. QED BY <2>2 DEF CountersTrail, QueuedCountersTrail, Counting
<1>3. ASSUME NEW p \in Producers, CountQueued(p) PROVE CountersTrail'
  <2> DEFINE x == producer[p]
  <2>1. /\ x \in Records /\ producer' = [producer EXCEPT ![p] = "notify"] /\ UNCHANGED accepted
        /\ \A q \in Records :
             stats'.queued[q] = IF q = x THEN stats.queued[q] + 1 ELSE stats.queued[q]
    BY <1>0, <1>3, CounterUpdates DEF CountQueued
  <2>2. ASSUME NEW r \in Records
        PROVE  /\ IsFiniteSet(Counting(r)')
               /\ stats'.queued[r] + Cardinality(Counting(r)') = CountOf(r, accepted')
    <3>1. stats.queued[r] + Cardinality(Counting(r)) = CountOf(r, accepted) /\ IsFiniteSet(Counting(r))
      BY DEF CountersTrail, QueuedCountersTrail, Counting
    <3>2. CASE x = r
      <4>1. Counting(r)' = Counting(r) \ {p} /\ p \in Counting(r)
        BY <1>0, <2>1, <3>2 DEF Counting
      <4>2. IsFiniteSet(Counting(r)') /\ Cardinality(Counting(r)') = Cardinality(Counting(r)) - 1
        BY <3>1, <4>1, FS_RemoveElement
      <4>. QED BY <1>1, <2>1, <3>1, <3>2, <4>2
    <3>3. CASE x # r
      <4>1. Counting(r)' = Counting(r)
        BY <1>0, <2>1, <3>3 DEF Counting
      <4>. QED BY <1>1, <2>1, <3>1, <3>3, <4>1
    <3>. QED BY <3>2, <3>3
  <2>. QED BY <2>2 DEF CountersTrail, QueuedCountersTrail, Counting
<1>4. ASSUME NEW p \in Producers, NotifyOne(p) PROVE CountersTrail'
  <2>1. \A r \in Records : Counting(r)' = Counting(r)
    BY <1>0, <1>4 DEF NotifyOne, Counting
  <2>2. UNCHANGED <<stats, accepted>>
    BY <1>4 DEF NotifyOne
  <2>. QED BY <2>1, <2>2 DEF CountersTrail, QueuedCountersTrail, Counting
<1>5. CASE TestStop \/ CheckQueue \/ Block \/ WaitTimeout \/ BeginTransaction \/ Commit
  BY <1>5, TrailFrame DEF TestStop, CheckQueue, Block, WaitTimeout, BeginTransaction, Commit
<1>6. CASE ExecRecord
  <2>1. batch[execd + 1] \in Records
    BY <1>6, LenProperties, ElementOfSeq DEF ExecRecord, TypeOK
  <2>2. stats'.queued = stats.queued
    BY <1>0, <1>6, <2>1, CounterUpdates DEF ExecRecord
  <2>. QED BY <1>6, <2>2, TrailFrame DEF ExecRecord
<1>7. CASE WriteFails
  <2>1. stats'.queued = stats.queued
    BY <1>0, <1>7, CounterUpdates DEF WriteFails, Records
  <2>. QED BY <1>7, <2>1, TrailFrame DEF WriteFails
<1>8. CASE OwnerStep
  BY <1>8, TrailFrame DEF OwnerStep, Start, RequestStop, NotifyStop, Join
<1>9. CASE UNCHANGED vars
  BY <1>9, TrailFrame DEF vars
<1>. QED
  BY <1>2, <1>3, <1>4, <1>5, <1>6, <1>7, <1>8, <1>9 DEF Next, ProducerStep, WriterStep

(* The counters of m_stats read by GetStats trail the queue by exactly the *)
(* producers between their unlock and their increment (45-53, 75-83), for  *)
(* any number of producers.                                                *)
THEOREM QueuedCountersExact == Spec => []QueuedCountersTrail
<1>1. Init => CountersTrail
  <2> SUFFICES ASSUME Init, NEW r \in Records
               PROVE  /\ IsFiniteSet(Counting(r))
                      /\ stats.queued[r] + Cardinality(Counting(r)) = CountOf(r, accepted)
    BY DEF CountersTrail, QueuedCountersTrail, Counting
  <2>1. stats.queued[r] = 0 /\ accepted = <<>>
    BY DEF Init
  <2>2. Counting(r) = {}
    BY DEF Init, Counting, Records
  <2>. QED BY <2>1, <2>2, FS_EmptySet, CountEmpty
<1>2. TypeOK /\ CountersTrail /\ [Next]_vars => CountersTrail'
  BY TrailStep
<1>3. CountersTrail => QueuedCountersTrail
  BY DEF CountersTrail
<1>. QED BY <1>1, <1>2, <1>3, TypeCorrect, PTL DEF Spec

(* What has been written: the committed rows and the open transaction.     *)
Inserted == SubSeq(batch, 1, execd)

LEMMA WrittenFrame ==
  ASSUME WrittenCountersExact, UNCHANGED <<table, Inserted>>,
         stats'.written = stats.written, stats'.failedWrites = stats.failedWrites
  PROVE  WrittenCountersExact'
<1>1. Inserted' = Inserted /\ table' = table
  OBVIOUS
<1>2. SubSeq(batch, 1, execd)' = SubSeq(batch, 1, execd)
  BY <1>1 DEF Inserted
<1>3. ASSUME NEW r
      PROVE  /\ CountOf(r, table)' = CountOf(r, table)
             /\ CountOf(r, SubSeq(batch, 1, execd))' = CountOf(r, SubSeq(batch, 1, execd))
  BY ONLY <1>1, <1>2 DEF CountOf
<1>4. ASSUME stats'.failedWrites = 0, NEW r \in Records
      PROVE  stats'.written[r] = (CountOf(r, table) + CountOf(r, SubSeq(batch, 1, execd)))'
  <2>1. stats.written[r] = CountOf(r, table) + CountOf(r, SubSeq(batch, 1, execd))
    BY <1>4 DEF WrittenCountersExact
  <2>. QED BY <1>3, <2>1
<1>. QED BY <1>4 DEF WrittenCountersExact

(* Outside a transaction nothing is inserted, whatever is swapped. *)
LEMMA NothingInserted ==
  /\ TypeOK /\ writer # "exec" => Inserted = <<>>
  /\ TypeOK' /\ writer' # "exec" => Inserted' = <<>>
<1>1. TypeOK /\ writer # "exec" => execd = 0
  BY DEF TypeOK
<1>2. TypeOK' /\ writer' # "exec" => execd' = 0
  BY DEF TypeOK
<1>3. \A s : SubSeq(s, 1, 0) = <<>>
  BY SubSeqEmpty
<1>4. (execd = 0 => Inserted = <<>>) /\ (execd' = 0 => Inserted' = <<>>)
  BY ONLY <1>3 DEF Inserted
<1>. QED BY <1>1, <1>2, <1>4

LEMMA WrittenStep ==
  ASSUME TypeOK, TypeOK', WrittenCountersExact, [Next]_vars
  PROVE  WrittenCountersExact'
<1> USE DEF producerVars, ownerVars, writerVars
<1>0. /\ stats \in Stats /\ batch \in Seq(Records) /\ table \in Seq(Records)
      /\ execd \in Nat /\ Len(batch) \in Nat /\ execd <= Len(batch)
  BY LenProperties DEF TypeOK
<1>1. CASE \E p \in Producers : ProducerStep(p)
  <2>1. UNCHANGED <<table, Inserted>>
    BY <1>1 DEF ProducerStep, Enqueue, CountQueued, NotifyOne, Inserted
  <2>2. stats'.written = stats.written /\ stats'.failedWrites = stats.failedWrites
    <3>1. PICK p \in Producers : ProducerStep(p)
      BY <1>1
    <3>2. ASSUME NEW r \in Records, Enqueue(p, r)
          PROVE  stats'.written = stats.written /\ stats'.failedWrites = stats.failedWrites
      BY <1>0, <3>2, CounterUpdates DEF Enqueue
    <3>3. CASE CountQueued(p)
      BY <1>0, <3>3, CounterUpdates DEF CountQueued
    <3>4. CASE NotifyOne(p)
      BY <3>4 DEF NotifyOne
    <3>. QED BY <3>1, <3>2, <3>3, <3>4 DEF ProducerStep
  <2>. QED BY <2>1, <2>2, WrittenFrame
<1>2. CASE TestStop \/ CheckQueue \/ WaitTimeout
  <2>1. writer # "exec" /\ writer' # "exec" /\ UNCHANGED <<table, stats>>
    BY <1>2 DEF TestStop, CheckQueue, WaitTimeout, SwapThen
  <2>. QED BY <2>1, NothingInserted, WrittenFrame
<1>3. CASE Block \/ BeginTransaction \/ OwnerStep \/ UNCHANGED vars
  BY <1>3, WrittenFrame
  DEF Block, BeginTransaction, OwnerStep, Start, RequestStop, NotifyStop, Join, vars, Inserted
<1>4. CASE ExecRecord
  <2> DEFINE x == batch[execd + 1]
  <2>1. execd + 1 \in 1..Len(batch) /\ x \in Records
    BY <1>0, <1>4, ElementOfSeq DEF ExecRecord
  <2>2. /\ UNCHANGED <<table, batch>> /\ stats'.failedWrites = stats.failedWrites
        /\ \A q \in Records :
             stats'.written[q] = IF q = x THEN stats.written[q] + 1 ELSE stats.written[q]
    BY <1>0, <1>4, <2>1, CounterUpdates DEF ExecRecord
  <2>3. Inserted \in Seq(Records) /\ Inserted' = Append(Inserted, x)
    <3>1. \A i \in 1..execd : batch[i] \in Records
      BY <1>0, ElementOfSeq
    <3>2. Inserted \in Seq(Records)
      BY <1>0, <3>1, SubSeqProperties DEF Inserted
    <3>3. Inserted' = SubSeq(batch, 1, execd + 1 - 1) \o <<x>>
      <4>1. 1 \in 1..Len(batch) /\ execd + 1 \in 1..Len(batch)
        BY <1>0, <2>1
      <4>2. SubSeq(batch, 1, execd + 1) = SubSeq(batch, 1, execd + 1 - 1) \o <<x>>
        BY <1>0, <4>1, SubSeqRecursiveSecond
      <4>. QED BY <1>4, <4>2 DEF ExecRecord, Inserted
    <3>4. execd + 1 - 1 = execd
      BY <1>0
    <3>. QED BY <2>1, <3>2, <3>3, <3>4, AppendIsConcat DEF Inserted
  <2>4. ASSUME NEW r \in Records, stats'.failedWrites = 0
        PROVE  stats'.written[r] = CountOf(r, table') + CountOf(r, Inserted')
    <3>1. stats.written[r] = CountOf(r, table) + CountOf(r, Inserted)
      BY <2>2, <2>4 DEF WrittenCountersExact, Inserted
    <3>2. CountOf(r, Inserted') = CountOf(r, Inserted) + (IF x = r THEN 1 ELSE 0)
      BY <2>1, <2>3, CountAppend
    <3>3. CountOf(r, table) \in Nat /\ CountOf(r, Inserted) \in Nat
      BY <1>0, <2>3, CountIsNat
    <3>. QED BY <2>2, <3>1, <3>2, <3>3
  <2>. QED BY <2>4 DEF WrittenCountersExact, Inserted
<1>5. CASE Commit
  <2>1. Inserted = batch /\ UNCHANGED stats /\ table' = table \o batch
    BY <1>0, <1>5, SubSeqFull DEF Commit, Inserted
  <2>2. Inserted' = <<>>
    BY <1>5, SubSeqEmpty DEF Commit, Inserted
  <2>3. ASSUME NEW r \in Records, stats.failedWrites = 0
        PROVE  stats.written[r] = CountOf(r, table') + CountOf(r, Inserted')
    <3>1. stats.written[r] = CountOf(r, table) + CountOf(r, batch)
      BY <2>1, <2>3 DEF WrittenCountersExact, Inserted
    <3>2. CountOf(r, table') = CountOf(r, table) + CountOf(r, batch)
      BY <1>0, <2>1, CountConcat
    <3>3. CountOf(r, table') \in Nat
      BY CountIsNat DEF TypeOK
    <3>. QED BY <2>2, <3>1, <3>2, <3>3, CountEmpty
  <2>. QED BY <2>1, <2>3 DEF WrittenCountersExact, Inserted
<1>6. CASE WriteFails
  <2>1. stats'.failedWrites = stats.failedWrites + 1 /\ stats.failedWrites \in Nat
    BY <1>0, <1>6, CounterUpdates DEF WriteFails, Records, Stats
  <2>. QED BY <2>1 DEF WrittenCountersExact
<1>. QED BY <1>1, <1>2, <1>3, <1>4, <1>5, <1>6 DEF Next, WriterStep

(* As long as no write has failed, the written counters are exactly the    *)
(* rows committed and those the open transaction has inserted (228, 278).  *)
THEOREM WrittenCountersAreExact == Spec => []WrittenCountersExact
<1>1. Init => WrittenCountersExact
  <2> SUFFICES ASSUME Init, NEW r \in Records
               PROVE  stats.written[r] = CountOf(r, table) + CountOf(r, SubSeq(batch, 1, execd))
    BY DEF WrittenCountersExact
  <2>1. stats.written[r] = 0 /\ table = <<>> /\ SubSeq(batch, 1, execd) = <<>>
    BY SubSeqEmpty DEF Init
  <2>. QED
    <3>1. CountOf(r, table) = 0 /\ CountOf(r, SubSeq(batch, 1, execd)) = 0
      BY <2>1, CountEmpty
    <3>. QED BY <2>1, <3>1
<1>2. TypeOK /\ TypeOK' /\ WrittenCountersExact /\ [Next]_vars => WrittenCountersExact'
  BY WrittenStep
<1>. QED BY <1>1, <1>2, TypeCorrect, PTL DEF Spec

-----------------------------------------------------------------------------
(* DatabaseManager implements RecordLog.                                   *)

(* The batch is what the abstract log calls its next records. *)
LEMMA BatchIsNext ==
  ASSUME TypeOK, WhereRecordsAre
  PROVE  /\ batch = Log!NextBatch(Len(batch))
         /\ Len(batch) \in 0..(Len(accepted) - settled)
<1> DEFINE from == settled + 1
           to == settled + Len(batch)
           next == SubSeq(accepted, from, to)
<1>1. /\ Len(queue) \in Nat /\ Len(batch) \in Nat /\ settled \in Nat
      /\ Len(accepted) \in Nat
  BY LenProperties DEF TypeOK
<1>2. Len(batch) \in 0..(Len(accepted) - settled)
  BY <1>1 DEF WhereRecordsAre
<1>3. from \in Int /\ to \in Int /\ \A i \in from..to : accepted[i] \in Records
  BY <1>1, <1>2, ElementOfSeq DEF TypeOK
<1>4. /\ next \in Seq(Records)
      /\ Len(next) = IF from <= to THEN to - from + 1 ELSE 0
      /\ \A i \in 1..to - from + 1 : next[i] = accepted[from + i - 1]
  <2> HIDE DEF from, to
  <2>. QED BY <1>3, SubSeqProperties
<1>5. Len(next) = Len(batch)
  BY <1>1, <1>4
<1>6. ASSUME NEW i \in 1..Len(next) PROVE next[i] = batch[i]
  BY <1>1, <1>4, <1>5 DEF WhereRecordsAre
<1>7. next = batch
  BY <1>4, <1>5, <1>6, SeqEqual DEF TypeOK
<1>. QED BY <1>2, <1>7 DEF Log!NextBatch

(* A settled batch is an abstract Store or GiveUp, or nothing at all.      *)
LEMMA SettleImplements ==
  ASSUME TypeOK, WhereRecordsAre, UNCHANGED accepted,
         settled' = settled + Len(batch),
         table' = table \o batch \/ table' = table
  PROVE  [Log!Next]_(Log!vars)
<1>1. Len(batch) \in Nat /\ settled \in Nat
  BY LenProperties DEF TypeOK
<1>2. CASE batch = <<>>
  BY <1>1, <1>2, EmptySeq, ConcatEmptySeq DEF TypeOK, Log!vars
<1>3. CASE batch # <<>>
  <2>1. Len(batch) \in 1..(Len(accepted) - settled)
    BY <1>3, <1>1, BatchIsNext, EmptySeq DEF TypeOK
  <2>2. Log!Store(Len(batch)) \/ Log!GiveUp(Len(batch))
    BY BatchIsNext DEF Log!Store, Log!GiveUp
  <2>. QED BY <2>1, <2>2 DEF Log!Next
<1>. QED BY <1>2, <1>3

(* The logger implements the record log: each step is one acceptance, one  *)
(* batch settled as a whole and in order, or invisible.                    *)
THEOREM LoggerImplementsLog == Spec => ImplementsLog
<1> DEFINE Inv == TypeOK /\ WriterLifetime /\ Placed
<1>1. Init => Log!Init
  BY DEF Init, Log!Init
<1>2. Inv /\ [Next]_vars => [Log!Next]_(Log!vars)
  <2> SUFFICES ASSUME Inv, [Next]_vars PROVE [Log!Next]_(Log!vars)
    OBVIOUS
  <2> USE DEF ownerVars, Log!vars
  <2>1. ASSUME NEW p \in Producers, ProducerStep(p) PROVE [Log!Next]_(Log!vars)
    <3>1. ASSUME NEW r \in Records, Enqueue(p, r) PROVE Log!Next
      BY <3>1 DEF Enqueue, writerVars, Log!Next, Log!Accept
    <3>2. CASE CountQueued(p) \/ NotifyOne(p)
      BY <3>2 DEF CountQueued, NotifyOne, writerVars
    <3>. QED BY <2>1, <3>1, <3>2 DEF ProducerStep
  <2>2. CASE TestStop \/ CheckQueue \/ WaitTimeout \/ Block
    BY <2>2 DEF TestStop, CheckQueue, WaitTimeout, Block, producerVars
  <2>3. CASE BeginTransaction \/ ExecRecord
    BY <2>3 DEF BeginTransaction, ExecRecord, producerVars
  <2>4. CASE Commit \/ WriteFails
    BY <2>4, SettleImplements DEF Commit, WriteFails, Placed, producerVars
  <2>5. CASE OwnerStep
    BY <2>5 DEF OwnerStep, Start, RequestStop, NotifyStop, Join, producerVars,
                writerVars
  <2>6. CASE UNCHANGED vars
    BY <2>6 DEF vars, producerVars, writerVars
  <2>. QED BY <2>1, <2>2, <2>3, <2>4, <2>5, <2>6 DEF Next, WriterStep
<1>3. Spec => []Inv
  BY PlacedInv
<1> HIDE DEF Inv
<1>. QED BY <1>1, <1>2, <1>3, PTL DEF Spec, ImplementsLog, Log!Spec

=============================================================================
