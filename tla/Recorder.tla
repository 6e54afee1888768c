------------------------------ MODULE Recorder ------------------------------
(***************************************************************************)
(* The recording script of the board's directory                            *)
(* (src/microcontroller/test.py): the main thread reads measurements of the *)
(* IMU, one thread for each GPS receiver reads its sentences; all of them   *)
(* put what they read into a bounded queue, from which a writer thread     *)
(* inserts it into a database batch by batch, until a sentinel arrives.     *)
(***************************************************************************)
EXTENDS Naturals, Sequences, FiniteSets

CONSTANTS
  Receivers,  \* the GPS receivers found
  QueueSize, BatchSize, \* arguments of the script
  MaxItems    \* bound: measurements put into the queue

Imu == "IMU"
Sources == Receivers \cup {Imu}
Stop == "DATABASE_STOP"

(* Two tables hold sentences, those of GPS1 and GPS2.  main goes on with    *)
(* more receivers (496), but insert_batch drops the rows of a third without *)
(* a word (188-241) while rows_written counts them (387, 395).              *)
ASSUME ReceiversAssumption == Receivers \subseteq {"GPS1", "GPS2"}

ASSUME ArgumentsAssumption ==
  /\ QueueSize \in Nat \ {0} /\ BatchSize \in Nat \ {0}
  /\ Imu \notin Receivers /\ Stop \notin Sources

ASSUME BoundAssumption == MaxItems \in Nat

VARIABLES
  queue,      \* measurement_queue
  batch,      \* of the writer
  late,       \* flush_deadline has passed
  failed,     \* the writer's error is set
  rows,       \* rows_written
  writer, main, gps, \* where the threads are
  stopEvent,  \* STOP_EVENT
  exitCode,
  abandoned,  \* receivers whose thread was not waited for to the end
  accepted,   \* history: all measurements put into the queue
  written     \* history: the measurements in the database

writerVars == <<batch, late, failed, rows, writer, written>>
mainVars == <<main, exitCode, abandoned>>
scriptVars == <<queue, writerVars, mainVars, gps, stopEvent, accepted>>

ScriptInit ==
  /\ queue = <<>> /\ batch = <<>> /\ late = FALSE /\ failed = FALSE /\ rows = 0
  /\ writer = "connect" /\ main = "setup" /\ gps = [r \in Receivers |-> "none"]
  /\ stopEvent = FALSE /\ exitCode = 0 /\ abandoned = {}
  /\ accepted = <<>> /\ written = <<>>

Full == Len(queue) >= QueueSize

(* The bound: what has been put and what is about to be. *)
MayRead ==
  Len(accepted) + Cardinality({r \in Receivers : gps[r] = "put"})
    + (IF main = "put" THEN 1 ELSE 0) < MaxItems

Put(source) ==
  /\ ~Full
  /\ queue' = Append(queue, source)
  /\ accepted' = Append(accepted, source)

-----------------------------------------------------------------------------
(* DatabaseWriter.                                                         *)

WriterFails ==
  /\ failed' = TRUE /\ writer' = "close"
  /\ UNCHANGED <<batch, rows, written>>

Connect ==
  /\ writer = "connect"
  /\ \/ writer' = "get" /\ UNCHANGED <<batch, failed, rows, written>>
     \/ WriterFails
  /\ UNCHANGED <<queue, late, mainVars, gps, stopEvent, accepted>>

DeadlinePasses ==
  /\ writer = "get" /\ ~late
  /\ late' = TRUE
  /\ UNCHANGED <<queue, batch, failed, rows, writer, written, mainVars, gps, stopEvent,
                 accepted>>

(* queue.get with the time to the deadline as its timeout. *)
Get ==
  /\ writer = "get" /\ queue # <<>>
  /\ queue' = Tail(queue)
  /\ IF Head(queue) = Stop
     THEN writer' = "last" /\ UNCHANGED batch
     ELSE writer' = "test" /\ batch' = Append(batch, Head(queue))
  /\ UNCHANGED <<late, failed, rows, written, mainVars, gps, stopEvent, accepted>>

GetTimesOut ==
  /\ writer = "get" /\ queue = <<>> /\ late
  /\ writer' = "test"
  /\ UNCHANGED <<queue, batch, late, failed, rows, written, mainVars, gps, stopEvent,
                 accepted>>

MutBatchIsDue == Len(batch) >= BatchSize

BatchIsDue == batch # <<>> /\ (Len(batch) >= BatchSize \/ late)

TestBatch ==
  /\ writer = "test"
  /\ writer' = IF BatchIsDue THEN "insert" ELSE "get"
  /\ UNCHANGED <<queue, batch, late, failed, rows, written, mainVars, gps, stopEvent,
                 accepted>>

(* insert_batch: one transaction, whole or not at all.  Every source has   *)
(* its table, see ReceiversAssumption.                                     *)
MutStored ==
  /\ written' = written \o batch /\ rows' = rows + Len(batch)
  /\ UNCHANGED <<batch, failed>>

Stored ==
  /\ written' = written \o batch /\ rows' = rows + Len(batch)
  /\ batch' = <<>> /\ UNCHANGED failed

Insert ==
  /\ writer = "insert"
  /\ \/ Stored /\ writer' = "get" /\ late' = FALSE
     \/ WriterFails /\ UNCHANGED late
  /\ UNCHANGED <<queue, mainVars, gps, stopEvent, accepted>>

MutInsertLast ==
  /\ writer = "last"
  /\ writer' = "close"
  /\ UNCHANGED <<queue, batch, failed, rows, written, late, mainVars, gps, stopEvent, accepted>>

(* The sentinel: what is left of the batch, then the end. *)
InsertLast ==
  /\ writer = "last"
  /\ \/ Stored /\ writer' = "close"
     \/ batch # <<>> /\ WriterFails
  /\ UNCHANGED <<queue, late, mainVars, gps, stopEvent, accepted>>

Close ==
  /\ writer = "close" /\ writer' = "ended"
  /\ UNCHANGED <<queue, batch, late, failed, rows, written, mainVars, gps, stopEvent,
                 accepted>>

Writer ==
  \/ Connect \/ Get \/ GetTimesOut \/ TestBatch \/ Insert \/ InsertLast \/ Close

-----------------------------------------------------------------------------
(* gps_reader.                                                             *)

GpsGoes(r, next) == gps' = [gps EXCEPT ![r] = next]

(* A serial error, when the port is opened or read, asks all readers to    *)
(* stop.  Nobody tells the main thread.                                    *)
SerialError(r) ==
  /\ gps[r] \in {"open", "read"}
  /\ stopEvent' = TRUE /\ GpsGoes(r, "ended")
  /\ UNCHANGED <<queue, writerVars, mainVars, accepted>>

GpsOpens(r) ==
  /\ gps[r] = "open" /\ GpsGoes(r, "test")
  /\ UNCHANGED <<queue, writerVars, mainVars, stopEvent, accepted>>

GpsTests(r) ==
  /\ gps[r] = "test" /\ GpsGoes(r, IF stopEvent THEN "ended" ELSE "read")
  /\ UNCHANGED <<queue, writerVars, mainVars, stopEvent, accepted>>

(* readline: a sentence, or nothing within its timeout. *)
GpsReads(r) ==
  /\ gps[r] = "read"
  /\ \/ MayRead /\ GpsGoes(r, "put")
     \/ GpsGoes(r, "test")
  /\ UNCHANGED <<queue, writerVars, mainVars, stopEvent, accepted>>

(* put_nowait: on a full queue the exception ends the thread. *)
GpsPuts(r) ==
  /\ gps[r] = "put"
  /\ \/ Put(r) /\ GpsGoes(r, "test")
     \/ Full /\ GpsGoes(r, "ended") /\ UNCHANGED <<queue, accepted>>
  /\ UNCHANGED <<writerVars, mainVars, stopEvent>>

Gps(r) == GpsOpens(r) \/ GpsTests(r) \/ GpsReads(r) \/ GpsPuts(r)

-----------------------------------------------------------------------------
(* main.                                                                   *)

MainGoes(next) == main' = next /\ UNCHANGED <<exitCode, abandoned>>

(* With too few receivers main raises an exception that nothing catches,   *)
(* and nobody stops the writer it has started.                             *)
Setup ==
  /\ main = "setup"
  /\ \/ MainGoes("check") /\ gps' = [r \in Receivers |-> "open"]
     \/ MainGoes("raised") /\ UNCHANGED gps
  /\ UNCHANGED <<queue, writerVars, stopEvent, accepted>>

(* The try block ends with an error, or with a KeyboardInterrupt anywhere. *)
Leaves(code) ==
  /\ main' = "leave" /\ exitCode' = code /\ UNCHANGED abandoned

MutCheckWriter ==
  /\ main = "check" /\ MainGoes("read")
  /\ UNCHANGED <<queue, writerVars, gps, stopEvent, accepted>>

CheckWriter ==
  /\ main = "check"
  /\ IF failed THEN Leaves(1) ELSE MainGoes("read")
  /\ UNCHANGED <<queue, writerVars, gps, stopEvent, accepted>>

(* readline and parse_line: a measurement, nothing of use, or an error. *)
ReadLine ==
  /\ main = "read"
  /\ \/ MayRead /\ MainGoes("put")
     \/ MainGoes("check") \/ Leaves(1)
  /\ UNCHANGED <<queue, writerVars, gps, stopEvent, accepted>>

(* put waits a second for a place. *)
PutMeasurement ==
  /\ main = "put"
  /\ \/ Put(Imu) /\ MainGoes("check")
     \/ Full /\ Leaves(1) /\ UNCHANGED <<queue, accepted>>
  /\ UNCHANGED <<writerVars, gps, stopEvent>>

(* A KeyboardInterrupt.  In the finally block nothing catches it: main ends *)
(* there, and the interpreter still waits for the writer, which is no       *)
(* daemon and may never get its sentinel.                                  *)
Interrupt ==
  /\ \/ main \in {"check", "read", "put"} /\ Leaves(0)
     \/ main \in {"leave", "join", "stopWriter", "joinWriter"} /\ MainGoes("raised")
  /\ UNCHANGED <<queue, writerVars, gps, stopEvent, accepted>>

(* finally: every reader gets two seconds to end, then the sentinel is put *)
(* as often as it takes.                                                   *)
AskToStop ==
  /\ main = "leave" /\ MainGoes("join") /\ stopEvent' = TRUE
  /\ UNCHANGED <<queue, writerVars, gps, accepted>>

Join ==
  /\ main = "join"
  /\ main' = "stopWriter" /\ UNCHANGED exitCode
  /\ abandoned' = {r \in Receivers : gps[r] # "ended"}
  /\ UNCHANGED <<queue, writerVars, gps, stopEvent, accepted>>

MutPutStop ==
  /\ main = "stopWriter"
  /\ ~Full /\ queue' = Append(queue, Stop)
  /\ MainGoes("joinWriter")
  /\ UNCHANGED <<writerVars, gps, stopEvent, accepted>>

PutStop ==
  /\ main = "stopWriter"
  /\ \/ writer = "ended" /\ UNCHANGED queue
     \/ writer # "ended" /\ ~Full /\ queue' = Append(queue, Stop)
     \/ failed /\ Full /\ UNCHANGED queue
  /\ MainGoes("joinWriter")
  /\ UNCHANGED <<writerVars, gps, stopEvent, accepted>>

JoinWriter ==
  /\ main = "joinWriter" /\ writer = "ended"
  /\ main' = "done" /\ UNCHANGED abandoned
  /\ exitCode' = IF failed THEN 1 ELSE exitCode
  /\ UNCHANGED <<queue, writerVars, gps, stopEvent, accepted>>

Leaving == AskToStop \/ Join \/ PutStop \/ JoinWriter
Main == Setup \/ CheckWriter \/ ReadLine \/ PutMeasurement \/ Leaving

-----------------------------------------------------------------------------
(* The readers are daemons: they end with the main thread.                 *)

ScriptNext ==
  \/ Writer \/ DeadlinePasses
  \/ main # "done" /\ \E r \in Receivers : Gps(r) \/ SerialError(r)
  \/ Main \/ Interrupt

ScriptSpec == ScriptInit /\ [][ScriptNext]_scriptVars

(* Threads are scheduled, reads and waits have timeouts. *)
ScriptFairness ==
  /\ WF_scriptVars(Writer) /\ WF_scriptVars(DeadlinePasses) /\ WF_scriptVars(Main)
  /\ \A r \in Receivers : WF_scriptVars(main # "done" /\ Gps(r))

FairScriptSpec == ScriptSpec /\ ScriptFairness

-----------------------------------------------------------------------------
(* Properties.                                                             *)

(* Type correctness. *)
ScriptTypeOK ==
  /\ queue \in Seq(Sources \cup {Stop}) /\ Len(queue) <= QueueSize
  /\ batch \in Seq(Sources) /\ Len(batch) <= BatchSize
  /\ accepted \in Seq(Sources) /\ written \in Seq(Sources) /\ rows \in Nat
  /\ late \in BOOLEAN /\ failed \in BOOLEAN /\ stopEvent \in BOOLEAN
  /\ writer \in {"connect", "get", "test", "insert", "last", "close", "ended"}
  /\ gps \in [Receivers -> {"none", "open", "test", "read", "put", "ended"}]
  /\ main \in {"setup", "raised", "check", "read", "put", "leave", "join", "stopWriter",
               "joinWriter", "done"}
  /\ exitCode \in 0..1 /\ abandoned \subseteq Receivers

(* Measurements reach the database in the order in which they were put,    *)
(* whole batches at a time, and none twice: the script implements the log. *)
Log == INSTANCE RecordLog
         WITH Records <- Sources, settled <- Len(written), stored <- written

ImplementsLog == Log!Spec

(* A recording that ends without an error of the writer has written all    *)
(* that was put, in order, and says how much; what is missing was put      *)
(* behind the sentinel, by a reader that was not waited for to its end     *)
(* (439-457, 578-592).                                                     *)
StopWritesAll ==
  main = "done" /\ ~failed =>
    /\ rows = Len(written)
    /\ written = SubSeq(accepted, 1, Len(written))
    /\ \A i \in Len(written) + 1..Len(accepted) : accepted[i] \in abandoned

(* However the recording ends, with a full queue or a dead writer, main    *)
(* gets to its end, unless it is interrupted a second time on the way.     *)
RecorderStops == (main = "leave") ~> (main \in {"done", "raised"})

(* What was put is written, even when nothing comes after it, unless the   *)
(* writer fails or the measurement came after the sentinel.                *)
MeasurementsReachDisk ==
  \A n \in 1..MaxItems :
    (Len(accepted) >= n) ~> (Len(written) >= n \/ failed \/ writer = "ended")

(* A writer that fails does not go unnoticed: the recording ends, and not  *)
(* as a success.                                                           *)
FailureEndsRecording ==
  failed ~> (main = "raised" \/ (main = "done" /\ exitCode = 1))

=============================================================================
