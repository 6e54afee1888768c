------------------- MODULE RadarPositionNavigationController -------------------
(***************************************************************************)
(* RadarPositionNavigationController (src/src/                             *)
(* RadarPositionNavigationController.cpp) with the SerialComService of its *)
(* IMU reader.  The main thread starts, stops and destroys the tracking;   *)
(* the serial thread runs the Kalman filter callbacks on every dispatched  *)
(* set of readings.                                                        *)
(*                                                                         *)
(* An estimate is reduced to the run it belongs to and to what it is: the  *)
(* zero matrix, finite, or not finite.  The Kalman filter is reduced to    *)
(* the estimate it was last started from.                                  *)
(***************************************************************************)
EXTENDS SerialComService

ASSUME ReaderAssumption == CatchesErrors

VARIABLES
  call,        \* the public operation the main thread is in, "none" between
  stage,       \* its progress: in StopRadarPNT, or after it
  configured,  \* m_isKFConfigured
  tracking,    \* m_running
  mutex,       \* holder of m_kFUpdateMutex
  ekf,         \* pc of the serial thread inside a KF callback
  latest,      \* m_latestX, m_latestP
  kf,          \* m_kf
  recorded,    \* history: the last estimate enqueued for the database
  last         \* history: the last public operation to return

mainVars == <<call, stage, tracking, last>>
filterVars == <<configured, mutex, ekf, latest, kf, recorded>>
vars == <<serviceVars, mainVars, filterVars>>

Zero == [run |-> 0, is |-> "zero"]
Estimates == [run : 0..MaxStarts, is : {"zero", "finite", "nonfinite"}]
Finite(r) == [run |-> r, is |-> "finite"]
NonFinite(r) == [run |-> r, is |-> "nonfinite"]

Init ==
  /\ ServiceInit
  /\ call = "none" /\ stage = "stop" /\ last = "none"
  /\ configured = FALSE /\ tracking = FALSE
  /\ mutex = "free" /\ ekf = "idle"
  /\ latest = Zero /\ kf = Zero /\ recorded = Zero

(* The number of the run under way, or, before Start, of the next one.     *)
NextRun == starts + 1

-----------------------------------------------------------------------------
(* The main thread.                                                        *)

(* StartAndConfigureRadarPNT, StopRadarPNT and TotalDestruction: each      *)
(* begins with the steps of StopRadarPNT.                                  *)
Call(operation) ==
  /\ call = "none"
  /\ operation = "start" => starts < MaxStarts
  /\ call' = operation /\ stage' = "stop"
  /\ UNCHANGED <<serviceVars, tracking, last, filterVars>>

MutStopReader ==
  /\ call # "none" /\ stage = "stop"
  /\ stage' = "clear"
  /\ UNCHANGED <<serviceVars, call, tracking, last, filterVars>>

StopReader ==
  /\ call # "none" /\ stage = "stop"
  /\ RequestStop
  /\ stage' = "join"
  /\ UNCHANGED <<call, tracking, last, filterVars>>

(* A reader that was not running has nothing to join.                      *)
JoinReader ==
  /\ stage = "join"
  /\ IF owner = "join" THEN Join ELSE UNCHANGED serviceVars
  /\ stage' = "clear"
  /\ UNCHANGED <<call, tracking, last, filterVars>>

MutClearFlags ==
  /\ stage = "clear"
  /\ tracking' = FALSE
  /\ stage' = "after"
  /\ UNCHANGED <<serviceVars, call, last, filterVars>>

ClearFlags ==
  /\ stage = "clear"
  /\ configured' = FALSE /\ tracking' = FALSE
  /\ stage' = "after"
  /\ UNCHANGED <<serviceVars, call, last, mutex, ekf, latest, kf, recorded>>

Returned ==
  /\ call' = "none" /\ stage' = "stop"
  /\ last' = call

Stopped ==
  /\ call = "stop" /\ stage = "after"
  /\ Returned
  /\ UNCHANGED <<serviceVars, tracking, filterVars>>

(* ConfigureKalmanFilter overwrites the latest estimate before it looks at *)
(* the percentiles, and the filter after it.                               *)
Configure(estimate) == latest' = estimate /\ kf' = estimate

(* The filter is configured only if it is not; then the reader starts.     *)
Begin ==
  /\ call = "start" /\ stage = "after"
  /\ IF configured THEN UNCHANGED <<latest, kf>> ELSE Configure(Finite(NextRun))
  /\ configured' = TRUE
  /\ Start
  /\ tracking' = TRUE
  /\ Returned
  /\ UNCHANGED <<mutex, ekf, recorded>>

(* A percentile out of bounds: the exception leaves the operation.         *)
BadPercentile ==
  /\ call = "start" /\ stage = "after" /\ ~configured
  /\ latest' = Finite(NextRun)
  /\ Returned
  /\ UNCHANGED <<serviceVars, tracking, configured, mutex, ekf, kf, recorded>>

Clean ==
  /\ call = "destroy" /\ stage = "after" /\ mutex = "free"
  /\ kf' = Zero /\ latest' = Zero /\ configured' = FALSE
  /\ Returned
  /\ UNCHANGED <<serviceVars, tracking, mutex, ekf, recorded>>

-----------------------------------------------------------------------------
(* The serial thread: readings that complete a set reach a KF callback.    *)

InHandler == thread = "handle" /\ ekf = "idle"

(* A part of a message, a message that is ignored or completes no set, or  *)
(* a callback that finds the filter disabled.                              *)
NoDispatch ==
  /\ ekf = "idle"
  /\ ReadOn \/ Return
  /\ UNCHANGED <<mainVars, filterVars>>

(* Either callback, when Step and EnqueueEkfOutput return; Step does not   *)
(* check that its result is finite.                                        *)
StepSucceeds ==
  /\ InHandler /\ mutex = "free" /\ configured
  /\ \E e \in {Finite(starts), NonFinite(starts)} :
       latest' = e /\ recorded' = e
  /\ Return
  /\ UNCHANGED <<mainVars, configured, mutex, ekf, kf>>

(* An exception, before or after the latest estimate is replaced.  With a  *)
(* finite position the filter will be reconfigured: the IMU-only callback  *)
(* keeps the mutex until then, the other gives it back.                    *)
Thrown(e) == latest' = e

StepThrows ==
  /\ InHandler /\ mutex = "free" /\ configured
  /\ \E e \in {latest, Finite(starts)} : e.is = "finite" /\ Thrown(e)
  /\ ekf' = "reconfigure"
  /\ mutex' \in {"free", "imu"}
  /\ UNCHANGED <<serviceVars, mainVars, configured, kf, recorded>>

(* Without one the filter is disabled, and only a new start enables it.    *)
StepThrowsNonFinite ==
  /\ InHandler /\ mutex = "free" /\ configured
  /\ \E e \in {latest, NonFinite(starts)} : e.is = "nonfinite" /\ Thrown(e)
  /\ configured' = FALSE
  /\ Return
  /\ UNCHANGED <<mainVars, mutex, ekf, kf, recorded>>

Reconfigure ==
  /\ ekf = "reconfigure"
  /\ Configure(latest)
  /\ ekf' = "idle" /\ mutex' = "free"
  /\ Return
  /\ UNCHANGED <<mainVars, configured, recorded>>

ReaderStep ==
  /\ TestRunning \/ ReadReturns \/ ReadThrows \/ ClosePort \/ Unplug
  /\ UNCHANGED <<mainVars, filterVars>>

-----------------------------------------------------------------------------

Operations == {"start", "stop", "destroy"}

Main ==
  \/ \E operation \in Operations : Call(operation)
  \/ StopReader \/ JoinReader \/ ClearFlags
  \/ Stopped \/ Begin \/ BadPercentile \/ Clean

Reader ==
  \/ ReaderStep \/ NoDispatch
  \/ StepSucceeds \/ StepThrows \/ StepThrowsNonFinite \/ Reconfigure

Next == Main \/ Reader

Spec == Init /\ [][Next]_vars

(* An operation that has been called goes on, the serial thread is          *)
(* scheduled, and what it waits for on the line arrives, or the read fails. *)
Waiting == ReadReturns /\ UNCHANGED <<mainVars, filterVars>>
Working ==
  \/ (TestRunning \/ ReadThrows \/ ClosePort) /\ UNCHANGED <<mainVars, filterVars>>
  \/ NoDispatch \/ StepSucceeds \/ StepThrows \/ StepThrowsNonFinite \/ Reconfigure

Fairness ==
  /\ WF_vars(StopReader \/ JoinReader \/ ClearFlags \/ Stopped \/ Begin \/ BadPercentile \/ Clean)
  /\ WF_vars(Working) /\ WF_vars(Waiting)

FairSpec == Spec /\ Fairness

-----------------------------------------------------------------------------
(* Properties.                                                             *)

(* Type correctness.                                                       *)
TypeOK ==
  /\ ServiceTypeOK
  /\ call \in Operations \cup {"none"} /\ stage \in {"stop", "join", "clear", "after"}
  /\ last \in Operations \cup {"none"}
  /\ configured \in BOOLEAN /\ tracking \in BOOLEAN
  /\ mutex \in {"free", "imu"} /\ ekf \in {"idle", "reconfigure"}
  /\ latest \in Estimates /\ kf \in Estimates /\ recorded \in Estimates

(* The main thread touches the filter (ConfigureKalmanFilter, Clean) and   *)
(* the latest estimate only while no serial thread exists: the mutex is    *)
(* not what protects them, a reconfiguration after a GPS step runs without *)
(* it (243-250).                                                           *)
FilterUsedByOneThread ==
  call # "none" /\ stage = "after" => thread = "none" /\ ekf = "idle"

(* The filter is never started from a position that is not finite,         *)
(* although Step hands on and records whatever it computes (169, 180).     *)
StartedFromFinite == kf.is # "nonfinite"

(* While a run is under way, the estimate and the filter are of that run:  *)
(* nothing of an earlier one is left for its callbacks (37-48).            *)
EstimateOfThisRun ==
  thread \notin {"none", "ended"} => latest.run = starts /\ kf.run = starts

(* After TotalDestruction nothing of the estimate or the filter is left,   *)
(* however the callbacks interleaved with it (257-267).                    *)
DestroyedIsClean ==
  call = "none" /\ last = "destroy" => latest = Zero /\ kf = Zero /\ ~configured /\ ~tracking

(* Start, stop and destruction return while the line delivers or fails,    *)
(* although they wait for a thread inside a blocking read and for the      *)
(* mutex of the filter, which a step that has thrown may have kept         *)
(* (SerialComService.cpp 48-57; 61, 192, 259).                             *)
OperationsReturn == call # "none" ~> call = "none"

=============================================================================
