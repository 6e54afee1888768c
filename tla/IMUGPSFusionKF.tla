---------------------------- MODULE IMUGPSFusionKF ----------------------------
(***************************************************************************)
(* The adaptive part of IMUGPSFusionKF_2D_ConstantAcceleration (src/src/   *)
(* IMUGPSFusionKF.cpp): every step pushes the residual of each sensor it   *)
(* used into that sensor's window of the last N residuals, and every L     *)
(* pushes into a full window the measurement noise is computed anew from   *)
(* the whole window.                                                       *)
(*                                                                         *)
(* A residual is the number of the step it comes from, a noise matrix the  *)
(* residuals it was computed from (none: the initial R0), a covariance the *)
(* step it belongs to and whether it is the prior or the posterior one.    *)
(***************************************************************************)
EXTENDS Integers, Sequences

CONSTANTS
  Depths,    \* values of N_GPS and N_IMU, from config.yaml
  Periods,   \* values of L_GPS and L_IMU, from config.yaml
  MaxSteps   \* bound: steps since the filter was constructed

ASSUME FilterAssumption ==
  Depths \subseteq Nat /\ Periods \subseteq Nat /\ MaxSteps \in Nat

Sensors == {"gps", "imu"}

VARIABLES
  depth,     \* m_N_GPS, m_N_IMU
  period,    \* m_L_GPS, m_L_IMU
  since,     \* m_l_GPS, m_l_IMU
  queue,     \* m_innovationQueue_GPS, m_innovationQueue_IMU
  noise,     \* m_R_GPS, m_R_IMU
  steps,     \* steps since the filter was constructed
  returned,  \* the covariance the last step returned
  pushed     \* history: the residuals of each sensor since then

windows == <<depth, period, since, queue, noise, pushed>>
vars == <<windows, steps, returned>>

Covariances == [step : 0..MaxSteps, is : {"prior", "posterior"}]

(* A default-constructed filter is not used before ConfigureKalmanFilter.  *)
Init ==
  /\ depth \in [Sensors -> Depths] /\ period \in [Sensors -> Periods]
  /\ since = [s \in Sensors |-> 0]
  /\ queue = [s \in Sensors |-> <<>>] /\ noise = [s \in Sensors |-> <<>>]
  /\ steps = 0 /\ returned = [step |-> 0, is |-> "posterior"]
  /\ pushed = [s \in Sensors |-> <<>>]

-----------------------------------------------------------------------------

Full(s) == Len(queue[s]) >= depth[s]
Due(s) == Full(s) /\ since[s] >= period[s]

(* A full window drops its oldest residual.                                *)
Slide(s, r) ==
  IF Full(s) THEN Append(Tail(queue[s]), r) ELSE Append(queue[s], r)

MutCounted(s) == IF Due(s) THEN 0 ELSE since[s] + 1

(* The counter restarts at one.                                            *)
Counted(s) == IF Due(s) THEN 1 ELSE since[s] + 1

(* PushInnovationGPS and PushInnovationIMU, on the windows of the sensors  *)
(* used.  A window of depth zero is left alone; the counter moves only     *)
(* while the window is full.                                               *)
PushInnovation(used, r) ==
  LET pushes == {s \in used : depth[s] # 0}
      due == {s \in pushes : Due(s)}
  IN  /\ queue' = [s \in Sensors |-> IF s \in pushes THEN Slide(s, r) ELSE queue[s]]
      /\ noise' = [s \in Sensors |-> IF s \in due THEN queue'[s] ELSE noise[s]]
      /\ since' = [s \in Sensors |->
                     IF s \in pushes /\ Full(s) THEN Counted(s) ELSE since[s]]
      /\ pushed' = [s \in Sensors |->
                      IF s \in used THEN Append(pushed[s], r) ELSE pushed[s]]
      /\ UNCHANGED <<depth, period>>

Step(used, covariance) ==
  /\ steps < MaxSteps
  /\ steps' = steps + 1
  /\ PushInnovation(used, steps')
  /\ returned' = [step |-> steps', is |-> covariance]

(* Step(dt, z_IMU) returns the prior covariance, Step(dt, z_GPS, z_IMU)    *)
(* the posterior one.                                                      *)
StepImu == Step({"imu"}, "prior")
StepGpsImu == Step(Sensors, "posterior")

MutClean ==
  /\ depth' = [s \in Sensors |-> 0] /\ period' = [s \in Sensors |-> 0]
  /\ since' = [s \in Sensors |-> 0]
  /\ noise' = [s \in Sensors |-> <<>>]
  /\ pushed' = [s \in Sensors |-> <<>>]
  /\ UNCHANGED <<steps, returned, queue>>

(* Clean, after which every window has depth zero.                         *)
Clean ==
  /\ depth' = [s \in Sensors |-> 0] /\ period' = [s \in Sensors |-> 0]
  /\ since' = [s \in Sensors |-> 0]
  /\ queue' = [s \in Sensors |-> <<>>] /\ noise' = [s \in Sensors |-> <<>>]
  /\ pushed' = [s \in Sensors |-> <<>>]
  /\ UNCHANGED <<steps, returned>>

(* ConfigureKalmanFilter assigns a newly constructed filter.               *)
Construct(n, l) ==
  /\ depth' = n /\ period' = l
  /\ since' = [s \in Sensors |-> 0]
  /\ queue' = [s \in Sensors |-> <<>>] /\ noise' = [s \in Sensors |-> <<>>]
  /\ steps' = 0 /\ pushed' = [s \in Sensors |-> <<>>]
  /\ UNCHANGED returned

Next ==
  \/ StepImu \/ StepGpsImu \/ Clean
  \/ \E n \in [Sensors -> Depths], l \in [Sensors -> Periods] : Construct(n, l)

Spec == Init /\ [][Next]_vars

-----------------------------------------------------------------------------
(* Properties.                                                             *)

(* Type correctness; no window is longer than its depth.                   *)
TypeOK ==
  /\ depth \in [Sensors -> Depths \cup {0}] /\ period \in [Sensors -> Periods \cup {0}]
  /\ since \in [Sensors -> 0..MaxSteps]
  /\ queue \in [Sensors -> Seq(1..MaxSteps)] /\ noise \in [Sensors -> Seq(1..MaxSteps)]
  /\ pushed \in [Sensors -> Seq(1..MaxSteps)]
  /\ \A s \in Sensors : Len(queue[s]) <= depth[s]
  /\ steps \in 0..MaxSteps /\ returned \in Covariances

(* The last n entries of a sequence, or all it has.                        *)
LastOf(q, n) == IF Len(q) <= n THEN q ELSE SubSeq(q, Len(q) - n + 1, Len(q))

(* However GPS and IMU-only steps alternate, a window holds the sensor's   *)
(* last N residuals, in order and none twice (378-384, 420-425).           *)
WindowIsRecent ==
  \A s \in Sensors : queue[s] = LastOf(pushed[s], depth[s])

(* Pushes into a full window, and the one of them that last recomputed the *)
(* noise: the one after the first L, then every L-th.                      *)
FullPushes(s) == Len(pushed[s]) - depth[s]
LastDue(s) ==
  IF period[s] = 0 THEN FullPushes(s)
  ELSE ((FullPushes(s) - 1) \div period[s]) * period[s] + 1

(* The noise is the initial one until L + 1 residuals have been pushed     *)
(* into a full window, and then that of the N residuals which were the     *)
(* last at the latest update, L pushes apart (386-409, 427-449).           *)
NoiseIsOfItsWindow ==
  \A s \in Sensors :
    noise[s] = IF depth[s] = 0 \/ FullPushes(s) <= period[s] THEN <<>>
               ELSE SubSeq(pushed[s], LastDue(s) + 1, LastDue(s) + depth[s])

(* As documented for both Step functions (IMUGPSFusionKF.hpp 51 and 63,    *)
(* "{x(k|k), P(k|k)}"): the covariance returned is the posterior one.      *)
StepReturnsPosterior == returned.is = "posterior"

=============================================================================
