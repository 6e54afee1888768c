------------------------------ MODULE IMUManager ------------------------------
(***************************************************************************)
(* IMUManager (src/src/IMUManager.cpp) between its two threads.  The IMU   *)
(* serial thread calls SensorCallback; when an acceleration, a rotation    *)
(* vector and a rotation rate are there it dispatches them to the EKF with *)
(* the latest GPS fix.  The GPS polling thread calls UpdateLatestGps.      *)
(*                                                                         *)
(* DispatchToEkf copies the fix and the sent flag under m_gpsMutex;        *)
(* UpdateLatestGps writes both without it, so the mutex excludes nobody    *)
(* and the copy and the write interleave field by field.  A fix is reduced *)
(* to its timestamp and to latitude and longitude, which carry the number  *)
(* of the fix they come from: a copy is torn when they differ.             *)
(***************************************************************************)
EXTENDS Integers, Sequences

CONSTANTS
  MaxFixes,    \* bound: fixes the GPS thread hands over
  MaxStamp,    \* bound: wall-clock stamps of the fixes, 1..MaxStamp
  MaxTime,     \* bound: the sensor clock saturates here
  MaxReboots,  \* bound: restarts of the sensor board, which reset its clock
  Modulus      \* 2^w, the range of the unsigned hardware timestamps

ASSUME BoundsAssumption ==
  /\ MaxFixes \in Nat /\ MaxStamp \in Nat /\ MaxTime \in Nat /\ MaxReboots \in Nat
  /\ Modulus \in Nat /\ MaxTime < Modulus

Kinds == {"acc", "rot", "rate"}   \* the three readings of SensorCallback
Timed == {"acc", "rot"}           \* those PrepareEkfTiming looks at
Times == 0..MaxTime

VARIABLES
  installed,   \* m_ekfInstalled
  ready,       \* m_imu...Ready, per kind
  stamp,       \* timestamps of m_imuLinearAcceleration, m_imuRotationVector
  lastTime,    \* m_lastEKFMachineTime
  imu,         \* pc of the IMU thread inside DispatchToEkf
  snap,        \* gpsUpdateSnapshot
  snapSent,    \* gpsSentToEkfSnapshot
  dt,          \* dtSeconds, in ticks; 0 stands for the 0.01 s default
  engaged,     \* m_latestGps.has_value()
  latest,      \* m_latestGps
  gpsSent,     \* m_gpsSentToEkf
  gps,         \* pc of the GPS thread inside UpdateLatestGps
  update,      \* the fix it was called with
  clock,       \* the sensor board: last timestamp sent, per kind
  reboots,     \* its restarts
  fixes,       \* fixes handed over so far
  sent,        \* history: the fixes passed to ekfCallbackWithGps
  unused,      \* history: kinds stored since the last EKF call
  raced        \* history: an update and a dispatch have overlapped

imuVars == <<ready, stamp, lastTime, imu, snap, snapSent, dt>>
gpsVars == <<engaged, latest, gps, update, fixes>>
boardVars == <<clock, reboots>>
historyVars == <<sent, unused>>
vars == <<installed, imuVars, gpsVars, gpsSent, boardVars, historyVars, raced>>

Fix == [time : 0..MaxStamp, lat : 0..MaxFixes, lon : 0..MaxFixes]
NoFix == [time |-> 0, lat |-> 0, lon |-> 0]

ImuPcs == {"idle", "copyTime", "copyLat", "copyLon", "copyFlag", "build", "call", "mark"}
GpsPcs == {"idle", "lat", "lon", "clear"}

Init ==
  /\ installed = FALSE
  /\ ready = [k \in Kinds |-> FALSE] /\ stamp = [k \in Timed |-> 0]
  /\ lastTime = 0 /\ dt = 0
  /\ imu = "idle" /\ snap = NoFix /\ snapSent = FALSE
  /\ engaged = FALSE /\ latest = NoFix /\ gpsSent = FALSE
  /\ gps = "idle" /\ update = NoFix /\ fixes = 0
  /\ clock = [k \in Timed |-> 0] /\ reboots = 0
  /\ sent = <<>> /\ unused = {} /\ raced = FALSE

InstallEkf ==
  /\ ~installed
  /\ installed' = TRUE
  /\ UNCHANGED <<imuVars, gpsVars, gpsSent, boardVars, historyVars, raced>>

-----------------------------------------------------------------------------
(* The sensor board: a timestamp per kind that never decreases, until the  *)
(* board restarts.                                                         *)

Reboot ==
  /\ reboots < MaxReboots
  /\ reboots' = reboots + 1
  /\ clock' = [k \in Timed |-> 0]
  /\ UNCHANGED <<installed, imuVars, gpsVars, gpsSent, historyVars, raced>>

-----------------------------------------------------------------------------
(* The IMU thread.                                                         *)

ReadyForEkf(isReady) == installed /\ \A k \in Kinds : isReady[k]

(* SensorCallback up to the dispatch: StoreImuValue and ReadyForEkf.       *)
Store(k) ==
  /\ imu = "idle"
  /\ ready' = [ready EXCEPT ![k] = TRUE]
  /\ imu' = IF ReadyForEkf(ready') THEN "copyTime" ELSE "idle"
  /\ unused' = unused \cup {k}
  /\ raced' = (raced \/ (imu' # "idle" /\ gps # "idle"))
  /\ UNCHANGED <<installed, lastTime, snap, snapSent, dt, gpsVars, gpsSent,
                 reboots, sent>>

StoreTimed(k, t) ==
  /\ Store(k)
  /\ t >= clock[k]
  /\ clock' = [clock EXCEPT ![k] = t]
  /\ stamp' = [stamp EXCEPT ![k] = t]

StoreRate ==
  /\ Store("rate")
  /\ UNCHANGED <<clock, stamp>>

(* The copy of m_latestGps and m_gpsSentToEkf (88-92), one field at a time. *)
CopyTime ==
  /\ imu = "copyTime"
  /\ IF engaged
     THEN imu' = "copyLat" /\ snap' = [snap EXCEPT !.time = latest.time]
     ELSE imu' = "idle" /\ UNCHANGED snap     \* throws: no GPS data ever recorded
  /\ UNCHANGED <<installed, ready, stamp, lastTime, snapSent, dt, gpsVars,
                 gpsSent, boardVars, historyVars, raced>>

CopyPosition(field, here, next) ==
  /\ imu = here /\ imu' = next
  /\ snap' = [snap EXCEPT ![field] = latest[field]]
  /\ UNCHANGED <<installed, ready, stamp, lastTime, snapSent, dt, gpsVars,
                 gpsSent, boardVars, historyVars, raced>>

CopyLat == CopyPosition("lat", "copyLat", "copyLon")
CopyLon == CopyPosition("lon", "copyLon", "copyFlag")

CopyFlag ==
  /\ imu = "copyFlag" /\ imu' = "build"
  /\ snapSent' = gpsSent
  /\ UNCHANGED <<installed, ready, stamp, lastTime, snap, dt, gpsVars,
                 gpsSent, boardVars, historyVars, raced>>

OldestOf(s) == IF s["acc"] <= s["rot"] THEN s["acc"] ELSE s["rot"]
NewestOf(s) == IF s["acc"] <= s["rot"] THEN s["rot"] ELSE s["acc"]

MutPrepareEkfTiming ==
  /\ dt' = (OldestOf(stamp) - lastTime) % Modulus
  /\ lastTime' = NewestOf(stamp)

(* Unsigned subtraction; a result of zero is replaced by the default.      *)
PrepareEkfTiming ==
  /\ dt' = (OldestOf(stamp) - lastTime) % Modulus
  /\ lastTime' = OldestOf(stamp)

(* BuildImuMeasurementVector, then PrepareEkfTiming.                       *)
Build ==
  /\ imu = "build" /\ imu' = "call"
  /\ PrepareEkfTiming
  /\ UNCHANGED <<installed, ready, stamp, snap, snapSent, gpsVars, gpsSent,
                 boardVars, historyVars, raced>>

(* The quaternion has no length, or the declination model rejects the fix. *)
BuildThrows ==
  /\ imu = "build" /\ imu' = "idle"
  /\ UNCHANGED <<installed, ready, stamp, lastTime, snap, snapSent, dt, gpsVars,
                 gpsSent, boardVars, historyVars, raced>>

MutResetImuReadyFlags ==
  ready' = [ready EXCEPT !["rot"] = FALSE]

(* The rate flag stays set: ResetImuReadyFlags clears the other two.       *)
ResetImuReadyFlags ==
  ready' = [ready EXCEPT !["rot"] = FALSE, !["acc"] = FALSE]

Called == unused' = {}

CallWithGps ==
  /\ imu = "call" /\ ~snapSent
  /\ imu' = "mark"
  /\ sent' = Append(sent, snap)
  /\ Called
  /\ UNCHANGED <<installed, ready, stamp, lastTime, snap, snapSent, dt, gpsVars,
                 gpsSent, boardVars, raced>>

MutMarkSent ==
  /\ imu = "mark" /\ imu' = "idle"
  /\ ResetImuReadyFlags
  /\ UNCHANGED <<installed, stamp, lastTime, snap, snapSent, dt, gpsVars, gpsSent,
                 boardVars, historyVars, raced>>

MarkSent ==
  /\ imu = "mark" /\ imu' = "idle"
  /\ gpsSent' = TRUE
  /\ ResetImuReadyFlags
  /\ UNCHANGED <<installed, stamp, lastTime, snap, snapSent, dt, gpsVars,
                 boardVars, historyVars, raced>>

CallImuOnly ==
  /\ imu = "call" /\ snapSent
  /\ imu' = "idle"
  /\ ResetImuReadyFlags
  /\ Called
  /\ UNCHANGED <<installed, stamp, lastTime, snap, snapSent, dt, gpsVars, gpsSent,
                 boardVars, sent, raced>>

-----------------------------------------------------------------------------
(* The GPS thread: UpdateLatestGps.                                        *)

Race == raced' = (raced \/ imu # "idle")

(* A call of UpdateLatestGps: validity flag, seconds since the fix was      *)
(* received, and its wall-clock stamp.                                     *)
StaleTimeout == 5
Calls == [valid : BOOLEAN, age : {StaleTimeout, StaleTimeout + 1}, time : 1..MaxStamp]

MutAccepts(c) == c.valid /\ c.age <= StaleTimeout

(* The three early returns: any other call changes nothing.                *)
Accepts(c) ==
  /\ c.valid /\ c.age <= StaleTimeout
  /\ engaged => c.time > latest.time

(* The first fix becomes visible as a whole, when has_value() does; a later *)
(* one overwrites the stored fields in the order of GpsUpdate::operator=.  *)
BeginUpdate(c) ==
  /\ gps = "idle" /\ fixes < MaxFixes
  /\ Accepts(c)
  /\ fixes' = fixes + 1
  /\ update' = [time |-> c.time, lat |-> fixes', lon |-> fixes']
  /\ engaged' = TRUE
  /\ IF engaged
     THEN latest' = [latest EXCEPT !.time = c.time] /\ gps' = "lat"
     ELSE latest' = update' /\ gps' = "clear"
  /\ Race
  /\ UNCHANGED <<installed, imuVars, gpsSent, boardVars, historyVars>>

WritePosition(field, here, next) ==
  /\ gps = here /\ gps' = next
  /\ latest' = [latest EXCEPT ![field] = update[field]]
  /\ Race
  /\ UNCHANGED <<installed, imuVars, engaged, update, fixes, gpsSent, boardVars,
                 historyVars>>

WriteLat == WritePosition("lat", "lat", "lon")
WriteLon == WritePosition("lon", "lon", "clear")

MutClearSent ==
  /\ gps = "clear" /\ gps' = "idle"
  /\ Race
  /\ UNCHANGED <<installed, imuVars, engaged, latest, update, fixes, gpsSent,
                 boardVars, historyVars>>

ClearSent ==
  /\ gps = "clear" /\ gps' = "idle"
  /\ gpsSent' = FALSE
  /\ Race
  /\ UNCHANGED <<installed, imuVars, engaged, latest, update, fixes, boardVars,
                 historyVars>>

-----------------------------------------------------------------------------

Sample ==
  \/ \E k \in Timed, t \in Times : StoreTimed(k, t)
  \/ StoreRate

Dispatch ==
  \/ CopyTime \/ CopyLat \/ CopyLon \/ CopyFlag
  \/ Build \/ BuildThrows \/ CallWithGps \/ MarkSent \/ CallImuOnly

GpsStep == WriteLat \/ WriteLon \/ ClearSent

Next ==
  \/ InstallEkf \/ Reboot
  \/ Sample \/ Dispatch
  \/ \E c \in Calls : BeginUpdate(c)
  \/ GpsStep

Spec == Init /\ [][Next]_vars

(* Both threads are scheduled, the EKF is installed (main.cpp does so      *)
(* before it starts the IMU reader), every kind of reading keeps arriving  *)
(* and not all of them are unusable.                                       *)
Fairness ==
  /\ WF_vars(InstallEkf)
  /\ WF_vars(Dispatch) /\ WF_vars(GpsStep) /\ SF_vars(Build)
  /\ SF_vars(StoreRate)
  /\ \A k \in Timed : SF_vars(\E t \in Times : StoreTimed(k, t))

FairSpec == Spec /\ Fairness

-----------------------------------------------------------------------------
(* Properties.                                                             *)

(* Type correctness; the sent history has one entry per flag cleared.      *)
TypeOK ==
  /\ installed \in BOOLEAN
  /\ ready \in [Kinds -> BOOLEAN] /\ stamp \in [Timed -> Times]
  /\ lastTime \in Times /\ dt \in 0..Modulus-1
  /\ imu \in ImuPcs /\ snap \in Fix /\ snapSent \in BOOLEAN
  /\ engaged \in BOOLEAN /\ latest \in Fix /\ gpsSent \in BOOLEAN
  /\ gps \in GpsPcs /\ update \in Fix /\ fixes \in 0..MaxFixes
  /\ clock \in [Timed -> Times] /\ reboots \in 0..MaxReboots
  /\ sent \in Seq(Fix) /\ unused \in SUBSET Kinds
  /\ raced \in BOOLEAN

(* Every EKF call is made with an acceleration and a rotation vector that  *)
(* no earlier call has used (ReadyForEkf, ResetImuReadyFlags 145-148).     *)
CallsUseFreshReadings == imu = "call" => Timed \subseteq unused

(* However the two threads interleave, the EKF is never handed a fix       *)
(* stamped earlier than one it was handed before (54).                     *)
FixesInOrder ==
  \A i, j \in 1..Len(sent) : i < j => sent[i].time <= sent[j].time

(* While the sensor clock has not restarted, the unsigned difference of    *)
(* PrepareEkfTiming (135) never wraps: the oldest reading of a dispatch is *)
(* no older than that of the dispatch before.                              *)
DtNeverWraps == reboots = 0 => dt <= MaxTime

Whole(f) == f.lat = f.lon
Delivered(n) == \E i \in 1..Len(sent) : sent[i].lat = n

(* As long as no update has overlapped a dispatch, each fix reaches the    *)
(* EKF whole and once, and the flag tells whether the stored one has:      *)
(* the fix hand-over is correct but for the missing lock (58-59, 88-113).  *)
ExactUnlessRaced ==
  ~raced =>
    /\ \A i \in 1..Len(sent) : Whole(sent[i])
    /\ \A i, j \in 1..Len(sent) : i # j => sent[i].lat # sent[j].lat
    /\ gps = "idle" /\ imu = "idle" /\ engaged => (gpsSent <=> Delivered(latest.lat))

(* A fix stored while readings keep coming is handed to the EKF, or a      *)
(* newer one is, unless an update has overlapped a dispatch.               *)
FixReachesEkf ==
  \A n \in 1..MaxFixes :
    (engaged /\ latest.lat = n)
      ~> (raced \/ \E i \in 1..Len(sent) : sent[i].lat >= n)

(* As documented for m_gpsSentToEkf (IMUManager.hpp 225, "Flag indicating  *)
(* latestGps is sent to ekf"): a set flag means the stored fix was sent.   *)
SentFlagMeansSent ==
  (imu = "idle" /\ gps = "idle" /\ gpsSent) => Delivered(latest.lat)

=============================================================================
