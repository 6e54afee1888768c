-------------------------- MODULE IMUManagerProofs --------------------------
(***************************************************************************)
(* Proofs about IMUManager, for every bound, with the two threads          *)
(* interleaving freely: type correctness, fresh readings, fixes in order,  *)
(* a time step that never wraps, and a hand-over that only a race spoils.  *)
(***************************************************************************)
EXTENDS IMUManager, SequenceTheorems, TLAPS

(* A stamp written into a fix keeps its type. *)
LEMMA FixTimeUpdate ==
  \A f \in Fix, t \in 0..MaxStamp : [f EXCEPT !.time = t] \in Fix
  BY DEF Fix

(* So does a position written into a fix. *)
LEMMA FixUpdates ==
  ASSUME NEW f \in Fix, NEW n \in 0..MaxFixes
  PROVE  /\ [f EXCEPT !["lat"] = n] \in Fix
         /\ [f EXCEPT !["lon"] = n] \in Fix
  BY DEF Fix

(* A remainder of something smaller than the modulus. *)
LEMMA SmallMod ==
  ASSUME NEW m \in Nat, NEW x \in Int, 0 <= x, x < m
  PROVE  x % m = x
  OBVIOUS

(* The initial state is well typed. *)
LEMMA InitTypeOK == Init => TypeOK
<1> SUFFICES ASSUME Init PROVE TypeOK
  OBVIOUS
<1>1. /\ installed \in BOOLEAN /\ snapSent \in BOOLEAN /\ engaged \in BOOLEAN
      /\ gpsSent \in BOOLEAN /\ raced \in BOOLEAN
      /\ imu \in ImuPcs /\ gps \in GpsPcs
  BY DEF Init, ImuPcs, GpsPcs
<1>2. ready \in [Kinds -> BOOLEAN] /\ unused \in SUBSET Kinds
  BY DEF Init
<1>3. stamp \in [Timed -> Times] /\ clock \in [Timed -> Times]
  BY BoundsAssumption DEF Init, Times
<1>4. lastTime \in Times /\ dt \in 0..Modulus-1 /\ reboots \in 0..MaxReboots
      /\ fixes \in 0..MaxFixes
  BY BoundsAssumption DEF Init, Times
<1>5. snap \in Fix /\ latest \in Fix /\ update \in Fix
  BY BoundsAssumption DEF Init, Fix, NoFix
<1>6. sent \in Seq(Fix)
  BY EmptySeq DEF Init
<1>. QED BY <1>1, <1>2, <1>3, <1>4, <1>5, <1>6 DEF TypeOK

(* A dispatched reading leaves the time step within the unsigned range.    *)
LEMMA TimingTypes ==
  ASSUME TypeOK, PrepareEkfTiming
  PROVE  /\ dt' \in 0..Modulus-1 /\ lastTime' \in Times
         /\ lastTime' = OldestOf(stamp)
<1>1. stamp["acc"] \in Times /\ stamp["rot"] \in Times
  BY DEF TypeOK, Timed
<1>2. OldestOf(stamp) \in Times
  BY <1>1 DEF OldestOf
<1>3. OldestOf(stamp) - lastTime \in Int /\ Modulus \in Nat /\ Modulus > 0
  BY <1>2, BoundsAssumption DEF TypeOK, Times
<1>4. (OldestOf(stamp) - lastTime) % Modulus \in 0..Modulus-1
  BY <1>3
<1>. QED BY <1>2, <1>4 DEF PrepareEkfTiming

(* Storing a reading keeps the types. *)
LEMMA SampleTypeOK ==
  ASSUME TypeOK, Sample
  PROVE  TypeOK'
<1>1. ASSUME NEW k \in Kinds, Store(k)
      PROVE  /\ ready' \in [Kinds -> BOOLEAN] /\ imu' \in ImuPcs
             /\ unused' \in SUBSET Kinds /\ raced' \in BOOLEAN
  BY <1>1 DEF Store, TypeOK, ImuPcs
<1>2. ASSUME NEW k \in Timed, NEW t \in Times, StoreTimed(k, t) PROVE TypeOK'
  <2>1. k \in Kinds
    BY DEF Timed, Kinds
  <2>2. clock' \in [Timed -> Times] /\ stamp' \in [Timed -> Times]
    BY <1>2 DEF StoreTimed, TypeOK
  <2>. QED
    BY <1>1, <1>2, <2>1, <2>2 DEF StoreTimed, Store, TypeOK, gpsVars
<1>3. CASE StoreRate
  <2>1. "rate" \in Kinds
    BY DEF Kinds
  <2>. QED
    BY <1>1, <1>3, <2>1 DEF StoreRate, Store, TypeOK, gpsVars
<1>. QED BY <1>2, <1>3 DEF Sample

(* A dispatch keeps the types. *)
LEMMA DispatchTypeOK ==
  ASSUME TypeOK, Dispatch
  PROVE  TypeOK'
<1> USE DEF gpsVars, boardVars, historyVars
<1>0. latest.time \in 0..MaxStamp /\ latest.lat \in 0..MaxFixes
      /\ latest.lon \in 0..MaxFixes /\ snap \in Fix
  BY DEF TypeOK, Fix
<1>1. CASE CopyTime
  <2>1. snap' \in Fix
    BY <1>0, <1>1, FixTimeUpdate DEF CopyTime
  <2>. QED BY <1>1, <2>1 DEF CopyTime, TypeOK, ImuPcs
<1>2. CASE CopyLat \/ CopyLon
  <2>1. snap' \in Fix
    BY <1>0, <1>2, FixUpdates DEF CopyLat, CopyLon, CopyPosition, Fix
  <2>. QED BY <1>2, <2>1 DEF CopyLat, CopyLon, CopyPosition, TypeOK, ImuPcs
<1>3. CASE CopyFlag
  BY <1>3 DEF CopyFlag, TypeOK, ImuPcs
<1>4. CASE Build
  <2>1. dt' \in 0..Modulus-1 /\ lastTime' \in Times
    BY <1>4, TimingTypes DEF Build
  <2>. QED BY <1>4, <2>1 DEF Build, TypeOK, ImuPcs
<1>5. CASE BuildThrows
  BY <1>5 DEF BuildThrows, TypeOK, ImuPcs
<1>6. CASE CallWithGps
  <2>1. sent' \in Seq(Fix)
    BY <1>6, AppendProperties DEF CallWithGps, TypeOK
  <2>. QED BY <1>6, <2>1 DEF CallWithGps, Called, TypeOK, ImuPcs
<1>7. ResetImuReadyFlags => ready' \in [Kinds -> BOOLEAN]
  BY DEF ResetImuReadyFlags, TypeOK
<1>8. CASE MarkSent
  BY <1>7, <1>8 DEF MarkSent, TypeOK, ImuPcs
<1>9. CASE CallImuOnly
  BY <1>7, <1>9 DEF CallImuOnly, Called, TypeOK, ImuPcs
<1>. QED
  BY <1>1, <1>2, <1>3, <1>4, <1>5, <1>6, <1>8, <1>9 DEF Dispatch

(* An update keeps the types. *)
LEMMA UpdateTypeOK ==
  ASSUME TypeOK, (\E c \in Calls : BeginUpdate(c)) \/ GpsStep
  PROVE  TypeOK'
<1> USE DEF imuVars, boardVars, historyVars
<1>1. ASSUME NEW c \in Calls, BeginUpdate(c) PROVE TypeOK'
  <2>1. c.time \in 0..MaxStamp /\ fixes' \in 0..MaxFixes
    BY <1>1, BoundsAssumption DEF Calls, BeginUpdate, TypeOK
  <2>2. update' \in Fix
    BY <1>1, <2>1 DEF BeginUpdate, Fix
  <2>3. latest' \in Fix
    BY <1>1, <2>1, <2>2, FixTimeUpdate DEF BeginUpdate, TypeOK
  <2>. QED BY <1>1, <2>1, <2>2, <2>3 DEF BeginUpdate, Race, TypeOK, GpsPcs
<1>2. CASE WriteLat \/ WriteLon
  <2>1. latest' \in Fix
    BY <1>2, FixUpdates DEF WriteLat, WriteLon, WritePosition, TypeOK, Fix
  <2>. QED
    BY <1>2, <2>1 DEF WriteLat, WriteLon, WritePosition, Race, TypeOK, GpsPcs
<1>3. CASE ClearSent
  BY <1>3 DEF ClearSent, Race, TypeOK, GpsPcs
<1>. QED BY <1>1, <1>2, <1>3 DEF GpsStep

(* Type correctness of IMUManager (IMUManager.cpp): in particular the      *)
(* unsigned time step stays within its range across board restarts.        *)
THEOREM TypeCorrect == Spec => []TypeOK
<1>1. TypeOK /\ [Next]_vars => TypeOK'
  <2> SUFFICES ASSUME TypeOK, [Next]_vars PROVE TypeOK'
    OBVIOUS
  <2>1. CASE InstallEkf
    BY <2>1 DEF InstallEkf, TypeOK, imuVars, gpsVars, boardVars, historyVars
  <2>2. CASE Reboot
    <3>1. clock' \in [Timed -> Times] /\ reboots' \in 0..MaxReboots
      BY <2>2, BoundsAssumption DEF Reboot, TypeOK, Times
    <3>. QED BY <2>2, <3>1 DEF Reboot, TypeOK, imuVars, gpsVars, historyVars
  <2>3. CASE UNCHANGED vars
    BY <2>3 DEF vars, TypeOK, imuVars, gpsVars, boardVars, historyVars
  <2>. QED
    BY <2>1, <2>2, <2>3, SampleTypeOK, DispatchTypeOK, UpdateTypeOK DEF Next
<1>. QED BY <1>1, InitTypeOK, PTL DEF Spec

-----------------------------------------------------------------------------
(* The time step.                                                          *)

(* Before the first restart the stored stamps are the board's clocks, which *)
(* only grow, and the last dispatch used nothing newer.                    *)
Monotone ==
  reboots = 0 =>
    /\ \A k \in Timed : stamp[k] = clock[k] /\ lastTime <= stamp[k]
    /\ dt <= MaxTime

(* Every step keeps the clocks monotone. *)
LEMMA MonotoneStep ==
  ASSUME TypeOK, Monotone, [Next]_vars
  PROVE  Monotone'
<1> USE DEF Monotone, imuVars, gpsVars, boardVars, historyVars
<1>1. ASSUME NEW k \in Timed, NEW t \in Times, StoreTimed(k, t) PROVE Monotone'
  <2>1. /\ UNCHANGED <<reboots, lastTime, dt>> /\ t >= clock[k]
        /\ clock' = [clock EXCEPT ![k] = t] /\ stamp' = [stamp EXCEPT ![k] = t]
    BY <1>1 DEF StoreTimed, Store
  <2>. QED BY <2>1 DEF TypeOK, Times
<1>2. CASE StoreRate
  BY <1>2 DEF StoreRate, Store
<1>3. CASE Build
  <2>1. lastTime' = OldestOf(stamp) /\ UNCHANGED <<reboots, stamp, clock>>
    BY <1>3, TimingTypes DEF Build
  <2>2. ASSUME reboots = 0
        PROVE  dt' <= MaxTime /\ \A k \in Timed : lastTime' <= stamp[k]
    <3>1. /\ stamp["acc"] \in Times /\ stamp["rot"] \in Times
          /\ lastTime <= stamp["acc"] /\ lastTime <= stamp["rot"]
      BY <2>2 DEF TypeOK, Timed
    <3>2. /\ OldestOf(stamp) \in Times
          /\ OldestOf(stamp) <= stamp["acc"] /\ OldestOf(stamp) <= stamp["rot"]
          /\ OldestOf(stamp) - lastTime \in 0..MaxTime
      BY <3>1, BoundsAssumption DEF OldestOf, TypeOK, Times
    <3>3. \A x \in 0..MaxTime : x % Modulus = x
      BY SmallMod, BoundsAssumption
    <3>4. dt' \in 0..MaxTime
      BY <1>3, <3>2, <3>3 DEF Build, PrepareEkfTiming
    <3>. QED BY <2>1, <3>2, <3>4, BoundsAssumption DEF Timed
  <2>. QED BY <2>1, <2>2
<1>4. CASE Reboot
  BY <1>4 DEF Reboot, TypeOK
<1>5. CASE InstallEkf
  BY <1>5 DEF InstallEkf
<1>6. CASE CopyTime \/ CopyLat \/ CopyLon \/ CopyFlag
  BY <1>6 DEF CopyTime, CopyLat, CopyLon, CopyPosition, CopyFlag
<1>7. CASE BuildThrows \/ CallWithGps \/ MarkSent \/ CallImuOnly
  BY <1>7 DEF BuildThrows, CallWithGps, MarkSent, CallImuOnly
<1>8. CASE (\E c \in Calls : BeginUpdate(c)) \/ GpsStep
  BY <1>8 DEF BeginUpdate, GpsStep, WriteLat, WriteLon, WritePosition, ClearSent
<1>9. CASE UNCHANGED vars
  BY <1>9 DEF vars
<1>. QED
  BY <1>1, <1>2, <1>3, <1>4, <1>5, <1>6, <1>7, <1>8, <1>9 DEF Next, Sample, Dispatch

(* Before the first restart of the board the unsigned time step of         *)
(* PrepareEkfTiming (127-143) never wraps.                                 *)
THEOREM NoWrap == Spec => []DtNeverWraps
<1>1. Init => Monotone
  BY BoundsAssumption DEF Init, Monotone
<1>2. TypeOK /\ Monotone /\ [Next]_vars => Monotone'
  BY MonotoneStep
<1>3. Monotone => DtNeverWraps
  BY DEF Monotone, DtNeverWraps
<1>. QED BY <1>1, <1>2, <1>3, TypeCorrect, PTL DEF Spec

-----------------------------------------------------------------------------
(* What the EKF is called with.                                            *)

(* A ready flag means an unused reading: the flags and the history agree   *)
(* whenever a dispatch may begin, and no dispatch begins without them.     *)
Fresh ==
  /\ imu # "mark" => \A k \in Timed : ready[k] => k \in unused
  /\ imu \in {"copyTime", "copyLat", "copyLon", "copyFlag", "build", "call"}
       => \A k \in Timed : ready[k]

(* Every step keeps the flags honest. *)
LEMMA FreshStep ==
  ASSUME TypeOK, Fresh, [Next]_vars
  PROVE  Fresh'
<1> USE DEF Fresh, imuVars, gpsVars, boardVars, historyVars
<1>1. ASSUME NEW k \in Kinds, Store(k) PROVE Fresh'
  BY <1>1 DEF Store, ReadyForEkf, TypeOK, Timed, Kinds
<1>2. CASE Sample
  BY <1>1, <1>2 DEF Sample, StoreTimed, StoreRate, Timed, Kinds
<1>3. CASE CopyTime \/ CopyLat \/ CopyLon \/ CopyFlag
  BY <1>3 DEF CopyTime, CopyLat, CopyLon, CopyPosition, CopyFlag
<1>4. CASE Build \/ BuildThrows \/ CallWithGps
  BY <1>4 DEF Build, BuildThrows, CallWithGps, Called
<1>5. ResetImuReadyFlags => \A k \in Timed : ~ready'[k]
  BY DEF ResetImuReadyFlags, TypeOK, Timed, Kinds
<1>6. CASE MarkSent \/ CallImuOnly
  BY <1>5, <1>6 DEF MarkSent, CallImuOnly
<1>7. CASE InstallEkf \/ Reboot
  BY <1>7 DEF InstallEkf, Reboot
<1>8. CASE (\E c \in Calls : BeginUpdate(c)) \/ GpsStep
  BY <1>8 DEF BeginUpdate, GpsStep, WriteLat, WriteLon, WritePosition, ClearSent
<1>9. CASE UNCHANGED vars
  BY <1>9 DEF vars
<1>. QED
  BY <1>2, <1>3, <1>4, <1>6, <1>7, <1>8, <1>9 DEF Next, Dispatch

(* Every EKF call is made with an acceleration and a rotation vector that  *)
(* no earlier call has used (SensorCallback 62-79, ResetImuReadyFlags).    *)
THEOREM FreshReadings == Spec => []CallsUseFreshReadings
<1>1. Init => Fresh
  BY DEF Init, Fresh, Timed, Kinds
<1>2. TypeOK /\ Fresh /\ [Next]_vars => Fresh'
  BY FreshStep
<1>3. Fresh => CallsUseFreshReadings
  BY DEF Fresh, CallsUseFreshReadings
<1>. QED BY <1>1, <1>2, <1>3, TypeCorrect, PTL DEF Spec

(* The stamps grow from the fixes sent, over the fix being copied, to the  *)
(* fix stored; nothing is stamped before there is a fix.                   *)
Ordered ==
  /\ FixesInOrder
  /\ snap.time <= latest.time
  /\ \A i \in 1..Len(sent) : sent[i].time <= latest.time
  /\ imu \in {"copyLat", "copyLon", "copyFlag", "build", "call"}
       => \A i \in 1..Len(sent) : sent[i].time <= snap.time
  /\ ~engaged => latest.time = 0

(* The stamps of the fixes sent are numbers. *)
LEMMA SentTimes ==
  ASSUME TypeOK
  PROVE  \A i \in 1..Len(sent) : sent[i].time \in Nat
<1>1. \A i \in 1..Len(sent) : sent[i] \in Fix
  BY ElementOfSeq DEF TypeOK
<1>. QED BY <1>1 DEF Fix

(* A step that sends nothing keeps the order if the stored stamp does not  *)
(* decrease and the copy keeps its stamp, or nothing has been copied yet.  *)
LEMMA OrderedFrame ==
  ASSUME TypeOK, TypeOK', Ordered, UNCHANGED sent,
         latest'.time >= latest.time, ~engaged' => ~engaged /\ UNCHANGED latest,
         \/ /\ snap'.time = snap.time
            /\ \/ imu' \in {"idle", "copyTime", "mark"}
               \/ imu \in {"copyLat", "copyLon", "copyFlag", "build", "call"}
         \/ snap'.time = latest.time
  PROVE  Ordered'
<1>1. /\ snap.time \in Nat /\ latest.time \in Nat
      /\ snap'.time \in Nat /\ latest'.time \in Nat
  BY DEF TypeOK, Fix
<1>2. \A i \in 1..Len(sent) : sent[i].time \in Nat
  BY SentTimes
<1>3. FixesInOrder'
  BY DEF Ordered, FixesInOrder
<1>4. snap'.time <= latest'.time
  BY <1>1 DEF Ordered
<1>5. \A i \in 1..Len(sent') : sent'[i].time <= latest'.time
  BY <1>1, <1>2 DEF Ordered
<1>6. ASSUME imu' \in {"copyLat", "copyLon", "copyFlag", "build", "call"}, NEW i \in 1..Len(sent')
      PROVE  sent'[i].time <= snap'.time
  <2>1. imu \in {"copyLat", "copyLon", "copyFlag", "build", "call"} => sent[i].time <= snap.time
    BY DEF Ordered
  <2>2. sent[i].time <= latest.time /\ sent[i].time \in Nat /\ sent'[i] = sent[i]
    BY <1>2 DEF Ordered
  <2>3. \/ snap'.time = snap.time /\ imu \in {"copyLat", "copyLon", "copyFlag", "build", "call"}
        \/ snap'.time = latest.time
    BY <1>6
  <2>. QED BY <2>1, <2>2, <2>3
<1>7. ~engaged' => latest'.time = 0
  BY DEF Ordered
<1>. QED BY <1>3, <1>4, <1>5, <1>6, <1>7 DEF Ordered

(* Every step keeps the order. *)
LEMMA OrderedStep ==
  ASSUME TypeOK, TypeOK', Ordered, [Next]_vars
  PROVE  Ordered'
<1> USE DEF imuVars, gpsVars, boardVars, historyVars
<1>0. snap \in Fix /\ latest \in Fix /\ latest.time \in Nat /\ snap.time \in Nat
  BY DEF TypeOK, Fix
<1>1. CASE Sample
  BY <1>0, <1>1, OrderedFrame DEF Sample, StoreTimed, StoreRate, Store
<1>2. CASE CopyTime
  <2>1. snap'.time = snap.time \/ snap'.time = latest.time
    BY <1>0, <1>2 DEF CopyTime, Fix
  <2>2. imu' = "idle" => snap'.time = snap.time
    BY <1>2 DEF CopyTime
  <2>3. imu' # "idle" => snap'.time = latest.time
    BY <1>0, <1>2 DEF CopyTime, Fix
  <2>. QED BY <1>0, <1>2, <2>2, <2>3, OrderedFrame DEF CopyTime
<1>3. CASE CopyLat \/ CopyLon
  <2>1. snap'.time = snap.time
    BY <1>0, <1>3 DEF CopyLat, CopyLon, CopyPosition, Fix
  <2>. QED BY <1>0, <1>3, <2>1, OrderedFrame DEF CopyLat, CopyLon, CopyPosition
<1>4. CASE CopyFlag \/ Build \/ BuildThrows \/ MarkSent \/ CallImuOnly
  BY <1>0, <1>4, OrderedFrame DEF CopyFlag, Build, BuildThrows, MarkSent, CallImuOnly
<1>5. CASE CallWithGps
  <2>1. /\ Len(sent) \in Nat /\ Len(sent') = Len(sent) + 1
        /\ \A i \in 1..Len(sent) : sent'[i] = sent[i]
        /\ sent'[Len(sent) + 1] = snap
    BY <1>5, AppendProperties, LenProperties DEF CallWithGps, TypeOK
  <2>2. imu = "call" /\ imu' = "mark" /\ UNCHANGED <<snap, latest, engaged>>
    BY <1>5 DEF CallWithGps
  <2>3. \A i \in 1..Len(sent') : sent'[i].time <= snap.time
    BY <1>0, <2>1, <2>2 DEF Ordered
  <2>4. FixesInOrder'
    <3> SUFFICES ASSUME NEW i \in 1..Len(sent'), NEW j \in 1..Len(sent'), i < j
                 PROVE  sent'[i].time <= sent'[j].time
      BY DEF FixesInOrder
    <3>1. CASE j = Len(sent) + 1
      BY <3>1, <2>1, <2>3
    <3>2. CASE j \in 1..Len(sent)
      BY <3>2, <2>1 DEF Ordered, FixesInOrder
    <3>. QED BY <3>1, <3>2, <2>1
  <2>5. \A i \in 1..Len(sent') : sent'[i].time <= latest'.time
    <3>1. \A i \in 1..Len(sent') : sent'[i].time \in Nat
      <4>1. \A i \in 1..Len(sent') : sent'[i] = snap \/ i \in 1..Len(sent)
        BY <2>1
      <4>. QED BY <4>1, <2>1, <1>0, SentTimes
    <3>. QED BY <1>0, <2>2, <2>3, <3>1 DEF Ordered
  <2>. QED BY <1>0, <2>2, <2>4, <2>5 DEF Ordered
<1>6. CASE InstallEkf \/ Reboot
  BY <1>6 DEF InstallEkf, Reboot, Ordered, FixesInOrder
<1>7. ASSUME NEW c \in Calls, BeginUpdate(c) PROVE Ordered'
  <2>1. c.time \in Nat /\ c.time >= 1
    BY DEF Calls
  <2>2. latest'.time = c.time
    BY <1>0, <1>7 DEF BeginUpdate, Fix
  <2>3. latest'.time >= latest.time
    BY <1>0, <1>7, <2>1, <2>2 DEF BeginUpdate, Accepts, Ordered
  <2>. QED BY <1>7, <2>3, OrderedFrame DEF BeginUpdate, TypeOK, ImuPcs
<1>8. CASE WriteLat \/ WriteLon
  <2>1. latest'.time = latest.time /\ UNCHANGED <<snap, imu, sent, engaged>>
    BY <1>0, <1>8 DEF WriteLat, WriteLon, WritePosition, Fix
  <2>. QED BY <1>0, <2>1 DEF Ordered, FixesInOrder
<1>9. CASE ClearSent
  BY <1>0, <1>9 DEF ClearSent, Ordered, FixesInOrder
<1>10. CASE UNCHANGED vars
  BY <1>10 DEF vars, Ordered, FixesInOrder
<1>. QED
  BY <1>1, <1>2, <1>3, <1>4, <1>5, <1>6, <1>7, <1>8, <1>9, <1>10
     DEF Next, Dispatch, GpsStep

(* However UpdateLatestGps and DispatchToEkf interleave, the EKF is never  *)
(* handed a fix stamped earlier than one it was handed before.             *)
THEOREM OrderedFixes == Spec => []FixesInOrder
<1>1. Init => Ordered
  <2>1. Init => sent = <<>> /\ snap.time = 0 /\ latest.time = 0 /\ imu = "idle"
    BY DEF Init, NoFix
  <2>. QED BY <2>1, EmptySeq DEF Ordered, FixesInOrder
<1>2. TypeOK /\ TypeOK' /\ Ordered /\ [Next]_vars => Ordered'
  BY OrderedStep
<1>3. Ordered => FixesInOrder
  BY DEF Ordered
<1>. QED BY <1>1, <1>2, <1>3, TypeCorrect, PTL DEF Spec

-----------------------------------------------------------------------------
(* The hand-over of a fix while no update has overlapped a dispatch.       *)

Copying == {"copyLat", "copyLon", "copyFlag", "build", "call", "mark"}

(* One thread is at work at a time; the stored fix and the copy are whole  *)
(* but for what has still to be written; the fixes sent are whole, and     *)
(* older than the one being stored; the flag, and the copy of it, tell     *)
(* whether the newest fix has been sent.                                   *)
Exact ==
  /\ gps = "idle" \/ imu = "idle"
  /\ update.lat = fixes /\ update.lon = fixes
  /\ gps \in {"idle", "clear"} => latest.lat = fixes /\ latest.lon = fixes
  /\ gps = "lon" => latest.lat = fixes
  /\ \A i \in 1..Len(sent) :
       Whole(sent[i]) /\ sent[i].lat <= fixes /\ (gps # "idle" => sent[i].lat < fixes)
  /\ \A i, j \in 1..Len(sent) : i # j => sent[i].lat # sent[j].lat
  /\ imu \in Copying => engaged
  /\ imu \in Copying \ {"copyLat"} => snap.lat = fixes
  /\ imu \in Copying \ {"copyLat", "copyLon"} => snap.lon = fixes
  /\ imu \in {"build", "call"} => (snapSent <=> Delivered(fixes))
  /\ engaged /\ gps = "idle" /\ imu # "mark" => (gpsSent <=> Delivered(fixes))
  /\ imu = "mark" => Delivered(fixes)

(* The fixes sent carry numbers. *)
LEMMA SentNumbers ==
  ASSUME TypeOK
  PROVE  /\ \A i \in 1..Len(sent) : sent[i].lat \in Nat /\ sent[i].lon \in Nat
         /\ Len(sent) \in Nat /\ fixes \in Nat
<1>1. \A i \in 1..Len(sent) : sent[i] \in Fix
  BY ElementOfSeq DEF TypeOK
<1>2. Len(sent) \in Nat
  BY LenProperties DEF TypeOK
<1>3. \A f \in Fix : f.lat \in Nat /\ f.lon \in Nat
  BY DEF Fix
<1>4. fixes \in Nat
  BY BoundsAssumption DEF TypeOK
<1>. QED BY <1>1, <1>2, <1>3, <1>4

(* A dispatch that begins finds no update under way. *)
LEMMA ExactSample ==
  ASSUME TypeOK, Exact, Sample, ~raced'
  PROVE  Exact'
<1>1. UNCHANGED <<snap, snapSent, engaged, latest, gps, update, fixes, gpsSent, sent>>
      /\ imu = "idle" /\ imu' \in {"idle", "copyTime"} /\ (gps = "idle" \/ imu' = "idle")
  BY DEF Sample, StoreTimed, StoreRate, Store, gpsVars
<1>. QED BY <1>1 DEF Exact, Delivered, Whole, Copying

(* The copy, the call and the flag, with the stored fix at rest. *)
LEMMA ExactDispatch ==
  ASSUME TypeOK, Exact, Dispatch
  PROVE  Exact'
<1> USE DEF gpsVars, boardVars, historyVars
<1>0. /\ snap \in Fix /\ latest \in Fix /\ gps = "idle" /\ gps' = "idle"
      /\ UNCHANGED <<engaged, latest, gps, update, fixes>>
  <2>1. imu # "idle" /\ UNCHANGED <<engaged, latest, gps, update, fixes>>
    BY DEF Dispatch, CopyTime, CopyLat, CopyLon, CopyPosition, CopyFlag, Build, BuildThrows,
           CallWithGps, MarkSent, CallImuOnly
  <2>. QED BY <2>1 DEF TypeOK, Exact
<1>1. CASE CopyTime
  BY <1>0, <1>1 DEF CopyTime, Exact, Delivered, Copying
<1>2. CASE CopyLat
  <2>1. snap'.lat = fixes /\ imu' = "copyLon" /\ engaged /\ UNCHANGED <<gpsSent, sent>>
    BY <1>0, <1>2 DEF CopyLat, CopyPosition, Exact, Fix, Copying
  <2>. QED BY <1>0, <1>2, <2>1 DEF CopyLat, CopyPosition, Exact, Delivered, Copying
<1>3. CASE CopyLon
  <2>1. snap'.lat = fixes /\ snap'.lon = fixes /\ imu' = "copyFlag" /\ engaged /\ UNCHANGED <<gpsSent, sent>>
    BY <1>0, <1>3 DEF CopyLon, CopyPosition, Exact, Fix, Copying
  <2>. QED BY <1>0, <1>3, <2>1 DEF CopyLon, CopyPosition, Exact, Delivered, Copying
<1>4. CASE CopyFlag \/ Build \/ BuildThrows
  BY <1>0, <1>4 DEF CopyFlag, Build, BuildThrows, Exact, Delivered, Copying
<1>5. CASE CallWithGps
  <2>1. /\ Len(sent) \in Nat /\ Len(sent') = Len(sent) + 1
        /\ \A i \in 1..Len(sent) : sent'[i] = sent[i]
        /\ sent'[Len(sent) + 1] = snap
    BY <1>5, AppendProperties, LenProperties DEF CallWithGps, TypeOK
  <2>2. \A i \in 1..Len(sent') : i \in 1..Len(sent) \/ i = Len(sent) + 1
    BY <2>1
  <2>3. /\ imu = "call" /\ imu' = "mark" /\ ~snapSent /\ UNCHANGED <<snap, gpsSent>>
        /\ engaged /\ snap.lat = fixes /\ snap.lon = fixes
    BY <1>0, <1>5 DEF CallWithGps, Exact, Copying
  <2>4. \A i \in 1..Len(sent) : sent[i].lat # snap.lat
    BY <2>3 DEF Exact, Delivered
  <2>5. /\ \A i \in 1..Len(sent') : Whole(sent'[i]) /\ sent'[i].lat <= fixes'
        /\ \A i, j \in 1..Len(sent') : i # j => sent'[i].lat # sent'[j].lat
    <3>1. \A i \in 1..Len(sent) : Whole(sent[i]) /\ sent[i].lat <= fixes
      BY DEF Exact
    <3>2. Whole(snap) /\ snap.lat <= fixes /\ fixes' = fixes
      BY <1>0, <1>5, <2>3, SentNumbers DEF CallWithGps, Whole
    <3>3. \A i, j \in 1..Len(sent) : i # j => sent[i].lat # sent[j].lat
      BY DEF Exact
    <3>. QED BY ONLY <2>1, <2>2, <2>4, <3>1, <3>2, <3>3
  <2>6. Delivered(fixes)'
    BY <1>0, <2>1, <2>3 DEF Delivered
  <2>. QED BY <1>0, <2>3, <2>5, <2>6 DEF Exact, Copying
<1>6. CASE MarkSent
  BY <1>0, <1>6 DEF MarkSent, Exact, Delivered, Copying
<1>7. CASE CallImuOnly
  BY <1>0, <1>7 DEF CallImuOnly, Exact, Delivered, Copying
<1>. QED BY <1>1, <1>2, <1>3, <1>4, <1>5, <1>6, <1>7 DEF Dispatch

(* The new fix, written field by field while nobody copies. *)
LEMMA ExactUpdate ==
  ASSUME TypeOK, Exact, (\E c \in Calls : BeginUpdate(c)) \/ GpsStep, ~raced'
  PROVE  Exact'
<1> USE DEF imuVars, boardVars, historyVars
<1>0. /\ latest \in Fix /\ update \in Fix /\ imu = "idle" /\ UNCHANGED <<imu, snap, snapSent, sent>>
      /\ fixes \in Nat
  <2>1. Race /\ UNCHANGED <<imu, snap, snapSent, sent>>
    BY DEF BeginUpdate, GpsStep, WriteLat, WriteLon, WritePosition, ClearSent
  <2>2. imu = "idle"
    BY <2>1 DEF Race
  <2>. QED BY <2>1, <2>2, SentNumbers DEF TypeOK
<1>1. ASSUME NEW c \in Calls, BeginUpdate(c) PROVE Exact'
  <2>1. /\ fixes' = fixes + 1 /\ update'.lat = fixes' /\ update'.lon = fixes'
        /\ UNCHANGED gpsSent /\ gps = "idle" /\ gps' \in {"lat", "clear"}
    BY <1>1 DEF BeginUpdate
  <2>2. gps' = "clear" => latest'.lat = fixes' /\ latest'.lon = fixes'
    BY <1>1, <2>1 DEF BeginUpdate
  <2>3. \A i \in 1..Len(sent) : Whole(sent[i]) /\ sent[i].lat < fixes'
    BY <1>0, <2>1, SentNumbers DEF Exact
  <2>. QED BY <1>0, <2>1, <2>2, <2>3, SentNumbers DEF Exact, Copying
<1>2. CASE WriteLat
  <2>1. latest'.lat = fixes /\ gps = "lat" /\ gps' = "lon" /\ UNCHANGED <<update, fixes>>
    BY <1>0, <1>2 DEF WriteLat, WritePosition, Exact, Fix
  <2>. QED BY <1>0, <2>1 DEF Exact, Whole, Copying
<1>3. CASE WriteLon
  <2>1. latest'.lon = fixes /\ latest'.lat = fixes /\ gps = "lon" /\ gps' = "clear" /\ UNCHANGED <<update, fixes>>
    BY <1>0, <1>3 DEF WriteLon, WritePosition, Exact, Fix
  <2>. QED BY <1>0, <2>1 DEF Exact, Whole, Copying
<1>4. CASE ClearSent
  <2>1. gps = "clear" /\ gps' = "idle" /\ ~gpsSent' /\ UNCHANGED <<update, fixes, latest, engaged>>
    BY <1>4 DEF ClearSent
  <2>2. ~Delivered(fixes)'
    BY <1>0, <2>1, SentNumbers DEF Exact, Delivered
  <2>. QED BY <1>0, <2>1, <2>2 DEF Exact, Whole, Copying
<1>. QED BY <1>1, <1>2, <1>3, <1>4 DEF GpsStep

(* Once an update has overlapped a dispatch nothing more is claimed. *)
LEMMA RacedStays == ASSUME [Next]_vars, raced PROVE raced'
  BY DEF Next, vars, InstallEkf, Reboot, Sample, StoreTimed, StoreRate, Store, Dispatch, CopyTime,
         CopyLat, CopyLon, CopyPosition, CopyFlag, Build, BuildThrows, CallWithGps, MarkSent,
         CallImuOnly, BeginUpdate, GpsStep, WriteLat, WriteLon, WritePosition, ClearSent, Race

LEMMA ExactStep ==
  ASSUME TypeOK, ~raced => Exact, [Next]_vars, ~raced'
  PROVE  Exact'
<1>1. Exact
  BY RacedStays
<1>2. CASE InstallEkf \/ Reboot \/ UNCHANGED vars
  <2>1. UNCHANGED <<imu, snap, snapSent, engaged, latest, gps, update, fixes, gpsSent, sent>>
    BY <1>2 DEF InstallEkf, Reboot, vars, imuVars, gpsVars, historyVars
  <2>. QED BY <1>1, <2>1 DEF Exact, Delivered, Whole, Copying
<1>. QED BY <1>1, <1>2, ExactSample, ExactDispatch, ExactUpdate DEF Next

(* The hand-over of fixes is correct but for the missing lock: as long as  *)
(* no UpdateLatestGps has overlapped a DispatchToEkf, each fix reaches the *)
(* EKF whole and at most once, and m_gpsSentToEkf tells whether the stored *)
(* one has (58-59, 88-113).                                                *)
THEOREM ExactHandOver == Spec => []ExactUnlessRaced
<1>1. Init => Exact
  <2>1. Init => /\ sent = <<>> /\ snap.lat = 0 /\ update.lat = 0 /\ update.lon = 0 /\ latest.lat = 0
                /\ latest.lon = 0 /\ imu = "idle" /\ gps = "idle" /\ ~engaged /\ fixes = 0
    BY DEF Init, NoFix
  <2>. QED BY <2>1, EmptySeq DEF Exact, Copying
<1>2. TypeOK /\ (~raced => Exact) /\ [Next]_vars => (~raced => Exact)'
  BY ExactStep
<1>3. (~raced => Exact) => ExactUnlessRaced
  BY DEF Exact, ExactUnlessRaced
<1>. QED BY <1>1, <1>2, <1>3, TypeCorrect, PTL DEF Spec

=============================================================================
