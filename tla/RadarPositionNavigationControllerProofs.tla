---------------- MODULE RadarPositionNavigationControllerProofs ----------------
(***************************************************************************)
(* Proofs about RadarPositionNavigationController: one thread at a time    *)
(* uses the filter, every run starts from a finite position of its own,    *)
(* and destruction leaves nothing behind, for any number of restarts.      *)
(***************************************************************************)
EXTENDS RadarPositionNavigationController, SerialComServiceProofs

(* The IMU reader's callback catches what it throws. *)
Alive == ~terminated

LEMMA AliveAlways == Spec => []Alive
<1>1. Init => Alive
  BY DEF Init, ServiceInit, Alive
<1>2. Alive /\ [Next]_vars => Alive'
  BY ReaderAssumption
     DEF Alive, Next, Main, Reader, Call, StopReader, JoinReader, ClearFlags, Stopped,
         Begin, BadPercentile, Clean, ReaderStep, NoDispatch, StepSucceeds, StepThrows,
         StepThrowsNonFinite, Reconfigure, Start, RequestStop, Join, TestRunning,
         ReadReturns, ReadThrows, ReadOn, Return, ClosePort, Unplug, serviceVars, vars
<1>. QED BY <1>1, <1>2, PTL DEF Spec

LEMMA StepUsesService == Alive /\ [Next]_vars => [ServiceNext]_serviceVars
<1> SUFFICES ASSUME Alive, [Next]_vars PROVE [ServiceNext]_serviceVars
  OBVIOUS
<1>1. CASE Main
  BY <1>1 DEF Alive, Main, Call, StopReader, JoinReader, ClearFlags, Stopped, Begin,
              BadPercentile, Clean, ServiceNext
<1>2. CASE Reader
  BY <1>2 DEF Alive, Reader, ReaderStep, NoDispatch, StepSucceeds, StepThrows,
              StepThrowsNonFinite, Reconfigure, ServiceNext, ThreadStep
<1>3. CASE UNCHANGED vars
  BY <1>3 DEF vars
<1>. QED BY <1>1, <1>2, <1>3 DEF Next

(* Every behaviour of the controller is one of its reader's service.       *)
THEOREM ControllerUsesService == Spec => ServiceSpec
<1>1. Init => ServiceInit
  BY DEF Init
<1>. QED BY <1>1, StepUsesService, AliveAlways, PTL DEF Spec, ServiceSpec

LEMMA ServiceHere == Spec => []ServiceInv
  BY ControllerUsesService, ServiceInvAlways, PTL

-----------------------------------------------------------------------------
(* Type correctness.                                                       *)

LEMMA EstimateTypes ==
  /\ Zero \in Estimates
  /\ \A r \in 0..MaxStarts : Finite(r) \in Estimates /\ NonFinite(r) \in Estimates
<1>1. 0 \in 0..MaxStarts
  BY Bounds
<1>. QED BY <1>1 DEF Zero, Finite, NonFinite, Estimates

MainTypeOK ==
  /\ call \in Operations \cup {"none"} /\ stage \in {"stop", "join", "clear", "after"}
  /\ last \in Operations \cup {"none"} /\ tracking \in BOOLEAN
  /\ call = "start" => starts < MaxStarts

FilterTypeOK ==
  /\ configured \in BOOLEAN
  /\ mutex \in {"free", "imu"} /\ ekf \in {"idle", "reconfigure"}
  /\ latest \in Estimates /\ kf \in Estimates /\ recorded \in Estimates

LEMMA InitTypes == Init => MainTypeOK /\ FilterTypeOK
  BY EstimateTypes DEF Init, MainTypeOK, FilterTypeOK, Operations

LEMMA StepTypes ==
  ServiceInv /\ MainTypeOK /\ FilterTypeOK /\ [Next]_vars => MainTypeOK' /\ FilterTypeOK'
<1> SUFFICES ASSUME ServiceInv, MainTypeOK, FilterTypeOK, [Next]_vars
             PROVE  MainTypeOK' /\ FilterTypeOK'
  OBVIOUS
<1>0. starts \in 0..MaxStarts /\ Finite(starts) \in Estimates /\ NonFinite(starts) \in Estimates
  BY EstimateTypes DEF ServiceInv, ServiceTypeOK
<1>1. ASSUME NEW operation \in Operations, Call(operation)
      PROVE  MainTypeOK' /\ FilterTypeOK'
  BY <1>1 DEF Call, MainTypeOK, FilterTypeOK, filterVars, serviceVars
<1>2. CASE StopReader \/ JoinReader
  BY <1>2 DEF StopReader, JoinReader, RequestStop, Join, MainTypeOK, FilterTypeOK,
              filterVars, serviceVars
<1>3. CASE ClearFlags
  BY <1>3 DEF ClearFlags, MainTypeOK, FilterTypeOK, serviceVars
<1>4. CASE Stopped
  BY <1>4 DEF Stopped, Returned, MainTypeOK, FilterTypeOK, filterVars
<1>5. CASE Begin
  <2>1. Finite(NextRun) \in Estimates
    <3>1. starts + 1 \in 0..MaxStarts
      BY <1>0, <1>5, Bounds DEF Begin, Start
    <3>. QED BY <3>1, EstimateTypes DEF NextRun
  <2>2. latest' \in Estimates /\ kf' \in Estimates
    BY <1>5, <2>1 DEF Begin, Configure, FilterTypeOK
  <2>. QED BY <1>5, <2>2 DEF Begin, Returned, MainTypeOK, FilterTypeOK
<1>6. CASE BadPercentile
  <2>1. starts + 1 \in 0..MaxStarts
    BY <1>0, <1>6, Bounds DEF BadPercentile, MainTypeOK
  <2>2. latest' \in Estimates
    BY <1>6, <2>1, EstimateTypes DEF BadPercentile, NextRun
  <2>. QED BY <1>6, <2>2 DEF BadPercentile, Returned, MainTypeOK, FilterTypeOK
<1>7. CASE Clean
  BY <1>7, EstimateTypes DEF Clean, Returned, MainTypeOK, FilterTypeOK
<1>8. CASE ReaderStep \/ NoDispatch
  <2>1. starts' = starts
    BY <1>8 DEF ReaderStep, NoDispatch, TestRunning, ReadReturns, ReadThrows, ClosePort,
                Unplug, ReadOn, Return
  <2>. QED
    BY <1>8, <2>1 DEF ReaderStep, NoDispatch, MainTypeOK, FilterTypeOK, mainVars, filterVars
<1>9. CASE StepSucceeds
  BY <1>0, <1>9 DEF StepSucceeds, Return, MainTypeOK, FilterTypeOK, mainVars
<1>10. CASE StepThrows
  BY <1>0, <1>10 DEF StepThrows, Thrown, MainTypeOK, FilterTypeOK, mainVars,
                      serviceVars
<1>11. CASE StepThrowsNonFinite
  BY <1>0, <1>11 DEF StepThrowsNonFinite, Return, Thrown, MainTypeOK, FilterTypeOK, mainVars
<1>12. CASE Reconfigure
  BY <1>12 DEF Reconfigure, Return, Configure, MainTypeOK, FilterTypeOK, mainVars
<1>13. CASE UNCHANGED vars
  BY <1>13 DEF vars, mainVars, filterVars, serviceVars, MainTypeOK, FilterTypeOK
<1>. QED
  BY <1>1, <1>2, <1>3, <1>4, <1>5, <1>6, <1>7, <1>8, <1>9, <1>10, <1>11, <1>12, <1>13
     DEF Next, Main, Reader

LEMMA Types == Spec => [](MainTypeOK /\ FilterTypeOK)
  BY InitTypes, StepTypes, ServiceHere, PTL DEF Spec

(* The state is well typed. *)
THEOREM TypeCorrect == Spec => []TypeOK
<1>1. ServiceInv /\ MainTypeOK /\ FilterTypeOK => TypeOK
  BY DEF ServiceInv, MainTypeOK, FilterTypeOK, TypeOK
<1>. QED BY <1>1, ServiceHere, Types, PTL

-----------------------------------------------------------------------------
(* The filter and its two users.                                           *)

(* The main thread inside StopRadarPNT, and after it.                      *)
Lifecycle ==
  /\ call = "none" => stage = "stop"
  /\ stage # "join" => owner = "idle"
  /\ stage # "stop" => ~running
  /\ stage = "after" => ~configured /\ ~tracking
  /\ call = "none" /\ last = "destroy" => ~running

(* A filter at work has been started in this run and from a finite         *)
(* position, and is to be started from one again.                          *)
AtWork ==
  /\ kf.is # "nonfinite"
  /\ ekf = "reconfigure" => thread = "handle" /\ latest.is = "finite"
  /\ thread \notin {"none", "ended"} => latest.run = starts /\ kf.run = starts

FilterInv == Lifecycle /\ AtWork /\ DestroyedIsClean

LEMMA FilterInvInit == Init => FilterInv
  BY DEF Init, ServiceInit, Zero, FilterInv, Lifecycle, AtWork, DestroyedIsClean

(* No thread is left once Stop has returned. *)
LEMMA NoThread ==
  ASSUME ServiceInv, Lifecycle, stage \in {"clear", "after"}
  PROVE  thread = "none"
  BY DEF ServiceInv, Joined, Lifecycle

LEMMA EstimateFields ==
  ASSUME NEW r
  PROVE  /\ Finite(r).run = r /\ Finite(r).is = "finite"
         /\ NonFinite(r).run = r /\ NonFinite(r).is = "nonfinite"
  BY DEF Finite, NonFinite

LEMMA MainKeepsFilterInv ==
  ASSUME ServiceInv, MainTypeOK, FilterTypeOK, FilterInv, Main
  PROVE  FilterInv'
<1> USE DEF FilterInv
<1>1. ASSUME NEW operation \in Operations, Call(operation) PROVE FilterInv'
  BY <1>1 DEF Call, serviceVars, filterVars, Operations, Lifecycle, AtWork, DestroyedIsClean
<1>2. CASE StopReader
  BY <1>2 DEF StopReader, RequestStop, filterVars, Lifecycle, AtWork, DestroyedIsClean
<1>3. CASE JoinReader
  <2>1. /\ call # "none" /\ owner' = "idle" /\ running' = running /\ starts' = starts
        /\ thread' \in {"none", thread} /\ (thread' # thread => thread = "ended")
    BY <1>3 DEF JoinReader, Join, serviceVars, Lifecycle, ServiceInv, ServiceTypeOK
  <2>. QED BY <1>3, <2>1 DEF JoinReader, filterVars, Lifecycle, AtWork, DestroyedIsClean
<1>4. CASE ClearFlags
  BY <1>4 DEF ClearFlags, serviceVars, Lifecycle, AtWork, DestroyedIsClean
<1>5. CASE Stopped
  BY <1>5 DEF Stopped, Returned, serviceVars, filterVars, Lifecycle, AtWork, DestroyedIsClean
<1>6. CASE Begin
  <2>1. thread = "none" /\ ~configured /\ owner = "idle"
    BY <1>6, NoThread DEF Begin, Lifecycle
  <2>2. latest' = Finite(NextRun) /\ kf' = Finite(NextRun) /\ starts' = NextRun
    BY <1>6, <2>1 DEF Begin, Configure, Start, NextRun
  <2>3. /\ call' = "none" /\ stage' = "stop" /\ last' = "start" /\ owner' = "idle"
        /\ ekf' = ekf
    BY <1>6, <2>1 DEF Begin, Returned, Start
  <2>4. ekf # "reconfigure"
    BY <2>1 DEF AtWork
  <2>. QED
    BY <2>2, <2>3, <2>4, EstimateFields DEF Lifecycle, AtWork, DestroyedIsClean
<1>7. CASE BadPercentile
  <2>1. thread = "none" /\ thread' = "none" /\ UNCHANGED <<kf, ekf, running, owner>>
    BY <1>7, NoThread DEF BadPercentile, serviceVars
  <2>2. call' = "none" /\ stage' = "stop" /\ last' = "start" /\ owner = "idle"
    BY <1>7 DEF BadPercentile, Returned, Lifecycle
  <2>. QED BY <2>1, <2>2 DEF Lifecycle, AtWork, DestroyedIsClean
<1>8. CASE Clean
  <2>1. /\ thread = "none" /\ thread' = "none" /\ ~running' /\ owner' = "idle"
        /\ ekf' = ekf
    BY <1>8, NoThread DEF Clean, serviceVars, Lifecycle
  <2>2. /\ call' = "none" /\ stage' = "stop" /\ ~tracking' /\ ~configured'
        /\ latest' = Zero /\ kf' = Zero
    BY <1>8 DEF Clean, Returned, Lifecycle
  <2>. QED BY <2>1, <2>2 DEF Lifecycle, AtWork, DestroyedIsClean, Zero
<1>. QED BY <1>1, <1>2, <1>3, <1>4, <1>5, <1>6, <1>7, <1>8 DEF Main

(* What every step of the serial thread has in common. *)
LEMMA ReaderFrame ==
  ASSUME ServiceInv, Lifecycle, DestroyedIsClean, thread # "none", mainVars' = mainVars,
         UNCHANGED <<running, owner, starts>>, configured' => configured
  PROVE  Lifecycle' /\ DestroyedIsClean'
<1>1. ~(call = "none" /\ last = "destroy")
  BY DEF ServiceInv, Joined, Lifecycle
<1>. QED BY <1>1 DEF mainVars, Lifecycle, DestroyedIsClean

LEMMA ReaderKeepsFilterInv ==
  ASSUME ServiceInv, MainTypeOK, FilterTypeOK, FilterInv, Reader
  PROVE  FilterInv'
<1> USE DEF FilterInv
<1>1. CASE StepSucceeds
  <2>1. /\ thread = "handle" /\ thread' = "test" /\ mainVars' = mainVars /\ ekf = "idle"
        /\ UNCHANGED <<running, owner, starts, configured, ekf, kf>>
    BY <1>1 DEF StepSucceeds, InHandler, Return, Returns
  <2>2. latest'.run = starts
    BY <1>1, EstimateFields DEF StepSucceeds
  <2>3. AtWork'
    BY <2>1, <2>2 DEF AtWork
  <2>. QED BY <2>1, <2>3, ReaderFrame
<1>2. CASE StepThrows
  <2>1. /\ thread = "handle" /\ thread' = "handle" /\ mainVars' = mainVars
        /\ UNCHANGED <<running, owner, starts, configured, kf>>
    BY <1>2 DEF StepThrows, InHandler, serviceVars
  <2>2. latest'.is = "finite" /\ latest'.run = starts
    BY <1>2, <2>1, EstimateFields DEF StepThrows, Thrown, AtWork
  <2>3. AtWork'
    BY <2>1, <2>2 DEF AtWork
  <2>. QED BY <2>1, <2>3, ReaderFrame
<1>3. CASE StepThrowsNonFinite
  <2>1. /\ thread = "handle" /\ thread' = "test" /\ mainVars' = mainVars /\ ekf = "idle"
        /\ UNCHANGED <<running, owner, starts, ekf, kf>> /\ ~configured'
    BY <1>3 DEF StepThrowsNonFinite, InHandler, Return, Returns
  <2>2. latest'.run = starts
    BY <1>3, <2>1, EstimateFields DEF StepThrowsNonFinite, Thrown, AtWork
  <2>3. AtWork'
    BY <2>1, <2>2 DEF AtWork
  <2>. QED BY <2>1, <2>3, ReaderFrame
<1>4. CASE Reconfigure
  <2>1. /\ thread = "handle" /\ thread' = "test" /\ mainVars' = mainVars
        /\ ekf' = "idle" /\ latest' = latest /\ kf' = latest
        /\ UNCHANGED <<running, owner, starts, configured>>
    BY <1>4 DEF Reconfigure, Configure, Return, Returns, AtWork
  <2>2. AtWork'
    BY <1>4, <2>1 DEF Reconfigure, AtWork
  <2>. QED BY <2>1, <2>2, ReaderFrame
<1>5. CASE NoDispatch
  <2>1. /\ thread = "handle" /\ thread' \in {"read", "test"} /\ mainVars' = mainVars
        /\ UNCHANGED <<running, owner, starts>> /\ UNCHANGED filterVars /\ ekf = "idle"
    BY <1>5 DEF NoDispatch, ReadOn, Return, Returns
  <2>2. AtWork'
    BY <2>1 DEF AtWork, filterVars
  <2>. QED BY <2>1, <2>2, ReaderFrame DEF filterVars
<1>6. CASE ReaderStep
  <2>1. mainVars' = mainVars /\ UNCHANGED filterVars /\ UNCHANGED <<running, owner, starts>>
    BY <1>6 DEF ReaderStep, TestRunning, ReadReturns, ReadThrows, ClosePort, Unplug
  <2>2. /\ thread' # thread => thread # "none" /\ thread # "handle"
        /\ thread = "ended" => thread' = "ended"
    BY <1>6 DEF ReaderStep, TestRunning, ReadReturns, ReadThrows, Returns, ClosePort, Unplug
  <2>3. AtWork'
    BY <2>1, <2>2 DEF AtWork, filterVars
  <2>4. Lifecycle' /\ DestroyedIsClean'
    BY <2>1 DEF Lifecycle, DestroyedIsClean, mainVars, filterVars
  <2>. QED BY <2>3, <2>4
<1>. QED BY <1>1, <1>2, <1>3, <1>4, <1>5, <1>6 DEF Reader

LEMMA FilterInvStep ==
  ServiceInv /\ MainTypeOK /\ FilterTypeOK /\ FilterInv /\ [Next]_vars => FilterInv'
<1> SUFFICES ASSUME ServiceInv, MainTypeOK, FilterTypeOK, FilterInv, UNCHANGED vars
             PROVE  FilterInv'
  BY MainKeepsFilterInv, ReaderKeepsFilterInv DEF Next
<1>. QED
  BY DEF vars, serviceVars, mainVars, filterVars, FilterInv, Lifecycle, AtWork,
         DestroyedIsClean

LEMMA FilterInvAlways == Spec => [](ServiceInv /\ FilterInv)
  BY FilterInvInit, FilterInvStep, ServiceHere, Types, PTL DEF Spec

(* The main thread reaches for the filter only when there is no serial     *)
(* thread, and no reconfiguration under way, whether the mutex is held or  *)
(* not.                                                                    *)
THEOREM OneUserOfTheFilter == Spec => []FilterUsedByOneThread
<1>1. ServiceInv /\ FilterInv /\ FilterTypeOK => FilterUsedByOneThread
  <2> SUFFICES ASSUME ServiceInv, FilterInv, FilterTypeOK, stage = "after"
               PROVE  thread = "none" /\ ekf = "idle"
    BY DEF FilterUsedByOneThread
  <2>. QED BY NoThread DEF FilterInv, AtWork, FilterTypeOK
<1>. QED BY <1>1, FilterInvAlways, Types, PTL

(* The filter is never started from a position that is not finite.         *)
THEOREM FiniteStart == Spec => []StartedFromFinite
<1>1. FilterInv => StartedFromFinite
  BY DEF FilterInv, AtWork, StartedFromFinite
<1>. QED BY <1>1, FilterInvAlways, PTL

(* The estimate and the filter a callback sees are those of its own run.   *)
THEOREM OwnRun == Spec => []EstimateOfThisRun
<1>1. FilterInv => EstimateOfThisRun
  BY DEF FilterInv, AtWork, EstimateOfThisRun
<1>. QED BY <1>1, FilterInvAlways, PTL

(* After TotalDestruction nothing of the estimate or the filter is left.   *)
THEOREM CleanDestruction == Spec => []DestroyedIsClean
<1>1. FilterInv => DestroyedIsClean
  BY DEF FilterInv
<1>. QED BY <1>1, FilterInvAlways, PTL

=============================================================================
