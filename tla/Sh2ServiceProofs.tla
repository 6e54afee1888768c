-------------------------- MODULE Sh2ServiceProofs --------------------------
(***************************************************************************)
(* Proofs about Sh2Service, for any number of starts, faults of the hub    *)
(* and attempts of a recovery.  No lock keeps the tasks apart; what does   *)
(* is the order in which each of them sets and clears its flags.           *)
(***************************************************************************)
EXTENDS Sh2Service, TLAPS, FiniteSetTheorems

Owner == pc["owner"]
Service == pc["service"]
Recovery == pc["recovery"]

AllGone == Service = "none" /\ Recovery = "none"

(* Which tasks can be alive together: nobody while the owner opens the     *)
(* driver; service and recovery only while one hands over to the other.    *)
Lifetimes ==
  /\ Owner \in Stages => AllGone /\ ~stopRequested /\ queue
  /\ Recovery \notin {"none", "handover"} => Service = "none"
  /\ Service = "spawn" => Recovery = "none"
  /\ Recovery = "handover" =>
       /\ Service \in {"begin", "loop", "poll", "settle", "quit"}
       /\ Service \in {"loop", "poll"} => ~packetOld /\ ~validOld

(* What the flags tell of them. *)
Flags ==
  /\ Recovery \notin {"none", "givenUp"} => recoveryHandle
  /\ recovering \/ recoveryHandle => Recovery \notin {"none", "givenUp"} \/ restarted
  /\ Service \notin {"none", "request", "spawn"} => taskHandle
  /\ Service = "quit" => stopRequested
  /\ serving => ~stopRequested

(* A stop request is obeyed: a service task that begins goes straight to    *)
(* its end, and so does a recovery task that has not begun an attempt.     *)
Obeyed == stopRequested \/ AllGone
ServiceEnds == Obeyed /\ Service \in {"none", "request", "spawn", "begin", "loop", "quit"}
BothEnd == ServiceEnds /\ Recovery \in {"none", "attempt", "giveUp", "givenUp"}

(* What Stop knows after each of its tests. *)
Stopping ==
  /\ Owner = "waitTask" => Obeyed
  /\ Owner \in {"waitRunning", "waitHandle"} => ServiceEnds
  /\ Owner \in {"waitRecovering", "stopCallback", "joinCallback"} => BothEnd
  /\ ~queue => BothEnd

(* AlwaysServed. *)
Served == serving /\ ~restarted => ~AllGone

Together == Lifetimes /\ Flags /\ Served /\ Stopping
Inv == ~overlapped => Together

CallbackInv ==
  /\ callback # "none" => callbackHandle
  /\ callback = "receive" => queue

-----------------------------------------------------------------------------
(* Where the tasks are. *)

Places == OwnerPcs \cup ServicePcs \cup RecoveryPcs

PcOK ==
  /\ pc \in [Users -> Places]
  /\ Owner \in OwnerPcs /\ Service \in ServicePcs /\ Recovery \in RecoveryPcs

(* A task goes somewhere, and the others stay where they are. *)
LEMMA GotoMoves ==
  ASSUME PcOK, NEW u \in Users, NEW p \in Places, Goto(u, p)
  PROVE  /\ pc' \in [Users -> Places] /\ pc'[u] = p
         /\ \A v \in Users \ {u} : pc'[v] = pc[v]
  BY DEF PcOK, Goto

LEMMA FailsMoves == ASSUME NEW u, NEW s, Fails(u, s) PROVE Goto(u, "failed")
  BY DEF Fails

LEMMA PlacesAre ==
  /\ Stages \cup {"loop"} \subseteq Places
  /\ Stages \subseteq OwnerPcs /\ Stages \subseteq RecoveryPcs
  /\ Users = {"owner", "service", "recovery"}
  BY DEF Places, OwnerPcs, ServicePcs, RecoveryPcs, Stages, Users

(* The stages of the driver calls: they change the flags of nobody, lead   *)
(* from stage to stage, and the service task back into its loop.           *)
Untouched == <<flagVars, callbackVars, queue, ownerVars, restarted>>

LEMMA StageMoves ==
  ASSUME PcOK, NEW u \in Users, DriverStage(u)
  PROVE  /\ pc' \in [Users -> Places] /\ \A v \in Users \ {u} : pc'[v] = pc[v]
         /\ pc[u] \in Stages \ {"opened", "failed"}
         /\ pc[u] \in {"reset", "open"} => u # "service"
         /\ pc'[u] \in (Stages \ {"reset"}) \cup {"loop"}
         /\ pc'[u] = "open" => u # "service"
         /\ pc'[u] = "loop" => u = "service"
         /\ pc'[u] = "opened" => u # "service"
         /\ u = "service" /\ pc[u] = "settle" => HandoverIsOver
         /\ Untouched' = Untouched
<1> USE PlacesAre DEF Untouched
<1>0. pc[u] \in {"reset", "open"} => u # "service"
  BY DEF PcOK, Service, ServicePcs, Stages
<1>1. CASE OpenHardReset(u)
  <2>1. pc[u] = "reset" /\ (Goto(u, "open") \/ Goto(u, "failed"))
    BY <1>1, FailsMoves DEF OpenHardReset
  <2>. QED BY <1>0, <1>1, <2>1, GotoMoves DEF OpenHardReset, Stages
<1>2. CASE OpenDriver(u)
  <2>1. pc[u] = "open" /\ (Goto(u, "devReset") \/ Goto(u, "failed"))
    BY <1>2, FailsMoves DEF OpenDriver
  <2>. QED BY <1>0, <1>2, <2>1, GotoMoves DEF OpenDriver, Stages
<1>3. CASE ResetAwaited(u)
  <2>1. pc[u] = "await" /\ (Goto(u, "settle") \/ Goto(u, "failed"))
    BY <1>3, FailsMoves DEF ResetAwaited
  <2>. QED BY <1>3, <2>1, GotoMoves DEF ResetAwaited, Stages
<1>4. CASE Settled(u)
  <2>1. pc[u] = "settle" /\ Goto(u, "cal") /\ (u = "service" => HandoverIsOver)
    BY <1>4 DEF Settled
  <2>. QED BY <1>4, <2>1, GotoMoves DEF Settled, Stages
<1>5. CASE EnableSensor(u)
  <2>1. pc[u] \in Sensors /\ Goto(u, NextStage(u))
    BY <1>5 DEF EnableSensor
  <2>2. pc[u] \in {"acc", "rot", "rate"}
    BY <2>1 DEF Sensors
  <2>3. NextStage(u) \in {"rot", "rate"} \/ (u = "service" /\ NextStage(u) = "loop")
        \/ (u # "service" /\ NextStage(u) = "opened")
    BY <2>2 DEF NextStage
  <2>. QED BY <1>5, <2>1, <2>2, <2>3, GotoMoves DEF EnableSensor, Stages
<1>6. CASE DevReset(u)
  <2>1. pc[u] = "devReset" /\ Goto(u, "await")
    BY <1>6 DEF DevReset
  <2>. QED BY <1>6, <2>1, GotoMoves DEF DevReset, Stages
<1>7. CASE CalibrationSet(u)
  <2>1. pc[u] = "cal" /\ (Goto(u, "acc") \/ Goto(u, "failed"))
    BY <1>7, FailsMoves DEF CalibrationSet
  <2>. QED BY <1>7, <2>1, GotoMoves DEF CalibrationSet, Stages
<1>8. CASE CallAborted(u)
  <2>1. pc[u] = "aborted" /\ Goto(u, "failed")
    BY <1>8, FailsMoves DEF CallAborted
  <2>. QED BY <1>8, <2>1, GotoMoves DEF CallAborted, Stages
<1>. QED BY <1>1, <1>2, <1>3, <1>4, <1>5, <1>6, <1>7, <1>8 DEF DriverStage

(* A reset that is noticed ends an operation of the driver. *)
LEMMA ResetMoves ==
  ASSUME PcOK, NEW u \in Users, DeliverReset(u)
  PROVE  /\ pc' \in [Users -> Places] /\ \A v \in Users \ {u} : pc'[v] = pc[v]
         /\ \/ pc'[u] = pc[u]
            \/ pc[u] \in {"open", "cal"} /\ pc'[u] = "aborted"
            \/ u = "service" /\ pc[u] = "save" /\ pc'[u] = "poll"
         /\ UNCHANGED <<flagVars, callbackVars, queue, ownerVars, restarted>>
<1>1. UNCHANGED <<flagVars, callbackVars, queue, ownerVars, restarted>>
  BY DEF DeliverReset, NoticeReset
<1>2. PICK p \in AfterReset(u) : Goto(u, p)
  BY DEF DeliverReset, NoticeReset
<1>3. pc[u] = "save" => u = "service"
  BY DEF PcOK, Owner, Recovery, OwnerPcs, RecoveryPcs, Stages, Users
<1>4. \/ p = pc[u]
      \/ pc[u] \in {"open", "cal"} /\ p = "aborted"
      \/ u = "service" /\ pc[u] = "save" /\ p = "poll"
  BY <1>3 DEF AfterReset
<1>5. p \in Places
  BY <1>4 DEF PcOK, Places, ServicePcs, OwnerPcs, Stages
<1>. QED BY <1>1, <1>2, <1>4, <1>5, GotoMoves

(* Every step leaves the tasks where their programs have a place for them. *)
LEMMA InitPlaces == Init => PcOK
  BY DEF Init, PcOK, Owner, Service, Recovery, Places, OwnerPcs, ServicePcs,
         RecoveryPcs, Stages, Users

LEMMA OwnerGoes == ASSUME PcOK, NEW p \in OwnerPcs, Goto("owner", p) PROVE PcOK'
  BY GotoMoves, PlacesAre DEF PcOK, Owner, Service, Recovery, Places

LEMMA ServiceGoes == ASSUME PcOK, NEW p \in ServicePcs, Goto("service", p) PROVE PcOK'
  BY GotoMoves, PlacesAre DEF PcOK, Owner, Service, Recovery, Places

LEMMA RecoveryGoes == ASSUME PcOK, NEW p \in RecoveryPcs, Goto("recovery", p) PROVE PcOK'
  BY GotoMoves, PlacesAre DEF PcOK, Owner, Service, Recovery, Places

(* One task creates another. *)
LEMMA TwoGo ==
  ASSUME PcOK, NEW u \in Users, NEW v \in Users, u # v, NEW p \in Places, NEW q \in Places,
         pc' = [pc EXCEPT ![u] = p, ![v] = q]
  PROVE  /\ pc' \in [Users -> Places] /\ pc'[u] = p /\ pc'[v] = q
         /\ \A w \in Users \ {u, v} : pc'[w] = pc[w]
  BY DEF PcOK

LEMMA NobodyGoes == ASSUME PcOK, UNCHANGED pc PROVE PcOK'
  BY DEF PcOK, Owner, Service, Recovery

LEMMA StepPlaces == PcOK /\ [Next]_vars => PcOK'
<1> SUFFICES ASSUME PcOK, [Next]_vars PROVE PcOK'
  OBVIOUS
<1>1. CASE HubResets \/ HubHangs \/ PacketsStop \/ ValidEventsStop
  BY <1>1, NobodyGoes DEF HubResets, HubHangs, PacketsStop, ValidEventsStop
<1>2. ASSUME NEW u \in Users, Deliver(u) PROVE PcOK'
  <2>1. CASE DeliverReset(u)
    BY <2>1, ResetMoves DEF PcOK, Owner, Service, Recovery, Users, OwnerPcs, ServicePcs,
                            RecoveryPcs, Stages
  <2>. QED BY <1>2, <2>1, NobodyGoes DEF Deliver, DeliverSensor
<1>3. ASSUME NEW u \in Users, DriverStage(u) PROVE PcOK'
  <2>1. CASE u = "owner"
    BY <1>3, <2>1, StageMoves DEF PcOK, Owner, Service, Recovery, OwnerPcs, Stages, Users
  <2>2. CASE u = "service"
    BY <1>3, <2>2, StageMoves DEF PcOK, Owner, Service, Recovery, ServicePcs, Stages, Users
  <2>3. CASE u = "recovery"
    BY <1>3, <2>3, StageMoves DEF PcOK, Owner, Service, Recovery, RecoveryPcs, Stages, Users
  <2>. QED BY <2>1, <2>2, <2>3 DEF Users
<1>4. CASE CallbackTask \/ RepeatStatus
  BY <1>4, NobodyGoes DEF CallbackTask, CallbackBegin, CallbackTest, CallbackReceive, CallbackExit,
                          RepeatStatus
<1>5. CASE ServiceBegin
  BY <1>5, ServiceGoes DEF ServiceBegin, ServicePcs, Stages
<1>6. CASE TestStop
  BY <1>6, ServiceGoes DEF TestStop, ServicePcs, Stages
<1>7. CASE NothingToDo
  BY <1>7, ServiceGoes DEF NothingToDo, ServicePcs, Stages
<1>8. CASE ResetNoticed
  BY <1>8, ServiceGoes DEF ResetNoticed, ServicePcs, Stages
<1>9. CASE SoftReset
  BY <1>9, ServiceGoes DEF SoftReset, ServicePcs, Stages
<1>10. CASE ServiceFailed
  BY <1>10, ServiceGoes DEF ServiceFailed, ServicePcs, Stages
<1>11. CASE ServiceStops
  BY <1>11, ServiceGoes DEF ServiceStops, ServicePcs, Stages
<1>12. CASE ServiceQuits
  BY <1>12, ServiceGoes DEF ServiceQuits, ServicePcs, Stages
<1>13. CASE CalibrationSaved
  BY <1>13, ServiceGoes DEF CalibrationSaved, ServicePcs, Stages
<1>14. CASE RequestRecovery
  BY <1>14, ServiceGoes DEF RequestRecovery, ServicePcs, Stages
<1>15. CASE SpawnRecovery
  <2>1. "none" \in ServicePcs /\ "attempt" \in RecoveryPcs
    BY DEF ServicePcs, RecoveryPcs, Stages
  <2>2. CASE pc' = [pc EXCEPT !["service"] = "none", !["recovery"] = "attempt"]
    BY <2>1, <2>2, TwoGo, PlacesAre DEF PcOK, Owner, Service, Recovery, Places
  <2>. QED BY <1>15, <2>2, NobodyGoes DEF SpawnRecovery
<1>16. CASE Attempt
  BY <1>16, RecoveryGoes DEF Attempt, RecoveryPcs, Stages
<1>17. CASE AttemptFailed
  BY <1>17, RecoveryGoes DEF AttemptFailed, RecoveryPcs, Stages
<1>18. CASE Handover
  BY <1>18, RecoveryGoes DEF Handover, ClearRecovery, RecoveryPcs, Stages
<1>19. CASE GiveUp
  BY <1>19, RecoveryGoes DEF GiveUp, ClearRecovery, RecoveryPcs, Stages
<1>20. CASE RestartOrEnd
  BY <1>20, RecoveryGoes, NobodyGoes DEF RestartOrEnd, RecoveryPcs, Stages
<1>21. CASE Recovered
  <2>1. "begin" \in ServicePcs /\ "handover" \in RecoveryPcs
    BY DEF ServicePcs, RecoveryPcs, Stages
  <2>2. CASE pc' = [pc EXCEPT !["recovery"] = "handover", !["service"] = "begin"]
    BY <2>1, <2>2, TwoGo, PlacesAre DEF PcOK, Owner, Service, Recovery, Places
  <2>. QED BY <1>21, <2>2, NobodyGoes DEF Recovered
<1>22. CASE Start
  BY <1>22, OwnerGoes, NobodyGoes DEF Start, StartWhen, CreateCallbackTask, OwnerPcs, Stages
<1>23. CASE StartService
  <2>1. "started" \in OwnerPcs /\ "begin" \in ServicePcs /\ "stopCallback" \in OwnerPcs
    BY DEF OwnerPcs, ServicePcs, Stages
  <2>2. CASE pc' = [pc EXCEPT !["owner"] = "started", !["service"] = "begin"]
    BY <2>1, <2>2, TwoGo, PlacesAre DEF PcOK, Owner, Service, Recovery, Places
  <2>. QED BY <1>23, <2>1, <2>2, OwnerGoes DEF StartService
<1>24. CASE Started
  BY <1>24, OwnerGoes DEF Started, OwnerPcs, Stages
<1>25. CASE StartFailed
  BY <1>25, OwnerGoes DEF StartFailed, OwnerPcs, Stages
<1>26. CASE Stop
  BY <1>26, OwnerGoes DEF Stop, OwnerPcs, Stages
<1>27. CASE StopCallback
  BY <1>27, OwnerGoes DEF StopCallback, OwnerPcs, Stages
<1>28. CASE JoinCallback
  BY <1>28, OwnerGoes DEF JoinCallback, OwnerPcs, Stages
<1>29. CASE WaitForTasks
  <2>1. \E p \in {"waitTask", "waitRunning", "waitHandle", "waitRecovering", "stopCallback"} :
          Goto("owner", p)
    BY <1>29 DEF WaitForTasks, WaitFor
  <2>. QED BY <2>1, OwnerGoes DEF OwnerPcs
<1>30. CASE UNCHANGED vars
  BY <1>30, NobodyGoes DEF vars
<1>. QED
  BY <1>1, <1>2, <1>3, <1>4, <1>5, <1>6, <1>7, <1>8, <1>9, <1>10, <1>11, <1>12,
     <1>13, <1>14, <1>15, <1>16, <1>17, <1>18, <1>19, <1>20, <1>21, <1>22, <1>23,
     <1>24, <1>25, <1>26, <1>27, <1>28, <1>29, <1>30
  DEF Next, ServiceTask, RecoveryTask, OwnerTask, Users

-----------------------------------------------------------------------------
(* Who is alive. *)

LEMMA OwnerOnly ==
  ASSUME PcOK, NEW p \in Places, Goto("owner", p)
  PROVE  Owner' = p /\ UNCHANGED <<Service, Recovery>>
  BY GotoMoves, PlacesAre DEF Owner, Service, Recovery

LEMMA ServiceOnly ==
  ASSUME PcOK, NEW p \in Places, Goto("service", p)
  PROVE  Service' = p /\ UNCHANGED <<Owner, Recovery>>
  BY GotoMoves, PlacesAre DEF Owner, Service, Recovery

LEMMA RecoveryOnly ==
  ASSUME PcOK, NEW p \in Places, Goto("recovery", p)
  PROVE  Recovery' = p /\ UNCHANGED <<Owner, Service>>
  BY GotoMoves, PlacesAre DEF Owner, Service, Recovery

LEMMA StringPlaces ==
  {"none", "begin", "loop", "save", "poll", "settle", "cal", "acc", "await", "aborted", "devReset",
   "request", "spawn", "quit", "attempt", "handover", "giveUp", "givenUp", "reset", "failed",
   "idle", "started", "waitTask", "waitRunning", "waitHandle", "waitRecovering",
   "stopCallback", "joinCallback"} \subseteq Places
  BY DEF Places, OwnerPcs, ServicePcs, RecoveryPcs, Stages

LEMMA InitInv == Init => Inv
  BY DEF Init, Inv, Together, Lifetimes, Flags, Served, Stopping, BothEnd, ServiceEnds, Obeyed,
         AllGone, Owner, Service, Recovery, Stages, Users

(* What the invariant depends on. *)
core == <<pc, stopRequested, taskHandle, recoveryHandle, recovering, serving, restarted, overlapped, queue>>

LEMMA SameCore ==
  ASSUME Together, UNCHANGED core,
         Recovery = "handover" /\ Service \in {"loop", "poll"} => (~packetOld' /\ ~validOld')
  PROVE  Together'
  BY DEF core, Together, Lifetimes, Flags, Served, Stopping, BothEnd, ServiceEnds, Obeyed, AllGone,
         Owner, Service, Recovery

(* The service task. *)
LEMMA ServiceTaskKeeps ==
  ASSUME PcOK, Together, ~Ended, ServiceTask
  PROVE  Together'
<1> USE StringPlaces DEF flagVars, timeVars, ownerVars, core,
           Together, Lifetimes, Flags, Served, Stopping, BothEnd, ServiceEnds, Obeyed, AllGone
<1>1. CASE DriverStage("service")
  <2>1. /\ Service \in Stages \ {"reset", "open", "opened", "failed"}
        /\ Service' \in (Stages \ {"reset", "open", "opened"}) \cup {"loop"}
        /\ UNCHANGED <<Owner, Recovery, stopRequested, taskHandle, recoveryHandle, recovering, queue,
                      serving, overlapped, restarted>>
        /\ Service = "settle" => HandoverIsOver
    BY <1>1, StageMoves DEF Users, Untouched, Owner, Service, Recovery
  <2>. QED BY <2>1 DEF HandoverIsOver, Recovery, Stages
<1>2. CASE ServiceBegin
  <2>1. Service' = "loop" /\ UNCHANGED <<Owner, Recovery>>
    BY <1>2, ServiceOnly DEF ServiceBegin
  <2>. QED BY <1>2, <2>1 DEF ServiceBegin, Service, Stages, ResetEventTimestamps
<1>3. CASE TestStop
  <2>1. /\ Service' = "poll" \/ (Service' = "save" /\ HandoverIsOver)
        /\ UNCHANGED <<Owner, Recovery>>
    BY <1>3, ServiceOnly DEF TestStop
  <2>. QED BY <1>3, <2>1 DEF TestStop, HandoverIsOver, Service, Recovery, Stages
<1>4. CASE NothingToDo
  <2>1. Service' = "loop" /\ UNCHANGED <<Owner, Recovery>>
    BY <1>4, ServiceOnly DEF NothingToDo
  <2>. QED BY <1>4, <2>1 DEF NothingToDo, Service, Stages
<1>5. CASE ResetNoticed
  <2>1. Service' = "settle" /\ UNCHANGED <<Owner, Recovery>>
    BY <1>5, ServiceOnly DEF ResetNoticed
  <2>. QED BY <1>5, <2>1 DEF ResetNoticed, Service, Stages, ResetEventTimestamps
<1>6. CASE SoftReset
  <2>1. Service' = "devReset" /\ UNCHANGED <<Owner, Recovery>>
    BY <1>6, ServiceOnly DEF SoftReset
  <2>. QED BY <1>6, <2>1 DEF SoftReset, Service, Stages, MustSoftReset
<1>7. CASE CalibrationSaved
  <2>1. Service' = "poll" /\ UNCHANGED <<Owner, Recovery>>
    BY <1>7, ServiceOnly DEF CalibrationSaved
  <2>. QED BY <1>7, <2>1 DEF CalibrationSaved, Service, Stages
<1>8. CASE ServiceFailed
  <2>1. Service' = "request" /\ UNCHANGED <<Owner, Recovery>>
    BY <1>8, ServiceOnly DEF ServiceFailed
  <2>. QED BY <1>8, <2>1 DEF ServiceFailed, Service, Stages
<1>9. CASE RequestRecovery
  <2>1. Service' = (IF MayRequestRecovery THEN "spawn" ELSE "none") /\ UNCHANGED <<Owner, Recovery>>
    BY <1>9, ServiceOnly DEF RequestRecovery
  <2>. QED BY <1>9, <2>1 DEF RequestRecovery, MayRequestRecovery, PcOK, RecoveryPcs, Service, Stages
<1>10. CASE SpawnRecovery
  <2>1. CASE pc' = [pc EXCEPT !["service"] = "none", !["recovery"] = "attempt"]
    <3>1. Service' = "none" /\ Recovery' = "attempt" /\ Owner' = Owner
      BY <2>1, TwoGo, PlacesAre DEF Owner, Service, Recovery
    <3>. QED BY <1>10, <2>1, <3>1 DEF SpawnRecovery, Service, Stages
  <2>2. CASE UNCHANGED <<pc, recoveryHandle>> /\ restarted'
    BY <1>10, <2>2 DEF SpawnRecovery, Owner, Service, Recovery, Stages
  <2>. QED BY <1>10, <2>1, <2>2 DEF SpawnRecovery
<1>11. CASE ServiceStops
  <2>1. Service' = "quit" /\ UNCHANGED <<Owner, Recovery>>
    BY <1>11, ServiceOnly DEF ServiceStops
  <2>. QED BY <1>11, <2>1 DEF ServiceStops, Service, Stages
<1>12. CASE ServiceQuits
  <2>1. Service' = "none" /\ UNCHANGED <<Owner, Recovery>>
    BY <1>12, ServiceOnly DEF ServiceQuits
  <2>. QED BY <1>12, <2>1 DEF ServiceQuits, Service, Stages, HandoverIsOver, Recovery
<1>. QED
  BY <1>1, <1>2, <1>3, <1>4, <1>5, <1>6, <1>7, <1>8, <1>9, <1>10, <1>11, <1>12 DEF ServiceTask

(* The recovery task. *)
LEMMA RecoveryTaskKeeps ==
  ASSUME PcOK, Together, ~Ended, RecoveryTask
  PROVE  Together'
<1> USE StringPlaces DEF flagVars, timeVars, ownerVars, core,
           Together, Lifetimes, Flags, Served, Stopping, BothEnd, ServiceEnds, Obeyed, AllGone
<1>1. CASE DriverStage("recovery")
  <2>1. /\ Recovery \in Stages \ {"opened", "failed"}
        /\ Recovery' \in Stages
        /\ UNCHANGED <<Owner, Service, stopRequested, taskHandle, recoveryHandle, recovering, queue,
                      serving, overlapped, restarted>>
    BY <1>1, StageMoves DEF Users, Untouched, Owner, Service, Recovery
  <2>. QED BY <2>1 DEF Stages
<1>2. CASE Attempt
  <2>1. Recovery' \in {"reset", "giveUp"} /\ (Recovery' = "reset" => ~stopRequested)
        /\ UNCHANGED <<Owner, Service>>
    BY <1>2, RecoveryOnly DEF Attempt
  <2>. QED BY <1>2, <2>1 DEF Attempt, Recovery, Stages
<1>3. CASE AttemptFailed
  <2>1. Recovery' = "attempt" /\ UNCHANGED <<Owner, Service>>
    BY <1>3, RecoveryOnly DEF AttemptFailed
  <2>. QED BY <1>3, <2>1 DEF AttemptFailed, Recovery, Stages
<1>4. CASE Recovered
  <2>1. CASE pc' = [pc EXCEPT !["recovery"] = "handover", !["service"] = "begin"]
    <3>1. Recovery' = "handover" /\ Service' = "begin" /\ Owner' = Owner
      BY <2>1, TwoGo, PlacesAre DEF Owner, Service, Recovery
    <3>. QED BY <1>4, <2>1, <3>1 DEF Recovered, Recovery, Stages
  <2>2. CASE UNCHANGED <<pc, taskHandle>> /\ restarted'
    BY <1>4, <2>2 DEF Recovered, Owner, Service, Recovery, Stages
  <2>. QED BY <1>4, <2>1, <2>2 DEF Recovered
<1>5. CASE Handover
  <2>1. Recovery' = "none" /\ UNCHANGED <<Owner, Service>>
    BY <1>5, RecoveryOnly DEF Handover, ClearRecovery
  <2>. QED BY <1>5, <2>1 DEF Handover, ClearRecovery, Recovery, Stages
<1>6. CASE GiveUp
  <2>1. Recovery' = "givenUp" /\ UNCHANGED <<Owner, Service>>
    BY <1>6, RecoveryOnly DEF GiveUp, ClearRecovery
  <2>. QED BY <1>6, <2>1 DEF GiveUp, ClearRecovery, Recovery, Stages
<1>7. CASE RestartOrEnd
  <2>1. CASE stopRequested
    <3>1. Recovery' = "none" /\ UNCHANGED <<Owner, Service, restarted>>
      BY <1>7, <2>1, RecoveryOnly DEF RestartOrEnd
    <3>. QED BY <1>7, <2>1, <3>1 DEF RestartOrEnd, Recovery, Stages
  <2>2. CASE ~stopRequested
    BY <1>7, <2>2 DEF RestartOrEnd, Owner, Service, Recovery, Stages
  <2>. QED BY <2>1, <2>2
<1>. QED BY <1>1, <1>2, <1>3, <1>4, <1>5, <1>6, <1>7 DEF RecoveryTask

(* The owner.  A Start that finds a task alive is not looked at further.   *)
LEMMA StartKeeps == ASSUME PcOK, Together, ~Ended, Start, ~overlapped' PROVE Together'
<1> USE DEF Together, Lifetimes, Flags, Served, Stopping, BothEnd, ServiceEnds, Obeyed, AllGone
<1>1. ~AnyTaskKnown /\ Owner = "idle" /\ UNCHANGED <<taskHandle, recoveryHandle, restarted, serving>>
      /\ ~stopRequested' /\ ~recovering'
  BY DEF Start, StartWhen, CreateCallbackTask, Owner, flagVars, ownerVars
<1>2. AllGone
  BY <1>1 DEF Start, StartWhen, CreateCallbackTask, AllGone, Service, Recovery, Users
<1>3. ~serving
  BY <1>2 DEF Together, Served, Ended
<1>4. CASE Goto("owner", "reset") /\ queue'
  <2>1. Owner' = "reset" /\ UNCHANGED <<Service, Recovery>>
    BY <1>4, OwnerOnly, StringPlaces
  <2>. QED BY <1>1, <1>2, <1>3, <1>4, <2>1 DEF AnyTaskKnown, ServiceFlags, Stages
<1>5. CASE UNCHANGED <<pc, queue>>
  BY <1>1, <1>2, <1>3, <1>5 DEF AnyTaskKnown, ServiceFlags, Owner, Service, Recovery, Stages
<1>. QED BY <1>4, <1>5 DEF Start, StartWhen, CreateCallbackTask

LEMMA OwnerTaskKeeps ==
  ASSUME PcOK, Together, ~Ended, OwnerTask \/ Stop
  PROVE  Together'
<1> USE StringPlaces DEF flagVars, timeVars, ownerVars, callbackVars, core,
           Together, Lifetimes, Flags, Served, Stopping, BothEnd, ServiceEnds, Obeyed, AllGone
<1>1. CASE DriverStage("owner")
  <2>1. /\ Owner \in Stages \ {"opened", "failed"}
        /\ Owner' \in Stages
        /\ UNCHANGED <<Service, Recovery, stopRequested, taskHandle, recoveryHandle, recovering, queue,
                      serving, overlapped, restarted>>
    BY <1>1, StageMoves DEF Users, Untouched, Owner, Service, Recovery
  <2>. QED BY <2>1 DEF Stages
<1>2. CASE StartService
  <2>1. CASE pc' = [pc EXCEPT !["owner"] = "started", !["service"] = "begin"] /\ taskHandle' /\ serving'
    <3>1. Owner' = "started" /\ Service' = "begin" /\ Recovery' = Recovery
      BY <2>1, TwoGo, PlacesAre DEF Owner, Service, Recovery
    <3>. QED BY <1>2, <2>1, <3>1 DEF StartService, Owner, Stages
  <2>2. CASE Goto("owner", "stopCallback") /\ UNCHANGED <<taskHandle, serving>>
    <3>1. Owner' = "stopCallback" /\ UNCHANGED <<Service, Recovery>>
      BY <2>2, OwnerOnly
    <3>. QED BY <1>2, <2>2, <3>1 DEF StartService, Owner, Stages
  <2>. QED BY <1>2, <2>1, <2>2 DEF StartService
<1>3. CASE Started
  <2>1. Owner' = "idle" /\ UNCHANGED <<Service, Recovery>>
    BY <1>3, OwnerOnly DEF Started
  <2>. QED BY <1>3, <2>1 DEF Started, Owner, Stages
<1>4. CASE StartFailed
  <2>1. Owner' = "stopCallback" /\ UNCHANGED <<Service, Recovery>>
    BY <1>4, OwnerOnly DEF StartFailed
  <2>. QED BY <1>4, <2>1 DEF StartFailed, Owner, Stages
<1>5. CASE Stop
  <2>1. Owner' = "waitTask" /\ UNCHANGED <<Service, Recovery>>
    BY <1>5, OwnerOnly DEF Stop
  <2>. QED BY <1>5, <2>1 DEF Stop, Owner, Stages
<1>6. CASE WaitFor("waitTask", taskHandle, "waitRunning")
  <2>1. Owner = "waitTask" /\ Owner' = (IF taskHandle THEN "waitTask" ELSE "waitRunning")
        /\ UNCHANGED <<Service, Recovery>>
    BY <1>6, OwnerOnly DEF WaitFor, Owner
  <2>. QED BY <1>6, <2>1 DEF WaitFor, PcOK, ServicePcs, RecoveryPcs, Stages
<1>7. CASE WaitFor("waitRunning", running, "waitHandle")
  <2>1. Owner = "waitRunning" /\ Owner' = (IF running THEN "waitTask" ELSE "waitHandle")
        /\ UNCHANGED <<Service, Recovery>>
    BY <1>7, OwnerOnly DEF WaitFor, Owner
  <2>. QED BY <1>7, <2>1 DEF WaitFor, PcOK, ServicePcs, RecoveryPcs, Stages
<1>8. CASE WaitFor("waitHandle", recoveryHandle, "waitRecovering")
  <2>1. Owner = "waitHandle" /\ Owner' = (IF recoveryHandle THEN "waitTask" ELSE "waitRecovering")
        /\ UNCHANGED <<Service, Recovery>>
    BY <1>8, OwnerOnly DEF WaitFor, Owner
  <2>. QED BY <1>8, <2>1 DEF WaitFor, PcOK, ServicePcs, RecoveryPcs, Stages
<1>9. CASE WaitFor("waitRecovering", recovering, "stopCallback")
  <2>1. Owner = "waitRecovering" /\ Owner' = (IF recovering THEN "waitTask" ELSE "stopCallback")
        /\ UNCHANGED <<Service, Recovery>>
    BY <1>9, OwnerOnly DEF WaitFor, Owner
  <2>. QED BY <1>9, <2>1 DEF WaitFor, PcOK, ServicePcs, RecoveryPcs, Stages
<1>10. CASE StopCallback
  <2>1. Owner' = "joinCallback" /\ UNCHANGED <<Service, Recovery>>
    BY <1>10, OwnerOnly DEF StopCallback
  <2>. QED BY <1>10, <2>1 DEF StopCallback, Owner, Stages
<1>11. CASE JoinCallback
  <2>1. Owner' = "idle" /\ UNCHANGED <<Service, Recovery>>
    BY <1>11, OwnerOnly DEF JoinCallback
  <2>. QED BY <1>11, <2>1 DEF JoinCallback, Owner, Stages
<1>. QED
  BY <1>1, <1>2, <1>3, <1>4, <1>5, <1>6, <1>7, <1>8, <1>9, <1>10, <1>11
  DEF OwnerTask, WaitForTasks

(* A reset that is noticed lets nobody begin or end. *)
LEMMA ResetKeeps ==
  ASSUME PcOK, Together, NEW u \in Users, DeliverReset(u)
  PROVE  Together'
<1> USE DEF flagVars, timeVars, ownerVars,
            Together, Lifetimes, Flags, Served, Stopping, BothEnd, ServiceEnds, Obeyed, AllGone
<1>1. UNCHANGED <<stopRequested, taskHandle, recoveryHandle, recovering, queue, serving,
                  overlapped, restarted>> /\ ~packetOld' /\ ~validOld'
  BY ResetMoves DEF DeliverReset, NoticeReset, ResetEventTimestamps
<1>2. CASE UNCHANGED <<Owner, Service, Recovery>>
  BY <1>1, <1>2
<1>3. CASE u = "owner" /\ Owner \in Stages /\ Owner' = "aborted" /\ UNCHANGED <<Service, Recovery>>
  BY <1>1, <1>3 DEF Stages
<1>4. CASE u = "recovery" /\ Recovery \in {"open", "cal"} /\ Recovery' = "aborted"
           /\ UNCHANGED <<Owner, Service>>
  BY <1>1, <1>4
<1>5. CASE /\ u = "service" /\ UNCHANGED <<Owner, Recovery>>
           /\ Service \in {"open", "cal", "save"} /\ Service' \in {"aborted", "poll"}
  BY <1>1, <1>5
<1>. QED BY <1>2, <1>3, <1>4, <1>5, ResetMoves DEF Users, Owner, Service, Recovery, Stages

(* Everything else changes nothing the invariant depends on. *)
LEMMA OthersKeep ==
  ASSUME PcOK, Together, ~Ended,
         \/ HubResets \/ HubHangs \/ PacketsStop \/ ValidEventsStop
         \/ \E u \in Users : Deliver(u)
         \/ CallbackTask \/ RepeatStatus \/ UNCHANGED vars,
         ~ \E u \in Users : DeliverReset(u)
  PROVE  Together'
<1>1. UNCHANGED core
  BY DEF core, HubResets, HubHangs, PacketsStop, ValidEventsStop, Deliver,
         DeliverSensor, CallbackTask, CallbackBegin, CallbackTest, CallbackReceive, CallbackExit,
         RepeatStatus, vars, flagVars, ownerVars
<1>2. Recovery = "handover" /\ Service \in {"loop", "poll"} => ~packetOld' /\ ~validOld'
  <2> SUFFICES ASSUME Recovery = "handover", Service \in {"loop", "poll"}
               PROVE  ~packetOld' /\ ~validOld'
    OBVIOUS
  <2>1. ~packetOld /\ ~validOld /\ ~HandoverIsOver
    BY DEF Together, Lifetimes, HandoverIsOver, Recovery
  <2> USE DEF timeVars
  <2>3. ASSUME NEW u \in Users, NEW s \in Sensors, NEW accurate \in BOOLEAN, DeliverSensor(u, s, accurate)
        PROVE  ~packetOld' /\ ~validOld'
    BY <2>1, <2>3 DEF DeliverSensor
  <2>4. CASE HubResets \/ HubHangs \/ PacketsStop \/ ValidEventsStop
    BY <2>1, <2>4 DEF HubResets, HubHangs, PacketsStop, ValidEventsStop
  <2>5. CASE CallbackTask \/ RepeatStatus \/ UNCHANGED vars
    BY <2>1, <2>5 DEF CallbackTask, CallbackBegin, CallbackTest, CallbackReceive, CallbackExit,
                      RepeatStatus, vars
  <2>. QED BY <2>3, <2>4, <2>5 DEF Deliver
<1>. QED BY <1>1, <1>2, SameCore

LEMMA StepInv == PcOK /\ Inv /\ [Next]_vars => Inv'
<1> SUFFICES ASSUME PcOK, Inv, [Next]_vars, ~overlapped' PROVE Together'
  BY DEF Inv
<1>1. CASE UNCHANGED vars
  <2>1. UNCHANGED core /\ UNCHANGED <<packetOld, validOld>> /\ Together
    BY <1>1 DEF vars, core, flagVars, ownerVars, timeVars, Inv
  <2>. QED BY <2>1, SameCore DEF Together, Lifetimes
<1>2. CASE Next
  <2>1. ~Ended /\ Together
    BY <1>2 DEF Next, Ended, Inv
  <2>2. CASE Start
    BY <2>1, <2>2, StartKeeps
  <2>. QED
    BY <1>2, <2>1, <2>2, ServiceTaskKeeps, RecoveryTaskKeeps, OwnerTaskKeeps, ResetKeeps, OthersKeep
    DEF Next
<1>. QED BY <1>1, <1>2

LEMMA InvAlways == Spec => [](PcOK /\ Inv)
<1>1. Init => PcOK /\ Inv
  BY InitPlaces, InitInv
<1>2. PcOK /\ Inv /\ [Next]_vars => (PcOK /\ Inv)'
  BY StepPlaces, StepInv
<1>. QED BY <1>1, <1>2, PTL DEF Spec

-----------------------------------------------------------------------------
(* The callback task. *)

LEMMA StepCallback == CallbackInv /\ [Next]_vars => CallbackInv'
<1> SUFFICES ASSUME CallbackInv, [Next]_vars PROVE CallbackInv'
  OBVIOUS
<1> USE DEF CallbackInv, callbackVars
<1>1. CASE UNCHANGED <<callbackVars, queue>>
  BY <1>1
<1>2. CASE CallbackTask \/ RepeatStatus
  BY <1>2 DEF CallbackTask, CallbackBegin, CallbackTest, CallbackReceive, CallbackExit, RepeatStatus
<1>3. CASE Start
  BY <1>3 DEF Start, StartWhen, CreateCallbackTask, AnyTaskKnown
<1>4. CASE StopCallback \/ JoinCallback
  BY <1>4 DEF StopCallback, JoinCallback
<1>5. CASE DriverStage("owner") \/ DriverStage("service") \/ DriverStage("recovery")
  BY <1>1, <1>5 DEF DriverStage, OpenHardReset, OpenDriver, DevReset, ResetAwaited, Settled,
                     CalibrationSet, CallAborted, EnableSensor
<1>6. CASE StartService \/ Started \/ StartFailed \/ Stop \/ WaitForTasks
  BY <1>1, <1>6 DEF StartService, Started, StartFailed, Stop, WaitForTasks, WaitFor
<1>7. CASE ServiceTask
  BY <1>1, <1>5, <1>7
  DEF ServiceTask, ServiceBegin, TestStop, CalibrationSaved, NothingToDo, ResetNoticed, SoftReset,
      ServiceFailed, RequestRecovery, SpawnRecovery, ServiceStops, ServiceQuits
<1>8. CASE RecoveryTask
  BY <1>1, <1>5, <1>8
  DEF RecoveryTask, Attempt, AttemptFailed, Recovered, Handover, GiveUp, ClearRecovery, RestartOrEnd
<1>9. CASE HubResets \/ HubHangs \/ PacketsStop \/ ValidEventsStop \/ \E u \in Users : Deliver(u)
  BY <1>1, <1>9 DEF HubResets, HubHangs, PacketsStop, ValidEventsStop, Deliver, DeliverReset,
                    NoticeReset, DeliverSensor
<1>10. CASE UNCHANGED vars
  BY <1>1, <1>10 DEF vars
<1>. QED
  BY <1>2, <1>3, <1>4, <1>5, <1>6, <1>7, <1>8, <1>9, <1>10 DEF Next, OwnerTask

LEMMA CallbackAlways == Spec => []CallbackInv
<1>1. Init => CallbackInv
  BY DEF Init, CallbackInv
<1>. QED BY <1>1, StepCallback, PTL DEF Spec

-----------------------------------------------------------------------------
(* What the hub is told and what is told of it. *)

(* Two users inside the driver are one. *)
LEMMA OneUser ==
  ASSUME PcOK, Together, NEW u \in Users, NEW v \in Users, UsesDriver(u), UsesDriver(v)
  PROVE  u = v
  BY DEF Together, Lifetimes, AllGone, UsesDriver, Users, PcOK, Owner, Service, Recovery,
         OwnerPcs, ServicePcs, RecoveryPcs, Stages

HubOK == hub \in [alive : BOOLEAN, sensors : SUBSET Sensors, notice : BOOLEAN]

LEMMA StepHub == HubOK /\ [Next]_vars => HubOK'
<1> SUFFICES ASSUME HubOK, [Next]_vars PROVE HubOK'
  OBVIOUS
<1> USE DEF HubOK
<1>1. ASSUME HardReset PROVE HubOK'
  <2>1. PICK alive \in BOOLEAN : hub' = [alive |-> alive, sensors |-> {}, notice |-> alive]
    BY <1>1 DEF HardReset
  <2>. QED BY <2>1
<1>2. ASSUME CloseAndReset PROVE HubOK'
  BY <1>1, <1>2 DEF CloseAndReset
<1>3. CASE PacketsStop \/ ValidEventsStop \/ CallbackTask \/ RepeatStatus
  BY <1>3 DEF PacketsStop, ValidEventsStop, CallbackTask, CallbackBegin, CallbackTest,
              CallbackReceive, CallbackExit, RepeatStatus
<1>4. CASE HubResets
  BY <1>4 DEF HubResets
<1>5. CASE HubHangs
  BY <1>5 DEF HubHangs
<1>6. CASE \E u \in Users : Deliver(u)
  BY <1>6 DEF Deliver, DeliverReset, NoticeReset, DeliverSensor
<1>7. ASSUME NEW u \in Users, DriverStage(u) PROVE HubOK'
  <2>1. CASE OpenHardReset(u)
    BY <1>1, <2>1 DEF OpenHardReset
  <2>2. CASE OpenDriver(u)
    BY <2>2 DEF OpenDriver
  <2>3. CASE ResetAwaited(u) \/ Settled(u) \/ CalibrationSet(u) \/ CallAborted(u)
    BY <2>3 DEF ResetAwaited, Settled, CalibrationSet, CallAborted
  <2>4. CASE EnableSensor(u)
    <3>1. hub' = hub \/ hub' = [hub EXCEPT !.sensors = hub.sensors \cup {pc[u]}]
      BY <2>4 DEF EnableSensor
    <3>2. pc[u] \in Sensors
      BY <2>4 DEF EnableSensor
    <3>. QED BY <3>1, <3>2
  <2>5. CASE DevReset(u)
    BY <2>5 DEF DevReset
  <2>. QED BY <1>7, <2>1, <2>2, <2>3, <2>4, <2>5 DEF DriverStage
<1>8. CASE ServiceTask
  BY <1>2, <1>7, <1>8
  DEF ServiceTask, ServiceBegin, TestStop, CalibrationSaved, NothingToDo, ResetNoticed, SoftReset,
      ServiceFailed, RequestRecovery, SpawnRecovery, ServiceStops, ServiceQuits, Users
<1>9. CASE RecoveryTask
  BY <1>7, <1>9 DEF RecoveryTask, Attempt, AttemptFailed, Recovered, Handover, GiveUp, ClearRecovery,
                    RestartOrEnd, Users
<1>10. CASE Start \/ Stop \/ OwnerTask
  BY <1>2, <1>7, <1>10 DEF Start, StartWhen, Stop, OwnerTask, StartService, Started, StartFailed,
                          WaitForTasks, WaitFor, StopCallback, JoinCallback, Users
<1>11. CASE UNCHANGED vars
  BY <1>11 DEF vars
<1>. QED BY <1>3, <1>6, <1>8, <1>9, <1>10, <1>11, <1>4, <1>5 DEF Next

(* While sensors are being enabled the service does not take them for      *)
(* enabled, and unless a reset spoils it, each stage finds those of the    *)
(* stages before.                                                          *)
Unspoilt == hub.alive /\ ~hub.notice /\ ~interrupted
Enabling == {"devReset", "await", "settle", "cal", "acc", "rot", "rate"}

Configuring ==
  /\ Unspoilt /\ enabled => hub.sensors = Sensors
  /\ \A u \in Users :
       /\ pc[u] \in Enabling => ~enabled
       /\ Unspoilt /\ pc[u] = "rot" => "acc" \in hub.sensors
       /\ Unspoilt /\ pc[u] = "rate" => {"acc", "rot"} \subseteq hub.sensors

(* Most steps enter no such stage, enable nothing and leave the hub alone,  *)
(* or with a reset to be noticed.                                          *)
HubSpoilt == hub'.alive => hub'.notice
Quiet == (enabled' => enabled) /\ UNCHANGED interrupted /\ (UNCHANGED hub \/ HubSpoilt)

LEMMA QuietKeeps ==
  ASSUME Configuring, Quiet, \A u \in Users : pc'[u] = pc[u] \/ pc'[u] \notin Enabling
  PROVE  Configuring'
  BY DEF Configuring, Quiet, HubSpoilt, Unspoilt, Enabling

LEMMA QuietGoto ==
  ASSUME PcOK, Configuring, Quiet, NEW u \in Users, NEW p \in Places \ Enabling, Goto(u, p)
  PROVE  Configuring'
  BY GotoMoves, QuietKeeps

LEMMA ResetSpoils == ASSUME HardReset PROVE HubSpoilt
  BY DEF HardReset, HubSpoilt

LEMMA CloseSpoils == ASSUME CloseAndReset PROVE UNCHANGED hub \/ HubSpoilt
  BY ResetSpoils DEF CloseAndReset

(* A stage of the driver calls. *)
LEMMA StageConfigures ==
  ASSUME PcOK, Together, HubOK, Configuring, NEW u \in Users, DriverStage(u)
  PROVE  Configuring'
<1>1. \A v \in Users \ {u} : pc'[v] = pc[v] /\ pc[v] \notin Enabling
  <2> SUFFICES ASSUME NEW v \in Users \ {u} PROVE pc'[v] = pc[v] /\ pc[v] \notin Enabling
    OBVIOUS
  <2>1. UsesDriver(u) /\ pc'[v] = pc[v]
    BY StageMoves DEF UsesDriver
  <2>2. pc[v] \in Enabling => UsesDriver(v)
    BY DEF Enabling, UsesDriver, Stages
  <2>. QED BY <2>1, <2>2, OneUser
<1>2. ASSUME NEW s, Fails(u, s), Quiet PROVE Configuring'
  BY <1>2, FailsMoves, QuietGoto, PlacesAre DEF Stages, Enabling
<1>3. CASE OpenHardReset(u)
  BY <1>2, <1>3, ResetSpoils, QuietGoto, PlacesAre
  DEF OpenHardReset, driverVars, serviceVars, Quiet, Stages, Enabling
<1>4. CASE OpenDriver(u)
  <2>1. CASE Goto(u, "devReset") /\ ~enabled'
    <3>1. pc'[u] = "devReset" /\ UNCHANGED <<hub, interrupted>>
      BY <1>4, <2>1, GotoMoves, PlacesAre DEF OpenDriver, serviceVars, Stages
    <3>. QED BY <1>1, <2>1, <3>1 DEF Configuring, Unspoilt, Enabling
  <2>2. ASSUME NEW s, Fails(u, s), UNCHANGED enabled PROVE Configuring'
    BY <1>2, <1>4, <2>2 DEF OpenDriver, serviceVars, Quiet
  <2>. QED BY <1>4, <2>1, <2>2 DEF OpenDriver
<1>5. CASE DevReset(u)
  <2>1. hub'.alive => hub'.notice
    BY <1>5 DEF DevReset, HubOK
  <2>2. pc[u] = "devReset" /\ pc'[u] = "await" /\ UNCHANGED enabled
    BY <1>5, GotoMoves, PlacesAre DEF DevReset, driverVars, Stages
  <2>. QED BY <1>1, <2>1, <2>2 DEF Configuring, Unspoilt, Enabling
<1>6. CASE ResetAwaited(u)
  <2>1. UNCHANGED <<enabled, interrupted, hub>> /\ pc[u] = "await"
    BY <1>6 DEF ResetAwaited, driverVars, serviceVars
  <2>2. CASE Goto(u, "settle")
    <3>1. pc'[u] = "settle"
      BY <2>2, GotoMoves, PlacesAre DEF Stages
    <3>. QED BY <1>1, <2>1, <3>1 DEF Configuring, Unspoilt, Enabling
  <2>3. CASE Fails(u, status)
    BY <1>2, <2>1, <2>3 DEF Quiet
  <2>. QED BY <1>6, <2>2, <2>3 DEF ResetAwaited
<1>7. CASE Settled(u)
  <2>1. UNCHANGED <<enabled, hub>> /\ pc[u] = "settle" /\ pc'[u] = "cal"
    BY <1>7, GotoMoves, PlacesAre DEF Settled, driverVars, Stages
  <2>. QED BY <1>1, <2>1 DEF Configuring, Unspoilt, Enabling
<1>8. CASE CalibrationSet(u) \/ CallAborted(u)
  <2>1. UNCHANGED <<enabled, interrupted, hub>>
    BY <1>8 DEF CalibrationSet, CallAborted, driverVars, serviceVars
  <2>2. CASE pc[u] = "cal" /\ Goto(u, "acc")
    <3>1. pc'[u] = "acc"
      BY <2>2, GotoMoves, PlacesAre DEF Stages
    <3>. QED BY <1>1, <2>1, <2>2, <3>1 DEF Configuring, Unspoilt, Enabling
  <2>3. CASE Fails(u, status)
    BY <1>2, <2>1, <2>3 DEF Quiet
  <2>. QED BY <1>8, <2>2, <2>3 DEF CalibrationSet, CallAborted
<1>9. CASE EnableSensor(u)
  <2>1. UNCHANGED interrupted /\ pc[u] \in {"acc", "rot", "rate"} /\ ~enabled
    BY <1>9 DEF EnableSensor, serviceVars, Sensors, Configuring, Enabling
  <2>2. Goto(u, NextStage(u)) /\ (pc[u] # "rate" => UNCHANGED enabled)
    BY <1>9 DEF EnableSensor
  <2>3. CASE hub.alive
    <3>1. /\ hub'.alive = hub.alive /\ hub'.notice = hub.notice
          /\ hub'.sensors = hub.sensors \cup {pc[u]} /\ hub.sensors \subseteq Sensors
      BY <1>9, <2>3 DEF EnableSensor, HubOK
    <3>2. CASE pc[u] = "acc"
      <4>1. pc'[u] = "rot"
        BY <2>2, <3>2, GotoMoves, PlacesAre DEF NextStage, Stages
      <4>. QED BY <1>1, <2>1, <2>2, <3>1, <3>2, <4>1 DEF Configuring, Unspoilt
    <3>3. CASE pc[u] = "rot"
      <4>1. pc'[u] = "rate"
        BY <2>2, <3>3, GotoMoves, PlacesAre DEF NextStage, Stages
      <4>. QED BY <1>1, <2>1, <2>2, <3>1, <3>3, <4>1 DEF Configuring, Unspoilt
    <3>4. CASE pc[u] = "rate"
      <4>1. pc'[u] \in {"loop", "opened"}
        BY <2>2, <3>4, GotoMoves, PlacesAre DEF NextStage, Stages
      <4>2. Unspoilt' => hub'.sensors = Sensors
        BY <2>1, <3>1, <3>4 DEF Configuring, Unspoilt, Sensors
      <4>. QED BY <1>1, <4>1, <4>2 DEF Configuring, Enabling
    <3>. QED BY <2>1, <3>2, <3>3, <3>4
  <2>4. CASE ~hub.alive
    <3>1. ~Unspoilt'
      BY <1>9, <2>4 DEF EnableSensor, HubOK, Unspoilt
    <3>2. pc'[u] = NextStage(u)
      BY <2>1, <2>2, GotoMoves, PlacesAre DEF NextStage, Stages
    <3>3. pc'[u] \in Enabling => pc[u] # "rate"
      BY <2>1, <3>2 DEF NextStage, Enabling
    <3>. QED BY <1>1, <2>1, <2>2, <3>1, <3>3 DEF Configuring
  <2>. QED BY <2>3, <2>4
<1>. QED BY <1>3, <1>4, <1>6, <1>7, <1>9, <1>5, <1>8 DEF DriverStage

LEMMA InitConfiguring == Init => HubOK /\ Configuring
  BY DEF Init, Configuring, HubOK, Users, Enabling

LEMMA StepConfiguring ==
  ASSUME PcOK, Inv, HubOK, ~overlapped => Configuring, [Next]_vars, ~overlapped'
  PROVE  Configuring'
<1>1. CASE UNCHANGED vars
  BY <1>1 DEF vars, driverVars, serviceVars, ownerVars, Configuring, Unspoilt
<1> SUFFICES ASSUME Next PROVE Configuring'
  BY <1>1
<1>2. Together /\ Configuring
  BY DEF Next, Ended, Inv
<1> USE StringPlaces, PlacesAre DEF flagVars, driverVars, serviceVars, Quiet, Enabling
<1>3. ASSUME NEW u \in Users, DriverStage(u) PROVE Configuring'
  BY <1>2, <1>3, StageConfigures
<1>4. CASE HubResets \/ HubHangs \/ PacketsStop \/ ValidEventsStop \/ CallbackTask \/ RepeatStatus
  <2>1. UNCHANGED hub \/ HubSpoilt
    <3>1. CASE HubResets
      BY <3>1 DEF HubResets, HubOK, HubSpoilt
    <3>2. CASE HubHangs
      BY <3>2 DEF HubHangs, HubSpoilt
    <3>. QED
      BY <1>4, <3>1, <3>2 DEF PacketsStop, ValidEventsStop, CallbackTask, CallbackBegin,
              CallbackTest, CallbackReceive, CallbackExit, RepeatStatus
  <2>2. UNCHANGED <<pc, enabled, interrupted>>
    BY <1>4 DEF HubResets, HubHangs, PacketsStop, ValidEventsStop, CallbackTask, CallbackBegin,
              CallbackTest, CallbackReceive, CallbackExit, RepeatStatus
  <2>. QED BY <1>2, <2>1, <2>2, QuietKeeps
<1>5. ASSUME NEW u \in Users, Deliver(u) PROVE Configuring'
  <2>1. CASE DeliverReset(u)
    <3>1. /\ ~enabled' /\ (interrupted \/ pc[u] \in {"rot", "rate"} => interrupted')
          /\ hub' = [hub EXCEPT !.notice = FALSE]
      BY <2>1 DEF DeliverReset, NoticeReset
    <3>5. \A v \in Users : pc'[v] \in {"rot", "rate"} => pc'[v] = pc[v]
      BY <2>1, ResetMoves
    <3>2. CASE \E v \in Users : pc[v] \in {"rot", "rate"}
      <4>1. PICK v \in Users : pc[v] \in {"rot", "rate"}
        BY <3>2
      <4>2. UsesDriver(v) /\ UsesDriver(u)
        BY <2>1, <4>1 DEF DeliverReset, NoticeReset, Servicing, DriverCalls, UsesDriver, Stages
      <4>3. interrupted'
        BY <1>2, <3>1, <4>1, <4>2, OneUser
      <4>. QED BY <3>1, <4>3 DEF Configuring, Unspoilt
    <3>3. CASE \A v \in Users : pc[v] \notin {"rot", "rate"}
      BY <3>1, <3>3, <3>5 DEF Configuring
    <3>. QED BY <3>2, <3>3
  <2>2. CASE \E s \in Sensors, accurate \in BOOLEAN : DeliverSensor(u, s, accurate)
    BY <1>2, <2>2, QuietKeeps DEF DeliverSensor
  <2>. QED BY <1>5, <2>1, <2>2 DEF Deliver
<1>6. CASE ServiceBegin \/ TestStop \/ CalibrationSaved \/ NothingToDo \/ ServiceFailed
  BY <1>2, <1>6, QuietGoto DEF ServiceBegin, TestStop, CalibrationSaved, NothingToDo, ServiceFailed,
                               Users
<1>7. CASE RequestRecovery \/ ServiceStops \/ ServiceQuits
  BY <1>2, <1>7, QuietGoto, CloseSpoils DEF RequestRecovery, ServiceStops, ServiceQuits, Users
<1>8. CASE ResetNoticed
  <2>1. ~enabled /\ UNCHANGED <<enabled, interrupted, hub>> /\ pc'["service"] = "settle"
        /\ \A v \in Users \ {"service"} : pc'[v] = pc[v]
    BY <1>8, GotoMoves DEF ResetNoticed, MustConfigure, Users
  <2>. QED BY <1>2, <2>1 DEF Configuring, Unspoilt
<1>9. CASE SoftReset
  <2>1. ~enabled' /\ UNCHANGED <<interrupted, hub>> /\ pc'["service"] = "devReset"
        /\ \A v \in Users \ {"service"} : pc'[v] = pc[v]
    BY <1>9, GotoMoves DEF SoftReset, Users
  <2>. QED BY <1>2, <2>1 DEF Configuring, Unspoilt
<1>10. CASE SpawnRecovery
  <2>1. CASE pc' = [pc EXCEPT !["service"] = "none", !["recovery"] = "attempt"]
    BY <1>2, <1>10, <2>1, TwoGo, QuietKeeps DEF SpawnRecovery, Users
  <2>2. CASE UNCHANGED pc
    BY <1>2, <1>10, <2>2, QuietKeeps DEF SpawnRecovery
  <2>. QED BY <1>10, <2>1, <2>2 DEF SpawnRecovery
<1>11. CASE Attempt \/ AttemptFailed \/ Handover \/ GiveUp
  BY <1>2, <1>11, QuietGoto DEF Attempt, AttemptFailed, Handover, GiveUp, ClearRecovery, Users
<1>12. CASE Recovered
  <2>1. CASE pc' = [pc EXCEPT !["recovery"] = "handover", !["service"] = "begin"]
    BY <1>2, <1>12, <2>1, TwoGo, QuietKeeps DEF Recovered, Users
  <2>2. CASE UNCHANGED pc
    BY <1>2, <1>12, <2>2, QuietKeeps DEF Recovered
  <2>. QED BY <1>12, <2>1, <2>2 DEF Recovered
<1>13. CASE RestartOrEnd
  BY <1>2, <1>13, QuietGoto, QuietKeeps DEF RestartOrEnd, Users
<1>14. CASE Start
  BY <1>2, <1>14, QuietGoto, QuietKeeps DEF Start, StartWhen, CreateCallbackTask, Users
<1>15. CASE StartService
  <2>1. CASE pc' = [pc EXCEPT !["owner"] = "started", !["service"] = "begin"] /\ UNCHANGED hub
    BY <1>2, <1>15, <2>1, TwoGo, QuietKeeps DEF StartService, Users
  <2>2. CASE Goto("owner", "stopCallback") /\ CloseAndReset
    BY <1>2, <1>15, <2>2, CloseSpoils, QuietGoto DEF StartService, Users
  <2>. QED BY <1>15, <2>1, <2>2 DEF StartService
<1>16. CASE Started \/ Stop \/ StopCallback \/ JoinCallback
  BY <1>2, <1>16, QuietGoto DEF Started, Stop, StopCallback, JoinCallback, Users
<1>17. CASE StartFailed
  BY <1>2, <1>17, CloseSpoils, QuietGoto DEF StartFailed, Users
<1>18. CASE WaitForTasks
  BY <1>2, <1>18, QuietGoto DEF WaitForTasks, WaitFor, Users
<1>. QED
  BY <1>3, <1>4, <1>5, <1>6, <1>7, <1>8, <1>9, <1>10, <1>11, <1>12, <1>13, <1>14, <1>15, <1>16, <1>17,
     <1>18
  DEF Next, ServiceTask, RecoveryTask, OwnerTask, Users

LEMMA ConfiguringAlways == Spec => [](~overlapped => Configuring)
<1>1. PcOK /\ Inv /\ HubOK /\ (~overlapped => Configuring) /\ [Next]_vars
        => (~overlapped => Configuring)'
  BY StepConfiguring
<1>. QED BY <1>1, InitConfiguring, StepHub, InvAlways, PTL DEF Spec

(* A recovery under way has found no sensor that could report HEALTHY, and  *)
(* the report of Start is over before a service it created can have failed. *)
Fresh == {"open", "devReset", "await", "settle", "cal", "acc", "aborted"}

Reporting ==
  /\ Owner = "started" =>
       /\ Service \in {"begin", "loop", "poll", "settle"} /\ Recovery = "none" /\ ~stopRequested
       /\ Service \in {"loop", "poll"} => ~packetOld /\ ~validOld
  /\ Recovery \in Fresh \cup {"failed"} => status # "HEALTHY"
  /\ Recovery \in Fresh => hub.sensors = {}

(* Steps of the driver, of whichever task. *)
LEMMA StageReports ==
  ASSUME PcOK, Together, HubOK, Reporting, NEW u \in Users, DriverStage(u)
  PROVE  Reporting'
<1> USE StringPlaces, PlacesAre DEF UpdateStatus, Fresh
<1>1. CASE u = "owner"
  <2>1. /\ Owner' # "started" /\ Recovery = "none" /\ Recovery' = "none"
    BY <1>1, StageMoves DEF Together, Lifetimes, AllGone, Owner, Recovery, Stages
  <2>. QED BY <2>1 DEF Reporting
<1>2. CASE u = "service"
  <2>1. /\ Service \in Stages /\ Service' \in Stages \cup {"loop"} /\ UNCHANGED <<Owner, Recovery>>
        /\ Service = "settle" => HandoverIsOver
    BY <1>2, StageMoves DEF Owner, Service, Recovery
  <2>2. Recovery \in {"none", "handover"}
    BY <2>1 DEF Together, Lifetimes, Stages
  <2>3. Owner # "started"
    BY <2>1 DEF Reporting, HandoverIsOver, Owner, Stages
  <2>. QED BY <2>1, <2>2, <2>3 DEF Reporting
<1>3. CASE u = "recovery"
  <2>1. Recovery \in Stages /\ UNCHANGED Owner /\ Owner # "started"
    BY <1>3, StageMoves DEF Owner, Recovery, Reporting, Stages
  <2>2. ASSUME NEW s, Fails("recovery", s), s # "HEALTHY" PROVE Reporting'
    <3>1. status' # "HEALTHY"
      BY <2>2 DEF Fails, FailureStatus
    <3>2. Recovery' = "failed"
      BY <2>2, FailsMoves, RecoveryOnly, PlacesAre
    <3>. QED BY <2>1, <3>1, <3>2 DEF Reporting
  <2>3. CASE OpenHardReset(u)
    <3>1. CASE HardReset /\ UpdateStatus("IMU_UNAVAILABLE") /\ Goto(u, "open")
      <4>1. hub'.sensors = {} /\ status' # "HEALTHY"
        BY <3>1 DEF HardReset
      <4>2. Recovery' = "open"
        BY <1>3, <3>1, RecoveryOnly DEF Stages
      <4>. QED BY <2>1, <4>1, <4>2 DEF Reporting
    <3>. QED BY <1>3, <2>2, <2>3, <3>1 DEF OpenHardReset
  <2>4. ASSUME Recovery \in Fresh, NEW p \in Fresh, Goto(u, p), UNCHANGED status, hub'.sensors = {}
        PROVE  Reporting'
    <3>1. Recovery' = p
      BY <1>3, <2>4, RecoveryOnly DEF Stages
    <3>. QED BY <2>1, <2>4, <3>1 DEF Reporting
  <2>5. ASSUME Recovery \in Fresh, Fails(u, status) PROVE Reporting'
    BY <1>3, <2>2, <2>5 DEF Reporting
  <2>6. CASE OpenDriver(u)
    <3>1. Recovery \in Fresh /\ UNCHANGED hub /\ hub.sensors = {}
      BY <1>3, <2>6 DEF OpenDriver, Reporting, Recovery
    <3>2. CASE Goto(u, "devReset") /\ UNCHANGED statusVars
      BY <2>4, <3>1, <3>2 DEF statusVars
    <3>. QED BY <1>3, <2>2, <2>5, <2>6, <3>1, <3>2 DEF OpenDriver
  <2>7. CASE DevReset(u)
    <3>1. Recovery \in Fresh /\ Goto(u, "await") /\ UNCHANGED statusVars
      BY <1>3, <2>7 DEF DevReset, Recovery
    <3>2. hub'.sensors = {}
      BY <2>7 DEF DevReset, HubOK
    <3>. QED BY <2>4, <3>1, <3>2 DEF statusVars
  <2>8. CASE ResetAwaited(u) \/ Settled(u) \/ CalibrationSet(u) \/ CallAborted(u)
    <3>1. Recovery \in Fresh /\ UNCHANGED hub /\ hub.sensors = {}
      BY <1>3, <2>8 DEF ResetAwaited, Settled, CalibrationSet, CallAborted, Reporting, Recovery
    <3>2. CASE UNCHANGED statusVars /\ \E p \in {"settle", "cal", "acc"} : Goto(u, p)
      BY <2>4, <3>1, <3>2 DEF statusVars
    <3>. QED
      BY <2>5, <2>8, <3>1, <3>2 DEF ResetAwaited, Settled, CalibrationSet, CallAborted
  <2>9. CASE EnableSensor(u)
    <3>1. NextStage(u) \in {"rot", "rate", "opened"} /\ Goto(u, NextStage(u))
      BY <1>3, <2>9 DEF EnableSensor, NextStage, Sensors
    <3>2. Recovery' \notin Fresh \cup {"failed"}
      BY <1>3, <3>1, RecoveryOnly DEF Stages
    <3>. QED BY <2>1, <3>2 DEF Reporting
  <2>. QED BY <1>3, <2>3, <2>6, <2>7, <2>8, <2>9 DEF DriverStage
<1>. QED BY <1>1, <1>2, <1>3

(* The service task is alone with an owner whose Start is returning, or    *)
(* with a recovery task that hands over to it.                             *)
LEMMA ServiceReports ==
  ASSUME PcOK, Together, HubOK, Reporting, ServiceTask
  PROVE  Reporting'
<1> USE StringPlaces, PlacesAre DEF flagVars, timeVars, statusVars, ResetEventTimestamps, Fresh
<1>1. CASE DriverStage("service")
  BY <1>1, StageReports
<1>2. CASE CalibrationSaved \/ (TestStop /\ Goto("service", "save"))
  <2>1. Service \in {"loop", "save"} /\ (Service = "loop" => HandoverIsOver)
    BY <1>2, ServiceOnly DEF TestStop, CalibrationSaved, Service
  <2>2. Recovery \in {"none", "handover"} /\ Owner # "started" /\ UNCHANGED <<Owner, Recovery>>
    BY <1>2, <2>1, ServiceOnly DEF CalibrationSaved, HandoverIsOver, Together, Lifetimes, Reporting,
       Owner, Recovery
  <2>. QED BY <2>2 DEF Reporting
<1>3. CASE ServiceBegin \/ (TestStop /\ Goto("service", "poll")) \/ NothingToDo \/ ResetNoticed
  <2>1. \E p \in {"loop", "poll", "settle"} : Goto("service", p)
    BY <1>3 DEF ServiceBegin, TestStop, NothingToDo, ResetNoticed
  <2>2. Service' \in {"loop", "poll", "settle"} /\ UNCHANGED <<Owner, Recovery>>
    BY <2>1, ServiceOnly
  <2>3. Service \notin {"none", "settle"} /\ UNCHANGED <<stopRequested, status, hub>>
    BY <1>3 DEF ServiceBegin, TestStop, NothingToDo, ResetNoticed, Service
  <2>4. Service' \in {"loop", "poll"} /\ Owner = "started" => ~packetOld' /\ ~validOld'
    <3>1. CASE ServiceBegin \/ ResetNoticed
      BY <3>1 DEF ServiceBegin, ResetNoticed
    <3>2. CASE TestStop \/ NothingToDo
      BY <3>2 DEF TestStop, NothingToDo, Reporting, Service
    <3>. QED BY <1>3, <3>1, <3>2
  <2>. QED BY <2>2, <2>3, <2>4 DEF Reporting
<1>4. CASE SoftReset \/ ServiceFailed \/ RequestRecovery \/ ServiceStops
  <2>1. Recovery \in {"none", "handover"} /\ Owner # "started"
    BY <1>4 DEF SoftReset, MustSoftReset, ServiceFailed, RequestRecovery, ServiceStops,
                Together, Lifetimes, Reporting, Service
  <2>2. UNCHANGED <<Owner, Recovery>>
    BY <1>4, ServiceOnly DEF SoftReset, ServiceFailed, RequestRecovery, ServiceStops, Stages
  <2>. QED BY <2>1, <2>2 DEF Reporting
<1>5. CASE ServiceQuits
  <2>1. Owner # "started" /\ Recovery \in {"none", "handover"}
    BY <1>5 DEF ServiceQuits, HandoverIsOver, Together, Lifetimes, Owner, Service
  <2>2. UNCHANGED <<Owner, Recovery>>
    BY <1>5, ServiceOnly DEF ServiceQuits
  <2>. QED BY <2>1, <2>2 DEF Reporting
<1>6. CASE SpawnRecovery
  <2>1. Service = "spawn" /\ Owner # "started" /\ Recovery = "none"
    BY <1>6 DEF SpawnRecovery, Reporting, Service, Together, Lifetimes
  <2>2. CASE pc' = [pc EXCEPT !["service"] = "none", !["recovery"] = "attempt"]
    <3>1. Recovery' = "attempt" /\ Owner' = Owner
      BY <2>2, TwoGo DEF Owner, Recovery
    <3>. QED BY <2>1, <3>1 DEF Reporting
  <2>3. CASE UNCHANGED pc
    BY <2>1, <2>3 DEF Reporting, Owner, Recovery
  <2>. QED BY <1>6, <2>2, <2>3 DEF SpawnRecovery
<1>. QED BY <1>1, <1>3, <1>4, <1>5, <1>6, <1>2 DEF ServiceTask, TestStop

LEMMA RecoveryReports ==
  ASSUME PcOK, Together, HubOK, Reporting, RecoveryTask
  PROVE  Reporting'
<1> USE StringPlaces, PlacesAre DEF Fresh
<1>1. CASE DriverStage("recovery")
  BY <1>1, StageReports
<1>2. CASE Attempt \/ AttemptFailed \/ Handover \/ GiveUp
  <2>1. Owner # "started"
    BY <1>2 DEF Attempt, AttemptFailed, Handover, GiveUp, ClearRecovery, Reporting, Recovery
  <2>2. Recovery' \in {"reset", "giveUp", "attempt", "none", "givenUp"} /\ UNCHANGED Owner
    BY <1>2, RecoveryOnly DEF Attempt, AttemptFailed, Handover, GiveUp, ClearRecovery
  <2>. QED BY <2>1, <2>2 DEF Reporting
<1>3. CASE Recovered
  <2>1. Owner # "started" /\ Recovery = "opened"
    BY <1>3 DEF Recovered, Reporting, Recovery
  <2>2. CASE pc' = [pc EXCEPT !["recovery"] = "handover", !["service"] = "begin"]
    <3>1. Recovery' = "handover" /\ Owner' = Owner
      BY <2>2, TwoGo DEF Owner, Recovery
    <3>. QED BY <2>1, <3>1 DEF Reporting
  <2>3. CASE UNCHANGED pc
    BY <2>1, <2>3 DEF Reporting, Owner, Recovery
  <2>. QED BY <1>3, <2>2, <2>3 DEF Recovered
<1>4. CASE RestartOrEnd
  <2>1. Owner # "started" /\ Recovery = "givenUp"
    BY <1>4 DEF RestartOrEnd, Reporting, Recovery
  <2>2. CASE Goto("recovery", "none")
    BY <2>1, <2>2, RecoveryOnly DEF Reporting
  <2>3. CASE UNCHANGED pc
    BY <2>1, <2>3 DEF Reporting, Owner, Recovery
  <2>. QED BY <1>4, <2>2, <2>3 DEF RestartOrEnd
<1>. QED BY <1>1, <1>2, <1>3, <1>4 DEF RecoveryTask

LEMMA OwnerReports ==
  ASSUME PcOK, Together, HubOK, Reporting, Start \/ Stop \/ OwnerTask,
         Start => AllGone
  PROVE  Reporting'
<1> USE StringPlaces, PlacesAre DEF statusVars, Fresh
<1>1. CASE DriverStage("owner")
  BY <1>1, StageReports
<1>2. CASE Start
  <2>1. Owner' # "started" /\ Recovery' = "none"
    <3>1. CASE Goto("owner", "reset")
      BY <1>2, <3>1, OwnerOnly DEF AllGone
    <3>. QED BY <1>2, <3>1 DEF Start, StartWhen, CreateCallbackTask, AllGone, Owner, Recovery
  <2>. QED BY <2>1 DEF Reporting
<1>3. CASE StartService
  <2>1. Recovery = "none" /\ Service = "none" /\ ~stopRequested /\ UNCHANGED stopRequested
    BY <1>3 DEF StartService, Together, Lifetimes, AllGone, Owner, Stages
  <2>2. CASE pc' = [pc EXCEPT !["owner"] = "started", !["service"] = "begin"]
    <3>1. Service' = "begin" /\ Recovery' = "none"
      BY <2>1, <2>2, TwoGo DEF Service, Recovery
    <3>. QED BY <2>1, <3>1 DEF Reporting
  <2>3. CASE Goto("owner", "stopCallback")
    BY <2>1, <2>3, OwnerOnly DEF Reporting
  <2>. QED BY <1>3, <2>2, <2>3 DEF StartService
<1>4. CASE Started
  <2>1. Owner' = "idle" /\ Recovery' = "none"
    BY <1>4, OwnerOnly DEF Started, Reporting, Owner
  <2>. QED BY <2>1 DEF Reporting
<1>5. CASE StartFailed
  <2>1. Recovery = "none" /\ Owner' = "stopCallback" /\ UNCHANGED Recovery
    BY <1>5, OwnerOnly DEF StartFailed, Together, Lifetimes, AllGone, Owner, Stages
  <2>. QED BY <2>1 DEF Reporting
<1>6. CASE Stop \/ WaitForTasks \/ StopCallback \/ JoinCallback
  <2>1. \E p \in {"waitTask", "waitRunning", "waitHandle", "waitRecovering", "stopCallback",
                  "joinCallback", "idle"} : Goto("owner", p)
    BY <1>6 DEF Stop, WaitForTasks, WaitFor, StopCallback, JoinCallback
  <2>2. Owner' # "started" /\ UNCHANGED <<Recovery, status, hub>>
    BY <1>6, <2>1, OwnerOnly DEF Stop, WaitForTasks, WaitFor, StopCallback, JoinCallback
  <2>. QED BY <2>2 DEF Reporting
<1>. QED BY <1>1, <1>2, <1>3, <1>4, <1>5, <1>6 DEF OwnerTask

(* A value that arrives reports HEALTHY, but none arrives while a recovery *)
(* has enabled nothing.                                                    *)
LEMMA DeliverReports ==
  ASSUME PcOK, Together, HubOK, Reporting, NEW u \in Users, Deliver(u)
  PROVE  Reporting'
<1> USE DEF flagVars, ResetEventTimestamps, UpdateStatus
<1>1. CASE DeliverReset(u)
  <2>1. /\ UNCHANGED stopRequested /\ ~packetOld' /\ ~validOld' /\ status' # "HEALTHY"
        /\ hub' = [hub EXCEPT !.notice = FALSE]
    BY <1>1 DEF DeliverReset, NoticeReset
  <2>2. hub'.sensors = hub.sensors
    BY <2>1 DEF HubOK
  <2>3. /\ Owner' = "started" => Owner = "started" /\ UNCHANGED <<Service, Recovery>>
        /\ Recovery' \in Fresh => Recovery \in Fresh
    BY <1>1, ResetMoves DEF Users, Owner, Service, Recovery, Reporting, Fresh
  <2>. QED BY <2>1, <2>2, <2>3 DEF Reporting
<1>2. ASSUME NEW s \in Sensors, NEW accurate \in BOOLEAN, DeliverSensor(u, s, accurate)
      PROVE  Reporting'
  <2>1. /\ UNCHANGED <<pc, stopRequested, hub>> /\ s \in hub.sensors
        /\ (packetOld' => packetOld) /\ (validOld' => validOld)
    BY <1>2 DEF DeliverSensor
  <2>2. UsesDriver(u)
    BY <1>2 DEF DeliverSensor, Servicing, DriverCalls, UsesDriver, Stages
  <2>3. Recovery # "failed"
    <3>1. SUFFICES ASSUME Recovery = "failed" PROVE FALSE
      OBVIOUS
    <3>2. UsesDriver("recovery") /\ "recovery" \in Users
      BY <3>1 DEF UsesDriver, Recovery, Stages, Users
    <3>3. u = "recovery"
      BY <2>2, <3>2, OneUser
    <3>. QED BY <1>2, <3>1, <3>3 DEF DeliverSensor, Servicing, DriverCalls, Recovery
  <2>. QED BY <2>1, <2>3 DEF Reporting, Owner, Service, Recovery
<1>. QED BY <1>1, <1>2 DEF Deliver

LEMMA OthersReport ==
  ASSUME HubOK, Reporting,
         HubResets \/ HubHangs \/ PacketsStop \/ ValidEventsStop \/ CallbackTask \/ RepeatStatus
  PROVE  Reporting'
<1> USE DEF flagVars, timeVars, statusVars
<1>1. CASE HubResets
  <2>1. hub'.sensors = {} /\ UNCHANGED <<pc, stopRequested, packetOld, validOld, status>>
    BY <1>1 DEF HubResets, HubOK
  <2>. QED BY <2>1 DEF Reporting, Owner, Service, Recovery
<1>2. CASE HubHangs
  <2>1. hub'.sensors = {} /\ UNCHANGED <<pc, stopRequested, packetOld, validOld, status>>
    BY <1>2 DEF HubHangs
  <2>. QED BY <2>1 DEF Reporting, Owner, Service, Recovery
<1>3. CASE PacketsStop \/ ValidEventsStop
  <2>1. Owner # "started" /\ UNCHANGED <<pc, stopRequested, status, hub>>
    BY <1>3 DEF PacketsStop, ValidEventsStop, HandoverIsOver, Owner
  <2>. QED BY <2>1 DEF Reporting, Owner, Service, Recovery
<1>4. CASE CallbackTask \/ RepeatStatus
  BY <1>4 DEF CallbackTask, CallbackBegin, CallbackTest, CallbackReceive, CallbackExit, RepeatStatus,
              Reporting, Owner, Service, Recovery
<1>. QED BY <1>1, <1>2, <1>3, <1>4

LEMMA StepReporting ==
  ASSUME PcOK, Inv, HubOK, ~overlapped => Reporting, [Next]_vars, ~overlapped'
  PROVE  Reporting'
<1>1. CASE UNCHANGED vars
  <2>1. UNCHANGED <<pc, stopRequested, packetOld, validOld, status, hub, overlapped>>
    BY <1>1 DEF vars, flagVars, timeVars, statusVars, ownerVars
  <2>. QED BY <2>1 DEF Reporting, Owner, Service, Recovery
<1>2. CASE Next
  <2>1. Together /\ Reporting
    BY <1>2 DEF Next, Ended, Inv
  <2>2. Start => AllGone
    BY DEF Start, StartWhen, AllGone, Service, Recovery, Users
  <2>. QED
    BY <1>2, <2>1, <2>2, ServiceReports, RecoveryReports, OwnerReports, DeliverReports, OthersReport
    DEF Next
<1>. QED BY <1>1, <1>2

LEMMA ReportingAlways == Spec => [](~overlapped => Reporting)
<1>1. PcOK /\ Inv /\ HubOK /\ (~overlapped => Reporting) /\ [Next]_vars
        => (~overlapped => Reporting)'
  BY StepReporting
<1>2. Init => HubOK /\ Reporting
  BY InitConfiguring DEF Init, Reporting, Owner, Recovery, Users
<1>. QED BY <1>1, <1>2, StepHub, InvAlways, PTL DEF Spec

-----------------------------------------------------------------------------
(* The theorems. *)

(* A service that was started and not stopped is served by the service or  *)
(* the recovery task, whenever one of them fails and in whatever order it  *)
(* and its successor set their flags, or the board restarts (676-745,      *)
(* 918-960).  The model ends where a Start overlaps a task of the run      *)
(* before; there it holds because that task is alive.                      *)
THEOREM SomebodyServes == Spec => []AlwaysServed
<1>1. PcOK /\ Inv /\ ~overlapped => AlwaysServed
  BY DEF Inv, Together, Served, AllGone, AlwaysServed, Service, Recovery
<1>2. Init => AlwaysServed
  BY DEF Init, AlwaysServed
<1>3. PcOK /\ Inv /\ AlwaysServed /\ [Next]_vars => AlwaysServed'
  <2> SUFFICES ASSUME PcOK, Inv, AlwaysServed, [Next]_vars, overlapped' PROVE AlwaysServed'
    BY StepInv DEF Inv, Together, Served, AllGone, AlwaysServed, Service, Recovery
  <2>1. CASE ~overlapped
    <3>1. Start
      BY <2>1 DEF Next, vars, ownerVars, OwnerTask, ServiceTask, RecoveryTask, CallbackTask, DriverStage,
         OpenHardReset, OpenDriver, DevReset, ResetAwaited, Settled, CalibrationSet, CallAborted,
         EnableSensor, ServiceBegin, TestStop, CalibrationSaved, NothingToDo, ResetNoticed, SoftReset,
         ServiceFailed, RequestRecovery, SpawnRecovery,
         ServiceStops, ServiceQuits, Attempt, AttemptFailed, Recovered, Handover, GiveUp, ClearRecovery,
         RestartOrEnd, CallbackBegin, CallbackTest, CallbackReceive, CallbackExit, RepeatStatus,
         StartService, Started, StartFailed, Stop, WaitForTasks, WaitFor, StopCallback, JoinCallback,
         HubResets, HubHangs, PacketsStop, ValidEventsStop, Deliver, DeliverReset, NoticeReset,
         DeliverSensor
    <3>2. ~AllGone
      BY <2>1, <3>1 DEF Start, StartWhen, CreateCallbackTask, AllGone, Service, Recovery, Users
    <3>3. UNCHANGED <<Service, Recovery>>
      BY <3>1, OwnerOnly, StringPlaces DEF Start, StartWhen, CreateCallbackTask, Service, Recovery
    <3>. QED BY <3>2, <3>3 DEF AllGone, AlwaysServed, Service, Recovery
  <2>2. CASE overlapped
    BY <2>2 DEF Next, Ended, vars, ownerVars, AlwaysServed
  <2>. QED BY <2>1, <2>2
<1>. QED BY <1>2, <1>3, InvAlways, PTL DEF Spec

(* The SH-2 driver has one user at a time, although nothing but flags      *)
(* keeps owner, service and recovery apart (676-745, 890-986, 988-1075).   *)
THEOREM OneDriverUser == Spec => []DriverUsedByOneTask
<1>1. ASSUME PcOK, Inv, ~overlapped PROVE Cardinality({u \in Users : UsesDriver(u)}) <= 1
  <2>1. \A u, v \in Users : UsesDriver(u) /\ UsesDriver(v) => u = v
    BY <1>1 DEF Inv, Together, Lifetimes, AllGone, UsesDriver, Users, PcOK, Owner, Service, Recovery,
               OwnerPcs, ServicePcs, RecoveryPcs, Stages
  <2>2. CASE {u \in Users : UsesDriver(u)} = {}
    BY <2>2, FS_EmptySet
  <2>3. CASE \E u \in Users : UsesDriver(u)
    <3>1. PICK u \in Users : UsesDriver(u)
      BY <2>3
    <3>2. {v \in Users : UsesDriver(v)} = {u}
      BY <2>1, <3>1
    <3>. QED BY <3>2, FS_Singleton
  <2>. QED BY <2>2, <2>3
<1>2. PcOK /\ Inv => DriverUsedByOneTask
  BY <1>1 DEF DriverUsedByOneTask
<1>. QED BY <1>2, InvAlways, PTL

(* No task touches the event queue after Stop has deleted it, whichever of *)
(* them Stop has not seen (342-353, 429-443, 512-531, 1068).               *)
THEOREM QueueOutlivesUsers == Spec => []QueueAliveWhenUsed
<1>1. PcOK /\ Inv /\ CallbackInv => QueueAliveWhenUsed
  BY DEF Inv, Together, Lifetimes, Stopping, BothEnd, ServiceEnds, Obeyed, AllGone, CallbackInv,
         QueueAliveWhenUsed, Servicing, DriverCalls, Users, PcOK, Owner, Service, Recovery, OwnerPcs, ServicePcs,
         RecoveryPcs, Stages
<1>. QED BY <1>1, InvAlways, CallbackAlways, PTL

(* A hub the service takes for configured is: whatever resets it, and      *)
(* whichever task enabled its sensors, with the exception of a reset       *)
(* noticed while they are being enabled (429-443, 577-597, 676-745).       *)
THEOREM ConfiguredHub == Spec => []ConfiguredUnlessInterrupted
<1>1. (~overlapped => Configuring) => ConfiguredUnlessInterrupted
  BY DEF Configuring, Unspoilt, ConfiguredUnlessInterrupted
<1>. QED BY <1>1, ConfiguringAlways, PTL

(* A recovery that has failed, or that has not enabled a sensor yet, is    *)
(* not shown as healthy: neither a sensor event nor the report of the Start *)
(* before it comes in between (276, 355-357, 793-857, 936-942, 1048).      *)
THEOREM FailuresReported == Spec => []FailureIsReported
<1>1. (~overlapped => Reporting) => FailureIsReported
  BY DEF Reporting, Fresh, FailureIsReported, Recovery
<1>. QED BY <1>1, ReportingAlways, PTL

=============================================================================
