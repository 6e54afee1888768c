------------------------------ MODULE Sh2Service ------------------------------
(***************************************************************************)
(* The sensor service of the board (src/microcontroller/main/sh2service.c): *)
(* FreeRTOS tasks on two cores that share flags without a lock.  The owner *)
(* (app_main) starts and stops the service; the service task runs the SH-2 *)
(* driver and resets the hub when it falls silent; when that fails it ends *)
(* and leaves a recovery task, which opens the driver anew and creates the *)
(* next service task; the callback task sends what was measured.           *)
(*                                                                         *)
(* The driver calls of the three users are the same stages, and while one  *)
(* services the driver the hub's messages are delivered to event_callback  *)
(* and sensor_callback.  The driver gives up no call: a write is repeated  *)
(* until the hub acknowledges it, and an answer is waited for without a    *)
(* limit, so with a hub that hangs a call need not return.                 *)
(***************************************************************************)
EXTENDS Naturals, FiniteSets

CONSTANTS
  MaxStarts,    \* bound: calls of sh2service_start
  MaxFaults,    \* bound: resets and hangs of the hub by itself
  MaxAttempts   \* SH2SERVICE_RECOVERY_ATTEMPTS

ASSUME BoundsAssumption ==
  MaxStarts \in Nat /\ MaxFaults \in Nat /\ MaxAttempts \in Nat

Users == {"owner", "service", "recovery"}   \* the tasks that use the driver
Sensors == {"acc", "rot", "rate"}           \* those configure_sensors enables
Statuses == {"INITIALIZING", "HEALTHY", "IMU_UNAVAILABLE", "NO_DETECTED_IMU",
             "IMU_RESET_FAILURE", "SENSOR_INITIALIZATION_ERROR"}

VARIABLES
  pc,             \* of each user of the driver
  stopRequested,  \* s_stop_requested
  taskHandle,     \* s_task_handle is set
  running,        \* s_running
  recoveryHandle, \* s_recovery_task_handle is set
  recovering,     \* s_recovering
  ready,          \* s_sh2_ready
  enabled,        \* s_sensors_enabled
  resetSeen,      \* s_reset_seen
  packetOld,      \* s_last_packet_us is more than SH2SERVICE_TIMEOUT_US ago
  validOld,       \* s_last_valid_event_us is
  status,         \* s_last_imu_status
  reported,       \* the status has been sent since it changed
  softReset,      \* the service task is inside soft_reset_sh2
  attempts,       \* of the recovery task
  callback,       \* pc of the callback task
  callbackHandle, \* s_callback_task_handle is set
  callbackRunning,\* s_callback_task_running
  callbackStop,   \* s_callback_task_stop_requested
  queue,          \* s_event_queue exists
  hub,            \* the SH-2: alive, its enabled sensors, an unread reset notice
  faults, starts, \* counters of the bounds
  restarted,      \* esp_restart has been called
  serving,        \* history: Start has succeeded and Stop has not been called
  interrupted,    \* history: a reset was noticed after the first sensor of the
                  \*          latest configuration was enabled
  overlapped      \* history: a Start found a task of an earlier run alive

flagVars == <<stopRequested, taskHandle, running, recoveryHandle, recovering>>
driverVars == <<ready, enabled, resetSeen>>
timeVars == <<packetOld, validOld>>
statusVars == <<status, reported>>
callbackVars == <<callback, callbackHandle, callbackRunning, callbackStop>>
ownerVars == <<starts, serving, overlapped>>
serviceVars == <<softReset, interrupted>>
vars == <<pc, flagVars, driverVars, timeVars, statusVars, serviceVars, attempts,
          callbackVars, queue, hub, faults, ownerVars, restarted>>

Init ==
  /\ pc = [u \in Users |-> IF u = "owner" THEN "idle" ELSE "none"]
  /\ stopRequested = FALSE /\ taskHandle = FALSE /\ running = FALSE
  /\ recoveryHandle = FALSE /\ recovering = FALSE
  /\ ready = FALSE /\ enabled = FALSE /\ resetSeen = FALSE
  /\ packetOld = FALSE /\ validOld = FALSE
  /\ status = "NO_DETECTED_IMU" /\ reported = FALSE
  /\ softReset = FALSE /\ interrupted = FALSE /\ attempts = 0
  /\ callback = "none" /\ callbackHandle = FALSE /\ callbackRunning = FALSE
  /\ callbackStop = FALSE /\ queue = FALSE
  /\ hub \in {[alive |-> a, sensors |-> {}, notice |-> a] : a \in BOOLEAN}
  /\ faults = 0 /\ starts = 0 /\ restarted = FALSE
  /\ serving = FALSE /\ overlapped = FALSE

Goto(u, next) == pc' = [pc EXCEPT ![u] = next]

(* update_imu_status: a changed status is sent once, and the send may fail. *)
UpdateStatus(s) ==
  /\ status' = s
  /\ IF s = status THEN reported' = reported ELSE reported' \in BOOLEAN

ResetEventTimestamps == packetOld' = FALSE /\ validOld' = FALSE

-----------------------------------------------------------------------------
(* The hub, between two calls of the driver.                               *)

HubResets ==
  /\ faults < MaxFaults /\ hub.alive
  /\ hub' = [hub EXCEPT !.sensors = {}, !.notice = TRUE]
  /\ faults' = faults + 1
  /\ UNCHANGED <<pc, flagVars, driverVars, timeVars, statusVars, serviceVars,
                 attempts, callbackVars, queue, ownerVars, restarted>>

HubHangs ==
  /\ faults < MaxFaults /\ hub.alive
  /\ hub' = [alive |-> FALSE, sensors |-> {}, notice |-> FALSE]
  /\ faults' = faults + 1
  /\ UNCHANGED <<pc, flagVars, driverVars, timeVars, statusVars, serviceVars,
                 attempts, callbackVars, queue, ownerVars, restarted>>

(* hard_reset_bno085: the reset pin may or may not bring back a hung hub.  *)
HardReset ==
  \E alive \in {TRUE, hub.alive} :
    hub' = [alive |-> alive, sensors |-> {}, notice |-> alive]

(* Closing down: the driver is closed and the hub is reset, if the pin can *)
(* be configured.                                                          *)
CloseAndReset ==
  \/ HardReset /\ UpdateStatus("IMU_UNAVAILABLE")
  \/ UpdateStatus("IMU_RESET_FAILURE") /\ UNCHANGED hub

(* The task that created the service task returns from its delay of 10 ms  *)
(* before the new one has waited out a second of hub reset, two of settling *)
(* or ten of silence.                                                      *)
HandoverIsOver == pc["recovery"] # "handover" /\ pc["owner"] # "started"

(* Ten seconds pass in the service loop without a packet, or without a     *)
(* rotation of sufficient accuracy.                                        *)
PacketsStop ==
  /\ pc["service"] = "poll" /\ ~packetOld /\ HandoverIsOver
  /\ hub.sensors = {}
  /\ packetOld' = TRUE
  /\ UNCHANGED <<pc, flagVars, driverVars, validOld, statusVars, serviceVars,
                 attempts, callbackVars, queue, hub, faults, ownerVars, restarted>>

ValidEventsStop ==
  /\ pc["service"] = "poll" /\ ~validOld /\ HandoverIsOver
  /\ validOld' = TRUE
  /\ UNCHANGED <<pc, flagVars, driverVars, packetOld, statusVars, serviceVars,
                 attempts, callbackVars, queue, hub, faults, ownerVars, restarted>>

-----------------------------------------------------------------------------
(* The driver calls.  A write (sh2_devReset, sh2_setSensorConfig) returns  *)
(* when the hub acknowledges it: one that hangs may do that and remain     *)
(* mute, or not, and the write is repeated for ever.  An operation         *)
(* (sh2_setFrs, sh2_setCalConfig, sh2_saveDcdNow) also waits for an answer, *)
(* without a limit: its timeout is 0.                                      *)

DriverCalls == {"open", "devReset", "cal", "acc", "rot", "rate", "aborted", "save"}

Answers == hub.alive

(* A reset that the hub announces ends an operation with an error; when it *)
(* comes in sh2_open, or while the request is being written, the call goes *)
(* on.                                                                     *)
AfterReset(u) ==
  CASE pc[u] = "open" -> {"open", "aborted"}
    [] pc[u] = "cal" -> {"aborted"}
    [] pc[u] = "save" -> {"save", "poll"}
    [] OTHER -> {pc[u]}

(* The driver is serviced by sh2_service and inside its own calls.         *)
Servicing(u) ==
  pc[u] \in (DriverCalls \ {"aborted"}) \cup {"await", "settle", "poll"}

NoticeReset(u, clear) ==
  /\ Servicing(u) /\ hub.notice
  /\ \E p \in AfterReset(u) : Goto(u, p)
  /\ hub' = [hub EXCEPT !.notice = FALSE]
  /\ ResetEventTimestamps
  /\ resetSeen' = TRUE /\ enabled' = (enabled /\ ~clear)
  /\ interrupted' = (interrupted \/ pc[u] \in {"rot", "rate"})
  /\ UpdateStatus("IMU_UNAVAILABLE")
  /\ UNCHANGED <<flagVars, ready, softReset, attempts, callbackVars, queue, faults,
                 ownerVars, restarted>>

MutDeliverReset(u) == NoticeReset(u, FALSE)

(* event_callback with SH2_RESET. *)
DeliverReset(u) == NoticeReset(u, TRUE)

(* sensor_callback: any value is a packet, only an accurate rotation is a   *)
(* valid event.  Its place in the queue is not modelled.                   *)
DeliverSensor(u, s, accurate) ==
  /\ Servicing(u) /\ s \in hub.sensors
  /\ UpdateStatus("HEALTHY")
  /\ packetOld' = FALSE
  /\ validOld' = (validOld /\ ~(accurate /\ s \in {"rot", "rate"}))
  /\ UNCHANGED <<pc, flagVars, driverVars, serviceVars, attempts, callbackVars,
                 queue, hub, faults, ownerVars, restarted>>

-----------------------------------------------------------------------------
(* The stages of open_sh2 and configure_sensors.  What follows a failure   *)
(* depends on the caller: soft_reset_sh2 reports a reset failure,          *)
(* hard_recover_and_open_sh2 replaces "unavailable" by "not detected".     *)

FailureStatus(u, s) ==
  IF u = "service" THEN IF softReset THEN "IMU_RESET_FAILURE" ELSE s
  ELSE IF s = "IMU_UNAVAILABLE" THEN "NO_DETECTED_IMU" ELSE s

Fails(u, s) ==
  /\ Goto(u, "failed")
  /\ UpdateStatus(FailureStatus(u, s))

MutOpenHardReset(u) ==
  /\ pc[u] = "reset"
  /\ \/ HardReset /\ UNCHANGED statusVars /\ Goto(u, "open")
     \/ Fails(u, "IMU_RESET_FAILURE") /\ UNCHANGED hub
  /\ UNCHANGED <<flagVars, driverVars, timeVars, serviceVars, attempts,
                 callbackVars, queue, faults, ownerVars, restarted>>

(* sh2_close and cleanup_i2c are done; hard_reset_bno085. *)
OpenHardReset(u) ==
  /\ pc[u] = "reset"
  /\ \/ HardReset /\ UpdateStatus("IMU_UNAVAILABLE") /\ Goto(u, "open")
     \/ Fails(u, "IMU_RESET_FAILURE") /\ UNCHANGED hub
  /\ UNCHANGED <<flagVars, driverVars, timeVars, serviceVars, attempts,
                 callbackVars, queue, faults, ownerVars, restarted>>

(* recover_i2c_bus and open_sh2 as far as sh2_devReset: the pins or the    *)
(* bus cannot be set up, the hub refuses the record of sh2_setFrs, or both *)
(* are done.                                                               *)
OpenDriver(u) ==
  /\ pc[u] = "open"
  /\ \/ Fails(u, "NO_DETECTED_IMU") /\ UNCHANGED <<resetSeen, enabled>>
     \/ Answers /\ Fails(u, status) /\ UNCHANGED <<resetSeen, enabled>>
     \/ /\ Answers /\ Goto(u, "devReset")
        /\ resetSeen' = FALSE /\ enabled' = FALSE
        /\ UNCHANGED statusVars
  /\ UNCHANGED <<flagVars, ready, timeVars, serviceVars, attempts, callbackVars,
                 queue, hub, faults, ownerVars, restarted>>

(* sh2_devReset.  Nothing but the write can go wrong, and that is repeated. *)
DevReset(u) ==
  /\ pc[u] = "devReset"
  /\ Goto(u, "await")
  /\ hub' = [hub EXCEPT !.sensors = {}, !.notice = hub.alive]
  /\ UNCHANGED <<flagVars, driverVars, timeVars, statusVars, serviceVars, attempts,
                 callbackVars, queue, faults, ownerVars, restarted>>

(* wait_for_reset ends: the notice has come, the time is over or a stop is *)
(* requested.                                                              *)
ResetAwaited(u) ==
  /\ pc[u] = "await"
  /\ \/ resetSeen /\ Goto(u, "settle") /\ UNCHANGED statusVars
     \/ ~resetSeen /\ Fails(u, status)
  /\ UNCHANGED <<flagVars, driverVars, timeVars, serviceVars, attempts,
                 callbackVars, queue, hub, faults, ownerVars, restarted>>

(* service_for_ms(startup_delay_ms) ends; configure_sensors begins. *)
Settled(u) ==
  /\ pc[u] = "settle" /\ (u = "service" => HandoverIsOver)
  /\ Goto(u, "cal")
  /\ interrupted' = FALSE
  /\ UNCHANGED <<flagVars, driverVars, timeVars, statusVars, softReset, attempts,
                 callbackVars, queue, hub, faults, ownerVars, restarted>>

(* sh2_setCalConfig; its failure is not reported. *)
CalibrationSet(u) ==
  /\ pc[u] = "cal" /\ Answers
  /\ \/ Goto(u, "acc") /\ UNCHANGED statusVars
     \/ Fails(u, status)
  /\ UNCHANGED <<flagVars, driverVars, timeVars, serviceVars, attempts,
                 callbackVars, queue, hub, faults, ownerVars, restarted>>

(* sh2_setFrs or sh2_setCalConfig returns after a reset has ended it. *)
CallAborted(u) ==
  /\ pc[u] = "aborted"
  /\ Fails(u, status)
  /\ UNCHANGED <<flagVars, driverVars, timeVars, serviceVars, attempts,
                 callbackVars, queue, hub, faults, ownerVars, restarted>>

NextStage(u) ==
  CASE pc[u] = "acc" -> "rot"
    [] pc[u] = "rot" -> "rate"
    [] pc[u] = "rate" -> IF u = "service" THEN "loop" ELSE "opened"

(* enable_sensor, once for each sensor.  sh2_setSensorConfig only writes   *)
(* and has no failure: the hub acknowledges it sooner or later, or a mute  *)
(* one does without enabling anything.  So the branches that report        *)
(* SENSOR_INITIALIZATION_ERROR are not reached.  The last stage sets       *)
(* s_sensors_enabled, and its callers renew the timestamps.                *)
EnableSensor(u) ==
  /\ pc[u] \in Sensors
  /\ hub' = [hub EXCEPT !.sensors = IF hub.alive THEN @ \cup {pc[u]} ELSE @]
  /\ Goto(u, NextStage(u))
  /\ IF pc[u] = "rate"
     THEN enabled' = TRUE /\ ResetEventTimestamps
     ELSE UNCHANGED <<enabled, timeVars>>
  /\ UNCHANGED <<flagVars, ready, resetSeen, statusVars, serviceVars, attempts,
                 callbackVars, queue, faults, ownerVars, restarted>>

DriverStage(u) ==
  \/ OpenHardReset(u) \/ OpenDriver(u) \/ DevReset(u) \/ ResetAwaited(u)
  \/ Settled(u) \/ CalibrationSet(u) \/ CallAborted(u) \/ EnableSensor(u)

-----------------------------------------------------------------------------
(* The service task.                                                       *)

ServiceBegin ==
  /\ pc["service"] = "begin"
  /\ Goto("service", "loop")
  /\ running' = TRUE /\ ready' = TRUE
  /\ ResetEventTimestamps
  /\ UNCHANGED <<stopRequested, taskHandle, recoveryHandle, recovering, enabled,
                 resetSeen, statusVars, serviceVars, attempts, callbackVars, queue,
                 hub, faults, ownerVars, restarted>>

(* One iteration: the stop test, sh2_service, now and then the saving of   *)
(* the calibration, and what the flags then say.  The saving is requested  *)
(* after thousands of accurate events; here any iteration may do it.       *)
TestStop ==
  /\ pc["service"] = "loop" /\ ~stopRequested
  /\ \/ Goto("service", "poll")
     \/ HandoverIsOver /\ Goto("service", "save")
  /\ UNCHANGED <<flagVars, driverVars, timeVars, statusVars, serviceVars, attempts,
                 callbackVars, queue, hub, faults, ownerVars, restarted>>

(* sh2_saveDcdNow returns, with success or not. *)
CalibrationSaved ==
  /\ pc["service"] = "save" /\ Answers
  /\ Goto("service", "poll")
  /\ UNCHANGED <<flagVars, driverVars, timeVars, statusVars, serviceVars, attempts,
                 callbackVars, queue, hub, faults, ownerVars, restarted>>

MustConfigure == resetSeen /\ ~enabled
MutMustSoftReset == ready /\ enabled /\ validOld

MustSoftReset == ready /\ enabled /\ (packetOld \/ validOld)

NothingToDo ==
  /\ pc["service"] = "poll" /\ ~MustConfigure /\ ~MustSoftReset
  /\ Goto("service", "loop")
  /\ UNCHANGED <<flagVars, driverVars, timeVars, statusVars, serviceVars, attempts,
                 callbackVars, queue, hub, faults, ownerVars, restarted>>

(* The hub has announced a reset: configure the sensors again. *)
ResetNoticed ==
  /\ pc["service"] = "poll" /\ MustConfigure
  /\ resetSeen' = FALSE
  /\ ResetEventTimestamps
  /\ softReset' = FALSE
  /\ Goto("service", "settle")
  /\ UNCHANGED <<flagVars, ready, enabled, statusVars, interrupted, attempts,
                 callbackVars, queue, hub, faults, ownerVars, restarted>>

(* Either timeout: soft_reset_sh2 as far as sh2_devReset. *)
SoftReset ==
  /\ pc["service"] = "poll" /\ MustSoftReset
  /\ ResetEventTimestamps
  /\ resetSeen' = FALSE /\ enabled' = FALSE
  /\ softReset' = TRUE
  /\ UpdateStatus("IMU_UNAVAILABLE")
  /\ Goto("service", "devReset")
  /\ UNCHANGED <<flagVars, ready, interrupted, attempts, callbackVars, queue, hub,
                 faults, ownerVars, restarted>>

(* A failed configuration or soft reset: the task gives up its flags, then *)
(* tests whether a recovery may be requested, then requests it.            *)
ServiceFailed ==
  /\ pc["service"] = "failed"
  /\ running' = FALSE /\ taskHandle' = FALSE
  /\ Goto("service", "request")
  /\ UNCHANGED <<stopRequested, recoveryHandle, recovering, driverVars, timeVars,
                 statusVars, serviceVars, attempts, callbackVars, queue, hub, faults,
                 ownerVars, restarted>>

MayRequestRecovery == ~stopRequested /\ ~recovering /\ ~recoveryHandle

RequestRecovery ==
  /\ pc["service"] = "request"
  /\ Goto("service", IF MayRequestRecovery THEN "spawn" ELSE "none")
  /\ UNCHANGED <<flagVars, driverVars, timeVars, statusVars, serviceVars, attempts,
                 callbackVars, queue, hub, faults, ownerVars, restarted>>

SpawnRecovery ==
  /\ pc["service"] = "spawn"
  /\ recovering' = TRUE /\ ready' = FALSE /\ enabled' = FALSE /\ resetSeen' = FALSE
  /\ \/ /\ pc' = [pc EXCEPT !["service"] = "none", !["recovery"] = "attempt"]
        /\ recoveryHandle' = TRUE /\ attempts' = 0
        /\ UNCHANGED restarted
     \/ restarted' = TRUE /\ UNCHANGED <<pc, recoveryHandle, attempts>>
  /\ UNCHANGED <<stopRequested, taskHandle, running, timeVars, statusVars,
                 serviceVars, callbackVars, queue, hub, faults, ownerVars>>

(* A stop is requested: close the driver and hold the hub in reset. *)
ServiceStops ==
  /\ pc["service"] = "loop" /\ stopRequested
  /\ ready' = FALSE /\ recovering' = FALSE
  /\ CloseAndReset
  /\ Goto("service", "quit")
  /\ UNCHANGED <<stopRequested, taskHandle, running, recoveryHandle, enabled,
                 resetSeen, timeVars, serviceVars, attempts, callbackVars, queue,
                 faults, ownerVars, restarted>>

ServiceQuits ==
  /\ pc["service"] = "quit" /\ HandoverIsOver
  /\ resetSeen' = FALSE /\ enabled' = FALSE /\ stopRequested' = FALSE
  /\ running' = FALSE /\ taskHandle' = FALSE
  /\ Goto("service", "none")
  /\ UNCHANGED <<recoveryHandle, recovering, ready, timeVars, statusVars,
                 serviceVars, attempts, callbackVars, queue, hub, faults, ownerVars,
                 restarted>>

ServiceTask ==
  \/ DriverStage("service")
  \/ ServiceBegin \/ TestStop \/ CalibrationSaved \/ NothingToDo \/ ResetNoticed \/ SoftReset
  \/ ServiceFailed \/ RequestRecovery \/ SpawnRecovery
  \/ ServiceStops \/ ServiceQuits

-----------------------------------------------------------------------------
(* The recovery task.                                                      *)

Attempt ==
  /\ pc["recovery"] = "attempt"
  /\ IF attempts < MaxAttempts /\ ~stopRequested
     THEN attempts' = attempts + 1 /\ Goto("recovery", "reset")
     ELSE Goto("recovery", "giveUp") /\ UNCHANGED attempts
  /\ UNCHANGED <<flagVars, driverVars, timeVars, statusVars, serviceVars,
                 callbackVars, queue, hub, faults, ownerVars, restarted>>

AttemptFailed ==
  /\ pc["recovery"] = "failed"
  /\ ready' = FALSE
  /\ Goto("recovery", "attempt")
  /\ UNCHANGED <<flagVars, enabled, resetSeen, timeVars, statusVars, serviceVars,
                 attempts, callbackVars, queue, hub, faults, ownerVars, restarted>>

Recovered ==
  /\ pc["recovery"] = "opened"
  /\ UpdateStatus("HEALTHY")
  /\ ready' = TRUE
  /\ \/ /\ taskHandle' = TRUE
        /\ pc' = [pc EXCEPT !["recovery"] = "handover", !["service"] = "begin"]
        /\ UNCHANGED restarted
     \/ restarted' = TRUE /\ UNCHANGED <<taskHandle, pc>>
  /\ UNCHANGED <<stopRequested, running, recoveryHandle, recovering, enabled,
                 resetSeen, timeVars, serviceVars, attempts, callbackVars, queue,
                 hub, faults, ownerVars>>

ClearRecovery(from, next) ==
  /\ pc["recovery"] = from
  /\ recovering' = FALSE /\ recoveryHandle' = FALSE
  /\ Goto("recovery", next)
  /\ UNCHANGED <<stopRequested, taskHandle, running, driverVars, timeVars,
                 statusVars, serviceVars, attempts, callbackVars, queue, hub,
                 faults, ownerVars, restarted>>

MutClearRecovery(from, next) ==
  /\ pc["recovery"] = from
  /\ recovering' = FALSE
  /\ Goto("recovery", next)
  /\ UNCHANGED <<stopRequested, taskHandle, running, recoveryHandle, driverVars,
                 timeVars, statusVars, serviceVars, attempts, callbackVars, queue,
                 hub, faults, ownerVars, restarted>>

MutHandover == MutClearRecovery("handover", "none")

Handover == ClearRecovery("handover", "none")

MutGiveUp == MutClearRecovery("giveUp", "givenUp")

GiveUp == ClearRecovery("giveUp", "givenUp")

(* Without a stop request, restart; otherwise close the driver and end.    *)
RestartOrEnd ==
  /\ pc["recovery"] = "givenUp"
  /\ IF stopRequested
     THEN Goto("recovery", "none") /\ UNCHANGED restarted
     ELSE restarted' = TRUE /\ UNCHANGED pc
  /\ UNCHANGED <<flagVars, driverVars, timeVars, statusVars, serviceVars, attempts,
                 callbackVars, queue, hub, faults, ownerVars>>

RecoveryTask ==
  \/ DriverStage("recovery")
  \/ Attempt \/ AttemptFailed \/ Recovered \/ Handover \/ GiveUp \/ RestartOrEnd

-----------------------------------------------------------------------------
(* The callback task.                                                      *)

CallbackBegin ==
  /\ callback = "begin" /\ callback' = "test"
  /\ callbackRunning' = TRUE
  /\ UNCHANGED <<pc, flagVars, driverVars, timeVars, statusVars, serviceVars,
                 attempts, callbackHandle, callbackStop, queue, hub, faults,
                 ownerVars, restarted>>

(* A second after the last successful send the status is sent again. *)
RepeatStatus ==
  /\ callback = "test" /\ ~callbackStop
  /\ ~reported /\ reported' = TRUE
  /\ UNCHANGED <<pc, flagVars, driverVars, timeVars, status, serviceVars, attempts,
                 callbackVars, queue, hub, faults, ownerVars, restarted>>

CallbackTest ==
  /\ callback = "test"
  /\ callback' = IF callbackStop \/ ~queue THEN "exit" ELSE "receive"
  /\ UNCHANGED <<pc, flagVars, driverVars, timeVars, statusVars, serviceVars,
                 attempts, callbackHandle, callbackRunning, callbackStop, queue, hub,
                 faults, ownerVars, restarted>>

(* An event is received and handed on, or the wait times out. *)
CallbackReceive ==
  /\ callback = "receive" /\ callback' = "test"
  /\ UNCHANGED <<pc, flagVars, driverVars, timeVars, statusVars, serviceVars,
                 attempts, callbackHandle, callbackRunning, callbackStop, queue, hub,
                 faults, ownerVars, restarted>>

CallbackExit ==
  /\ callback = "exit" /\ callback' = "none"
  /\ callbackRunning' = FALSE /\ callbackHandle' = FALSE
  /\ UNCHANGED <<pc, flagVars, driverVars, timeVars, statusVars, serviceVars,
                 attempts, callbackStop, queue, hub, faults, ownerVars, restarted>>

CallbackTask == CallbackBegin \/ CallbackTest \/ CallbackReceive \/ CallbackExit

-----------------------------------------------------------------------------
(* The owner: sh2service_start and sh2service_stop.                        *)

ServiceFlags == taskHandle \/ running \/ recoveryHandle \/ recovering
AnyTaskKnown == ServiceFlags \/ callbackHandle \/ callbackRunning

(* The queue and the callback task, which may both fail to be created. *)
CreateCallbackTask ==
  \/ /\ Goto("owner", "reset")
     /\ queue' = TRUE
     /\ callback' = "begin" /\ callbackHandle' = TRUE /\ callbackStop' = FALSE
  \/ UNCHANGED <<pc, queue, callback, callbackHandle, callbackStop>>

(* Any flag set: ESP_ERR_INVALID_STATE, nothing changes.  Otherwise the    *)
(* state is reset and the queue and the callback task are created, which   *)
(* may fail.                                                               *)
StartWhen(free) ==
  /\ pc["owner"] = "idle" /\ starts < MaxStarts
  /\ free
  /\ starts' = starts + 1
  /\ overlapped' = (~AnyTaskKnown /\ \E u \in Users \ {"owner"} : pc[u] # "none")
  /\ stopRequested' = FALSE /\ recovering' = FALSE
  /\ ready' = FALSE /\ enabled' = FALSE /\ resetSeen' = FALSE
  /\ ResetEventTimestamps
  /\ CreateCallbackTask
  /\ UNCHANGED <<taskHandle, running, recoveryHandle, statusVars, serviceVars,
                 attempts, callbackRunning, hub, faults, serving, restarted>>

MutStart == StartWhen(~running /\ ~recovering)

Start == StartWhen(~AnyTaskKnown)

(* Opened: create the service task; when that fails the hub is held in     *)
(* reset and the callback task is stopped.                                 *)
StartService ==
  /\ pc["owner"] = "opened"
  /\ \/ /\ ready' = TRUE /\ taskHandle' = TRUE /\ serving' = TRUE
        /\ UpdateStatus("HEALTHY")
        /\ pc' = [pc EXCEPT !["owner"] = "started", !["service"] = "begin"]
        /\ UNCHANGED hub
     \/ /\ ready' = FALSE
        /\ CloseAndReset
        /\ Goto("owner", "stopCallback")
        /\ UNCHANGED <<taskHandle, serving>>
  /\ UNCHANGED <<stopRequested, running, recoveryHandle, recovering, enabled,
                 resetSeen, timeVars, serviceVars, attempts, callbackVars, queue,
                 faults, starts, overlapped, restarted>>

Started ==
  /\ pc["owner"] = "started"
  /\ UpdateStatus("HEALTHY")
  /\ Goto("owner", "idle")
  /\ UNCHANGED <<flagVars, driverVars, timeVars, serviceVars, attempts, callbackVars,
                 queue, hub, faults, ownerVars, restarted>>

StartFailed ==
  /\ pc["owner"] = "failed"
  /\ ready' = FALSE
  /\ CloseAndReset
  /\ Goto("owner", "stopCallback")
  /\ UNCHANGED <<flagVars, enabled, resetSeen, timeVars, serviceVars, attempts,
                 callbackVars, queue, faults, ownerVars, restarted>>

Stop ==
  /\ pc["owner"] = "idle" /\ AnyTaskKnown
  /\ stopRequested' = TRUE /\ serving' = FALSE
  /\ Goto("owner", "waitTask")
  /\ UNCHANGED <<taskHandle, running, recoveryHandle, recovering, driverVars,
                 timeVars, statusVars, serviceVars, attempts, callbackVars, queue,
                 hub, faults, starts, overlapped, restarted>>

MutWaitFor(here, flag, next) ==
  /\ pc["owner"] = here
  /\ Goto("owner", next)
  /\ UNCHANGED <<flagVars, driverVars, timeVars, statusVars, serviceVars, attempts,
                 callbackVars, queue, hub, faults, ownerVars, restarted>>

(* The condition of the waiting loop reads the four flags one by one. *)
WaitFor(here, flag, next) ==
  /\ pc["owner"] = here
  /\ Goto("owner", IF flag THEN "waitTask" ELSE next)
  /\ UNCHANGED <<flagVars, driverVars, timeVars, statusVars, serviceVars, attempts,
                 callbackVars, queue, hub, faults, ownerVars, restarted>>

WaitForTasks ==
  \/ WaitFor("waitTask", taskHandle, "waitRunning")
  \/ WaitFor("waitRunning", running, "waitHandle")
  \/ WaitFor("waitHandle", recoveryHandle, "waitRecovering")
  \/ WaitFor("waitRecovering", recovering, "stopCallback")

(* sh2service_stop_callback_task. *)
StopCallback ==
  /\ pc["owner"] = "stopCallback"
  /\ callbackStop' = TRUE
  /\ Goto("owner", "joinCallback")
  /\ UNCHANGED <<flagVars, driverVars, timeVars, statusVars, serviceVars, attempts,
                 callback, callbackHandle, callbackRunning, queue, hub, faults,
                 ownerVars, restarted>>

JoinCallback ==
  /\ pc["owner"] = "joinCallback"
  /\ ~callbackHandle /\ ~callbackRunning
  /\ callbackStop' = FALSE /\ queue' = FALSE
  /\ Goto("owner", "idle")
  /\ UNCHANGED <<flagVars, driverVars, timeVars, statusVars, serviceVars, attempts,
                 callback, callbackHandle, callbackRunning, hub, faults, ownerVars,
                 restarted>>

(* What the owner does without being called again. *)
OwnerTask ==
  \/ DriverStage("owner")
  \/ StartService \/ Started \/ StartFailed
  \/ WaitForTasks \/ StopCallback \/ JoinCallback

-----------------------------------------------------------------------------

Deliver(u) ==
  \/ DeliverReset(u)
  \/ \E s \in Sensors, accurate \in BOOLEAN : DeliverSensor(u, s, accurate)

(* esp_restart ends the program.  After a Start that overlaps a task of     *)
(* the run before, two tasks are inside the driver, which is not made for  *)
(* it: the model ends there as well.                                       *)
Ended == restarted \/ overlapped

Next ==
  /\ ~Ended
  /\ \/ HubResets \/ HubHangs \/ PacketsStop \/ ValidEventsStop
     \/ \E u \in Users : Deliver(u)
     \/ ServiceTask \/ RecoveryTask \/ CallbackTask \/ RepeatStatus
     \/ Start \/ Stop \/ OwnerTask

Spec == Init /\ [][Next]_vars

Runs(A) == ~Ended /\ A

(* No driver call can be relied on to return while the hub hangs.          *)
Returns(u) == pc[u] \in DriverCalls => hub.alive

(* Every task is scheduled, though inside a driver call only as far as the *)
(* hub allows; time passes, and a reset notice is read while the driver is *)
(* serviced.  Nothing is assumed of the hub, of Start or of Stop.          *)
Fairness ==
  /\ WF_vars(Runs(Returns("service") /\ ServiceTask))
  /\ WF_vars(Runs(Returns("recovery") /\ RecoveryTask))
  /\ WF_vars(Runs(Returns("owner") /\ OwnerTask))
  /\ WF_vars(Runs(CallbackTask))
  /\ SF_vars(Runs(PacketsStop))
  /\ \A u \in Users : SF_vars(Runs(DeliverReset(u)))

FairSpec == Spec /\ Fairness

-----------------------------------------------------------------------------
(* Properties.                                                             *)

Stages == {"reset", "open", "devReset", "await", "settle", "cal", "acc", "rot", "rate",
           "aborted", "opened", "failed"}
OwnerPcs == Stages \cup {"idle", "started", "waitTask", "waitRunning", "waitHandle",
                         "waitRecovering", "stopCallback", "joinCallback"}
ServicePcs == (Stages \ {"reset", "open", "opened"})
                \cup {"none", "begin", "loop", "save", "poll", "request", "spawn", "quit"}
RecoveryPcs == Stages \cup {"none", "attempt", "handover", "giveUp", "givenUp"}

(* Type correctness. *)
TypeOK ==
  /\ pc \in [Users -> OwnerPcs \cup ServicePcs \cup RecoveryPcs]
  /\ pc["owner"] \in OwnerPcs /\ pc["service"] \in ServicePcs
  /\ pc["recovery"] \in RecoveryPcs
  /\ \A flag \in {stopRequested, taskHandle, running, recoveryHandle, recovering,
                  ready, enabled, resetSeen, packetOld, validOld, reported, softReset,
                  callbackHandle, callbackRunning, callbackStop, queue, restarted, serving,
                  interrupted, overlapped} : flag \in BOOLEAN
  /\ status \in Statuses /\ attempts \in 0..MaxAttempts
  /\ callback \in {"none", "begin", "test", "receive", "exit"}
  /\ hub \in [alive : BOOLEAN, sensors : SUBSET Sensors, notice : BOOLEAN]
  /\ faults \in 0..MaxFaults /\ starts \in 0..MaxStarts

(* A started service that nobody has stopped is served: a service task or  *)
(* a recovery task is alive, whichever of them fails and hands over        *)
(* (676-745, 918-960); otherwise the board restarts.                       *)
AlwaysServed ==
  serving /\ ~restarted => \E u \in {"service", "recovery"} : pc[u] # "none"

UsesDriver(u) ==
  pc[u] \in Stages \cup {"begin", "loop", "save", "poll", "quit", "givenUp"}

(* The driver has one user at a time, though only flags without a lock     *)
(* keep the tasks apart.  The exception is a Start that follows a Stop     *)
(* which returned while a task was between two of its flags (951-952,      *)
(* 732-741): then the task of the run before meets the new one.            *)
DriverUsedByOneTask ==
  ~overlapped => Cardinality({u \in Users : UsesDriver(u)}) <= 1

(* No task touches the queue after Stop has deleted it (342-353, 429-443,  *)
(* 512-531).                                                               *)
QueueAliveWhenUsed ==
  /\ callback = "receive" => queue
  /\ ~overlapped => \A u \in Users : Servicing(u) => queue

(* What the code takes for a configured hub is one: enabled flag set, no   *)
(* reset waiting to be noticed.  The exception is a reset noticed while    *)
(* the sensors are being enabled, which line 596 covers up.                *)
ConfiguredUnlessInterrupted ==
  pc["service"] \in {"loop", "poll"} /\ enabled /\ hub.alive /\ ~hub.notice
      /\ ~interrupted /\ ~overlapped
    => hub.sensors = Sensors

(* A recovery is not shown as healthy before it has enabled a sensor, nor  *)
(* after it has failed, although a sensor event on its way and the Start   *)
(* before it report just that (276, 355-357, 793-857, 936-942, 1048).      *)
FailureIsReported ==
  ~overlapped /\ pc["recovery"] \in {"open", "devReset", "await", "settle", "cal", "acc",
                                    "aborted", "failed"}
    => status # "HEALTHY"

(* A task is inside a driver call that the hub does not let return. *)
Hung(calls) == ~hub.alive /\ \E u \in Users : pc[u] \in calls

(* Sensors lost to a reset or a hang come back, or the board restarts,     *)
(* unless a stop is requested: the notice or the timeout is acted on and   *)
(* a recovery has a limited number of attempts.  The exception is a driver *)
(* call that never returns, because the hub remains hung and nobody        *)
(* watches the call.                                                       *)
SensorsComeBack ==
  (pc["service"] = "loop" /\ hub.sensors # Sensors)
    ~> (hub.sensors = Sensors \/ interrupted \/ ~serving \/ restarted
        \/ []Hung(DriverCalls))

(* A hub that has fallen silent for good is not shown as healthy for ever,  *)
(* although Start, the recovery and the sensor events each report HEALTHY  *)
(* on their own and the last report may come after the hang (355-357, 870, *)
(* 936-942, 1048).  The exception is a driver call that never returns; in  *)
(* a recovery that opens the driver even that is not shown as healthy.     *)
SilenceIsReported ==
  (serving /\ ~hub.alive)
    ~> (status # "HEALTHY" \/ hub.alive \/ ~serving \/ Ended
        \/ []Hung(DriverCalls \ {"open"}))

(* Stop returns, in whatever stage service and recovery are, unless one of *)
(* them is inside a driver call that never returns.                        *)
StopReturns ==
  (pc["owner"] = "waitTask")
    ~> (pc["owner"] = "idle" \/ restarted \/ []Hung(DriverCalls))

=============================================================================
