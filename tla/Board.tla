-------------------------------- MODULE Board --------------------------------
(***************************************************************************)
(* The sensor board as its host sees it (src/microcontroller/main: main.c,  *)
(* serial.c, sh2service.c): commands come in, a reset command restarts the  *)
(* board; statuses go out, from the task that uses the sensor driver when  *)
(* the status changes and from the callback task once a second; the packet *)
(* reader of the host keeps the status that is newest by its timestamp.    *)
(*                                                                         *)
(* Why the status changes is the business of Sh2Service.  Here a status    *)
(* frame has the type byte of the host's enumeration (see HostLink), and a *)
(* status is its byte on the line.  Timestamps are kept as their distance  *)
(* from the present: 0 is now, below is past, above is a time that this    *)
(* boot of the board has not reached.                                      *)
(***************************************************************************)
EXTENDS Crc16

CONSTANTS
  Period,   \* ticks between two repetitions of the status, one second
  MaxDelay, \* bound: ticks between reading the clock and sending the frame
  MaxLead   \* bound: uptime of the board before a restart, in ticks

ASSUME BoundsAssumption ==
  Period \in Nat \ {0} /\ MaxDelay \in Nat /\ MaxLead \in Nat

MagicEncoder == 165
CommandId == 5
ResetCommand == 0

(* Bytes of enum imu_status that occur here: INITIALIZING, HEALTHY,        *)
(* IMU_UNAVAILABLE, NO_DETECTED_IMU.                                       *)
Initializing == 0
NoDetectedImu == 6
Statuses == {2, 3, NoDetectedImu}

-----------------------------------------------------------------------------
(* Commands.                                                               *)

ChecksumAgrees(read, i) ==
  ChecksumBytes(SubSeq(read, 1, i + 3)) = <<read[i + 4], read[i + 5]>>

(* A packet may begin at place i: a start byte, followed by the id and the *)
(* length of a command as far as the read goes.                            *)
Begins(read, i) ==
  /\ read[i] = MagicEncoder
  /\ i + 4 <= Len(read) => read[i + 1] = CommandId /\ read[i + 2] = 1

(* process_rx_buffer: skip to where a packet begins; give up when the rest *)
(* is too short for one; after a packet go on behind it.  "agreeing" are   *)
(* the places of packets whose checksum is right.                          *)
HeardWhen(read, agreeing) ==
  LET from[i \in 1..(Len(read) + 1)] ==
        IF i > Len(read) \/ (Begins(read, i) /\ i + 5 > Len(read)) THEN {}
        ELSE IF Begins(read, i) THEN {c \in {read[i + 3]} : i \in agreeing} \cup from[i + 6]
        ELSE from[i + 1]
  IN from[1]

MutHeard(read) == HeardWhen(read, 1..Len(read))

(* The commands process_rx_buffer hands to the callback.  The checksum is  *)
(* taken from the start of the buffer, wherever in it the packet begins.   *)
Heard(read) ==
  HeardWhen(read, {i \in 1..(Len(read) - 5) : read[i] = MagicEncoder /\ ChecksumAgrees(read, i)})

(* The packet of a command as serial.h (37-38) lays packets out. *)
Packet(command) ==
  LET head == <<MagicEncoder, CommandId, 1, command>> IN head \o ChecksumBytes(head)

(* What one call of uart_read_bytes may return: a packet and whatever came *)
(* behind it; a packet of which one byte, any two bits, or a byte's place  *)
(* were damaged; a packet behind other bytes; part of a packet.            *)
Commands == {ResetCommand, 7}
Tails == {<<>>, <<46>>, <<MagicEncoder>>, SubSeq(Packet(7), 1, 5), Packet(7)}

Undamaged == {[kind |-> "first", command |-> c, read |-> Packet(c) \o tail] :
                c \in Commands, tail \in Tails}

Flipped(packet, one, other) ==
  [k \in 1..6 |-> ByteOf(Xor(BitsOf(packet[k]), {b \in 0..7 : <<k, b>> \in {one, other}}))]

ByteAltered(packet, k, v) == [packet EXCEPT ![k] = v]
ByteLost(packet, k) == SubSeq(packet, 1, k - 1) \o SubSeq(packet, k + 1, 6)
ByteInserted(packet, k) == SubSeq(packet, 1, k) \o <<46>> \o SubSeq(packet, k + 1, 6)

Bits == (1..6) \X (0..7)

Damaged ==
  LET p == Packet(ResetCommand) IN
  {[kind |-> "damaged", command |-> ResetCommand, read |-> r] : r \in
      ({ByteAltered(p, k, v) : k \in 1..6, v \in 0..255} \ {p})
      \cup {Flipped(p, a, b) : a \in Bits, b \in Bits}
      \cup {ByteLost(p, k) : k \in 1..6}
      \cup {ByteInserted(p, k) : k \in 1..5}}

Partial ==
  {[kind |-> "partial", command |-> ResetCommand, read |-> r] : r \in
      {before \o Packet(ResetCommand) : before \in {<<46>>, <<MagicEncoder>>, Packet(7)}}
      \cup {SubSeq(Packet(ResetCommand), i, j) : i \in 1..3, j \in 3..5}}

(* Each read with what comes of it; evaluated once. *)
Reads ==
  {[kind |-> r.kind, command |-> r.command, heard |-> Heard(r.read),
    divides |-> Checksum(r.read) = Remainder(r.read)] : r \in Undamaged \cup Damaged \cup Partial}

-----------------------------------------------------------------------------
VARIABLES
  app,       \* how far app_main has come
  listening, \* the task of rx_handle runs
  status,    \* s_last_imu_status
  sentAt,    \* s_last_status_time; Period ago and longer are the same
  service,   \* update_imu_status, in the task that uses the driver
  callback,  \* the callback task
  host,      \* m_currentImuStatus of the host
  answer,    \* history: the last read of rx_handle
  excused    \* history: since the last change of status something came in
             \*          between that the timestamps cannot make good

boardVars == <<app, listening, status, sentAt, service, callback>>
vars == <<boardVars, host, answer, excused>>

Idle == [at |-> "idle", status |-> NoDetectedImu, now |-> 0]
None == [at |-> "none", status |-> NoDetectedImu, now |-> 0]
LongAgo == -(MaxDelay + 1)

(* The constructor of the host's processor_status_t: status 2, time 0. *)
NewHost == [status |-> 2, time |-> LongAgo]

Booting ==
  /\ app' = "boot" /\ listening' = FALSE
  /\ status' = NoDetectedImu /\ sentAt' = 0
  /\ service' = Idle /\ callback' = None
  /\ excused' = TRUE

Init ==
  /\ app = "boot" /\ listening = FALSE
  /\ status = NoDetectedImu /\ sentAt = 0
  /\ service = Idle /\ callback = None
  /\ host = NewHost
  /\ answer = [kind |-> "none", command |-> 7, heard |-> {}, divides |-> TRUE]
  /\ excused = TRUE

-----------------------------------------------------------------------------
(* The host: a status is taken over when it differs and is newer.          *)

MutHears(s, time) ==
  IF host.status # s THEN host' = [status |-> s, time |-> time] ELSE host' = host

Hears(s, time) ==
  IF host.status # s /\ host.time < time
  THEN host' = [status |-> s, time |-> time] ELSE host' = host

(* send_status_t: the frame arrives, or its write fails. *)
SendStatus(s, time, ok) == IF ok THEN Hears(s, time) ELSE UNCHANGED host

(* The host's program is started anew while the board runs. *)
HostStarts ==
  /\ host' = NewHost /\ excused' = TRUE
  /\ UNCHANGED <<boardVars, answer>>

-----------------------------------------------------------------------------
(* app_main.                                                               *)

(* start_listening, the first status, and sh2service_start as far as the   *)
(* callback task.  Each may fail; app_main then returns.                   *)
Listen ==
  /\ app = "boot"
  /\ \/ app' = "announce" /\ listening' = TRUE
     \/ app' = "failed" /\ UNCHANGED listening
  /\ UNCHANGED <<status, sentAt, service, callback, host, answer, excused>>

Announce ==
  /\ app = "announce"
  /\ \E ok \in BOOLEAN : SendStatus(Initializing, 0, ok)
  /\ \/ app' = "starting" /\ callback' = Idle
     \/ app' = "failed" /\ UNCHANGED callback
  /\ UNCHANGED <<listening, status, sentAt, service, answer, excused>>

StartSucceeds ==
  /\ app = "starting" /\ service.at = "idle"
  /\ app' = "serving"
  /\ UNCHANGED <<listening, status, sentAt, service, callback, host, answer, excused>>

(* A start that fails waits for the end of the callback task, and app_main *)
(* returns: nothing repeats the status, and nothing tries again.           *)
StartFails ==
  /\ app = "starting" /\ service.at = "idle" /\ callback.at = "idle"
  /\ app' = "failed" /\ callback' = None
  /\ UNCHANGED <<listening, status, sentAt, service, host, answer, excused>>

-----------------------------------------------------------------------------
(* Frames whose time has been taken and that are not written yet. *)
InFlight == {t \in {service, callback} : t.at \in {"timed", "stored", "read"}}

(* update_imu_status: an equal status returns; the time is taken, then the *)
(* status is stored, then the frame is written.                            *)
NotNewer == host.time >= 0 \/ (callback \in InFlight /\ callback.now = 0)

ChangeStatus(s) ==
  /\ app \in {"starting", "serving"} /\ service.at = "idle"
  /\ s # status
  /\ service' = [at |-> "timed", status |-> s, now |-> 0]
  /\ excused' = (NotNewer \/ host.status = s)
  /\ UNCHANGED <<app, listening, status, sentAt, callback, host, answer>>

StoreStatus ==
  /\ service.at = "timed"
  /\ status' = service.status /\ service' = [service EXCEPT !.at = "stored"]
  /\ UNCHANGED <<app, listening, sentAt, callback, host, answer, excused>>

SendChange(ok) ==
  /\ service.at = "stored" /\ service' = Idle
  /\ SendStatus(service.status, service.now, ok)
  /\ sentAt' = IF ok THEN service.now ELSE sentAt
  /\ excused' = (excused \/ ~ok)
  /\ UNCHANGED <<app, listening, status, callback, answer>>

-----------------------------------------------------------------------------
(* The callback task: it reads the clock, finds that a second is over,     *)
(* reads the status and writes the frame.                                  *)
RepeatDue ==
  /\ callback.at = "idle" /\ sentAt <= -Period
  /\ callback' = [callback EXCEPT !.at = "timed", !.now = 0]
  /\ UNCHANGED <<app, listening, status, sentAt, service, host, answer, excused>>

(* It has overtaken a change whose time was taken before its own and whose *)
(* status is not stored yet: an old status gets a new time.                *)
Overtakes == service.at = "timed" /\ service.now <= callback.now

MutReadStatus ==
  /\ callback.at = "timed"
  /\ callback' = [callback EXCEPT !.at = "read"]
  /\ excused' = (excused \/ Overtakes)
  /\ UNCHANGED <<app, listening, status, sentAt, service, host, answer>>

ReadStatus ==
  /\ callback.at = "timed"
  /\ callback' = [callback EXCEPT !.at = "read", !.status = status]
  /\ excused' = (excused \/ Overtakes)
  /\ UNCHANGED <<app, listening, status, sentAt, service, host, answer>>

SendRepeat(ok) ==
  /\ callback.at = "read" /\ callback' = Idle
  /\ SendStatus(callback.status, callback.now, ok)
  /\ sentAt' = IF ok THEN callback.now ELSE sentAt
  /\ UNCHANGED <<app, listening, status, service, answer, excused>>

-----------------------------------------------------------------------------
(* Time passes; a frame is written soon after its time was taken.          *)

Aged(time, oldest) == IF time > oldest THEN time - 1 ELSE oldest
AgedTask(t) == IF t \in InFlight THEN [t EXCEPT !.now = @ - 1] ELSE t

Tick ==
  /\ app # "boot"
  /\ \A t \in InFlight : t.now > -MaxDelay
  /\ service' = AgedTask(service) /\ callback' = AgedTask(callback)
  /\ sentAt' = Aged(sentAt, -Period)
  /\ host' = [host EXCEPT !.time = Aged(@, LongAgo)]
  /\ UNCHANGED <<app, listening, status, answer, excused>>

(* After a restart the clock begins anew; what the host knows has a time   *)
(* of the boot before, up to the uptime reached.                           *)
RestartNow ==
  /\ Booting
  /\ \/ host.time = LongAgo /\ host' = host
     \/ \E uptime \in 0..MaxLead : host' = [host EXCEPT !.time = uptime]

(* serial_command_callback: the reset command restarts the board; others   *)
(* are only logged.                                                        *)
Receive ==
  /\ listening
  /\ \E r \in Reads :
       /\ answer' = r
       /\ IF ResetCommand \in r.heard THEN RestartNow
          ELSE UNCHANGED <<boardVars, host, excused>>

(* The service gives up on the hub, or the power fails. *)
Restart == app # "boot" /\ RestartNow /\ UNCHANGED answer

Next ==
  \/ HostStarts
  \/ Listen \/ Announce \/ StartSucceeds \/ StartFails
  \/ \E s \in Statuses : ChangeStatus(s)
  \/ StoreStatus \/ RepeatDue \/ ReadStatus
  \/ \E ok \in BOOLEAN : SendChange(ok) \/ SendRepeat(ok)
  \/ Tick \/ Receive \/ Restart

Spec == Init /\ [][Next]_vars

(* Tasks are scheduled and time passes; writes that are tried again and    *)
(* again succeed at last.  Nothing is assumed of restarts, changes of the  *)
(* status or commands.                                                     *)
Fairness ==
  /\ WF_vars(RepeatDue) /\ WF_vars(ReadStatus) /\ SF_vars(SendRepeat(TRUE))
  /\ WF_vars(\E ok \in BOOLEAN : SendRepeat(ok))
  /\ WF_vars(StoreStatus) /\ WF_vars(\E ok \in BOOLEAN : SendChange(ok))
  /\ WF_vars(Tick)

FairSpec == Spec /\ Fairness

-----------------------------------------------------------------------------
(* Properties.                                                             *)

Times == LongAgo..MaxLead
SentTimes == -(Period + MaxDelay)..0

(* Type correctness. *)
TypeOK ==
  /\ app \in {"boot", "announce", "starting", "serving", "failed"}
  /\ listening \in BOOLEAN /\ excused \in BOOLEAN
  /\ status \in Statuses /\ sentAt \in SentTimes
  /\ service \in [at : {"idle", "timed", "stored"}, status : Statuses, now : -MaxDelay..0]
  /\ callback \in [at : {"none", "idle", "timed", "read"}, status : Statuses,
                   now : -MaxDelay..0]
  /\ host \in [status : Statuses \cup {Initializing}, time : Times]
  /\ answer \in Reads \cup {[kind |-> "none", command |-> 7, heard |-> {}, divides |-> TRUE]}

(* A packet at the beginning of a read is heard, whatever follows it; a    *)
(* reset packet with one altered byte, two flipped bits, a byte lost or a  *)
(* byte inserted restarts nothing (process_rx_buffer, serial.c 34-86).     *)
CommandsHeardAsSent ==
  /\ answer.kind = "first" => answer.command \in answer.heard
  /\ answer.kind = "damaged" => answer.heard = {}

(* The register of crc.c holds the remainder of the polynomial division.   *)
ChecksumIsRemainder == answer.divides

(* When no frame is under way the host has the status of the board, though *)
(* two tasks send it and a frame may arrive after a newer one: its time    *)
(* tells.  That needs every change to be written and no restart of either  *)
(* side since; and the callback task must not give a status that is being  *)
(* replaced a time after that of its replacement.                          *)
HostAgreesWhenQuiet ==
  InFlight = {} /\ ~excused => host.status = status

(* Whatever was lost, overtaken or refused because the host still has a    *)
(* time of the boot before: as long as the callback task runs the host     *)
(* comes to know the status, or it changes (433-441, IMUSerialPortReader   *)
(* 115).                                                                   *)
StatusArrives ==
  \A s \in Statuses :
    (callback.at # "none" /\ status = s)
      ~> (host.status = s \/ status # s \/ callback.at = "none")

=============================================================================
