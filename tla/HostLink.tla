------------------------------- MODULE HostLink -------------------------------
(***************************************************************************)
(* The serial line from the sensor board to the host: the frames that      *)
(* src/microcontroller/main/serial.c builds, and the packet reader of      *)
(* src/src/IMUSerialPortReader.cpp, which takes them from the stream byte  *)
(* by byte and has nothing but the start byte to find its way back after a *)
(* damaged frame.                                                          *)
(*                                                                         *)
(* A byte of the stream is a record of its value, if it is known, and its  *)
(* place in the frame it belongs to.  Payloads and checksums have bytes of *)
(* unknown value: where the reader interprets one, any value is possible.  *)
(* The checksum is ideal: it accepts exactly the bytes of one frame sent.  *)
(***************************************************************************)
EXTENDS Integers, Sequences

CONSTANTS
  MaxMissing,  \* bound: frames sent that the reader has not accepted
  MaxFaults    \* bound: damaged frames and failed reads

ASSUME LinkBoundsAssumption == MaxMissing \in Nat /\ MaxFaults \in Nat

Kinds == {"acceleration", "rotation", "rate", "status"}
Magic == 165
MaxPayload == 73     \* the longest payload the reader's test lets through
BufferSize == 75     \* of message[], which also holds the three bytes before it

(* Payload bytes of each kind, the same on both sides. *)
Size == [acceleration |-> 20, rotation |-> 28, rate |-> 20, status |-> 9]

(* The type byte of each kind on the board, and in the frames the host is  *)
(* written and tested for.                                                 *)
BoardId == [acceleration |-> 1, rotation |-> 2, rate |-> 3, status |-> 4]
HostId == [acceleration |-> 1, rotation |-> 2, rate |-> 4, status |-> 3]
Ids(numbering) == IF numbering = "board" THEN BoardId ELSE HostId

KindOf(type) == CHOOSE k \in Kinds : HostId[k] = type

HostStatuses == {1, 2}   \* HEALTHY and IMU_UNAVAILABLE on the host

VARIABLES
  numbering,   \* whose type bytes the frames carry
  clean,       \* no payload or checksum byte has the value of the start byte
  haveAttitude,\* have_attitude of main.c
  lastStatus,  \* the last status frame sent
  line,        \* the bytes under way
  faults,      \* counter of the bound
  pc,          \* what the reader reads next
  type, length,\* bytes 2 and 3 of the message being read
  need,        \* bytes ReadExact still waits for
  message,     \* the message read so far: which frame it agrees with
  missing,     \* history: frames sent less messages with a valid checksum
  current,     \* m_currentImuStatus
  mistaken     \* history: a message was handed on as one of another kind

frameVars == <<numbering, clean, haveAttitude, lastStatus>>
readerVars == <<pc, type, length, need, message>>
hostVars == <<current, mistaken>>
linkVars == <<frameVars, missing, line, faults, readerVars, hostVars>>

(* Of a frame: its kind, and in a status frame the status and whether its   *)
(* timestamp was taken before that of a status frame sent earlier, as two  *)
(* tasks of the board send them.                                           *)
FrameOf(kind, status, late) == [kind |-> kind, status |-> status, late |-> late]
NoFrame == FrameOf("none", 0, FALSE)
Foreign(v) == [value |-> v, frame |-> NoFrame, at |-> 0]
Text == Foreign(46)
Unknown == -1

(* What the reader has is the first bytes of a frame, or it is spoilt. *)
Spoilt == [frame |-> NoFrame, got |-> 0]

LinkInit ==
  /\ numbering \in {"board", "host"} /\ clean \in BOOLEAN
  /\ haveAttitude = FALSE /\ lastStatus = FrameOf("status", 2, FALSE)
  /\ line = <<>> /\ faults = 0
  /\ pc = "start" /\ type = 0 /\ length = 0 /\ need = 1 /\ message = Spoilt
  /\ missing = 0 /\ current = 2
  /\ mistaken = FALSE

Frames == {FrameOf(kind, 0, FALSE) : kind \in Kinds \ {"status"}}
            \cup {FrameOf("status", status, late) : status \in HostStatuses, late \in BOOLEAN}

-----------------------------------------------------------------------------
(* The board.                                                              *)

(* send_acceleration_t and its siblings: start byte, type, length, payload *)
(* and two bytes of checksum over all that.                                *)
Frame(f) ==
  [i \in 1..(Size[f.kind] + 5) |->
     [value |-> CASE i = 1 -> Magic [] i = 2 -> Ids(numbering)[f.kind]
                  [] i = 3 -> Size[f.kind] [] OTHER -> Unknown,
      frame |-> f, at |-> i]]

(* What may become of a frame on its way: a byte is lost or altered, text  *)
(* of the console gets in between, or the rest is missing because a write  *)
(* failed.  Bytes of equal role are represented by the first of them.      *)
Altered(bytes, i) ==
  {[bytes EXCEPT ![i] = Foreign(v)] :
     v \in {0, 4, 20, MaxPayload, MaxPayload + 1, 255, Magic} \ {bytes[i].value}}

DamagedAt(bytes, i) ==
  LET before == SubSeq(bytes, 1, i - 1)
      n == Len(bytes)
  IN {before, before \o SubSeq(bytes, i + 1, n)} \cup Altered(bytes, i)
     \cup (IF i = 1 THEN {} ELSE {before \o <<Text>> \o SubSeq(bytes, i, n)})

Damages(bytes) == UNION {DamagedAt(bytes, i) : i \in {1, 2, 3, 4, Len(bytes)}}

(* imu_callback and send_status_t.  A rate is sent only when a rotation    *)
(* has been received before.  The next frame is put on the line when the   *)
(* reader has taken the last one: how far it lags behind makes no          *)
(* difference to a reader of a stream.                                     *)
Send(f) ==
  /\ line = <<>> /\ missing < MaxMissing
  /\ f.kind = "rate" => haveAttitude
  /\ haveAttitude' = (haveAttitude \/ f.kind = "rotation")
  /\ missing' = missing + 1
  /\ lastStatus' = IF f.kind = "status" THEN f ELSE lastStatus
  /\ \/ line' = Frame(f) /\ faults' = faults
     \/ /\ faults < MaxFaults /\ faults' = faults + 1
        /\ line' \in Damages(Frame(f))
  /\ UNCHANGED <<numbering, clean, readerVars, hostVars>>

(* Log lines share the UART with the frames. *)
LogLine ==
  /\ line = <<>> /\ line' = <<Text>>
  /\ UNCHANGED <<frameVars, missing, faults, readerVars, hostVars>>

-----------------------------------------------------------------------------
(* The packet reader.                                                      *)

Samples == {0, 1, 2, 3, 4, 9, 20, 28, MaxPayload, MaxPayload + 1, Magic}

(* The values a byte may be found to have. *)
Values(byte) ==
  IF byte.value # Unknown THEN {byte.value}
  ELSE Samples \ (IF clean THEN {Magic} ELSE {})

(* The message after k more bytes of the line. *)
Extended(k) ==
  IF message.got > 0 /\ \A j \in 1..k :
       line[j].frame = message.frame /\ line[j].at = message.got + j
  THEN [message EXCEPT !.got = @ + k] ELSE Spoilt

Rest(k) == SubSeq(line, k + 1, Len(line))

StartOver == pc' = "start" /\ need' = 1 /\ message' = Spoilt
           /\ type' = 0 /\ length' = 0

ReadStart ==
  /\ pc = "start" /\ line # <<>>
  /\ line' = Rest(1)
  /\ \E v \in Values(Head(line)) :
       IF v = Magic
       THEN /\ pc' = "type" /\ need' = 2
            /\ message' = IF Head(line).at = 1
                          THEN [frame |-> Head(line).frame, got |-> 1] ELSE Spoilt
            /\ UNCHANGED <<type, length>>
       ELSE UNCHANGED readerVars
  /\ UNCHANGED <<frameVars, missing, faults, hostVars>>

ReadType ==
  /\ pc = "type" /\ line # <<>>
  /\ line' = Rest(1) /\ message' = Extended(1)
  /\ type' \in Values(Head(line))
  /\ pc' = "length" /\ need' = 1
  /\ UNCHANGED <<frameVars, missing, faults, length, hostVars>>

(* The types are known and the length fits, or the reader looks for the    *)
(* next start byte, without having read the payload.                       *)
KnownType(t) == t \in 1..4

MutFits(n) == TRUE

Fits(n) == n <= MaxPayload

MutRejects(n) == ~KnownType(type) \/ ~Fits(n) \/ n # Size[KindOf(type)]

Rejects(n) == ~KnownType(type) \/ ~Fits(n)

ReadLength ==
  /\ pc = "length" /\ line # <<>>
  /\ line' = Rest(1)
  /\ \E n \in Values(Head(line)) :
       IF Rejects(n) THEN StartOver
       ELSE /\ length' = n /\ message' = Extended(1)
            /\ IF n = 0 THEN pc' = "checksum" /\ need' = 2
                        ELSE pc' = "payload" /\ need' = n
            /\ UNCHANGED type
  /\ UNCHANGED <<frameVars, missing, faults, hostVars>>

(* ReadExact takes what is there and waits for the rest.  The last byte of *)
(* a payload of 73 is written one past the end of message[]; what it       *)
(* overwrites there is not modelled.                                       *)
Available == IF need < Len(line) THEN need ELSE Len(line)

ReadPayload ==
  /\ pc = "payload" /\ line # <<>>
  /\ line' = Rest(Available) /\ message' = Extended(Available)
  /\ IF Available = need THEN pc' = "checksum" /\ need' = 2
                         ELSE pc' = pc /\ need' = need - Available
  /\ UNCHANGED <<frameVars, missing, faults, type, length, hostVars>>

ReadChecksum ==
  /\ pc = "checksum" /\ line # <<>>
  /\ line' = Rest(Available) /\ message' = Extended(Available)
  /\ IF Available = need THEN pc' = "decode" /\ need' = 0
                         ELSE pc' = pc /\ need' = need - Available
  /\ UNCHANGED <<frameVars, missing, faults, type, length, hostVars>>

ValidMessage == message.got > 0

MutSizeAgrees(as) == TRUE

(* Each kind has its length; a message of another length is dropped. *)
SizeAgrees(as) == length = Size[as]

(* A status is taken over when it differs and is newer than the current    *)
(* one, which an overtaken frame may be or not.                            *)
TakesOver(f) ==
  IF current = f.status THEN {FALSE} ELSE IF f.late THEN BOOLEAN ELSE {TRUE}

Dispatch(f, as) ==
  IF ~SizeAgrees(as) THEN UNCHANGED hostVars
  ELSE \E takesOver \in IF as = "status" THEN TakesOver(f) ELSE {TRUE} :
         IF takesOver
         THEN /\ mistaken' = (mistaken \/ f.kind # as)
              /\ current' = IF as = "status" THEN f.status ELSE current
         ELSE UNCHANGED hostVars

Decode ==
  /\ pc = "decode"
  /\ StartOver
  /\ IF ValidMessage
     THEN missing' = missing - 1 /\ Dispatch(message.frame, KindOf(type))
     ELSE UNCHANGED <<missing, hostVars>>
  /\ UNCHANGED <<frameVars, line, faults>>

(* A read fails; the exception is caught and the message is given up. *)
ReadFails ==
  /\ faults < MaxFaults /\ pc # "decode"
  /\ faults' = faults + 1
  /\ StartOver
  /\ UNCHANGED <<frameVars, missing, line, hostVars>>

Reader == ReadStart \/ ReadType \/ ReadLength \/ ReadPayload \/ ReadChecksum \/ Decode

LinkNext ==
  \/ \E f \in Frames : Send(f)
  \/ LogLine \/ Reader \/ ReadFails

LinkSpec == LinkInit /\ [][LinkNext]_linkVars

-----------------------------------------------------------------------------
(* Properties.                                                             *)

(* Type correctness. *)
LinkTypeOK ==
  /\ numbering \in {"board", "host"} /\ clean \in BOOLEAN /\ haveAttitude \in BOOLEAN
  /\ lastStatus \in Frames /\ missing \in 0..MaxMissing /\ faults \in 0..MaxFaults
  /\ pc \in {"start", "type", "length", "payload", "checksum", "decode"}
  /\ type \in 0..255 /\ length \in 0..MaxPayload /\ need \in 0..MaxPayload
  /\ message \in [frame : Frames \cup {NoFrame}, got : 0..(MaxPayload + 5)]
  /\ current \in HostStatuses
  /\ mistaken \in BOOLEAN
  /\ \A i \in 1..Len(line) :
       line[i] \in [value : {Unknown} \cup 0..255, frame : Frames \cup {NoFrame},
                    at : 0..(MaxPayload + 5)]

(* The reader's buffer holds the frames of the board: as long as nothing   *)
(* is damaged no payload is written past its end.  A wrong length is        *)
(* tested against 73 and the room is 72, so damage may write one byte past *)
(* it, and never more (IMUSerialPortReader.cpp 47, 62-66).                 *)
OverrunIsOneByte ==
  pc = "payload" =>
    /\ 3 + need <= BufferSize + 1
    /\ faults = 0 => 3 + need <= BufferSize

Drained == line = <<>> /\ pc = "start"

(* Without damage every frame is accepted, whichever side's type bytes it  *)
(* carries, whatever bytes its payload has and whatever is logged between  *)
(* frames: a message the reader has no use for (77, 92, 107, 126) is taken *)
(* off the line whole.                                                     *)
NothingLostWithoutFault == faults = 0 /\ Drained => missing = 0

(* One damaged frame or failed read costs that frame and at most five      *)
(* after it, if no payload contains the start byte: a wrong length makes   *)
(* the reader swallow 73 bytes and a checksum.                             *)
DamageIsLocal ==
  clean /\ faults <= 1 /\ line = <<>> /\ pc # "decode" => missing <= 6

(* No payload is taken for one of another kind, although the two sides     *)
(* number rate and status the other way round: their lengths differ.       *)
KindsAreKept == ~mistaken

(* "... so the callback runs when a newer status packet reports that       *)
(* value" (IMUSerialPortReader.hpp 69-70), for the packets of the board.   *)
StatusIsHeard ==
  numbering = "board" /\ faults = 0 /\ Drained /\ ~lastStatus.late
    => current = lastStatus.status

=============================================================================
