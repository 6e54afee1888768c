---------------------------- MODULE BoardProofs ----------------------------
(***************************************************************************)
(* Proofs about the board and the two programs at the other end of its     *)
(* line, one section each: Board, for every period of the status, every    *)
(* delay between the clock and the line, and every uptime at a restart;    *)
(* HostLink, for every number of frames and damages; Recorder, for every   *)
(* set of receivers, queue, batch and number of measurements.  The three   *)
(* have no variable in common.  The last two sections are about the        *)
(* checksum and the commands Board takes from a read, for every read.      *)
(***************************************************************************)
EXTENDS Board, HostLink, Recorder, SequenceTheorems, WellFoundedInduction, TLAPS

-----------------------------------------------------------------------------
(* The status.  The argument compares the times of at most three things:   *)
(* the change under way, the repetition under way, and what the host has   *)
(* taken over.                                                             *)

Repeating == callback.at \in {"timed", "read"}

(* No change under way: a repetition of an older status is too old.        *)
WhenIdle ==
  service.at = "idle" =>
    /\ host.status = status
    /\ callback.at = "read" => callback.status = status \/ callback.now <= host.time

(* A change has its time: everything else is older, except a repetition    *)
(* that has not read the status yet.                                       *)
WhenTimed ==
  service.at = "timed" =>
    /\ host.time < service.now
    /\ callback.at = "read" => callback.now < service.now
    /\ host.status = service.status /\ Repeating => service.now <= callback.now

(* The changed status is stored: who reads it now may be first to send it. *)
WhenStored ==
  service.at = "stored" =>
    /\ status = service.status
    /\ host.status # status => host.time < service.now
    /\ callback.at = "read" /\ service.now <= callback.now => callback.status = status
    /\ host.status = status /\ Repeating => service.now <= callback.now

Agreement ==
  /\ app \in {"boot", "announce"} => excused
  /\ ~excused => WhenIdle /\ WhenTimed /\ WhenStored

-----------------------------------------------------------------------------
(* Type correctness. *)

ServiceTasks == [at : {"idle", "timed", "stored"}, status : Statuses, now : -MaxDelay..0]
CallbackTasks == [at : {"none", "idle", "timed", "read"}, status : Statuses, now : -MaxDelay..0]
Hosts == [status : Statuses \cup {Initializing}, time : Times]

(* The state without the history of the last read. *)
StateOK ==
  /\ app \in {"boot", "announce", "starting", "serving", "failed"}
  /\ listening \in BOOLEAN /\ excused \in BOOLEAN
  /\ status \in Statuses /\ sentAt \in SentTimes
  /\ service \in ServiceTasks /\ callback \in CallbackTasks
  /\ host \in Hosts

Answers == Reads \cup {[kind |-> "none", command |-> 7, heard |-> {}, divides |-> TRUE]}
AnswerOK == answer \in Answers

LEMMA TypesSplit == TypeOK <=> StateOK /\ AnswerOK
  BY DEF TypeOK, StateOK, AnswerOK, ServiceTasks, CallbackTasks, Hosts, Answers

(* The bounds, and the statuses that are named. *)
LEMMA Bounds ==
  /\ Period \in Nat /\ 0 < Period /\ MaxDelay \in Nat /\ MaxLead \in Nat
  /\ NoDetectedImu \in Statuses /\ 2 \in Statuses /\ LongAgo \in Times
  /\ LongAgo = -(MaxDelay + 1) /\ 0 \in -MaxDelay..0 /\ 0 \in SentTimes
  BY BoundsAssumption DEF NoDetectedImu, Statuses, LongAgo, Times, SentTimes

LEMMA Starts == Idle \in ServiceTasks /\ Idle \in CallbackTasks /\ None \in CallbackTasks /\ NewHost \in Hosts
  BY Bounds DEF Idle, None, NewHost, ServiceTasks, CallbackTasks, Hosts

LEMMA InitState == Init => StateOK
  BY Bounds, Starts DEF Init, StateOK

(* A frame that arrives, or does not. *)
LEMMA SendKeepsHost ==
  ASSUME host \in Hosts, NEW s \in Statuses \cup {Initializing},
         NEW time \in Times, NEW ok \in BOOLEAN, SendStatus(s, time, ok)
  PROVE  /\ host' \in Hosts
         /\ host' # host => host' = [status |-> s, time |-> time] /\ host.status # s /\ host.time < time
         /\ ok /\ host' = host => host.status = s \/ ~(host.time < time)
<1>1. CASE ok /\ host.status # s /\ host.time < time
  BY <1>1 DEF SendStatus, Hears, Hosts
<1>2. CASE ~(ok /\ host.status # s /\ host.time < time)
  BY <1>2 DEF SendStatus, Hears
<1>. QED BY <1>1, <1>2

(* A time of a frame that is not written yet is one the host can have, and *)
(* one the last frame can have had.                                        *)
LEMMA FrameTimes == -MaxDelay..0 \subseteq Times /\ -MaxDelay..0 \subseteq SentTimes
  BY Bounds DEF Times, SentTimes

LEMMA TickKeepsState == ASSUME StateOK, Tick PROVE StateOK'
<1>1. service.now \in Int /\ callback.now \in Int /\ host.time \in Int /\ sentAt \in Int
  BY Bounds DEF StateOK, ServiceTasks, CallbackTasks, Hosts, Times, SentTimes
<1>2. service' \in ServiceTasks
  <2>1. CASE service \in InFlight
    <3>1. service.now > -MaxDelay /\ service' = [service EXCEPT !.now = @ - 1]
      BY <2>1 DEF Tick, AgedTask
    <3>2. service.now - 1 \in -MaxDelay..0
      BY <3>1, <1>1, Bounds DEF StateOK, ServiceTasks
    <3>. QED BY <3>1, <3>2 DEF StateOK, ServiceTasks
  <2>2. CASE service \notin InFlight
    BY <2>2 DEF Tick, AgedTask, StateOK
  <2>. QED BY <2>1, <2>2
<1>3. callback' \in CallbackTasks
  <2>1. CASE callback \in InFlight
    <3>1. callback.now > -MaxDelay /\ callback' = [callback EXCEPT !.now = @ - 1]
      BY <2>1 DEF Tick, AgedTask
    <3>2. callback.now - 1 \in -MaxDelay..0
      BY <3>1, <1>1, Bounds DEF StateOK, CallbackTasks
    <3>. QED BY <3>1, <3>2 DEF StateOK, CallbackTasks
  <2>2. CASE callback \notin InFlight
    BY <2>2 DEF Tick, AgedTask, StateOK
  <2>. QED BY <2>1, <2>2
<1>4. host' \in Hosts
  <2>1. Aged(host.time, LongAgo) \in Times
    BY <1>1, Bounds DEF Aged, StateOK, Hosts, Times
  <2>. QED BY <2>1 DEF Tick, StateOK, Hosts
<1>5. sentAt' \in SentTimes
  BY <1>1, Bounds DEF Tick, Aged, StateOK, SentTimes
<1>. QED BY <1>2, <1>3, <1>4, <1>5 DEF StateOK, Tick

LEMMA RestartKeepsState == ASSUME StateOK, RestartNow PROVE StateOK'
<1>1. ASSUME NEW uptime \in 0..MaxLead PROVE uptime \in Times
  BY Bounds DEF Times
<1>2. host' \in Hosts
  BY <1>1 DEF RestartNow, StateOK, Hosts
<1>. QED BY <1>2, Starts, Bounds DEF RestartNow, Booting, StateOK

LEMMA StepState == StateOK /\ [Next]_vars => StateOK'
<1> SUFFICES ASSUME StateOK, [Next]_vars PROVE StateOK'
  OBVIOUS
<1> USE DEF StateOK
<1>1. CASE HostStarts
  BY <1>1, Starts DEF HostStarts, boardVars
<1>2. CASE Listen
  BY <1>2 DEF Listen
<1>3. CASE Announce
  <2>1. host' \in Hosts
    BY <1>3, SendKeepsHost, Bounds, FrameTimes DEF Announce
  <2>. QED BY <1>3, <2>1, Starts DEF Announce
<1>4. CASE StartSucceeds
  BY <1>4 DEF StartSucceeds
<1>5. CASE StartFails
  BY <1>5, Starts DEF StartFails
<1>6. ASSUME NEW s \in Statuses, ChangeStatus(s) PROVE StateOK'
  <2>1. service' \in ServiceTasks
    BY <1>6, Bounds DEF ChangeStatus, ServiceTasks
  <2>2. excused' \in BOOLEAN
    BY <1>6 DEF ChangeStatus
  <2>. QED BY <1>6, <2>1, <2>2 DEF ChangeStatus
<1>7. CASE StoreStatus
  BY <1>7 DEF StoreStatus, ServiceTasks
<1>8. CASE RepeatDue
  BY <1>8, Bounds DEF RepeatDue, CallbackTasks
<1>9. CASE ReadStatus
  <2>1. callback' \in CallbackTasks
    BY <1>9 DEF ReadStatus, CallbackTasks
  <2>2. excused' \in BOOLEAN
    BY <1>9 DEF ReadStatus
  <2>. QED BY <1>9, <2>1, <2>2 DEF ReadStatus
<1>10. ASSUME NEW ok \in BOOLEAN, SendChange(ok) PROVE StateOK'
  <2>1. host' \in Hosts
    BY <1>10, SendKeepsHost, FrameTimes DEF SendChange, ServiceTasks
  <2>2. sentAt' \in SentTimes
    BY <1>10, FrameTimes DEF SendChange, ServiceTasks
  <2>3. excused' \in BOOLEAN
    BY <1>10 DEF SendChange
  <2>. QED BY <1>10, <2>1, <2>2, <2>3, Starts DEF SendChange
<1>11. ASSUME NEW ok \in BOOLEAN, SendRepeat(ok) PROVE StateOK'
  <2>1. host' \in Hosts
    BY <1>11, SendKeepsHost, FrameTimes DEF SendRepeat, CallbackTasks
  <2>2. sentAt' \in SentTimes
    BY <1>11, FrameTimes DEF SendRepeat, CallbackTasks
  <2>3. excused' \in BOOLEAN
    BY <1>11 DEF SendRepeat
  <2>. QED BY <1>11, <2>1, <2>2, <2>3, Starts DEF SendRepeat
<1>12. CASE Tick
  BY <1>12, TickKeepsState
<1>13. CASE Receive
  BY <1>13, RestartKeepsState DEF Receive, boardVars
<1>14. CASE Restart
  BY <1>14, RestartKeepsState DEF Restart
<1>15. CASE UNCHANGED vars
  BY <1>15 DEF vars, boardVars
<1>. QED BY <1>1, <1>2, <1>3, <1>4, <1>5, <1>6, <1>7, <1>8, <1>9, <1>10, <1>11,
            <1>12, <1>13, <1>14, <1>15 DEF Next

-----------------------------------------------------------------------------
(* Agreement. *)

LEMMA InitAgreement == Init => Agreement
  BY DEF Init, Agreement

(* The numbers that are compared. *)
LEMMA Numbers ==
  ASSUME StateOK
  PROVE  /\ service.now \in Int /\ callback.now \in Int /\ host.time \in Int
         /\ -MaxDelay <= service.now /\ service.now <= 0
         /\ -MaxDelay <= callback.now /\ callback.now <= 0
         /\ LongAgo <= host.time
  BY Bounds DEF StateOK, ServiceTasks, CallbackTasks, Hosts, Times

LEMMA ChangeKeepsAgreement ==
  ASSUME StateOK, Agreement, NEW s \in Statuses, ChangeStatus(s)
  PROVE  Agreement'
<1> SUFFICES ASSUME ~excused' PROVE WhenIdle' /\ WhenTimed' /\ WhenStored'
  BY DEF Agreement, ChangeStatus
<1>1. host.time < 0 /\ host.status # s /\ (callback \in InFlight => callback.now # 0)
  <2>1. ~NotNewer /\ host.status # s
    BY DEF ChangeStatus
  <2>. QED BY <2>1, Numbers DEF NotNewer
<1>2. Repeating => callback \in InFlight
  BY DEF Repeating, InFlight
<1>3. service' = [at |-> "timed", status |-> s, now |-> 0]
      /\ UNCHANGED <<status, callback, host>>
  BY DEF ChangeStatus
<1>. QED BY <1>1, <1>2, <1>3, Numbers DEF WhenIdle, WhenTimed, WhenStored, Repeating

LEMMA StoreKeepsAgreement == ASSUME StateOK, Agreement, StoreStatus PROVE Agreement'
<1>1. service'.at = "stored" /\ service'.status = service.status /\ service'.now = service.now
  BY DEF StoreStatus, StateOK, ServiceTasks
<1>. QED BY <1>1, Numbers DEF StoreStatus, Agreement, WhenIdle, WhenTimed, WhenStored, Repeating

LEMMA SendChangeKeepsAgreement ==
  ASSUME StateOK, Agreement, NEW ok \in BOOLEAN, SendChange(ok)
  PROVE  Agreement'
<1>1. CASE excused' 
  BY <1>1 DEF Agreement
<1>2. CASE ~excused'
  <2>1. ok /\ ~excused /\ WhenStored /\ service.at = "stored" /\ service' = Idle
        /\ UNCHANGED <<status, callback>> /\ SendStatus(service.status, service.now, ok)
    BY <1>2 DEF SendChange, Agreement
  <2>2. host.status # service.status => host'.status = service.status /\ host'.time = service.now
    BY <2>1 DEF WhenStored, SendStatus, Hears
  <2>3. host.status = service.status => host' = host
    BY <2>1 DEF SendStatus, Hears
  <2>4. host'.status = status
    BY <2>1, <2>2, <2>3 DEF WhenStored
  <2>5. callback.at = "read" => callback.status = status \/ callback.now <= host'.time
    BY <2>1, <2>2, <2>3, Numbers DEF WhenStored, Repeating
  <2>6. WhenIdle'
    BY <2>1, <2>4, <2>5 DEF WhenIdle
  <2>7. WhenTimed' /\ WhenStored'
    BY <2>1 DEF WhenTimed, WhenStored, Idle
  <2>. QED BY <1>2, <2>6, <2>7 DEF Agreement, SendChange
<1>. QED BY <1>1, <1>2

LEMMA ReadKeepsAgreement == ASSUME StateOK, Agreement, ReadStatus PROVE Agreement'
<1>1. callback'.at = "read" /\ callback'.status = status /\ callback'.now = callback.now
  BY DEF ReadStatus, StateOK, CallbackTasks
<1> SUFFICES ASSUME ~excused' PROVE WhenIdle' /\ WhenTimed' /\ WhenStored'
  BY DEF Agreement, ReadStatus
<1>2. ~excused /\ ~Overtakes /\ callback.at = "timed" /\ UNCHANGED <<service, host, status>>
  BY DEF ReadStatus
<1>3. WhenIdle /\ WhenTimed /\ WhenStored /\ Repeating
  BY <1>2 DEF Agreement, Repeating
<1>. QED BY <1>1, <1>2, <1>3, Numbers DEF Overtakes, WhenIdle, WhenTimed, WhenStored, Repeating

LEMMA SendRepeatKeepsAgreement ==
  ASSUME StateOK, Agreement, NEW ok \in BOOLEAN, SendRepeat(ok)
  PROVE  Agreement'
<1> SUFFICES ASSUME ~excused PROVE WhenIdle' /\ WhenTimed' /\ WhenStored'
  BY DEF Agreement, SendRepeat
<1>1. WhenIdle /\ WhenTimed /\ WhenStored /\ callback.at = "read" /\ Repeating
  BY DEF Agreement, SendRepeat, Repeating
<1>2. callback'.at = "idle" /\ UNCHANGED <<service, status>>
  BY DEF SendRepeat, Idle
<1>3. \/ host' = host
      \/ /\ host'.status = callback.status /\ host'.time = callback.now
         /\ host.status # callback.status /\ host.time < callback.now
  BY DEF SendRepeat, SendStatus, Hears
<1>4. WhenIdle'
  BY <1>1, <1>2, <1>3, Numbers DEF WhenIdle
<1>5. WhenTimed'
  BY <1>1, <1>2, <1>3, Numbers DEF WhenTimed, Repeating
<1>6. WhenStored'
  BY <1>1, <1>2, <1>3, Numbers DEF WhenStored, Repeating
<1>. QED BY <1>4, <1>5, <1>6

(* All times move together, except one the host has had for long.          *)
LEMMA TickKeepsAgreement == ASSUME StateOK, Agreement, Tick PROVE Agreement'
<1>1. host'.status = host.status /\ host'.time = Aged(host.time, LongAgo)
  BY DEF Tick, StateOK, Hosts
<1>2. service'.at = service.at /\ service'.status = service.status
      /\ (service.at \in {"timed", "stored"} => service'.now = service.now - 1 /\ -MaxDelay < service.now)
  BY Numbers DEF Tick, AgedTask, InFlight, StateOK, ServiceTasks
<1>3. callback'.at = callback.at /\ callback'.status = callback.status
      /\ (Repeating => callback'.now = callback.now - 1 /\ -MaxDelay < callback.now)
  BY Numbers DEF Tick, AgedTask, InFlight, StateOK, CallbackTasks, Repeating
<1>4. UNCHANGED <<app, status, excused>>
  BY DEF Tick
<1>5. WhenIdle => WhenIdle'
  BY <1>1, <1>2, <1>3, <1>4, Numbers, Bounds DEF WhenIdle, Repeating, Aged
<1>6. WhenTimed => WhenTimed'
  BY <1>1, <1>2, <1>3, <1>4, Numbers, Bounds DEF WhenTimed, Repeating, Aged
<1>7. WhenStored => WhenStored'
  BY <1>1, <1>2, <1>3, <1>4, Numbers, Bounds DEF WhenStored, Repeating, Aged
<1>. QED BY <1>4, <1>5, <1>6, <1>7 DEF Agreement

LEMMA StepAgreement == StateOK /\ Agreement /\ [Next]_vars => Agreement'
<1> SUFFICES ASSUME StateOK, Agreement, [Next]_vars PROVE Agreement'
  OBVIOUS
<1>1. CASE HostStarts
  BY <1>1 DEF HostStarts, Agreement
<1>2. CASE Listen
  BY <1>2 DEF Listen, Agreement, WhenIdle, WhenTimed, WhenStored, Repeating
<1>3. CASE Announce
  BY <1>3 DEF Announce, Agreement
<1>4. CASE StartSucceeds
  BY <1>4 DEF StartSucceeds, Agreement, WhenIdle, WhenTimed, WhenStored, Repeating
<1>5. CASE StartFails
  BY <1>5 DEF StartFails, Agreement, WhenIdle, WhenTimed, WhenStored, Repeating, None
<1>6. ASSUME NEW s \in Statuses, ChangeStatus(s) PROVE Agreement'
  BY <1>6, ChangeKeepsAgreement
<1>7. CASE StoreStatus
  BY <1>7, StoreKeepsAgreement
<1>8. CASE RepeatDue
  <2>1. callback'.at = "timed" /\ callback'.now = 0
    BY <1>8 DEF RepeatDue, StateOK, CallbackTasks
  <2>. QED BY <1>8, <2>1, Numbers DEF RepeatDue, Agreement, WhenIdle, WhenTimed, WhenStored, Repeating
<1>9. CASE ReadStatus
  BY <1>9, ReadKeepsAgreement
<1>10. ASSUME NEW ok \in BOOLEAN, SendChange(ok) PROVE Agreement'
  BY <1>10, SendChangeKeepsAgreement
<1>11. ASSUME NEW ok \in BOOLEAN, SendRepeat(ok) PROVE Agreement'
  BY <1>11, SendRepeatKeepsAgreement
<1>12. CASE Tick
  BY <1>12, TickKeepsAgreement
<1>13. CASE Receive
  BY <1>13 DEF Receive, RestartNow, Booting, boardVars, Agreement, WhenIdle, WhenTimed, WhenStored, Repeating
<1>14. CASE Restart
  BY <1>14 DEF Restart, RestartNow, Booting, Agreement
<1>15. CASE UNCHANGED vars
  BY <1>15 DEF vars, boardVars, Agreement, WhenIdle, WhenTimed, WhenStored, Repeating
<1>. QED BY <1>1, <1>2, <1>3, <1>4, <1>5, <1>6, <1>7, <1>8, <1>9, <1>10, <1>11,
            <1>12, <1>13, <1>14, <1>15 DEF Next

-----------------------------------------------------------------------------
(* The theorems. *)

LEMMA StateAlways == Spec => [](StateOK /\ Agreement)
<1>1. Init => StateOK /\ Agreement
  BY InitState, InitAgreement
<1>2. StateOK /\ Agreement /\ [Next]_vars => (StateOK /\ Agreement)'
  BY StepState, StepAgreement
<1>. QED BY <1>1, <1>2, PTL DEF Spec

(* The state of board and host keeps its types: the clocks stay within the *)
(* bounds of the delay and of the uptime (main.c, sh2service.c 117-135).   *)
THEOREM TypeCorrect == Spec => []TypeOK
<1>1. Init => AnswerOK
  BY DEF Init, Answers, AnswerOK
<1>2. AnswerOK /\ [Next]_vars => AnswerOK'
  BY DEF AnswerOK, Answers, Next, vars, HostStarts, Listen, Announce, StartSucceeds, StartFails,
         ChangeStatus, StoreStatus, RepeatDue, ReadStatus, SendChange, SendRepeat, Tick,
         Receive, Restart
<1>3. Spec => []AnswerOK
  BY <1>1, <1>2, PTL DEF Spec
<1>. QED BY <1>3, StateAlways, TypesSplit, PTL

(* Between two frames the host knows the status of the board, however the  *)
(* two tasks that send it interleave, unless a write failed, a side was    *)
(* restarted, or a repetition overtook a change (sh2service.c 117-135,     *)
(* 429-441; IMUSerialPortReader.cpp 115).                                  *)
THEOREM HostAgrees == Spec => []HostAgreesWhenQuiet
<1>1. StateOK /\ Agreement => HostAgreesWhenQuiet
  BY DEF StateOK, ServiceTasks, Agreement, WhenIdle, HostAgreesWhenQuiet, InFlight
<1>. QED BY <1>1, StateAlways, PTL

-----------------------------------------------------------------------------
(* The line to the host. *)

Numberings == {"board", "host"}
LineBytes ==
  [value : {Unknown} \cup 0..255, frame : Frames \cup {NoFrame},
   at : 0..(MaxPayload + 5)]

(* What damage cannot fake: a byte that has a place in a frame belongs to  *)
(* one that was sent, and has the type or the length of that frame if it   *)
(* has their place.                                                        *)
Honest(n) ==
  {b \in LineBytes :
     /\ b.at # 0 => b.frame \in Frames
     /\ b.at = 2 => b.value = Ids(n)[b.frame.kind]
     /\ b.at = 3 => b.value = Size[b.frame.kind]}

LEMMA FrameKinds ==
  ASSUME NEW f \in Frames
  PROVE  /\ f.kind \in Kinds /\ f.status \in Nat
         /\ f.kind = "status" => f.status \in HostStatuses
         /\ Size[f.kind] \in 9..28
         /\ \A n \in Numberings : Ids(n)[f.kind] \in 1..4
<1>1. /\ f.kind \in Kinds /\ f.status \in Nat
      /\ f.kind = "status" => f.status \in HostStatuses
  BY DEF Frames, FrameOf, Kinds, HostStatuses
<1>2. Size[f.kind] \in 9..28
  BY <1>1 DEF Size, Kinds
<1>3. \A n \in Numberings : Ids(n)[f.kind] \in 1..4
  BY <1>1 DEF Ids, BoardId, HostId, Kinds
<1>. QED BY <1>1, <1>2, <1>3

(* Type byte and length together tell the kind, whoever numbers the kinds: *)
(* where the two sides disagree the lengths differ.                        *)
LEMMA LengthTells ==
  ASSUME NEW f \in Frames, NEW n \in Numberings,
         NEW t, t = Ids(n)[f.kind], Size[f.kind] = Size[KindOf(t)]
  PROVE  KindOf(t) = f.kind
<1>1. f.kind \in Kinds /\ t \in 1..4
  BY FrameKinds
<1>2. PICK k \in Kinds : HostId[k] = t
  BY <1>1 DEF Kinds, HostId
<1>3. KindOf(t) \in Kinds /\ HostId[KindOf(t)] = t
  BY <1>2 DEF KindOf
<1>4. PICK g \in Kinds : g = KindOf(t) /\ HostId[g] = t /\ Size[f.kind] = Size[g]
  BY <1>3
<1>5. g = f.kind
  BY <1>1, <1>4 DEF Ids, BoardId, HostId, Kinds, Size
<1>. QED BY <1>4, <1>5

LEMMA FrameBytes ==
  ASSUME NEW f \in Frames, numbering \in Numberings
  PROVE  /\ Frame(f) \in Seq(Honest(numbering))
         /\ Len(Frame(f)) = Size[f.kind] + 5
         /\ \A i \in 1..Size[f.kind] + 5 :
              Frame(f)[i].frame = f /\ Frame(f)[i].at = i
         /\ Frame(f)[1].value = Magic
         /\ Frame(f)[2].value = Ids(numbering)[f.kind]
         /\ Frame(f)[3].value = Size[f.kind]
<1>1. PICK m \in 9..28 : m = Size[f.kind]
  BY FrameKinds
<1>2. PICK k \in 1..4 : k = Ids(numbering)[f.kind]
  BY FrameKinds
<1>3. Frame(f) = [i \in 1..m + 5 |->
        [value |-> CASE i = 1 -> 165 [] i = 2 -> k [] i = 3 -> m [] OTHER -> -1,
         frame |-> f, at |-> i]]
  BY <1>1, <1>2 DEF Frame, Magic, Unknown
<1>4. ASSUME NEW i \in 1..m + 5
      PROVE  Frame(f)[i] \in Honest(numbering)
  <2>1. PICK v : v = CASE i = 1 -> 165 [] i = 2 -> k [] i = 3 -> m [] OTHER -> -1
    OBVIOUS
  <2>3. Frame(f)[i] = [value |-> v, frame |-> f, at |-> i]
    BY ONLY <1>3, <1>4, <2>1
  <2>4. v \in {-1} \cup 0..255 /\ (i = 2 => v = k) /\ (i = 3 => v = m)
    BY ONLY <1>1, <1>2, <1>4, <2>1
  <2>2. i \in 0..73 + 5 /\ i # 0
    OBVIOUS
  <2>. QED BY <1>1, <1>2, <2>2, <2>3, <2>4 DEF Honest, LineBytes, Unknown, MaxPayload
<1>5. m + 5 \in Nat /\ DOMAIN Frame(f) = 1..m + 5 /\ Frame(f) = [i \in 1..m + 5 |-> Frame(f)[i]]
  <2>1. PICK V : V = [i \in 1..m + 5 |-> CASE i = 1 -> 165 [] i = 2 -> k [] i = 3 -> m [] OTHER -> -1]
    OBVIOUS
  <2>2. Frame(f) = [i \in 1..m + 5 |-> [value |-> V[i], frame |-> f, at |-> i]]
    BY ONLY <1>3, <2>1
  <2>3. DOMAIN Frame(f) = 1..m + 5 /\ Frame(f) = [i \in 1..m + 5 |-> Frame(f)[i]]
    BY ONLY <2>2
  <2>4. m \in 9..28
    BY <1>1
  <2>5. m + 5 \in Nat
    BY ONLY <2>4
  <2>. QED BY ONLY <2>3, <2>5
<1>6. Frame(f) \in [1..m + 5 -> Honest(numbering)]
  BY <1>4, <1>5
<1>7. Frame(f) \in Seq(Honest(numbering)) /\ Len(Frame(f)) = m + 5
  BY <1>5, <1>6
<1>8. /\ \A i \in 1..m + 5 : Frame(f)[i].frame = f /\ Frame(f)[i].at = i
      /\ Frame(f)[1].value = 165 /\ Frame(f)[2].value = k /\ Frame(f)[3].value = m
  <2>1. ASSUME NEW i \in 1..m + 5 PROVE Frame(f)[i].frame = f /\ Frame(f)[i].at = i
    BY ONLY <1>3, <2>1
  <2>2. 1 \in 1..m + 5 /\ 2 \in 1..m + 5 /\ 3 \in 1..m + 5
    BY ONLY <1>1
  <2>3. Frame(f)[1].value = 165
    BY ONLY <1>3, <2>2
  <2>4. Frame(f)[2].value = k
    BY ONLY <1>3, <2>2
  <2>5. Frame(f)[3].value = m
    BY ONLY <1>3, <2>2
  <2>. QED BY <2>1, <2>3, <2>4, <2>5
<1>. QED BY <1>1, <1>2, <1>7, <1>8 DEF Magic

(* Bytes of elsewhere, and what damage makes of a frame. *)
With(q, i, v) == [q EXCEPT ![i] = Foreign(v)]
Changed(d, q, i) == \E v \in 0..255 : d = With(q, i, v)

LEMMA AlteredIs ==
  ASSUME NEW q, NEW i, NEW d \in Altered(q, i)
  PROVE  Changed(d, q, i)
<1>1. {0, 4, 20, MaxPayload, MaxPayload + 1, 255, Magic} \ {q[i].value} \subseteq 0..255
  BY DEF MaxPayload, Magic
<1>2. PICK A : A = {0, 4, 20, MaxPayload, MaxPayload + 1, 255, Magic} \ {q[i].value}
  OBVIOUS
<1>3. PICK B : B = 0..255
  BY Zenon
<1>4. A \subseteq B
  BY ONLY <1>1, <1>2, <1>3, Zenon
<1>5. Altered(q, i) = {With(q, i, v) : v \in A}
  BY <1>2, Zenon DEF Altered, With
<1>6. \E v \in B : d = With(q, i, v)
  BY <1>4, <1>5, Zenon
<1>. QED BY ONLY <1>3, <1>6, Zenon DEF Changed

LEMMA ForeignHonest ==
  ASSUME NEW v \in 0..255, NEW n PROVE Foreign(v) \in Honest(n)
BY DEF Foreign, Honest, LineBytes, MaxPayload

LEMMA TextHonest == ASSUME NEW n PROVE <<Text>> \in Seq(Honest(n))
<1>1. Text \in Honest(n)
  BY ForeignHonest DEF Text
<1>. QED BY <1>1

LEMMA DamageIs ==
  ASSUME NEW q, NEW m \in Nat, m = Len(q), m >= 4, NEW d \in Damages(q)
  PROVE  \E i \in 1..m :
           \/ d = SubSeq(q, 1, i - 1)
           \/ d = SubSeq(q, 1, i - 1) \o SubSeq(q, i + 1, m)
           \/ i # 1 /\ d = SubSeq(q, 1, i - 1) \o <<Text>> \o SubSeq(q, i, m)
           \/ Changed(d, q, i)
<1>1. PICK i \in {1, 2, 3, 4, m} : d \in DamagedAt(q, i)
  BY DEF Damages
<1>2. i \in 1..m
  OBVIOUS
<1>3. \/ d = SubSeq(q, 1, i - 1)
      \/ d = SubSeq(q, 1, i - 1) \o SubSeq(q, i + 1, m)
      \/ i # 1 /\ d = SubSeq(q, 1, i - 1) \o <<Text>> \o SubSeq(q, i, m)
      \/ d \in Altered(q, i)
  BY <1>1 DEF DamagedAt
<1>4. ASSUME d \in Altered(q, i)
      PROVE  Changed(d, q, i)
  BY <1>4, AlteredIs
<1>. QED BY <1>2, <1>3, <1>4, Zenon

LEMMA DamagedHonest ==
  ASSUME NEW n, NEW q \in Seq(Honest(n)), Len(q) >= 4, NEW d \in Damages(q)
  PROVE  d \in Seq(Honest(n))
<1> DEFINE H == Honest(n)
<1>1. PICK m \in Nat : m = Len(q) /\ m >= 4
  BY LenProperties
<1>2. PICK i \in 1..m :
        \/ d = SubSeq(q, 1, i - 1)
        \/ d = SubSeq(q, 1, i - 1) \o SubSeq(q, i + 1, m)
        \/ i # 1 /\ d = SubSeq(q, 1, i - 1) \o <<Text>> \o SubSeq(q, i, m)
        \/ Changed(d, q, i)
  BY <1>1, DamageIs
<1>3. ASSUME NEW j \in Int, NEW k \in Int, j >= 1, k <= m
      PROVE  SubSeq(q, j, k) \in Seq(H)
  <2>1. \A l \in j..k : q[l] \in H
    BY <1>1, <1>3, ElementOfSeq
  <2>. QED BY <2>1, SubSeqProperties
<1>4. /\ SubSeq(q, 1, i - 1) \in Seq(H) /\ SubSeq(q, i + 1, m) \in Seq(H)
      /\ SubSeq(q, i, m) \in Seq(H) /\ <<Text>> \in Seq(H)
  BY <1>3, TextHonest
<1> HIDE DEF H
<1>5. /\ SubSeq(q, 1, i - 1) \o SubSeq(q, i + 1, m) \in Seq(H)
      /\ SubSeq(q, 1, i - 1) \o <<Text>> \o SubSeq(q, i, m) \in Seq(H)
  <2>1. SubSeq(q, 1, i - 1) \o <<Text>> \in Seq(H)
    BY <1>4, ConcatProperties
  <2>. QED BY <1>4, <2>1, ConcatProperties
<1>6. ASSUME NEW v \in 0..255 PROVE With(q, i, v) \in Seq(H)
  <2>1. Foreign(v) \in H /\ i \in 1..Len(q) /\ q \in Seq(H)
    BY <1>1, <1>6, ForeignHonest DEF H
  <2>. QED BY <2>1, ExceptSeq DEF With
<1>7. Changed(d, q, i) => d \in Seq(H)
  BY <1>6 DEF Changed
<1>8. d \in Seq(H)
  BY <1>2, <1>4, <1>5, <1>7
<1>. QED BY <1>8 DEF H

(* What the reader knows.  Of a message that agrees with a frame so far,   *)
(* the type and the length are those of that frame, because both bytes are *)
(* known and had the values that place gives them.                         *)
ReadSoFar ==
  /\ message.got # 0 => message.frame \in Frames
  /\ pc = "start" => message.got = 0
  /\ pc = "type" => message.got \in {0, 1}
  /\ pc = "length" => message.got \in {0, 2}
  /\ pc \in {"payload", "checksum", "decode"} => message.got \notin {1, 2} /\ type \in 1..4
  /\ message.got >= 2 => type = Ids(numbering)[message.frame.kind]
  /\ message.got >= 3 => length = Size[message.frame.kind]

LinkKinds ==
  /\ numbering \in Numberings
  /\ line \in Seq(Honest(numbering))
  /\ pc \in {"start", "type", "length", "payload", "checksum", "decode"}
  /\ need \in Nat
  /\ message \in [frame : Frames \cup {NoFrame}, got : Nat]
  /\ ReadSoFar
  /\ ~mistaken

LEMMA ValuesAre ==
  ASSUME NEW n, NEW b \in Honest(n)
  PROVE  /\ Values(b) \subseteq 0..255
         /\ b.value # -1 => Values(b) = {b.value}
<1>1. b.value \in {-1} \cup 0..255
  BY DEF Honest, LineBytes, Unknown
<1>. QED BY <1>1 DEF Values, Unknown, Samples, MaxPayload, Magic

LEMMA ExtendedIs ==
  ASSUME LinkKinds, NEW k \in Nat
  PROVE  /\ Extended(k) \in [frame : Frames \cup {NoFrame}, got : Nat]
         /\ \/ Extended(k) = [frame |-> NoFrame, got |-> 0]
            \/ /\ message.got > 0
               /\ \A j \in 1..k : line[j].frame = message.frame /\ line[j].at = message.got + j
               /\ Extended(k) = [frame |-> message.frame, got |-> message.got + k]
<1>1. /\ message \in [frame : Frames \cup {NoFrame}, got : Nat]
      /\ message = [frame |-> message.frame, got |-> message.got] /\ message.got \in Nat
  BY DEF LinkKinds
<1>2. [message EXCEPT !.got = @ + k] = [frame |-> message.frame, got |-> message.got + k]
  BY <1>1
<1>. QED BY <1>1, <1>2 DEF Extended, Spoilt

LEMMA Taken ==
  ASSUME LinkKinds, line # <<>>
  PROVE  /\ Len(line) \in Nat \ {0} /\ Head(line) = line[1] /\ line[1] \in Honest(numbering)
         /\ \A k \in 0..Len(line) : Rest(k) \in Seq(Honest(numbering))
         /\ Available \in 0..Len(line) /\ Available <= need
<1>1. PICK H : H = Honest(numbering)
  OBVIOUS
<1>2. line \in Seq(H) /\ need \in Nat
  BY <1>1 DEF LinkKinds
<1>3. Len(line) \in Nat \ {0} /\ Head(line) = line[1] /\ line[1] \in H
  BY <1>2
<1>4. ASSUME NEW k \in 0..Len(line) PROVE SubSeq(line, k + 1, Len(line)) \in Seq(H)
  <2>1. \A l \in k + 1..Len(line) : line[l] \in H
    BY <1>2, <1>3, ElementOfSeq
  <2>. QED BY <1>3, <2>1, SubSeqProperties
<1>5. Available \in 0..Len(line) /\ Available <= need
  BY <1>2, <1>3 DEF Available
<1>. QED BY <1>1, <1>3, <1>4, <1>5 DEF Rest

LEMMA StartKinds == LinkKinds /\ ReadStart => LinkKinds'
<1> SUFFICES ASSUME LinkKinds, ReadStart PROVE LinkKinds'
  OBVIOUS
<1>1. /\ line # <<>> /\ line' = Rest(1) /\ numbering' = numbering /\ mistaken' = mistaken
      /\ pc = "start"
  BY DEF ReadStart, frameVars, hostVars
<1>2. /\ line[1] \in Honest(numbering) /\ Head(line) = line[1] /\ 1 \in 0..Len(line)
      /\ Rest(1) \in Seq(Honest(numbering))
  BY <1>1, Taken
<1>3. \/ UNCHANGED <<pc, type, length, need, message>>
      \/ /\ pc' = "type" /\ need' = 2
         /\ \/ line[1].at = 1 /\ message' = [frame |-> line[1].frame, got |-> 1]
            \/ message' = [frame |-> NoFrame, got |-> 0]
  BY <1>2 DEF ReadStart, readerVars, Spoilt
<1>4. line[1].at = 1 => line[1].frame \in Frames
  BY <1>2 DEF Honest
<1>. QED BY <1>1, <1>2, <1>3, <1>4 DEF LinkKinds, ReadSoFar

LEMMA TypeKinds == LinkKinds /\ ReadType => LinkKinds'
<1> SUFFICES ASSUME LinkKinds, ReadType PROVE LinkKinds'
  OBVIOUS
<1>1. /\ line # <<>> /\ line' = Rest(1) /\ numbering' = numbering /\ mistaken' = mistaken
      /\ pc = "type" /\ pc' = "length" /\ need' = 1 /\ message' = Extended(1)
      /\ type' \in Values(Head(line))
  BY DEF ReadType, frameVars, hostVars
<1>2. /\ line[1] \in Honest(numbering) /\ Head(line) = line[1] /\ 1 \in 0..Len(line)
      /\ Rest(1) \in Seq(Honest(numbering))
  BY <1>1, Taken
<1>3. message.got \in {0, 1} /\ (message.got # 0 => message.frame \in Frames)
  BY <1>1 DEF LinkKinds, ReadSoFar
<1>4. /\ message' \in [frame : Frames \cup {NoFrame}, got : Nat]
      /\ \/ message' = [frame |-> NoFrame, got |-> 0]
         \/ /\ message' = [frame |-> message.frame, got |-> 2] /\ message.frame \in Frames
            /\ line[1].frame = message.frame /\ line[1].at = 2
  BY <1>1, <1>3, ExtendedIs
<1>5. line[1].at = 2 => type' = Ids(numbering)[line[1].frame.kind]
  <2>1. ASSUME line[1].at = 2
        PROVE  line[1].value = Ids(numbering)[line[1].frame.kind] /\ line[1].value # -1
    <3>1. line[1].frame \in Frames /\ line[1].value = Ids(numbering)[line[1].frame.kind]
      BY <1>2, <2>1 DEF Honest
    <3>2. Ids(numbering)[line[1].frame.kind] \in 1..4
      BY <3>1, FrameKinds DEF LinkKinds
    <3>. QED BY <3>1, <3>2
  <2>. QED BY <1>1, <1>2, <2>1, ValuesAre
<1>. QED BY <1>1, <1>2, <1>4, <1>5 DEF LinkKinds, ReadSoFar

LEMMA RestartKinds ==
  ASSUME LinkKinds, StartOver, numbering' = numbering, ~mistaken',
         line' \in Seq(Honest(numbering))
  PROVE  LinkKinds'
<1>1. message' \in [frame : Frames \cup {NoFrame}, got : Nat] /\ message'.got = 0
  BY DEF StartOver, Spoilt
<1>. QED BY <1>1 DEF LinkKinds, ReadSoFar, StartOver

LEMMA LengthKinds == LinkKinds /\ ReadLength => LinkKinds'
<1> SUFFICES ASSUME LinkKinds, ReadLength PROVE LinkKinds'
  OBVIOUS
<1>1. /\ line # <<>> /\ line' = Rest(1) /\ numbering' = numbering /\ mistaken' = mistaken
      /\ pc = "length"
  BY DEF ReadLength, frameVars, hostVars
<1>2. /\ line[1] \in Honest(numbering) /\ Head(line) = line[1] /\ 1 \in 0..Len(line)
      /\ Rest(1) \in Seq(Honest(numbering))
  BY <1>1, Taken
<1>3. PICK n \in Values(line[1]) :
        \/ StartOver
        \/ /\ type \in 1..4 /\ length' = n /\ message' = Extended(1) /\ type' = type
           /\ \/ pc' = "checksum" /\ need' = 2
              \/ pc' = "payload" /\ need' = n
  BY <1>2 DEF ReadLength, Rejects, KnownType
<1>4. n \in Nat
  <2>1. Values(line[1]) \subseteq 0..255
    BY <1>2, ValuesAre
  <2>. QED BY <1>3, <2>1
<1>5. CASE StartOver
  BY <1>1, <1>2, <1>5, RestartKinds DEF LinkKinds
<1>6. CASE ~StartOver
  <2>1. /\ message.got \in {0, 2} /\ (message.got # 0 => message.frame \in Frames)
        /\ message.got = 2 => type = Ids(numbering)[message.frame.kind]
    BY <1>1 DEF LinkKinds, ReadSoFar
  <2>2. /\ message' \in [frame : Frames \cup {NoFrame}, got : Nat]
        /\ \/ message' = [frame |-> NoFrame, got |-> 0]
           \/ /\ message' = [frame |-> message.frame, got |-> 3] /\ message.frame \in Frames
              /\ message.got = 2
              /\ line[1].frame = message.frame /\ line[1].at = 3
    BY <1>3, <1>6, <2>1, ExtendedIs
  <2>3. line[1].at = 3 => n = Size[line[1].frame.kind]
    <3>1. ASSUME line[1].at = 3
          PROVE  line[1].value = Size[line[1].frame.kind] /\ line[1].value # -1
      <4>1. line[1].frame \in Frames /\ line[1].value = Size[line[1].frame.kind]
        BY <1>2, <3>1 DEF Honest
      <4>2. Size[line[1].frame.kind] \in 9..28
        BY <4>1, FrameKinds
      <4>. QED BY <4>1, <4>2
    <3>. QED BY <1>2, <1>3, <3>1, ValuesAre
  <2>4. numbering' \in Numberings /\ line' \in Seq(Honest(numbering))' /\ ~mistaken' /\ need' \in Nat
        /\ pc' \in {"checksum", "payload"} /\ type' \in 1..4
    BY <1>1, <1>2, <1>3, <1>4, <1>6 DEF LinkKinds
  <2>5. ReadSoFar'
    BY <1>1, <1>3, <1>6, <2>1, <2>2, <2>3, <2>4 DEF ReadSoFar
  <2>. QED BY <2>2, <2>4, <2>5 DEF LinkKinds
<1>. QED BY <1>5, <1>6

(* ReadExact hands on what is there; a message once spoilt stays spoilt. *)
LEMMA BodyKinds == LinkKinds /\ (ReadPayload \/ ReadChecksum) => LinkKinds'
<1> SUFFICES ASSUME LinkKinds, ReadPayload \/ ReadChecksum PROVE LinkKinds'
  OBVIOUS
<1>1. PICK k : k = Available
  OBVIOUS
<1>2. /\ line # <<>> /\ line' = Rest(k) /\ numbering' = numbering /\ mistaken' = mistaken
      /\ message' = Extended(k) /\ type' = type /\ length' = length
      /\ pc \in {"payload", "checksum"} /\ pc' \in {"payload", "checksum", "decode"}
      /\ need' \in {0, 2, need - k}
  BY <1>1, Zenon DEF ReadPayload, ReadChecksum, frameVars, hostVars
<1>3. /\ k \in 0..Len(line) /\ k <= need /\ Len(line) \in Nat /\ need \in Nat
      /\ Rest(k) \in Seq(Honest(numbering))
  BY <1>1, <1>2, Taken DEF LinkKinds
<1>4. /\ message.got \in Nat /\ message.got \notin {1, 2} /\ type \in 1..4
      /\ message.got # 0 => message.frame \in Frames
      /\ message.got >= 2 => type = Ids(numbering)[message.frame.kind]
      /\ message.got >= 3 => length = Size[message.frame.kind]
  BY <1>2 DEF LinkKinds, ReadSoFar
<1>5. /\ message' \in [frame : Frames \cup {NoFrame}, got : Nat]
      /\ \/ message' = [frame |-> NoFrame, got |-> 0]
         \/ message.got > 0 /\ message' = [frame |-> message.frame, got |-> message.got + k]
  <2>1. k \in Nat
    BY <1>3
  <2>2. /\ Extended(k) \in [frame : Frames \cup {NoFrame}, got : Nat]
        /\ \/ Extended(k) = [frame |-> NoFrame, got |-> 0]
           \/ message.got > 0 /\ Extended(k) = [frame |-> message.frame, got |-> message.got + k]
    BY <2>1, ExtendedIs
  <2>. QED BY ONLY <1>2, <2>2
<1>6. need' \in Nat
  BY <1>2, <1>3
<1>7. ReadSoFar'
  BY <1>2, <1>3, <1>4, <1>5 DEF ReadSoFar
<1>. QED BY <1>2, <1>3, <1>5, <1>6, <1>7 DEF LinkKinds

LEMMA DecodeKinds == LinkKinds /\ Decode => LinkKinds'
<1> SUFFICES ASSUME LinkKinds, Decode PROVE LinkKinds'
  OBVIOUS
<1>1. /\ StartOver /\ numbering' = numbering /\ line' = line /\ pc = "decode"
      /\ \/ mistaken' = mistaken
         \/ /\ message.got > 0 /\ length = Size[KindOf(type)]
            /\ mistaken' = (mistaken \/ message.frame.kind # KindOf(type))
  BY DEF Decode, ValidMessage, Dispatch, SizeAgrees, frameVars, hostVars
<1>2. ASSUME message.got > 0, length = Size[KindOf(type)]
      PROVE  message.frame.kind = KindOf(type)
  <2>1. /\ message.got \in Nat /\ message.got \notin {0, 1, 2} /\ message.frame \in Frames
        /\ type = Ids(numbering)[message.frame.kind] /\ length = Size[message.frame.kind]
        /\ numbering \in Numberings
    BY <1>1, <1>2 DEF LinkKinds, ReadSoFar
  <2>. QED BY <1>2, <2>1, LengthTells
<1>3. ~mistaken'
  <2>1. CASE mistaken' = mistaken
    BY <2>1 DEF LinkKinds
  <2>2. CASE message.got > 0 /\ length = Size[KindOf(type)]
    BY <1>1, <1>2, <2>2, Zenon DEF LinkKinds
  <2>. QED BY <1>1, <2>1, <2>2
<1>. QED BY <1>1, <1>3, RestartKinds DEF LinkKinds

LEMMA SendKinds ==
  ASSUME LinkKinds, NEW f \in Frames, Send(f) PROVE LinkKinds'
<1>1. /\ numbering' = numbering /\ mistaken' = mistaken
      /\ UNCHANGED <<pc, type, length, need, message>>
      /\ line' = Frame(f) \/ line' \in Damages(Frame(f))
  BY DEF Send, readerVars, hostVars
<1>2. PICK q : q = Frame(f)
  OBVIOUS
<1>3. q \in Seq(Honest(numbering)) /\ Len(q) = Size[f.kind] + 5 /\ Size[f.kind] \in 9..28
  BY <1>2, FrameBytes, FrameKinds DEF LinkKinds
<1>4. line' \in Seq(Honest(numbering))
  <2>1. CASE line' \in Damages(q)
    <3>1. PICK n : n = numbering
      OBVIOUS
    <3>2. q \in Seq(Honest(n))
      BY <1>3, <3>1
    <3>2a. Len(q) >= 4
      <4>1. PICK m \in 9..28 : m = Size[f.kind]
        BY <1>3
      <4>2. Len(q) = m + 5
        BY <1>3, <4>1
      <4>3. m + 5 >= 4
        OBVIOUS
      <4>. QED BY ONLY <4>2, <4>3
    <3>3. \A d \in Damages(q) : d \in Seq(Honest(n))
      BY <3>2, <3>2a, DamagedHonest
    <3>. QED BY <2>1, <3>1, <3>3
  <2>. QED BY <1>1, <1>2, <1>3, <2>1
<1>. QED BY <1>1, <1>4 DEF LinkKinds, ReadSoFar

LEMMA KindsInvariant == LinkSpec => []LinkKinds
<1>1. LinkInit => LinkKinds
  <2> SUFFICES ASSUME LinkInit PROVE LinkKinds
    OBVIOUS
  <2>1. message \in [frame : Frames \cup {NoFrame}, got : Nat] /\ message.got = 0
    BY DEF LinkInit, Spoilt
  <2>2. line \in Seq(Honest(numbering))
    BY DEF LinkInit
  <2>. QED BY <2>1, <2>2 DEF LinkInit, LinkKinds, ReadSoFar, Numberings
<1>2. LinkKinds /\ [LinkNext]_linkVars => LinkKinds'
  <2> SUFFICES ASSUME LinkKinds, [LinkNext]_linkVars PROVE LinkKinds'
    OBVIOUS
  <2>1. CASE \E f \in Frames : Send(f)
    BY <2>1, SendKinds
  <2>2. CASE LogLine
    BY <2>2, TextHonest
       DEF LogLine, frameVars, readerVars, hostVars, LinkKinds, ReadSoFar
  <2>3. CASE Reader
    BY <2>3, StartKinds, TypeKinds, LengthKinds, BodyKinds, DecodeKinds DEF Reader
  <2>4. CASE ReadFails
    BY <2>4, RestartKinds DEF ReadFails, frameVars, hostVars, LinkKinds
  <2>5. CASE UNCHANGED linkVars
    BY <2>5 DEF linkVars, frameVars, readerVars, hostVars, LinkKinds, ReadSoFar
  <2>. QED BY <2>1, <2>2, <2>3, <2>4, <2>5 DEF LinkNext
<1>. QED BY <1>1, <1>2, PTL DEF LinkSpec

(* No payload is taken for one of another kind                             *)
(* (IMUSerialPortReader.cpp 70-140), whatever is damaged on the line and   *)
(* whichever side's numbering the type bytes follow.                       *)
THEOREM KindsKept == LinkSpec => []KindsAreKept
<1>1. LinkKinds => KindsAreKept
  BY DEF LinkKinds, KindsAreKept
<1>. QED BY <1>1, KindsInvariant, PTL

(* The reader is in step: there is at most one frame on its way besides a   *)
(* message read to its end, and it stands where it has read exactly a      *)
(* beginning of that frame.  Those lost before stay lost.                  *)
Quiet == line \in {<<>>, <<Text>>}
FrameAhead == \E f \in Frames : line = Frame(f)
Between(read) ==
  \/ Quiet /\ missing = read
  \/ FrameAhead /\ missing = read + 1

Within(f, got) ==
  /\ message = [frame |-> f, got |-> got]
  /\ line = SubSeq(Frame(f), got + 1, Size[f.kind] + 5)

Reading(f) ==
  \/ pc = "type" /\ Within(f, 1)
  \/ pc = "length" /\ Within(f, 2) /\ type = Ids(numbering)[f.kind]
  \/ pc = "payload" /\ Within(f, 3) /\ need = Size[f.kind]
  \/ pc = "checksum" /\ Within(f, Size[f.kind] + 3) /\ need = 2

InStep(lost) ==
  \/ pc = "start" /\ Between(lost)
  \/ pc = "decode" /\ message.got > 0 /\ Between(lost + 1)
  \/ missing = lost + 1 /\ \E f \in Frames : Reading(f)

(* As long as nothing is damaged, nothing is lost. *)
LinkWhole == numbering \in Numberings /\ faults \in Nat /\ (faults = 0 => InStep(0))

(* What is left of a sequence when its first b elements are taken. *)
LEMMA Rear ==
  ASSUME NEW S, NEW q \in Seq(S), NEW n \in Nat, n = Len(q), NEW b \in Nat, b <= n
  PROVE  /\ SubSeq(q, b + 1, n) \in Seq(S) /\ Len(SubSeq(q, b + 1, n)) = n - b
         /\ \A j \in 1..n - b : SubSeq(q, b + 1, n)[j] = q[b + j]
<1>1. PICK a \in Nat : a = b + 1
  OBVIOUS
<1>2. \A l \in a..n : q[l] \in S
  <2> SUFFICES ASSUME NEW l \in a..n PROVE q[l] \in S
    OBVIOUS
  <2>1. l \in 1..Len(q)
    BY <1>1
  <2>. QED BY <2>1, ElementOfSeq
<1>3. /\ SubSeq(q, a, n) \in Seq(S)
      /\ Len(SubSeq(q, a, n)) = IF a <= n THEN n - a + 1 ELSE 0
      /\ \A j \in 1..n - a + 1 : SubSeq(q, a, n)[j] = q[a + j - 1]
  BY <1>2, SubSeqProperties
<1>4. (IF a <= n THEN n - a + 1 ELSE 0) = n - b /\ n - a + 1 = n - b
  BY <1>1
<1>5. ASSUME NEW j \in 1..n - b PROVE SubSeq(q, a, n)[j] = q[b + j]
  <2>1. a + j - 1 = b + j
    BY <1>1
  <2>2. SubSeq(q, a, n)[j] = q[a + j - 1]
    BY <1>3, <1>4
  <2>. QED BY <2>1, <2>2
<1>. QED BY <1>1, <1>3, <1>4, <1>5

LEMMA RearOfRear ==
  ASSUME NEW S, NEW q \in Seq(S), NEW n \in Nat, n = Len(q), NEW b \in Nat, b <= n,
         NEW k \in Nat, b + k <= n
  PROVE  SubSeq(SubSeq(q, b + 1, n), k + 1, n - b) = SubSeq(q, b + k + 1, n)
<1>1. PICK t : t = SubSeq(q, b + 1, n)
  OBVIOUS
<1>2. PICK c, r : c = b + k /\ r = n - b
  OBVIOUS
<1>3. c \in Nat /\ c <= n /\ r \in Nat /\ k <= r /\ r - k = n - c
  BY <1>2
<1>4. t \in Seq(S) /\ Len(t) = r /\ \A j \in 1..r : t[j] = q[b + j]
  <2>1. t \in Seq(S) /\ Len(t) = n - b /\ \A j \in 1..n - b : t[j] = q[b + j]
    BY <1>1, Rear
  <2>. QED BY <1>2, <2>1
<1>5. /\ SubSeq(t, k + 1, r) \in Seq(S) /\ Len(SubSeq(t, k + 1, r)) = r - k
      /\ \A j \in 1..r - k : SubSeq(t, k + 1, r)[j] = t[k + j]
  BY <1>3, <1>4, Rear
<1>6. /\ SubSeq(q, c + 1, n) \in Seq(S) /\ Len(SubSeq(q, c + 1, n)) = n - c
      /\ \A j \in 1..n - c : SubSeq(q, c + 1, n)[j] = q[c + j]
  BY <1>3, Rear
<1>7. ASSUME NEW j \in 1..r - k PROVE t[k + j] = q[c + j]
  <2>1. k + j \in 1..r /\ b + (k + j) = c + j
    BY <1>2, <1>3
  <2>2. t[k + j] = q[b + (k + j)]
    BY <1>4, <2>1
  <2>. QED BY <2>1, <2>2
<1>8. SubSeq(t, k + 1, r) = SubSeq(q, c + 1, n)
  <2>1. \A j \in 1..Len(SubSeq(t, k + 1, r)) : SubSeq(t, k + 1, r)[j] = SubSeq(q, c + 1, n)[j]
    BY <1>3, <1>5, <1>6, <1>7
  <2>2. Len(SubSeq(t, k + 1, r)) = Len(SubSeq(q, c + 1, n))
    BY <1>3, <1>5, <1>6
  <2>. QED BY <1>5, <1>6, <2>1, <2>2, SeqEqual
<1>. QED BY <1>1, <1>2, <1>8

LEMMA Ahead ==
  ASSUME numbering \in Numberings, NEW f \in Frames, NEW g \in Nat, g > 0,
         g < Size[f.kind] + 5, Within(f, g)
  PROVE  /\ line # <<>> /\ Len(line) = (Size[f.kind] + 5) - g /\ Head(line) = Frame(f)[g + 1]
         /\ \A k \in 0..Len(line) :
              /\ Rest(k) = SubSeq(Frame(f), g + k + 1, Size[f.kind] + 5)
              /\ Extended(k) = [frame |-> f, got |-> g + k]
<1>1. PICK q, n, H : q = Frame(f) /\ n = Size[f.kind] + 5 /\ H = Honest(numbering)
  OBVIOUS
<1>2. n \in Nat /\ g < n
  BY <1>1, FrameKinds
<1>3. q \in Seq(H) /\ Len(q) = n /\ \A i \in 1..n : q[i].frame = f /\ q[i].at = i
  BY <1>1, FrameBytes
<1>4. line = SubSeq(q, g + 1, n) /\ message = [frame |-> f, got |-> g]
  BY <1>1 DEF Within
<1>5. PICK r \in Nat : r = n - g /\ r > 0 /\ r = (Size[f.kind] + 5) - g
  <2>1. n - g \in Nat /\ n - g > 0
    BY <1>2
  <2>2. n - g = (Size[f.kind] + 5) - g
    BY <1>1, Zenon
  <2>. QED BY <2>1, <2>2
<1>6. line \in Seq(H) /\ Len(line) = r /\ \A j \in 1..r : line[j] = q[g + j]
  <2>1. g <= n
    BY <1>2
  <2>2. /\ SubSeq(q, g + 1, n) \in Seq(H) /\ Len(SubSeq(q, g + 1, n)) = n - g
        /\ \A j \in 1..n - g : SubSeq(q, g + 1, n)[j] = q[g + j]
    BY <1>2, <1>3, <2>1, Rear
  <2>. QED BY <1>4, <1>5, <2>2
<1>7. line # <<>> /\ Head(line) = q[g + 1]
  <2>1. line # <<>>
    <3>1. Len(<<>>) = 0
      OBVIOUS
    <3>. QED BY ONLY <1>5, <1>6, <3>1
  <2>2. 1 \in 1..r
    BY <1>5
  <2>. QED BY <1>6, <2>1, <2>2
<1>8. ASSUME NEW k \in 0..r
      PROVE  SubSeq(line, k + 1, r) = SubSeq(q, g + k + 1, n)
  <2>1. k \in Nat /\ g + k <= n
    BY <1>2, <1>5
  <2>2. g \in Nat /\ g <= n
    BY <1>2
  <2>3. SubSeq(SubSeq(q, g + 1, n), k + 1, n - g) = SubSeq(q, g + k + 1, n)
    <3>1. n = Len(q) /\ q \in Seq(H) /\ n \in Nat
      BY <1>2, <1>3
    <3>. QED BY ONLY <2>1, <2>2, <3>1, RearOfRear
  <2>. QED BY <1>4, <1>5, <2>3
<1>9. ASSUME NEW k \in 0..r
      PROVE  Extended(k) = [frame |-> f, got |-> g + k]
  <2>1. ASSUME NEW j \in 1..k PROVE line[j].frame = message.frame /\ line[j].at = message.got + j
    <3>1. j \in 1..r /\ g + j \in 1..n
      BY <1>2, <1>5
    <3>2. line[j] = q[g + j] /\ q[g + j].frame = f /\ q[g + j].at = g + j
      BY <1>3, <1>6, <3>1
    <3>. QED BY <1>4, <3>2
  <2>2. message.got > 0 /\ [message EXCEPT !.got = @ + k] = [frame |-> f, got |-> g + k]
    BY <1>4
  <2>. QED BY <2>1, <2>2 DEF Extended
<1>10. (Size[f.kind] + 5) - g = r
  BY <1>1, <1>5
<1>11. ASSUME NEW k \in 0..Len(line)
       PROVE  Rest(k) = SubSeq(Frame(f), g + k + 1, Size[f.kind] + 5)
  BY <1>1, <1>6, <1>8, <1>11 DEF Rest
<1>. QED BY <1>1, <1>6, <1>7, <1>9, <1>10, <1>11

LEMMA WholeStart ==
  ASSUME numbering \in Numberings, NEW lost \in Int, InStep(lost), ReadStart
  PROVE  InStep(lost)'
<1>1. /\ pc = "start" /\ line # <<>> /\ line' = Rest(1) /\ missing' = missing
      /\ numbering' = numbering /\ numbering \in Numberings
      /\ (line = <<Text>> /\ missing = lost) \/ (FrameAhead /\ missing = lost + 1)
  BY DEF ReadStart, InStep, Between, Quiet, Reading, frameVars
<1>2. CASE line = <<Text>> /\ missing = lost
  <2>1. Values(Head(line)) = {46} /\ Rest(1) = <<>>
    BY <1>2 DEF Values, Text, Foreign, Rest, Unknown
  <2>2. pc' = "start"
    BY <1>1, <2>1 DEF ReadStart, Magic, readerVars
  <2>. QED BY <1>1, <1>2, <2>1, <2>2 DEF InStep, Between, Quiet
<1>3. CASE FrameAhead /\ missing = lost + 1
  <2>1. PICK f \in Frames : line = Frame(f)
    BY <1>3 DEF FrameAhead
  <2>2. PICK q : q = Frame(f)
    OBVIOUS
  <2>3. q \in Seq(Honest(numbering)) /\ Len(q) = Size[f.kind] + 5 /\ Size[f.kind] \in 9..28
        /\ q[1].value = 165
    BY <1>1, <2>2, FrameBytes, FrameKinds DEF Magic
  <2>3a. q[1].frame = f /\ q[1].at = 1
    <3>1. PICK n \in 9..28 : n = Size[f.kind]
      BY <2>3
    <3>2. 1 \in 1..n + 5
      OBVIOUS
    <3>. QED BY <1>1, <2>2, <3>1, <3>2, FrameBytes
  <2>4. Head(line) = q[1] /\ Values(Head(line)) = {165}
    BY <1>1, <2>1, <2>2, <2>3 DEF Values, Unknown
  <2>5. pc' = "type" /\ message' = [frame |-> f, got |-> 1]
    BY <2>3a, <2>4 DEF ReadStart, Magic
  <2>6. line' = SubSeq(q, 2, Size[f.kind] + 5)
    BY <1>1, <2>1, <2>2, <2>3 DEF Rest
  <2>7. Frame(f)' = q
    BY <1>1, <2>2 DEF Frame
  <2>8. Within(f, 1)'
    BY <2>5, <2>6, <2>7 DEF Within
  <2>. QED BY <1>1, <1>3, <2>5, <2>8 DEF InStep, Reading
<1>. QED BY <1>1, <1>2, <1>3

LEMMA WholeType ==
  ASSUME numbering \in Numberings, NEW lost \in Int, InStep(lost), ReadType
  PROVE  InStep(lost)'
<1>1. /\ pc = "type" /\ line # <<>> /\ line' = Rest(1) /\ missing' = missing
      /\ numbering' = numbering /\ numbering \in Numberings
      /\ pc' = "length" /\ message' = Extended(1) /\ type' \in Values(Head(line))
  BY DEF ReadType, frameVars
<1>2. missing = lost + 1 /\ \E f \in Frames : Within(f, 1)
  BY <1>1 DEF InStep, Reading
<1>3. PICK f \in Frames : Within(f, 1)
  BY <1>2
<1>4. PICK q, m : q = Frame(f) /\ m = Size[f.kind]
  OBVIOUS
<1>5. m \in 9..28 /\ q[2].value = Ids(numbering)[f.kind] /\ Ids(numbering)[f.kind] \in 1..4
  BY <1>1, <1>4, FrameKinds, FrameBytes
<1>6. Frame(f)' = q
  BY <1>1, <1>4 DEF Frame
<1>7. line' = SubSeq(q, 3, m + 5) /\ Head(line) = q[2] /\ message' = [frame |-> f, got |-> 2]
  <2>1. 1 \in Nat /\ 1 > 0 /\ 1 < Size[f.kind] + 5 /\ numbering \in Numberings
    <3>1. 1 < m + 5
      BY <1>5
    <3>. QED BY <1>1, <1>4, <3>1
  <2>2. /\ Len(line) = (m + 5) - 1 /\ Head(line) = q[1 + 1]
        /\ \A k \in 0..Len(line) : /\ Rest(k) = SubSeq(q, 1 + k + 1, m + 5)
                                   /\ Extended(k) = [frame |-> f, got |-> 1 + k]
    BY ONLY <1>3, <1>4, <2>1, Ahead
  <2>3. 1 \in 0..Len(line)
    <3>1. m \in 9..28 /\ Len(line) = (m + 5) - 1
      BY <1>5, <2>2
    <3>. QED BY ONLY <3>1
  <2>4. Rest(1) = SubSeq(q, 1 + 1 + 1, m + 5) /\ Extended(1) = [frame |-> f, got |-> 1 + 1]
    BY <2>2, <2>3
  <2>. QED BY <1>1, <2>2, <2>4
<1>8. type' = Ids(numbering)[f.kind]
  BY <1>1, <1>5, <1>7 DEF Values, Unknown
<1>9. Within(f, 2)'
  BY <1>4, <1>6, <1>7 DEF Within
<1>. QED BY <1>1, <1>2, <1>8, <1>9 DEF InStep, Reading

LEMMA WholeLength ==
  ASSUME numbering \in Numberings, NEW lost \in Int, InStep(lost), ReadLength
  PROVE  InStep(lost)'
<1>1. /\ pc = "length" /\ line # <<>> /\ line' = Rest(1) /\ missing' = missing
      /\ numbering' = numbering /\ numbering \in Numberings
  BY DEF ReadLength, frameVars
<1>2. missing = lost + 1 /\ \E f \in Frames : Within(f, 2) /\ type = Ids(numbering)[f.kind]
  BY <1>1 DEF InStep, Reading
<1>3. PICK f \in Frames : Within(f, 2) /\ type = Ids(numbering)[f.kind]
  BY <1>2
<1>4. PICK q, m : q = Frame(f) /\ m = Size[f.kind]
  OBVIOUS
<1>5. m \in 9..28 /\ q[3].value = m /\ type \in 1..4
  BY <1>1, <1>3, <1>4, FrameKinds, FrameBytes
<1>6. Frame(f)' = q
  BY <1>1, <1>4 DEF Frame
<1>7. Rest(1) = SubSeq(q, 4, m + 5) /\ Head(line) = q[3] /\ Extended(1) = [frame |-> f, got |-> 3]
  <2>1. 2 \in Nat /\ 2 > 0 /\ 2 < Size[f.kind] + 5 /\ numbering \in Numberings
    <3>1. 2 < m + 5
      BY <1>5
    <3>. QED BY <1>1, <1>4, <3>1
  <2>2. /\ Len(line) = (m + 5) - 2 /\ Head(line) = q[2 + 1]
        /\ \A k \in 0..Len(line) : /\ Rest(k) = SubSeq(q, 2 + k + 1, m + 5)
                                   /\ Extended(k) = [frame |-> f, got |-> 2 + k]
    BY ONLY <1>3, <1>4, <2>1, Ahead
  <2>3. 1 \in 0..Len(line)
    <3>1. m \in 9..28 /\ Len(line) = (m + 5) - 2
      BY <1>5, <2>2
    <3>. QED BY ONLY <3>1
  <2>4. Rest(1) = SubSeq(q, 2 + 1 + 1, m + 5) /\ Extended(1) = [frame |-> f, got |-> 2 + 1]
    BY <2>2, <2>3
  <2>. QED BY <2>2, <2>4
<1>8. Values(Head(line)) = {m}
  <2>1. Head(line).value = m /\ m # -1
    <3>1. m \in 9..28 /\ q[3].value = m /\ Head(line) = q[3]
      BY <1>5, <1>7
    <3>. QED BY ONLY <3>1
  <2>. QED BY ONLY <2>1 DEF Values, Unknown
<1>9. ~Rejects(m) /\ m # 0
  BY <1>5 DEF Rejects, KnownType, Fits, MaxPayload
<1>10. pc' = "payload" /\ need' = m /\ message' = Extended(1)
  BY <1>8, <1>9 DEF ReadLength
<1>11. Within(f, 3)'
  BY <1>1, <1>4, <1>6, <1>7, <1>10 DEF Within
<1>. QED BY <1>1, <1>2, <1>4, <1>10, <1>11 DEF InStep, Reading

LEMMA WholePayload ==
  ASSUME numbering \in Numberings, NEW lost \in Int, InStep(lost), ReadPayload
  PROVE  InStep(lost)'
<1>1. /\ pc = "payload" /\ line # <<>> /\ line' = Rest(Available) /\ missing' = missing
      /\ numbering' = numbering /\ numbering \in Numberings /\ message' = Extended(Available)
      /\ Available = need => pc' = "checksum" /\ need' = 2
  BY DEF ReadPayload, frameVars
<1>2. missing = lost + 1 /\ \E f \in Frames : Within(f, 3) /\ need = Size[f.kind]
  BY <1>1 DEF InStep, Reading
<1>3. PICK f \in Frames : Within(f, 3) /\ need = Size[f.kind]
  BY <1>2
<1>4. PICK q, m : q = Frame(f) /\ m = Size[f.kind]
  OBVIOUS
<1>5. m \in 9..28
  BY <1>4, FrameKinds
<1>6. Frame(f)' = q
  BY <1>1, <1>4 DEF Frame
<1>7. /\ Available = m
      /\ Rest(m) = SubSeq(q, 3 + m + 1, m + 5) /\ Extended(m) = [frame |-> f, got |-> 3 + m]
  <2>1. 3 \in Nat /\ 3 > 0 /\ 3 < Size[f.kind] + 5 /\ numbering \in Numberings
    <3>1. 3 < m + 5
      BY <1>5
    <3>. QED BY <1>1, <1>4, <3>1
  <2>2. /\ Len(line) = (m + 5) - 3
        /\ \A k \in 0..Len(line) : /\ Rest(k) = SubSeq(q, 3 + k + 1, m + 5)
                                   /\ Extended(k) = [frame |-> f, got |-> 3 + k]
    BY ONLY <1>3, <1>4, <2>1, Ahead
  <2>3. m \in 0..Len(line) /\ m < Len(line)
    BY <1>5, <2>2
  <2>. QED BY <1>3, <1>4, <2>2, <2>3 DEF Available
<1>8. Within(f, m + 3)'
  <2>1. 3 + m = m + 3
    BY <1>5
  <2>. QED BY <1>1, <1>4, <1>6, <1>7, <2>1 DEF Within
<1>9. pc' = "checksum" /\ need' = 2
  BY <1>1, <1>3, <1>4, <1>7
<1>. QED BY <1>1, <1>2, <1>4, <1>8, <1>9 DEF InStep, Reading

LEMMA WholeChecksum ==
  ASSUME numbering \in Numberings, NEW lost \in Int, InStep(lost), ReadChecksum
  PROVE  InStep(lost)'
<1>1. /\ pc = "checksum" /\ line # <<>> /\ line' = Rest(Available) /\ missing' = missing
      /\ numbering' = numbering /\ numbering \in Numberings /\ message' = Extended(Available)
      /\ Available = need => pc' = "decode"
  BY DEF ReadChecksum, frameVars
<1>2. missing = lost + 1 /\ \E f \in Frames : Within(f, Size[f.kind] + 3) /\ need = 2
  BY <1>1 DEF InStep, Reading
<1>3. PICK f \in Frames : Within(f, Size[f.kind] + 3) /\ need = 2
  BY <1>2
<1>4. PICK q, m, g : q = Frame(f) /\ m = Size[f.kind] /\ g = m + 3
  OBVIOUS
<1>5. m \in 9..28 /\ g \in Nat /\ g < m + 5
  BY <1>4, FrameKinds
<1>6. Available = 2 /\ Rest(2) = <<>> /\ Extended(2) = [frame |-> f, got |-> g + 2]
  <2>1. g \in Nat /\ g > 0 /\ g < Size[f.kind] + 5 /\ numbering \in Numberings /\ Within(f, g)
    <3>1. g > 0 /\ g < m + 5
      BY <1>4, <1>5
    <3>. QED BY <1>1, <1>3, <1>4, <1>5, <3>1
  <2>2. /\ Len(line) = (m + 5) - g
        /\ \A k \in 0..Len(line) : /\ Rest(k) = SubSeq(q, g + k + 1, m + 5)
                                   /\ Extended(k) = [frame |-> f, got |-> g + k]
    BY ONLY <1>3, <1>4, <2>1, Ahead
  <2>3. Len(line) = 2
    <3>1. m \in 9..28 /\ g = m + 3 /\ Len(line) = (m + 5) - g
      BY <1>4, <1>5, <2>2
    <3>. QED BY ONLY <3>1
  <2>4. 2 \in 0..Len(line) /\ Available = 2
    BY <1>3, <2>3 DEF Available
  <2>5. Rest(2) = SubSeq(q, g + 2 + 1, m + 5) /\ Extended(2) = [frame |-> f, got |-> g + 2]
    BY <2>2, <2>4
  <2>6. SubSeq(q, g + 2 + 1, m + 5) = <<>>
    <3>1. g + 2 + 1 \in Int /\ m + 5 \in Int /\ m + 5 < g + 2 + 1
      BY <1>4, <1>5
    <3>. QED BY ONLY <3>1, SubSeqEmpty
  <2>. QED BY ONLY <2>4, <2>5, <2>6, Zenon
<1>7. pc' = "decode" /\ line' = <<>> /\ message'.got > 0
  BY <1>1, <1>3, <1>5, <1>6
<1>8. Quiet' /\ missing' = lost + 1
  BY <1>1, <1>2, <1>7 DEF Quiet
<1>. QED BY <1>7, <1>8 DEF InStep, Between

(* A reader that waits for bytes of a frame has them in front of it, so    *)
(* with an empty line it is before a start byte or behind a checksum.      *)
LEMMA EmptyBetween ==
  ASSUME numbering \in Numberings, NEW lost \in Int, InStep(lost), line = <<>>
  PROVE  \/ pc = "start" /\ missing = lost
         \/ pc = "decode" /\ message.got > 0 /\ missing = lost + 1
<1>1. ASSUME FrameAhead PROVE FALSE
  <2>1. PICK f \in Frames : line = Frame(f)
    BY <1>1 DEF FrameAhead
  <2>2. Len(line) = Size[f.kind] + 5 /\ Size[f.kind] \in 9..28
    BY <2>1, FrameBytes, FrameKinds
  <2>3. Len(line) = 0
    OBVIOUS
  <2>4. PICK m \in 9..28 : m + 5 = Len(line)
    BY ONLY <2>2
  <2>5. m \in 9..28 /\ m + 5 = 0
    BY <2>3, <2>4
  <2>. QED BY ONLY <2>5
<1>2. ASSUME NEW f \in Frames, Reading(f) PROVE FALSE
  <2>1. PICK m : m = Size[f.kind]
    OBVIOUS
  <2>2. m \in 9..28
    BY <2>1, FrameKinds
  <2>3. PICK g \in {1, 2, 3, m + 3} : Within(f, g)
    BY <1>2, <2>1 DEF Reading
  <2>4. g \in Nat /\ g > 0 /\ g < Size[f.kind] + 5 /\ numbering \in Numberings
    <3>1. g \in Nat /\ g > 0 /\ g < m + 5
      <4>1. g \in {1, 2, 3, m + 3}
        BY <2>3
      <4>. QED BY ONLY <2>2, <4>1
    <3>. QED BY <2>1, <3>1
  <2>5. line # <<>>
    BY ONLY <1>2, <2>3, <2>4, Ahead
  <2>. QED BY <2>5
<1>. QED BY <1>1, <1>2 DEF InStep, Between

LEMMA WholeSend ==
  ASSUME numbering \in Numberings, NEW lost \in Int, InStep(lost),
         NEW f \in Frames, Send(f), line' = Frame(f)
  PROVE  InStep(lost)'
<1>1. /\ numbering' = numbering /\ pc' = pc /\ message' = message
      /\ line = <<>> /\ missing' = missing + 1
  BY DEF Send, readerVars, frameVars
<1>2. Frame(f)' = Frame(f)
  BY <1>1 DEF Frame
<1>3. FrameAhead'
  BY <1>2 DEF FrameAhead
<1>4. \/ pc = "start" /\ missing = lost
      \/ pc = "decode" /\ message.got > 0 /\ missing = lost + 1
  BY <1>1, EmptyBetween
<1>. QED BY <1>1, <1>3, <1>4 DEF InStep, Between

LEMMA WholeLogLine ==
  ASSUME numbering \in Numberings, NEW lost \in Int, InStep(lost), LogLine
  PROVE  InStep(lost)'
<1>1. line = <<>> /\ line' = <<Text>> /\ UNCHANGED <<missing, pc, message>>
  BY DEF LogLine, readerVars
<1>2. Quiet'
  BY <1>1 DEF Quiet
<1>. QED BY <1>1, <1>2, EmptyBetween DEF InStep, Between

LEMMA WholeDecode ==
  ASSUME numbering \in Numberings, NEW lost \in Int, InStep(lost), Decode
  PROVE  InStep(lost)'
<1>1. /\ pc = "decode" /\ pc' = "start" /\ line' = line /\ numbering' = numbering
      /\ message.got > 0 => missing' = missing - 1
  BY DEF Decode, StartOver, ValidMessage, frameVars
<1>2. message.got > 0 /\ Between(lost + 1)
  BY <1>1 DEF LinkWhole, InStep, Reading
<1>3. (Quiet => Quiet') /\ (FrameAhead => FrameAhead')
  BY <1>1 DEF Quiet, FrameAhead, Frame
<1>. QED BY <1>1, <1>2, <1>3 DEF InStep, Between

LEMMA WholeUnchanged ==
  ASSUME NEW lost \in Int, InStep(lost), UNCHANGED linkVars
  PROVE  InStep(lost)'
<1>1. UNCHANGED <<numbering, missing, line, faults, pc, type, need, message>>
  BY DEF linkVars, frameVars, readerVars
<1>2. \A f \in Frames : Frame(f)' = Frame(f)
  BY <1>1 DEF Frame
<1>3. (Quiet' <=> Quiet) /\ (FrameAhead' <=> FrameAhead)
  BY <1>1, <1>2 DEF Quiet, FrameAhead
<1>4. ASSUME NEW f \in Frames PROVE Reading(f)' <=> Reading(f)
  <2>1. \A got : Within(f, got)' <=> Within(f, got)
    BY <1>1, <1>2, Zenon DEF Within
  <2>2. Ids(numbering)' = Ids(numbering)
    BY <1>1 DEF Ids
  <2>. QED BY <1>1, <2>1, <2>2, Zenon DEF Reading
<1>5. (\E f \in Frames : Reading(f)') <=> (\E f \in Frames : Reading(f))
  BY ONLY <1>4, Zenon
<1>6. Between(lost)' <=> Between(lost)
  BY <1>1, <1>3 DEF Between
<1>7. Between(lost + 1)' <=> Between(lost + 1)
  BY <1>1, <1>3 DEF Between
<1>. QED BY <1>1, <1>5, <1>6, <1>7 DEF InStep

(* Whatever is not damage keeps the reader in step. *)
LEMMA StaysInStep ==
  ASSUME numbering \in Numberings, NEW lost \in Int, InStep(lost),
         [LinkNext]_linkVars, faults' = faults, faults \in Int
  PROVE  InStep(lost)'
<1>1. CASE \E f \in Frames : Send(f)
  <2>1. PICK f \in Frames : Send(f)
    BY <1>1
  <2>2. line' = Frame(f)
    BY <2>1 DEF Send
  <2>. QED BY <2>1, <2>2, WholeSend
<1>2. CASE Reader
  BY <1>2, WholeStart, WholeType, WholeLength, WholePayload, WholeChecksum, WholeDecode
     DEF Reader
<1>3. ~ReadFails
  BY DEF ReadFails
<1>. QED BY <1>1, <1>2, <1>3, WholeLogLine, WholeUnchanged DEF LinkNext

LEMMA WholeAlways == LinkSpec => []LinkWhole
<1>1. LinkInit => LinkWhole
  <2> SUFFICES ASSUME LinkInit PROVE LinkWhole
    OBVIOUS
  <2>1. pc = "start" /\ line = <<>> /\ missing = 0 /\ faults = 0 /\ numbering \in Numberings
    BY DEF LinkInit, Numberings
  <2>2. Quiet
    BY <2>1 DEF Quiet
  <2>. QED BY <2>1, <2>2 DEF LinkWhole, InStep, Between
<1>2. LinkWhole /\ [LinkNext]_linkVars => LinkWhole'
  <2> SUFFICES ASSUME LinkWhole, [LinkNext]_linkVars PROVE LinkWhole'
    OBVIOUS
  <2>1. numbering' = numbering /\ faults \in Nat /\ (faults' = faults \/ faults' = faults + 1)
    BY DEF LinkWhole, LinkNext, Send, LogLine, Reader, ReadStart, ReadType, ReadLength,
           ReadPayload, ReadChecksum, Decode, ReadFails, linkVars, frameVars
  <2>2. ASSUME faults' = 0 PROVE InStep(0)'
    BY <2>1, <2>2, StaysInStep DEF LinkWhole
  <2>. QED BY <2>1, <2>2 DEF LinkWhole
<1>. QED BY <1>1, <1>2, PTL DEF LinkSpec

(* Without damage every frame is accepted, whichever side's type bytes it  *)
(* carries and whatever bytes its payload has                              *)
(* (IMUSerialPortReader.cpp 23-68).                                        *)
THEOREM WholeFramesAccepted == LinkSpec => []NothingLostWithoutFault
<1>1. LinkWhole => NothingLostWithoutFault
  BY EmptyBetween DEF NothingLostWithoutFault, Drained, LinkWhole
<1>. QED BY <1>1, WholeAlways, PTL

(* Between damage and the next frame the reader finds: bytes of a message  *)
(* it takes for one, then bytes without a start byte among them, then the  *)
(* next frame.  A start byte can be on the line only where the reader is   *)
(* going to swallow it as part of a message, and what it has still to      *)
(* swallow is paid for by what is lost: 75 bytes after a length byte, of   *)
(* which the damaged frame itself supplies ten, and each later frame at    *)
(* least fourteen.                                                         *)
NoStart(q, from) == \A j \in from..Len(q) : q[j].value # 165
Covers(q, lost, owed) == 14 * (lost - 1) + owed <= 65 + Len(q)
Possible(byte) == IF byte.value = -1 THEN 0..74 ELSE {byte.value}

(* A message of type t whose length n stands at the given place of q. *)
LengthSafe(q, lost, t, n, place) ==
  IF t \notin 1..4 \/ n > 73 THEN NoStart(q, place + 1)
  ELSE NoStart(q, place + n + 3) /\ Covers(q, lost, place + n + 2)

AtStart(q, lost) ==
  \/ NoStart(q, 1)
  \/ /\ q # <<>> /\ q[1].value = 165
     /\ IF Len(q) < 3 THEN lost <= 1
        ELSE \A t \in Possible(q[2]), n \in Possible(q[3]) : LengthSafe(q, lost, t, n, 3)

AtType(q, lost) ==
  IF Len(q) < 2 THEN lost <= 1
  ELSE \A t \in Possible(q[1]), n \in Possible(q[2]) : LengthSafe(q, lost, t, n, 2)

AtLength(q, lost, t) ==
  IF q = <<>> THEN lost <= 1 ELSE \A n \in Possible(q[1]) : LengthSafe(q, lost, t, n, 1)

Swallowing(q, lost, owed) == NoStart(q, owed + 1) /\ Covers(q, lost, owed)

Decoded == IF message.got > 0 THEN missing - 1 ELSE missing

OutOfStep ==
  \/ /\ missing <= 6
     /\ \/ pc = "start" /\ AtStart(line, missing)
        \/ pc = "type" /\ AtType(line, missing)
        \/ pc = "length" /\ AtLength(line, missing, type)
        \/ pc = "payload" /\ need > 0 /\ Swallowing(line, missing, need + 2)
        \/ pc = "checksum" /\ need > 0 /\ Swallowing(line, missing, need)
  \/ /\ pc = "decode"
     /\ \/ Decoded <= 6 /\ AtStart(line, Decoded)
        \/ Decoded <= 7 /\ FrameAhead

(* One fault leaves a reader that is in step with at most six frames lost, *)
(* or on its way to be.                                                    *)
Recovering == OutOfStep \/ \E lost \in Int : lost <= 6 /\ InStep(lost)
LinkLocal == missing \in Int /\ (clean /\ faults = 1 => Recovering)

LEMMA PossibleIs ==
  ASSUME NEW n, NEW b \in Honest(n)
  PROVE  /\ clean => Values(b) \subseteq Possible(b)
         /\ Possible(b) \subseteq Nat
<1>1. b.value \in {-1} \cup 0..255
  BY DEF Honest, LineBytes, Unknown
<1>2. clean => Values(b) \subseteq Possible(b)
  <2>1. CASE b.value # -1
    BY <2>1 DEF Values, Possible, Unknown
  <2>2. CASE b.value = -1 /\ clean
    <3>1. Values(b) = Samples \ {Magic}
      BY <2>2 DEF Values, Unknown
    <3>2. Possible(b) = 0..74
      BY <2>2 DEF Possible
    <3>3. Samples \ {Magic} \subseteq 0..74
      BY ONLY TRUE DEF Samples, MaxPayload, Magic
    <3>. QED BY ONLY <3>1, <3>2, <3>3
  <2>. QED BY <2>1, <2>2
<1>3. Possible(b) \subseteq Nat
  BY <1>1 DEF Possible
<1>. QED BY <1>2, <1>3

(* Of the bytes q, r are those after the first k. *)
Dropped(q, k, r) ==
  /\ Len(q) \in Nat /\ k \in 0..Len(q)
  /\ Len(r) = Len(q) - k /\ \A j \in 1..(Len(q) - k) : r[j] = q[k + j]
  /\ \A j \in 1..Len(q) : Possible(q[j]) \subseteq Nat

LEMMA LineDropped ==
  ASSUME LinkKinds, line # <<>>, NEW k \in 0..Len(line), line' = Rest(k)
  PROVE  Dropped(line, k, line')
<1>1. PICK H : H = Honest(numbering)
  OBVIOUS
<1>2. line \in Seq(H) /\ line' = SubSeq(line, k + 1, Len(line))
  BY <1>1 DEF LinkKinds, Rest
<1>3. PICK n \in Nat : n = Len(line)
  BY <1>2, LenProperties
<1>4. k \in Nat /\ k <= n
  BY <1>3
<1>5. /\ Len(SubSeq(line, k + 1, n)) = n - k
      /\ \A j \in 1..n - k : SubSeq(line, k + 1, n)[j] = line[k + j]
  BY <1>2, <1>3, <1>4, Rear
<1>6. ASSUME NEW j \in 1..Len(line) PROVE Possible(line[j]) \subseteq Nat
  <2>1. line[j] \in Honest(numbering)
    BY <1>1, <1>2, ElementOfSeq
  <2>. QED BY <2>1, PossibleIs
<1>7. Len(line') = n - k /\ \A j \in 1..n - k : line'[j] = line[k + j]
  BY <1>2, <1>3, <1>5
<1>. QED BY <1>3, <1>6, <1>7 DEF Dropped

LEMMA DroppedNoStart ==
  ASSUME NEW q, NEW k, NEW r, Dropped(q, k, r), NEW from \in Nat \ {0}, NoStart(q, from + k)
  PROVE  NoStart(r, from)
<1>1. PICK n \in Nat : n = Len(q) /\ k \in 0..n /\ Len(r) = n - k
  BY DEF Dropped
<1>2. ASSUME NEW j \in from..n - k PROVE r[j].value # 165
  <2>1. j \in 1..n - k /\ k + j \in from + k..n
    BY <1>1
  <2>2. r[j] = q[k + j]
    BY <1>1, <2>1 DEF Dropped
  <2>3. q[k + j].value # 165
    BY <1>1, <2>1 DEF NoStart
  <2>. QED BY <2>2, <2>3
<1>. QED BY <1>1, <1>2 DEF NoStart

LEMMA DroppedCovers ==
  ASSUME NEW q, NEW k, NEW r, Dropped(q, k, r), NEW lost \in Int, NEW owed \in Int,
         Covers(q, lost, owed + k)
  PROVE  Covers(r, lost, owed)
<1>1. PICK n \in Nat : n = Len(q) /\ k \in 0..n /\ Len(r) = n - k
  BY DEF Dropped
<1>2. 14 * (lost - 1) + (owed + k) <= 65 + n
  BY <1>1 DEF Covers
<1>3. 14 * (lost - 1) + owed <= 65 + (n - k)
  BY <1>1, <1>2
<1>. QED BY <1>1, <1>3 DEF Covers

LEMMA DroppedSafe ==
  ASSUME NEW q, NEW r, Dropped(q, 1, r), NEW lost \in Int, NEW t, NEW n \in Nat,
         NEW p \in Nat, LengthSafe(q, lost, t, n, p + 1)
  PROVE  LengthSafe(r, lost, t, n, p)
<1>1. CASE t \notin 1..4 \/ n > 73
  <2>1. NoStart(q, (p + 1) + 1) /\ p + 1 \in Nat \ {0}
    BY <1>1 DEF LengthSafe
  <2>2. NoStart(r, p + 1)
    BY <2>1, DroppedNoStart
  <2>. QED BY <1>1, <2>2 DEF LengthSafe
<1>2. CASE ~(t \notin 1..4 \/ n > 73)
  <2>1. NoStart(q, (p + 1) + n + 3) /\ Covers(q, lost, (p + 1) + n + 2)
    BY <1>2 DEF LengthSafe
  <2>2. /\ (p + 1) + n + 3 = (p + n + 3) + 1 /\ (p + 1) + n + 2 = (p + n + 2) + 1
        /\ p + n + 3 \in Nat \ {0} /\ p + n + 2 \in Int
    OBVIOUS
  <2>3. NoStart(q, (p + n + 3) + 1) /\ Covers(q, lost, (p + n + 2) + 1)
    BY ONLY <2>1, <2>2
  <2>4. NoStart(r, p + n + 3)
    BY <2>2, <2>3, DroppedNoStart
  <2>5. Covers(r, lost, p + n + 2)
    BY <2>2, <2>3, DroppedCovers
  <2>. QED BY <1>2, <2>4, <2>5 DEF LengthSafe
<1>. QED BY <1>1, <1>2

(* What the reader has before it when a byte v has been read. *)
LEMMA StartTaken ==
  ASSUME NEW q, NEW r, Dropped(q, 1, r), NEW lost \in Int, AtStart(q, lost),
         NEW v \in Possible(q[1])
  PROVE  IF v = 165 THEN AtType(r, lost) ELSE AtStart(r, lost)
<1>1. PICK m \in Nat : m = Len(q) /\ m >= 1 /\ Len(r) = m - 1
  BY DEF Dropped
<1>2. q[1].value # 165 => v # 165
  BY DEF Possible
<1>3. q[1].value = 165 => v = 165
  BY DEF Possible
<1>4. CASE NoStart(q, 1)
  <2>1. q[1].value # 165
    BY <1>1, <1>4 DEF NoStart
  <2>2. NoStart(q, 1 + 1)
    BY <1>1, <1>4 DEF NoStart
  <2>3. NoStart(r, 1)
    BY <2>2, DroppedNoStart
  <2>. QED BY <1>2, <2>1, <2>3 DEF AtStart
<1>5. CASE ~NoStart(q, 1)
  <2>1. /\ v = 165
        /\ IF m < 3 THEN lost <= 1
           ELSE \A t \in Possible(q[2]), n \in Possible(q[3]) : LengthSafe(q, lost, t, n, 3)
    BY <1>1, <1>3, <1>5 DEF AtStart
  <2>2. CASE m < 3
    BY <1>1, <2>1, <2>2 DEF AtType
  <2>3. CASE ~(m < 3)
    <3>1. r[1] = q[2] /\ r[2] = q[3] /\ Possible(q[3]) \subseteq Nat
      <4>1. 1 \in 1..m - 1 /\ 2 \in 1..m - 1 /\ 3 \in 1..m
        BY <2>3
      <4>2. r[1] = q[1 + 1] /\ r[2] = q[1 + 2] /\ Possible(q[3]) \subseteq Nat
        BY <1>1, <4>1 DEF Dropped
      <4>. QED BY <4>2
    <3>2. ASSUME NEW t \in Possible(r[1]), NEW n \in Possible(r[2])
          PROVE  LengthSafe(r, lost, t, n, 2)
      <4>1. n \in Nat /\ LengthSafe(q, lost, t, n, 2 + 1)
        BY <2>1, <2>3, <3>1
      <4>. QED BY <4>1, DroppedSafe
    <3>. QED BY <1>1, <2>1, <2>3, <3>2 DEF AtType
  <2>. QED BY <2>2, <2>3
<1>. QED BY <1>4, <1>5

LEMMA TypeTaken ==
  ASSUME NEW q, NEW r, Dropped(q, 1, r), NEW lost \in Int, AtType(q, lost),
         NEW v \in Possible(q[1])
  PROVE  AtLength(r, lost, v)
<1>1. PICK m \in Nat : m = Len(q) /\ m >= 1 /\ Len(r) = m - 1
  BY DEF Dropped
<1>2. ASSUME r = <<>> PROVE lost <= 1
  <2>1. Len(r) = 0
    BY <1>2
  <2>2. m - 1 = 0
    BY ONLY <1>1, <2>1
  <2>3. m < 2
    BY <2>2
  <2>4. AtType(q, lost)
    OBVIOUS
  <2>. QED BY <1>1, <2>3, <2>4 DEF AtType
<1>3. ASSUME r # <<>>, NEW n \in Possible(r[1]) PROVE LengthSafe(r, lost, v, n, 1)
  <2>1. CASE m < 2
    <3>1. Len(r) = 0
      BY <1>1, <2>1
    <3>. QED BY <1>3, <3>1
  <2>2. CASE ~(m < 2)
    <3>1. r[1] = q[1 + 1] /\ Possible(q[2]) \subseteq Nat
      <4>1. 1 \in 1..m - 1 /\ 2 \in 1..m
        BY <2>2
      <4>. QED BY <1>1, <4>1 DEF Dropped
    <3>2. n \in Nat /\ LengthSafe(q, lost, v, n, 1 + 1)
      BY <1>1, <1>3, <2>2, <3>1 DEF AtType
    <3>. QED BY <3>2, DroppedSafe
  <2>. QED BY <2>1, <2>2
<1>. QED BY <1>2, <1>3 DEF AtLength

LEMMA LengthTaken ==
  ASSUME NEW q, q # <<>>, NEW r, Dropped(q, 1, r), NEW lost \in Int, NEW t, AtLength(q, lost, t),
         NEW n \in Possible(q[1])
  PROVE  /\ n \in Nat
         /\ IF t \notin 1..4 \/ n > 73 THEN AtStart(r, lost) ELSE Swallowing(r, lost, n + 2)
<1>1. n \in Nat
  BY DEF Dropped
<1>2. LengthSafe(q, lost, t, n, 0 + 1)
  BY DEF AtLength
<1>3. LengthSafe(r, lost, t, n, 0)
  BY <1>1, <1>2, DroppedSafe
<1>4. 0 + n + 3 = (n + 2) + 1 /\ 0 + n + 2 = n + 2 /\ 0 + 1 = 1
  BY <1>1
<1>. QED BY <1>1, <1>3, <1>4 DEF LengthSafe, AtStart, Swallowing

LEMMA Swallowed ==
  ASSUME NEW q, NEW k, NEW r, Dropped(q, k, r), NEW lost \in Int, NEW owed \in Nat,
         k <= owed, Swallowing(q, lost, owed)
  PROVE  Swallowing(r, lost, owed - k)
<1>1. k \in Nat /\ owed - k \in Int /\ (owed - k) + 1 \in Nat \ {0}
      /\ owed + 1 = ((owed - k) + 1) + k /\ owed = (owed - k) + k
  BY DEF Dropped
<1>2. NoStart(q, ((owed - k) + 1) + k) /\ Covers(q, lost, (owed - k) + k)
  BY <1>1 DEF Swallowing
<1>3. NoStart(r, (owed - k) + 1)
  BY <1>1, <1>2, DroppedNoStart
<1>4. Covers(r, lost, owed - k)
  BY <1>1, <1>2, DroppedCovers
<1>. QED BY <1>3, <1>4 DEF Swallowing

(* What any step does with the bytes, and a reader out of step with what    *)
(* it reads.                                                               *)
LEMMA OutStart ==
  ASSUME LinkKinds, clean, missing \in Int, OutOfStep, ReadStart
  PROVE  OutOfStep'
<1>1. /\ pc = "start" /\ line # <<>> /\ line' = Rest(1) /\ missing' = missing
      /\ \E v \in Values(Head(line)) : pc' = IF v = 165 THEN "type" ELSE "start"
  BY DEF ReadStart, frameVars, readerVars, Magic
<1>2. missing <= 6 /\ AtStart(line, missing)
  BY <1>1 DEF OutOfStep
<1>3. Head(line) = line[1] /\ line[1] \in Honest(numbering) /\ 1 \in 0..Len(line)
  BY <1>1, Taken
<1>4. Dropped(line, 1, line')
  BY <1>1, <1>3, LineDropped
<1>5. PICK v \in Possible(line[1]) : pc' = IF v = 165 THEN "type" ELSE "start"
  BY <1>1, <1>3, PossibleIs
<1>6. IF v = 165 THEN AtType(line', missing) ELSE AtStart(line', missing)
  BY <1>2, <1>4, StartTaken
<1>7. CASE v = 165
  <2>1. pc' = "type" /\ missing' <= 6 /\ AtType(line', missing')
    BY <1>1, <1>2, <1>5, <1>6, <1>7
  <2>. QED BY <2>1 DEF OutOfStep
<1>8. CASE v # 165
  <2>1. pc' = "start" /\ missing' <= 6 /\ AtStart(line', missing')
    BY <1>1, <1>2, <1>5, <1>6, <1>8
  <2>. QED BY <2>1 DEF OutOfStep
<1>. QED BY <1>7, <1>8

LEMMA OutType ==
  ASSUME LinkKinds, clean, missing \in Int, OutOfStep, ReadType
  PROVE  OutOfStep'
<1>1. /\ pc = "type" /\ line # <<>> /\ line' = Rest(1) /\ missing' = missing
      /\ pc' = "length" /\ type' \in Values(Head(line))
  BY DEF ReadType, frameVars
<1>2. missing <= 6 /\ AtType(line, missing)
  BY <1>1 DEF OutOfStep
<1>3. Head(line) = line[1] /\ line[1] \in Honest(numbering) /\ 1 \in 0..Len(line)
  BY <1>1, Taken
<1>4. Dropped(line, 1, line')
  BY <1>1, <1>3, LineDropped
<1>5. type' \in Possible(line[1])
  BY <1>1, <1>3, PossibleIs
<1>6. AtLength(line', missing, type')
  BY <1>2, <1>4, <1>5, TypeTaken
<1>7. pc' = "length" /\ missing' <= 6 /\ AtLength(line', missing', type')
  BY <1>1, <1>2, <1>6
<1>. QED BY <1>7 DEF OutOfStep

LEMMA OutLength ==
  ASSUME LinkKinds, clean, missing \in Int, OutOfStep, ReadLength
  PROVE  OutOfStep'
<1>1. /\ pc = "length" /\ line # <<>> /\ line' = Rest(1) /\ missing' = missing
      /\ \E n \in Values(Head(line)) :
           IF Rejects(n) THEN pc' = "start"
           ELSE IF n = 0 THEN pc' = "checksum" /\ need' = 2 ELSE pc' = "payload" /\ need' = n
  BY DEF ReadLength, StartOver, frameVars
<1>2. missing <= 6 /\ AtLength(line, missing, type)
  BY <1>1 DEF OutOfStep
<1>3. Head(line) = line[1] /\ line[1] \in Honest(numbering) /\ 1 \in 0..Len(line)
  BY <1>1, Taken
<1>4. Dropped(line, 1, line')
  BY <1>1, <1>3, LineDropped
<1>5. PICK n \in Possible(line[1]) :
        IF Rejects(n) THEN pc' = "start"
        ELSE IF n = 0 THEN pc' = "checksum" /\ need' = 2 ELSE pc' = "payload" /\ need' = n
  BY <1>1, <1>3, PossibleIs
<1>6. /\ n \in Nat
      /\ IF type \notin 1..4 \/ n > 73 THEN AtStart(line', missing)
                                       ELSE Swallowing(line', missing, n + 2)
  BY <1>1, <1>2, <1>4, LengthTaken
<1>7. Rejects(n) <=> type \notin 1..4 \/ n > 73
  BY <1>6 DEF Rejects, KnownType, Fits, MaxPayload
<1>8. CASE Rejects(n)
  <2>1. pc' = "start" /\ missing' <= 6 /\ AtStart(line', missing')
    BY <1>1, <1>2, <1>5, <1>6, <1>7, <1>8
  <2>. QED BY <2>1 DEF OutOfStep
<1>9. CASE ~Rejects(n) /\ n = 0
  <2>1. pc' = "checksum" /\ need' = 2 /\ missing' <= 6 /\ Swallowing(line', missing', 2)
    <3>1. Swallowing(line', missing, n + 2) /\ n + 2 = 2
      BY <1>6, <1>7, <1>9
    <3>. QED BY <1>1, <1>2, <1>5, <1>9, <3>1
  <2>. QED BY <2>1 DEF OutOfStep
<1>10. CASE ~Rejects(n) /\ n # 0
  <2>1. pc' = "payload" /\ need' = n /\ missing' <= 6 /\ Swallowing(line', missing', n + 2)
    BY <1>1, <1>2, <1>5, <1>6, <1>7, <1>10
  <2>2. need' > 0 /\ Swallowing(line', missing', need' + 2)
    BY <1>6, <1>10, <2>1
  <2>. QED BY <2>1, <2>2 DEF OutOfStep
<1>. QED BY <1>8, <1>9, <1>10

LEMMA OutPayload ==
  ASSUME LinkKinds, clean, missing \in Int, OutOfStep, ReadPayload
  PROVE  OutOfStep'
<1>1. PICK k : k = Available
  OBVIOUS
<1>2. /\ pc = "payload" /\ line # <<>> /\ line' = Rest(k) /\ missing' = missing
      /\ IF k = need THEN pc' = "checksum" /\ need' = 2 ELSE pc' = "payload" /\ need' = need - k
  BY <1>1 DEF ReadPayload, frameVars
<1>3. missing <= 6 /\ need > 0 /\ Swallowing(line, missing, need + 2)
  BY <1>2 DEF OutOfStep
<1>4. k \in 0..Len(line) /\ k <= need /\ need \in Nat /\ Len(line) \in Nat
  BY <1>1, <1>2, Taken DEF LinkKinds
<1>5. Dropped(line, k, line')
  BY <1>2, <1>4, LineDropped
<1>6. Swallowing(line', missing, (need + 2) - k)
  <2>1. need + 2 \in Nat /\ k <= need + 2
    BY <1>4
  <2>. QED BY <1>3, <1>5, <2>1, Swallowed
<1>7. CASE k = need
  <2>1. (need + 2) - k = 2
    BY <1>4, <1>7
  <2>2. pc' = "checksum" /\ need' = 2 /\ missing' <= 6 /\ Swallowing(line', missing', 2)
    BY <1>2, <1>3, <1>6, <1>7, <2>1
  <2>. QED BY <2>2 DEF OutOfStep
<1>8. CASE k # need
  <2>1. PICK c : c = need - k
    OBVIOUS
  <2>2. (need + 2) - k = c + 2 /\ c > 0
    BY <1>4, <1>8, <2>1
  <2>3. pc' = "payload" /\ need' = c /\ missing' <= 6 /\ Swallowing(line', missing', c + 2)
    BY <1>2, <1>3, <1>6, <1>8, <2>1, <2>2
  <2>. QED BY <2>2, <2>3 DEF OutOfStep
<1>. QED BY <1>7, <1>8

LEMMA OutChecksum ==
  ASSUME LinkKinds, clean, missing \in Int, OutOfStep, ReadChecksum
  PROVE  OutOfStep'
<1>1. PICK k : k = Available
  OBVIOUS
<1>2. /\ pc = "checksum" /\ line # <<>> /\ line' = Rest(k) /\ missing' = missing
      /\ IF k = need THEN pc' = "decode" ELSE pc' = "checksum" /\ need' = need - k
  BY <1>1 DEF ReadChecksum, frameVars
<1>3. missing <= 6 /\ need > 0 /\ Swallowing(line, missing, need)
  BY <1>2 DEF OutOfStep
<1>4. k \in 0..Len(line) /\ k <= need /\ need \in Nat /\ Len(line) \in Nat
  BY <1>1, <1>2, Taken DEF LinkKinds
<1>5. Dropped(line, k, line')
  BY <1>2, <1>4, LineDropped
<1>6. Swallowing(line', missing, need - k)
  BY <1>3, <1>4, <1>5, Swallowed
<1>7. CASE k = need
  <2>1. (need - k) + 1 = 1
    BY <1>4, <1>7
  <2>2. NoStart(line', 1)
    BY <1>6, <2>1 DEF Swallowing
  <2>3. pc' = "decode" /\ Decoded' <= 6
    BY <1>2, <1>3, <1>7 DEF Decoded
  <2>4. AtStart(line', Decoded')
    BY <2>2 DEF AtStart
  <2>. QED BY <2>3, <2>4 DEF OutOfStep
<1>8. CASE k # need
  <2>1. PICK c : c = need - k
    OBVIOUS
  <2>2. c > 0
    BY <1>4, <1>8, <2>1
  <2>3. pc' = "checksum" /\ need' = c /\ missing' <= 6 /\ Swallowing(line', missing', c)
    BY <1>2, <1>3, <1>6, <1>8, <2>1
  <2>. QED BY <2>2, <2>3 DEF OutOfStep
<1>. QED BY <1>7, <1>8

(* A message read to its end leaves the reader out of step or in step. *)
LEMMA OutDecode ==
  ASSUME missing \in Int, OutOfStep, Decode
  PROVE  OutOfStep' \/ \E lost \in Int : lost <= 6 /\ InStep(lost)'
<1>1. /\ pc = "decode" /\ pc' = "start" /\ line' = line /\ numbering' = numbering
      /\ missing' = Decoded
  BY DEF Decode, StartOver, ValidMessage, frameVars, Decoded
<1>2. \/ Decoded <= 6 /\ AtStart(line, Decoded)
      \/ Decoded <= 7 /\ FrameAhead
  BY <1>1 DEF OutOfStep
<1>3. CASE Decoded <= 6 /\ AtStart(line, Decoded)
  <2>1. pc' = "start" /\ missing' <= 6 /\ AtStart(line', missing')
    BY <1>1, <1>3
  <2>. QED BY <2>1 DEF OutOfStep
<1>4. CASE Decoded <= 7 /\ FrameAhead
  <2>1. FrameAhead'
    BY <1>1, <1>4 DEF FrameAhead, Frame
  <2>2. PICK c \in Int : c = Decoded
    BY DEF Decoded
  <2>3. missing' = (c - 1) + 1
    BY <1>1, <2>2
  <2>4. PICK lost \in Int : lost = c - 1
    OBVIOUS
  <2>5. missing' = lost + 1 /\ lost <= 6
    BY <1>4, <2>2, <2>3, <2>4
  <2>6. InStep(lost)'
    BY <1>1, <2>1, <2>5 DEF InStep, Between
  <2>. QED BY <2>5, <2>6
<1>. QED BY <1>2, <1>3, <1>4

(* A frame put on an empty line. *)
LEMMA FrameQuiet ==
  ASSUME NEW f \in Frames, numbering \in Numberings
  PROVE  /\ Len(Frame(f)) \in Nat /\ Len(Frame(f)) >= 14
         /\ Frame(f)[1].value = 165 /\ NoStart(Frame(f), 2)
<1>1. PICK q, m, k : q = Frame(f) /\ m = Size[f.kind] /\ k = Ids(numbering)[f.kind]
  OBVIOUS
<1>2. m \in 9..28 /\ k \in 1..4
  BY <1>1, FrameKinds
<1>3. Len(q) = m + 5 /\ q[1].value = 165 /\ q[2].value = k /\ q[3].value = m
  BY <1>1, FrameBytes DEF Magic
<1>4. ASSUME NEW j \in 4..m + 5 PROVE q[j].value = -1
  <2>1. q = [i \in 1..m + 5 |->
          [value |-> CASE i = 1 -> 165 [] i = 2 -> k [] i = 3 -> m [] OTHER -> -1,
           frame |-> f, at |-> i]]
    BY <1>1, Zenon DEF Frame, Magic, Unknown
  <2>2. j \in 1..m + 5 /\ j # 1 /\ j # 2 /\ j # 3
    BY <1>2
  <2>. QED BY ONLY <2>1, <2>2
<1>5. ASSUME NEW j \in 2..Len(q) PROVE q[j].value # 165
  <2>1. CASE j \in {2, 3}
    BY <1>2, <1>3, <2>1
  <2>2. CASE j \in 4..m + 5
    <3>1. q[j].value = -1
      BY <1>4, <2>2
    <3>. QED BY ONLY <3>1
  <2>3. j \in 2..m + 5 /\ m \in 9..28
    BY <1>2, <1>3
  <2>4. j \in {2, 3} \/ j \in 4..m + 5
    BY ONLY <2>3
  <2>. QED BY <2>1, <2>2, <2>4
<1>6. NoStart(q, 2)
  BY <1>5 DEF NoStart
<1>7. Len(q) \in Nat /\ Len(q) >= 14
  <2>1. m \in 9..28 /\ Len(q) = m + 5
    BY <1>2, <1>3
  <2>. QED BY ONLY <2>1
<1>. QED BY <1>1, <1>3, <1>6, <1>7

LEMMA NoStartLater ==
  ASSUME NEW q, Len(q) \in Nat, NEW a \in Int, NEW b \in Int, a <= b, NoStart(q, a)
  PROVE  NoStart(q, b)
BY DEF NoStart

LEMMA OutSend ==
  ASSUME numbering \in Numberings, missing \in Int, need \in Nat, OutOfStep,
         NEW f \in Frames, Send(f), line' = Frame(f)
  PROVE  OutOfStep' \/ \E lost \in Int : lost <= 6 /\ InStep(lost)'
<1>1. /\ line = <<>> /\ missing' = missing + 1 /\ numbering' = numbering
      /\ pc' = pc /\ type' = type /\ need' = need /\ message' = message
  BY DEF Send, frameVars, readerVars
<1>2. PICK q : q = Frame(f)
  OBVIOUS
<1>3. line' = q /\ Len(q) \in Nat /\ Len(q) >= 14 /\ q[1].value = 165 /\ NoStart(q, 2)
  BY <1>2, FrameQuiet
<1>4. FrameAhead'
  BY <1>1 DEF FrameAhead, Frame
<1>5. CASE pc = "start"
  <2>1. missing <= 6
    BY <1>5 DEF OutOfStep
  <2>2. PICK lost \in Int : lost = missing
    OBVIOUS
  <2>3. InStep(lost)'
    BY <1>1, <1>4, <1>5, <2>2 DEF InStep, Between
  <2>. QED BY <2>1, <2>2, <2>3
<1>6. CASE pc = "type"
  <2>1. missing <= 1
    BY <1>1, <1>6 DEF OutOfStep, AtType
  <2>2. NoStart(q, 3)
    BY <1>3, NoStartLater
  <2>3. Possible(q[1]) = {165}
    BY <1>3 DEF Possible
  <2>4. ASSUME NEW t \in Possible(q[1]), NEW n \in Possible(q[2])
        PROVE  LengthSafe(q, missing + 1, t, n, 2)
    BY <2>2, <2>3 DEF LengthSafe
  <2>5. AtType(q, missing + 1)
    BY <1>3, <2>4 DEF AtType
  <2>6. pc' = "type" /\ missing' <= 6 /\ AtType(line', missing')
    BY <1>1, <1>3, <1>6, <2>1, <2>5
  <2>. QED BY <2>6 DEF OutOfStep
<1>7. CASE pc = "length"
  <2>1. missing <= 1
    BY <1>1, <1>7 DEF OutOfStep, AtLength
  <2>2. Possible(q[1]) = {165}
    BY <1>3 DEF Possible
  <2>3. LengthSafe(q, missing + 1, type, 165, 1)
    BY <1>3 DEF LengthSafe
  <2>4. q # <<>>
    BY <1>3
  <2>5. AtLength(q, missing + 1, type)
    BY <2>2, <2>3, <2>4 DEF AtLength
  <2>6. pc' = "length" /\ missing' <= 6 /\ AtLength(line', missing', type')
    BY <1>1, <1>3, <1>7, <2>1, <2>5
  <2>. QED BY <2>6 DEF OutOfStep
<1>8. ASSUME NEW owed \in Nat, owed > 0, Swallowing(line, missing, owed)
      PROVE  Swallowing(q, missing + 1, owed)
  <2>1. 14 * (missing - 1) + owed <= 65
    BY <1>1, <1>8 DEF Swallowing, Covers
  <2>2. 14 * ((missing + 1) - 1) + owed <= 65 + Len(q)
    BY <1>3, <2>1
  <2>3. NoStart(q, owed + 1)
    BY <1>3, <1>8, NoStartLater
  <2>. QED BY <2>2, <2>3 DEF Swallowing, Covers
<1>9. ASSUME NEW owed \in Nat, owed > 0, Swallowing(line, missing, owed)
      PROVE  missing + 1 <= 6
  <2>1. 14 * (missing - 1) + owed <= 65
    BY <1>1, <1>9 DEF Swallowing, Covers
  <2>. QED BY <1>9, <2>1
<1>10. CASE pc = "payload"
  <2>1. need > 0 /\ Swallowing(line, missing, need + 2) /\ need + 2 \in Nat /\ need + 2 > 0
    BY <1>10 DEF OutOfStep
  <2>2. pc' = "payload" /\ need' > 0 /\ missing' <= 6 /\ Swallowing(line', missing', need' + 2)
    BY <1>1, <1>3, <1>8, <1>9, <1>10, <2>1
  <2>. QED BY <2>2 DEF OutOfStep
<1>11. CASE pc = "checksum"
  <2>1. need > 0 /\ Swallowing(line, missing, need)
    BY <1>11 DEF OutOfStep
  <2>2. pc' = "checksum" /\ need' > 0 /\ missing' <= 6 /\ Swallowing(line', missing', need')
    BY <1>1, <1>3, <1>8, <1>9, <1>11, <2>1
  <2>. QED BY <2>2 DEF OutOfStep
<1>12. CASE pc = "decode"
  <2>1. Decoded' = Decoded + 1 /\ Decoded \in Int
    BY <1>1 DEF Decoded
  <2>2. ~FrameAhead
    <3>1. Len(line) = 0
      BY <1>1
    <3>2. \A g \in Frames : Len(Frame(g)) >= 14
      BY FrameQuiet
    <3>. QED BY <3>1, <3>2 DEF FrameAhead
  <2>3. Decoded <= 6
    BY <1>12, <2>2 DEF OutOfStep
  <2>4. pc' = "decode" /\ Decoded' <= 7 /\ FrameAhead'
    BY <1>1, <1>4, <1>12, <2>1, <2>3
  <2>. QED BY <2>4 DEF OutOfStep
<1>. QED BY <1>5, <1>6, <1>7, <1>10, <1>11, <1>12 DEF OutOfStep

LEMMA OutLogLine ==
  ASSUME missing \in Int, need \in Nat, OutOfStep, numbering \in Numberings, LogLine
  PROVE  OutOfStep'
<1>1. /\ line = <<>> /\ line' = <<Text>> /\ missing' = missing
      /\ pc' = pc /\ type' = type /\ need' = need /\ message' = message
  BY DEF LogLine, readerVars
<1>2. PICK q : q = <<Text>>
  OBVIOUS
<1>3. line' = q /\ Len(q) = 1 /\ q[1].value = 46 /\ q # <<>>
  BY <1>1, <1>2 DEF Text, Foreign
<1>4. NoStart(q, 1) /\ \A from \in Nat : from > 1 => NoStart(q, from)
  BY <1>3 DEF NoStart
<1>5. CASE pc = "start"
  <2>1. pc' = "start" /\ missing' <= 6 /\ AtStart(line', missing')
    BY <1>1, <1>3, <1>4, <1>5 DEF OutOfStep, AtStart
  <2>. QED BY <2>1 DEF OutOfStep
<1>6. CASE pc = "type"
  <2>1. missing <= 1
    BY <1>1, <1>6 DEF OutOfStep, AtType
  <2>2. pc' = "type" /\ missing' <= 6 /\ AtType(line', missing')
    BY <1>1, <1>3, <1>6, <2>1 DEF AtType
  <2>. QED BY <2>2 DEF OutOfStep
<1>7. CASE pc = "length"
  <2>1. missing <= 1
    BY <1>1, <1>7 DEF OutOfStep, AtLength
  <2>2. Possible(q[1]) = {46}
    BY <1>3 DEF Possible
  <2>3. NoStart(q, 1 + 1) /\ NoStart(q, 1 + 46 + 3) /\ Covers(q, missing, 1 + 46 + 2)
    BY <1>3, <1>4, <2>1 DEF Covers
  <2>4. LengthSafe(q, missing, type, 46, 1)
    BY <2>3 DEF LengthSafe
  <2>5. AtLength(q, missing, type)
    BY <1>3, <2>2, <2>4 DEF AtLength
  <2>6. pc' = "length" /\ missing' <= 6 /\ AtLength(line', missing', type')
    BY <1>1, <1>3, <1>7, <2>1, <2>5
  <2>. QED BY <2>6 DEF OutOfStep
<1>8. ASSUME NEW owed \in Nat, owed > 0, Swallowing(line, missing, owed)
      PROVE  Swallowing(q, missing, owed)
  <2>1. 14 * (missing - 1) + owed <= 65
    BY <1>1, <1>8 DEF Swallowing, Covers
  <2>2. Covers(q, missing, owed)
    BY <1>3, <2>1 DEF Covers
  <2>3. NoStart(q, owed + 1)
    BY <1>4, <1>8
  <2>. QED BY <2>2, <2>3 DEF Swallowing
<1>9. CASE pc = "payload"
  <2>1. missing <= 6 /\ need > 0 /\ Swallowing(line, missing, need + 2) /\ need + 2 \in Nat /\ need + 2 > 0
    BY <1>9 DEF OutOfStep
  <2>2. pc' = "payload" /\ need' > 0 /\ missing' <= 6 /\ Swallowing(line', missing', need' + 2)
    BY <1>1, <1>3, <1>8, <1>9, <2>1
  <2>. QED BY <2>2 DEF OutOfStep
<1>10. CASE pc = "checksum"
  <2>1. missing <= 6 /\ need > 0 /\ Swallowing(line, missing, need)
    BY <1>10 DEF OutOfStep
  <2>2. pc' = "checksum" /\ need' > 0 /\ missing' <= 6 /\ Swallowing(line', missing', need')
    BY <1>1, <1>3, <1>8, <1>10, <2>1
  <2>. QED BY <2>2 DEF OutOfStep
<1>11. CASE pc = "decode"
  <2>1. Decoded' = Decoded
    BY <1>1 DEF Decoded
  <2>2. ~FrameAhead
    <3>1. Len(line) = 0
      BY <1>1
    <3>2. \A g \in Frames : Len(Frame(g)) >= 14
      BY FrameQuiet
    <3>. QED BY <3>1, <3>2 DEF FrameAhead
  <2>3. Decoded <= 6
    BY <1>11, <2>2 DEF OutOfStep
  <2>4. pc' = "decode" /\ Decoded' <= 6 /\ AtStart(line', Decoded')
    BY <1>1, <1>3, <1>4, <1>11, <2>1, <2>3 DEF AtStart
  <2>. QED BY <2>4 DEF OutOfStep
<1>. QED BY <1>5, <1>6, <1>7, <1>9, <1>10, <1>11 DEF OutOfStep

(* A damaged frame: what is left of it fits into the message the reader    *)
(* may take it for.                                                        *)
Sent(q, k, s) ==
  /\ k \in 1..4 /\ s \in 9..28 /\ Len(q) = s + 5
  /\ q[1].value = 165 /\ q[2].value = k /\ q[3].value = s /\ NoStart(q, 2)

LEMMA PlainFits ==
  ASSUME NEW d, Len(d) \in Nat, d # <<>>, d[1].value = 165, NoStart(d, 2),
         \A j \in 1..Len(d) : Possible(d[j]) \subseteq Nat,
         Len(d) \in 3..12 => \A l \in Possible(d[3]) : l <= 60
  PROVE  AtStart(d, 1)
<1>1. PICK n \in Nat : n = Len(d)
  OBVIOUS
<1>2. CASE n < 3
  BY <1>1, <1>2 DEF AtStart
<1>3. ASSUME n >= 3, NEW t \in Possible(d[2]), NEW l \in Possible(d[3])
      PROVE  LengthSafe(d, 1, t, l, 3)
  <2>1. l \in Nat
    BY <1>1, <1>3
  <2>2. NoStart(d, 3 + 1) /\ NoStart(d, 3 + l + 3)
    BY <2>1, NoStartLater
  <2>3. ASSUME n <= 12 PROVE l <= 60
    <3>1. n \in 3..12
      BY <1>3, <2>3
    <3>2. Len(d) \in 3..12
      BY ONLY <1>1, <3>1
    <3>. QED BY <1>3, <3>2
  <2>4. ASSUME l <= 73 PROVE Covers(d, 1, 3 + l + 2)
    <3>1. 14 * (1 - 1) + (3 + l + 2) <= 65 + n
      BY <1>1, <1>3, <2>1, <2>3, <2>4
    <3>. QED BY <1>1, <3>1 DEF Covers
  <2>. QED BY <2>1, <2>2, <2>4 DEF LengthSafe
<1>4. CASE n >= 3
  BY <1>1, <1>3, <1>4 DEF AtStart
<1>. QED BY <1>1, <1>2, <1>4

LEMMA Front ==
  ASSUME NEW S, NEW q \in Seq(S), NEW n \in Nat, n = Len(q), NEW a \in Nat, a <= n
  PROVE  /\ SubSeq(q, 1, a) \in Seq(S) /\ Len(SubSeq(q, 1, a)) = a
         /\ \A j \in 1..a : SubSeq(q, 1, a)[j] = q[j]
<1>1. \A l \in 1..a : q[l] \in S
  BY ElementOfSeq
<1>2. /\ SubSeq(q, 1, a) \in Seq(S)
      /\ Len(SubSeq(q, 1, a)) = IF 1 <= a THEN a - 1 + 1 ELSE 0
      /\ \A j \in 1..a - 1 + 1 : SubSeq(q, 1, a)[j] = q[1 + j - 1]
  BY <1>1, SubSeqProperties
<1>3. (IF 1 <= a THEN a - 1 + 1 ELSE 0) = a /\ a - 1 + 1 = a
  OBVIOUS
<1>4. ASSUME NEW j \in 1..a PROVE SubSeq(q, 1, a)[j] = q[j]
  <2>1. 1 + j - 1 = j
    OBVIOUS
  <2>2. SubSeq(q, 1, a)[j] = q[1 + j - 1]
    BY <1>2, <1>3
  <2>. QED BY <2>1, <2>2
<1>. QED BY <1>2, <1>3, <1>4

LEMMA Joined ==
  ASSUME NEW S, NEW u \in Seq(S), NEW v \in Seq(S), NEW a \in Nat, NEW b \in Nat,
         a = Len(u), b = Len(v)
  PROVE  /\ u \o v \in Seq(S) /\ Len(u \o v) = a + b
         /\ \A j \in 1..a + b : (u \o v)[j] = IF j <= a THEN u[j] ELSE v[j - a]
BY ConcatProperties

(* The bytes of what is left, each that of a place of the frame or text.   *)
Pieces(q, s, d, n) ==
  /\ n \in Nat /\ n = Len(d)
  /\ \A j \in 1..n : Possible(d[j]) \subseteq Nat
  /\ \A j \in 1..n : d[j] = Text \/ \E l \in 1..s + 5 : (j > 1 => l > 1) /\ d[j] = q[l]
  /\ n < 3 \/ n >= 13 \/ d[3] = q[3]

LEMMA PiecesFit ==
  ASSUME NEW q, NEW k, NEW s, Sent(q, k, s), NEW d, NEW n, Pieces(q, s, d, n)
  PROVE  AtStart(d, 1)
<1>1. ASSUME NEW j \in 2..n PROVE d[j].value # 165
  <2>1. CASE d[j] = Text
    BY <2>1 DEF Text, Foreign
  <2>2. CASE \E l \in 1..s + 5 : l > 1 /\ d[j] = q[l]
    <3>1. PICK l \in 1..s + 5 : l > 1 /\ d[j] = q[l]
      BY <2>2
    <3>2. l \in 2..Len(q)
      BY <3>1 DEF Sent
    <3>. QED BY <3>1, <3>2 DEF Sent, NoStart
  <2>3. n \in Nat /\ j \in 1..n /\ j > 1
    BY DEF Pieces
  <2>. QED BY <2>1, <2>2, <2>3 DEF Pieces
<1>2. NoStart(d, 2) /\ n \in Nat /\ n = Len(d)
  BY <1>1 DEF NoStart, Pieces
<1>3. CASE n = 0 \/ d[1].value # 165
  <2>1. NoStart(d, 1)
    BY <1>1, <1>2, <1>3 DEF NoStart
  <2>. QED BY <2>1 DEF AtStart
<1>4. CASE n # 0 /\ d[1].value = 165
  <2>1. d # <<>>
    BY <1>2, <1>4
  <2>2. ASSUME d[3] = q[3] PROVE Possible(d[3]) \subseteq 0..60
    <3>1. d[3].value = s /\ s \in 9..28
      BY <2>2 DEF Sent
    <3>2. s # -1 /\ s \in 0..60
      BY ONLY <3>1
    <3>3. Possible(d[3]) = {s}
      BY ONLY <3>1, <3>2 DEF Possible
    <3>. QED BY ONLY <3>2, <3>3
  <2>3. \A j \in 1..n : Possible(d[j]) \subseteq Nat
    BY DEF Pieces
  <2>4. ASSUME n \in 3..12, NEW l \in Possible(d[3]) PROVE l <= 60
    <3>1. d[3] = q[3]
      <4>1. n < 3 \/ n >= 13 \/ d[3] = q[3]
        BY DEF Pieces
      <4>2. n \in 3..12
        BY <2>4
      <4>. QED BY ONLY <4>1, <4>2
    <3>2. l \in 0..60
      BY <2>2, <2>4, <3>1
    <3>. QED BY ONLY <3>2
  <2>5. d[1].value = 165
    BY <1>4
  <2>. QED BY <1>2, <2>1, <2>3, <2>4, <2>5, PlainFits
<1>. QED BY <1>3, <1>4

LEMMA TruncatedFits ==
  ASSUME NEW n, NEW q \in Seq(Honest(n)), NEW k, NEW s, Sent(q, k, s),
         NEW i \in 1..s + 5, NEW d \in Seq(Honest(n)), d = SubSeq(q, 1, i - 1)
  PROVE  AtStart(d, 1)
<1>1. PICK m \in Nat : m = s + 5 /\ m = Len(q)
  BY DEF Sent
<1>2. PICK a \in Nat : a = i - 1 /\ a <= m
  BY <1>1 DEF Sent
<1>3. Len(d) = a /\ \A j \in 1..a : d[j] = q[j]
  BY <1>1, <1>2, Front
<1>4. \A j \in 1..a : Possible(d[j]) \subseteq Nat
  BY <1>3, ElementOfSeq, PossibleIs
<1>5. ASSUME NEW j \in 1..a PROVE \E l \in 1..s + 5 : (j > 1 => l > 1) /\ d[j] = q[l]
  <2>1. j \in 1..s + 5
    BY <1>1, <1>2
  <2>. QED BY <1>3, <2>1
<1>6. a < 3 \/ d[3] = q[3]
  BY <1>3
<1>7. Pieces(q, s, d, a)
  BY <1>3, <1>4, <1>5, <1>6 DEF Pieces
<1>. QED BY <1>7, PiecesFit

LEMMA DeletedFits ==
  ASSUME NEW n, NEW q \in Seq(Honest(n)), NEW k, NEW s, Sent(q, k, s),
         NEW i \in 1..s + 5, NEW d \in Seq(Honest(n)),
         d = SubSeq(q, 1, i - 1) \o SubSeq(q, i + 1, s + 5)
  PROVE  AtStart(d, 1)
<1>1. PICK m \in Nat : m = s + 5 /\ m = Len(q) /\ m >= 14
  <2>1. s \in 9..28 /\ Len(q) = s + 5
    BY DEF Sent
  <2>. QED BY ONLY <2>1
<1>2. PICK a \in Nat : a = i - 1 /\ a <= m /\ i = a + 1 /\ i \in 1..m
  BY <1>1
<1>3. PICK H : H = Honest(n)
  OBVIOUS
<1>4. q \in Seq(H) /\ d \in Seq(H) /\ \A b \in H : Possible(b) \subseteq Nat
  BY <1>3, PossibleIs
<1>5. PICK u, v : u = SubSeq(q, 1, a) /\ v = SubSeq(q, i + 1, m)
  OBVIOUS
<1>6. u \in Seq(H) /\ Len(u) = a /\ \A j \in 1..a : u[j] = q[j]
  <2>1. q \in Seq(H) /\ m \in Nat /\ m = Len(q) /\ a \in Nat /\ a <= m
    BY <1>1, <1>2, <1>4
  <2>. QED BY ONLY <1>5, <2>1, Front
<1>7. v \in Seq(H) /\ Len(v) = m - i /\ \A j \in 1..m - i : v[j] = q[i + j]
  <2>1. q \in Seq(H) /\ m \in Nat /\ m = Len(q) /\ i \in Nat /\ i <= m
    BY <1>1, <1>2, <1>4
  <2>. QED BY ONLY <1>5, <2>1, Rear
<1>8. d = u \o v
  BY <1>1, <1>2, <1>5
<1>9. Len(d) = m - 1 /\ \A j \in 1..m - 1 : d[j] = IF j <= a THEN u[j] ELSE v[j - a]
  <2>1. PICK b \in Nat : b = m - i /\ b = Len(v) /\ a + b = m - 1
    BY <1>1, <1>2, <1>7
  <2>2. a \in Nat
    OBVIOUS
  <2>3. /\ Len(u \o v) = a + b
        /\ \A j \in 1..a + b : (u \o v)[j] = IF j <= a THEN u[j] ELSE v[j - a]
    <3>1. u \in Seq(H) /\ v \in Seq(H) /\ a \in Nat /\ b \in Nat /\ a = Len(u) /\ b = Len(v)
      BY <1>6, <1>7, <2>1, <2>2
    <3>. QED BY ONLY <3>1, Joined
  <2>. QED BY ONLY <1>8, <2>1, <2>3
<1>10. \A j \in 1..m - 1 : Possible(d[j]) \subseteq Nat
  BY <1>4, <1>9, ElementOfSeq
<1>11. ASSUME NEW j \in 1..m - 1 PROVE \E l \in 1..s + 5 : (j > 1 => l > 1) /\ d[j] = q[l]
  <2>1. CASE j <= a
    <3>1. j \in 1..m /\ j \in 1..a
      BY <1>1, <1>2, <2>1
    <3>2. d[j] = u[j] /\ u[j] = q[j]
      BY <1>6, <1>9, <2>1, <3>1
    <3>. QED BY <1>1, <3>1, <3>2
  <2>2. CASE ~(j <= a)
    <3>1. PICK l \in Nat : l = j + 1 /\ l \in 1..m /\ l > 1 /\ j - a \in 1..m - i /\ i + (j - a) = l
      BY <1>1, <1>2, <2>2
    <3>2. d[j] = v[j - a] /\ v[j - a] = q[l]
      BY <1>7, <1>9, <2>2, <3>1
    <3>. QED BY <1>1, <3>1, <3>2
  <2>. QED BY <2>1, <2>2
<1>12. m - 1 \in Nat /\ m - 1 >= 13
  BY <1>1
<1>13. Pieces(q, s, d, m - 1)
  BY <1>9, <1>10, <1>11, <1>12 DEF Pieces
<1>. QED BY <1>13, PiecesFit

LEMMA InsertedFits ==
  ASSUME NEW n, NEW q \in Seq(Honest(n)), NEW k, NEW s, Sent(q, k, s),
         NEW i \in 1..s + 5, i # 1, NEW d \in Seq(Honest(n)),
         d = SubSeq(q, 1, i - 1) \o <<Text>> \o SubSeq(q, i, s + 5)
  PROVE  AtStart(d, 1)
<1>1. PICK m \in Nat : m = s + 5 /\ m = Len(q) /\ m >= 14
  <2>1. s \in 9..28 /\ Len(q) = s + 5
    BY DEF Sent
  <2>. QED BY ONLY <2>1
<1>2. PICK a \in Nat : a = i - 1 /\ a <= m /\ i = a + 1 /\ a >= 1
  BY <1>1
<1>3. PICK H : H = Honest(n)
  OBVIOUS
<1>4. /\ q \in Seq(H) /\ d \in Seq(H) /\ <<Text>> \in Seq(H)
      /\ \A b \in H : Possible(b) \subseteq Nat
  BY <1>3, TextHonest, PossibleIs
<1>5. PICK u, v, t : u = SubSeq(q, 1, a) /\ v = SubSeq(q, a + 1, m) /\ t = <<Text>>
  OBVIOUS
<1>6. u \in Seq(H) /\ Len(u) = a /\ \A j \in 1..a : u[j] = q[j]
  <2>1. q \in Seq(H) /\ m \in Nat /\ m = Len(q) /\ a \in Nat /\ a <= m
    BY <1>1, <1>2, <1>4
  <2>. QED BY ONLY <1>5, <2>1, Front
<1>7. v \in Seq(H) /\ Len(v) = m - a /\ \A j \in 1..m - a : v[j] = q[a + j]
  <2>1. q \in Seq(H) /\ m \in Nat /\ m = Len(q) /\ a \in Nat /\ a <= m
    BY <1>1, <1>2, <1>4
  <2>2. /\ SubSeq(q, a + 1, m) \in Seq(H) /\ Len(SubSeq(q, a + 1, m)) = m - a
        /\ \A j \in 1..m - a : SubSeq(q, a + 1, m)[j] = q[a + j]
    BY ONLY <2>1, Rear
  <2>. QED BY ONLY <1>5, <2>2
<1>8. t \in Seq(H) /\ Len(t) = 1 /\ t[1] = Text
  BY <1>4, <1>5
<1>9. PICK w : w = u \o t
  OBVIOUS
<1>10. w \in Seq(H) /\ Len(w) = a + 1
      /\ \A j \in 1..a + 1 : w[j] = IF j <= a THEN u[j] ELSE t[j - a]
  <2>1. PICK b \in Nat : b = 1
    OBVIOUS
  <2>2. /\ u \o t \in Seq(H) /\ Len(u \o t) = a + b
        /\ \A j \in 1..a + b : (u \o t)[j] = IF j <= a THEN u[j] ELSE t[j - a]
    <3>1. u \in Seq(H) /\ t \in Seq(H) /\ a \in Nat /\ b \in Nat /\ a = Len(u) /\ b = Len(t)
      BY <1>6, <1>8, <2>1
    <3>. QED BY ONLY <3>1, Joined
  <2>. QED BY ONLY <1>9, <2>1, <2>2
<1>11. d = w \o v
  BY <1>1, <1>2, <1>5, <1>9
<1>12. Len(d) = m + 1 /\ \A j \in 1..m + 1 : d[j] = IF j <= a + 1 THEN w[j] ELSE v[j - (a + 1)]
  <2>1. PICK b \in Nat : b = m - a /\ b = Len(v)
    BY <1>1, <1>2, <1>7
  <2>2. PICK c \in Nat : c = a + 1 /\ c = Len(w) /\ c + b = m + 1
    BY <1>1, <1>2, <1>10, <2>1
  <2>3. /\ Len(w \o v) = c + b
        /\ \A j \in 1..c + b : (w \o v)[j] = IF j <= c THEN w[j] ELSE v[j - c]
    <3>1. w \in Seq(H) /\ v \in Seq(H) /\ c \in Nat /\ b \in Nat /\ c = Len(w) /\ b = Len(v)
      BY <1>7, <1>10, <2>1, <2>2
    <3>. QED BY ONLY <3>1, Joined
  <2>. QED BY ONLY <1>11, <2>2, <2>3
<1>13. \A j \in 1..m + 1 : Possible(d[j]) \subseteq Nat
  BY <1>4, <1>12, ElementOfSeq
<1>14. ASSUME NEW j \in 1..m + 1
       PROVE  d[j] = Text \/ \E l \in 1..s + 5 : (j > 1 => l > 1) /\ d[j] = q[l]
  <2>1. CASE j <= a
    <3>1. j \in 1..m /\ j \in 1..a /\ j \in 1..a + 1 /\ j <= a + 1
      BY <1>1, <1>2, <2>1
    <3>2. d[j] = w[j] /\ w[j] = u[j] /\ u[j] = q[j]
      BY <1>6, <1>10, <1>12, <2>1, <3>1
    <3>. QED BY <1>1, <3>1, <3>2
  <2>2. CASE j = a + 1
    <3>1. d[j] = w[j] /\ w[j] = t[j - a] /\ j - a = 1
      BY <1>2, <1>10, <1>12, <2>2
    <3>. QED BY <1>8, <3>1
  <2>3. CASE j > a + 1
    <3>1. PICK l \in Nat : l = j - 1 /\ l \in 1..m /\ l > 1 /\ j - (a + 1) \in 1..m - a
                           /\ a + (j - (a + 1)) = l
      BY <1>1, <1>2, <2>3
    <3>2. d[j] = v[j - (a + 1)] /\ v[j - (a + 1)] = q[l]
      <4>1. ~(j <= a + 1)
        BY <2>3
      <4>. QED BY <1>7, <1>12, <3>1, <4>1
    <3>. QED BY <1>1, <3>1, <3>2
  <2>4. j \in Nat /\ (j <= a \/ j = a + 1 \/ j > a + 1)
    BY <1>1
  <2>. QED BY <2>1, <2>2, <2>3, <2>4
<1>15. m + 1 \in Nat /\ m + 1 >= 13
  BY <1>1
<1>16. Pieces(q, s, d, m + 1)
  BY <1>12, <1>13, <1>14, <1>15 DEF Pieces
<1>. QED BY <1>16, PiecesFit

LEMMA AlteredFits ==
  ASSUME NEW n, NEW q \in Seq(Honest(n)), NEW k, NEW s, Sent(q, k, s),
         NEW i \in 1..s + 5, NEW v \in 0..255, NEW d \in Seq(Honest(n)), d = With(q, i, v)
  PROVE  AtStart(d, 1)
<1>1. PICK m \in Nat : m = s + 5 /\ m = Len(q) /\ m >= 14
  <2>1. s \in 9..28 /\ Len(q) = s + 5
    BY DEF Sent
  <2>. QED BY ONLY <2>1
<1>2. Len(d) = m /\ \A j \in 1..m : d[j] = IF j = i THEN Foreign(v) ELSE q[j]
  <2>1. Foreign(v) \in Honest(n) /\ i \in 1..Len(q)
    BY <1>1, ForeignHonest
  <2>. QED BY <1>1, <2>1, ExceptSeq DEF With
<1>3. \A j \in 1..m : Possible(d[j]) \subseteq Nat
  BY <1>2, ElementOfSeq, PossibleIs
<1>4. Foreign(v).value = v /\ 1 \in 1..m /\ 2 \in 1..m /\ 3 \in 1..m /\ d # <<>>
  BY <1>1, <1>2 DEF Foreign
<1>5. ASSUME NEW j \in 2..m, j # i PROVE d[j].value # 165
  BY <1>1, <1>2, <1>5 DEF Sent, NoStart
<1>6. CASE i = 1 /\ v # 165
  <2>1. NoStart(d, 1)
    <3>1. ASSUME NEW j \in 1..m PROVE d[j].value # 165
      <4>1. CASE j = 1
        BY <1>2, <1>4, <1>6, <4>1
      <4>2. CASE j # 1
        BY <1>5, <1>6, <4>2
      <4>. QED BY <4>1, <4>2
    <3>. QED BY <1>2, <3>1 DEF NoStart
  <2>. QED BY <2>1 DEF AtStart
<1>7. CASE ~(i = 1 /\ v # 165) /\ (i = 1 \/ v # 165)
  <2>1. d[1].value = 165
    BY <1>2, <1>4, <1>7 DEF Sent
  <2>2. NoStart(d, 2)
    <3>1. ASSUME NEW j \in 2..m PROVE d[j].value # 165
      <4>1. CASE j = i
        <5>1. d[j] = Foreign(v) /\ v # 165
          BY <1>2, <1>7, <4>1
        <5>. QED BY <1>4, <5>1
      <4>2. CASE j # i
        BY <1>5, <4>2
      <4>. QED BY <4>1, <4>2
    <3>. QED BY <1>2, <3>1 DEF NoStart
  <2>3. Len(d) \in Nat /\ ~(Len(d) \in 3..12)
    <3>1. m \in Nat /\ ~(m \in 3..12)
      BY <1>1
    <3>. QED BY ONLY <1>2, <3>1
  <2>4. \A j \in 1..Len(d) : Possible(d[j]) \subseteq Nat
    BY <1>2, <1>3
  <2>. QED BY ONLY <1>4, <2>1, <2>2, <2>3, <2>4, PlainFits
<1>8. CASE i # 1 /\ v = 165
  <2>1. d[1].value = 165
    BY <1>2, <1>4, <1>8 DEF Sent
  <2>2. NoStart(d, i + 1)
    BY <1>2, <1>5, <1>8 DEF NoStart
  <2>3. ASSUME NEW t \in Possible(d[2]), NEW l \in Possible(d[3])
        PROVE  LengthSafe(d, 1, t, l, 3)
    <3>1. CASE i \in {2, 3}
      <4>1. NoStart(d, 3 + 1)
        BY <1>2, <2>2, <3>1, NoStartLater
      <4>2. i = 2 => t = 165
        BY <1>2, <1>4, <1>8 DEF Possible
      <4>3. i = 3 => l = 165
        BY <1>2, <1>4, <1>8 DEF Possible
      <4>4. t \notin 1..4 \/ l > 73
        BY <3>1, <4>2, <4>3
      <4>. QED BY <4>1, <4>4 DEF LengthSafe
    <3>2. CASE i \notin {2, 3}
      <4>1. d[2].value = k /\ d[3].value = s
        BY <1>2, <1>4, <3>2 DEF Sent
      <4>2. t = k /\ l = s
        <5>1. k # -1 /\ s # -1
          BY DEF Sent
        <5>. QED BY <2>3, <4>1, <5>1 DEF Possible
      <4>3. NoStart(d, 3 + s + 3)
        BY <1>1, <1>2 DEF NoStart, Sent
      <4>4. Covers(d, 1, 3 + s + 2)
        BY <1>1, <1>2 DEF Covers, Sent
      <4>. QED BY <4>2, <4>3, <4>4 DEF LengthSafe, Sent
    <3>. QED BY <3>1, <3>2
  <2>. QED BY <1>1, <1>2, <1>4, <2>1, <2>3 DEF AtStart
<1>. QED BY <1>6, <1>7, <1>8

LEMMA DamageFits ==
  ASSUME numbering \in Numberings, NEW f \in Frames, NEW d \in Damages(Frame(f))
  PROVE  AtStart(d, 1)
<1>1. PICK q, k, s, n : q = Frame(f) /\ k = Ids(numbering)[f.kind] /\ s = Size[f.kind] /\ n = numbering
  OBVIOUS
<1>2. Sent(q, k, s) /\ q \in Seq(Honest(n))
  <2>1. k \in 1..4 /\ s \in 9..28
    BY <1>1, FrameKinds
  <2>2. Len(q) = s + 5 /\ q[2].value = k /\ q[3].value = s /\ q \in Seq(Honest(n))
    BY <1>1, FrameBytes
  <2>3. q[1].value = 165 /\ NoStart(q, 2)
    BY <1>1, FrameQuiet
  <2>. QED BY <2>1, <2>2, <2>3 DEF Sent
<1>3. s + 5 \in Nat /\ s + 5 = Len(q) /\ s + 5 >= 4
  <2>1. s \in 9..28 /\ Len(q) = s + 5
    BY <1>2 DEF Sent
  <2>. QED BY ONLY <2>1
<1>4. d \in Seq(Honest(n))
  BY <1>1, <1>2, <1>3, DamagedHonest
<1>5. PICK i \in 1..s + 5 :
        \/ d = SubSeq(q, 1, i - 1)
        \/ d = SubSeq(q, 1, i - 1) \o SubSeq(q, i + 1, s + 5)
        \/ i # 1 /\ d = SubSeq(q, 1, i - 1) \o <<Text>> \o SubSeq(q, i, s + 5)
        \/ Changed(d, q, i)
  BY <1>1, <1>3, DamageIs
<1>6. ASSUME Changed(d, q, i) PROVE AtStart(d, 1)
  BY <1>2, <1>4, <1>6, AlteredFits DEF Changed
<1>. QED BY <1>2, <1>4, <1>5, <1>6, TruncatedFits, DeletedFits, InsertedFits

(* A read that fails in the middle of a frame leaves bytes without a start  *)
(* byte on the line.                                                       *)
LEMMA OutFails ==
  ASSUME numbering \in Numberings, InStep(0), ReadFails
  PROVE  OutOfStep' \/ \E lost \in Int : lost <= 6 /\ InStep(lost)'
<1>1. /\ pc # "decode" /\ pc' = "start" /\ line' = line /\ missing' = missing
      /\ numbering' = numbering
  BY DEF ReadFails, StartOver, frameVars
<1>2. CASE pc = "start" /\ Between(0)
  <2>1. (Quiet => Quiet') /\ (FrameAhead => FrameAhead')
    BY <1>1 DEF Quiet, FrameAhead, Frame
  <2>2. InStep(0)'
    BY <1>1, <1>2, <2>1 DEF InStep, Between
  <2>. QED BY <2>2
<1>3. ASSUME missing = 0 + 1, NEW f \in Frames, Reading(f) PROVE OutOfStep'
  <2>1. PICK q, m, H : q = Frame(f) /\ m = Size[f.kind] + 5 /\ H = Honest(numbering)
    OBVIOUS
  <2>2. q \in Seq(H) /\ m \in Nat /\ m = Len(q) /\ m >= 14 /\ NoStart(q, 2)
    BY <2>1, FrameBytes, FrameQuiet
  <2>3. PICK g : g \in {1, 2, 3, Size[f.kind] + 3} /\ Within(f, g)
    BY <1>3 DEF Reading
  <2>4. g \in Nat /\ g >= 1 /\ g <= m
    <3>1. PICK s \in 9..28 : s = Size[f.kind]
      BY FrameKinds
    <3>2. m = s + 5 /\ g \in {1, 2, 3, s + 3}
      BY <2>1, <2>3, <3>1
    <3>. QED BY <3>2
  <2>5. line = SubSeq(q, g + 1, m)
    BY <2>1, <2>3 DEF Within
  <2>6. Len(line) = m - g /\ \A j \in 1..m - g : line[j] = q[g + j]
    BY <2>2, <2>4, <2>5, Rear
  <2>7. ASSUME NEW j \in 1..m - g PROVE line[j].value # 165
    <3>1. g + j \in 2..m
      BY <2>2, <2>4
    <3>2. q[g + j].value # 165
      BY <2>2, <3>1 DEF NoStart
    <3>. QED BY <2>6, <3>2
  <2>8. NoStart(line, 1)
    BY <2>6, <2>7 DEF NoStart
  <2>9. pc' = "start" /\ missing' <= 6 /\ AtStart(line', missing')
    BY <1>1, <1>3, <2>8 DEF AtStart
  <2>. QED BY <2>9 DEF OutOfStep
<1>. QED BY <1>1, <1>2, <1>3 DEF InStep

LEMMA OutDamaged ==
  ASSUME numbering \in Numberings, InStep(0), NEW f \in Frames, Send(f),
         line' \in Damages(Frame(f))
  PROVE  OutOfStep'
<1>1. /\ line = <<>> /\ missing' = missing + 1 /\ pc' = pc /\ message' = message
  BY DEF Send, readerVars
<1>2. AtStart(line', 1)
  BY DamageFits
<1>3. \/ pc = "start" /\ missing = 0
      \/ pc = "decode" /\ message.got > 0 /\ missing = 0 + 1
  BY <1>1, EmptyBetween
<1>4. CASE pc = "start" /\ missing = 0
  <2>1. pc' = "start" /\ missing' <= 6 /\ AtStart(line', missing')
    BY <1>1, <1>2, <1>4
  <2>. QED BY <2>1 DEF OutOfStep
<1>5. CASE pc = "decode" /\ message.got > 0 /\ missing = 0 + 1
  <2>1. Decoded' = 1
    BY <1>1, <1>5 DEF Decoded
  <2>2. pc' = "decode" /\ Decoded' <= 6 /\ AtStart(line', Decoded')
    BY <1>1, <1>2, <1>5, <2>1
  <2>. QED BY <2>2 DEF OutOfStep
<1>. QED BY <1>3, <1>4, <1>5

(* What is not damage keeps a reader out of step or brings it back. *)
LEMMA StaysOut ==
  ASSUME LinkKinds, clean, missing \in Int, OutOfStep,
         [LinkNext]_linkVars, faults' = faults, faults \in Int
  PROVE  OutOfStep' \/ \E lost \in Int : lost <= 6 /\ InStep(lost)'
<1>1. numbering \in Numberings /\ need \in Nat
  BY DEF LinkKinds
<1>2. CASE \E f \in Frames : Send(f)
  <2>1. PICK f \in Frames : Send(f)
    BY <1>2
  <2>2. line' = Frame(f)
    BY <2>1 DEF Send
  <2>. QED BY <1>1, <2>1, <2>2, OutSend
<1>3. CASE Reader
  BY <1>3, OutStart, OutType, OutLength, OutPayload, OutChecksum, OutDecode DEF Reader
<1>4. CASE LogLine
  BY <1>1, <1>4, OutLogLine
<1>5. ~ReadFails
  BY DEF ReadFails
<1>6. CASE UNCHANGED linkVars
  <2>1. UNCHANGED <<numbering, line, pc, type, need, message, missing>>
    BY <1>6 DEF linkVars, frameVars, readerVars
  <2>2. FrameAhead => FrameAhead'
    BY <2>1 DEF FrameAhead, Frame
  <2>3. Decoded' = Decoded
    BY <2>1 DEF Decoded
  <2>. QED BY <2>1, <2>2, <2>3 DEF OutOfStep
<1>. QED BY <1>2, <1>3, <1>4, <1>5, <1>6 DEF LinkNext

LEMMA LocalAlways == LinkSpec => []LinkLocal
<1>1. LinkInit => LinkLocal
  BY DEF LinkInit, LinkLocal
<1>2. LinkKinds /\ LinkWhole /\ LinkLocal /\ [LinkNext]_linkVars => LinkLocal'
  <2> SUFFICES ASSUME LinkKinds, LinkWhole, LinkLocal, [LinkNext]_linkVars PROVE LinkLocal'
    OBVIOUS
  <2>1. missing' \in Int /\ clean' = clean /\ (faults' = faults \/ faults' = faults + 1)
    BY DEF LinkLocal, LinkNext, Send, LogLine, Reader, ReadStart, ReadType, ReadLength,
           ReadPayload, ReadChecksum, Decode, ReadFails, linkVars, frameVars
  <2>2. numbering \in Numberings /\ faults \in Nat /\ missing \in Int
    BY DEF LinkWhole, LinkLocal
  <2> SUFFICES ASSUME clean', faults' = 1 PROVE Recovering'
    BY <2>1 DEF LinkLocal
  <2>3. CASE faults' = faults
    <3>1. clean /\ Recovering
      BY <2>1, <2>3 DEF LinkLocal
    <3>2. CASE OutOfStep
      <4>1. OutOfStep' \/ \E lost \in Int : lost <= 6 /\ InStep(lost)'
        BY <2>2, <2>3, <3>1, <3>2, StaysOut
      <4>. QED BY <4>1 DEF Recovering
    <3>3. ASSUME NEW lost \in Int, lost <= 6, InStep(lost) PROVE Recovering'
      <4>1. InStep(lost)'
        BY <2>2, <2>3, <3>3, StaysInStep
      <4>. QED BY <3>3, <4>1 DEF Recovering
    <3>. QED BY <3>1, <3>2, <3>3 DEF Recovering
  <2>4. CASE faults' = faults + 1
    <3>1. faults = 0 /\ InStep(0)
      BY <2>2, <2>4 DEF LinkWhole
    <3>2. \/ ReadFails
          \/ \E f \in Frames : Send(f) /\ line' \in Damages(Frame(f))
      <4>1. faults' # faults
        BY <2>2, <2>4
      <4>2. ~LogLine /\ ~Reader /\ ~UNCHANGED linkVars
        BY <4>1 DEF LogLine, Reader, ReadStart, ReadType, ReadLength, ReadPayload,
           ReadChecksum, Decode, linkVars
      <4>3. ASSUME NEW f \in Frames, Send(f) PROVE line' \in Damages(Frame(f))
        BY <4>1, <4>3 DEF Send
      <4>. QED BY <4>2, <4>3 DEF LinkNext
    <3>3. OutOfStep' \/ \E lost \in Int : lost <= 6 /\ InStep(lost)'
      BY <2>2, <3>1, <3>2, OutFails, OutDamaged
    <3>. QED BY <3>3 DEF Recovering
  <2>. QED BY <2>1, <2>3, <2>4
<1>. QED BY <1>1, <1>2, KindsInvariant, WholeAlways, PTL DEF LinkSpec

(* One damaged frame or failed read costs that frame and at most five      *)
(* after it, if no payload contains the start byte: a wrong length makes   *)
(* the reader swallow at most 73 bytes and a checksum                      *)
(* (IMUSerialPortReader.cpp 23-68).                                        *)
THEOREM DamageCostsSix == LinkSpec => []DamageIsLocal
<1>1. LinkWhole /\ LinkLocal => DamageIsLocal
  <2> SUFFICES ASSUME LinkWhole, LinkLocal, clean, faults <= 1, line = <<>>, pc # "decode"
               PROVE  missing <= 6
    BY DEF DamageIsLocal
  <2>1. numbering \in Numberings /\ (faults = 0 \/ faults = 1)
    BY DEF LinkWhole
  <2>2. ASSUME NEW lost \in Int, lost <= 6, InStep(lost) PROVE missing <= 6
    BY <2>1, <2>2, EmptyBetween
  <2>3. CASE faults = 0
    <3>1. InStep(0)
      BY <2>3 DEF LinkWhole
    <3>. QED BY <2>2, <3>1
  <2>4. CASE faults = 1
    <3>1. Recovering
      BY <2>4 DEF LinkLocal
    <3>2. OutOfStep => missing <= 6
      BY DEF OutOfStep
    <3>. QED BY <2>2, <3>1, <3>2 DEF Recovering
  <2>. QED BY <2>1, <2>3, <2>4
<1>. QED BY <1>1, WholeAlways, LocalAlways, PTL

(* No frame is counted as accepted twice: only the first byte on the line  *)
(* can be the first of a frame, and a message that has agreed with a frame *)
(* so far and a frame of which nothing has been read are each among those  *)
(* that are missing.                                                       *)
LaterPlaces(q) == \A j \in 1..Len(q) : j > 1 => q[j].at # 1
HeadAhead == line # <<>> /\ line[1].at = 1

AcceptedOnce ==
  /\ missing \in Int /\ missing >= 0
  /\ LaterPlaces(line)
  /\ message.got > 0 => missing >= 1
  /\ HeadAhead => missing >= 1
  /\ message.got > 0 /\ HeadAhead => missing >= 2

LEMMA JoinedLater ==
  ASSUME NEW S, NEW u \in Seq(S), NEW v \in Seq(S), LaterPlaces(u),
         \A j \in 1..Len(v) : v[j].at # 1
  PROVE  LaterPlaces(u \o v)
<1>1. PICK a \in Nat, b \in Nat : a = Len(u) /\ b = Len(v)
  BY LenProperties
<1>2. /\ Len(u \o v) = a + b
      /\ \A j \in 1..a + b : (u \o v)[j] = IF j <= a THEN u[j] ELSE v[j - a]
  BY <1>1, Joined
<1>3. ASSUME NEW j \in 1..a + b, j > 1 PROVE (u \o v)[j].at # 1
  <2>1. CASE j <= a
    <3>1. j \in 1..Len(u)
      BY <1>1, <2>1
    <3>. QED BY <1>2, <1>3, <2>1, <3>1 DEF LaterPlaces
  <2>2. CASE ~(j <= a)
    <3>1. j - a \in 1..Len(v)
      BY <1>1, <2>2
    <3>. QED BY <1>2, <2>2, <3>1
  <2>. QED BY <2>1, <2>2
<1>. QED BY <1>2, <1>3 DEF LaterPlaces

LEMMA DamageLater ==
  ASSUME NEW n, NEW q \in Seq(Honest(n)), NEW m \in Nat, NEW d, m = Len(q), m >= 4,
         \A j \in 1..m : q[j].at = j, d \in Damages(q)
  PROVE  LaterPlaces(d)
<1>1. PICK i \in 1..m :
        \/ d = SubSeq(q, 1, i - 1)
        \/ d = SubSeq(q, 1, i - 1) \o SubSeq(q, i + 1, m)
        \/ i # 1 /\ d = SubSeq(q, 1, i - 1) \o <<Text>> \o SubSeq(q, i, m)
        \/ Changed(d, q, i)
  BY DamageIs
<1>2. PICK H : H = Honest(n)
  OBVIOUS
<1>3. q \in Seq(H) /\ <<Text>> \in Seq(H)
  BY <1>2, TextHonest
<1>4. PICK a \in Nat : a = i - 1 /\ i = a + 1 /\ a <= m
  OBVIOUS
<1>5. /\ SubSeq(q, 1, a) \in Seq(H) /\ Len(SubSeq(q, 1, a)) = a
      /\ \A j \in 1..a : SubSeq(q, 1, a)[j] = q[j]
  BY <1>3, <1>4, Front
<1>6. LaterPlaces(SubSeq(q, 1, a))
  <2> SUFFICES ASSUME NEW j \in 1..a, j > 1 PROVE q[j].at # 1
    BY <1>5 DEF LaterPlaces
  <2>1. j \in 1..m
    BY <1>4
  <2>. QED BY <2>1
<1>7. ASSUME NEW b \in Nat, b <= m, b >= 1
      PROVE  /\ SubSeq(q, b + 1, m) \in Seq(H)
             /\ \A j \in 1..Len(SubSeq(q, b + 1, m)) : SubSeq(q, b + 1, m)[j].at # 1
  <2>1. /\ SubSeq(q, b + 1, m) \in Seq(H) /\ Len(SubSeq(q, b + 1, m)) = m - b
        /\ \A j \in 1..m - b : SubSeq(q, b + 1, m)[j] = q[b + j]
    BY <1>3, <1>7, Rear
  <2>2. ASSUME NEW j \in 1..m - b PROVE q[b + j].at # 1
    <3>1. b + j \in 1..m /\ b + j # 1
      BY <1>7
    <3>. QED BY <3>1
  <2>. QED BY <2>1, <2>2
<1>8. CASE d = SubSeq(q, 1, i - 1)
  BY <1>4, <1>6, <1>8
<1>9. CASE d = SubSeq(q, 1, i - 1) \o SubSeq(q, i + 1, m)
  <2>1. /\ SubSeq(q, i + 1, m) \in Seq(H)
        /\ \A j \in 1..Len(SubSeq(q, i + 1, m)) : SubSeq(q, i + 1, m)[j].at # 1
    <3>1. i \in Nat /\ i <= m /\ i >= 1
      OBVIOUS
    <3>. QED BY <1>7, <3>1
  <2>2. LaterPlaces(SubSeq(q, 1, a) \o SubSeq(q, i + 1, m))
    BY ONLY <1>5, <1>6, <2>1, JoinedLater
  <2>. QED BY <1>4, <1>9, <2>2
<1>10. CASE i # 1 /\ d = SubSeq(q, 1, i - 1) \o <<Text>> \o SubSeq(q, i, m)
  <2>1. a >= 1
    BY <1>4, <1>10
  <2>2. /\ SubSeq(q, a + 1, m) \in Seq(H)
        /\ \A j \in 1..Len(SubSeq(q, a + 1, m)) : SubSeq(q, a + 1, m)[j].at # 1
    BY <1>4, <1>7, <2>1
  <2>3. \A j \in 1..Len(<<Text>>) : <<Text>>[j].at # 1
    BY DEF Text, Foreign
  <2>4. LaterPlaces(SubSeq(q, 1, a) \o <<Text>>)
    BY ONLY <1>3, <1>5, <1>6, <2>3, JoinedLater
  <2>5. SubSeq(q, 1, a) \o <<Text>> \in Seq(H)
    BY ONLY <1>3, <1>5, ConcatProperties
  <2>6. LaterPlaces(SubSeq(q, 1, a) \o <<Text>> \o SubSeq(q, a + 1, m))
    BY ONLY <2>2, <2>4, <2>5, JoinedLater
  <2>. QED BY <1>4, <1>10, <2>6
<1>11. CASE Changed(d, q, i)
  <2>1. PICK v \in 0..255 : d = With(q, i, v)
    BY <1>11 DEF Changed
  <2>2. PICK b \in H : b = Foreign(v)
    BY <1>2, ForeignHonest
  <2>3. b.at # 1
    BY <2>2 DEF Foreign
  <2>4. d = [q EXCEPT ![i] = b]
    BY <2>1, <2>2 DEF With
  <2>5. Len(d) = m /\ \A j \in 1..m : d[j] = IF j = i THEN b ELSE q[j]
    BY <1>3, <2>4, ExceptSeq
  <2>. QED BY <2>3, <2>5 DEF LaterPlaces
<1>. QED BY <1>1, <1>8, <1>9, <1>10, <1>11

LEMMA TakenOnce ==
  ASSUME NEW k, LinkKinds, AcceptedOnce, line # <<>>, k \in 0..Len(line), line' = Rest(k),
         missing' = missing,
         message'.got > 0 => message.got > 0 \/ (k # 0 /\ HeadAhead)
  PROVE  AcceptedOnce'
<1>1. Dropped(line, k, line')
  BY LineDropped
<1>2. PICK n \in Nat : n = Len(line) /\ n >= 1 /\ k \in 0..n
  BY Taken
<1>3. Len(line') = n - k /\ \A j \in 1..n - k : line'[j] = line[k + j]
  BY <1>1, <1>2 DEF Dropped
<1>4. LaterPlaces(line')
  <2> SUFFICES ASSUME NEW j \in 1..n - k, j > 1 PROVE line'[j].at # 1
    BY <1>3 DEF LaterPlaces
  <2>1. k + j \in 1..Len(line) /\ k + j > 1
    BY <1>2
  <2>2. line[k + j].at # 1
    BY <2>1 DEF AcceptedOnce, LaterPlaces
  <2>. QED BY <1>3, <2>2
<1>5. HeadAhead' => k = 0 /\ HeadAhead
  <2> SUFFICES ASSUME line' # <<>>, line'[1].at = 1 PROVE k = 0 /\ line[1].at = 1
    BY DEF HeadAhead
  <2>1. Len(line') # 0
    <3>1. PICK H : line' \in Seq(H)
      BY Taken
    <3>. QED BY <3>1, EmptySeq
  <2>2. 1 \in 1..n - k
    BY <1>2, <1>3, <2>1
  <2>3. line[k + 1].at = 1
    BY <1>3, <2>2
  <2>4. k + 1 \in 1..Len(line)
    BY <1>2, <2>2
  <2>5. ~(k + 1 > 1)
    BY <2>3, <2>4 DEF AcceptedOnce, LaterPlaces
  <2>6. k = 0
    BY <1>2, <2>5
  <2>. QED BY <2>3, <2>6
<1>6. /\ missing \in Int /\ missing >= 0
      /\ message.got > 0 => missing >= 1
      /\ HeadAhead => missing >= 1
      /\ message.got > 0 /\ HeadAhead => missing >= 2
  BY DEF AcceptedOnce
<1>7. /\ missing' \in Int /\ missing' >= 0
      /\ message'.got > 0 => missing' >= 1
      /\ HeadAhead' => missing' >= 1
      /\ message'.got > 0 /\ HeadAhead' => missing' >= 2
  BY <1>5, <1>6
<1>. QED BY <1>4, <1>7 DEF AcceptedOnce

LEMMA SendOnce ==
  ASSUME NEW f \in Frames, LinkKinds, AcceptedOnce, Send(f) PROVE AcceptedOnce'
<1>1. /\ line = <<>> /\ missing' = missing + 1 /\ message' = message
      /\ line' = Frame(f) \/ line' \in Damages(Frame(f))
  BY DEF Send, readerVars
<1>2. PICK q, n, m : q = Frame(f) /\ n = numbering /\ m = Size[f.kind] + 5
  OBVIOUS
<1>3. Size[f.kind] \in 9..28
  BY FrameKinds
<1>4. m \in Nat /\ m >= 4
  BY <1>2, <1>3
<1>5. q \in Seq(Honest(n)) /\ Len(q) = m /\ \A j \in 1..m : q[j].at = j
  BY <1>2, FrameBytes DEF LinkKinds
<1>6. LaterPlaces(line')
  <2>1. LaterPlaces(q)
    BY <1>4, <1>5 DEF LaterPlaces
  <2>2. \A d \in Damages(q) : LaterPlaces(d)
    BY <1>4, <1>5, DamageLater
  <2>. QED BY <1>1, <1>2, <2>1, <2>2
<1>7. ~HeadAhead
  BY <1>1 DEF HeadAhead
<1>. QED BY <1>1, <1>6, <1>7 DEF AcceptedOnce

LEMMA OnceStep == LinkKinds /\ AcceptedOnce /\ [LinkNext]_linkVars => AcceptedOnce'
<1> SUFFICES ASSUME LinkKinds, AcceptedOnce, [LinkNext]_linkVars PROVE AcceptedOnce'
  OBVIOUS
<1>1. CASE \E f \in Frames : Send(f)
  BY <1>1, SendOnce
<1>2. CASE LogLine
  <2>1. line = <<>> /\ line' = <<Text>> /\ missing' = missing /\ message' = message
    BY <1>2 DEF LogLine, readerVars
  <2>2. LaterPlaces(line') /\ ~HeadAhead'
    BY <2>1 DEF LaterPlaces, HeadAhead, Text, Foreign
  <2>. QED BY <2>1, <2>2 DEF AcceptedOnce
<1>3. CASE ReadStart
  <2>1. /\ line # <<>> /\ line' = Rest(1) /\ missing' = missing
        /\ \/ message' = message
           \/ Head(line).at = 1 /\ message' = [frame |-> Head(line).frame, got |-> 1]
           \/ message' = Spoilt
    BY <1>3 DEF ReadStart, readerVars
  <2>2. Head(line) = line[1] /\ 1 \in 0..Len(line)
    BY <2>1, Taken
  <2>3. message'.got > 0 => message.got > 0 \/ HeadAhead
    BY <2>1, <2>2 DEF HeadAhead, Spoilt
  <2>. QED BY <2>1, <2>2, <2>3, TakenOnce
<1>4. CASE ReadType \/ ReadLength
  <2>1. /\ line # <<>> /\ line' = Rest(1) /\ missing' = missing
        /\ message' = Extended(1) \/ message' = Spoilt
    BY <1>4 DEF ReadType, ReadLength, StartOver
  <2>2. 1 \in 0..Len(line)
    BY <2>1, Taken
  <2>3. message'.got > 0 => message.got > 0
    <3>1. Extended(1).got > 0 => message.got > 0
      BY ExtendedIs
    <3>. QED BY <2>1, <3>1 DEF Spoilt
  <2>. QED BY <2>1, <2>2, <2>3, TakenOnce
<1>5. CASE ReadPayload \/ ReadChecksum
  <2>1. PICK k : k = Available
    OBVIOUS
  <2>2. line # <<>> /\ line' = Rest(k) /\ missing' = missing /\ message' = Extended(k)
    BY <1>5, <2>1 DEF ReadPayload, ReadChecksum
  <2>3. k \in 0..Len(line) /\ k \in Nat
    BY <2>1, <2>2, Taken
  <2>4. message'.got > 0 => message.got > 0
    BY <2>2, <2>3, ExtendedIs
  <2>. QED BY <2>2, <2>3, <2>4, TakenOnce
<1>6. CASE Decode
  <2>1. /\ line' = line /\ message'.got = 0
        /\ IF message.got > 0 THEN missing' = missing - 1 ELSE missing' = missing
    BY <1>6 DEF Decode, StartOver, Spoilt, ValidMessage
  <2>2. HeadAhead' = HeadAhead /\ (LaterPlaces(line) => LaterPlaces(line)')
    BY <2>1 DEF HeadAhead, LaterPlaces
  <2>. QED BY <2>1, <2>2 DEF AcceptedOnce
<1>7. CASE ReadFails
  <2>1. line' = line /\ missing' = missing /\ message'.got = 0
    BY <1>7 DEF ReadFails, StartOver, Spoilt
  <2>. QED BY <2>1 DEF AcceptedOnce, LaterPlaces, HeadAhead
<1>8. CASE UNCHANGED linkVars
  BY <1>8 DEF linkVars, readerVars, AcceptedOnce, LaterPlaces, HeadAhead
<1>. QED BY <1>1, <1>2, <1>3, <1>4, <1>5, <1>6, <1>7, <1>8 DEF LinkNext, Reader

LEMMA OnceAlways == LinkSpec => []AcceptedOnce
<1>1. LinkInit => AcceptedOnce
  BY DEF LinkInit, AcceptedOnce, LaterPlaces, HeadAhead, Spoilt
<1>. QED BY <1>1, OnceStep, KindsInvariant, PTL DEF LinkSpec

(* What neither invariant above says about types. *)
LinkCounters ==
  /\ clean \in BOOLEAN /\ haveAttitude \in BOOLEAN /\ mistaken \in BOOLEAN
  /\ lastStatus \in Frames /\ missing <= MaxMissing /\ faults \in 0..MaxFaults
  /\ type \in 0..255 /\ length \in 0..73 /\ need \in 0..73
  /\ message.got <= 78 /\ current \in HostStatuses

LEMMA ExtendedFits ==
  ASSUME NEW k, LinkKinds, message.got <= 78, k \in 0..Len(line), line # <<>>
  PROVE  Extended(k).got <= 78
<1>1. PICK n \in Nat : n = Len(line)
  BY Taken
<1>2. k \in Nat /\ k <= n
  BY <1>1
<1>3. CASE k = 0
  <2>1. Extended(k).got = 0 \/ Extended(k).got = message.got + k
    BY <1>2, ExtendedIs
  <2>2. PICK h \in Nat : h = message.got /\ h <= 78
    BY DEF LinkKinds
  <2>. PICK g : g = Extended(k).got
    OBVIOUS
  <2>3. (g = 0 \/ g = h + 0) /\ h \in Nat /\ h <= 78
    BY <1>3, <2>1, <2>2
  <2>4. g <= 78
    BY ONLY <2>3
  <2>. QED BY <2>4
<1>4. CASE k # 0
  <2>1. k \in 1..Len(line)
    BY <1>1, <1>2, <1>4
  <2>2. line[k] \in Honest(numbering)
    BY <2>1, ElementOfSeq DEF LinkKinds
  <2>3. line[k].at \in 0..78
    BY <2>2 DEF Honest, LineBytes, MaxPayload
  <2>4. k \in 1..k
    BY <1>2, <1>4
  <2>5. Extended(k).got = 0 \/ Extended(k).got = line[k].at
    <3>1. \/ Extended(k) = [frame |-> NoFrame, got |-> 0]
          \/ /\ \A j \in 1..k : line[j].at = message.got + j
             /\ Extended(k) = [frame |-> message.frame, got |-> message.got + k]
      BY <1>2, ExtendedIs
    <3>. QED BY <2>4, <3>1
  <2>6. PICK g : g = Extended(k).got
    OBVIOUS
  <2>7. g <= 78
    BY ONLY <2>3, <2>5, <2>6
  <2>. QED BY ONLY <2>6, <2>7
<1>. QED BY <1>3, <1>4

LEMMA CountersByReader ==
  LinkKinds /\ LinkCounters /\ Reader /\ ~Decode => LinkCounters'
<1> SUFFICES ASSUME LinkKinds, LinkCounters, Reader, ~Decode PROVE LinkCounters'
  OBVIOUS
<1>1. line # <<>>
  BY DEF Reader, ReadStart, ReadType, ReadLength, ReadPayload, ReadChecksum
<1>2. /\ UNCHANGED <<clean, haveAttitude, mistaken, lastStatus, missing, faults, current>>
  BY DEF Reader, ReadStart, ReadType, ReadLength, ReadPayload, ReadChecksum, frameVars, hostVars
<1>3. /\ Head(line) = line[1] /\ line[1] \in Honest(numbering) /\ 1 \in 0..Len(line)
      /\ Available \in 0..Len(line) /\ Available <= need /\ need \in 0..73
  BY <1>1, Taken DEF LinkCounters
<1>4. Values(line[1]) \subseteq 0..255
  BY <1>3, ValuesAre
<1>5. Extended(1).got <= 78 /\ Extended(Available).got <= 78
  BY <1>1, <1>3, ExtendedFits DEF LinkCounters
<1>6. message'.got <= 78
  BY <1>5 DEF Reader, ReadStart, ReadType, ReadLength, ReadPayload, ReadChecksum, readerVars,
              StartOver, Spoilt, LinkCounters
<1>7. type' \in 0..255
  <2>1. type' = type \/ type' = 0 \/ type' \in Values(line[1])
    BY <1>3 DEF Reader, ReadStart, ReadType, ReadLength, ReadPayload, ReadChecksum,
                readerVars, StartOver
  <2>2. type \in 0..255
    BY DEF LinkCounters
  <2>. QED BY ONLY <1>4, <2>1, <2>2
<1>8. length' \in 0..73 /\ need' \in 0..73
  <2>1. CASE ReadLength
    <3>1. PICK v \in Values(line[1]) :
            \/ length' = 0 /\ need' = 1
            \/ /\ v <= 73 /\ length' = v
               /\ need' = 2 \/ need' = v
      BY <1>3, <2>1 DEF ReadLength, StartOver, Rejects, Fits, MaxPayload
    <3>2. v \in 0..255
      BY <1>4
    <3>. QED BY ONLY <3>1, <3>2
  <2>2. CASE ReadStart \/ ReadType \/ ReadPayload \/ ReadChecksum
    <3>1. PICK a \in Nat : a = Available /\ a <= need
      BY <1>3
    <3>2. length' = length /\ need' \in {0, 1, 2, need, need - a}
      BY <2>2, <3>1, Zenon DEF ReadStart, ReadType, ReadPayload, ReadChecksum, readerVars
    <3>3. need - a \in 0..73
      BY <1>3, <3>1
    <3>. QED BY <1>3, <3>2, <3>3 DEF LinkCounters
  <2>. QED BY <2>1, <2>2 DEF Reader
<1>. QED BY <1>2, <1>6, <1>7, <1>8 DEF LinkCounters

LEMMA CountersByDecode == LinkKinds /\ LinkCounters /\ AcceptedOnce /\ Decode => LinkCounters'
<1> SUFFICES ASSUME LinkKinds, LinkCounters, AcceptedOnce, Decode PROVE LinkCounters'
  OBVIOUS
<1>1. /\ UNCHANGED <<clean, haveAttitude, lastStatus, faults>> /\ pc = "decode"
      /\ type' = 0 /\ length' = 0 /\ need' = 1 /\ message'.got = 0
      /\ missing' = missing \/ missing' = missing - 1
  BY DEF Decode, StartOver, Spoilt, frameVars
<1>2. missing \in Int /\ missing <= MaxMissing /\ MaxMissing \in Nat
  BY LinkBoundsAssumption DEF AcceptedOnce, LinkCounters
<1>3. missing' <= MaxMissing
  BY <1>1, <1>2
<1>4. \/ mistaken' = mistaken
      \/ mistaken' = (mistaken \/ message.frame.kind # KindOf(type))
  BY DEF Decode, Dispatch, hostVars
<1>5. mistaken' \in BOOLEAN
  BY <1>4, Zenon DEF LinkCounters
<1>6. \/ current' = current
      \/ /\ message.got > 0 /\ length = Size[KindOf(type)] /\ KindOf(type) = "status"
         /\ current' = message.frame.status
  BY DEF Decode, Dispatch, ValidMessage, SizeAgrees, hostVars
<1>7. ASSUME message.got > 0, length = Size[KindOf(type)], KindOf(type) = "status"
      PROVE  message.frame.status \in HostStatuses
  <2>1. /\ message.got \in Nat /\ message.got \notin {0, 1, 2} /\ message.frame \in Frames
        /\ type = Ids(numbering)[message.frame.kind] /\ length = Size[message.frame.kind]
        /\ numbering \in Numberings
    BY <1>1, <1>7 DEF LinkKinds, ReadSoFar
  <2>2. message.frame.kind = "status"
    BY <1>7, <2>1, LengthTells
  <2>. QED BY <2>1, <2>2, FrameKinds
<1>8. current' \in HostStatuses
  BY <1>6, <1>7 DEF LinkCounters
<1>. QED BY <1>1, <1>3, <1>5, <1>8 DEF LinkCounters

LEMMA CountersStep ==
  LinkKinds /\ LinkCounters /\ AcceptedOnce /\ [LinkNext]_linkVars => LinkCounters'
<1> SUFFICES ASSUME LinkKinds, LinkCounters, AcceptedOnce, [LinkNext]_linkVars
             PROVE  LinkCounters'
  OBVIOUS
<1>1. MaxMissing \in Nat /\ MaxFaults \in Nat /\ missing \in Int
  BY LinkBoundsAssumption DEF AcceptedOnce
<1>2. ASSUME NEW f \in Frames, Send(f) PROVE LinkCounters'
  <2>1. /\ UNCHANGED <<clean, type, length, need, message, current, mistaken>>
        /\ missing < MaxMissing /\ missing' = missing + 1
        /\ haveAttitude' = (haveAttitude \/ f.kind = "rotation")
        /\ lastStatus' = f \/ lastStatus' = lastStatus
        /\ faults' = faults \/ (faults < MaxFaults /\ faults' = faults + 1)
    BY <1>2 DEF Send, readerVars, hostVars
  <2>2. haveAttitude' \in BOOLEAN
    BY <2>1, Zenon DEF LinkCounters
  <2>3. missing' <= MaxMissing /\ faults' \in 0..MaxFaults
    BY <1>1, <2>1 DEF LinkCounters
  <2>4. lastStatus' \in Frames
    BY <1>2, <2>1 DEF LinkCounters
  <2>. QED BY <2>1, <2>2, <2>3, <2>4 DEF LinkCounters
<1>3. CASE LogLine \/ UNCHANGED linkVars
  <2>1. UNCHANGED <<clean, haveAttitude, lastStatus, missing, faults, type, length, need,
                    message, current, mistaken>>
    BY <1>3 DEF LogLine, linkVars, frameVars, readerVars, hostVars
  <2>. QED BY <2>1 DEF LinkCounters
<1>4. CASE Reader
  BY <1>4, CountersByReader, CountersByDecode
<1>5. CASE ReadFails
  <2>1. /\ UNCHANGED <<clean, haveAttitude, lastStatus, missing, current, mistaken>>
        /\ faults < MaxFaults /\ faults' = faults + 1
        /\ type' = 0 /\ length' = 0 /\ need' = 1 /\ message'.got = 0
    BY <1>5 DEF ReadFails, StartOver, Spoilt, frameVars, hostVars
  <2>2. faults' \in 0..MaxFaults
    BY <1>1, <2>1 DEF LinkCounters
  <2>. QED BY <2>1, <2>2 DEF LinkCounters
<1>. QED BY <1>2, <1>3, <1>4, <1>5 DEF LinkNext

(* Type correctness of the line and its reader, from which: no frame is    *)
(* accepted twice (IMUSerialPortReader.cpp 23-68).                         *)
THEOREM LinkTypeCorrect == LinkSpec => []LinkTypeOK
<1>1. LinkInit => LinkCounters
  <2> SUFFICES ASSUME LinkInit PROVE LinkCounters
    OBVIOUS
  <2>1. lastStatus \in Frames
    <3>1. PICK s \in HostStatuses, l \in BOOLEAN : s = 2 /\ l = FALSE
      BY DEF HostStatuses
    <3>2. lastStatus = FrameOf("status", s, l)
      BY <3>1 DEF LinkInit
    <3>3. FrameOf("status", s, l) \in Frames
      BY ONLY <3>1, s \in HostStatuses, l \in BOOLEAN DEF Frames, FrameOf
    <3>. QED BY <3>2, <3>3
  <2>2. MaxMissing \in Nat /\ MaxFaults \in Nat
    BY LinkBoundsAssumption
  <2>3. /\ clean \in BOOLEAN /\ haveAttitude = FALSE /\ mistaken = FALSE
        /\ missing = 0 /\ faults = 0 /\ type = 0 /\ length = 0 /\ need = 1
        /\ message.got = 0 /\ current = 2
    BY DEF LinkInit, Spoilt
  <2>4. current \in HostStatuses
    BY <2>3 DEF HostStatuses
  <2>5. missing <= MaxMissing /\ faults \in 0..MaxFaults
    BY <2>2, <2>3
  <2>6. type \in 0..255 /\ length \in 0..73 /\ need \in 0..73 /\ message.got <= 78
    BY <2>3
  <2>. QED BY <2>1, <2>3, <2>4, <2>5, <2>6 DEF LinkCounters
<1>2. LinkKinds /\ AcceptedOnce /\ LinkCounters => LinkTypeOK
  <2> SUFFICES ASSUME LinkKinds, AcceptedOnce, LinkCounters PROVE LinkTypeOK
    OBVIOUS
  <2>1. ASSUME NEW i \in 1..Len(line)
        PROVE  line[i] \in [value : {Unknown} \cup 0..255, frame : Frames \cup {NoFrame},
                            at : 0..(MaxPayload + 5)]
    <3>1. line[i] \in Honest(numbering)
      BY ElementOfSeq DEF LinkKinds
    <3>. QED BY <3>1 DEF Honest, LineBytes
  <2>2. message \in [frame : Frames \cup {NoFrame}, got : 0..(MaxPayload + 5)]
    <3>1. /\ message = [frame |-> message.frame, got |-> message.got]
          /\ message.frame \in Frames \cup {NoFrame} /\ message.got \in Nat /\ message.got <= 78
      BY DEF LinkKinds, LinkCounters
    <3>2. message.got \in 0..(MaxPayload + 5)
      BY <3>1 DEF MaxPayload
    <3>. QED BY <3>1, <3>2
  <2>3. missing \in 0..MaxMissing
    BY LinkBoundsAssumption DEF AcceptedOnce, LinkCounters
  <2>4. /\ numbering \in {"board", "host"}
        /\ pc \in {"start", "type", "length", "payload", "checksum", "decode"}
    BY DEF LinkKinds, Numberings
  <2>. QED BY <2>1, <2>2, <2>3, <2>4 DEF LinkCounters, LinkTypeOK, MaxPayload
<1>. QED BY <1>1, <1>2, CountersStep, KindsInvariant, OnceAlways, PTL DEF LinkSpec

(* What the reader writes past the end of message[]: nothing as long as    *)
(* nothing is damaged, because it is in step with the frames and they are  *)
(* short; otherwise at most one byte, because the length is tested against *)
(* 73 while there is room for 72 (IMUSerialPortReader.cpp 47, 62-66).      *)
THEOREM OverrunBounded == LinkSpec => []OverrunIsOneByte
<1>1. LinkTypeOK /\ LinkWhole => OverrunIsOneByte
  <2> SUFFICES ASSUME LinkTypeOK, LinkWhole, pc = "payload"
               PROVE  3 + need <= 76 /\ (faults = 0 => 3 + need <= 75)
    BY DEF OverrunIsOneByte, BufferSize
  <2>1. need \in 0..73
    BY DEF LinkTypeOK, MaxPayload
  <2>2. ASSUME faults = 0 PROVE need <= 28
    <3>1. PICK f \in Frames : need = Size[f.kind]
      BY <2>2 DEF LinkWhole, InStep, Reading
    <3>. QED BY <3>1, FrameKinds
  <2>. QED BY <2>1, <2>2
<1>. QED BY <1>1, LinkTypeCorrect, WholeAlways, PTL

-----------------------------------------------------------------------------
(* The recording script. *)

Everything == Sources \cup {Stop}
WriterPlaces == {"connect", "get", "test", "insert", "last", "close", "ended"}
ReaderPlaces == {"none", "open", "test", "read", "put", "ended"}
MainPlaces == {"setup", "raised", "check", "read", "put", "leave", "join", "stopWriter",
               "joinWriter", "done"}

(* An element taken from the front of one part of a sequence and put at    *)
(* the end of the part before it stays in its place.                       *)
LEMMA MoveHead ==
  ASSUME NEW S, NEW u \in Seq(S), NEW v \in Seq(S), v # <<>>
  PROVE  u \o v = (u \o <<Head(v)>>) \o Tail(v)
<1>1. Head(v) \in S /\ Tail(v) \in Seq(S) /\ <<Head(v)>> \in Seq(S)
  BY HeadTailProperties
<1>2. v = <<Head(v)>> \o Tail(v)
  <2>1. Len(v) \in Nat \ {0}
    BY EmptySeq
  <2>2. /\ SubSeq(v, 1, Len(v)) = v /\ Tail(v) = SubSeq(v, 2, Len(v)) /\ Head(v) = v[1]
    BY <2>1, SubSeqFull, TailIsSubSeq
  <2>3. SubSeq(v, 1, Len(v)) = <<v[1]>> \o SubSeq(v, 1 + 1, Len(v))
    BY <2>1, SubSeqRecursiveFirst
  <2>4. 1 + 1 = 2
    OBVIOUS
  <2>. QED BY <2>2, <2>3, <2>4
<1>3. (u \o <<Head(v)>>) \o Tail(v) = u \o (<<Head(v)>> \o Tail(v))
  BY <1>1, ConcatAssociative
<1>. QED BY <1>2, <1>3

LEMMA HeadOfConcat ==
  ASSUME NEW S, NEW u \in Seq(S), NEW v \in Seq(S), u # <<>>
  PROVE  u \o v # <<>> /\ Head(u \o v) = Head(u) /\ Tail(u \o v) = Tail(u) \o v
<1>1. PICK e \in S : e = Head(u)
  BY HeadTailProperties
<1>2. Tail(u) \in Seq(S) /\ <<e>> \in Seq(S) /\ <<>> \in Seq(S)
  BY HeadTailProperties
<1>3. u = <<e>> \o Tail(u)
  <2>1. <<>> \o u = (<<>> \o <<Head(u)>>) \o Tail(u) /\ <<>> \o u = u
    BY <1>2, MoveHead, ConcatEmptySeq
  <2>2. <<>> \o <<e>> = <<e>>
    BY <1>2, ConcatEmptySeq
  <2>. QED BY <1>1, <2>1, <2>2
<1>4. Tail(u) \o v \in Seq(S) /\ u \o v = <<e>> \o (Tail(u) \o v)
  BY <1>2, <1>3, ConcatAssociative, ConcatProperties
<1>5. \A w \in Seq(S) : <<e>> \o w # <<>> /\ Head(<<e>> \o w) = e /\ Tail(<<e>> \o w) = w
  <2> SUFFICES ASSUME NEW w \in Seq(S)
               PROVE  <<e>> \o w # <<>> /\ Head(<<e>> \o w) = e /\ Tail(<<e>> \o w) = w
    OBVIOUS
  <2>1. /\ <<e>> \o w \in Seq(S) /\ Len(<<e>> \o w) = 1 + Len(w) /\ Len(w) \in Nat
        /\ \A i \in 1..1 + Len(w) : (<<e>> \o w)[i] = IF i <= 1 THEN e ELSE w[i - 1]
    BY <1>2, ConcatProperties, LenProperties
  <2>2. <<e>> \o w # <<>>
    BY <2>1, EmptySeq
  <2>3. /\ Tail(<<e>> \o w) \in Seq(S) /\ Len(Tail(<<e>> \o w)) = Len(w)
        /\ \A i \in 1..Len(w) : Tail(<<e>> \o w)[i] = w[i]
    BY <2>1, <2>2, HeadTailProperties
  <2>4. Tail(<<e>> \o w) = w
    BY <2>3, SeqEqual
  <2>. QED BY <2>1, <2>2, <2>4
<1>. QED BY <1>1, <1>4, <1>5

(* The parts of a sequence, and their order, are seen in the whole. *)
LEMMA Prefix ==
  ASSUME NEW S, NEW u \in Seq(S), NEW v \in Seq(S)
  PROVE  /\ SubSeq(u \o v, 1, Len(u)) = u
         /\ \A i \in Len(u) + 1..Len(u \o v) : (u \o v)[i] \in {v[j] : j \in 1..Len(v)}
<1>1. Len(u) \in Nat /\ Len(v) \in Nat /\ Len(u \o v) = Len(u) + Len(v)
  BY LenProperties, ConcatProperties
<1>2. SubSeq(u \o v, 1, Len(u)) = u
  <2>1. CASE u = <<>>
    BY <1>1, <2>1, EmptySeq, SubSeqEmpty
  <2>2. CASE u # <<>>
    <3>1. Len(u) \in 1..Len(u) /\ 1 \in 1..Len(u)
      BY <1>1, <2>2, EmptySeq
    <3>. QED BY <3>1, SubSeqOfConcat1, SubSeqFull
  <2>. QED BY <2>1, <2>2
<1>3. ASSUME NEW i \in Len(u) + 1..Len(u \o v) PROVE (u \o v)[i] \in {v[j] : j \in 1..Len(v)}
  <2>1. i \in 1..Len(u) + Len(v) /\ ~(i <= Len(u)) /\ i - Len(u) \in 1..Len(v)
    BY <1>1
  <2>2. (u \o v)[i] = v[i - Len(u)]
    BY <2>1, ConcatProperties
  <2>. QED BY <2>1, <2>2
<1>. QED BY <1>2, <1>3

(* The threads and the data they keep, apart from what has been recorded:  *)
(* after the readers have been waited for, one that has not ended is known *)
(* to be abandoned; main ends only after the writer.                       *)
ScriptState ==
  /\ batch \in Seq(Sources) /\ Len(batch) <= BatchSize
  /\ writer \in {"connect", "get"} => Len(batch) < BatchSize
  /\ written \in Seq(Sources) /\ rows = Len(written)
  /\ accepted \in Seq(Sources)
  /\ queue \in Seq(Everything) /\ Len(queue) <= QueueSize
  /\ late \in BOOLEAN /\ failed \in BOOLEAN /\ stopEvent \in BOOLEAN
  /\ writer \in WriterPlaces /\ main \in MainPlaces /\ gps \in [Receivers -> ReaderPlaces]
  /\ exitCode \in 0..1 /\ abandoned \subseteq Receivers
  /\ main \in {"stopWriter", "joinWriter", "done"} =>
       \A r \in Receivers : gps[r] = "ended" \/ r \in abandoned
  /\ main = "done" => writer = "ended"

LEMMA ScriptSets ==
  /\ QueueSize \in Nat \ {0} /\ BatchSize \in Nat \ {0}
  /\ Receivers \subseteq Sources /\ Imu \in Sources
  /\ Sources \subseteq Everything /\ Stop \in Everything
  /\ Stop \notin Sources
BY ArgumentsAssumption DEF Sources, Everything

LEMMA ScriptStateInit ==
  ASSUME ScriptInit PROVE ScriptState
<1>1. <<>> \in Seq(Sources) /\ <<>> \in Seq(Everything) /\ Len(<<>>) = 0
  BY EmptySeq
<1>2. 0 < BatchSize /\ 0 <= BatchSize /\ 0 <= QueueSize
  BY ScriptSets
<1>3. gps \in [Receivers -> ReaderPlaces] /\ writer \in WriterPlaces /\ main \in MainPlaces
  BY DEF ScriptInit, WriterPlaces, MainPlaces, ReaderPlaces
<1>4. batch = <<>> /\ written = <<>> /\ accepted = <<>> /\ queue = <<>>
  BY DEF ScriptInit
<1>5. rows = 0 /\ exitCode = 0 /\ late = FALSE /\ failed = FALSE /\ stopEvent = FALSE
  BY DEF ScriptInit
<1>6. abandoned \subseteq Receivers /\ ~(main \in {"stopWriter", "joinWriter", "done"})
      /\ main # "done"
  BY DEF ScriptInit
<1>7. /\ batch \in Seq(Sources) /\ Len(batch) <= BatchSize /\ Len(batch) < BatchSize
      /\ written \in Seq(Sources) /\ rows = Len(written)
      /\ accepted \in Seq(Sources)
      /\ queue \in Seq(Everything) /\ Len(queue) <= QueueSize
  BY <1>1, <1>2, <1>4, <1>5
<1>8. exitCode \in 0..1
  BY <1>5
<1>9. late \in BOOLEAN /\ failed \in BOOLEAN /\ stopEvent \in BOOLEAN
  BY <1>5, Zenon
<1>. QED BY <1>3, <1>6, <1>7, <1>8, <1>9 DEF ScriptState

(* A measurement put into the queue. *)
LEMMA PutState ==
  ASSUME ScriptState, NEW s \in Sources, Put(s)
  PROVE  /\ accepted' \in Seq(Sources)
         /\ queue' \in Seq(Everything) /\ Len(queue') <= QueueSize
<1>1. s \in Everything /\ QueueSize \in Nat
  BY ScriptSets
<1>2. Len(queue) \in Nat /\ Len(queue) < QueueSize
  BY <1>1, LenProperties DEF ScriptState, Put, Full
<1>3. Len(queue') = Len(queue) + 1 /\ queue' \in Seq(Everything)
  BY <1>1, AppendProperties DEF ScriptState, Put
<1>4. accepted' \in Seq(Sources)
  BY AppendProperties DEF ScriptState, Put
<1>. QED BY <1>1, <1>2, <1>3, <1>4

LEMMA WriterState ==
  ASSUME ScriptState, Writer \/ DeadlinePasses
  PROVE  ScriptState'
<1> USE DEF ScriptState, WriterPlaces, mainVars
<1>1. CASE Connect
  BY <1>1 DEF Connect, WriterFails
<1>2. CASE Get
  <2>1. /\ Head(queue) \in Everything /\ Tail(queue) \in Seq(Everything)
        /\ Len(Tail(queue)) = Len(queue) - 1 /\ Len(queue) \in Nat
    BY <1>2, HeadTailProperties, LenProperties DEF Get
  <2>2. queue' \in Seq(Everything) /\ Len(queue') <= QueueSize
    BY <1>2, <2>1, ScriptSets DEF Get
  <2>3. CASE Head(queue) = Stop
    BY <1>2, <2>2, <2>3 DEF Get
  <2>4. CASE Head(queue) # Stop
    <3>1. Head(queue) \in Sources
      BY <2>1, <2>4 DEF Everything
    <3>2. batch' = Append(batch, Head(queue)) /\ writer = "get" /\ writer' = "test"
      BY <1>2, <2>4 DEF Get
    <3>3. batch' \in Seq(Sources) /\ Len(batch') = Len(batch) + 1 /\ Len(batch) \in Nat
      BY <3>1, <3>2, AppendProperties, LenProperties
    <3>4. Len(batch') <= BatchSize
      BY <3>2, <3>3, ScriptSets
    <3>. QED BY <1>2, <2>2, <3>2, <3>3, <3>4 DEF Get
  <2>. QED BY <2>3, <2>4
<1>3. CASE GetTimesOut
  BY <1>3 DEF GetTimesOut
<1>4. CASE TestBatch
  <2>1. Len(batch) \in Nat /\ BatchSize \in Nat \ {0} /\ Len(<<>>) = 0
    BY LenProperties, EmptySeq, ScriptSets
  <2>2. ~BatchIsDue => Len(batch) < BatchSize
    BY <2>1 DEF BatchIsDue
  <2>. QED BY <1>4, <2>2 DEF TestBatch
<1>5. ASSUME Stored PROVE /\ batch' \in Seq(Sources) /\ Len(batch') < BatchSize
                                 /\ Len(batch') <= BatchSize
                                 /\ written' \in Seq(Sources) /\ rows' = Len(written')
                                 /\ UNCHANGED failed
  <2>1. <<>> \in Seq(Sources) /\ Len(<<>>) = 0 /\ BatchSize \in Nat \ {0}
    BY EmptySeq, ScriptSets
  <2>2. written \o batch \in Seq(Sources) /\ Len(written \o batch) = Len(written) + Len(batch)
    BY ConcatProperties
  <2>. QED BY <1>5, <2>1, <2>2 DEF Stored
<1>6. CASE Insert
  <2>1. CASE Stored /\ writer' = "get" /\ late' = FALSE
    BY <1>5, <1>6, <2>1 DEF Insert
  <2>2. CASE WriterFails /\ UNCHANGED late
    BY <1>6, <2>2 DEF Insert, WriterFails
  <2>. QED BY <1>6, <2>1, <2>2 DEF Insert
<1>7. CASE InsertLast
  <2>1. CASE Stored /\ writer' = "close"
    BY <1>5, <1>7, <2>1 DEF InsertLast
  <2>2. CASE WriterFails
    BY <1>7, <2>2 DEF InsertLast, WriterFails
  <2>. QED BY <1>7, <2>1, <2>2 DEF InsertLast
<1>8. CASE Close
  BY <1>8 DEF Close
<1>9. CASE DeadlinePasses
  BY <1>9 DEF DeadlinePasses
<1>. QED BY <1>1, <1>2, <1>3, <1>4, <1>6, <1>7, <1>8, <1>9 DEF Writer

LEMMA ReaderState ==
  ASSUME ScriptState,
         NEW r \in Receivers, Gps(r) \/ SerialError(r)
  PROVE  ScriptState'
<1> USE DEF GpsGoes, mainVars, writerVars
<1>1. /\ gps' \in [Receivers -> ReaderPlaces]
      /\ \A q \in Receivers : gps[q] = "ended" => gps'[q] = "ended"
      /\ UNCHANGED <<writer, main, batch, failed, rows, late, written, exitCode, abandoned>>
      /\ stopEvent' \in BOOLEAN
  <2>1. gps[r] # "ended"
    BY DEF Gps, GpsOpens, GpsTests, GpsReads, GpsPuts,
           SerialError
  <2>2. PICK next \in ReaderPlaces : gps' = [gps EXCEPT ![r] = next]
    BY DEF Gps, GpsOpens, GpsTests, GpsReads, GpsPuts,
           SerialError, ReaderPlaces
  <2>3. /\ UNCHANGED <<writer, main, batch, failed, rows, late, written, exitCode, abandoned>>
        /\ stopEvent' \in BOOLEAN
    BY DEF Gps, GpsOpens, GpsTests, GpsReads, GpsPuts,
           SerialError, ScriptState
  <2>. QED BY <2>1, <2>2, <2>3 DEF ScriptState
<1>2. CASE UNCHANGED <<queue, accepted>>
  BY <1>1, <1>2 DEF ScriptState
<1>3. CASE Put(r)
  <2>1. r \in Sources
    BY ScriptSets
  <2>2. /\ accepted' \in Seq(Sources)
        /\ queue' \in Seq(Everything) /\ Len(queue') <= QueueSize
    BY <1>3, <2>1, PutState
  <2>. QED BY <1>1, <2>2 DEF ScriptState
<1>. QED BY <1>2, <1>3 DEF Gps, GpsOpens, GpsTests, GpsReads,
                           GpsPuts, SerialError

LEMMA MainState ==
  ASSUME ScriptState, Main \/ Interrupt
  PROVE  ScriptState'
<1> USE DEF MainGoes, Leaves, writerVars
<1>1. CASE Setup
  BY <1>1 DEF Setup, ScriptState, MainPlaces, ReaderPlaces
<1>2. CASE CheckWriter \/ ReadLine \/ Interrupt
  BY <1>2 DEF CheckWriter, ReadLine, Interrupt, ScriptState, MainPlaces
<1>3. CASE PutMeasurement
  <2>1. CASE Put(Imu) /\ MainGoes("check")
    <3>1. /\ accepted' \in Seq(Sources)
          /\ queue' \in Seq(Everything) /\ Len(queue') <= QueueSize
      BY <2>1, PutState, ScriptSets
    <3>. QED BY <1>3, <2>1, <3>1 DEF PutMeasurement, ScriptState, MainPlaces
  <2>2. CASE Full /\ Leaves(1) /\ UNCHANGED <<queue, accepted>>
    BY <1>3, <2>2 DEF PutMeasurement, ScriptState, MainPlaces
  <2>. QED BY <1>3, <2>1, <2>2 DEF PutMeasurement
<1>4. CASE AskToStop
  BY <1>4 DEF AskToStop, ScriptState, MainPlaces
<1>5. CASE Join
  BY <1>5 DEF Join, ScriptState, MainPlaces
<1>6. CASE PutStop
  <2>1. queue' \in Seq(Everything) /\ Len(queue') <= QueueSize
    <3>1. CASE UNCHANGED queue
      BY <3>1 DEF ScriptState
    <3>2. CASE ~Full /\ queue' = Append(queue, Stop)
      <4>1. Stop \in Everything /\ QueueSize \in Nat
        BY ScriptSets
      <4>2. Len(queue) \in Nat /\ Len(queue) < QueueSize
        BY <3>2, <4>1, LenProperties DEF ScriptState, Full
      <4>3. Len(queue') = Len(queue) + 1 /\ queue' \in Seq(Everything)
        BY <3>2, <4>1, AppendProperties DEF ScriptState
      <4>. QED BY <4>1, <4>2, <4>3
    <3>. QED BY <1>6, <3>1, <3>2 DEF PutStop
  <2>. QED BY <1>6, <2>1 DEF PutStop, ScriptState, MainPlaces
<1>7. CASE JoinWriter
  BY <1>7 DEF JoinWriter, ScriptState, MainPlaces
<1>. QED BY <1>1, <1>2, <1>3, <1>4, <1>5, <1>6, <1>7 DEF Main, Leaving

LEMMA ScriptStateStep ==
  ASSUME ScriptState, [ScriptNext]_scriptVars
  PROVE  ScriptState'
<1>1. CASE UNCHANGED scriptVars
  BY <1>1 DEF scriptVars, writerVars, mainVars, ScriptState
<1>. QED BY <1>1, WriterState, ReaderState, MainState DEF ScriptNext

(* Where the measurements are that have been put: in the database, in the  *)
(* batch, or in the queue, in this order.  Before the sentinel is put they *)
(* come from anybody; behind it, from abandoned readers only; and once it  *)
(* has been taken nothing more is inserted than the rest of the batch.     *)
(* By then main has waited for the readers: one still alive is abandoned.  *)
Waited ==
  /\ main \in {"joinWriter", "done", "raised"}
  /\ \A r \in Receivers : gps[r] = "ended" \/ r \in abandoned

NoSentinel ==
  /\ queue \in Seq(Sources) /\ accepted = (written \o batch) \o queue
  /\ writer # "last" /\ (writer \in {"close", "ended"} => failed)

SentinelAfter(a, b) ==
  /\ Waited
  /\ queue = (a \o <<Stop>>) \o b /\ accepted = (written \o batch) \o (a \o b)
  /\ writer # "last" /\ (writer \in {"close", "ended"} => failed)

SentinelTaken ==
  /\ Waited /\ writer \in {"last", "close", "ended"}
  /\ queue \in Seq(abandoned) /\ accepted = (written \o batch) \o queue
  /\ writer \in {"close", "ended"} /\ ~failed => batch = <<>>

Recorded ==
  \/ NoSentinel
  \/ \E a \in Seq(Sources), b \in Seq(abandoned) : SentinelAfter(a, b)
  \/ SentinelTaken

LEMMA RecordedInit ==
  ASSUME ScriptInit PROVE Recorded
<1>1. <<>> \in Seq(Sources) /\ (<<>> \o <<>>) \o <<>> = <<>>
  BY EmptySeq, ConcatEmptySeq
<1>2. NoSentinel
  BY <1>1 DEF ScriptInit, NoSentinel
<1>. QED BY <1>2 DEF Recorded

(* Steps that touch neither the records nor the places that matter. *)
LEMMA RecordedFrame ==
  ASSUME Recorded, UNCHANGED <<queue, accepted, written, batch>>,
         Waited => UNCHANGED abandoned /\ Waited',
         failed => failed',
         \/ writer' = writer
         \/ writer = "close" /\ writer' = "ended" /\ (batch = <<>> \/ UNCHANGED failed)
         \/ writer \notin {"last", "close", "ended"} /\ writer' \notin {"last", "close", "ended"}
         \/ writer' = "close" /\ failed'
  PROVE  Recorded'
<1>1. CASE NoSentinel
  <2>1. NoSentinel'
    BY <1>1 DEF NoSentinel
  <2>. QED BY <2>1 DEF Recorded
<1>2. ASSUME NEW a \in Seq(Sources), NEW b \in Seq(abandoned), SentinelAfter(a, b)
      PROVE  Recorded'
  <2>1. b \in Seq(abandoned') /\ SentinelAfter(a, b)'
    BY <1>2 DEF SentinelAfter
  <2>. QED BY <2>1 DEF Recorded
<1>3. CASE SentinelTaken
  <2>1. SentinelTaken'
    BY <1>3 DEF SentinelTaken
  <2>. QED BY <2>1 DEF Recorded
<1>. QED BY <1>1, <1>2, <1>3 DEF Recorded

(* A measurement that is put: by anybody before the sentinel, and behind   *)
(* it only by an abandoned reader.                                         *)
LEMMA RecordedPut ==
  ASSUME ScriptState, Recorded,
         NEW s \in Sources, Put(s), UNCHANGED <<written, batch, failed, writer>>,
         \/ ~Waited
         \/ s \in abandoned /\ UNCHANGED abandoned /\ Waited'
  PROVE  Recorded'
<1>1. /\ <<s>> \in Seq(Sources) /\ <<s>> \in Seq(Everything)
      /\ <<Stop>> \in Seq(Everything) /\ abandoned \subseteq Sources
  BY ScriptSets DEF ScriptState
<1>2. queue' = queue \o <<s>> /\ accepted' = accepted \o <<s>>
  <2>1. /\ queue' = Append(queue, s) /\ accepted' = Append(accepted, s)
        /\ queue \in Seq(Everything) /\ accepted \in Seq(Sources)
        /\ s \in Everything
    BY ScriptSets DEF ScriptState, Put
  <2>. QED BY <2>1, AppendIsConcat
<1>3. PICK w \in Seq(Sources) : w = written \o batch
  BY ConcatProperties DEF ScriptState
<1>4. CASE NoSentinel
  <2>1. queue \in Seq(Sources) /\ accepted = w \o queue
    BY <1>3, <1>4 DEF NoSentinel
  <2>2. (w \o queue) \o <<s>> = w \o (queue \o <<s>>) /\ queue \o <<s>> \in Seq(Sources)
    BY <1>1, <2>1, ConcatAssociative, ConcatProperties
  <2>3. NoSentinel'
    BY <1>2, <1>3, <1>4, <2>1, <2>2 DEF NoSentinel
  <2>. QED BY <2>3 DEF Recorded
<1>5. ASSUME NEW a \in Seq(Sources), NEW b \in Seq(abandoned), SentinelAfter(a, b)
      PROVE  Recorded'
  <2>1. s \in abandoned /\ UNCHANGED abandoned /\ Waited'
    BY <1>5 DEF SentinelAfter
  <2>2. /\ b \in Seq(Sources) /\ b \in Seq(Everything) /\ a \in Seq(Everything)
        /\ <<s>> \in Seq(abandoned)
    BY <1>1, <2>1, SeqMonotonic, ScriptSets
  <2>3. b \o <<s>> \in Seq(abandoned)
    BY <2>2, ConcatProperties
  <2>4. queue' = (a \o <<Stop>>) \o (b \o <<s>>)
    <3>1. a \o <<Stop>> \in Seq(Everything)
      BY <1>1, <2>2, ConcatProperties
    <3>2. ((a \o <<Stop>>) \o b) \o <<s>> = (a \o <<Stop>>) \o (b \o <<s>>)
      BY <1>1, <2>2, <3>1, ConcatAssociative
    <3>. QED BY <1>2, <1>5, <3>2 DEF SentinelAfter
  <2>5. accepted' = (written \o batch) \o (a \o (b \o <<s>>))
    <3>1. PICK c \in Seq(Sources) : c = a \o b
      BY <2>2, ConcatProperties
    <3>2. (w \o c) \o <<s>> = w \o (c \o <<s>>)
      BY <1>1, ConcatAssociative
    <3>3. (a \o b) \o <<s>> = a \o (b \o <<s>>)
      BY <1>1, <2>2, ConcatAssociative
    <3>. QED BY <1>2, <1>3, <1>5, <3>1, <3>2, <3>3 DEF SentinelAfter
  <2>6. SentinelAfter(a, b \o <<s>>)'
    BY <1>5, <2>1, <2>4, <2>5 DEF SentinelAfter
  <2>. QED BY <2>1, <2>3, <2>6 DEF Recorded
<1>6. CASE SentinelTaken
  <2>1. s \in abandoned /\ UNCHANGED abandoned /\ Waited'
    BY <1>6 DEF SentinelTaken
  <2>2. queue \in Seq(abandoned) /\ accepted = w \o queue /\ queue \in Seq(Sources)
    BY <1>1, <1>3, <1>6, SeqMonotonic DEF SentinelTaken
  <2>3. queue \o <<s>> \in Seq(abandoned) /\ (w \o queue) \o <<s>> = w \o (queue \o <<s>>)
    <3>1. <<s>> \in Seq(abandoned)
      BY <2>1
    <3>. QED BY <1>1, <2>2, <3>1, ConcatAssociative, ConcatProperties
  <2>4. SentinelTaken'
    BY <1>2, <1>3, <1>6, <2>1, <2>2, <2>3 DEF SentinelTaken
  <2>. QED BY <2>4 DEF Recorded
<1>. QED BY <1>4, <1>5, <1>6 DEF Recorded

(* What the writer takes from the queue goes to the end of its batch. *)
LEMMA TakenInPlace ==
  ASSUME ScriptState, NEW q \in Seq(Sources), q # <<>>
  PROVE  (written \o batch) \o q = (written \o Append(batch, Head(q))) \o Tail(q)
<1>1. PICK w \in Seq(Sources) : w = written \o batch
  BY ConcatProperties DEF ScriptState
<1>2. /\ written \in Seq(Sources) /\ batch \in Seq(Sources)
      /\ Head(q) \in Sources /\ <<Head(q)>> \in Seq(Sources)
  BY HeadTailProperties DEF ScriptState
<1>3. w \o q = (w \o <<Head(q)>>) \o Tail(q)
  BY MoveHead
<1>4. (written \o batch) \o <<Head(q)>> = written \o (batch \o <<Head(q)>>)
  BY <1>2, ConcatAssociative
<1>5. batch \o <<Head(q)>> = Append(batch, Head(q))
  BY <1>2, AppendIsConcat
<1>. QED BY <1>1, <1>3, <1>4, <1>5

LEMMA RecordedGet ==
  ASSUME ScriptState, Recorded, Get
  PROVE  Recorded'
<1>1. /\ queue # <<>> /\ queue' = Tail(queue) /\ writer = "get"
      /\ UNCHANGED <<failed, written, abandoned, accepted>> /\ (Waited => Waited')
      /\ Stop \notin Sources /\ abandoned \subseteq Sources
  BY ScriptSets DEF Get, mainVars, ScriptState, Waited
<1>2. CASE NoSentinel
  <2>1. Head(queue) \in Sources /\ queue' \in Seq(Sources)
    BY <1>1, <1>2, HeadTailProperties DEF NoSentinel
  <2>2. writer' = "test" /\ batch' = Append(batch, Head(queue))
    BY <1>1, <2>1 DEF Get
  <2>3. accepted' = (written' \o batch') \o queue'
    BY <1>1, <1>2, <2>2, TakenInPlace DEF NoSentinel
  <2>4. NoSentinel'
    BY <2>1, <2>2, <2>3 DEF NoSentinel
  <2>. QED BY <2>4 DEF Recorded
<1>3. ASSUME NEW a \in Seq(Sources), NEW b \in Seq(abandoned), SentinelAfter(a, b)
      PROVE  Recorded'
  <2>1. /\ b \in Seq(Sources) /\ b \in Seq(Everything) /\ a \in Seq(Everything)
        /\ Stop \in Everything
    BY <1>1, SeqMonotonic, ScriptSets
  <2>20. <<Stop>> \in Seq(Everything) /\ Head(<<Stop>>) = Stop
        /\ <<Stop>> # <<>> /\ Tail(<<Stop>>) = <<>>
    BY <2>1
  <2>21. queue = (a \o <<Stop>>) \o b
    BY <1>3 DEF SentinelAfter
  <2>2. CASE a = <<>>
    <3>1. queue = <<Stop>> \o b
      BY <2>2, <2>20, <2>21, ConcatEmptySeq
    <3>2. Head(queue) = Stop /\ Tail(queue) = b
      <4>1. Head(queue) = Stop /\ Tail(queue) = <<>> \o b
        BY <2>1, <2>20, <3>1, HeadOfConcat
      <4>. QED BY <2>1, <4>1, ConcatEmptySeq
    <3>3. writer' = "last" /\ batch' = batch
      BY <1>1, <3>2 DEF Get
    <3>4. a \o b = b
      BY <2>1, <2>2, ConcatEmptySeq
    <3>5. SentinelTaken'
      BY <1>1, <1>3, <3>2, <3>3, <3>4 DEF SentinelAfter, SentinelTaken
    <3>. QED BY <3>5 DEF Recorded
  <2>3. CASE a # <<>>
    <3>1. /\ Head(a) \in Sources /\ Tail(a) \in Seq(Sources)
      BY <2>3, HeadTailProperties
    <3>2. /\ a \o <<Stop>> \in Seq(Everything) /\ a \o <<Stop>> # <<>>
          /\ Head(a \o <<Stop>>) = Head(a)
          /\ Tail(a \o <<Stop>>) = Tail(a) \o <<Stop>>
      BY <2>1, <2>3, <2>20, HeadOfConcat, ConcatProperties
    <3>3. /\ Head(queue) = Head(a) /\ Tail(queue) = (Tail(a) \o <<Stop>>) \o b
      <4>1. PICK c \in Seq(Everything) : c = a \o <<Stop>> /\ c # <<>>
        BY <3>2
      <4>2. Head(c \o b) = Head(c) /\ Tail(c \o b) = Tail(c) \o b
        BY <2>1, <4>1, HeadOfConcat
      <4>. QED BY <2>21, <3>2, <4>1, <4>2
    <3>4. writer' = "test" /\ batch' = Append(batch, Head(a))
      BY <1>1, <3>1, <3>3 DEF Get
    <3>5. accepted' = (written' \o batch') \o (Tail(a) \o b)
      <4>1. /\ a \o b \in Seq(Sources) /\ a \o b # <<>>
            /\ Head(a \o b) = Head(a) /\ Tail(a \o b) = Tail(a) \o b
        BY <2>1, <2>3, HeadOfConcat, ConcatProperties
      <4>2. (written \o batch) \o (a \o b)
              = (written \o Append(batch, Head(a \o b))) \o Tail(a \o b)
        BY <4>1, TakenInPlace
      <4>. QED BY <1>1, <1>3, <3>4, <4>1, <4>2 DEF SentinelAfter
    <3>6. SentinelAfter(Tail(a), b)'
      BY <1>1, <1>3, <3>3, <3>4, <3>5 DEF SentinelAfter
    <3>. QED BY <1>1, <3>1, <3>6 DEF Recorded
  <2>. QED BY <2>2, <2>3
<1>4. CASE SentinelTaken
  BY <1>1, <1>4 DEF SentinelTaken
<1>. QED BY <1>2, <1>3, <1>4 DEF Recorded

(* A batch that is stored is out of the way. *)
LEMMA RecordedStored ==
  ASSUME ScriptState, Recorded, Stored,
         UNCHANGED <<queue, accepted, main, abandoned, gps>>,
         \/ writer = "insert" /\ writer' = "get"
         \/ writer = "last" /\ writer' = "close"
  PROVE  Recorded'
<1>1. written' \o batch' = written \o batch /\ batch' = <<>> /\ UNCHANGED failed
  <2>1. written \o batch \in Seq(Sources)
    BY ConcatProperties DEF ScriptState
  <2>. QED BY <2>1, ConcatEmptySeq DEF Stored
<1>0. Waited => Waited'
  BY DEF Waited
<1>2. CASE NoSentinel
  <2>1. NoSentinel'
    BY <1>1, <1>2 DEF NoSentinel
  <2>. QED BY <2>1 DEF Recorded
<1>3. ASSUME NEW a \in Seq(Sources), NEW b \in Seq(abandoned), SentinelAfter(a, b)
      PROVE  Recorded'
  <2>1. SentinelAfter(a, b)'
    BY <1>1, <1>3, <1>0 DEF SentinelAfter
  <2>. QED BY <2>1 DEF Recorded
<1>4. CASE SentinelTaken
  <2>1. SentinelTaken'
    BY <1>1, <1>4, <1>0 DEF SentinelTaken
  <2>. QED BY <2>1 DEF Recorded
<1>. QED BY <1>2, <1>3, <1>4 DEF Recorded

LEMMA RecordedByWriter ==
  ASSUME ScriptState, Recorded, Writer \/ DeadlinePasses
  PROVE  Recorded'
<1> USE DEF mainVars, Waited
<1>1. CASE Connect
  BY <1>1, RecordedFrame DEF Connect, WriterFails
<1>2. CASE Get
  BY <1>2, RecordedGet
<1>3. CASE GetTimesOut
  BY <1>3, RecordedFrame DEF GetTimesOut
<1>4. CASE TestBatch
  <2>1. writer' \notin {"last", "close", "ended"} /\ writer = "test"
    BY <1>4 DEF TestBatch
  <2>. QED BY <1>4, <2>1, RecordedFrame DEF TestBatch
<1>5. CASE Insert
  <2>1. CASE Stored /\ writer' = "get"
    BY <1>5, <2>1, RecordedStored DEF Insert
  <2>2. CASE WriterFails
    BY <1>5, <2>2, RecordedFrame DEF Insert, WriterFails
  <2>. QED BY <1>5, <2>1, <2>2 DEF Insert
<1>6. CASE InsertLast
  <2>1. CASE Stored /\ writer' = "close"
    BY <1>6, <2>1, RecordedStored DEF InsertLast
  <2>2. CASE WriterFails
    BY <1>6, <2>2, RecordedFrame DEF InsertLast, WriterFails
  <2>. QED BY <1>6, <2>1, <2>2 DEF InsertLast
<1>7. CASE Close
  <2>1. batch = <<>> \/ UNCHANGED failed
    BY <1>7 DEF Close
  <2>. QED BY <1>7, <2>1, RecordedFrame DEF Close
<1>8. CASE DeadlinePasses
  BY <1>8, RecordedFrame DEF DeadlinePasses
<1>. QED BY <1>1, <1>2, <1>3, <1>4, <1>5, <1>6, <1>7, <1>8 DEF Writer

LEMMA RecordedByReader ==
  ASSUME ScriptState, Recorded,
         NEW r \in Receivers, Gps(r) \/ SerialError(r)
  PROVE  Recorded'
<1> USE DEF GpsGoes, mainVars, writerVars
<1>1. CASE GpsPuts(r) /\ Put(r)
  <2>1. Waited => r \in abandoned /\ Waited'
    BY <1>1 DEF GpsPuts, Waited, ScriptState
  <2>2. r \in Sources
    BY ScriptSets
  <2>3. UNCHANGED <<written, batch, failed, writer, abandoned>>
    BY <1>1 DEF GpsPuts
  <2>. QED BY <1>1, <2>1, <2>2, <2>3, RecordedPut
<1>2. CASE UNCHANGED <<queue, accepted>>
  <2>1. UNCHANGED <<written, batch, failed, writer, abandoned>>
    BY DEF Gps, GpsOpens, GpsTests, GpsReads, GpsPuts,
           SerialError
  <2>2. Waited => Waited'
    BY DEF Gps, GpsOpens, GpsTests, GpsReads, GpsPuts,
           SerialError, Waited, ScriptState
  <2>. QED BY <1>2, <2>1, <2>2, RecordedFrame
<1>. QED BY <1>1, <1>2 DEF Gps, GpsOpens, GpsTests, GpsReads,
                           GpsPuts, SerialError

LEMMA RecordedByMain ==
  ASSUME ScriptState, Recorded, Main \/ Interrupt
  PROVE  Recorded'
<1> USE DEF MainGoes, Leaves, writerVars
<1>1. CASE Setup \/ CheckWriter \/ ReadLine \/ Interrupt
           \/ AskToStop \/ Join
  <2>1. UNCHANGED <<queue, accepted, written, batch, failed, writer>>
    BY <1>1 DEF Setup, CheckWriter, ReadLine, Interrupt,
                AskToStop, Join
  <2>2. Waited => UNCHANGED abandoned /\ Waited'
    BY <1>1 DEF Setup, CheckWriter, ReadLine, Interrupt,
                AskToStop, Join, Waited
  <2>. QED BY <2>1, <2>2, RecordedFrame
<1>2. CASE PutMeasurement
  <2>1. UNCHANGED <<written, batch, failed, writer>> /\ ~Waited
    BY <1>2 DEF PutMeasurement, Waited
  <2>2. CASE Put(Imu)
    BY <2>1, <2>2, RecordedPut, ScriptSets
  <2>3. CASE UNCHANGED <<queue, accepted>>
    BY <2>1, <2>3, RecordedFrame
  <2>. QED BY <1>2, <2>2, <2>3 DEF PutMeasurement
<1>3. CASE PutStop
  <2>1. /\ UNCHANGED <<accepted, written, batch, failed, writer, abandoned>>
        /\ ~Waited /\ Waited'
    BY <1>3 DEF PutStop, Waited, ScriptState
  <2>2. CASE UNCHANGED queue
    BY <2>1, <2>2, RecordedFrame
  <2>3. CASE writer # "ended" /\ queue' = Append(queue, Stop)
    <3>1. NoSentinel
      BY <2>1 DEF Recorded, SentinelAfter, SentinelTaken
    <3>2. PICK q \in Seq(Sources) : q = queue /\ accepted = (written \o batch) \o q
      BY <3>1 DEF NoSentinel
    <3>3. /\ queue \in Seq(Everything) /\ Stop \in Everything
          /\ <<Stop>> \in Seq(Everything)
      BY ScriptSets DEF ScriptState
    <3>4. queue' = (q \o <<Stop>>) \o <<>>
      <4>1. queue' = q \o <<Stop>> /\ q \o <<Stop>> \in Seq(Everything)
        BY <2>3, <3>2, <3>3, AppendIsConcat, ConcatProperties
      <4>. QED BY <4>1, ConcatEmptySeq
    <3>5. q \o <<>> = q /\ <<>> \in Seq(abandoned')
      BY <3>2, ConcatEmptySeq, EmptySeq
    <3>6. SentinelAfter(q, <<>>)'
      BY <2>1, <3>1, <3>2, <3>4, <3>5 DEF SentinelAfter, NoSentinel
    <3>. QED BY <3>2, <3>5, <3>6 DEF Recorded
  <2>. QED BY <1>3, <2>2, <2>3 DEF PutStop
<1>4. CASE JoinWriter
  <2>1. /\ UNCHANGED <<queue, accepted, written, batch, failed, writer, abandoned>>
        /\ Waited => Waited'
    BY <1>4 DEF JoinWriter, Waited
  <2>. QED BY <2>1, RecordedFrame
<1>. QED BY <1>1, <1>2, <1>3, <1>4 DEF Main, Leaving

LEMMA RecordedStep ==
  ASSUME ScriptState, Recorded, [ScriptNext]_scriptVars
  PROVE  Recorded'
<1>1. CASE UNCHANGED scriptVars
  BY <1>1, RecordedFrame DEF scriptVars, writerVars, mainVars, Waited
<1>. QED BY <1>1, RecordedByWriter, RecordedByReader, RecordedByMain DEF ScriptNext

LEMMA RecordedAlways ==
  ScriptSpec => [](ScriptState /\ Recorded)
<1>1. ScriptInit => ScriptState /\ Recorded
  BY ScriptStateInit, RecordedInit
<1>2. ScriptState /\ Recorded /\ [ScriptNext]_scriptVars => (ScriptState /\ Recorded)'
  BY ScriptStateStep, RecordedStep
<1>. QED BY <1>1, <1>2, PTL DEF ScriptSpec

(* Type correctness of the script's threads and queue; neither the queue   *)
(* nor a batch outgrows the size given for it (test.py 393, 482-483).  *)
THEOREM RecorderTypeCorrect ==
  ScriptSpec => []ScriptTypeOK
<1>1. ScriptState => ScriptTypeOK
  <2> SUFFICES ASSUME ScriptState PROVE ScriptTypeOK
    OBVIOUS
  <2>1. rows \in Nat
    BY LenProperties DEF ScriptState
  <2>. QED BY <2>1 DEF ScriptState, ScriptTypeOK, Everything, WriterPlaces, MainPlaces, ReaderPlaces
<1>. QED BY <1>1, RecordedAlways, PTL

(* For any receivers and sizes: a recording that ends without an error of  *)
(* the writer has written, in order, everything that was put before the    *)
(* sentinel; what is missing was put behind it by readers that main did    *)
(* not wait for to their end (439-457, 578-592).                           *)
THEOREM RecordingComplete ==
  ScriptSpec => []StopWritesAll
<1>1. ScriptState /\ Recorded => StopWritesAll
  <2> SUFFICES ASSUME ScriptState, Recorded, main = "done", ~failed
               PROVE  /\ rows = Len(written)
                      /\ written = SubSeq(accepted, 1, Len(written))
                      /\ \A i \in Len(written) + 1..Len(accepted) : accepted[i] \in abandoned
    BY DEF StopWritesAll
  <2>1. SentinelTaken /\ batch = <<>>
    BY DEF ScriptState, Recorded, NoSentinel, SentinelAfter, SentinelTaken
  <2>2. /\ written \in Seq(Sources) /\ queue \in Seq(abandoned)
        /\ queue \in Seq(Sources) /\ accepted = written \o queue
    <3>1. abandoned \subseteq Sources
      BY ScriptSets DEF ScriptState
    <3>. QED BY <2>1, <3>1, SeqMonotonic, ConcatEmptySeq DEF SentinelTaken, ScriptState
  <2>3. /\ SubSeq(written \o queue, 1, Len(written)) = written
        /\ \A i \in Len(written) + 1..Len(written \o queue) :
             (written \o queue)[i] \in {queue[j] : j \in 1..Len(queue)}
    BY <2>2, Prefix
  <2>4. {queue[j] : j \in 1..Len(queue)} \subseteq abandoned
    BY <2>2, ElementOfSeq
  <2>. QED BY <2>2, <2>3, <2>4 DEF ScriptState
<1>. QED BY <1>1, RecordedAlways, PTL

(* The rows of a batch are the next records of the log. *)
LEMMA BatchIsNext ==
  ASSUME ScriptState, Recorded
  PROVE  /\ Len(batch) \in 0..(Len(accepted) - Len(written))
         /\ batch = Log!NextBatch(Len(batch))
<1>1. PICK rest \in Seq(Sources) : accepted = (written \o batch) \o rest
  <2>1. abandoned \subseteq Sources
    BY ScriptSets DEF ScriptState
  <2>2. ASSUME NEW a \in Seq(Sources), NEW b \in Seq(abandoned), SentinelAfter(a, b)
        PROVE  a \o b \in Seq(Sources) /\ accepted = (written \o batch) \o (a \o b)
    BY <2>1, <2>2, SeqMonotonic, ConcatProperties DEF SentinelAfter
  <2>. QED BY <2>1, <2>2, SeqMonotonic DEF Recorded, NoSentinel, SentinelTaken
<1>2. written \in Seq(Sources) /\ batch \in Seq(Sources)
  BY DEF ScriptState
<1>3. Len(written) \in Nat /\ Len(batch) \in Nat /\ Len(rest) \in Nat
  BY <1>2, LenProperties
<1>4. PICK w \in Seq(Sources) : w = batch \o rest
  BY <1>2, ConcatProperties
<1>5. accepted = written \o w /\ Len(w) = Len(batch) + Len(rest)
      /\ Len(accepted) = Len(written) + Len(w)
  BY <1>1, <1>2, <1>4, ConcatAssociative, ConcatProperties
<1>6. Len(batch) \in 0..(Len(accepted) - Len(written))
  BY <1>3, <1>5
<1>7. SubSeq(accepted, Len(written) + 1, Len(written) + Len(batch)) = batch
  <2>1. CASE batch = <<>>
    <3>1. Len(written) + Len(batch) < Len(written) + 1
      BY <1>3, <2>1, EmptySeq
    <3>2. Len(written) + 1 \in Int /\ Len(written) + Len(batch) \in Int
      BY <1>3
    <3>. QED BY <2>1, <3>1, <3>2, SubSeqEmpty
  <2>2. CASE batch # <<>>
    <3>1. /\ Len(batch) >= 1 /\ Len(written) + 1 \in Len(written) + 1..Len(written) + Len(w)
          /\ Len(written) + Len(batch) \in Len(written) + 1..Len(written) + Len(w)
          /\ Len(written) + 1 - Len(written) = 1 /\ Len(written) + Len(batch) - Len(written) = Len(batch)
          /\ 1 \in 1..Len(batch) /\ Len(batch) \in 1..Len(batch)
      BY <1>2, <1>3, <1>5, <2>2, EmptySeq
    <3>2. SubSeq(written \o w, Len(written) + 1, Len(written) + Len(batch)) = SubSeq(w, 1, Len(batch))
      BY <1>2, <3>1, SubSeqOfConcat2
    <3>3. SubSeq(w, 1, Len(batch)) = SubSeq(batch, 1, Len(batch))
      BY <1>2, <1>4, <3>1, SubSeqOfConcat1
    <3>4. SubSeq(batch, 1, Len(batch)) = batch
      BY <1>2, SubSeqFull
    <3>. QED BY <1>5, <3>2, <3>3, <3>4
  <2>. QED BY <2>1, <2>2
<1>. QED BY <1>6, <1>7 DEF Log!NextBatch

LEMMA StoredImplements ==
  ASSUME ScriptState, Recorded, Stored, UNCHANGED accepted
  PROVE  [Log!Next]_(Log!vars)
<1>1. written \in Seq(Sources) /\ batch \in Seq(Sources)
  BY DEF ScriptState
<1>2. written' = written \o batch /\ Len(written') = Len(written) + Len(batch)
  BY <1>1, ConcatProperties DEF Stored
<1>3. CASE batch = <<>>
  <2>1. UNCHANGED written
    BY <1>1, <1>2, <1>3, ConcatEmptySeq
  <2>. QED BY <2>1 DEF Log!vars
<1>4. CASE batch # <<>>
  <2>1. /\ Len(batch) \in 1..(Len(accepted) - Len(written))
        /\ batch = Log!NextBatch(Len(batch))
    BY <1>1, <1>4, BatchIsNext, EmptySeq
  <2>2. Log!Store(Len(batch))
    BY <1>2, <2>1 DEF Log!Store
  <2>. QED BY <2>1, <2>2 DEF Log!Next
<1>. QED BY <1>3, <1>4

(* The script implements the record log, as the logger of the host does:   *)
(* measurements are stored in the order of their acceptance, whole batches *)
(* at a time and none twice.                                               *)
THEOREM ScriptImplementsLog ==
  ScriptSpec => ImplementsLog
<1>1. ScriptInit => Log!Init
  BY EmptySeq DEF ScriptInit, Log!Init
<1>2. ScriptState /\ Recorded /\ [ScriptNext]_scriptVars => [Log!Next]_(Log!vars)
  <2> SUFFICES ASSUME ScriptState, Recorded, [ScriptNext]_scriptVars
               PROVE  [Log!Next]_(Log!vars)
    OBVIOUS
  <2>1. ASSUME NEW s \in Sources, Put(s), UNCHANGED written
        PROVE  Log!Next
    BY <2>1 DEF Put, Log!Next, Log!Accept
  <2>2. CASE UNCHANGED <<accepted, written>>
    BY <2>2 DEF Log!vars
  <2>3. CASE Writer \/ DeadlinePasses
    <3>1. \/ UNCHANGED <<accepted, written>>
          \/ Stored /\ UNCHANGED accepted
      BY <2>3 DEF Writer, DeadlinePasses, Connect, WriterFails, Get,
                  GetTimesOut, TestBatch, Insert, InsertLast, Close
    <3>. QED BY <2>2, <3>1, StoredImplements
  <2>4. ASSUME NEW r \in Receivers, Gps(r) \/ SerialError(r)
        PROVE  [Log!Next]_(Log!vars)
    <3>1. UNCHANGED <<accepted, written>> \/ (Put(r) /\ UNCHANGED written)
      BY <2>4 DEF Gps, GpsOpens, GpsTests, GpsReads, GpsPuts,
                  SerialError, writerVars
    <3>. QED BY <2>1, <2>2, <3>1, ScriptSets
  <2>5. CASE Main \/ Interrupt
    <3>1. UNCHANGED <<accepted, written>> \/ (Put(Imu) /\ UNCHANGED written)
      BY <2>5 DEF Main, Leaving, Interrupt, Setup, CheckWriter,
                  ReadLine, PutMeasurement, AskToStop, Join,
                  PutStop, JoinWriter, writerVars
    <3>. QED BY <2>1, <2>2, <3>1, ScriptSets
  <2>6. CASE UNCHANGED scriptVars
    BY <2>2, <2>6 DEF scriptVars, writerVars
  <2>. QED BY <2>3, <2>4, <2>5, <2>6 DEF ScriptNext
<1>. QED BY <1>1, <1>2, RecordedAlways, PTL DEF ScriptSpec, ImplementsLog, Log!Spec

-----------------------------------------------------------------------------
(* The checksum.  The register of crc.c simulates a division of             *)
(* polynomials: when k bytes have entered it, what is left of the dividend  *)
(* is the register, as many places up as there are bits to come, and the    *)
(* bytes to come.  Each bit shifted out is one coefficient removed.         *)
(*                                                                         *)
(* Recursive functions are unfolded once a function with their equation is  *)
(* known to exist; facts for every index follow from the least index for    *)
(* which they would fail.                                                   *)

LEMMA LeastIs ==
  ASSUME NEW T, T \subseteq Nat, T # {}
  PROVE  \E x \in T : \A y \in T : ~(y < x)
<1>1. IsWellFoundedOn(OpToRel(<, Nat), Nat)
  BY NatLessThanWellFounded
<1>2. PICK R : R = OpToRel(<, Nat)
  OBVIOUS
<1>3. \E x \in T : \A y \in T : ~ (<<y, x>> \in R)
  BY <1>1, <1>2, WFMin
<1>4. \A x, y \in Nat : <<y, x>> \in R <=> y < x
  BY <1>2 DEF OpToRel
<1>. QED BY <1>3, <1>4

LEMMA Induction ==
  ASSUME NEW T, 0 \in T, \A n \in Nat : n \in T => n + 1 \in T
  PROVE  \A n \in Nat : n \in T
<1> SUFFICES ASSUME NEW n \in Nat, n \notin T PROVE FALSE
  OBVIOUS
<1>1. PICK x \in Nat \ T : \A y \in Nat \ T : ~(y < x)
  BY LeastIs
<1>2. x # 0 /\ x \in Nat /\ x - 1 \in Nat /\ x - 1 < x /\ (x - 1) + 1 = x
  BY <1>1
<1>3. x - 1 \in T
  BY <1>1, <1>2
<1>. QED BY <1>1, <1>2, <1>3

(* g[n] is what the first n of the steps F make of a. *)
Steps(F, S) == F \in [Nat -> [S -> S]]
Iterated(g, S, a, F, m) ==
  g \in [0..m -> S] /\ g[0] = a /\ \A n \in 1..m : g[n] = F[n][g[n - 1]]

LEMMA Iterates ==
  ASSUME NEW S, NEW a \in S, NEW F, NEW m \in Nat, Steps(F, S)
  PROVE  \E g : Iterated(g, S, a, F, m)
<1> DEFINE Has(n) == \E g : Iterated(g, S, a, F, n)
<1> DEFINE T == {n \in Nat : Has(n)}
<1>1. Has(0)
  <2>1. [j \in 0..0 |-> a] \in [0..0 -> S] /\ [j \in 0..0 |-> a][0] = a
    OBVIOUS
  <2>2. 1..0 = {}
    OBVIOUS
  <2>. QED BY <2>1, <2>2 DEF Iterated
<1>2. ASSUME NEW n \in Nat, Has(n) PROVE Has(n + 1)
  <2>1. PICK g \in [0..n -> S] : g[0] = a /\ \A j \in 1..n : g[j] = F[j][g[j - 1]]
    BY <1>2 DEF Iterated
  <2>2. PICK e \in S : e = F[n + 1][g[n]]
    <3>1. n + 1 \in Nat /\ g[n] \in S
      OBVIOUS
    <3>. QED BY <3>1 DEF Steps
  <2>3. PICK h : h = [j \in 0..n + 1 |-> IF j <= n THEN g[j] ELSE e]
    OBVIOUS
  <2>4. h \in [0..n + 1 -> S]
    <3>1. \A j \in 0..n + 1 : j <= n => j \in 0..n
      OBVIOUS
    <3>. QED BY <2>2, <2>3, <3>1
  <2>5. h[0] = a
    BY <2>1, <2>3
  <2>6. ASSUME NEW j \in 1..n + 1 PROVE h[j] = F[j][h[j - 1]]
    <3>1. j \in 0..n + 1 /\ j - 1 \in 0..n + 1 /\ j - 1 <= n
      OBVIOUS
    <3>2. h[j - 1] = g[j - 1] /\ h[j] = IF j <= n THEN g[j] ELSE e
      BY <2>3, <3>1
    <3>3. CASE j <= n
      BY <2>1, <3>2, <3>3
    <3>4. CASE ~(j <= n)
      <4>1. j = n + 1 /\ j - 1 = n
        BY <3>4
      <4>. QED BY <2>2, <3>2, <3>4, <4>1
    <3>. QED BY <3>3, <3>4
  <2>. QED BY <2>4, <2>5, <2>6 DEF Iterated
<1> HIDE DEF Has
<1>3. 0 \in T /\ \A n \in Nat : n \in T => n + 1 \in T
  BY <1>1, <1>2
<1>4. m \in T
  BY <1>3, Induction
<1>. QED BY <1>4 DEF Has


(* A function on 0..m that is a singleton at 0 and stays one. *)
Stays(f, g, m) == f[0] = {g[0]} /\ \A n \in 1..m : f[n - 1] = {g[n - 1]} => f[n] = {g[n]}

LEMMA Singletons ==
  ASSUME NEW m \in Nat, NEW g, NEW f, Stays(f, g, m)
  PROVE  \A n \in 0..m : f[n] = {g[n]}
<1> DEFINE T == {n \in Nat : n <= m => f[n] = {g[n]}}
<1>1. 0 \in T
  BY DEF Stays
<1>2. ASSUME NEW n \in Nat, n \in T PROVE n + 1 \in T
  <2> SUFFICES ASSUME n + 1 <= m PROVE f[n + 1] = {g[n + 1]}
    OBVIOUS
  <2>1. PICK k \in 1..m : k = n + 1 /\ k - 1 = n
    BY <1>2
  <2>2. f[k - 1] = {g[k - 1]}
    BY <1>2, <2>1
  <2>. QED BY <2>1, <2>2 DEF Stays
<1>3. \A n \in Nat : n \in T
  BY <1>1, <1>2, Induction
<1>. QED BY <1>3

(* Exclusive or and shifts. *)
LEMMA XorIn == ASSUME NEW a, NEW b, NEW x PROVE x \in Xor(a, b) <=> ~(x \in a <=> x \in b)
BY DEF Xor

LEMMA XorAlgebra ==
  ASSUME NEW a, NEW b, NEW c
  PROVE  /\ Xor(a, b) = Xor(b, a)
         /\ Xor(Xor(a, b), c) = Xor(a, Xor(b, c))
         /\ Xor(a, a) = {} /\ Xor(a, {}) = a
         /\ Xor(a, b) = Xor(a, c) => b = c
BY DEF Xor

LEMMA ShiftIn ==
  ASSUME NEW a, NEW n \in Int, NEW x \in Int, a \subseteq Int
  PROVE  x \in ShiftedBy(n, a) <=> x - n \in a
<1>1. ASSUME NEW i \in a, x = i + n PROVE x - n \in a
  <2>1. i \in Int /\ x - n = i
    BY <1>1
  <2>. QED BY <2>1
<1>2. x = (x - n) + n
  OBVIOUS
<1>. QED BY <1>1, <1>2 DEF ShiftedBy

LEMMA ShiftInt ==
  ASSUME NEW a, NEW n \in Int, a \subseteq Int PROVE ShiftedBy(n, a) \subseteq Int
BY DEF ShiftedBy

(* Opaque to the provers in the lemmas that take it. *)
Exponents(a) == a \subseteq Int

LEMMA ShiftNone ==
  ASSUME NEW a, NEW z \in Int, z = 0, a \subseteq Int PROVE ShiftedBy(z, a) = a
<1>1. ASSUME NEW x \in Int PROVE x \in ShiftedBy(z, a) <=> x \in a
  <2>1. x - z = x
    OBVIOUS
  <2>. QED BY <2>1, ShiftIn
<1>2. ShiftedBy(z, a) \subseteq Int
  BY ShiftInt
<1>. QED BY <1>1, <1>2

LEMMA ShiftTwice ==
  ASSUME NEW a, NEW n \in Int, NEW m \in Int, NEW k \in Int, k = n + m, Exponents(a)
  PROVE  ShiftedBy(n, ShiftedBy(m, a)) = ShiftedBy(k, a)
<1>. a \subseteq Int
  BY DEF Exponents
<1>1. ShiftedBy(m, a) \subseteq Int
  BY ShiftInt
<1>2. ASSUME NEW x \in Int
      PROVE  x \in ShiftedBy(n, ShiftedBy(m, a)) <=> x \in ShiftedBy(k, a)
  <2>1. x \in ShiftedBy(n, ShiftedBy(m, a)) <=> x - n \in ShiftedBy(m, a)
    BY <1>1, ShiftIn
  <2>2. PICK y \in Int : y = x - n /\ y - m = x - k
    OBVIOUS
  <2>3. y \in ShiftedBy(m, a) <=> y - m \in a
    BY ShiftIn
  <2>4. x \in ShiftedBy(k, a) <=> x - k \in a
    BY ShiftIn
  <2>. QED BY <2>1, <2>2, <2>3, <2>4
<1>3. ShiftedBy(n, ShiftedBy(m, a)) \subseteq Int
  BY <1>1, ShiftInt
<1>4. ShiftedBy(k, a) \subseteq Int
  BY ShiftInt
<1>. QED BY <1>2, <1>3, <1>4

LEMMA ShiftXor ==
  ASSUME NEW n \in Int, NEW a, NEW b, Exponents(a), Exponents(b)
  PROVE  ShiftedBy(n, Xor(a, b)) = Xor(ShiftedBy(n, a), ShiftedBy(n, b))
<1>. a \subseteq Int /\ b \subseteq Int
  BY DEF Exponents
<1>1. Xor(a, b) \subseteq Int
  BY DEF Xor
<1>2. ASSUME NEW x \in Int
      PROVE  x \in ShiftedBy(n, Xor(a, b)) <=> x \in Xor(ShiftedBy(n, a), ShiftedBy(n, b))
  <2>1. x \in ShiftedBy(n, Xor(a, b)) <=> x - n \in Xor(a, b)
    BY <1>1, ShiftIn
  <2>2. /\ x \in ShiftedBy(n, a) <=> x - n \in a
        /\ x \in ShiftedBy(n, b) <=> x - n \in b
    BY ShiftIn
  <2>. QED BY <2>1, <2>2, XorIn
<1>3. /\ ShiftedBy(n, Xor(a, b)) \subseteq Int /\ ShiftedBy(n, a) \subseteq Int
      /\ ShiftedBy(n, b) \subseteq Int
  BY <1>1, ShiftInt
<1>4. Xor(ShiftedBy(n, a), ShiftedBy(n, b)) \subseteq Int
  BY <1>3 DEF Xor
<1>. QED BY <1>2, <1>3, <1>4

Registers == SUBSET (0..15)

LEMMA Bytes == ASSUME NEW byte PROVE BitsOf(byte) \subseteq 0..7
BY DEF BitsOf

LEMMA ByteEnters ==
  ASSUME NEW reg \in Registers, NEW byte
  PROVE  Xor(reg, ShiftedBy(8, BitsOf(byte))) \in Registers
<1>1. ShiftedBy(8, BitsOf(byte)) \subseteq 0..15
  BY Bytes DEF ShiftedBy
<1>. QED BY <1>1 DEF Registers, Xor

LEMMA ShiftedRegister ==
  ASSUME NEW reg \in Registers
  PROVE  /\ Shifted(reg) \in Registers
         /\ 15 \in reg => Shifted(reg) = Xor(ShiftedBy(1, reg), Generator)
         /\ 15 \notin reg => Shifted(reg) = ShiftedBy(1, reg)
<1>1. reg \subseteq Int /\ \A i \in reg : i \in 0..15
  BY DEF Registers
<1>2. \A x \in ShiftedBy(1, reg) : x \in 1..16
  BY <1>1 DEF ShiftedBy
<1>3. 16 \in ShiftedBy(1, reg) <=> 15 \in reg
  <2>1. PICK n \in Int, x \in Int : n = 1 /\ x = 16 /\ x - n = 15
    OBVIOUS
  <2>2. x \in ShiftedBy(n, reg) <=> x - n \in reg
    BY <1>1, ShiftIn
  <2>. QED BY <2>1, <2>2
<1>4. CASE 15 \in reg
  <2>1. Shifted(reg) = Xor(ShiftedBy(1, reg), Poly) \cap (0..15)
    BY <1>4 DEF Shifted, Width
  <2>2. ASSUME NEW x
        PROVE  x \in Xor(ShiftedBy(1, reg), Poly) /\ x \in 0..15
                 <=> x \in Xor(ShiftedBy(1, reg), Generator)
    <3>1. x \in ShiftedBy(1, reg) => x \in 1..16
      BY <1>2
    <3>2. x \in Poly => x \in 0..15
      BY DEF Poly
    <3>3. x \in Generator <=> x \in Poly \/ x = 16
      BY DEF Generator, Width
    <3>4. x = 16 => x \in ShiftedBy(1, reg) /\ x \notin 0..15
      BY <1>3, <1>4
    <3>5. x \in 1..16 => x \in 0..15 \/ x = 16
      OBVIOUS
    <3>. QED BY <3>1, <3>2, <3>3, <3>4, <3>5, XorIn
  <2>. QED BY <1>4, <2>1, <2>2 DEF Registers
<1>5. CASE 15 \notin reg
  <2>1. Shifted(reg) = ShiftedBy(1, reg)
    BY <1>5 DEF Shifted, Width
  <2>2. \A x \in ShiftedBy(1, reg) : x \in 0..15
    BY <1>2, <1>3, <1>5
  <2>. QED BY <1>5, <2>1, <2>2 DEF Registers
<1>. QED BY <1>4, <1>5

(* What the eight shifts of a byte leave. *)
LEMMA AfterByteIs ==
  ASSUME NEW reg \in Registers, NEW byte
  PROVE  \E g \in [0..8 -> Registers] :
           /\ g[0] = Xor(reg, ShiftedBy(8, BitsOf(byte)))
           /\ \A n \in 1..8 : g[n] = Shifted(g[n - 1])
           /\ AfterByte(reg, byte) = g[8]
<1> DEFINE Rec(f) == f = [n \in 0..8 |->
        IF n = 0 THEN {Xor(reg, ShiftedBy(Width - 8, BitsOf(byte)))}
                 ELSE {Shifted(r) : r \in f[n - 1]}]
<1>1. AfterByte(reg, byte) = UNION (CHOOSE f : Rec(f))[8]
  BY DEF AfterByte
<1>2. PICK a \in Registers : a = Xor(reg, ShiftedBy(8, BitsOf(byte)))
  BY ByteEnters
<1>3. PICK F : F = [n \in Nat |-> [r \in Registers |-> Shifted(r)]]
  OBVIOUS
<1>4. PICK g : Iterated(g, Registers, a, F, 8)
  <2>1. Steps(F, Registers)
    BY <1>3, ShiftedRegister DEF Steps
  <2>2. PICK m \in Nat : m = 8
    OBVIOUS
  <2>3. \E g : Iterated(g, Registers, a, F, m)
    BY <2>1, Iterates
  <2>. QED BY <2>2, <2>3
<1>4a. g \in [0..8 -> Registers] /\ g[0] = a
  BY <1>4 DEF Iterated
<1>5. ASSUME NEW n \in 1..8 PROVE g[n] = Shifted(g[n - 1])
  <2>1. n \in Nat /\ n - 1 \in 0..8
    OBVIOUS
  <2>2. g[n] = F[n][g[n - 1]] /\ g[n - 1] \in Registers
    BY <1>4, <2>1 DEF Iterated
  <2>. QED BY <1>3, <2>1, <2>2
<1>6. \E f : Rec(f)
  <2>1. PICK f : f = [n \in 0..8 |-> {g[n]}]
    OBVIOUS
  <2>2. ASSUME NEW n \in 0..8
        PROVE  f[n] = IF n = 0 THEN {Xor(reg, ShiftedBy(Width - 8, BitsOf(byte)))}
                      ELSE {Shifted(r) : r \in f[n - 1]}
    <3>1. CASE n = 0
      BY <1>2, <1>4a, <2>1, <3>1 DEF Width
    <3>2. CASE n # 0
      <4>1. n \in 1..8 /\ n - 1 \in 0..8
        BY <3>2
      <4>. QED BY <1>5, <2>1, <3>2, <4>1
    <3>. QED BY <3>1, <3>2
  <2>3. Rec(f)
    BY <2>1, <2>2
  <2>. QED BY <2>3
<1>7. PICK f : f = (CHOOSE h : Rec(h)) /\ Rec(f)
  BY <1>6, Zenon
<1>8. f[0] = {g[0]}
  BY <1>2, <1>4a, <1>7 DEF Width
<1>9. ASSUME NEW n \in 1..8, f[n - 1] = {g[n - 1]} PROVE f[n] = {g[n]}
  <2>1. n \in 0..8 /\ n # 0
    OBVIOUS
  <2>2. f[n] = {Shifted(r) : r \in f[n - 1]}
    BY <1>7, <2>1
  <2>. QED BY <1>5, <1>9, <2>2
<1>10. f[8] = {g[8]}
  <2>1. PICK m \in Nat : m = 8 /\ m \in 0..m
    OBVIOUS
  <2>2. Stays(f, g, m)
    BY <1>8, <1>9, <2>1 DEF Stays
  <2>3. \A n \in 0..m : f[n] = {g[n]}
    BY ONLY <2>2, m \in Nat, Singletons
  <2>. QED BY <2>1, <2>3
<1>11. AfterByte(reg, byte) = g[8]
  <2>1. AfterByte(reg, byte) = UNION f[8]
    BY <1>1, <1>7
  <2>2. UNION {g[8]} = g[8]
    OBVIOUS
  <2>. QED BY ONLY <1>10, <2>1, <2>2
<1>. QED BY <1>2, <1>4a, <1>5, <1>11

LEMMA PresetIn == Preset \in Registers
BY DEF Preset, Registers, Width

(* The register after each byte. *)
Entered(g, preset, bytes, m) ==
  /\ g[0] = preset
  /\ \A n \in 1..m : g[n] = AfterByte(g[n - 1], bytes[n])
  /\ ChecksumFrom(preset, bytes) = g[m]

LEMMA ChecksumIs ==
  ASSUME NEW preset \in Registers, NEW bytes, NEW m \in Nat, m = Len(bytes)
  PROVE  \E g \in [0..m -> Registers] : Entered(g, preset, bytes, m)
<1> DEFINE Rec(f) == f = [n \in 0..m |->
        IF n = 0 THEN {preset} ELSE {AfterByte(r, bytes[n]) : r \in f[n - 1]}]
<1>1. ChecksumFrom(preset, bytes) = UNION (CHOOSE f : Rec(f))[m]
  BY DEF ChecksumFrom
<1>2. \A r \in Registers : \A b : AfterByte(r, b) \in Registers
  <2> SUFFICES ASSUME NEW r \in Registers, NEW b PROVE AfterByte(r, b) \in Registers
    OBVIOUS
  <2>1. PICK g \in [0..8 -> Registers] : AfterByte(r, b) = g[8]
    BY AfterByteIs
  <2>. QED BY <2>1
<1>3. PICK F : F = [n \in Nat |-> [r \in Registers |-> AfterByte(r, bytes[n])]]
  OBVIOUS
<1>4. PICK g : Iterated(g, Registers, preset, F, m)
  <2>1. Steps(F, Registers)
    BY <1>2, <1>3 DEF Steps
  <2>. QED BY <2>1, Iterates
<1>5. g \in [0..m -> Registers] /\ g[0] = preset
  BY <1>4 DEF Iterated
<1>6. ASSUME NEW n \in 1..m PROVE g[n] = AfterByte(g[n - 1], bytes[n])
  <2>1. n \in Nat /\ n - 1 \in 0..m
    OBVIOUS
  <2>2. g[n] = F[n][g[n - 1]] /\ g[n - 1] \in Registers
    BY <1>4, <2>1 DEF Iterated
  <2>. QED BY <1>3, <2>1, <2>2
<1>7. \E f : Rec(f)
  <2>1. PICK f : f = [n \in 0..m |-> {g[n]}]
    OBVIOUS
  <2>2. ASSUME NEW n \in 0..m
        PROVE  f[n] = IF n = 0 THEN {preset} ELSE {AfterByte(r, bytes[n]) : r \in f[n - 1]}
    <3>1. CASE n = 0
      BY <1>5, <2>1, <3>1
    <3>2. CASE n # 0
      <4>1. n \in 1..m /\ n - 1 \in 0..m
        BY <3>2
      <4>. QED BY <1>6, <2>1, <3>2, <4>1
    <3>. QED BY <3>1, <3>2
  <2>3. Rec(f)
    BY <2>1, <2>2
  <2>. QED BY <2>3
<1>8. PICK f : f = (CHOOSE h : Rec(h)) /\ Rec(f)
  BY <1>7, Zenon
<1>9. f[0] = {g[0]}
  <2>1. 0 \in 0..m
    OBVIOUS
  <2>. QED BY <1>5, <1>8, <2>1
<1>10. ASSUME NEW n \in 1..m, f[n - 1] = {g[n - 1]} PROVE f[n] = {g[n]}
  <2>1. n \in 0..m /\ n # 0
    OBVIOUS
  <2>2. f[n] = {AfterByte(r, bytes[n]) : r \in f[n - 1]}
    BY <1>8, <2>1
  <2>. QED BY <1>6, <1>10, <2>2
<1>11. f[m] = {g[m]}
  <2>1. m \in Nat /\ m \in 0..m
    OBVIOUS
  <2>2. Stays(f, g, m)
    BY <1>9, <1>10 DEF Stays
  <2>3. \A n \in 0..m : f[n] = {g[n]}
    BY ONLY <2>1, <2>2, Singletons
  <2>. QED BY <2>1, <2>3
<1>12. ChecksumFrom(preset, bytes) = g[m]
  <2>1. ChecksumFrom(preset, bytes) = UNION f[m]
    BY <1>1, <1>8
  <2>2. UNION {g[m]} = g[m]
    OBVIOUS
  <2>. QED BY ONLY <1>11, <2>1, <2>2
<1>. QED BY <1>5, <1>6, <1>12 DEF Entered

(* The polynomial after each subtraction. *)
LEMMA SubtractedInt ==
  ASSUME NEW r \in SUBSET Int, NEW d \in Int PROVE Subtracted(r, d) \in SUBSET Int
<1>1. Generator \subseteq Int
  BY DEF Generator, Poly, Width
<1>2. PICK e \in Int : e = d - 16
  OBVIOUS
<1>3. ShiftedBy(e, Generator) \subseteq Int
  BY <1>1, ShiftInt
<1>. QED BY <1>2, <1>3 DEF Subtracted, Width, Xor

LEMMA DividendInt ==
  ASSUME NEW bytes, NEW m \in Nat, m = Len(bytes) PROVE Dividend(bytes) \in SUBSET Int
<1>1. ASSUME NEW k \in 1..m PROVE ShiftedBy(Width + 8 * (m - k), BitsOf(bytes[k])) \subseteq Int
  <2>1. PICK n \in Int : n = Width + 8 * (m - k)
    BY DEF Width
  <2>2. BitsOf(bytes[k]) \subseteq Int
    BY Bytes
  <2>. QED BY <2>1, <2>2, ShiftInt
<1>2. ShiftedBy(8 * m, Preset) \subseteq Int
  <2>1. PICK n \in Int : n = 8 * m
    OBVIOUS
  <2>2. Preset \subseteq Int
    BY DEF Preset, Width
  <2>. QED BY <2>1, <2>2, ShiftInt
<1>3. UNION {ShiftedBy(Width + 8 * (m - k), BitsOf(bytes[k])) : k \in 1..m} \subseteq Int
  BY <1>1
<1>. QED BY <1>2, <1>3 DEF Dividend, Xor

LEMMA RemainderIs ==
  ASSUME NEW bytes, NEW m \in Nat, m = Len(bytes)
  PROVE  \E g \in [0..8 * m -> SUBSET Int] :
           /\ g[0] = Dividend(bytes)
           /\ \A n \in 1..8 * m : g[n] = Subtracted(g[n - 1], 8 * m + 16 - n)
           /\ Remainder(bytes) = g[8 * m]
<1>1. PICK l \in Nat : l = 8 * m
  OBVIOUS
<1> DEFINE Rec(f) == f = [n \in 0..l |->
        IF n = 0 THEN {Dividend(bytes)} ELSE {Subtracted(r, l + 16 - n) : r \in f[n - 1]}]
<1> DEFINE Whole(f) == f = [n \in 0..(8 * Len(bytes)) |->
        IF n = 0 THEN {Dividend(bytes)}
        ELSE {Subtracted(r, 8 * Len(bytes) + Width - n) : r \in f[n - 1]}]
<1>2. Remainder(bytes) = UNION (CHOOSE f : Whole(f))[8 * Len(bytes)]
  BY DEF Remainder
<1>2a. \A f : Whole(f) <=> Rec(f)
  BY <1>1 DEF Width
<1>3. PICK F : F = [n \in Nat |-> [r \in SUBSET Int |-> Subtracted(r, l + 16 - n)]]
  OBVIOUS
<1>4. PICK g : Iterated(g, SUBSET Int, Dividend(bytes), F, l)
  <2>1. ASSUME NEW n \in Nat, NEW r \in SUBSET Int PROVE Subtracted(r, l + 16 - n) \in SUBSET Int
    <3>1. l + 16 - n \in Int
      OBVIOUS
    <3>. QED BY <3>1, SubtractedInt
  <2>2. PICK S : S = SUBSET Int
    OBVIOUS
  <2>3. Steps(F, S)
    BY <1>3, <2>1, <2>2 DEF Steps
  <2>4. PICK a \in S : a = Dividend(bytes)
    BY <2>2, DividendInt
  <2>5. \E g : Iterated(g, S, a, F, l)
    BY <2>3, Iterates
  <2>. QED BY <2>2, <2>4, <2>5
<1>5. g \in [0..l -> SUBSET Int] /\ g[0] = Dividend(bytes)
  BY <1>4 DEF Iterated
<1>6. ASSUME NEW n \in 1..l PROVE g[n] = Subtracted(g[n - 1], l + 16 - n)
  <2>1. n \in Nat /\ n - 1 \in 0..l
    OBVIOUS
  <2>2. g[n] = F[n][g[n - 1]] /\ g[n - 1] \in SUBSET Int
    BY <1>4, <2>1 DEF Iterated
  <2>. QED BY <1>3, <2>1, <2>2
<1>7. \E f : Rec(f)
  <2>1. PICK f : f = [n \in 0..l |-> {g[n]}]
    OBVIOUS
  <2>2. ASSUME NEW n \in 0..l
        PROVE  f[n] = IF n = 0 THEN {Dividend(bytes)} ELSE {Subtracted(r, l + 16 - n) : r \in f[n - 1]}
    <3>1. CASE n = 0
      BY <1>5, <2>1, <3>1
    <3>2. CASE n # 0
      <4>1. n \in 1..l /\ n - 1 \in 0..l
        BY <3>2
      <4>. QED BY <1>6, <2>1, <3>2, <4>1
    <3>. QED BY <3>1, <3>2
  <2>3. Rec(f)
    BY <2>1, <2>2
  <2>. QED BY <2>3
<1>8. PICK f : f = (CHOOSE h : Whole(h)) /\ Rec(f)
  <2>1. \E f : Whole(f)
    BY <1>2a, <1>7
  <2>2. Whole(CHOOSE h : Whole(h))
    BY <2>1, Zenon
  <2> HIDE DEF Whole, Rec
  <2>3. Rec(CHOOSE h : Whole(h))
    BY <1>2a, <2>2
  <2>. QED BY <2>3
<1>9. f[0] = {g[0]}
  <2>1. 0 \in 0..l
    OBVIOUS
  <2>. QED BY <1>5, <1>8, <2>1
<1>10. ASSUME NEW n \in 1..l, f[n - 1] = {g[n - 1]} PROVE f[n] = {g[n]}
  <2>1. n \in 0..l /\ n # 0
    OBVIOUS
  <2>2. f[n] = {Subtracted(r, l + 16 - n) : r \in f[n - 1]}
    BY <1>8, <2>1
  <2>. QED BY <1>6, <1>10, <2>2
<1>11. f[l] = {g[l]}
  <2>1. l \in Nat /\ l \in 0..l
    OBVIOUS
  <2>2. Stays(f, g, l)
    BY <1>9, <1>10 DEF Stays
  <2>3. \A n \in 0..l : f[n] = {g[n]}
    BY ONLY <2>1, <2>2, Singletons
  <2>. QED BY <2>1, <2>3
<1>12. Remainder(bytes) = g[l]
  <2>1. Remainder(bytes) = UNION f[l]
    BY <1>1, <1>2, <1>8
  <2>2. UNION {g[l]} = g[l]
    OBVIOUS
  <2>. QED BY ONLY <1>11, <2>1, <2>2
<1>. QED BY <1>1, <1>5, <1>6, <1>12

(* The coefficients of the bytes behind the first k, which no subtraction   *)
(* has reached yet.                                                        *)
Low(bytes, m, k) == UNION {ShiftedBy(Width + 8 * (m - j), BitsOf(bytes[j])) : j \in k + 1..m}

LEMMA LowBytes ==
  ASSUME NEW bytes, NEW m \in Nat, NEW j \in 1..m
  PROVE  \A x \in ShiftedBy(Width + 8 * (m - j), BitsOf(bytes[j])) :
           x \in Int /\ 8 * (m - j) + 16 <= x /\ x <= 8 * (m - j) + 23
<1>1. PICK n \in Int : n = Width + 8 * (m - j) /\ n = 8 * (m - j) + 16
  BY DEF Width
<1>2. BitsOf(bytes[j]) \subseteq 0..7
  BY Bytes
<1>3. \A x \in ShiftedBy(n, BitsOf(bytes[j])) : x \in Int /\ n <= x /\ x <= n + 7
  BY <1>2 DEF ShiftedBy
<1>4. n + 7 = 8 * (m - j) + 23
  BY <1>1
<1>. QED BY <1>1, <1>3, <1>4

LEMMA LowBound ==
  ASSUME NEW bytes, NEW m \in Nat, NEW k \in 0..m
  PROVE  \A x \in Low(bytes, m, k) : x \in Int /\ x <= 8 * (m - k) + 15
<1> SUFFICES ASSUME NEW x \in Low(bytes, m, k) PROVE x \in Int /\ x <= 8 * (m - k) + 15
  OBVIOUS
<1>1. PICK j \in k + 1..m : x \in ShiftedBy(Width + 8 * (m - j), BitsOf(bytes[j]))
  BY DEF Low
<1>2. j \in 1..m /\ j >= k + 1
  OBVIOUS
<1>3. x \in Int /\ x <= 8 * (m - j) + 23
  BY <1>1, <1>2, LowBytes
<1>. QED BY <1>2, <1>3

LEMMA LowSplits ==
  ASSUME NEW bytes, NEW m \in Nat, NEW k \in 0..m - 1
  PROVE  Low(bytes, m, k) =
           Xor(ShiftedBy(8 * (m - k) + 8, BitsOf(bytes[k + 1])), Low(bytes, m, k + 1))
<1> DEFINE Place(j) == ShiftedBy(Width + 8 * (m - j), BitsOf(bytes[j]))
<1>1. k \in 0..m /\ k + 1 \in 0..m /\ k + 1 \in 1..m
  OBVIOUS
<1>2. Width + 8 * (m - (k + 1)) = 8 * (m - k) + 8
  BY DEF Width
<1>3. k + 1..m = {k + 1} \cup (k + 1 + 1..m)
  OBVIOUS
<1>4. Low(bytes, m, k) = Place(k + 1) \cup Low(bytes, m, k + 1)
  <2>1. Low(bytes, m, k) = UNION {Place(j) : j \in k + 1..m}
    BY DEF Low
  <2>2. Low(bytes, m, k + 1) = UNION {Place(j) : j \in k + 1 + 1..m}
    BY DEF Low
  <2> HIDE DEF Place
  <2>. QED BY <1>3, <2>1, <2>2
<1>5. Place(k + 1) \cap Low(bytes, m, k + 1) = {}
  <2> SUFFICES ASSUME NEW x \in Place(k + 1), x \in Low(bytes, m, k + 1) PROVE FALSE
    OBVIOUS
  <2>1. x \in Int /\ 8 * (m - (k + 1)) + 16 <= x
    BY <1>1, LowBytes
  <2>2. x <= 8 * (m - (k + 1)) + 15
    BY <1>1, LowBound
  <2>. QED BY <2>1, <2>2
<1>6. Place(k + 1) = ShiftedBy(8 * (m - k) + 8, BitsOf(bytes[k + 1]))
  BY <1>2
<1> HIDE DEF Place
<1>. QED BY <1>4, <1>5, <1>6 DEF Xor

(* Removing the highest coefficient of a register that stands s places up   *)
(* shifts the register.                                                    *)
LEMMA OneBit ==
  ASSUME NEW r \in Registers, NEW s \in Int, NEW w \in SUBSET Int, s + 15 \notin w
  PROVE  Subtracted(Xor(ShiftedBy(s, r), w), s + 15) = Xor(ShiftedBy(s - 1, Shifted(r)), w)
<1>1. r \subseteq Int /\ Generator \subseteq Int
  BY DEF Registers, Generator, Poly, Width
<1>2. PICK d \in Int, t \in Int, one \in Int :
        d = s + 15 /\ t = s - 1 /\ one = 1 /\ t + one = s /\ d - 16 = t /\ d - s = 15
  OBVIOUS
<1>3. d \in Xor(ShiftedBy(s, r), w) <=> 15 \in r
  <2>1. d \in ShiftedBy(s, r) <=> d - s \in r
    BY <1>1, ShiftIn
  <2>. QED BY <1>2, <2>1, XorIn
<1>4. ShiftedBy(s, r) = ShiftedBy(t, ShiftedBy(one, r))
  <2>1. Exponents(r)
    BY <1>1 DEF Exponents
  <2>. QED BY <1>2, <2>1, ShiftTwice
<1>5. ShiftedBy(one, r) \subseteq Int
  BY <1>1, ShiftInt
<1>6. CASE 15 \in r
  <2>1. PICK a, e : a = ShiftedBy(one, r) /\ e = ShiftedBy(t, Generator)
    OBVIOUS
  <2>2. Shifted(r) = Xor(a, Generator)
    BY <1>2, <1>6, <2>1, ShiftedRegister
  <2>3. ShiftedBy(t, Xor(a, Generator)) = Xor(ShiftedBy(t, a), e)
    <3>1. Exponents(a) /\ Exponents(Generator)
      BY <1>1, <1>5, <2>1 DEF Exponents
    <3>. QED BY <2>1, <3>1, ShiftXor
  <2>4. Subtracted(Xor(ShiftedBy(s, r), w), d) = Xor(Xor(ShiftedBy(t, a), w), e)
    BY <1>2, <1>3, <1>4, <1>6, <2>1 DEF Subtracted, Width
  <2>5. Xor(Xor(ShiftedBy(t, a), w), e) = Xor(Xor(ShiftedBy(t, a), e), w)
    <3>1. PICK p : p = ShiftedBy(t, a)
      OBVIOUS
    <3>2. Xor(Xor(p, w), e) = Xor(Xor(p, e), w)
      BY DEF Xor
    <3>. QED BY <3>1, <3>2
  <2>. QED BY <1>2, <2>2, <2>3, <2>4, <2>5
<1>7. CASE 15 \notin r
  <2>1. Shifted(r) = ShiftedBy(one, r)
    BY <1>2, <1>7, ShiftedRegister
  <2>2. Subtracted(Xor(ShiftedBy(s, r), w), d) = Xor(ShiftedBy(s, r), w)
    BY <1>3, <1>7 DEF Subtracted
  <2>. QED BY <1>2, <1>4, <2>1, <2>2
<1>. QED BY <1>6, <1>7

(* A division from the given dividend, one coefficient a step. *)
Division(p, m) ==
  /\ p \in [0..8 * m -> SUBSET Int]
  /\ \A n \in 1..8 * m : p[n] = Subtracted(p[n - 1], 8 * m + 16 - n)

LEMMA OneByte ==
  ASSUME NEW bytes, NEW m \in Nat, NEW p, NEW k \in 0..m - 1, NEW reg \in Registers,
         Division(p, m),
         p[8 * k] = Xor(ShiftedBy(8 * (m - k), reg), Low(bytes, m, k))
  PROVE  p[8 * (k + 1)] =
           Xor(ShiftedBy(8 * (m - (k + 1)), AfterByte(reg, bytes[k + 1])), Low(bytes, m, k + 1))
<1>1. PICK g \in [0..8 -> Registers] :
        /\ g[0] = Xor(reg, ShiftedBy(8, BitsOf(bytes[k + 1])))
        /\ \A n \in 1..8 : g[n] = Shifted(g[n - 1])
        /\ AfterByte(reg, bytes[k + 1]) = g[8]
  BY AfterByteIs
<1>2. PICK w : w = Low(bytes, m, k + 1)
  OBVIOUS
<1>3. PICK l \in Nat, z \in Int : l = 8 * k /\ z = 8 * (m - k) /\ l + z = 8 * m /\ z >= 8
  OBVIOUS
<1>4. w \in SUBSET Int /\ \A x \in w : x <= z + 7
  <2>1. k + 1 \in 0..m /\ 8 * (m - (k + 1)) + 15 = z + 7
    BY <1>3
  <2>2. \A x \in Low(bytes, m, k + 1) : x \in Int /\ x <= 8 * (m - (k + 1)) + 15
    BY <2>1, LowBound
  <2>. QED BY <1>2, <2>1, <2>2
<1> DEFINE Agrees(i) == p[l + i] = Xor(ShiftedBy(z - i, g[i]), w)
<1> DEFINE T == {i \in Nat : i <= 8 => Agrees(i)}
<1>5. Agrees(0)
  <2>1. PICK b : b = BitsOf(bytes[k + 1])
    OBVIOUS
  <2>1a. PICK eight \in Int, q \in Int : eight = 8 /\ q = z + eight
    OBVIOUS
  <2>2. b \subseteq Int /\ Exponents(b) /\ Exponents(reg)
    BY <2>1, Bytes DEF Registers, Exponents
  <2>2a. PICK c : c = ShiftedBy(eight, b) /\ Exponents(c)
    <3>1. ShiftedBy(eight, b) \subseteq Int
      BY <2>2, ShiftInt
    <3>. QED BY <3>1 DEF Exponents
  <2>3. ShiftedBy(z, g[0]) = Xor(ShiftedBy(z, reg), ShiftedBy(z, c))
    <3>1. g[0] = Xor(reg, c)
      BY <1>1, <2>1, <2>1a, <2>2a
    <3>. QED BY <2>2, <2>2a, <3>1, ShiftXor
  <2>4. ShiftedBy(z, c) = ShiftedBy(q, b)
    BY <2>1a, <2>2, <2>2a, ShiftTwice
  <2>5. Low(bytes, m, k) = Xor(ShiftedBy(q, b), w)
    BY <1>2, <1>3, <2>1, <2>1a, LowSplits
  <2>6. PICK u, v : u = ShiftedBy(z, reg) /\ v = ShiftedBy(q, b)
    OBVIOUS
  <2>7. p[l] = Xor(u, Xor(v, w))
    BY <1>3, <2>5, <2>6
  <2>8. Xor(u, Xor(v, w)) = Xor(Xor(u, v), w)
    BY XorAlgebra
  <2>9. ShiftedBy(z, g[0]) = Xor(u, v)
    BY <2>3, <2>4, <2>6
  <2>10. l + 0 = l /\ z - 0 = z
    OBVIOUS
  <2>. QED BY <2>7, <2>8, <2>9, <2>10
<1>6. ASSUME NEW i \in 0..7, Agrees(i) PROVE Agrees(i + 1)
  <2>1. PICK s \in Int, n \in Int, h \in 1..8 :
          /\ s = z - i /\ s - 1 = z - (i + 1)
          /\ n = l + i + 1 /\ n - 1 = l + i /\ l + (i + 1) = n
          /\ h = i + 1 /\ h - 1 = i
    OBVIOUS
  <2>2. n \in 1..8 * m
    BY <1>3, <2>1
  <2>3. 8 * m + 16 - n = s + 15
    BY <1>3, <2>1
  <2>4. p[n] = Subtracted(p[n - 1], s + 15)
    BY <2>2, <2>3 DEF Division
  <2>5. g[i] \in Registers /\ g[i + 1] = Shifted(g[i])
    <3>1. i \in 0..8
      OBVIOUS
    <3>2. g[h] = Shifted(g[h - 1])
      BY <1>1
    <3>. QED BY <2>1, <3>1, <3>2
  <2>6. s + 15 \notin w
    <3>1. s + 15 > z + 7
      BY <2>1
    <3>. QED BY <1>4, <3>1
  <2>7. p[n - 1] = Xor(ShiftedBy(s, g[i]), w)
    BY <1>6, <2>1
  <2>8. Subtracted(Xor(ShiftedBy(s, g[i]), w), s + 15) = Xor(ShiftedBy(s - 1, Shifted(g[i])), w)
    BY <1>4, <2>5, <2>6, OneBit
  <2>9. p[n] = Xor(ShiftedBy(s - 1, g[i + 1]), w)
    BY <2>4, <2>5, <2>7, <2>8
  <2>. QED BY <2>1, <2>9
<1> HIDE DEF Agrees
<1>7. 0 \in T
  BY <1>5
<1>8. ASSUME NEW i \in Nat, i \in T PROVE i + 1 \in T
  <2> SUFFICES ASSUME i + 1 <= 8 PROVE Agrees(i + 1)
    OBVIOUS
  <2>1. i \in 0..7 /\ i <= 8
    OBVIOUS
  <2>2. Agrees(i)
    BY <1>8, <2>1
  <2>. QED BY <1>6, <2>1, <2>2
<1>9. \A i \in Nat : i \in T
  <2> HIDE DEF T
  <2>. QED BY <1>7, <1>8, Induction
<1>10. Agrees(8)
  <2>1. 8 \in Nat /\ 8 <= 8
    OBVIOUS
  <2>. QED BY <1>9, <2>1
<1>11. l + 8 = 8 * (k + 1) /\ z - 8 = 8 * (m - (k + 1))
  BY <1>3
<1>12. p[l + 8] = Xor(ShiftedBy(z - 8, g[8]), w)
  BY <1>10 DEF Agrees
<1>. QED BY <1>1, <1>2, <1>11, <1>12

(* The register of crc.c (cm_nxt, 116-138) is the remainder of the division *)
(* of the bytes, with the first 16 coefficients inverted, by the generator *)
(* polynomial: whatever the bytes, and however many.                       *)
THEOREM RegisterIsRemainder ==
  ASSUME NEW bytes, NEW m \in Nat, m = Len(bytes)
  PROVE  Checksum(bytes) = Remainder(bytes)
<1>1. Preset \in Registers
  BY PresetIn
<1>2. PICK g \in [0..m -> Registers] :
        /\ g[0] = Preset
        /\ \A n \in 1..m : g[n] = AfterByte(g[n - 1], bytes[n])
        /\ Checksum(bytes) = g[m]
  <2>1. PICK g \in [0..m -> Registers] : Entered(g, Preset, bytes, m)
    BY <1>1, ChecksumIs
  <2>. QED BY <2>1 DEF Entered, Checksum
<1>3. PICK p \in [0..8 * m -> SUBSET Int] :
        /\ p[0] = Dividend(bytes)
        /\ \A n \in 1..8 * m : p[n] = Subtracted(p[n - 1], 8 * m + 16 - n)
        /\ Remainder(bytes) = p[8 * m]
  BY RemainderIs
<1>4. Division(p, m)
  BY <1>3 DEF Division
<1> DEFINE Agrees(k) == p[8 * k] = Xor(ShiftedBy(8 * (m - k), g[k]), Low(bytes, m, k))
<1> DEFINE T == {k \in Nat : k <= m => Agrees(k)}
<1>5. Agrees(0)
  <2>1. 8 * 0 = 0 /\ 8 * (m - 0) = 8 * m /\ 0 + 1 = 1
    OBVIOUS
  <2>2. Dividend(bytes) = Xor(Low(bytes, m, 0), ShiftedBy(8 * m, Preset))
    BY <2>1 DEF Dividend, Low
  <2>3. PICK u, v : u = Low(bytes, m, 0) /\ v = ShiftedBy(8 * m, Preset)
    OBVIOUS
  <2>4. Xor(u, v) = Xor(v, u)
    BY XorAlgebra
  <2>5. p[0] = Xor(v, u)
    BY <1>3, <2>2, <2>3, <2>4
  <2>. QED BY <1>2, <2>1, <2>3, <2>5
<1>6. ASSUME NEW k \in 0..m - 1, Agrees(k) PROVE Agrees(k + 1)
  <2>1. k \in 0..m /\ k + 1 \in 1..m /\ (k + 1) - 1 = k
    OBVIOUS
  <2>2. g[k] \in Registers /\ g[k + 1] = AfterByte(g[k], bytes[k + 1])
    BY <1>2, <2>1
  <2>3. p[8 * (k + 1)] =
          Xor(ShiftedBy(8 * (m - (k + 1)), AfterByte(g[k], bytes[k + 1])), Low(bytes, m, k + 1))
    BY <1>4, <1>6, <2>2, OneByte
  <2>. QED BY <2>2, <2>3
<1> HIDE DEF Agrees
<1>7. 0 \in T
  BY <1>5
<1>8. ASSUME NEW k \in Nat, k \in T PROVE k + 1 \in T
  <2> SUFFICES ASSUME k + 1 <= m PROVE Agrees(k + 1)
    OBVIOUS
  <2>1. k \in 0..m - 1 /\ k <= m
    OBVIOUS
  <2>2. Agrees(k)
    BY <1>8, <2>1
  <2>. QED BY <1>6, <2>1, <2>2
<1>9. \A k \in Nat : k \in T
  <2> HIDE DEF T
  <2>. QED BY <1>7, <1>8, Induction
<1>10. p[8 * m] = Xor(ShiftedBy(8 * (m - m), g[m]), Low(bytes, m, m))
  BY <1>9 DEF Agrees
<1>11. Low(bytes, m, m) = {}
  <2>1. m + 1..m = {}
    OBVIOUS
  <2>. QED BY <2>1 DEF Low
<1>12. ShiftedBy(8 * (m - m), g[m]) = g[m]
  <2>1. 8 * (m - m) = 0 /\ g[m] \in Registers
    OBVIOUS
  <2>2. g[m] \subseteq Int
    BY <2>1 DEF Registers
  <2>3. PICK z \in Int : z = 0
    OBVIOUS
  <2>. QED BY <2>1, <2>2, <2>3, ShiftNone
<1>. QED BY <1>2, <1>3, <1>10, <1>11, <1>12, XorAlgebra

-----------------------------------------------------------------------------
(* Commands.  What the eight shifts of a byte make of a register is linear  *)
(* and can be undone, and a single bit of the byte shows in two bits of the *)
(* checksum: so the packets of two commands differ in three bits at least.  *)

(* Bytes and their bits. *)
LEMMA Powers ==
  /\ 2^0 = 1 /\ 2^1 = 2 /\ 2^2 = 4 /\ 2^3 = 8
  /\ 2^4 = 16 /\ 2^5 = 32 /\ 2^6 = 64 /\ 2^7 = 128
OBVIOUS

LEMMA PowersIn == ASSUME NEW i \in 0..7 PROVE 2^i \in Nat
<1>1. i = 0 \/ i = 1 \/ i = 2 \/ i = 3 \/ i = 4 \/ i = 5 \/ i = 6 \/ i = 7
  OBVIOUS
<1>2. /\ 2^0 \in Nat /\ 2^1 \in Nat /\ 2^2 \in Nat /\ 2^3 \in Nat
      /\ 2^4 \in Nat /\ 2^5 \in Nat /\ 2^6 \in Nat /\ 2^7 \in Nat
  BY Powers
<1>. QED BY <1>1, <1>2, Zenon

LEMMA BitsAre ==
  ASSUME NEW v
  PROVE  /\ 0 \in BitsOf(v) <=> (v \div 1) % 2 = 1
         /\ 1 \in BitsOf(v) <=> (v \div 2) % 2 = 1
         /\ 2 \in BitsOf(v) <=> (v \div 4) % 2 = 1
         /\ 3 \in BitsOf(v) <=> (v \div 8) % 2 = 1
         /\ 4 \in BitsOf(v) <=> (v \div 16) % 2 = 1
         /\ 5 \in BitsOf(v) <=> (v \div 32) % 2 = 1
         /\ 6 \in BitsOf(v) <=> (v \div 64) % 2 = 1
         /\ 7 \in BitsOf(v) <=> (v \div 128) % 2 = 1
<1>1. \A i \in 0..7 : i \in BitsOf(v) <=> (v \div 2^i) % 2 = 1
  BY DEF BitsOf
<1>. QED BY <1>1, Powers

Bit(bits, n) == IF n \in bits THEN 1 ELSE 0

LEMMA ByteIs ==
  ASSUME NEW bits
  PROVE  ByteOf(bits) = Bit(bits, 0) + 2 * Bit(bits, 1) + 4 * Bit(bits, 2) + 8 * Bit(bits, 3)
                        + 16 * Bit(bits, 4) + 32 * Bit(bits, 5) + 64 * Bit(bits, 6)
                        + 128 * Bit(bits, 7)
<1> DEFINE Rec(f) == f = [n \in 0..8 |->
        IF n = 0 THEN 0 ELSE f[n - 1] + (IF n - 1 \in bits THEN 2^(n - 1) ELSE 0)]
<1>1. ByteOf(bits) = (CHOOSE f : Rec(f))[8]
  BY DEF ByteOf
<1>2. PICK t : t = [n \in 0..7 |-> IF n \in bits THEN 2^n ELSE 0]
  OBVIOUS
<1>3. t \in [0..7 -> Nat]
  BY <1>2, PowersIn
<1>4. PICK F : F = [n \in Nat |-> [r \in Nat |-> IF n \in 1..8 THEN r + t[n - 1] ELSE r]]
  OBVIOUS
<1>5. PICK g : Iterated(g, Nat, 0, F, 8)
  <2>1. Steps(F, Nat)
    <3>1. ASSUME NEW n \in Nat, NEW r \in Nat
          PROVE  (IF n \in 1..8 THEN r + t[n - 1] ELSE r) \in Nat
      <4>1. n \in 1..8 => n - 1 \in 0..7
        OBVIOUS
      <4>. QED BY <1>3, <4>1
    <3>. QED BY <1>4, <3>1 DEF Steps
  <2>2. PICK m \in Nat, z \in Nat : m = 8 /\ z = 0
    OBVIOUS
  <2>3. \E g : Iterated(g, Nat, z, F, m)
    BY <2>1, Iterates
  <2>. QED BY <2>2, <2>3
<1>6. g \in [0..8 -> Nat] /\ g[0] = 0
  BY <1>5 DEF Iterated
<1>7. ASSUME NEW n \in 1..8 PROVE g[n] = g[n - 1] + (IF n - 1 \in bits THEN 2^(n - 1) ELSE 0)
  <2>1. n \in Nat /\ n - 1 \in 0..8 /\ n - 1 \in 0..7
    OBVIOUS
  <2>2. g[n] = F[n][g[n - 1]] /\ g[n - 1] \in Nat
    BY <1>5, <2>1 DEF Iterated
  <2>3. F[n][g[n - 1]] = g[n - 1] + t[n - 1]
    BY <1>4, <2>1, <2>2
  <2>. QED BY <1>2, <2>1, <2>2, <2>3
<1>8. Rec(g)
  <2>1. ASSUME NEW n \in 0..8, n # 0 PROVE n \in 1..8
    BY <2>1
  <2>. QED BY <1>6, <1>7, <2>1
<1>9. PICK f : f = (CHOOSE h : Rec(h)) /\ Rec(f)
  BY <1>8, Zenon
<1>10. f[0] = 0
  BY <1>9
<1>11. ASSUME NEW n \in 1..8
       PROVE  f[n] = f[n - 1] + (IF n - 1 \in bits THEN 2^(n - 1) ELSE 0)
  <2>1. n \in 0..8 /\ n # 0
    OBVIOUS
  <2>. QED BY <1>9, <2>1
<1> HIDE DEF Rec
<1>12. /\ f[1] = Bit(bits, 0)
       /\ f[2] = f[1] + 2 * Bit(bits, 1) /\ f[3] = f[2] + 4 * Bit(bits, 2)
       /\ f[4] = f[3] + 8 * Bit(bits, 3) /\ f[5] = f[4] + 16 * Bit(bits, 4)
       /\ f[6] = f[5] + 32 * Bit(bits, 5) /\ f[7] = f[6] + 64 * Bit(bits, 6)
       /\ f[8] = f[7] + 128 * Bit(bits, 7)
  BY <1>10, <1>11, Powers DEF Bit
<1>13. f[8] = Bit(bits, 0) + 2 * Bit(bits, 1) + 4 * Bit(bits, 2) + 8 * Bit(bits, 3)
              + 16 * Bit(bits, 4) + 32 * Bit(bits, 5) + 64 * Bit(bits, 6) + 128 * Bit(bits, 7)
  BY <1>12 DEF Bit
<1>. QED BY <1>1, <1>9, <1>13

LEMMA BitsOfByte ==
  ASSUME NEW bits \in SUBSET (0..7)
  PROVE  ByteOf(bits) \in 0..255 /\ BitsOf(ByteOf(bits)) = bits
<1>1. PICK b0, b1, b2, b3, b4, b5, b6, b7 :
        /\ b0 = Bit(bits, 0) /\ b1 = Bit(bits, 1) /\ b2 = Bit(bits, 2) /\ b3 = Bit(bits, 3)
        /\ b4 = Bit(bits, 4) /\ b5 = Bit(bits, 5) /\ b6 = Bit(bits, 6) /\ b7 = Bit(bits, 7)
  OBVIOUS
<1>2. /\ b0 \in 0..1 /\ b1 \in 0..1 /\ b2 \in 0..1 /\ b3 \in 0..1
      /\ b4 \in 0..1 /\ b5 \in 0..1 /\ b6 \in 0..1 /\ b7 \in 0..1
  BY <1>1 DEF Bit
<1>3. PICK v : v = ByteOf(bits)
  OBVIOUS
<1>4. v = b0 + 2 * b1 + 4 * b2 + 8 * b3 + 16 * b4 + 32 * b5 + 64 * b6 + 128 * b7
  BY <1>1, <1>3, ByteIs
<1>5. v \in 0..255
  BY <1>2, <1>4
<1>6. /\ (v \div 1) % 2 = b0 /\ (v \div 2) % 2 = b1 /\ (v \div 4) % 2 = b2 /\ (v \div 8) % 2 = b3
      /\ (v \div 16) % 2 = b4 /\ (v \div 32) % 2 = b5 /\ (v \div 64) % 2 = b6
      /\ (v \div 128) % 2 = b7
  BY <1>2, <1>4
<1>7. /\ 0 \in BitsOf(v) <=> 0 \in bits
      /\ 1 \in BitsOf(v) <=> 1 \in bits
      /\ 2 \in BitsOf(v) <=> 2 \in bits
      /\ 3 \in BitsOf(v) <=> 3 \in bits
      /\ 4 \in BitsOf(v) <=> 4 \in bits
      /\ 5 \in BitsOf(v) <=> 5 \in bits
      /\ 6 \in BitsOf(v) <=> 6 \in bits
      /\ 7 \in BitsOf(v) <=> 7 \in bits
  BY <1>1, <1>6, BitsAre DEF Bit
<1>8. ASSUME NEW i \in 0..7 PROVE i \in BitsOf(v) <=> i \in bits
  <2>1. i = 0 \/ i = 1 \/ i = 2 \/ i = 3 \/ i = 4 \/ i = 5 \/ i = 6 \/ i = 7
    OBVIOUS
  <2>. QED BY <1>7, <2>1
<1>. QED BY <1>3, <1>5, <1>8, Bytes

LEMMA ByteFromBits ==
  ASSUME NEW v \in 0..255 PROVE ByteOf(BitsOf(v)) = v
<1>1. PICK b : b = BitsOf(v)
  OBVIOUS
<1>2. /\ (v \div 1) % 2 \in 0..1 /\ (v \div 2) % 2 \in 0..1 /\ (v \div 4) % 2 \in 0..1
      /\ (v \div 8) % 2 \in 0..1 /\ (v \div 16) % 2 \in 0..1 /\ (v \div 32) % 2 \in 0..1
      /\ (v \div 64) % 2 \in 0..1 /\ (v \div 128) % 2 \in 0..1
  OBVIOUS
<1>3. /\ Bit(b, 0) = (v \div 1) % 2 /\ Bit(b, 1) = (v \div 2) % 2
      /\ Bit(b, 2) = (v \div 4) % 2 /\ Bit(b, 3) = (v \div 8) % 2
      /\ Bit(b, 4) = (v \div 16) % 2 /\ Bit(b, 5) = (v \div 32) % 2
      /\ Bit(b, 6) = (v \div 64) % 2 /\ Bit(b, 7) = (v \div 128) % 2
  BY <1>1, <1>2, BitsAre DEF Bit
<1>4. ByteOf(b) = ((v \div 1) % 2) + 2 * ((v \div 2) % 2) + 4 * ((v \div 4) % 2)
                  + 8 * ((v \div 8) % 2) + 16 * ((v \div 16) % 2) + 32 * ((v \div 32) % 2)
                  + 64 * ((v \div 64) % 2) + 128 * ((v \div 128) % 2)
  BY <1>3, ByteIs
<1>. QED BY <1>1, <1>4

(* Shifting is linear, and can be undone. *)
LEMMA XorRegister ==
  ASSUME NEW a \in Registers, NEW b \in Registers PROVE Xor(a, b) \in Registers
BY DEF Registers, Xor

LEMMA RegisterInt == ASSUME NEW a \in Registers PROVE a \subseteq Int /\ Exponents(a)
BY DEF Registers, Exponents

(* Eight shifts: what the byte 0 does to a register. *)
Rolled(reg) == AfterByte(reg, 0)

Rolls(g) == \A n \in 1..8 : g[n] = Shifted(g[n - 1])

LEMMA RollsOut ==
  ASSUME NEW g, Rolls(g)
  PROVE  /\ g[1] = Shifted(g[0]) /\ g[2] = Shifted(g[1]) /\ g[3] = Shifted(g[2])
         /\ g[4] = Shifted(g[3]) /\ g[5] = Shifted(g[4]) /\ g[6] = Shifted(g[5])
         /\ g[7] = Shifted(g[6]) /\ g[8] = Shifted(g[7])
BY DEF Rolls

LEMMA RolledIs ==
  ASSUME NEW reg \in Registers
  PROVE  \E g \in [0..8 -> Registers] : g[0] = reg /\ Rolls(g) /\ Rolled(reg) = g[8]
<1>1. PICK z : z = 0
  OBVIOUS
<1>2. PICK g \in [0..8 -> Registers] :
        /\ g[0] = Xor(reg, ShiftedBy(8, BitsOf(z)))
        /\ \A n \in 1..8 : g[n] = Shifted(g[n - 1])
        /\ AfterByte(reg, z) = g[8]
  BY AfterByteIs
<1>3. BitsOf(z) = {}
  <2>1. ByteOf({}) = z
    BY <1>1, ByteIs DEF Bit
  <2>. QED BY <2>1, BitsOfByte
<1>4. ShiftedBy(8, {}) = {}
  BY DEF ShiftedBy
<1>5. Xor(reg, {}) = reg
  BY DEF Xor
<1>. QED BY <1>1, <1>2, <1>3, <1>4, <1>5 DEF Rolls, Rolled

LEMMA RolledIn == ASSUME NEW reg \in Registers PROVE Rolled(reg) \in Registers
<1>1. PICK g \in [0..8 -> Registers] : g[0] = reg /\ Rolls(g) /\ Rolled(reg) = g[8]
  BY RolledIs
<1>. QED BY <1>1

LEMMA RolledOnly ==
  ASSUME NEW g, Rolls(g), g[0] \in Registers PROVE g[8] = Rolled(g[0]) /\ Rolled(g[0]) \in Registers
<1>1. PICK h \in [0..8 -> Registers] : h[0] = g[0] /\ Rolls(h) /\ Rolled(g[0]) = h[8]
  BY RolledIs
<1>2. h[1] = g[1] /\ h[2] = g[2] /\ h[3] = g[3] /\ h[4] = g[4]
      /\ h[5] = g[5] /\ h[6] = g[6] /\ h[7] = g[7] /\ h[8] = g[8]
  BY <1>1, RollsOut
<1>. QED BY <1>1, <1>2

LEMMA AfterIsRolled ==
  ASSUME NEW reg \in Registers, NEW byte
  PROVE  AfterByte(reg, byte) = Rolled(Xor(reg, ShiftedBy(8, BitsOf(byte))))
<1>1. PICK g \in [0..8 -> Registers] :
        /\ g[0] = Xor(reg, ShiftedBy(8, BitsOf(byte)))
        /\ \A n \in 1..8 : g[n] = Shifted(g[n - 1])
        /\ AfterByte(reg, byte) = g[8]
  BY AfterByteIs
<1>2. Rolls(g)
  BY <1>1 DEF Rolls
<1>3. g[0] \in Registers
  OBVIOUS
<1>4. g[8] = Rolled(g[0])
  BY <1>2, <1>3, RolledOnly
<1>. QED BY <1>1, <1>4

LEMMA AfterIn == ASSUME NEW reg \in Registers, NEW byte PROVE AfterByte(reg, byte) \in Registers
BY ByteEnters, AfterIsRolled, RolledIn

(* One shift, bit by bit. *)
LEMMA ShiftedBits ==
  ASSUME NEW r \in Registers
  PROVE  /\ 0 \in Shifted(r) <=> 15 \in r
         /\ 1 \in Shifted(r) <=> 0 \in r
         /\ 2 \in Shifted(r) <=> 1 \in r
         /\ 3 \in Shifted(r) <=> 2 \in r
         /\ 4 \in Shifted(r) <=> 3 \in r
         /\ 5 \in Shifted(r) <=> ~(4 \in r <=> 15 \in r)
         /\ 6 \in Shifted(r) <=> 5 \in r
         /\ 7 \in Shifted(r) <=> 6 \in r
         /\ 8 \in Shifted(r) <=> 7 \in r
         /\ 9 \in Shifted(r) <=> 8 \in r
         /\ 10 \in Shifted(r) <=> 9 \in r
         /\ 11 \in Shifted(r) <=> 10 \in r
         /\ 12 \in Shifted(r) <=> ~(11 \in r <=> 15 \in r)
         /\ 13 \in Shifted(r) <=> 12 \in r
         /\ 14 \in Shifted(r) <=> 13 \in r
         /\ 15 \in Shifted(r) <=> 14 \in r
<1>1. PICK n \in Int : n = 1
  OBVIOUS
<1>2. PICK u : u = ShiftedBy(n, r)
  OBVIOUS
<1>3. ASSUME NEW x \in Int PROVE x \in u <=> x - n \in r
  BY <1>2, ShiftIn, RegisterInt
<1>4. -1 \notin r
  BY DEF Registers
<1>5. \A x \in 0..15 : x \in Generator <=> x \in {0, 5, 12}
  BY DEF Generator, Poly, Width
<1>6. ASSUME NEW x \in 0..15
      PROVE  x \in Shifted(r) <=> ~(x - 1 \in r <=> 15 \in r /\ x \in {0, 5, 12})
  <2>1. x \in u <=> x - 1 \in r
    BY <1>1, <1>3
  <2>2. CASE 15 \in r
    <3>1. Shifted(r) = Xor(u, Generator)
      BY <1>1, <1>2, <2>2, ShiftedRegister
    <3>. QED BY <1>5, <2>1, <2>2, <3>1, XorIn
  <2>3. CASE 15 \notin r
    <3>1. Shifted(r) = u
      BY <1>1, <1>2, <2>3, ShiftedRegister
    <3>. QED BY <2>1, <2>3, <3>1
  <2>. QED BY <2>2, <2>3
<1>. QED BY <1>4, <1>6

(* Eight shifts at once. *)
LEMMA RolledBits ==
  ASSUME NEW r \in Registers
  PROVE  /\ 0 \in Rolled(r) <=> ~(8 \in r <=> 12 \in r)
         /\ 1 \in Rolled(r) <=> ~(9 \in r <=> 13 \in r)
         /\ 2 \in Rolled(r) <=> ~(10 \in r <=> 14 \in r)
         /\ 3 \in Rolled(r) <=> ~(11 \in r <=> 15 \in r)
         /\ 4 \in Rolled(r) <=> 12 \in r
         /\ 5 \in Rolled(r) <=> ~(~(8 \in r <=> 12 \in r) <=> 13 \in r)
         /\ 6 \in Rolled(r) <=> ~(~(9 \in r <=> 13 \in r) <=> 14 \in r)
         /\ 7 \in Rolled(r) <=> ~(~(10 \in r <=> 14 \in r) <=> 15 \in r)
         /\ 8 \in Rolled(r) <=> ~(~(0 \in r <=> 11 \in r) <=> 15 \in r)
         /\ 9 \in Rolled(r) <=> ~(1 \in r <=> 12 \in r)
         /\ 10 \in Rolled(r) <=> ~(2 \in r <=> 13 \in r)
         /\ 11 \in Rolled(r) <=> ~(3 \in r <=> 14 \in r)
         /\ 12 \in Rolled(r) <=> ~(~(~(4 \in r <=> 8 \in r) <=> 12 \in r) <=> 15 \in r)
         /\ 13 \in Rolled(r) <=> ~(~(5 \in r <=> 9 \in r) <=> 13 \in r)
         /\ 14 \in Rolled(r) <=> ~(~(6 \in r <=> 10 \in r) <=> 14 \in r)
         /\ 15 \in Rolled(r) <=> ~(~(7 \in r <=> 11 \in r) <=> 15 \in r)
<1>1. PICK g \in [0..8 -> Registers] : g[0] = r /\ Rolls(g) /\ Rolled(r) = g[8]
  BY RolledIs
<1>2. /\ g[0] \in Registers /\ g[1] \in Registers /\ g[2] \in Registers /\ g[3] \in Registers
      /\ g[4] \in Registers /\ g[5] \in Registers /\ g[6] \in Registers /\ g[7] \in Registers
  OBVIOUS
<1>3. ASSUME NEW n \in 0..7
      PROVE  /\ 0 \in g[n + 1] <=> 15 \in g[n]
             /\ 1 \in g[n + 1] <=> 0 \in g[n]
             /\ 2 \in g[n + 1] <=> 1 \in g[n]
             /\ 3 \in g[n + 1] <=> 2 \in g[n]
             /\ 4 \in g[n + 1] <=> 3 \in g[n]
             /\ 5 \in g[n + 1] <=> ~(4 \in g[n] <=> 15 \in g[n])
             /\ 6 \in g[n + 1] <=> 5 \in g[n]
             /\ 7 \in g[n + 1] <=> 6 \in g[n]
             /\ 8 \in g[n + 1] <=> 7 \in g[n]
             /\ 9 \in g[n + 1] <=> 8 \in g[n]
             /\ 10 \in g[n + 1] <=> 9 \in g[n]
             /\ 11 \in g[n + 1] <=> 10 \in g[n]
             /\ 12 \in g[n + 1] <=> ~(11 \in g[n] <=> 15 \in g[n])
             /\ 13 \in g[n + 1] <=> 12 \in g[n]
             /\ 14 \in g[n + 1] <=> 13 \in g[n]
             /\ 15 \in g[n + 1] <=> 14 \in g[n]
  <2>1. g[n + 1] = Shifted(g[n]) /\ g[n] \in Registers
    <3>1. n + 1 \in 1..8 /\ (n + 1) - 1 = n
      OBVIOUS
    <3>. QED BY <1>1, <3>1 DEF Rolls
  <2>. QED BY <2>1, ShiftedBits
<1>4. /\ 0 \in g[2] <=> 14 \in r
      /\ 1 \in g[2] <=> 15 \in r
      /\ 2 \in g[2] <=> 0 \in r
      /\ 3 \in g[2] <=> 1 \in r
      /\ 4 \in g[2] <=> 2 \in r
      /\ 5 \in g[2] <=> ~(3 \in r <=> 14 \in r)
      /\ 6 \in g[2] <=> ~(4 \in r <=> 15 \in r)
      /\ 7 \in g[2] <=> 5 \in r
      /\ 8 \in g[2] <=> 6 \in r
      /\ 9 \in g[2] <=> 7 \in r
      /\ 10 \in g[2] <=> 8 \in r
      /\ 11 \in g[2] <=> 9 \in r
      /\ 12 \in g[2] <=> ~(10 \in r <=> 14 \in r)
      /\ 13 \in g[2] <=> ~(11 \in r <=> 15 \in r)
      /\ 14 \in g[2] <=> 12 \in r
      /\ 15 \in g[2] <=> 13 \in r
  BY <1>3, <1>1
<1>5. /\ 0 \in g[4] <=> 12 \in r
      /\ 1 \in g[4] <=> 13 \in r
      /\ 2 \in g[4] <=> 14 \in r
      /\ 3 \in g[4] <=> 15 \in r
      /\ 4 \in g[4] <=> 0 \in r
      /\ 5 \in g[4] <=> ~(1 \in r <=> 12 \in r)
      /\ 6 \in g[4] <=> ~(2 \in r <=> 13 \in r)
      /\ 7 \in g[4] <=> ~(3 \in r <=> 14 \in r)
      /\ 8 \in g[4] <=> ~(4 \in r <=> 15 \in r)
      /\ 9 \in g[4] <=> 5 \in r
      /\ 10 \in g[4] <=> 6 \in r
      /\ 11 \in g[4] <=> 7 \in r
      /\ 12 \in g[4] <=> ~(8 \in r <=> 12 \in r)
      /\ 13 \in g[4] <=> ~(9 \in r <=> 13 \in r)
      /\ 14 \in g[4] <=> ~(10 \in r <=> 14 \in r)
      /\ 15 \in g[4] <=> ~(11 \in r <=> 15 \in r)
  BY <1>3, <1>4
<1>6. /\ 0 \in g[6] <=> ~(10 \in r <=> 14 \in r)
      /\ 1 \in g[6] <=> ~(11 \in r <=> 15 \in r)
      /\ 2 \in g[6] <=> 12 \in r
      /\ 3 \in g[6] <=> 13 \in r
      /\ 4 \in g[6] <=> 14 \in r
      /\ 5 \in g[6] <=> ~(~(10 \in r <=> 14 \in r) <=> 15 \in r)
      /\ 6 \in g[6] <=> ~(~(0 \in r <=> 11 \in r) <=> 15 \in r)
      /\ 7 \in g[6] <=> ~(1 \in r <=> 12 \in r)
      /\ 8 \in g[6] <=> ~(2 \in r <=> 13 \in r)
      /\ 9 \in g[6] <=> ~(3 \in r <=> 14 \in r)
      /\ 10 \in g[6] <=> ~(4 \in r <=> 15 \in r)
      /\ 11 \in g[6] <=> 5 \in r
      /\ 12 \in g[6] <=> ~(~(6 \in r <=> 10 \in r) <=> 14 \in r)
      /\ 13 \in g[6] <=> ~(~(7 \in r <=> 11 \in r) <=> 15 \in r)
      /\ 14 \in g[6] <=> ~(8 \in r <=> 12 \in r)
      /\ 15 \in g[6] <=> ~(9 \in r <=> 13 \in r)
  BY <1>3, <1>5
<1>7. /\ 0 \in g[8] <=> ~(8 \in r <=> 12 \in r)
      /\ 1 \in g[8] <=> ~(9 \in r <=> 13 \in r)
      /\ 2 \in g[8] <=> ~(10 \in r <=> 14 \in r)
      /\ 3 \in g[8] <=> ~(11 \in r <=> 15 \in r)
      /\ 4 \in g[8] <=> 12 \in r
      /\ 5 \in g[8] <=> ~(~(8 \in r <=> 12 \in r) <=> 13 \in r)
      /\ 6 \in g[8] <=> ~(~(9 \in r <=> 13 \in r) <=> 14 \in r)
      /\ 7 \in g[8] <=> ~(~(10 \in r <=> 14 \in r) <=> 15 \in r)
      /\ 8 \in g[8] <=> ~(~(0 \in r <=> 11 \in r) <=> 15 \in r)
      /\ 9 \in g[8] <=> ~(1 \in r <=> 12 \in r)
      /\ 10 \in g[8] <=> ~(2 \in r <=> 13 \in r)
      /\ 11 \in g[8] <=> ~(3 \in r <=> 14 \in r)
      /\ 12 \in g[8] <=> ~(~(~(4 \in r <=> 8 \in r) <=> 12 \in r) <=> 15 \in r)
      /\ 13 \in g[8] <=> ~(~(5 \in r <=> 9 \in r) <=> 13 \in r)
      /\ 14 \in g[8] <=> ~(~(6 \in r <=> 10 \in r) <=> 14 \in r)
      /\ 15 \in g[8] <=> ~(~(7 \in r <=> 11 \in r) <=> 15 \in r)
  BY <1>3, <1>6
<1>. QED BY <1>1, <1>7

LEMMA SameRegister ==
  ASSUME NEW a \in Registers, NEW b \in Registers,
         0 \in a <=> 0 \in b,
         1 \in a <=> 1 \in b,
         2 \in a <=> 2 \in b,
         3 \in a <=> 3 \in b,
         4 \in a <=> 4 \in b,
         5 \in a <=> 5 \in b,
         6 \in a <=> 6 \in b,
         7 \in a <=> 7 \in b,
         8 \in a <=> 8 \in b,
         9 \in a <=> 9 \in b,
         10 \in a <=> 10 \in b,
         11 \in a <=> 11 \in b,
         12 \in a <=> 12 \in b,
         13 \in a <=> 13 \in b,
         14 \in a <=> 14 \in b,
         15 \in a <=> 15 \in b
  PROVE  a = b
<1>1. ASSUME NEW x \in 0..15 PROVE x \in a <=> x \in b
  <2>1. \/ x = 0 \/ x = 1 \/ x = 2 \/ x = 3 \/ x = 4 \/ x = 5 \/ x = 6 \/ x = 7 \/ x = 8
        \/ x = 9 \/ x = 10 \/ x = 11 \/ x = 12 \/ x = 13 \/ x = 14 \/ x = 15
    OBVIOUS
  <2>. QED BY <2>1
<1>. QED BY <1>1 DEF Registers

LEMMA RolledXor ==
  ASSUME NEW a \in Registers, NEW b \in Registers
  PROVE  Rolled(Xor(a, b)) = Xor(Rolled(a), Rolled(b))
<1>1. PICK c \in Registers : c = Xor(a, b)
  BY XorRegister
<1>2. \A x \in 0..15 : x \in c <=> ~(x \in a <=> x \in b)
  BY <1>1, XorIn
<1>3. PICK p, q, s : p = Rolled(a) /\ q = Rolled(b) /\ s = Rolled(c)
  OBVIOUS
<1>4. /\ 0 \in s <=> ~(0 \in p <=> 0 \in q)
      /\ 1 \in s <=> ~(1 \in p <=> 1 \in q)
      /\ 2 \in s <=> ~(2 \in p <=> 2 \in q)
      /\ 3 \in s <=> ~(3 \in p <=> 3 \in q)
      /\ 4 \in s <=> ~(4 \in p <=> 4 \in q)
      /\ 5 \in s <=> ~(5 \in p <=> 5 \in q)
      /\ 6 \in s <=> ~(6 \in p <=> 6 \in q)
      /\ 7 \in s <=> ~(7 \in p <=> 7 \in q)
      /\ 8 \in s <=> ~(8 \in p <=> 8 \in q)
      /\ 9 \in s <=> ~(9 \in p <=> 9 \in q)
      /\ 10 \in s <=> ~(10 \in p <=> 10 \in q)
      /\ 11 \in s <=> ~(11 \in p <=> 11 \in q)
      /\ 12 \in s <=> ~(12 \in p <=> 12 \in q)
      /\ 13 \in s <=> ~(13 \in p <=> 13 \in q)
      /\ 14 \in s <=> ~(14 \in p <=> 14 \in q)
      /\ 15 \in s <=> ~(15 \in p <=> 15 \in q)
  BY <1>2, <1>3, RolledBits
<1>5. p \in Registers /\ q \in Registers /\ s \in Registers
  BY <1>3, RolledIn
<1>6. PICK t \in Registers : t = Xor(p, q)
  BY <1>5, XorRegister
<1>7. s = t
  <2>1. /\ 0 \in t <=> ~(0 \in p <=> 0 \in q)
        /\ 1 \in t <=> ~(1 \in p <=> 1 \in q)
        /\ 2 \in t <=> ~(2 \in p <=> 2 \in q)
        /\ 3 \in t <=> ~(3 \in p <=> 3 \in q)
        /\ 4 \in t <=> ~(4 \in p <=> 4 \in q)
        /\ 5 \in t <=> ~(5 \in p <=> 5 \in q)
        /\ 6 \in t <=> ~(6 \in p <=> 6 \in q)
        /\ 7 \in t <=> ~(7 \in p <=> 7 \in q)
        /\ 8 \in t <=> ~(8 \in p <=> 8 \in q)
        /\ 9 \in t <=> ~(9 \in p <=> 9 \in q)
        /\ 10 \in t <=> ~(10 \in p <=> 10 \in q)
        /\ 11 \in t <=> ~(11 \in p <=> 11 \in q)
        /\ 12 \in t <=> ~(12 \in p <=> 12 \in q)
        /\ 13 \in t <=> ~(13 \in p <=> 13 \in q)
        /\ 14 \in t <=> ~(14 \in p <=> 14 \in q)
        /\ 15 \in t <=> ~(15 \in p <=> 15 \in q)
    BY <1>6, XorIn
  <2>. QED BY ONLY <1>4, <2>1, <1>5, t \in Registers, SameRegister
<1>. QED BY <1>1, <1>3, <1>6, <1>7

LEMMA RolledBack ==
  ASSUME NEW a \in Registers, NEW b \in Registers, Rolled(a) = Rolled(b) PROVE a = b
<1>1. /\ 0 \in a <=> 0 \in b
      /\ 1 \in a <=> 1 \in b
      /\ 2 \in a <=> 2 \in b
      /\ 3 \in a <=> 3 \in b
      /\ 4 \in a <=> 4 \in b
      /\ 5 \in a <=> 5 \in b
      /\ 6 \in a <=> 6 \in b
      /\ 7 \in a <=> 7 \in b
      /\ 8 \in a <=> 8 \in b
      /\ 9 \in a <=> 9 \in b
      /\ 10 \in a <=> 10 \in b
      /\ 11 \in a <=> 11 \in b
      /\ 12 \in a <=> 12 \in b
      /\ 13 \in a <=> 13 \in b
      /\ 14 \in a <=> 14 \in b
      /\ 15 \in a <=> 15 \in b
  BY RolledBits
<1>. QED BY <1>1, SameRegister

LEMMA OneBitRolls ==
  ASSUME NEW j \in 0..7
  PROVE  {8 + j} \in Registers /\ j \in Rolled({8 + j}) /\ j + 5 \in Rolled({8 + j})
<1>1. PICK r \in Registers : r = {8 + j}
  <2>1. 8 + j \in 0..15
    OBVIOUS
  <2>. QED BY <2>1 DEF Registers
<1>2. \A x \in 0..15 : x \in r <=> x = 8 + j
  BY <1>1
<1>3. j = 0 \/ j = 1 \/ j = 2 \/ j = 3 \/ j = 4 \/ j = 5 \/ j = 6 \/ j = 7
  OBVIOUS
<1>. QED BY <1>1, <1>2, <1>3, RolledBits

(* A byte enters, bit by bit. *)
LEMMA EntryBits ==
  ASSUME NEW reg \in Registers, NEW byte, NEW r, r = Xor(reg, ShiftedBy(8, BitsOf(byte)))
  PROVE  /\ 0 \in r <=> 0 \in reg
         /\ 1 \in r <=> 1 \in reg
         /\ 2 \in r <=> 2 \in reg
         /\ 3 \in r <=> 3 \in reg
         /\ 4 \in r <=> 4 \in reg
         /\ 5 \in r <=> 5 \in reg
         /\ 6 \in r <=> 6 \in reg
         /\ 7 \in r <=> 7 \in reg
         /\ 8 \in r <=> ~(8 \in reg <=> 0 \in BitsOf(byte))
         /\ 9 \in r <=> ~(9 \in reg <=> 1 \in BitsOf(byte))
         /\ 10 \in r <=> ~(10 \in reg <=> 2 \in BitsOf(byte))
         /\ 11 \in r <=> ~(11 \in reg <=> 3 \in BitsOf(byte))
         /\ 12 \in r <=> ~(12 \in reg <=> 4 \in BitsOf(byte))
         /\ 13 \in r <=> ~(13 \in reg <=> 5 \in BitsOf(byte))
         /\ 14 \in r <=> ~(14 \in reg <=> 6 \in BitsOf(byte))
         /\ 15 \in r <=> ~(15 \in reg <=> 7 \in BitsOf(byte))
<1>0. PICK n \in Int : n = 8
  OBVIOUS
<1>1. PICK b : n = 8 /\ b = BitsOf(byte)
  BY <1>0
<1>2. b \subseteq 0..7 /\ b \subseteq Int
  BY <1>1, Bytes
<1>3. ASSUME NEW x \in Int PROVE x \in ShiftedBy(n, b) <=> x - n \in b
  BY <1>2, ShiftIn
<1>4. ASSUME NEW x \in 0..15 PROVE x \in r <=> ~(x \in reg <=> x - n \in b)
  BY <1>1, <1>3, XorIn
<1>5. ASSUME NEW x \in 0..7
      PROVE  (x \in r <=> x \in reg) /\ (x + 8 \in r <=> ~(x + 8 \in reg <=> x \in b))
  BY <1>1, <1>2, <1>4
<1>. QED BY <1>1, <1>5

(* The reset command, byte by byte, and another byte in its place. *)
LEMMA After165 == AfterByte(Preset, 165) = {0, 1, 2, 3, 4, 5, 7, 10}
<1>1. PICK reg, t, byte : reg = Preset /\ t = {0, 1, 2, 3, 4, 5, 7, 10} /\ byte = 165
  OBVIOUS
<1>1a. reg \in Registers /\ t \in Registers
  BY <1>1 DEF Registers, Preset, Width
<1>2. PICK r \in Registers : r = Xor(reg, ShiftedBy(8, BitsOf(byte)))
  BY <1>1a, ByteEnters
<1>3. AfterByte(reg, byte) = Rolled(r) /\ Rolled(r) \in Registers
  BY <1>1a, <1>2, AfterIsRolled, RolledIn
<1>4. /\ 0 \in BitsOf(byte) /\ 1 \notin BitsOf(byte) /\ 2 \in BitsOf(byte) /\ 3 \notin BitsOf(byte)
      /\ 4 \notin BitsOf(byte) /\ 5 \in BitsOf(byte) /\ 6 \notin BitsOf(byte) /\ 7 \in BitsOf(byte)
  BY <1>1, BitsAre
<1>5. /\ 0 \in r /\ 1 \in r /\ 2 \in r /\ 3 \in r /\ 4 \in r /\ 5 \in r /\ 6 \in r /\ 7 \in r
      /\ 8 \notin r /\ 9 \in r /\ 10 \notin r /\ 11 \in r /\ 12 \in r /\ 13 \notin r /\ 14 \in r /\ 15 \notin r
  BY <1>1, <1>1a, <1>2, <1>4, EntryBits DEF Preset, Width
<1>6. /\ (0 \in Rolled(r) <=> 0 \in t) /\ (1 \in Rolled(r) <=> 1 \in t) /\ (2 \in Rolled(r) <=> 2 \in t) /\ (3 \in Rolled(r) <=> 3 \in t)
      /\ (4 \in Rolled(r) <=> 4 \in t) /\ (5 \in Rolled(r) <=> 5 \in t) /\ (6 \in Rolled(r) <=> 6 \in t) /\ (7 \in Rolled(r) <=> 7 \in t)
      /\ (8 \in Rolled(r) <=> 8 \in t) /\ (9 \in Rolled(r) <=> 9 \in t) /\ (10 \in Rolled(r) <=> 10 \in t) /\ (11 \in Rolled(r) <=> 11 \in t)
      /\ (12 \in Rolled(r) <=> 12 \in t) /\ (13 \in Rolled(r) <=> 13 \in t) /\ (14 \in Rolled(r) <=> 14 \in t) /\ (15 \in Rolled(r) <=> 15 \in t)
  BY <1>1, <1>5, RolledBits
<1>. QED BY <1>1, <1>1a, <1>3, <1>6, SameRegister

LEMMA After5 == AfterByte({0, 1, 2, 3, 4, 5, 7, 10}, 5) = {0, 5, 8, 9, 10, 11, 13, 15}
<1>1. PICK reg, t, byte : reg = {0, 1, 2, 3, 4, 5, 7, 10} /\ t = {0, 5, 8, 9, 10, 11, 13, 15} /\ byte = 5
  OBVIOUS
<1>1a. reg \in Registers /\ t \in Registers
  BY <1>1 DEF Registers, Preset, Width
<1>2. PICK r \in Registers : r = Xor(reg, ShiftedBy(8, BitsOf(byte)))
  BY <1>1a, ByteEnters
<1>3. AfterByte(reg, byte) = Rolled(r) /\ Rolled(r) \in Registers
  BY <1>1a, <1>2, AfterIsRolled, RolledIn
<1>4. /\ 0 \in BitsOf(byte) /\ 1 \notin BitsOf(byte) /\ 2 \in BitsOf(byte) /\ 3 \notin BitsOf(byte)
      /\ 4 \notin BitsOf(byte) /\ 5 \notin BitsOf(byte) /\ 6 \notin BitsOf(byte) /\ 7 \notin BitsOf(byte)
  BY <1>1, BitsAre
<1>5. /\ 0 \in r /\ 1 \in r /\ 2 \in r /\ 3 \in r /\ 4 \in r /\ 5 \in r /\ 6 \notin r /\ 7 \in r
      /\ 8 \in r /\ 9 \notin r /\ 10 \notin r /\ 11 \notin r /\ 12 \notin r /\ 13 \notin r /\ 14 \notin r /\ 15 \notin r
  BY <1>1, <1>1a, <1>2, <1>4, EntryBits DEF Preset, Width
<1>6. /\ (0 \in Rolled(r) <=> 0 \in t) /\ (1 \in Rolled(r) <=> 1 \in t) /\ (2 \in Rolled(r) <=> 2 \in t) /\ (3 \in Rolled(r) <=> 3 \in t)
      /\ (4 \in Rolled(r) <=> 4 \in t) /\ (5 \in Rolled(r) <=> 5 \in t) /\ (6 \in Rolled(r) <=> 6 \in t) /\ (7 \in Rolled(r) <=> 7 \in t)
      /\ (8 \in Rolled(r) <=> 8 \in t) /\ (9 \in Rolled(r) <=> 9 \in t) /\ (10 \in Rolled(r) <=> 10 \in t) /\ (11 \in Rolled(r) <=> 11 \in t)
      /\ (12 \in Rolled(r) <=> 12 \in t) /\ (13 \in Rolled(r) <=> 13 \in t) /\ (14 \in Rolled(r) <=> 14 \in t) /\ (15 \in Rolled(r) <=> 15 \in t)
  BY <1>1, <1>5, RolledBits
<1>. QED BY <1>1, <1>1a, <1>3, <1>6, SameRegister

LEMMA After1 == AfterByte({0, 5, 8, 9, 10, 11, 13, 15}, 1) = {2, 5, 8, 10, 12, 13, 14}
<1>1. PICK reg, t, byte : reg = {0, 5, 8, 9, 10, 11, 13, 15} /\ t = {2, 5, 8, 10, 12, 13, 14} /\ byte = 1
  OBVIOUS
<1>1a. reg \in Registers /\ t \in Registers
  BY <1>1 DEF Registers, Preset, Width
<1>2. PICK r \in Registers : r = Xor(reg, ShiftedBy(8, BitsOf(byte)))
  BY <1>1a, ByteEnters
<1>3. AfterByte(reg, byte) = Rolled(r) /\ Rolled(r) \in Registers
  BY <1>1a, <1>2, AfterIsRolled, RolledIn
<1>4. /\ 0 \in BitsOf(byte) /\ 1 \notin BitsOf(byte) /\ 2 \notin BitsOf(byte) /\ 3 \notin BitsOf(byte)
      /\ 4 \notin BitsOf(byte) /\ 5 \notin BitsOf(byte) /\ 6 \notin BitsOf(byte) /\ 7 \notin BitsOf(byte)
  BY <1>1, BitsAre
<1>5. /\ 0 \in r /\ 1 \notin r /\ 2 \notin r /\ 3 \notin r /\ 4 \notin r /\ 5 \in r /\ 6 \notin r /\ 7 \notin r
      /\ 8 \notin r /\ 9 \in r /\ 10 \in r /\ 11 \in r /\ 12 \notin r /\ 13 \in r /\ 14 \notin r /\ 15 \in r
  BY <1>1, <1>1a, <1>2, <1>4, EntryBits DEF Preset, Width
<1>6. /\ (0 \in Rolled(r) <=> 0 \in t) /\ (1 \in Rolled(r) <=> 1 \in t) /\ (2 \in Rolled(r) <=> 2 \in t) /\ (3 \in Rolled(r) <=> 3 \in t)
      /\ (4 \in Rolled(r) <=> 4 \in t) /\ (5 \in Rolled(r) <=> 5 \in t) /\ (6 \in Rolled(r) <=> 6 \in t) /\ (7 \in Rolled(r) <=> 7 \in t)
      /\ (8 \in Rolled(r) <=> 8 \in t) /\ (9 \in Rolled(r) <=> 9 \in t) /\ (10 \in Rolled(r) <=> 10 \in t) /\ (11 \in Rolled(r) <=> 11 \in t)
      /\ (12 \in Rolled(r) <=> 12 \in t) /\ (13 \in Rolled(r) <=> 13 \in t) /\ (14 \in Rolled(r) <=> 14 \in t) /\ (15 \in Rolled(r) <=> 15 \in t)
  BY <1>1, <1>5, RolledBits
<1>. QED BY <1>1, <1>1a, <1>3, <1>6, SameRegister

LEMMA After0 == AfterByte({2, 5, 8, 10, 12, 13, 14}, 0) = {1, 4, 5, 9, 11}
<1>1. PICK reg, t, byte : reg = {2, 5, 8, 10, 12, 13, 14} /\ t = {1, 4, 5, 9, 11} /\ byte = 0
  OBVIOUS
<1>1a. reg \in Registers /\ t \in Registers
  BY <1>1 DEF Registers, Preset, Width
<1>2. PICK r \in Registers : r = Xor(reg, ShiftedBy(8, BitsOf(byte)))
  BY <1>1a, ByteEnters
<1>3. AfterByte(reg, byte) = Rolled(r) /\ Rolled(r) \in Registers
  BY <1>1a, <1>2, AfterIsRolled, RolledIn
<1>4. /\ 0 \notin BitsOf(byte) /\ 1 \notin BitsOf(byte) /\ 2 \notin BitsOf(byte) /\ 3 \notin BitsOf(byte)
      /\ 4 \notin BitsOf(byte) /\ 5 \notin BitsOf(byte) /\ 6 \notin BitsOf(byte) /\ 7 \notin BitsOf(byte)
  BY <1>1, BitsAre
<1>5. /\ 0 \notin r /\ 1 \notin r /\ 2 \in r /\ 3 \notin r /\ 4 \notin r /\ 5 \in r /\ 6 \notin r /\ 7 \notin r
      /\ 8 \in r /\ 9 \notin r /\ 10 \in r /\ 11 \notin r /\ 12 \in r /\ 13 \in r /\ 14 \in r /\ 15 \notin r
  BY <1>1, <1>1a, <1>2, <1>4, EntryBits DEF Preset, Width
<1>6. /\ (0 \in Rolled(r) <=> 0 \in t) /\ (1 \in Rolled(r) <=> 1 \in t) /\ (2 \in Rolled(r) <=> 2 \in t) /\ (3 \in Rolled(r) <=> 3 \in t)
      /\ (4 \in Rolled(r) <=> 4 \in t) /\ (5 \in Rolled(r) <=> 5 \in t) /\ (6 \in Rolled(r) <=> 6 \in t) /\ (7 \in Rolled(r) <=> 7 \in t)
      /\ (8 \in Rolled(r) <=> 8 \in t) /\ (9 \in Rolled(r) <=> 9 \in t) /\ (10 \in Rolled(r) <=> 10 \in t) /\ (11 \in Rolled(r) <=> 11 \in t)
      /\ (12 \in Rolled(r) <=> 12 \in t) /\ (13 \in Rolled(r) <=> 13 \in t) /\ (14 \in Rolled(r) <=> 14 \in t) /\ (15 \in Rolled(r) <=> 15 \in t)
  BY <1>1, <1>5, RolledBits
<1>. QED BY <1>1, <1>1a, <1>3, <1>6, SameRegister

LEMMA After46 == AfterByte({2, 5, 8, 10, 12, 13, 14}, 46) = {1, 2, 3, 4, 7, 8, 9, 10, 11, 14, 15}
<1>1. PICK reg, t, byte : reg = {2, 5, 8, 10, 12, 13, 14} /\ t = {1, 2, 3, 4, 7, 8, 9, 10, 11, 14, 15} /\ byte = 46
  OBVIOUS
<1>1a. reg \in Registers /\ t \in Registers
  BY <1>1 DEF Registers, Preset, Width
<1>2. PICK r \in Registers : r = Xor(reg, ShiftedBy(8, BitsOf(byte)))
  BY <1>1a, ByteEnters
<1>3. AfterByte(reg, byte) = Rolled(r) /\ Rolled(r) \in Registers
  BY <1>1a, <1>2, AfterIsRolled, RolledIn
<1>4. /\ 0 \notin BitsOf(byte) /\ 1 \in BitsOf(byte) /\ 2 \in BitsOf(byte) /\ 3 \in BitsOf(byte)
      /\ 4 \notin BitsOf(byte) /\ 5 \in BitsOf(byte) /\ 6 \notin BitsOf(byte) /\ 7 \notin BitsOf(byte)
  BY <1>1, BitsAre
<1>5. /\ 0 \notin r /\ 1 \notin r /\ 2 \in r /\ 3 \notin r /\ 4 \notin r /\ 5 \in r /\ 6 \notin r /\ 7 \notin r
      /\ 8 \in r /\ 9 \in r /\ 10 \notin r /\ 11 \in r /\ 12 \in r /\ 13 \notin r /\ 14 \in r /\ 15 \notin r
  BY <1>1, <1>1a, <1>2, <1>4, EntryBits DEF Preset, Width
<1>6. /\ (0 \in Rolled(r) <=> 0 \in t) /\ (1 \in Rolled(r) <=> 1 \in t) /\ (2 \in Rolled(r) <=> 2 \in t) /\ (3 \in Rolled(r) <=> 3 \in t)
      /\ (4 \in Rolled(r) <=> 4 \in t) /\ (5 \in Rolled(r) <=> 5 \in t) /\ (6 \in Rolled(r) <=> 6 \in t) /\ (7 \in Rolled(r) <=> 7 \in t)
      /\ (8 \in Rolled(r) <=> 8 \in t) /\ (9 \in Rolled(r) <=> 9 \in t) /\ (10 \in Rolled(r) <=> 10 \in t) /\ (11 \in Rolled(r) <=> 11 \in t)
      /\ (12 \in Rolled(r) <=> 12 \in t) /\ (13 \in Rolled(r) <=> 13 \in t) /\ (14 \in Rolled(r) <=> 14 \in t) /\ (15 \in Rolled(r) <=> 15 \in t)
  BY <1>1, <1>5, RolledBits
<1>. QED BY <1>1, <1>1a, <1>3, <1>6, SameRegister

(* What process_rx_buffer makes of a read. *)
Spoken(read, m, agreeing, f, i) ==
  IF i > m \/ (Begins(read, i) /\ i + 5 > m) THEN {}
  ELSE IF Begins(read, i) THEN {c \in {read[i + 3]} : i \in agreeing} \cup f[i + 6]
  ELSE f[i + 1]

Spoke(read, m, agreeing, f) == f = [i \in 1..m + 1 |-> Spoken(read, m, agreeing, f, i)]

LEMMA SpokenAhead ==
  ASSUME NEW read, NEW m \in Nat, NEW agreeing, NEW f, NEW g, NEW i \in 1..m + 1,
         \A j \in i + 1..m + 1 : f[j] = g[j]
  PROVE  Spoken(read, m, agreeing, f, i) = Spoken(read, m, agreeing, g, i)
<1>1. i <= m => f[i + 1] = g[i + 1]
  OBVIOUS
<1>2. i + 5 <= m => f[i + 6] = g[i + 6]
  OBVIOUS
<1>3. CASE i <= m /\ Begins(read, i) /\ i + 5 <= m
  BY <1>2, <1>3 DEF Spoken
<1>4. CASE i <= m /\ ~Begins(read, i)
  BY <1>1, <1>4 DEF Spoken
<1>5. CASE i > m \/ (i <= m /\ Begins(read, i) /\ i + 5 > m)
  BY <1>5 DEF Spoken
<1>. QED BY <1>3, <1>4, <1>5

LEMMA SpokenExists ==
  ASSUME NEW read, NEW m \in Nat, NEW agreeing
  PROVE  \E f : Spoke(read, m, agreeing, f)
<1> DEFINE Right(f, n) == /\ f = [i \in 1..m + 1 |-> f[i]]
                          /\ \A i \in 1..m + 1 : i > m + 1 - n => f[i] = Spoken(read, m, agreeing, f, i)
<1> DEFINE T == {n \in Nat : n <= m + 1 => \E f : Right(f, n)}
<1>1. 0 \in T
  <2>1. PICK f : f = [i \in 1..m + 1 |-> {}]
    OBVIOUS
  <2>2. Right(f, 0)
    BY <2>1
  <2>. QED BY <2>2
<1>2. ASSUME NEW n \in Nat, n \in T PROVE n + 1 \in T
  <2> SUFFICES ASSUME n + 1 <= m + 1 PROVE \E f : Right(f, n + 1)
    OBVIOUS
  <2>1. PICK f : Right(f, n)
    BY <1>2
  <2>2. PICK k \in 1..m + 1 : k = m + 1 - n
    OBVIOUS
  <2>3. PICK g : g = [i \in 1..m + 1 |-> IF i = k THEN Spoken(read, m, agreeing, f, k) ELSE f[i]]
    OBVIOUS
  <2>4. \A i \in 1..m + 1 : i # k => g[i] = f[i]
    BY <2>3
  <2>5. g[k] = Spoken(read, m, agreeing, f, k)
    BY <2>3
  <2>6. ASSUME NEW i \in 1..m + 1, i > m + 1 - (n + 1)
        PROVE  g[i] = Spoken(read, m, agreeing, g, i)
    <3>1. i >= k
      BY <2>2, <2>6
    <3>2. \A j \in i + 1..m + 1 : f[j] = g[j]
      BY <2>4, <3>1
    <3>3. Spoken(read, m, agreeing, f, i) = Spoken(read, m, agreeing, g, i)
      BY <3>2, SpokenAhead
    <3>4. CASE i = k
      BY <2>5, <3>3, <3>4
    <3>5. CASE i # k
      <4>1. i > m + 1 - n
        BY <2>2, <3>1, <3>5
      <4>. QED BY <2>1, <2>4, <3>3, <3>5, <4>1
    <3>. QED BY <3>4, <3>5
  <2>7. g = [i \in 1..m + 1 |-> g[i]]
    BY <2>3
  <2>8. Right(g, n + 1)
    BY <2>6, <2>7
  <2>. QED BY <2>8
<1>3. m + 1 \in T
  <2> HIDE DEF T
  <2>1. m + 1 \in Nat
    OBVIOUS
  <2>. QED BY <1>1, <1>2, <2>1, Induction
<1>4. PICK f : Right(f, m + 1)
  BY <1>3
<1>5. \A i \in 1..m + 1 : f[i] = Spoken(read, m, agreeing, f, i)
  BY <1>4
<1>6. f = [i \in 1..m + 1 |-> Spoken(read, m, agreeing, f, i)]
  BY <1>4, <1>5
<1>. QED BY <1>6 DEF Spoke

Follows(read, m, agreeing, f) ==
  \A i \in 1..m + 1 : f[i] = Spoken(read, m, agreeing, f, i)

LEMMA HeardWhenIs ==
  ASSUME NEW read, NEW m \in Nat, m = Len(read), NEW agreeing
  PROVE  \E f : HeardWhen(read, agreeing) = f[1] /\ Follows(read, m, agreeing, f)
<1> DEFINE Rec(f) == f = [i \in 1..(Len(read) + 1) |->
        IF i > Len(read) \/ (Begins(read, i) /\ i + 5 > Len(read)) THEN {}
        ELSE IF Begins(read, i) THEN {c \in {read[i + 3]} : i \in agreeing} \cup f[i + 6]
        ELSE f[i + 1]]
<1>1. HeardWhen(read, agreeing) = (CHOOSE f : Rec(f))[1]
  BY DEF HeardWhen
<1>2. \A f : Spoke(read, m, agreeing, f) <=> Rec(f)
  BY DEF Spoke, Spoken
<1> HIDE DEF Rec
<1>3. \E f : Rec(f)
  BY <1>2, SpokenExists
<1>4. PICK f : f = (CHOOSE h : Rec(h)) /\ Rec(f)
  BY <1>3, Zenon
<1>5. f = [i \in 1..m + 1 |-> Spoken(read, m, agreeing, f, i)]
  BY <1>2, <1>4 DEF Spoke
<1>6. Follows(read, m, agreeing, f)
  BY <1>5 DEF Follows
<1>. QED BY <1>1, <1>4, <1>6

Speaks(read, agreeing, c, i) == i \in agreeing /\ Begins(read, i) /\ c = read[i + 3]

LEMMA HeardSomewhere ==
  ASSUME NEW read, NEW m \in Nat, NEW agreeing, NEW f, NEW c,
         Follows(read, m, agreeing, f), c \in f[1]
  PROVE  \E i \in 1..m - 5 : Speaks(read, agreeing, c, i)
<1> DEFINE T == {n \in 0..m : c \in f[m + 1 - n]}
<1>1. T \subseteq Nat /\ T # {}
  <2>1. m \in 0..m /\ m + 1 - m = 1
    OBVIOUS
  <2>. QED BY <2>1
<1>2. PICK x \in T : \A y \in T : ~(y < x)
  <2> HIDE DEF T
  <2>. QED BY <1>1, LeastIs
<1>3. PICK i \in 1..m + 1 : i = m + 1 - x
  OBVIOUS
<1>4. c \in Spoken(read, m, agreeing, f, i)
  BY <1>3 DEF Follows
<1>5. i <= m
  BY <1>4 DEF Spoken
<1>6. c \notin f[i + 1]
  <2>1. x - 1 \in 0..m /\ m + 1 - (x - 1) = i + 1 /\ x - 1 < x
    BY <1>3, <1>5
  <2>2. x - 1 \notin T
    BY <1>2, <2>1
  <2>. QED BY <2>1, <2>2
<1>7. Begins(read, i) /\ i + 5 <= m
  BY <1>4, <1>5, <1>6 DEF Spoken
<1>8. c \in {d \in {read[i + 3]} : i \in agreeing} \cup f[i + 6]
  BY <1>4, <1>5, <1>7 DEF Spoken
<1>9. c \notin f[i + 6]
  <2>1. x - 6 \in 0..m /\ m + 1 - (x - 6) = i + 6 /\ x - 6 < x
    BY <1>3, <1>7
  <2>2. x - 6 \notin T
    BY <1>2, <2>1
  <2>. QED BY <2>1, <2>2
<1>10. i \in 1..m - 5
  BY <1>7
<1>. QED BY <1>7, <1>8, <1>9, <1>10 DEF Speaks

(* Whatever is read, a command is taken only from a start byte, the id and  *)
(* the length of a command, and bytes that agree with the checksum behind  *)
(* them (process_rx_buffer, serial.c 38-87).                               *)
THEOREM HeardIsChecked ==
  ASSUME NEW read, Len(read) \in Nat, NEW c \in Heard(read)
  PROVE  \E i \in 1..Len(read) - 5 :
           /\ read[i] = MagicEncoder /\ read[i + 1] = CommandId /\ read[i + 2] = 1
           /\ read[i + 3] = c /\ ChecksumAgrees(read, i)
<1>1. PICK m \in Nat : m = Len(read)
  OBVIOUS
<1>2. PICK agreeing :
        agreeing = {i \in 1..(Len(read) - 5) : read[i] = MagicEncoder /\ ChecksumAgrees(read, i)}
  OBVIOUS
<1>3. PICK f : HeardWhen(read, agreeing) = f[1] /\ Follows(read, m, agreeing, f)
  BY <1>1, HeardWhenIs
<1>4. c \in f[1]
  BY <1>2, <1>3 DEF Heard
<1>5. PICK i \in 1..m - 5 : i \in agreeing /\ Begins(read, i) /\ c = read[i + 3]
  <2>1. \E i \in 1..m - 5 : Speaks(read, agreeing, c, i)
    BY <1>3, <1>4, HeardSomewhere
  <2>. QED BY <2>1 DEF Speaks
<1>6. read[i] = MagicEncoder /\ ChecksumAgrees(read, i)
  BY <1>2, <1>5
<1>7. read[i + 1] = CommandId /\ read[i + 2] = 1
  <2>1. i + 4 <= Len(read)
    BY <1>1
  <2>. QED BY <1>5, <2>1 DEF Begins
<1>. QED BY <1>1, <1>5, <1>6, <1>7

(* A packet at the beginning of a read is heard, whatever follows it. *)
LEMMA FirstIsHeard ==
  ASSUME NEW read, Len(read) \in Nat, Len(read) >= 6,
         read[1] = MagicEncoder, read[2] = CommandId, read[3] = 1, ChecksumAgrees(read, 1)
  PROVE  read[4] \in Heard(read)
<1>1. PICK m \in Nat : m = Len(read)
  OBVIOUS
<1>2. PICK agreeing :
        agreeing = {i \in 1..(Len(read) - 5) : read[i] = MagicEncoder /\ ChecksumAgrees(read, i)}
  OBVIOUS
<1>3. PICK f : HeardWhen(read, agreeing) = f[1] /\ Follows(read, m, agreeing, f)
  BY <1>1, HeardWhenIs
<1>4. PICK i \in 1..m - 5 : i = 1 /\ i + 1 = 2 /\ i + 2 = 3 /\ i + 3 = 4 /\ i + 5 <= m
  BY <1>1
<1>5. i \in agreeing /\ Begins(read, i)
  BY <1>1, <1>2, <1>4 DEF Begins
<1>6. f[i] = {c \in {read[i + 3]} : i \in agreeing} \cup f[i + 6]
  <2>1. f[i] = Spoken(read, m, agreeing, f, i)
    BY <1>3, <1>4 DEF Follows
  <2>. QED BY <1>4, <1>5, <2>1 DEF Spoken
<1>7. read[i + 3] \in f[i]
  BY <1>5, <1>6
<1>. QED BY <1>2, <1>3, <1>4, <1>7 DEF Heard

(* A register as two bytes. *)
HighBits(reg) == {i \in 0..7 : i + 8 \in reg}
LowBits(reg) == {i \in 0..7 : i \in reg}

LEMMA HalvesAre ==
  ASSUME NEW reg \in Registers, NEW other \in Registers
  PROVE  /\ BitsOf(ByteOf(HighBits(reg))) = HighBits(reg)
         /\ BitsOf(ByteOf(LowBits(reg))) = LowBits(reg)
         /\ ByteOf(HighBits(reg)) \in 0..255 /\ ByteOf(LowBits(reg)) \in 0..255
         /\ HighBits(reg) = HighBits(other) /\ LowBits(reg) = LowBits(other) => reg = other
<1>1. HighBits(reg) \in SUBSET (0..7) /\ LowBits(reg) \in SUBSET (0..7)
  BY DEF HighBits, LowBits
<1>2. ASSUME HighBits(reg) = HighBits(other), LowBits(reg) = LowBits(other), NEW x \in 0..15
      PROVE  x \in reg <=> x \in other
  <2>1. CASE x \in 0..7
    BY <1>2, <2>1 DEF LowBits
  <2>2. CASE x \notin 0..7
    <3>1. PICK y \in 0..7 : y + 8 = x
      BY <2>2
    <3>. QED BY <1>2, <3>1 DEF HighBits
  <2>. QED BY <2>1, <2>2
<1>3. HighBits(reg) = HighBits(other) /\ LowBits(reg) = LowBits(other) => reg = other
  BY <1>2 DEF Registers
<1>4. BitsOf(ByteOf(HighBits(reg))) = HighBits(reg) /\ ByteOf(HighBits(reg)) \in 0..255
  BY <1>1, BitsOfByte
<1>5. BitsOf(ByteOf(LowBits(reg))) = LowBits(reg) /\ ByteOf(LowBits(reg)) \in 0..255
  BY <1>1, BitsOfByte
<1>. QED BY <1>3, <1>4, <1>5

LEMMA ChecksumBytesAre ==
  ASSUME NEW bytes, NEW reg, reg = Checksum(bytes)
  PROVE  ChecksumBytes(bytes) = <<ByteOf(HighBits(reg)), ByteOf(LowBits(reg))>>
BY DEF ChecksumBytes, HighBits, LowBits

(* The checksum of a command. *)
BeforeCommand == {2, 5, 8, 10, 12, 13, 14}
Sum(command) == AfterByte(BeforeCommand, command)

LEMMA BeforeIn == BeforeCommand \in Registers
BY DEF BeforeCommand, Registers

LEMMA SumIs ==
  ASSUME NEW bytes, Len(bytes) = 4, bytes[1] = MagicEncoder, bytes[2] = CommandId, bytes[3] = 1
  PROVE  Checksum(bytes) = Sum(bytes[4])
<1>1. PICK m \in Nat : m = Len(bytes)
  OBVIOUS
<1>2. PICK g \in [0..m -> Registers] : Entered(g, Preset, bytes, m)
  BY <1>1, PresetIn, ChecksumIs
<1>3. m = 4 /\ Checksum(bytes) = g[4]
  BY <1>1, <1>2 DEF Entered, Checksum
<1>4. /\ g[1] = AfterByte(g[0], bytes[1]) /\ g[2] = AfterByte(g[1], bytes[2])
      /\ g[3] = AfterByte(g[2], bytes[3]) /\ g[4] = AfterByte(g[3], bytes[4])
  BY <1>2, <1>3 DEF Entered
<1>5. g[1] = {0, 1, 2, 3, 4, 5, 7, 10}
  BY <1>2, <1>4, After165 DEF Entered, MagicEncoder
<1>6. g[2] = {0, 5, 8, 9, 10, 11, 13, 15}
  BY <1>4, <1>5, After5 DEF CommandId
<1>7. g[3] = BeforeCommand
  BY <1>4, <1>6, After1 DEF BeforeCommand
<1>. QED BY <1>3, <1>4, <1>7 DEF Sum

LEMMA SumIn == ASSUME NEW command PROVE Sum(command) \in Registers
BY BeforeIn, AfterIn DEF Sum

(* The bytes of a packet of a command. *)
Packs(read) ==
  /\ read[1] = MagicEncoder /\ read[2] = CommandId /\ read[3] = 1
  /\ read[5] = ByteOf(HighBits(Sum(read[4]))) /\ read[6] = ByteOf(LowBits(Sum(read[4])))

LEMMA AgreesIs ==
  ASSUME NEW read \in Seq(Int), Len(read) >= 6,
         read[1] = MagicEncoder, read[2] = CommandId, read[3] = 1
  PROVE  ChecksumAgrees(read, 1) <=> Packs(read)
<1>1. PICK i \in Int, n \in Int : i = 1 /\ n = 4 /\ i + 3 = n /\ i + 4 = 5 /\ i + 5 = 6
  OBVIOUS
<1>2. PICK front : front = SubSeq(read, i, n)
  OBVIOUS
<1>3. ChecksumAgrees(read, i) <=> ChecksumBytes(front) = <<read[5], read[6]>>
  BY <1>1, <1>2 DEF ChecksumAgrees
<1>4. Len(front) = 4 /\ \A k \in 1..4 : front[k] = read[k]
  <2>1. i \in 1..Len(read) /\ n \in 1..Len(read) /\ i <= n + 1
    BY <1>1
  <2>2. /\ Len(front) = n - i + 1
        /\ \A k \in 1..n - i + 1 : front[k] = read[i + k - 1]
    BY <1>2, <2>1
  <2>. QED BY <1>1, <2>2
<1>5. Checksum(front) = Sum(read[4])
  <2>1. Checksum(front) = Sum(front[4])
    BY <1>4, SumIs
  <2>. QED BY <1>4, <2>1
<1>6. ChecksumBytes(front) = <<ByteOf(HighBits(Sum(read[4]))), ByteOf(LowBits(Sum(read[4])))>>
  BY <1>5, ChecksumBytesAre
<1>7. PICK b1, b2 : b1 = ByteOf(HighBits(Sum(read[4]))) /\ b2 = ByteOf(LowBits(Sum(read[4])))
  OBVIOUS
<1>8. <<b1, b2>> = <<read[5], read[6]>> <=> read[5] = b1 /\ read[6] = b2
  OBVIOUS
<1>. QED BY <1>1, <1>3, <1>6, <1>7, <1>8 DEF Packs

LEMMA PacketIs ==
  ASSUME NEW command \in Int, NEW p, p = Packet(command)
  PROVE  /\ p \in Seq(Int) /\ Len(p) = 6
         /\ p[1] = 165 /\ p[2] = 5 /\ p[3] = 1 /\ p[4] = command
         /\ p[5] = ByteOf(HighBits(Sum(command))) /\ p[6] = ByteOf(LowBits(Sum(command)))
<1>1. PICK b1, b2 : b1 = ByteOf(HighBits(Sum(command))) /\ b2 = ByteOf(LowBits(Sum(command)))
  OBVIOUS
<1>2. PICK head : head = <<165, 5, 1, command>>
  OBVIOUS
<1>3. head \in Seq(Int) /\ Len(head) = 4
  BY <1>2
<1>4. ChecksumBytes(head) = <<b1, b2>>
  <2>1. Checksum(head) = Sum(head[4])
    BY <1>2, <1>3, SumIs DEF MagicEncoder, CommandId
  <2>2. head[4] = command
    BY <1>2
  <2>. QED BY <1>1, <2>1, <2>2, ChecksumBytesAre
<1>5. b1 \in Int /\ b2 \in Int
  <2>1. PICK reg \in Registers : reg = Sum(command)
    BY SumIn
  <2>2. ByteOf(HighBits(reg)) \in 0..255 /\ ByteOf(LowBits(reg)) \in 0..255
    BY HalvesAre
  <2>. QED BY <1>1, <2>1, <2>2
<1>6. PICK tail : tail = <<b1, b2>>
  OBVIOUS
<1>6a. tail \in Seq(Int) /\ Len(tail) = 2
  BY <1>5, <1>6
<1>7. p = head \o tail
  BY <1>2, <1>4, <1>6 DEF Packet, MagicEncoder, CommandId
<1>8. PICK a \in Nat, b \in Nat : a = 4 /\ b = 2 /\ a = Len(head) /\ b = Len(tail)
  BY <1>3, <1>6a
<1>9. PICK q : q = head \o tail
  OBVIOUS
<1>10. /\ q \in Seq(Int) /\ Len(q) = a + b
       /\ \A j \in 1..a + b : q[j] = IF j <= a THEN head[j] ELSE tail[j - a]
  <2>1. PICK S : S = Int
    OBVIOUS
  <2>2. head \in Seq(S) /\ tail \in Seq(S)
    BY <1>3, <1>6a, <2>1
  <2>3. a \in Nat /\ b \in Nat /\ a = Len(head) /\ b = Len(tail)
    BY <1>8
  <2>4. /\ head \o tail \in Seq(S) /\ Len(head \o tail) = a + b
        /\ \A j \in 1..a + b : (head \o tail)[j] = IF j <= a THEN head[j] ELSE tail[j - a]
    BY ONLY <2>2, <2>3, Joined
  <2>. QED BY ONLY <1>9, <2>1, <2>4
<1>11. a + b = 6 /\ \A j \in 1..6 : j \in 1..a + b
  BY <1>8
<1>12. q[1] = head[1] /\ q[2] = head[2] /\ q[3] = head[3] /\ q[4] = head[4]
  BY <1>8, <1>10, <1>11
<1>13. q[5] = tail[1] /\ q[6] = tail[2]
  BY <1>8, <1>10, <1>11
<1>14. head[1] = 165 /\ head[2] = 5 /\ head[3] = 1 /\ head[4] = command
  BY <1>2
<1>15. tail[1] = b1 /\ tail[2] = b2
  BY <1>6
<1>16. p = q
  BY <1>7, <1>9
<1>. QED BY ONLY <1>1, <1>10, <1>11, <1>12, <1>13, <1>14, <1>15, <1>16


(* Six bytes of which something is heard are a packet. *)
LEMMA SixBytes ==
  ASSUME NEW read \in Seq(Int), Len(read) = 6, ~Packs(read) PROVE Heard(read) = {}
<1> SUFFICES ASSUME NEW c \in Heard(read) PROVE FALSE
  OBVIOUS
<1>0. Len(read) \in Nat
  OBVIOUS
<1>1. PICK i \in 1..Len(read) - 5 :
           /\ read[i] = MagicEncoder /\ read[i + 1] = CommandId /\ read[i + 2] = 1
           /\ read[i + 3] = c /\ ChecksumAgrees(read, i)
  BY <1>0, HeardIsChecked
<1>2. i = 1 /\ Len(read) >= 6
  OBVIOUS
<1>3. /\ read[1] = MagicEncoder /\ read[2] = CommandId /\ read[3] = 1
      /\ ChecksumAgrees(read, 1)
  BY <1>1, <1>2
<1>. QED BY <1>2, <1>3, AgreesIs

(* Two packets differ in their checksums as the rolled difference of their  *)
(* commands tells.                                                         *)
Entering(bits) == ShiftedBy(8, bits)

LEMMA EnteringIs ==
  /\ Entering({}) = {} /\ {} \in Registers /\ Rolled({}) = {}
  /\ \A e \in SUBSET (0..7) : Entering(e) \in Registers /\ (Entering(e) = {} => e = {})
  /\ \A j \in 0..7 : Entering({j}) = {8 + j}
<1>1. Entering({}) = {} /\ {} \in Registers
  BY DEF Entering, ShiftedBy, Registers
<1>2. Rolled({}) = {}
  <2>1. PICK e \in Registers : e = {}
    BY <1>1
  <2>2. PICK z \in Registers : z = Rolled(e)
    BY RolledIn
  <2>3. \A x \in 0..15 : x \notin e
    BY <2>1
  <2>4. z = e
    <3>1. /\ 0 \notin z /\ 1 \notin z /\ 2 \notin z /\ 3 \notin z /\ 4 \notin z /\ 5 \notin z
          /\ 6 \notin z /\ 7 \notin z /\ 8 \notin z /\ 9 \notin z /\ 10 \notin z /\ 11 \notin z
          /\ 12 \notin z /\ 13 \notin z /\ 14 \notin z /\ 15 \notin z
      BY <2>2, <2>3, RolledBits
    <3>. QED BY <2>3, <3>1, SameRegister
  <2>. QED BY <2>1, <2>2, <2>4
<1>3. ASSUME NEW e \in SUBSET (0..7)
      PROVE  Entering(e) \in Registers /\ (Entering(e) = {} => e = {})
  BY DEF Entering, ShiftedBy, Registers
<1>4. ASSUME NEW j \in 0..7 PROVE Entering({j}) = {8 + j}
  BY DEF Entering, ShiftedBy
<1>. QED BY <1>1, <1>2, <1>3, <1>4

LEMMA HalvesXor ==
  ASSUME NEW a, NEW b
  PROVE  /\ HighBits(Xor(a, b)) = Xor(HighBits(a), HighBits(b))
         /\ LowBits(Xor(a, b)) = Xor(LowBits(a), LowBits(b))
BY DEF HighBits, LowBits, Xor

LEMMA SumDiffers ==
  ASSUME NEW c, NEW v, NEW e, e = Xor(BitsOf(v), BitsOf(c))
  PROVE  Sum(v) = Xor(Sum(c), Rolled(Entering(e)))
<1>1. PICK d, f : d = Entering(BitsOf(c)) /\ f = Entering(BitsOf(v))
  OBVIOUS
<1>2. d \in Registers /\ f \in Registers
  BY <1>1, Bytes, EnteringIs
<1>3. e \in SUBSET (0..7) /\ Entering(e) \in Registers
  <2>1. e \in SUBSET (0..7)
    BY Bytes DEF Xor
  <2>. QED BY <2>1, EnteringIs
<1>4. Entering(e) = Xor(f, d)
  <2>1. Exponents(BitsOf(v)) /\ Exponents(BitsOf(c))
    BY Bytes DEF Exponents
  <2>2. PICK n \in Int : n = 8
    OBVIOUS
  <2>3. ShiftedBy(n, Xor(BitsOf(v), BitsOf(c))) = Xor(ShiftedBy(n, BitsOf(v)), ShiftedBy(n, BitsOf(c)))
    BY <2>1, ShiftXor
  <2>. QED BY <1>1, <2>2, <2>3 DEF Entering
<1>5. PICK s \in Registers : s = Xor(BeforeCommand, d) /\ Sum(c) = Rolled(s)
  <2>1. Xor(BeforeCommand, d) \in Registers
    BY <1>2, BeforeIn, XorRegister
  <2>2. Sum(c) = Rolled(Xor(BeforeCommand, d))
    BY <1>1, BeforeIn, AfterIsRolled DEF Sum, Entering
  <2>. QED BY <2>1, <2>2
<1>6. Sum(v) = Rolled(Xor(BeforeCommand, f))
  BY <1>1, BeforeIn, AfterIsRolled DEF Sum, Entering
<1>7. Xor(BeforeCommand, f) = Xor(s, Entering(e))
  BY <1>4, <1>5 DEF Xor
<1>8. Rolled(Xor(s, Entering(e))) = Xor(Rolled(s), Rolled(Entering(e)))
  BY <1>3, RolledXor
<1>. QED BY <1>5, <1>6, <1>7, <1>8

(* The packet of a command. *)
Carries(p, c) ==
  /\ p \in Seq(Int) /\ Len(p) = 6
  /\ p[1] = 165 /\ p[2] = 5 /\ p[3] = 1 /\ p[4] = c /\ c \in 0..255
  /\ p[5] \in 0..255 /\ p[6] \in 0..255
  /\ BitsOf(p[5]) = HighBits(Sum(c)) /\ BitsOf(p[6]) = LowBits(Sum(c))

LEMMA PacketCarries == ASSUME NEW c \in 0..255 PROVE Carries(Packet(c), c)
<1>1. PICK p : p = Packet(c)
  OBVIOUS
<1>2. /\ p \in Seq(Int) /\ Len(p) = 6
      /\ p[1] = 165 /\ p[2] = 5 /\ p[3] = 1 /\ p[4] = c
      /\ p[5] = ByteOf(HighBits(Sum(c))) /\ p[6] = ByteOf(LowBits(Sum(c)))
  BY <1>1, PacketIs
<1>3. PICK reg \in Registers : reg = Sum(c)
  BY SumIn
<1>4. /\ BitsOf(ByteOf(HighBits(reg))) = HighBits(reg)
      /\ BitsOf(ByteOf(LowBits(reg))) = LowBits(reg)
      /\ ByteOf(HighBits(reg)) \in 0..255 /\ ByteOf(LowBits(reg)) \in 0..255
  BY HalvesAre
<1>. QED BY <1>1, <1>2, <1>3, <1>4 DEF Carries

LEMMA NoBits == BitsOf(0) = {}
<1>1. PICK z \in Int : z = 0
  OBVIOUS
<1>2. ByteOf({}) = z
  BY <1>1, ByteIs DEF Bit
<1>. QED BY <1>1, <1>2, BitsOfByte

LEMMA PacketsDiffer ==
  ASSUME NEW c, NEW p, Carries(p, c), NEW r, Packs(r),
         NEW e, e = Xor(BitsOf(r[4]), BitsOf(p[4]))
  PROVE  /\ r[1] = p[1] /\ r[2] = p[2] /\ r[3] = p[3]
         /\ BitsOf(r[5]) = Xor(BitsOf(p[5]), HighBits(Rolled(Entering(e))))
         /\ BitsOf(r[6]) = Xor(BitsOf(p[6]), LowBits(Rolled(Entering(e))))
<1>1. PICK sum \in Registers : sum = Sum(r[4])
  BY SumIn
<1>2. /\ BitsOf(ByteOf(HighBits(sum))) = HighBits(sum)
      /\ BitsOf(ByteOf(LowBits(sum))) = LowBits(sum)
  BY HalvesAre
<1>3. sum = Xor(Sum(c), Rolled(Entering(e)))
  BY <1>1, SumDiffers DEF Carries
<1>4. /\ HighBits(sum) = Xor(HighBits(Sum(c)), HighBits(Rolled(Entering(e))))
      /\ LowBits(sum) = Xor(LowBits(Sum(c)), LowBits(Rolled(Entering(e))))
  BY <1>3, HalvesXor
<1>. QED BY <1>1, <1>2, <1>4 DEF Packs, Carries, MagicEncoder, CommandId

(* A difference of the command shows in the checksum. *)
LEMMA DifferenceShows ==
  ASSUME NEW e \in SUBSET (0..7), HighBits(Rolled(Entering(e))) = {}, LowBits(Rolled(Entering(e))) = {}
  PROVE  e = {}
<1>1. PICK g \in Registers, o \in Registers : g = Entering(e) /\ o = {}
  BY EnteringIs
<1>2. Rolled(g) \in Registers /\ Rolled(o) \in Registers /\ Rolled(o) = o
  BY <1>1, RolledIn, EnteringIs
<1>3. HighBits(Rolled(o)) = {} /\ LowBits(Rolled(o)) = {}
  BY <1>1, <1>2 DEF HighBits, LowBits
<1>4. Rolled(g) = Rolled(o)
  BY <1>1, <1>2, <1>3, HalvesAre
<1>5. g = o
  BY <1>4, RolledBack
<1>. QED BY <1>1, <1>5, EnteringIs

(* One altered byte. *)
LEMMA AlteredIsNone ==
  ASSUME NEW c, NEW p, Carries(p, c), NEW k \in 1..6, NEW v \in 0..255, NEW r, r = [p EXCEPT ![k] = v], r # p
  PROVE  r \in Seq(Int) /\ Len(r) = 6 /\ ~Packs(r)
<1>1. PICK S : S = Int
  OBVIOUS
<1>2. p \in Seq(S) /\ k \in 1..Len(p) /\ v \in S /\ Len(p) = 6
  BY <1>1 DEF Carries
<1>3. r \in Seq(S) /\ Len(r) = 6 /\ \A j \in 1..6 : r[j] = IF j = k THEN v ELSE p[j]
  <2>1. PICK n \in Nat : n = Len(p) /\ k \in 1..n
    BY <1>2
  <2>2. k \in 1..Len(p)
    BY <2>1
  <2>3. [p EXCEPT ![k] = v] \in Seq(S)
    BY ONLY <1>2, <2>2, ExceptSeq
  <2>4. Len([p EXCEPT ![k] = v]) = Len(p)
    BY ONLY <1>2, <2>2, ExceptSeq
  <2>5. \A j \in 1..n : r[j] = IF j = k THEN v ELSE p[j]
    <3>1. p = [j \in 1..n |-> p[j]]
      BY <1>2, <2>1
    <3>. QED BY <3>1
  <2>. QED BY <1>2, <2>1, <2>3, <2>4, <2>5
<1>4. v # p[k]
  <2>1. ASSUME v = p[k] PROVE FALSE
    <3>1. \A j \in 1..6 : r[j] = p[j]
      BY <1>3, <2>1
    <3>2. r = p
      BY <1>2, <1>3, <3>1, SeqEqual
    <3>. QED BY <3>2
  <2>. QED BY <2>1
<1>5. ASSUME Packs(r) PROVE FALSE
  <2>1. PICK e : e = Xor(BitsOf(r[4]), BitsOf(p[4]))
    OBVIOUS
  <2>1a. e \in SUBSET (0..7)
    BY <2>1, Bytes DEF Xor
  <2>2. /\ r[1] = p[1] /\ r[2] = p[2] /\ r[3] = p[3]
        /\ BitsOf(r[5]) = Xor(BitsOf(p[5]), HighBits(Rolled(Entering(e))))
        /\ BitsOf(r[6]) = Xor(BitsOf(p[6]), LowBits(Rolled(Entering(e))))
    BY ONLY <1>5, <2>1, Carries(p, c), PacketsDiffer
  <2>3. k # 1 /\ k # 2 /\ k # 3
    BY <1>3, <1>4, <2>2
  <2>4. CASE k = 4
    <3>1. r[5] = p[5] /\ r[6] = p[6] /\ r[4] = v
      BY <1>3, <2>4
    <3>2. HighBits(Rolled(Entering(e))) = {} /\ LowBits(Rolled(Entering(e))) = {}
      BY <2>2, <3>1, XorAlgebra
    <3>3. e = {}
      BY <2>1a, <3>2, DifferenceShows
    <3>4. ByteOf(BitsOf(v)) = v
      BY ByteFromBits
    <3>5. PICK z \in 0..255 : z = p[4]
      BY DEF Carries
    <3>6. ByteOf(BitsOf(z)) = z
      BY ByteFromBits
    <3>7. BitsOf(z) = BitsOf(v)
      BY <2>1, <3>1, <3>3, <3>5 DEF Xor
    <3>. QED BY <1>4, <2>4, <3>4, <3>5, <3>6, <3>7
  <2>5. CASE k = 5 \/ k = 6
    <3>1. r[4] = p[4] /\ (k = 5 => r[5] = v) /\ (k = 6 => r[6] = v)
      BY <1>3, <2>5
    <3>2. e = {}
      BY <2>1, <3>1 DEF Xor
    <3>3. HighBits(Rolled(Entering(e))) = {} /\ LowBits(Rolled(Entering(e))) = {}
      BY <3>2, EnteringIs DEF HighBits, LowBits
    <3>4. BitsOf(r[5]) = BitsOf(p[5]) /\ BitsOf(r[6]) = BitsOf(p[6])
      BY <2>2, <3>3, XorAlgebra
    <3>5. PICK w \in 0..255 : w = p[k]
      BY <2>5 DEF Carries
    <3>6. BitsOf(v) = BitsOf(w)
      BY <2>5, <3>1, <3>4, <3>5
    <3>7. ByteOf(BitsOf(v)) = v /\ ByteOf(BitsOf(w)) = w
      BY ByteFromBits
    <3>. QED BY <1>4, <3>5, <3>6, <3>7
  <2>. QED BY <2>3, <2>4, <2>5
<1>. QED BY <1>1, <1>3, <1>5

(* Two flipped bits, at different places or the same: what they do to a     *)
(* byte of the packet.                                                     *)
Hit(k, k1, b1, k2, b2) == {b \in 0..7 : (k = k1 /\ b = b1) \/ (k = k2 /\ b = b2)}

(* A flip in the command and one in the checksum do not make up for each    *)
(* other: one bit of the command shows in two of the checksum.             *)
LEMMA FlipsCancelNot ==
  ASSUME NEW j \in 0..7, NEW k \in 5..6, NEW b \in 0..7,
         NEW high, high = HighBits(Rolled(Entering({j}))), high = {c \in 0..7 : k = 5 /\ c = b},
         NEW low, low = LowBits(Rolled(Entering({j}))), low = {c \in 0..7 : k = 6 /\ c = b}
  PROVE  FALSE
<1>1. PICK reg : reg = Rolled(Entering({j})) /\ j \in reg /\ j + 5 \in reg
  BY OneBitRolls, EnteringIs
<1>2. j \in low
  BY <1>1 DEF LowBits
<1>3. k = 6 /\ b = j
  BY <1>2
<1>4. CASE j <= 2
  <2>1. j + 5 \in low
    BY <1>1, <1>4 DEF LowBits
  <2>. QED BY <1>3, <2>1
<1>5. CASE j > 2
  <2>1. PICK i \in 0..7 : i + 8 = j + 5
    <3>1. j - 3 \in 0..7 /\ (j - 3) + 8 = j + 5
      BY <1>5
    <3>. QED BY <3>1
  <2>2. i \in high
    BY <1>1, <2>1 DEF HighBits
  <2>. QED BY <1>3, <2>2
<1>. QED BY <1>4, <1>5

(* r differs from p in the bits hit. *)
Differs(r, p, k1, b1, k2, b2) ==
  \A k \in 1..6 : BitsOf(r[k]) = Xor(BitsOf(p[k]), Hit(k, k1, b1, k2, b2))

LEMMA FlippedIsNone ==
  ASSUME NEW c, NEW p, Carries(p, c), NEW r, NEW k1 \in 1..6, NEW b1 \in 0..7, NEW k2 \in 1..6, NEW b2 \in 0..7,
         Differs(r, p, k1, b1, k2, b2)
  PROVE  ~Packs(r)
<1> SUFFICES ASSUME Packs(r) PROVE FALSE
  OBVIOUS
<1>1. /\ BitsOf(r[1]) = Xor(BitsOf(p[1]), Hit(1, k1, b1, k2, b2))
      /\ BitsOf(r[2]) = Xor(BitsOf(p[2]), Hit(2, k1, b1, k2, b2))
      /\ BitsOf(r[3]) = Xor(BitsOf(p[3]), Hit(3, k1, b1, k2, b2))
      /\ BitsOf(r[4]) = Xor(BitsOf(p[4]), Hit(4, k1, b1, k2, b2))
      /\ BitsOf(r[5]) = Xor(BitsOf(p[5]), Hit(5, k1, b1, k2, b2))
      /\ BitsOf(r[6]) = Xor(BitsOf(p[6]), Hit(6, k1, b1, k2, b2))
  BY DEF Differs
<1>2. PICK e : e = Xor(BitsOf(r[4]), BitsOf(p[4])) /\ e \in SUBSET (0..7)
  BY Bytes DEF Xor
<1>3. /\ r[1] = p[1] /\ r[2] = p[2] /\ r[3] = p[3]
      /\ BitsOf(r[5]) = Xor(BitsOf(p[5]), HighBits(Rolled(Entering(e))))
      /\ BitsOf(r[6]) = Xor(BitsOf(p[6]), LowBits(Rolled(Entering(e))))
  BY <1>2, PacketsDiffer
<1>4. /\ Hit(1, k1, b1, k2, b2) = {} /\ Hit(2, k1, b1, k2, b2) = {} /\ Hit(3, k1, b1, k2, b2) = {}
  <2>1. ASSUME NEW a, NEW h, a = Xor(a, h) PROVE h = {}
    BY <2>1 DEF Xor
  <2>. QED BY <1>1, <1>3, <2>1
<1>5. k1 \in 4..6 /\ k2 \in 4..6
  BY <1>4 DEF Hit
<1>6. e = Hit(4, k1, b1, k2, b2)
  BY <1>1, <1>2 DEF Xor
<1>7. /\ HighBits(Rolled(Entering(e))) = Hit(5, k1, b1, k2, b2)
      /\ LowBits(Rolled(Entering(e))) = Hit(6, k1, b1, k2, b2)
  <2>1. ASSUME NEW u, NEW v, NEW w, Xor(u, v) = Xor(u, w) PROVE v = w
    BY <2>1 DEF Xor
  <2>. QED BY <1>1, <1>3, <2>1
<1>8. CASE k1 = 4 /\ k2 = 4
  <2>1. Hit(5, k1, b1, k2, b2) = {} /\ Hit(6, k1, b1, k2, b2) = {}
    BY <1>8 DEF Hit
  <2>2. e = {}
    BY <1>2, <1>7, <2>1, DifferenceShows
  <2>3. b1 \in e
    BY <1>6, <1>8 DEF Hit
  <2>. QED BY <2>2, <2>3
<1>9. CASE k1 \in 5..6 /\ k2 \in 5..6
  <2>1. e = {}
    BY <1>6, <1>9 DEF Hit
  <2>2. HighBits(Rolled(Entering(e))) = {} /\ LowBits(Rolled(Entering(e))) = {}
    BY <2>1, EnteringIs DEF HighBits, LowBits
  <2>3. (k1 = 5 => b1 \in Hit(5, k1, b1, k2, b2)) /\ (k1 = 6 => b1 \in Hit(6, k1, b1, k2, b2))
    BY DEF Hit
  <2>. QED BY <1>7, <1>9, <2>2, <2>3
<1>10. CASE k1 = 4 /\ k2 \in 5..6
  <2>1. e = {b1}
    BY <1>6, <1>10 DEF Hit
  <2>2. Hit(5, k1, b1, k2, b2) = {x \in 0..7 : k2 = 5 /\ x = b2}
    BY <1>10 DEF Hit
  <2>3. Hit(6, k1, b1, k2, b2) = {x \in 0..7 : k2 = 6 /\ x = b2}
    BY <1>10 DEF Hit
  <2>. QED BY <1>7, <1>10, <2>1, <2>2, <2>3, FlipsCancelNot
<1>11. CASE k1 \in 5..6 /\ k2 = 4
  <2>1. e = {b2}
    BY <1>6, <1>11 DEF Hit
  <2>2. Hit(5, k1, b1, k2, b2) = {x \in 0..7 : k1 = 5 /\ x = b1}
    BY <1>11 DEF Hit
  <2>3. Hit(6, k1, b1, k2, b2) = {x \in 0..7 : k1 = 6 /\ x = b1}
    BY <1>11 DEF Hit
  <2>. QED BY <1>7, <1>11, <2>1, <2>2, <2>3, FlipsCancelNot
<1>. QED BY <1>5, <1>8, <1>9, <1>10, <1>11

LEMMA FlippedIs ==
  ASSUME NEW p, NEW x \in Bits, NEW y \in Bits
  PROVE  /\ Flipped(p, x, y) \in Seq(Int) /\ Len(Flipped(p, x, y)) = 6
         /\ \E k1 \in 1..6, b1 \in 0..7, k2 \in 1..6, b2 \in 0..7 :
              Differs(Flipped(p, x, y), p, k1, b1, k2, b2)
<1>1. PICK k1 \in 1..6, b1 \in 0..7 : x = <<k1, b1>>
  BY DEF Bits
<1>2. PICK k2 \in 1..6, b2 \in 0..7 : y = <<k2, b2>>
  BY DEF Bits
<1>3. PICK r : r = Flipped(p, x, y)
  OBVIOUS
<1>4. ASSUME NEW k \in 1..6
      PROVE  {b \in 0..7 : <<k, b>> \in {x, y}} = Hit(k, k1, b1, k2, b2)
  BY <1>1, <1>2 DEF Hit
<1>5. r = [k \in 1..6 |-> ByteOf(Xor(BitsOf(p[k]), Hit(k, k1, b1, k2, b2)))]
  BY <1>3, <1>4 DEF Flipped
<1>6. ASSUME NEW k \in 1..6
      PROVE  r[k] \in Int /\ BitsOf(r[k]) = Xor(BitsOf(p[k]), Hit(k, k1, b1, k2, b2))
  <2>1. PICK s : s = Xor(BitsOf(p[k]), Hit(k, k1, b1, k2, b2))
    OBVIOUS
  <2>2. s \in SUBSET (0..7)
    BY <2>1, Bytes DEF Xor, Hit
  <2>3. r[k] = ByteOf(s)
    BY <1>5, <2>1
  <2>4. ByteOf(s) \in 0..255 /\ BitsOf(ByteOf(s)) = s
    BY <2>2, BitsOfByte
  <2>. QED BY <2>1, <2>3, <2>4
<1>7. r \in Seq(Int) /\ Len(r) = 6
  <2>1. r \in [1..6 -> Int]
    BY <1>5, <1>6
  <2>1a. PICK n \in Nat : n = 6
    OBVIOUS
  <2>2. PICK S : n = 6 /\ S = Int
    BY <2>1a
  <2>3. r \in [1..n -> S]
    BY <2>1, <2>2
  <2>4. r \in Seq(S) /\ Len(r) = n
    BY <2>3
  <2>. QED BY <2>2, <2>4
<1>8. Differs(r, p, k1, b1, k2, b2)
  BY <1>6 DEF Differs
<1>. QED BY <1>3, <1>7, <1>8

(* A byte lost, a byte inserted. *)
Reset(p) == Carries(p, 0) /\ BitsOf(p[4]) = {}

LEMMA ResetIs == Reset(Packet(0))
<1>1. PICK c \in 0..255 : c = 0
  OBVIOUS
<1>2. PICK p : p = Packet(c) /\ Carries(p, c)
  BY PacketCarries
<1>3. BitsOf(p[4]) = {}
  BY <1>1, <1>2, NoBits DEF Carries
<1>. QED BY <1>1, <1>2, <1>3 DEF Reset

LEMMA ShortIsNone ==
  ASSUME NEW read \in Seq(Int), Len(read) < 6 PROVE Heard(read) = {}
<1> SUFFICES ASSUME NEW c \in Heard(read) PROVE FALSE
  OBVIOUS
<1>0. Len(read) \in Nat
  OBVIOUS
<1>1. PICK i \in 1..Len(read) - 5 : read[i] = MagicEncoder
  BY <1>0, HeardIsChecked
<1>. QED BY <1>0, <1>1

LEMMA LostIs ==
  ASSUME NEW com, NEW p, Carries(p, com), NEW k \in 1..6, NEW r, r = SubSeq(p, 1, k - 1) \o SubSeq(p, k + 1, 6)
  PROVE  r \in Seq(Int) /\ Len(r) < 6
<1>0. PICK S : S = Int
  OBVIOUS
<1>1. PICK n \in Nat, a \in Nat, c \in Nat : n = 6 /\ a = k - 1 /\ c = 6 - k
  OBVIOUS
<1>2. p \in Seq(S) /\ n = Len(p) /\ a <= n /\ k \in Nat /\ k <= n
  BY <1>0, <1>1 DEF Carries
<1>3. PICK u, v : u = SubSeq(p, 1, a) /\ v = SubSeq(p, k + 1, n)
  OBVIOUS
<1>4. u \in Seq(S) /\ Len(u) = a
  BY ONLY <1>2, <1>3, n \in Nat, a \in Nat, Front
<1>5. v \in Seq(S) /\ Len(v) = n - k
  BY ONLY <1>2, <1>3, n \in Nat, Rear
<1>6. u \o v \in Seq(S) /\ Len(u \o v) = a + c
  <2>1. /\ a = Len(u) /\ c = Len(v) /\ a \in Nat /\ c \in Nat
        /\ u \in Seq(S) /\ v \in Seq(S)
    BY <1>1, <1>4, <1>5
  <2>. QED BY ONLY <2>1, Joined
<1>7. r = u \o v
  BY <1>1, <1>3
<1>8. a + c < 6
  BY <1>1
<1>. QED BY ONLY <1>0, <1>6, <1>7, <1>8

Inserted(r, p, k) ==
  /\ r \in Seq(Int) /\ Len(r) = 7
  /\ \A j \in 1..7 : r[j] = IF j <= k THEN p[j] ELSE IF j = k + 1 THEN 46 ELSE p[j - 1]

LEMMA InsertedIs ==
  ASSUME NEW p, Reset(p), NEW k \in 1..5,
         NEW r, r = ByteInserted(p, k)
  PROVE  Inserted(r, p, k)
<1>0. PICK S : S = Int
  OBVIOUS
<1>1. PICK n \in Nat, b \in Nat, c \in Nat, one \in Nat :
        n = 6 /\ b = k + 1 /\ c = 6 - k /\ one = 1
  OBVIOUS
<1>2. p \in Seq(S) /\ n = Len(p) /\ k \in Nat /\ k <= n
  BY <1>0, <1>1 DEF Reset, Carries
<1>3. PICK u, v, w : u = SubSeq(p, 1, k) /\ v = SubSeq(p, k + 1, n) /\ w = <<46>>
  OBVIOUS
<1>4. u \in Seq(S) /\ Len(u) = k /\ \A j \in 1..k : u[j] = p[j]
  BY ONLY <1>2, <1>3, n \in Nat, Front
<1>5. v \in Seq(S) /\ Len(v) = n - k /\ \A j \in 1..n - k : v[j] = p[k + j]
  BY ONLY <1>2, <1>3, n \in Nat, Rear
<1>6. w \in Seq(S) /\ Len(w) = one /\ w[1] = 46
  BY <1>0, <1>1, <1>3
<1>7. PICK t : t = u \o w
  OBVIOUS
<1>8. t \in Seq(S) /\ Len(t) = b /\ \A j \in 1..b : t[j] = IF j <= k THEN u[j] ELSE w[j - k]
  <2>1. /\ k = Len(u) /\ one = Len(w) /\ k \in Nat /\ one \in Nat /\ k + one = b
        /\ u \in Seq(S) /\ w \in Seq(S)
    BY <1>1, <1>2, <1>4, <1>6
  <2>2. /\ u \o w \in Seq(S) /\ Len(u \o w) = k + one
        /\ \A j \in 1..k + one : (u \o w)[j] = IF j <= k THEN u[j] ELSE w[j - k]
    BY ONLY <2>1, Joined
  <2>. QED BY <1>7, <2>1, <2>2
<1>9. PICK z : z = t \o v
  OBVIOUS
<1>10. /\ z \in Seq(S) /\ Len(z) = b + c
       /\ \A j \in 1..b + c : z[j] = IF j <= b THEN t[j] ELSE v[j - b]
  <2>1. /\ b = Len(t) /\ c = Len(v) /\ b \in Nat /\ c \in Nat
        /\ t \in Seq(S) /\ v \in Seq(S)
    BY <1>1, <1>5, <1>8
  <2>2. /\ t \o v \in Seq(S) /\ Len(t \o v) = b + c
        /\ \A j \in 1..b + c : (t \o v)[j] = IF j <= b THEN t[j] ELSE v[j - b]
    BY ONLY <2>1, Joined
  <2>. QED BY <1>9, <2>2
<1>11. r = z
  BY <1>1, <1>3, <1>7, <1>9 DEF ByteInserted
<1>12. b + c = 7
  BY <1>1
<1>13. ASSUME NEW j \in 1..7
       PROVE  z[j] = IF j <= k THEN p[j] ELSE IF j = k + 1 THEN 46 ELSE p[j - 1]
  <2>1. CASE j <= k
    <3>1. j \in 1..k /\ j \in 1..b /\ j \in 1..b + c /\ j <= b
      BY <1>1, <1>12, <2>1
    <3>. QED BY <1>4, <1>8, <1>10, <2>1, <3>1
  <2>2. CASE j = k + 1
    <3>1. j \in 1..b /\ j \in 1..b + c /\ j <= b /\ ~(j <= k) /\ j - k = 1
      BY <1>1, <1>12, <2>2
    <3>. QED BY <1>6, <1>8, <1>10, <2>2, <3>1
  <2>3. CASE j > k + 1
    <3>1. /\ j \in 1..b + c /\ ~(j <= b) /\ ~(j <= k) /\ j # k + 1
          /\ j - b \in 1..n - k /\ k + (j - b) = j - 1
      BY <1>1, <1>12, <2>3
    <3>2. z[j] = v[j - b]
      BY <1>10, <3>1
    <3>3. v[j - b] = p[k + (j - b)]
      BY <1>5, <3>1
    <3>. QED BY <3>1, <3>2, <3>3
  <2>. QED BY <2>1, <2>2, <2>3
<1>. QED BY <1>0, <1>10, <1>11, <1>12, <1>13 DEF Inserted

LEMMA InsertedIsNone ==
  ASSUME NEW p, Reset(p), NEW k \in 1..5, NEW r, Inserted(r, p, k)
  PROVE  Heard(r) = {}
<1> SUFFICES ASSUME NEW c \in Heard(r) PROVE FALSE
  OBVIOUS
<1>0. Len(r) \in Nat /\ Len(r) = 7 /\ r \in Seq(Int)
  BY DEF Inserted
<1>1. PICK i \in 1..Len(r) - 5 :
        /\ r[i] = MagicEncoder /\ r[i + 1] = CommandId /\ r[i + 2] = 1
        /\ r[i + 3] = c /\ ChecksumAgrees(r, i)
  BY <1>0, HeardIsChecked
<1>2. /\ r[1] = p[1]
      /\ r[2] = IF k = 1 THEN 46 ELSE p[2]
      /\ r[3] = IF k = 1 THEN p[2] ELSE IF k = 2 THEN 46 ELSE p[3]
      /\ r[4] = IF k <= 2 THEN p[3] ELSE IF k = 3 THEN 46 ELSE p[4]
      /\ r[5] = IF k <= 3 THEN p[4] ELSE IF k = 4 THEN 46 ELSE p[5]
      /\ r[6] = IF k <= 4 THEN p[5] ELSE 46
  BY DEF Inserted
<1>3. i = 1
  <2>1. i = 1 \/ i = 2
    BY <1>0
  <2>2. r[2] # 165
    BY <1>2 DEF Reset, Carries
  <2>. QED BY <1>1, <2>1, <2>2 DEF MagicEncoder
<1>4. r[1] = MagicEncoder /\ r[2] = CommandId /\ r[3] = 1 /\ ChecksumAgrees(r, 1)
  BY <1>1, <1>3
<1>5. Packs(r)
  <2>1. Len(r) >= 6
    BY <1>0
  <2>. QED BY <1>0, <1>4, <2>1, AgreesIs
<1>6. k # 1 /\ k # 2
  BY <1>2, <1>4 DEF CommandId, Reset, Carries
<1>7. PICK sum \in Registers : sum = Sum(r[4])
  BY SumIn
<1>8. BitsOf(r[5]) = HighBits(sum) /\ BitsOf(r[6]) = LowBits(sum)
  BY <1>5, <1>7, HalvesAre DEF Packs
<1>9. 2 \in BitsOf(46)
  <2>1. PICK v \in 0..255 : v = 46
    OBVIOUS
  <2>. QED BY <2>1, BitsAre
<1>10. CASE k = 3
  <2>1. r[4] = 46 /\ r[5] = p[4]
    BY <1>2, <1>10
  <2>2. 8 \in sum
    BY <1>7, <2>1, After46 DEF Sum, BeforeCommand
  <2>3. 0 \in HighBits(sum)
    BY <2>2 DEF HighBits
  <2>. QED BY <1>8, <2>1, <2>3 DEF Reset, Carries
<1>11. CASE k = 4 \/ k = 5
  <2>1. r[4] = 0 /\ (k = 4 => r[5] = 46) /\ (k = 5 => r[6] = 46)
    BY <1>2, <1>11 DEF Reset, Carries
  <2>2. 2 \notin sum /\ 10 \notin sum
    BY <1>7, <2>1, After0 DEF Sum, BeforeCommand
  <2>3. 2 \notin HighBits(sum) /\ 2 \notin LowBits(sum)
    BY <2>2 DEF HighBits, LowBits
  <2>. QED BY <1>8, <1>9, <1>11, <2>1, <2>3
<1>. QED BY <1>6, <1>10, <1>11

LEMMA InsertedUnheard ==
  ASSUME NEW p, Reset(p), NEW k \in 1..5 PROVE Heard(ByteInserted(p, k)) = {}
                                              /\ ByteInserted(p, k) \in Seq(Int)
<1>1. PICK r : r = ByteInserted(p, k)
  OBVIOUS
<1>2. Inserted(r, p, k)
  BY <1>1, InsertedIs
<1>3. Heard(r) = {}
  BY <1>2, InsertedIsNone
<1>. QED BY <1>1, <1>2, <1>3 DEF Inserted

LEMMA AlteredUnheard ==
  ASSUME NEW c, NEW p, Carries(p, c), NEW k \in 1..6, NEW v \in 0..255, NEW r, r = ByteAltered(p, k, v), r # p
  PROVE  Heard(r) = {} /\ r \in Seq(Int)
<1>1. r = [p EXCEPT ![k] = v]
  BY DEF ByteAltered
<1>2. r \in Seq(Int) /\ Len(r) = 6 /\ ~Packs(r)
  BY <1>1, AlteredIsNone
<1>. QED BY <1>2, SixBytes

(* A packet of any command of which one byte is altered, any two bits are   *)
(* flipped or a byte is lost is no command to process_rx_buffer, and is    *)
(* not taken for another one (serial.c 38-87).                             *)
THEOREM DamageUnheard ==
  ASSUME NEW c \in 0..255, NEW p, p = Packet(c)
  PROVE  /\ \A k \in 1..6, v \in 0..255 : ByteAltered(p, k, v) # p => Heard(ByteAltered(p, k, v)) = {}
         /\ \A a \in Bits, b \in Bits : Heard(Flipped(p, a, b)) = {}
         /\ \A k \in 1..6 : Heard(ByteLost(p, k)) = {}
<1>1. Carries(p, c)
  BY PacketCarries
<1>2. ASSUME NEW k \in 1..6, NEW v \in 0..255, ByteAltered(p, k, v) # p
      PROVE  Heard(ByteAltered(p, k, v)) = {}
  <2>1. PICK r : r = ByteAltered(p, k, v) /\ r # p
    BY <1>2
  <2>2. Heard(r) = {}
    BY ONLY k \in 1..6, v \in 0..255, <1>1, <2>1, AlteredUnheard
  <2>. QED BY <2>1, <2>2
<1>3. ASSUME NEW a \in Bits, NEW b \in Bits PROVE Heard(Flipped(p, a, b)) = {}
  <2>1. PICK r : r = Flipped(p, a, b)
    OBVIOUS
  <2>2. /\ r \in Seq(Int) /\ Len(r) = 6
        /\ \E k1 \in 1..6, b1 \in 0..7, k2 \in 1..6, b2 \in 0..7 : Differs(r, p, k1, b1, k2, b2)
    BY <2>1, FlippedIs
  <2>3. ~Packs(r)
    BY <1>1, <2>2, FlippedIsNone
  <2>. QED BY <2>1, <2>2, <2>3, SixBytes
<1>4. ASSUME NEW k \in 1..6 PROVE Heard(ByteLost(p, k)) = {}
  <2>1. PICK r : r = ByteLost(p, k)
    OBVIOUS
  <2>2. r \in Seq(Int) /\ Len(r) < 6
    BY <1>1, <2>1, LostIs DEF ByteLost
  <2>. QED BY <2>1, <2>2, ShortIsNone
<1>. QED BY <1>2, <1>3, <1>4

(* Whatever damage is done to the reset packet, nothing is heard. *)
LEMMA DamagedUnheard ==
  ASSUME NEW x \in Damaged
  PROVE  \E r \in Seq(Int) :
           x = [kind |-> "damaged", command |-> ResetCommand, read |-> r] /\ Heard(r) = {}
<1> DEFINE p == Packet(ResetCommand)
<1> DEFINE altered == {ByteAltered(p, k, v) : k \in 1..6, v \in 0..255}
<1> DEFINE flipped == {Flipped(p, a, b) : a \in Bits, b \in Bits}
<1> DEFINE lost == {ByteLost(p, k) : k \in 1..6}
<1> DEFINE inserted == {ByteInserted(p, k) : k \in 1..5}
<1>1. Reset(p)
  BY ResetIs DEF ResetCommand
<1>1a. Carries(p, 0)
  BY <1>1 DEF Reset
<1>2. PICK r :
        /\ x = [kind |-> "damaged", command |-> ResetCommand, read |-> r]
        /\ r \in (altered \ {p}) \cup flipped \cup lost \cup inserted
  BY DEF Damaged
<1> HIDE DEF p, altered, flipped, lost, inserted
<1>3. (r \in altered /\ r # p) \/ r \in flipped \/ r \in lost \/ r \in inserted
  BY <1>2
<1>4. CASE r \in altered /\ r # p
  <2>1. PICK k \in 1..6, v \in 0..255 : r = ByteAltered(p, k, v)
    BY <1>4 DEF altered
  <2>2. Heard(r) = {} /\ r \in Seq(Int)
    <3>1. r # p /\ k \in 1..6 /\ v \in 0..255
      BY <1>4
    <3>. QED BY ONLY <1>1a, <2>1, <3>1, AlteredUnheard
  <2>. QED BY <1>2, <2>2
<1>5. CASE r \in flipped
  <2>1. PICK a \in Bits, b \in Bits : r = Flipped(p, a, b)
    BY <1>5 DEF flipped
  <2>2. /\ r \in Seq(Int) /\ Len(r) = 6
        /\ \E k1 \in 1..6, b1 \in 0..7, k2 \in 1..6, b2 \in 0..7 : Differs(r, p, k1, b1, k2, b2)
    BY <2>1, FlippedIs
  <2>3. ~Packs(r)
    BY <1>1a, <2>2, FlippedIsNone
  <2>. QED BY <1>2, <2>2, <2>3, SixBytes
<1>6. CASE r \in lost
  <2>1. PICK k \in 1..6 : r = ByteLost(p, k)
    BY <1>6 DEF lost
  <2>2. r \in Seq(Int) /\ Len(r) < 6
    BY <1>1a, <2>1, LostIs DEF ByteLost
  <2>. QED BY <1>2, <2>2, ShortIsNone
<1>7. CASE r \in inserted
  <2>1. PICK k \in 1..5 : r = ByteInserted(p, k)
    BY <1>7 DEF inserted
  <2>2. Heard(r) = {} /\ r \in Seq(Int)
    BY <1>1, <2>1, InsertedUnheard
  <2>. QED BY <1>2, <2>2
<1>. QED BY <1>3, <1>4, <1>5, <1>6, <1>7

(* A packet of any command at the beginning of a read is heard, whatever    *)
(* follows it (process_rx_buffer, serial.c 38-87).                         *)
THEOREM LeadingHeard ==
  ASSUME NEW c \in Int, NEW rest \in Seq(Int), NEW read, read = Packet(c) \o rest
  PROVE  read \in Seq(Int) /\ c \in Heard(read)
<1>0. PICK S : S = Int
  OBVIOUS
<1>1. PICK p : p = Packet(c)
  OBVIOUS
<1>2. /\ p \in Seq(S) /\ Len(p) = 6
      /\ p[1] = 165 /\ p[2] = 5 /\ p[3] = 1 /\ p[4] = c
      /\ p[5] = ByteOf(HighBits(Sum(c))) /\ p[6] = ByteOf(LowBits(Sum(c)))
  BY <1>0, <1>1, PacketIs
<1>3. PICK a \in Nat, b \in Nat : a = 6 /\ b = Len(rest)
  <2>1. Len(rest) \in Nat
    OBVIOUS
  <2>. QED BY <2>1
<1>4. /\ p \o rest \in Seq(S) /\ Len(p \o rest) = a + b
      /\ \A j \in 1..a + b : (p \o rest)[j] = IF j <= a THEN p[j] ELSE rest[j - a]
  <2>1. p \in Seq(S) /\ rest \in Seq(S) /\ a \in Nat /\ b \in Nat /\ a = Len(p) /\ b = Len(rest)
    BY <1>0, <1>2, <1>3
  <2>. QED BY ONLY <2>1, Joined
<1>5. read = p \o rest
  BY <1>1
<1>6. read \in Seq(S) /\ Len(read) \in Nat /\ Len(read) >= 6
  BY <1>3, <1>4, <1>5
<1>7. \A j \in 1..6 : read[j] = p[j]
  <2> SUFFICES ASSUME NEW j \in 1..6 PROVE read[j] = p[j]
    OBVIOUS
  <2>1. j \in 1..a + b /\ j <= a
    BY <1>3
  <2>. QED BY <1>4, <1>5, <2>1
<1>8. /\ read[1] = p[1] /\ read[2] = p[2] /\ read[3] = p[3]
      /\ read[4] = p[4] /\ read[5] = p[5] /\ read[6] = p[6]
  BY ONLY <1>7
<1>9. Packs(read) /\ read[1] = MagicEncoder /\ read[2] = CommandId /\ read[3] = 1 /\ read[4] = c
  BY <1>2, <1>8 DEF Packs, MagicEncoder, CommandId
<1>10. read \in Seq(Int)
  BY <1>0, <1>6
<1>11. ChecksumAgrees(read, 1)
  BY <1>6, <1>9, <1>10, AgreesIs
<1>12. read[4] \in Heard(read)
  BY ONLY <1>6, <1>9, <1>11, FirstIsHeard
<1>. QED BY <1>9, <1>10, <1>12

LEMMA PiecesIn ==
  ASSUME NEW c \in Int, NEW i \in 1..3, NEW j \in 3..5
  PROVE  Packet(c) \in Seq(Int) /\ SubSeq(Packet(c), i, j) \in Seq(Int)
<1>0. PICK S : S = Int
  OBVIOUS
<1>1. PICK p : p = Packet(c)
  OBVIOUS
<1>2. p \in Seq(S) /\ Len(p) = 6
  BY <1>0, <1>1, PacketIs
<1>3. ASSUME NEW l \in i..j PROVE p[l] \in S
  <2>1. l \in 1..Len(p)
    BY <1>2
  <2>. QED BY <1>2, <2>1, ElementOfSeq
<1>4. SubSeq(p, i, j) \in Seq(S)
  BY <1>3, SubSeqProperties
<1>. QED BY <1>0, <1>1, <1>2, <1>4

LEMMA TailsIn == ASSUME NEW t \in Tails PROVE t \in Seq(Int)
<1>1. PICK c \in Int, i \in 1..3, j \in 3..5 : c = 7 /\ i = 1 /\ j = 5
  OBVIOUS
<1>2. Packet(c) \in Seq(Int) /\ SubSeq(Packet(c), i, j) \in Seq(Int)
  BY PiecesIn
<1>3. <<>> \in Seq(Int) /\ <<46>> \in Seq(Int) /\ <<165>> \in Seq(Int)
  OBVIOUS
<1>. QED BY <1>1, <1>2, <1>3 DEF Tails, MagicEncoder

LEMMA UndamagedHeard ==
  ASSUME NEW x \in Undamaged
  PROVE  x.kind = "first" /\ x.read \in Seq(Int) /\ x.command \in Heard(x.read)
<1>1. PICK c \in Commands, t \in Tails :
        x = [kind |-> "first", command |-> c, read |-> Packet(c) \o t]
  BY DEF Undamaged
<1>2. c \in Int /\ t \in Seq(Int)
  BY TailsIn DEF Commands, ResetCommand
<1>3. PICK read : read = Packet(c) \o t
  OBVIOUS
<1>4. read \in Seq(Int) /\ c \in Heard(read)
  BY <1>2, <1>3, LeadingHeard
<1>. QED BY <1>1, <1>3, <1>4

LEMMA PartialIn ==
  ASSUME NEW x \in Partial PROVE x.kind = "partial" /\ x.read \in Seq(Int)
<1> DEFINE behind == {before \o Packet(ResetCommand) : before \in {<<46>>, <<MagicEncoder>>, Packet(7)}}
<1> DEFINE parts == {SubSeq(Packet(ResetCommand), i, j) : i \in 1..3, j \in 3..5}
<1>1. PICK r : x = [kind |-> "partial", command |-> ResetCommand, read |-> r] /\ r \in behind \cup parts
  BY DEF Partial
<1>2. PICK i0 \in 1..3, j0 \in 3..5 : i0 = 1 /\ j0 = 5
  OBVIOUS
<1>3. ASSUME NEW c \in Int PROVE Packet(c) \in Seq(Int)
  BY PiecesIn
<1>4. PICK p : p = Packet(ResetCommand) /\ p \in Seq(Int)
  BY <1>3 DEF ResetCommand
<1>5. <<46>> \in Seq(Int) /\ <<MagicEncoder>> \in Seq(Int) /\ Packet(7) \in Seq(Int)
  BY <1>3 DEF MagicEncoder
<1>6. CASE r \in behind
  <2>1. PICK before \in {<<46>>, <<MagicEncoder>>, Packet(7)} : r = before \o p
    BY <1>4, <1>6
  <2>2. before \in Seq(Int)
    BY <1>5, <2>1
  <2>3. before \o p \in Seq(Int)
    BY <1>4, <2>2, ConcatProperties
  <2>. QED BY <1>1, <2>1, <2>3
<1>7. CASE r \in parts
  <2>1. PICK i \in 1..3, j \in 3..5 : r = SubSeq(Packet(ResetCommand), i, j)
    BY <1>7
  <2>2. \A c \in Int : SubSeq(Packet(c), i, j) \in Seq(Int)
    BY PiecesIn
  <2>3. r \in Seq(Int)
    BY <2>1, <2>2 DEF ResetCommand
  <2>. QED BY <1>1, <2>3
<1> HIDE DEF behind, parts
<1>. QED BY <1>1, <1>6, <1>7

LEMMA ReadsAnswered ==
  ASSUME NEW a \in Reads
  PROVE  /\ a.divides = TRUE
         /\ a.kind = "first" => a.command \in a.heard
         /\ a.kind = "damaged" => a.heard = {}
<1>1. PICK x \in Undamaged \cup Damaged \cup Partial :
        a = [kind |-> x.kind, command |-> x.command, heard |-> Heard(x.read),
             divides |-> Checksum(x.read) = Remainder(x.read)]
  BY DEF Reads
<1>2. x.read \in Seq(Int)
  BY UndamagedHeard, DamagedUnheard, PartialIn
<1>3. Checksum(x.read) = Remainder(x.read)
  <2>1. PICK m \in Nat : m = Len(x.read)
    BY <1>2
  <2>. QED BY <2>1, RegisterIsRemainder
<1>4. x.kind = "first" => x.command \in Heard(x.read)
  BY UndamagedHeard, DamagedUnheard, PartialIn
<1>5. x.kind = "damaged" => Heard(x.read) = {}
  BY UndamagedHeard, DamagedUnheard, PartialIn
<1>. QED BY <1>1, <1>3, <1>4, <1>5

(* A packet at the beginning of a read is heard, whatever follows it; a    *)
(* reset packet with one altered byte, two flipped bits, a byte lost or a  *)
(* byte inserted restarts nothing (process_rx_buffer, serial.c 34-86).     *)
THEOREM CommandsHeard == Spec => []CommandsHeardAsSent
<1>1. ASSUME TypeOK PROVE CommandsHeardAsSent
  <2>1. CASE answer \in Reads
    BY <2>1, ReadsAnswered DEF CommandsHeardAsSent
  <2>2. CASE answer = [kind |-> "none", command |-> 7, heard |-> {}, divides |-> TRUE]
    BY <2>2 DEF CommandsHeardAsSent
  <2>. QED BY <1>1, <2>1, <2>2 DEF TypeOK
<1>. QED BY <1>1, TypeCorrect, PTL

(* The register of crc.c holds the remainder of the polynomial division.   *)
THEOREM ChecksumDivides == Spec => []ChecksumIsRemainder
<1>1. ASSUME TypeOK PROVE ChecksumIsRemainder
  <2>1. CASE answer \in Reads
    BY <2>1, ReadsAnswered DEF ChecksumIsRemainder
  <2>2. CASE answer = [kind |-> "none", command |-> 7, heard |-> {}, divides |-> TRUE]
    BY <2>2 DEF ChecksumIsRemainder
  <2>. QED BY <1>1, <2>1, <2>2 DEF TypeOK
<1>. QED BY <1>1, TypeCorrect, PTL

=============================================================================
