--------------------------- MODULE GpsManagerProofs ---------------------------
(***************************************************************************)
(* Proofs about GpsManager: it uses its serial service as the service is   *)
(* meant to be used, its Stop leaves no thread behind, and the mailbox of  *)
(* one message loses its exactness only to the missing lock.               *)
(***************************************************************************)
EXTENDS GpsManager, SerialComServiceProofs, SequenceTheorems

-----------------------------------------------------------------------------
(* The manager and its service.                                            *)

LEMMA InitUsesService == Init => ServiceInit
  BY DEF Init

LEMMA StepUsesService == [Next]_vars => [ServiceNext]_serviceVars
<1> SUFFICES ASSUME [Next]_vars PROVE [ServiceNext]_serviceVars
  OBVIOUS
<1>1. CASE ~terminated /\ Owner
  BY <1>1 DEF Owner, InstallCallback, StartManager, StopManager, StopReader,
              JoinReader, JoinPoller, ServiceNext
<1>2. CASE ~terminated /\ (SerialStep \/ LineArrives \/ UnplugReceiver)
  BY <1>2 DEF SerialStep, LineArrives, UnplugReceiver, ServiceNext, ThreadStep
<1>3. CASE ~terminated /\ Store
  BY <1>3 DEF Store, StoreLat, StoreLon, SetReady, IgnoreLine, ServiceNext, ThreadStep
<1>4. CASE ~terminated /\ Poll
  BY <1>4 DEF Poll, TestPolling, TestReady, ClearReady, CopyLat, CopyLon, CopyField,
              BuildUpdate, Deliver, Poller
<1>5. CASE UNCHANGED vars
  BY <1>5 DEF vars
<1>. QED BY <1>1, <1>2, <1>3, <1>4, <1>5 DEF Next

(* Every behaviour of the manager is one of its serial service: Start,     *)
(* Stop and the callback are only used as the service allows.              *)
THEOREM ManagerUsesService == Spec => ServiceSpec
  BY InitUsesService, StepUsesService, PTL DEF Spec, ServiceSpec

(* So what is proved of the service holds here. *)
LEMMA ServiceHere == Spec => []ServiceInv
  BY ManagerUsesService, ServiceInvAlways, PTL

-----------------------------------------------------------------------------
(* Type correctness.                                                       *)

LEMMA MessageUpdates ==
  ASSUME NEW m \in Message, NEW n \in 0..MaxLines
  PROVE  /\ [m EXCEPT !.lat = n] \in Message
         /\ [m EXCEPT !.lon = n] \in Message
         /\ [m EXCEPT !["lat"] = n] \in Message
         /\ [m EXCEPT !["lon"] = n] \in Message
  BY DEF Message

MailTypeOK ==
  /\ ready \in BOOLEAN /\ message \in Message
  /\ writer \in {"idle", "lon", "ready"} /\ lines \in 0..MaxLines

PollTypeOK ==
  /\ poller \in PollerPcs /\ snap \in Message
  /\ delivered \in Seq(Message) /\ raced \in BOOLEAN

ManagerTypeOK ==
  /\ installed \in BOOLEAN /\ polling \in BOOLEAN
  /\ manager \in {"idle", "stopReader", "joinReader", "joinPoller"}

OwnTypeOK == MailTypeOK /\ PollTypeOK /\ ManagerTypeOK

LEMMA InitOwnTypeOK == Init => OwnTypeOK
<1> SUFFICES ASSUME Init PROVE OwnTypeOK
  OBVIOUS
<1>1. lines \in 0..MaxLines /\ message \in Message /\ snap \in Message
  BY GpsAssumption DEF Init, Message, NoMessage
<1>2. delivered \in Seq(Message)
  BY EmptySeq DEF Init
<1>. QED
  BY <1>1, <1>2 DEF Init, OwnTypeOK, MailTypeOK, PollTypeOK, ManagerTypeOK, PollerPcs

LEMMA StepOwnTypeOK == OwnTypeOK /\ [Next]_vars => OwnTypeOK'
<1> SUFFICES ASSUME OwnTypeOK, [Next]_vars PROVE OwnTypeOK'
  OBVIOUS
<1> USE DEF OwnTypeOK, mailbox, pollerVars, managerVars
<1>1. CASE Owner
  BY <1>1 DEF Owner, InstallCallback, StartManager, StopManager, StopReader, JoinReader,
              JoinPoller, MailTypeOK, PollTypeOK, ManagerTypeOK, PollerPcs
<1>2. CASE SerialStep \/ LineArrives \/ UnplugReceiver \/ IgnoreLine
  BY <1>2 DEF SerialStep, LineArrives, UnplugReceiver, IgnoreLine,
              MailTypeOK, PollTypeOK, ManagerTypeOK
<1>3. CASE StoreLat
  <2>1. lines' \in 0..MaxLines /\ message' = [message EXCEPT !.lat = lines']
    BY <1>3, GpsAssumption DEF StoreLat, MailTypeOK
  <2>2. message' \in Message
    BY <2>1, MessageUpdates DEF MailTypeOK
  <2>. QED BY <1>3, <2>1, <2>2 DEF StoreLat, Race, MailTypeOK, PollTypeOK, ManagerTypeOK
<1>4. CASE StoreLon
  <2>1. message' \in Message
    BY <1>4, MessageUpdates DEF StoreLon, MailTypeOK
  <2>. QED BY <1>4, <2>1 DEF StoreLon, Race, MailTypeOK, PollTypeOK, ManagerTypeOK
<1>5. CASE SetReady
  BY <1>5 DEF SetReady, Race, MailTypeOK, PollTypeOK, ManagerTypeOK
<1>6. CASE TestPolling \/ TestReady \/ ClearReady \/ BuildUpdate
  BY <1>6 DEF TestPolling, TestReady, ClearReady, BuildUpdate, Poller,
              MailTypeOK, PollTypeOK, ManagerTypeOK, PollerPcs
<1>7. CASE CopyLat \/ CopyLon
  <2>1. message["lat"] \in 0..MaxLines /\ message["lon"] \in 0..MaxLines
    BY DEF MailTypeOK, Message
  <2>2. snap' \in Message
    BY <1>7, <2>1, MessageUpdates DEF CopyLat, CopyLon, CopyField, PollTypeOK
  <2>. QED BY <1>7, <2>2 DEF CopyLat, CopyLon, CopyField, Poller, Race,
                             MailTypeOK, PollTypeOK, ManagerTypeOK, PollerPcs
<1>8. CASE Deliver
  <2>1. delivered' \in Seq(Message)
    BY <1>8, AppendProperties DEF Deliver, PollTypeOK
  <2>. QED BY <1>8, <2>1 DEF Deliver, Poller, MailTypeOK, PollTypeOK, ManagerTypeOK, PollerPcs
<1>9. CASE UNCHANGED vars
  BY <1>9 DEF vars, MailTypeOK, PollTypeOK, ManagerTypeOK
<1>. QED BY <1>1, <1>2, <1>3, <1>4, <1>5, <1>6, <1>7, <1>8, <1>9 DEF Next, Store, Poll

LEMMA OwnTypes == Spec => []OwnTypeOK
  BY InitOwnTypeOK, StepOwnTypeOK, PTL DEF Spec

(* The state is well typed. *)
THEOREM TypeCorrect == Spec => []TypeOK
<1>1. ServiceInv /\ OwnTypeOK => TypeOK
  BY DEF ServiceInv, OwnTypeOK, MailTypeOK, PollTypeOK, ManagerTypeOK, TypeOK
<1>. QED BY <1>1, ServiceHere, OwnTypes, PTL

-----------------------------------------------------------------------------
(* Stop.                                                                   *)

(* The owner is inside the reader's Stop exactly while it joins it.        *)
Nested ==
  /\ manager = "joinReader" <=> owner = "join"
  /\ manager = "idle" => (polling <=> running)
  /\ manager = "stopReader" => running
  /\ manager = "joinPoller" => ~running
  /\ manager # "idle" => ~polling
  /\ manager = "idle" /\ ~polling => poller = "none"
  /\ poller = "none" => manager = "idle" /\ ~polling

LEMMA NestedInit == Init => Nested
  BY DEF Init, ServiceInit, Nested

LEMMA NestedStep == OwnTypeOK /\ ServiceInv /\ Nested /\ [Next]_vars => Nested'
<1> SUFFICES ASSUME OwnTypeOK, ServiceInv, Nested, [Next]_vars PROVE Nested'
  OBVIOUS
<1>1. CASE InstallCallback \/ UNCHANGED vars
  BY <1>1 DEF InstallCallback, vars, serviceVars, managerVars, pollerVars, Nested
<1>2. CASE StartManager
  BY <1>2 DEF StartManager, Start, Nested
<1>3. CASE StopManager
  BY <1>3 DEF StopManager, serviceVars, pollerVars, Nested
<1>4. CASE StopReader
  <2>1. thread # "none"
    BY <1>4 DEF StopReader, Nested, ServiceInv, Joined
  <2>. QED BY <1>4, <2>1 DEF StopReader, RequestStop, pollerVars, Nested
<1>5. CASE JoinReader
  <2>1. ~running
    BY <1>5 DEF JoinReader, Join, ServiceInv, Joined
  <2>. QED BY <1>5, <2>1 DEF JoinReader, Join, pollerVars, Nested
<1>6. CASE JoinPoller
  <2>1. ~polling
    BY <1>6 DEF JoinPoller, Nested
  <2>. QED BY <1>6, <2>1 DEF JoinPoller, serviceVars, Nested
<1>7. CASE SerialStep \/ LineArrives \/ UnplugReceiver \/ IgnoreLine \/ SetReady
  BY <1>7 DEF SerialStep, LineArrives, UnplugReceiver, IgnoreLine, SetReady, TestRunning,
              ReadThrows, ClosePort, ReadReturns, Unplug, Return, managerVars,
              pollerVars, Nested
<1>8. CASE StoreLat \/ StoreLon
  BY <1>8 DEF StoreLat, StoreLon, serviceVars, managerVars, pollerVars, Nested
<1>9. CASE Poll
  <2>1. poller # "none" /\ poller' # "none" /\ UNCHANGED <<managerVars, serviceVars>>
    BY <1>9 DEF Poll, TestPolling, TestReady, ClearReady, CopyLat, CopyLon, CopyField,
                BuildUpdate, Deliver, Poller
  <2>. QED BY <2>1 DEF managerVars, serviceVars, Nested
<1>. QED
  BY <1>1, <1>2, <1>3, <1>4, <1>5, <1>6, <1>7, <1>8, <1>9 DEF Next, Owner, Store

(* When GpsManager::Stop has returned, neither the serial thread nor the   *)
(* polling thread exists.                                                  *)
THEOREM StopLeavesNoThread == Spec => []StoppedManagerIsQuiet
<1>1. ServiceInv /\ Nested => StoppedManagerIsQuiet
  BY DEF ServiceInv, ServiceTypeOK, Joined, Nested, StoppedManagerIsQuiet
<1>. QED BY <1>1, NestedInit, NestedStep, OwnTypes, ServiceHere, PTL DEF Spec

-----------------------------------------------------------------------------
(* The mailbox.                                                            *)

Below(n) == \A i \in 1..Len(delivered) : delivered[i].lat < n

(* A message is there that has not been copied, or is about to be.         *)
Pending == ready \/ writer # "idle"

(* Outside a store, the message is whole and that of the last line.        *)
StoredWhole ==
  /\ message.lat = lines
  /\ writer # "lon" => message.lon = lines

(* What has been delivered is older than what is pending or being copied.  *)
Sent ==
  /\ \A i \in 1..Len(delivered) : Whole(delivered[i]) /\ delivered[i].lat <= lines
  /\ \A i, j \in 1..Len(delivered) : i < j => delivered[i].lat < delivered[j].lat
  /\ Pending \/ poller \in Copying => Below(lines)

(* And older than the copy in the poller's hands.                          *)
Held ==
  /\ poller \in Copying => ~ready
  /\ poller = "lon" => snap.lat = lines /\ writer = "idle"
  /\ poller \in {"build", "deliver"} =>
       /\ Whole(snap) /\ snap.lat <= lines /\ Below(snap.lat)
       /\ Pending => snap.lat < lines
  /\ poller = "clear" => ready

Exact == StoredWhole /\ (~raced => Sent /\ Held)

(* A store and a copy at the same time are recorded. *)
LEMMA RaceStays == [Next]_vars /\ raced => raced'
  BY DEF Next, vars, Owner, InstallCallback, StartManager, StopManager, StopReader,
         JoinReader, JoinPoller, SerialStep, LineArrives, UnplugReceiver, Store, StoreLat,
         StoreLon, SetReady, IgnoreLine, Race, Poll, TestPolling, TestReady, ClearReady,
         CopyLat, CopyLon, CopyField, BuildUpdate, Deliver

(* The lines of the fields are numbers. *)
LEMMA Numbers ==
  ASSUME OwnTypeOK
  PROVE  /\ lines \in Nat /\ Len(delivered) \in Nat
         /\ snap.lat \in Nat /\ snap.lon \in Nat
         /\ \A i \in 1..Len(delivered) : delivered[i].lat \in Nat
<1>1. /\ lines \in 0..MaxLines /\ snap \in Message /\ delivered \in Seq(Message)
  BY DEF OwnTypeOK, MailTypeOK, PollTypeOK
<1>2. \A m \in Message : m.lat \in Nat /\ m.lon \in Nat
  BY GpsAssumption DEF Message
<1>3. \A i \in 1..Len(delivered) : delivered[i] \in Message
  BY <1>1, ElementOfSeq
<1>. QED BY <1>1, <1>2, <1>3, LenProperties, GpsAssumption

LEMMA ExactInit == Init => Exact
<1> SUFFICES ASSUME Init PROVE Exact
  OBVIOUS
<1>1. Len(delivered) = 0
  BY EmptySeq DEF Init
<1>2. StoredWhole
  BY DEF Init, NoMessage, StoredWhole
<1>3. Sent
  BY <1>1 DEF Init, Sent, Below
<1>4. Held
  BY DEF Init, Held, Copying
<1>. QED BY <1>2, <1>3, <1>4 DEF Exact

LEMMA StoredWholeStep ==
  ASSUME OwnTypeOK, StoredWhole, [Next]_vars
  PROVE  StoredWhole'
<1>1. CASE StoreLat
  BY <1>1 DEF StoreLat, StoredWhole, OwnTypeOK, MailTypeOK, Message
<1>2. CASE StoreLon
  BY <1>2 DEF StoreLon, StoredWhole, OwnTypeOK, MailTypeOK, Message
<1>3. CASE SetReady
  BY <1>3 DEF SetReady, StoredWhole
<1>4. CASE Poll
  BY <1>4 DEF Poll, TestPolling, TestReady, ClearReady, CopyLat, CopyLon, CopyField,
              BuildUpdate, Deliver, Poller, StoredWhole
<1>5. CASE Owner \/ SerialStep \/ LineArrives \/ UnplugReceiver \/ IgnoreLine
  BY <1>5 DEF Owner, InstallCallback, StartManager, StopManager, StopReader, JoinReader,
              JoinPoller, SerialStep, LineArrives, UnplugReceiver, IgnoreLine, mailbox,
              StoredWhole
<1>6. CASE UNCHANGED vars
  BY <1>6 DEF vars, mailbox, StoredWhole
<1>. QED BY <1>1, <1>2, <1>3, <1>4, <1>5, <1>6 DEF Next, Store

(* Steps that leave the mailbox and the copy alone. *)
LEMMA HandsOff ==
  ASSUME Sent, Held, UNCHANGED <<ready, writer, lines, snap, delivered>>,
         poller' = poller \/ poller' \in {"test", "ended", "none"}
  PROVE  Sent' /\ Held'
  BY DEF Sent, Held, Pending, Below, Copying, Whole

LEMMA ExactStoreStep ==
  ASSUME OwnTypeOK, Sent, Held, StoredWhole, Store, ~raced'
  PROVE  Sent' /\ Held'
<1>0. /\ lines \in Nat /\ Len(delivered) \in Nat /\ snap.lat \in Nat
      /\ \A i \in 1..Len(delivered) : delivered[i].lat \in Nat
  BY Numbers
<1>1. CASE IgnoreLine
  BY <1>1, HandsOff DEF IgnoreLine, mailbox, pollerVars
<1>2. CASE StoreLat
  <2>1. /\ lines' = lines + 1 /\ writer' = "lon" /\ poller \notin Copying
        /\ UNCHANGED <<ready, poller, snap, delivered>>
    BY <1>2 DEF StoreLat, Race, pollerVars
  <2>2. Sent'
    BY <1>0, <2>1 DEF Sent, Pending, Below, Copying, Whole
  <2>3. Held'
    BY <1>0, <2>1 DEF Held, Pending, Below, Copying, Whole
  <2>. QED BY <2>2, <2>3
<1>3. CASE StoreLon
  <2>1. /\ lines' = lines /\ writer = "lon" /\ writer' = "ready" /\ poller \notin Copying
        /\ UNCHANGED <<ready, poller, snap, delivered>>
    BY <1>3 DEF StoreLon, Race, pollerVars
  <2>. QED BY <2>1 DEF Sent, Held, Pending, Below, Copying, Whole
<1>4. CASE SetReady
  <2>1. /\ lines' = lines /\ writer = "ready" /\ writer' = "idle" /\ poller \notin Copying
        /\ ready' /\ UNCHANGED <<poller, snap, delivered>>
    BY <1>4 DEF SetReady, Race, pollerVars
  <2>. QED BY <2>1 DEF Sent, Held, Pending, Below, Copying, Whole
<1>. QED BY <1>1, <1>2, <1>3, <1>4 DEF Store

LEMMA ExactPollStep ==
  ASSUME OwnTypeOK, Sent, Held, StoredWhole, Poll, ~raced'
  PROVE  Sent' /\ Held'
<1>0. /\ lines \in Nat /\ Len(delivered) \in Nat /\ snap.lat \in Nat
      /\ \A i \in 1..Len(delivered) : delivered[i].lat \in Nat
  BY Numbers
<1>1. CASE TestPolling \/ TestReady
  <2>1. /\ UNCHANGED <<ready, writer, lines, snap, delivered>>
        /\ poller' \in {"test", "ready", "ended", "clear"} /\ (poller' = "clear" => ready)
    BY <1>1 DEF TestPolling, TestReady, Poller
  <2>. QED BY <2>1 DEF Sent, Held, Pending, Below, Copying
<1>2. CASE ClearReady
  <2>1. /\ UNCHANGED <<writer, lines, snap, delivered>> /\ ~ready'
        /\ poller = "clear" /\ poller' = "lat" /\ ready
    BY <1>2 DEF ClearReady, Poller, Held
  <2>. QED BY <2>1 DEF Sent, Held, Pending, Below, Copying
<1>3. CASE CopyLat
  <2>1. /\ UNCHANGED <<ready, writer, lines, delivered>> /\ writer = "idle"
        /\ poller = "lat" /\ poller' = "lon" /\ snap' = [snap EXCEPT !["lat"] = message["lat"]]
    BY <1>3 DEF CopyLat, CopyField, Poller, Race, Copying
  <2>2. snap'.lat = lines
    BY <2>1 DEF StoredWhole, OwnTypeOK, PollTypeOK, Message
  <2>. QED BY <2>1, <2>2 DEF Sent, Held, Pending, Below, Copying
<1>4. CASE CopyLon
  <2>1. /\ UNCHANGED <<ready, writer, lines, delivered>> /\ writer = "idle" /\ ~ready
        /\ poller = "lon" /\ poller' = "build" /\ snap.lat = lines
        /\ snap' = [snap EXCEPT !["lon"] = message["lon"]]
    BY <1>4 DEF CopyLon, CopyField, Poller, Held, Copying
  <2>2. snap'.lat = lines /\ snap'.lon = lines
    BY <2>1 DEF StoredWhole, OwnTypeOK, PollTypeOK, Message
  <2>. QED BY <1>0, <2>1, <2>2 DEF Sent, Held, Pending, Below, Copying, Whole
<1>5. CASE BuildUpdate
  <2>1. /\ UNCHANGED <<ready, writer, lines, snap, delivered>>
        /\ poller = "build" /\ poller' \in {"deliver", "test"}
    BY <1>5 DEF BuildUpdate, Poller
  <2>. QED BY <2>1 DEF Sent, Held, Pending, Below, Copying, Whole
<1>6. CASE Deliver
  <2>1. /\ UNCHANGED <<ready, writer, lines, snap>> /\ poller = "deliver" /\ poller' = "test"
    BY <1>6 DEF Deliver, Poller
  <2>2. /\ Len(delivered') = Len(delivered) + 1
        /\ \A i \in 1..Len(delivered) : delivered'[i] = delivered[i]
        /\ delivered'[Len(delivered) + 1] = snap
    BY <1>6, AppendProperties DEF Deliver, OwnTypeOK, PollTypeOK
  <2>3. Whole(snap) /\ snap.lat <= lines /\ Below(snap.lat) /\ (Pending => snap.lat < lines)
    BY <2>1 DEF Held
  <2>4. \A i \in 1..Len(delivered') : i \in 1..Len(delivered) \/ delivered'[i] = snap
    BY <1>0, <2>2
  <2>5. \A i \in 1..Len(delivered') : Whole(delivered'[i]) /\ delivered'[i].lat <= lines'
    BY <2>1, <2>2, <2>3, <2>4 DEF Sent
  <2>6. ASSUME NEW i \in 1..Len(delivered'), NEW j \in 1..Len(delivered'), i < j
        PROVE  delivered'[i].lat < delivered'[j].lat
    <3>1. i \in 1..Len(delivered)
      BY <1>0, <2>2, <2>6
    <3>2. CASE j \in 1..Len(delivered)
      BY <3>1, <3>2, <2>2, <2>6 DEF Sent
    <3>3. CASE delivered'[j] = snap
      BY <3>1, <3>3, <2>2, <2>3 DEF Below
    <3>. QED BY <3>2, <3>3, <2>4
  <2>7. Pending' => Below(lines)'
    <3> SUFFICES ASSUME Pending', NEW i \in 1..Len(delivered') PROVE delivered'[i].lat < lines'
      BY DEF Below
    <3>1. Pending
      BY <2>1 DEF Pending
    <3>2. CASE i \in 1..Len(delivered)
      BY <3>1, <3>2, <2>1, <2>2 DEF Sent, Below
    <3>3. CASE delivered'[i] = snap
      BY <3>1, <3>3, <2>1, <2>3
    <3>. QED BY <3>2, <3>3, <2>4
  <2>. QED BY <2>1, <2>5, <2>6, <2>7 DEF Sent, Held, Copying
<1>. QED BY <1>1, <1>2, <1>3, <1>4, <1>5, <1>6 DEF Poll

LEMMA ExactStep == OwnTypeOK /\ Nested /\ Exact /\ [Next]_vars => Exact'
<1> SUFFICES ASSUME OwnTypeOK, Nested, Exact, [Next]_vars PROVE Exact'
  OBVIOUS
<1>1. StoredWhole'
  BY StoredWholeStep DEF Exact
<1> SUFFICES ASSUME ~raced' PROVE Sent' /\ Held'
  BY <1>1 DEF Exact
<1>2. Sent /\ Held /\ StoredWhole
  BY RaceStays DEF Exact
<1>3. CASE Owner
  <2>1. CASE StartManager
    BY <2>1, <1>2, HandsOff DEF StartManager, mailbox
  <2>2. CASE JoinPoller
    BY <2>2, <1>2, HandsOff DEF JoinPoller, mailbox
  <2>3. CASE InstallCallback \/ StopManager \/ StopReader \/ JoinReader
    BY <2>3, <1>2, HandsOff
       DEF InstallCallback, StopManager, StopReader, JoinReader, mailbox, pollerVars
  <2>. QED BY <1>3, <2>1, <2>2, <2>3 DEF Owner
<1>4. CASE SerialStep \/ LineArrives \/ UnplugReceiver
  BY <1>4, <1>2, HandsOff DEF SerialStep, LineArrives, UnplugReceiver, mailbox, pollerVars
<1>5. CASE Store
  BY <1>5, <1>2, ExactStoreStep
<1>6. CASE Poll
  BY <1>6, <1>2, ExactPollStep
<1>7. CASE UNCHANGED vars
  BY <1>7, <1>2, HandsOff DEF vars, mailbox, pollerVars
<1>. QED BY <1>3, <1>4, <1>5, <1>6, <1>7 DEF Next

(* As long as no store has overlapped a copy, each message reaches the     *)
(* callback whole, at most once and in the order of the lines.             *)
THEOREM ExactOnce == Spec => []OnceUnlessRaced
<1>1. Exact => OnceUnlessRaced
  BY DEF Exact, Sent, OnceUnlessRaced
<1>. QED
  BY <1>1, ExactInit, ExactStep, OwnTypes, NestedInit, NestedStep, ServiceHere, PTL DEF Spec

=============================================================================
