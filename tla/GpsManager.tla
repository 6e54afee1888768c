------------------------------ MODULE GpsManager ------------------------------
(***************************************************************************)
(* GpsManager (src/src/gps/GpsManager.cpp) over NmeaReader and its         *)
(* SerialComService.  The serial thread parses each line and stores an     *)
(* accepted one in m_nmeaMessage, a mailbox of one with a ready flag; the  *)
(* polling thread looks at the flag every 10 ms, copies the message and    *)
(* passes it to the installed callback.                                    *)
(*                                                                         *)
(* GetNmeaMessage copies under m_nmeaMessageMutex, Callback stores without *)
(* it, so the copy and the store interleave field by field.  A message is  *)
(* reduced to latitude and longitude, which carry the number of the line   *)
(* they come from; its other fields travel, and tear, in the same way.     *)
(***************************************************************************)
EXTENDS SerialComService, Sequences

CONSTANT MaxLines   \* bound: accepted NMEA lines

ASSUME GpsAssumption ==
  MaxLines \in Nat /\ MaxReads = 1 /\ ~CatchesErrors

VARIABLES
  installed,  \* m_isCallbackInstalled
  polling,    \* m_running of the manager
  poller,     \* m_thread: "none" when it is not joinable, else its pc
  manager,    \* pc of the owner inside GpsManager::Stop
  ready,      \* m_nmeaMessageReady
  message,    \* m_nmeaMessage
  writer,     \* pc of the serial thread inside Callback
  snap,       \* msg, the poller's copy
  lines,      \* accepted lines so far
  delivered,  \* history: the updates passed to the callback
  raced       \* history: a store and a copy have overlapped

managerVars == <<installed, polling, manager>>
mailbox == <<ready, message, writer, lines>>
pollerVars == <<poller, snap, delivered>>
vars == <<serviceVars, managerVars, mailbox, pollerVars, raced>>

Message == [lat : 0..MaxLines, lon : 0..MaxLines]
NoMessage == [lat |-> 0, lon |-> 0]
Whole(m) == m.lat = m.lon

PollerPcs == {"none", "test", "ready", "clear", "lat", "lon", "build", "deliver", "ended"}
Copying == {"lat", "lon"}

Init ==
  /\ ServiceInit
  /\ installed = FALSE /\ polling = FALSE /\ manager = "idle"
  /\ ready = FALSE /\ message = NoMessage /\ writer = "idle" /\ lines = 0
  /\ poller = "none" /\ snap = NoMessage /\ delivered = <<>>
  /\ raced = FALSE

-----------------------------------------------------------------------------
(* The owner.                                                              *)

InstallCallback ==
  /\ ~installed /\ manager = "idle"
  /\ installed' = TRUE
  /\ UNCHANGED <<serviceVars, polling, manager, mailbox, pollerVars, raced>>

StartManager ==
  /\ manager = "idle" /\ ~polling
  /\ polling' = TRUE
  /\ Start
  /\ poller' = "test"
  /\ UNCHANGED <<installed, manager, mailbox, snap, delivered, raced>>

StopManager ==
  /\ manager = "idle" /\ polling
  /\ polling' = FALSE /\ manager' = "stopReader"
  /\ UNCHANGED <<serviceVars, installed, mailbox, pollerVars, raced>>

StopReader ==
  /\ manager = "stopReader"
  /\ RequestStop
  /\ manager' = "joinReader"
  /\ UNCHANGED <<installed, polling, mailbox, pollerVars, raced>>

MutJoinReader ==
  /\ manager = "joinReader"
  /\ Join
  /\ manager' = "idle"
  /\ UNCHANGED <<installed, polling, mailbox, pollerVars, raced>>

JoinReader ==
  /\ manager = "joinReader"
  /\ Join
  /\ manager' = "joinPoller"
  /\ UNCHANGED <<installed, polling, mailbox, pollerVars, raced>>

JoinPoller ==
  /\ manager = "joinPoller" /\ poller = "ended"
  /\ manager' = "idle" /\ poller' = "none"
  /\ UNCHANGED <<serviceVars, installed, polling, mailbox, snap, delivered, raced>>

-----------------------------------------------------------------------------
(* The serial thread: NmeaReader::Callback, after ReadUntil has returned.  *)

Race ==
  raced' = (raced \/ ((writer # "idle" \/ writer' # "idle") /\ poller \in Copying))

(* Not an NMEA line, a bad checksum, or a sentence without a position.     *)
IgnoreLine ==
  /\ writer = "idle"
  /\ Return
  /\ UNCHANGED <<managerVars, mailbox, pollerVars, raced>>

(* The assignment of line 76, one field at a time.                         *)
StoreLat ==
  /\ thread = "handle" /\ writer = "idle" /\ lines < MaxLines
  /\ lines' = lines + 1
  /\ message' = [message EXCEPT !.lat = lines']
  /\ writer' = "lon"
  /\ Race
  /\ UNCHANGED <<serviceVars, managerVars, ready, pollerVars>>

StoreLon ==
  /\ writer = "lon" /\ writer' = "ready"
  /\ message' = [message EXCEPT !.lon = lines]
  /\ Race
  /\ UNCHANGED <<serviceVars, managerVars, ready, lines, pollerVars>>

SetReady ==
  /\ writer = "ready" /\ writer' = "idle"
  /\ ready' = TRUE
  /\ Return
  /\ Race
  /\ UNCHANGED <<managerVars, message, lines, pollerVars>>

(* The rest of the serial thread, as the service has it.                   *)
SerialStep ==
  /\ TestRunning \/ ReadThrows \/ ClosePort
  /\ UNCHANGED <<managerVars, mailbox, pollerVars, raced>>

LineArrives ==
  /\ ReadReturns
  /\ UNCHANGED <<managerVars, mailbox, pollerVars, raced>>

UnplugReceiver ==
  /\ Unplug
  /\ UNCHANGED <<managerVars, mailbox, pollerVars, raced>>

-----------------------------------------------------------------------------
(* The polling thread.                                                     *)

Poller(here, next) ==
  /\ poller = here /\ poller' = next
  /\ UNCHANGED <<serviceVars, managerVars, message, writer, lines>>

TestPolling ==
  /\ Poller("test", IF polling THEN "ready" ELSE "ended")
  /\ UNCHANGED <<ready, snap, delivered, raced>>

TestReady ==
  /\ Poller("ready", IF ready THEN "clear" ELSE "test")
  /\ UNCHANGED <<ready, snap, delivered, raced>>

MutClearReady ==
  /\ Poller("clear", "lat")
  /\ UNCHANGED <<ready, snap, delivered, raced>>

(* GetNmeaMessage clears the flag before it copies.                        *)
ClearReady ==
  /\ Poller("clear", "lat")
  /\ ready' = FALSE
  /\ UNCHANGED <<snap, delivered, raced>>

CopyField(field, here, next) ==
  /\ Poller(here, next)
  /\ snap' = [snap EXCEPT ![field] = message[field]]
  /\ Race
  /\ UNCHANGED <<ready, delivered>>

CopyLat == CopyField("lat", "lat", "lon")
CopyLon == CopyField("lon", "lon", "build")

MutClearAfterCopy ==
  /\ Poller("build", IF installed /\ snap.lat # 0 /\ snap.lon # 0 THEN "deliver" ELSE "test")
  /\ ready' = FALSE
  /\ UNCHANGED <<snap, delivered, raced>>

(* BuildGpsUpdate and the two tests before the callback is called.         *)
BuildUpdate ==
  /\ Poller("build", IF installed /\ snap.lat # 0 /\ snap.lon # 0 THEN "deliver" ELSE "test")
  /\ UNCHANGED <<ready, snap, delivered, raced>>

Deliver ==
  /\ Poller("deliver", "test")
  /\ delivered' = Append(delivered, snap)
  /\ UNCHANGED <<ready, snap, raced>>

-----------------------------------------------------------------------------

Owner ==
  \/ InstallCallback \/ StartManager
  \/ StopManager \/ StopReader \/ JoinReader \/ JoinPoller

Store == StoreLat \/ StoreLon \/ SetReady \/ IgnoreLine

Poll ==
  \/ TestPolling \/ TestReady \/ ClearReady
  \/ CopyLat \/ CopyLon \/ BuildUpdate \/ Deliver

Next ==
  /\ ~terminated
  /\ \/ Owner
     \/ SerialStep \/ LineArrives \/ UnplugReceiver \/ Store
     \/ Poll

Spec == Init /\ [][Next]_vars

(* Both threads are scheduled, and the owner inside Stop.                  *)
Fairness ==
  /\ WF_vars(Runs(Poll)) /\ WF_vars(Runs(Store)) /\ WF_vars(Runs(SerialStep))
  /\ WF_vars(Runs(StopReader \/ JoinReader \/ JoinPoller))

FairSpec == Spec /\ Fairness

-----------------------------------------------------------------------------
(* Properties.                                                             *)

(* Type correctness.                                                       *)
TypeOK ==
  /\ ServiceTypeOK
  /\ installed \in BOOLEAN /\ polling \in BOOLEAN
  /\ manager \in {"idle", "stopReader", "joinReader", "joinPoller"}
  /\ ready \in BOOLEAN /\ message \in Message
  /\ writer \in {"idle", "lon", "ready"} /\ lines \in 0..MaxLines
  /\ poller \in PollerPcs /\ snap \in Message
  /\ delivered \in Seq(Message) /\ raced \in BOOLEAN

(* When GpsManager::Stop has returned neither thread runs: the callback,   *)
(* and the objects it refers to, are not used any more (58-66).            *)
StoppedManagerIsQuiet ==
  manager = "idle" /\ ~polling => thread = "none" /\ poller = "none"

(* As long as no store has overlapped a copy, each message reaches the     *)
(* callback whole and at most once, in the order of the lines: clearing    *)
(* the flag first (62) costs no duplicates.                                *)
OnceUnlessRaced ==
  ~raced =>
    /\ \A i \in 1..Len(delivered) : Whole(delivered[i])
    /\ \A i, j \in 1..Len(delivered) : i < j => delivered[i].lat < delivered[j].lat

(* Because the flag is cleared before the copy (62, 65), a message stored  *)
(* while a callback is installed is never overlooked: it, or a newer one,  *)
(* reaches the callback, unless the manager stops or the process ends.     *)
NewestReachesCallback ==
  \A n \in 1..MaxLines :
    (writer = "ready" /\ lines = n /\ installed)
      ~> \/ \E i \in 1..Len(delivered) : delivered[i].lon >= n
         \/ ~polling \/ terminated

=============================================================================
