--------------------------- MODULE SerialComService ---------------------------
(***************************************************************************)
(* SerialComService (src/src/SerialComService.cpp) over a BoostSerialPort: *)
(* the owner starts and stops one reading thread, the thread calls the     *)
(* installed callback, and the callback reads from the port, waiting as    *)
(* long as the line is silent.  The constructor opens the port and the     *)
(* thread closes it on its way out.                                        *)
(*                                                                         *)
(* The two readers built on the service differ in one respect: the IMU     *)
(* reader's callback catches every exception, the NMEA reader's none, and  *)
(* an exception that leaves the thread terminates the process.  They       *)
(* extend this module and replace what happens between a read and the next.*)
(***************************************************************************)
EXTENDS Naturals

CONSTANTS
  MaxStarts,      \* bound: calls of Start that find the service stopped
  MaxReads,       \* reads of one callback: header, length and rest, or one line
  CatchesErrors   \* the installed callback catches what a read throws

ASSUME ServiceAssumption ==
  MaxStarts \in Nat /\ MaxReads \in Nat \ {0} /\ CatchesErrors \in BOOLEAN

VARIABLES
  running,      \* m_running
  thread,       \* m_runThread: "none" when it is not joinable, else its pc
  reads,        \* reads the current callback has completed
  open,         \* m_serial is open
  plugged,      \* the device is there
  owner,        \* "idle", or "join" inside Stop
  starts,       \* Start calls so far
  late,         \* history: callbacks completed since Stop cleared the flag
  terminated    \* an exception has left the thread

serviceVars == <<running, thread, reads, open, plugged, owner, starts, late, terminated>>

ThreadPcs == {"none", "test", "read", "handle", "close", "ended"}

ServiceInit ==
  /\ running = FALSE /\ thread = "none" /\ reads = 0 /\ open = TRUE /\ plugged = TRUE
  /\ owner = "idle" /\ starts = 0 /\ late = 0 /\ terminated = FALSE

-----------------------------------------------------------------------------
(* The owner.                                                              *)

(* A Start that finds the flag set returns at once.                        *)
Start ==
  /\ owner = "idle" /\ ~running /\ starts < MaxStarts
  /\ running' = TRUE /\ thread' = "test"
  /\ starts' = starts + 1
  /\ UNCHANGED <<reads, open, plugged, owner, late, terminated>>

(* Stop, up to the join; so is the destructor.                             *)
RequestStop ==
  /\ owner = "idle"
  /\ running' = FALSE /\ late' = 0
  /\ owner' = IF thread = "none" THEN "idle" ELSE "join"
  /\ UNCHANGED <<thread, reads, open, plugged, starts, terminated>>

Join ==
  /\ owner = "join" /\ thread = "ended"
  /\ owner' = "idle" /\ thread' = "none"
  /\ UNCHANGED <<running, reads, open, plugged, starts, late, terminated>>

-----------------------------------------------------------------------------
(* The reading thread.                                                     *)

MutTestForever ==
  /\ thread = "test"
  /\ thread' = "read"
  /\ UNCHANGED <<running, reads, open, plugged, owner, starts, late, terminated>>

TestRunning ==
  /\ thread = "test"
  /\ thread' = IF running THEN "read" ELSE "close"
  /\ UNCHANGED <<running, reads, open, plugged, owner, starts, late, terminated>>

(* The line has delivered what ReadExact or ReadUntil waits for.           *)
ReadReturns ==
  /\ thread = "read" /\ open /\ plugged
  /\ thread' = "handle" /\ reads' = reads + 1
  /\ UNCHANGED <<running, open, plugged, owner, starts, late, terminated>>

(* The callback is over; the history saturates at 2.                       *)
Returns ==
  /\ thread' = "test" /\ reads' = 0
  /\ late' = IF ~running /\ late < 2 THEN late + 1 ELSE late

(* On a closed port, or without the device, the read throws.               *)
ReadThrows ==
  /\ thread = "read" /\ ~(open /\ plugged)
  /\ IF CatchesErrors
     THEN Returns /\ UNCHANGED terminated
     ELSE terminated' = TRUE /\ UNCHANGED <<thread, reads, late>>
  /\ UNCHANGED <<running, open, plugged, owner, starts>>

(* A callback reads a message in parts and may give it up after any.       *)
ReadOn ==
  /\ thread = "handle" /\ reads < MaxReads
  /\ thread' = "read"
  /\ UNCHANGED <<running, reads, open, plugged, owner, starts, late, terminated>>

Return ==
  /\ thread = "handle"
  /\ Returns
  /\ UNCHANGED <<running, open, plugged, owner, starts, terminated>>

ClosePort ==
  /\ thread = "close" /\ thread' = "ended"
  /\ open' = FALSE
  /\ UNCHANGED <<running, reads, plugged, owner, starts, late, terminated>>

Unplug ==
  /\ plugged /\ plugged' = FALSE
  /\ UNCHANGED <<running, thread, reads, open, owner, starts, late, terminated>>

-----------------------------------------------------------------------------

ThreadStep == TestRunning \/ ReadThrows \/ Return \/ ReadOn \/ ClosePort

ServiceNext ==
  /\ ~terminated
  /\ \/ Start \/ RequestStop \/ Join
     \/ ReadReturns \/ ThreadStep
     \/ Unplug

ServiceSpec == ServiceInit /\ [][ServiceNext]_serviceVars

Runs(A) == ~terminated /\ A

-----------------------------------------------------------------------------
(* Properties.                                                             *)

(* Type correctness.                                                       *)
ServiceTypeOK ==
  /\ running \in BOOLEAN /\ thread \in ThreadPcs /\ reads \in 0..MaxReads
  /\ open \in BOOLEAN /\ plugged \in BOOLEAN
  /\ owner \in {"idle", "join"} /\ starts \in 0..MaxStarts
  /\ late \in 0..2 /\ terminated \in BOOLEAN

(* When Stop has returned no callback is running or will run: the objects  *)
(* the callback refers to may be destroyed (Stop 48-57).                   *)
StoppedIsQuiet == owner = "idle" /\ ~running => thread = "none"

(* A stopped service has closed its port, once it has run at all (44).     *)
StoppedIsClosed == owner = "idle" /\ ~running /\ starts > 0 => ~open

(* After Stop has cleared the flag at most one callback still completes:   *)
(* the one the thread was in, or had decided to enter (40-41).             *)
OneLateCallback == late <= 1

=============================================================================
