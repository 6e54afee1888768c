------------------------ MODULE SerialComServiceProofs ------------------------
(***************************************************************************)
(* Proofs about SerialComService, for any number of restarts, any length   *)
(* of message and either kind of callback.                                 *)
(***************************************************************************)
EXTENDS SerialComService, TLAPS

(* A stopped service has been joined: no thread, no open port.             *)
Joined ==
  /\ owner = "join" => ~running /\ thread # "none"
  /\ owner = "idle" /\ ~running => thread = "none"
  /\ running => thread \in {"test", "read", "handle"}
  /\ thread = "ended" => ~open
  /\ thread = "none" /\ starts > 0 => ~open

(* A thread told to stop completes no callback before the one it is in.    *)
FewLate ==
  /\ late <= 1
  /\ ~running /\ thread \in {"read", "handle"} => late = 0

(* A callback reads no further than its message. *)
InMessage ==
  /\ thread = "read" => reads < MaxReads
  /\ thread \notin {"read", "handle"} => reads = 0

ServiceInv == ServiceTypeOK /\ Joined /\ FewLate /\ InMessage

(* The bounds of the counters. *)
LEMMA Bounds ==
  /\ MaxStarts \in Nat /\ MaxReads \in Nat /\ 0 < MaxReads
  /\ 0 \in 0..MaxStarts /\ 0 \in 0..MaxReads
  BY ServiceAssumption

(* The initial state. *)
LEMMA ServiceInvInit == ServiceInit => ServiceInv
<1> SUFFICES ASSUME ServiceInit PROVE ServiceInv
  OBVIOUS
<1>1. starts \in 0..MaxStarts /\ reads \in 0..MaxReads /\ late \in 0..2
  BY Bounds DEF ServiceInit
<1>2. ServiceTypeOK
  BY <1>1 DEF ServiceInit, ServiceTypeOK, ThreadPcs
<1>3. Joined /\ FewLate /\ InMessage
  BY DEF ServiceInit, Joined, FewLate, InMessage
<1>. QED BY <1>2, <1>3 DEF ServiceInv

(* What the end of a callback does to the counters. *)
LEMMA ReturnsKeeps ==
  ASSUME ServiceInv, Returns, thread \in {"read", "handle"},
         UNCHANGED <<running, open, plugged, owner, starts>>,
         terminated' \in BOOLEAN
  PROVE  ServiceInv'
<1>1. late' \in 0..2 /\ reads' \in 0..MaxReads /\ thread' = "test"
  BY Bounds DEF ServiceInv, ServiceTypeOK, Returns
<1>2. ServiceTypeOK'
  BY <1>1 DEF ServiceInv, ServiceTypeOK, ThreadPcs
<1>3. late' <= 1
  BY DEF ServiceInv, ServiceTypeOK, FewLate, Returns
<1>4. Joined' /\ FewLate' /\ InMessage'
  BY <1>1, <1>3 DEF ServiceInv, ServiceTypeOK, Joined, FewLate, InMessage, Returns
<1>. QED BY <1>2, <1>4 DEF ServiceInv

(* Every step keeps the invariant. *)
LEMMA ServiceInvStep == ServiceInv /\ [ServiceNext]_serviceVars => ServiceInv'
<1> SUFFICES ASSUME ServiceInv, [ServiceNext]_serviceVars PROVE ServiceInv'
  OBVIOUS
<1> USE DEF ServiceInv, ServiceTypeOK, Joined, FewLate, InMessage, ThreadPcs
<1>1. CASE Start
  <2>1. starts' \in 0..MaxStarts
    BY <1>1, Bounds DEF Start
  <2>. QED BY <1>1, <2>1 DEF Start
<1>2. CASE RequestStop
  <2>1. late' = 0 /\ running' = FALSE
    BY <1>2 DEF RequestStop
  <2>2. owner' \in {"idle", "join"}
    BY <1>2 DEF RequestStop
  <2>3. UNCHANGED <<thread, reads, open, plugged, starts, terminated>>
    BY <1>2 DEF RequestStop
  <2>4. late' \in 0..2
    BY <2>1
  <2>5. running' \in BOOLEAN
    BY <2>1
  <2>6. ServiceTypeOK'
    BY <2>1, <2>2, <2>3, <2>4, <2>5
  <2>7. FewLate'
    BY <2>1
  <2>8. InMessage'
    BY <2>3
  <2>9. Joined'
    BY <1>2 DEF RequestStop
  <2>. QED BY <2>6, <2>7, <2>8, <2>9
<1>3. CASE Join
  BY <1>3 DEF Join
<1>4. CASE ReadReturns
  <2>1. reads + 1 \in 0..MaxReads
    BY <1>4, Bounds DEF ReadReturns
  <2>. QED BY <1>4, <2>1 DEF ReadReturns
<1>5. CASE TestRunning
  BY <1>5, Bounds DEF TestRunning
<1>6. CASE ReadThrows
  BY <1>6, ReturnsKeeps DEF ReadThrows
<1>7. CASE Return
  BY <1>7, ReturnsKeeps DEF Return
<1>8. CASE ReadOn
  BY <1>8 DEF ReadOn
<1>9. CASE ClosePort
  BY <1>9 DEF ClosePort
<1>10. CASE Unplug
  BY <1>10 DEF Unplug
<1>11. CASE UNCHANGED serviceVars
  BY <1>11 DEF serviceVars
<1>. QED
  BY <1>1, <1>2, <1>3, <1>4, <1>5, <1>6, <1>7, <1>8, <1>9, <1>10, <1>11
     DEF ServiceNext, ThreadStep

(* The invariant holds throughout. *)
LEMMA ServiceInvAlways == ServiceSpec => []ServiceInv
  BY ServiceInvInit, ServiceInvStep, PTL DEF ServiceSpec

(* The state of the service is well typed. *)
THEOREM ServiceTypeCorrect == ServiceSpec => []ServiceTypeOK
<1>1. ServiceInv => ServiceTypeOK
  BY DEF ServiceInv
<1>. QED BY <1>1, ServiceInvAlways, PTL

(* When Stop has returned, no callback runs and none will.                 *)
THEOREM StopIsQuiet == ServiceSpec => []StoppedIsQuiet
<1>1. ServiceInv => StoppedIsQuiet
  BY DEF ServiceInv, Joined, StoppedIsQuiet
<1>. QED BY <1>1, ServiceInvAlways, PTL

(* A service that has run and is stopped has closed its port.              *)
THEOREM StopCloses == ServiceSpec => []StoppedIsClosed
<1>1. ServiceInv => StoppedIsClosed
  BY DEF ServiceInv, Joined, StoppedIsClosed
<1>. QED BY <1>1, ServiceInvAlways, PTL

(* At most one callback completes after Stop has cleared the flag.         *)
THEOREM StopIsPrompt == ServiceSpec => []OneLateCallback
<1>1. ServiceInv => OneLateCallback
  BY DEF ServiceInv, FewLate, OneLateCallback
<1>. QED BY <1>1, ServiceInvAlways, PTL

=============================================================================
