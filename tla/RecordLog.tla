------------------------------ MODULE RecordLog ------------------------------
(***************************************************************************)
(* What a database writer promises its callers, with no threads, queue     *)
(* or transactions: records are accepted in some order, and then settled   *)
(* in that order, a whole batch at a time.  A batch is either stored, all  *)
(* of it, or given up, all of it; a stored row never changes.              *)
(*                                                                         *)
(* DatabaseManager implements this, and so does the recording script of    *)
(* the board (Log!Spec in DatabaseManager and in Recorder).                *)
(***************************************************************************)
EXTENDS Naturals, Sequences

CONSTANT Records  \* the kinds of record a caller can hand over

VARIABLES
  accepted,  \* every record handed over, in order
  settled,   \* how many of them have been stored or given up
  stored     \* the rows of the database, in insertion order

vars == <<accepted, settled, stored>>

Init ==
  /\ accepted = <<>>
  /\ settled = 0
  /\ stored = <<>>

(* A caller hands over one record. *)
Accept(r) ==
  /\ accepted' = Append(accepted, r)
  /\ UNCHANGED <<settled, stored>>

(* The next n unsettled records, exactly those. *)
NextBatch(n) == SubSeq(accepted, settled + 1, settled + n)

(* The next n records are stored together, behind the rows already there. *)
Store(n) ==
  /\ stored' = stored \o NextBatch(n)
  /\ settled' = settled + n
  /\ UNCHANGED accepted

(* The next n records are given up together. *)
GiveUp(n) ==
  /\ settled' = settled + n
  /\ UNCHANGED <<accepted, stored>>

Next ==
  \/ \E r \in Records : Accept(r)
  \/ \E n \in 1..(Len(accepted) - settled) : Store(n) \/ GiveUp(n)

Spec == Init /\ [][Next]_vars

=============================================================================
