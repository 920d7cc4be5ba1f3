----------------------------- MODULE RecordStore -----------------------------
(***************************************************************************)
(* What a table sink promises its writers, without saying how.             *)
(*                                                                         *)
(* A record the sink has accepted is pending until a commit makes it       *)
(* visible in the table or the sink gives it up (a rollback, the death of  *)
(* the process, a commit that failed with nothing left to retry it).       *)
(* Which records become visible together is left open.  Visible and        *)
(* dropped are final: a committed record never leaves the table, and one   *)
(* the sink gave up never comes back.                                      *)
(***************************************************************************)
CONSTANT Records

VARIABLE status

\* The status function after every record of R has moved to status s.
Move(R, s) == [r \in Records |-> IF r \in R THEN s ELSE status[r]]

InStatus(s) == {r \in Records : status[r] = s}

Init == status = [r \in Records |-> "fresh"]

\* The sink takes records from a writer.
Accept(R) ==
  /\ R \subseteq InStatus("fresh")
  /\ status' = Move(R, "pending")

\* A snapshot that adds a data file holding R lands in the table.
Publish(R) ==
  /\ R \subseteq InStatus("pending")
  /\ status' = Move(R, "visible")

\* The sink gives R up.
Drop(R) ==
  /\ R \subseteq InStatus("pending")
  /\ status' = Move(R, "dropped")

Next == \E R \in SUBSET Records : Accept(R) \/ Publish(R) \/ Drop(R)

Spec == Init /\ [][Next]_status
=============================================================================
