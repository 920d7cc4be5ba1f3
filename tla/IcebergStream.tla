---------------------------- MODULE IcebergStream ----------------------------
(***************************************************************************)
(* One table with its writers, its compactors and a poller with its        *)
(* consumer, at work at the same time.                                     *)
(***************************************************************************)
EXTENDS IcebergCompactor, IcebergPoller

vars == <<snaps, faults, job, splits, last, stream, server, receiver, processed, saved, redone>>

Init == InitTable /\ InitCompactor /\ InitPoller

Write == \E C \in Commits : Ingest(C) /\ UNCHANGED <<compactorVars, pollerVars>>

Poll ==
  /\ \/ PollSends /\ UNCHANGED faults
     \/ PollGone /\ UNCHANGED faults
     \/ PollEmpty
  /\ UNCHANGED <<snaps, compactorVars>>

Consume == (Process \/ Ack) /\ UNCHANGED <<tableVars, compactorVars>>

Disturb == (Drop \/ Close \/ Restart) /\ UNCHANGED <<snaps, compactorVars>>

Next ==
  \/ Write
  \/ \E k \in Compactors : (Compact(k) \/ Abandon(k)) /\ UNCHANGED pollerVars
  \/ Poll
  \/ Consume
  \/ Disturb

Spec == Init /\ [][Next]_vars

\* The timers of the poller and of the schedulers keep ticking, a consumer
\* that holds the channel keeps receiving, and a process that ended is
\* started again.
Fairness ==
  /\ WF_vars(Poll)
  /\ WF_vars(Consume)
  /\ WF_vars(server = "ended" /\ Restart /\ UNCHANGED <<snaps, compactorVars>>)
  /\ \A k \in Compactors : WF_vars(Compact(k) /\ UNCHANGED pollerVars)

FairSpec == Spec /\ Fairness

TypeOK == TableTypeOK /\ CompactorTypeOK /\ PollerTypeOK

\* Delivery to the consumer: all of it up to the checkpoint, and once.
DeliverySound == TypeOK /\ CheckpointCovers /\ CheckpointsOrdered /\ OnceUnlessRedone
=============================================================================
