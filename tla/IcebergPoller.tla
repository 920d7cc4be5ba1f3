---------------------------- MODULE IcebergPoller ----------------------------
(***************************************************************************)
(* The iceberg poller, src/prestige/src/iceberg/poller.rs, and a consumer  *)
(* that processes each stream, saves its snapshot as a checkpoint and      *)
(* acknowledges it (README.md, "Incremental Reads").  A poll sends nothing *)
(* while an acknowledgement is outstanding, so that the channel never      *)
(* holds a second stream and send_timeout never expires.                   *)
(***************************************************************************)
EXTENDS IcebergTable

VARIABLES
  last,       \* last_snapshot_id (0: none)
  stream,     \* the stream sent last, with its acknowledgement
  server,     \* the poller's run(): "running" or "ended"
  receiver,   \* the consumer holds the receiving end
  processed,  \* rows the consumer has dealt with, and how often
  saved,      \* the checkpoint the consumer keeps for start_after_snapshot
  redone      \* history: something may be delivered again

pollerVars == <<last, stream, server, receiver, processed, saved, redone>>

NoStream == [at |-> "none", snap |-> 0, rows |-> NoRows]

InitPoller ==
  /\ last = 0 /\ stream = NoStream /\ server = "running" /\ receiver = TRUE
  /\ processed = NoRows /\ saved = 0 /\ redone = FALSE

-----------------------------------------------------------------------------
(* poll_once                                                               *)

\* try_recv finds no acknowledgement yet: the poll ends there.
\* Mutant: a dropped stream is waited for.
WaitingForDropped == stream.at \in {"sent", "processed", "dropped"}
Waiting == stream.at \in {"sent", "processed"}

\* The checkpoint once an acknowledgement was looked at.
\* Mutant: a dropped stream counts as acknowledged.
AckedOrDropped == IF stream.at \in {"acked", "dropped"} THEN stream.snap ELSE last
Acked == IF stream.at = "acked" THEN stream.snap ELSE last

\* What is sent: the rows since the checkpoint, or all of them.
ToSend == Content(IF Acked = 0 THEN FilesOf(Current) ELSE ScanRange(Acked, Current))

PollSends ==
  /\ server = "running" /\ receiver /\ ~ Waiting
  /\ Current # 0 /\ Acked # Current
  /\ stream' = [at |-> "sent", snap |-> Current, rows |-> ToSend]
  /\ last' = Acked
  /\ UNCHANGED <<server, receiver, processed, saved, redone>>

\* Nothing new; or, as a fault, the table cannot be loaded or scanned.
PollEmpty ==
  /\ server = "running" /\ ~ Waiting
  /\ stream # NoStream \/ last # Acked
  /\ \/ Current = 0 \/ Acked = Current
     \/ faults < MaxFaults
  /\ stream' = NoStream /\ last' = Acked
  /\ faults' = IF Current = 0 \/ Acked = Current THEN faults ELSE faults + 1
  /\ UNCHANGED <<server, receiver, processed, saved, redone>>

\* The channel is closed: run() ends.
PollGone ==
  /\ server = "running" /\ ~ receiver /\ ~ Waiting
  /\ Current # 0 /\ Acked # Current
  /\ stream' = NoStream /\ last' = Acked /\ server' = "ended"
  /\ UNCHANGED <<receiver, processed, saved, redone>>

-----------------------------------------------------------------------------
(* The consumer                                                            *)

\* The consumer receives the stream and reads its batches.
Process ==
  /\ stream.at = "sent" /\ receiver
  /\ stream' = [stream EXCEPT !.at = "processed"]
  /\ processed' = [r \in Rows |-> processed[r] + stream.rows[r]]
  /\ UNCHANGED <<last, server, receiver, saved, redone>>

\* The checkpoint is saved and IcebergFileStream::ack called.
Ack ==
  /\ stream.at = "processed"
  /\ stream' = [stream EXCEPT !.at = "acked"]
  /\ saved' = stream.snap
  /\ UNCHANGED <<last, server, receiver, processed, redone>>

\* The stream is dropped without ack(), read or not.
Drop ==
  /\ stream.at \in {"sent", "processed"} /\ Fault
  /\ stream' = [stream EXCEPT !.at = "dropped"]
  /\ redone' = TRUE
  /\ UNCHANGED <<last, server, receiver, processed, saved>>

\* The consumer goes away with the channel and what is in it.
Close ==
  /\ receiver /\ Fault
  /\ receiver' = FALSE
  /\ stream' = IF Waiting THEN [stream EXCEPT !.at = "dropped"] ELSE stream
  /\ redone' = (redone \/ Waiting)
  /\ UNCHANGED <<last, server, processed, saved>>

\* The process ends, or ended, and starts over at the saved checkpoint.
Restart ==
  /\ \/ Fault
     \/ server = "ended" /\ UNCHANGED faults
  /\ last' = saved /\ stream' = NoStream /\ server' = "running" /\ receiver' = TRUE
  /\ redone' = (redone \/ Waiting)
  /\ UNCHANGED <<processed, saved>>

-----------------------------------------------------------------------------
PollerTypeOK ==
  /\ last \in 0..Current /\ saved \in 0..Current
  /\ stream.at \in {"none", "sent", "processed", "acked", "dropped"}
  /\ stream.snap \in 0..Current
  /\ server \in {"running", "ended"} /\ {receiver, redone} \subseteq BOOLEAN

\* The rows of the files that an append put into the table and that no
\* compaction took out of the snapshot s.
Untouched(s) == {r \in Rows : \E f \in FilesOf(s) : snaps[f.seq].op = "append" /\ f.rows[r] > 0}

\* poller.rs: "will not advance its checkpoint past this snapshot until
\* acknowledged": what the checkpoint covers was processed, through drops,
\* failed polls and restarts, unless a compaction rewrote it.
CheckpointCovers ==
  \A s \in {last, saved, IF stream.at = "acked" THEN stream.snap ELSE 0} :
    \A r \in Untouched(s) : processed[r] > 0

\* README.md: the poller never delivers again what was consumed, compacted
\* or not, as long as no stream was dropped and no process ended.
OnceUnlessRedone ==
  ~redone => \A r \in Rows : processed[r] <= Appends(r, 1..Current)

\* The poller's own checkpoint follows the consumer's, never the reverse.
CheckpointsOrdered == last <= saved

\* The stated promise of README.md, "Stream new data as it arrives": every
\* row of a snapshot the checkpoint covers was processed.
EveryRowDelivered == \A r \in Rows : Content(FilesOf(last))[r] > 0 => processed[r] > 0

\* When writers stop, the consumer gets to every row whose file stays.
CatchesUp == <>[](\A r \in Untouched(Current) : processed[r] > 0)
=============================================================================
