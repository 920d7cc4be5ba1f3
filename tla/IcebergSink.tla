----------------------------- MODULE IcebergSink -----------------------------
(***************************************************************************)
(* The iceberg sink of src/prestige/src/iceberg/sink.rs in direct-commit   *)
(* mode: one event loop that buffers records, writes them out as data      *)
(* files and hands each set of files to a background catalog commit, plus  *)
(* the per-commit manifests on local disk (manifest.rs) from which a       *)
(* restarted sink re-commits what a crash interrupted.                     *)
(*                                                                         *)
(* A prepared commit is identified with the set of records its data files  *)
(* hold.  A handler is the sequence of steps between its await points;     *)
(* background commits interleave with all of them.                         *)
(***************************************************************************)
EXTENDS Naturals, Sequences, FiniteSets

CONSTANTS
  Records,        \* the records clients may write, each at most once
  Poison,         \* records that do not serialise to arrow
  BatchSize,      \* builder.batch_size
  MaxRows,        \* builder.max_rows
  Builders,       \* the settings of auto_commit and manifest_dir to look at
  MaxPending,     \* builder.max_pending_commits, at least 1
  CommitRetries,  \* rebases the iceberg Transaction tries before it gives up
  MaxRivals,      \* bound: commits of other writers that race with ours
  FaultKinds,     \* the faults the environment may inject ...
  MaxFaults       \* ... and how many of them in one behaviour

AllFaults == {"crash", "reload", "upload", "manifest", "catalog",
              "lost_reply", "panic", "delete", "scan"}

ASSUME ConstantsAssumption ==
  /\ Poison \subseteq Records
  /\ BatchSize \in Nat \ {0}
  /\ MaxRows \in Nat
  /\ Builders \subseteq [autoCommit : BOOLEAN, manifestDir : BOOLEAN]
  /\ MaxPending \in Nat \ {0}
  /\ CommitRetries \in Nat
  /\ MaxRivals \in Nat
  /\ FaultKinds \subseteq AllFaults
  /\ MaxFaults \in Nat

ASSUME RecordsFinite == IsFiniteSet(Records)

Commits == (SUBSET Records) \ {{}}

VARIABLES
  builder,     \* how this sink was built, the same after every restart
  (* the sink's memory *)
  buffer,      \* records received and not yet flushed to a batch
  staged,      \* records of the staged batches
  rowCount,    \* row_count
  createdAt,   \* TRUE when created_at is set: the roll timer is armed
  (* where the event loop is *)
  pc, op,      \* the step, and the handler that runs it
  batch,       \* the commit being prepared, {} when there is none
  saved,       \* saved_row_count and saved_created_at
  scan,        \* manifests the recovery at start has still to look at
  (* catalog transactions: the pipeline's tasks, or the one of recovery *)
  run,         \* commit -> "none", "open", "ok", "err", "panic"
  stale,       \* open transactions whose base snapshot is outdated
  tries,       \* commit -> rebases done
  (* what survives the process *)
  mfile,       \* commit -> its manifest file: "none", "empty", "torn", "full"
  applied,     \* commit -> how many snapshots of the table added its files
  (* history, read only by properties (recorded: also the task's manifest) *)
  recorded,    \* commits whose manifest record_files reported as written
  fresh,       \* records no client has written yet
  owed,        \* records this process accepted and did not roll back
  rolled,      \* records a rollback discarded
  promised,    \* records some commit() has answered Ok for
  swallowed,   \* commits whose conflict was taken for "already committed"
  abandoned,   \* commits that failed with no manifest to retry them
  faults,      \* the faults so far
  rivals       \* commits of other writers so far

memory  == <<buffer, staged, rowCount, createdAt>>
loop    == <<pc, op, batch, saved>>
txns    == <<run, stale, tries>>
disk    == <<mfile, applied>>
history == <<recorded, fresh, owed, rolled, promised, swallowed, abandoned>>
outside == <<rivals, builder>>
vars == <<memory, loop, scan, txns, disk, history, faults, outside>>

AutoCommit  == builder.autoCommit
ManifestDir == builder.manifestDir   \* manifest_dir is set

Steps == {"boot", "idle", "prepare", "reload", "upload", "record", "reserve",
          "drain", "dying", "dead", "stopped"}

NothingSaved == [rows |-> 0, created |-> FALSE]

\* Transactions the pipeline (or recovery) has not collected yet.
InPipeline == {c \in Commits : run[c] # "none"}
OpenTxns   == {c \in Commits : run[c] = "open"}

Down == {"dead", "stopped"}

\* A fault of kind k happens in this step.
Fault(k) ==
  /\ k \in FaultKinds /\ Len(faults) < MaxFaults
  /\ faults' = Append(faults, k)
NoFault  == UNCHANGED faults

Happened == {faults[i] : i \in 1 .. Len(faults)}

Init ==
  /\ builder \in Builders
  /\ buffer = {} /\ staged = {} /\ rowCount = 0 /\ createdAt = FALSE
  /\ pc = "boot" /\ op = "none" /\ batch = {} /\ saved = NothingSaved
  /\ scan = {}
  /\ run = [c \in Commits |-> "none"]
  /\ stale = {}
  /\ tries = [c \in Commits |-> 0]
  /\ mfile = [c \in Commits |-> "none"]
  /\ applied = [c \in Commits |-> 0]
  /\ recorded = {} /\ fresh = Records /\ owed = {} /\ rolled = {}
  /\ promised = {} /\ swallowed = {} /\ abandoned = {}
  /\ faults = <<>> /\ rivals = 0

-----------------------------------------------------------------------------
(* The handlers of the event loop.  A definition under "mutant:" is a bug  *)
(* planted in the one after it, to see that the properties notice.         *)

\* mutant: the buffer survives a rollback.
ClearStagedOnly ==
  staged' = {} /\ rowCount' = 0 /\ createdAt' = FALSE /\ UNCHANGED buffer

ClearMemory ==
  buffer' = {} /\ staged' = {} /\ rowCount' = 0 /\ createdAt' = FALSE

EndHandler == op' = IF op = "final" THEN "final" ELSE "none"

\* A handler answers Ok and the loop goes on; after the last flush the
\* pipeline is drained.
ReturnOk ==
  /\ EndHandler
  /\ pc' = IF op = "final" THEN "drain" ELSE "idle"
  /\ promised' = IF op = "commit" THEN promised \cup owed ELSE promised

\* A handler fails.  Its client gets the error; the roll timer's error leaves
\* run(), that of the last flush is only logged.
ReturnErr ==
  /\ EndHandler
  /\ pc' = CASE op = "final" -> "drain"
             [] op = "roll" -> "dying"
             [] OTHER -> "idle"
  /\ UNCHANGED promised

\* write_item and write_items: push, flush a full buffer, rotate on row
\* count, or on size or age whenever the environment says so.
Write(R) ==
  /\ pc = "idle" /\ R \subseteq fresh
  /\ fresh' = fresh \ R
  /\ owed' = owed \cup R
  /\ createdAt' = TRUE
  /\ LET full   == buffer \cup R
         flush  == Cardinality(full) >= BatchSize
         failed == flush /\ full \cap Poison # {}
         rows   == IF flush /\ ~failed THEN rowCount + Cardinality(full)
                                       ELSE rowCount
     IN /\ rowCount' = rows
        /\ buffer' = IF flush /\ ~failed THEN {} ELSE full
        /\ staged' = IF flush /\ ~failed THEN staged \cup full ELSE staged
        /\ \/ /\ ~failed /\ AutoCommit
              /\ pc' = "prepare" /\ op' = "write"
           \/ /\ failed \/ ~AutoCommit \/ rows < MaxRows
              /\ UNCHANGED <<pc, op>>
  /\ UNCHANGED <<batch, saved, scan, txns, disk, recorded, rolled, promised,
                 swallowed, abandoned, faults, outside>>

\* maybe_roll: the timer finds the batch full or old.  Without auto_commit
\* rotating changes nothing.
Roll ==
  /\ pc = "idle" /\ AutoCommit
  /\ createdAt \/ rowCount >= MaxRows
  /\ pc' = "prepare" /\ op' = "roll"
  /\ UNCHANGED <<memory, batch, saved, scan, txns, disk, history, faults,
                 outside>>

Commit ==
  /\ pc = "idle"
  /\ pc' = "prepare" /\ op' = "commit"
  /\ UNCHANGED <<memory, batch, saved, scan, txns, disk, history, faults,
                 outside>>

Rollback ==
  /\ pc = "idle"
  /\ rolled' = rolled \cup buffer \cup staged
  /\ owed' = owed \ (buffer \cup staged)
  /\ ClearMemory
  /\ UNCHANGED <<loop, scan, txns, disk, recorded, fresh, promised, swallowed,
                 abandoned, faults, outside>>

\* mutant: only the buffer is looked at.
BufferUnflushed == buffer # {}

Unflushed == buffer \cup staged # {}

\* The shutdown signal, or the last client gone: leave the loop.
Shutdown ==
  /\ pc = "idle"
  /\ pc' = IF Unflushed THEN "prepare" ELSE "drain"
  /\ op' = "final"
  /\ UNCHANGED <<memory, batch, saved, scan, txns, disk, history, faults,
                 outside>>

-----------------------------------------------------------------------------
(* prepare_and_enqueue and commit, step by step.                           *)

\* flush_buffer, then take the staged batches and reset the counters.
Prepare ==
  /\ pc = "prepare"
  /\ \/ /\ buffer \cap Poison # {}
        /\ ReturnErr
        /\ UNCHANGED <<memory, batch, saved>>
     \/ /\ buffer \cup staged = {}
        /\ ReturnOk
        /\ UNCHANGED <<memory, batch, saved>>
     \/ /\ buffer \cap Poison = {} /\ buffer \cup staged # {}
        /\ batch' = buffer \cup staged
        /\ saved' = [rows    |-> rowCount + Cardinality(buffer),
                     created |-> createdAt]
        /\ ClearMemory
        /\ pc' = "reload"
        /\ UNCHANGED <<op, promised>>
  /\ UNCHANGED <<scan, txns, disk, recorded, fresh, owed, rolled, swallowed,
                 abandoned, faults, outside>>

\* mutant: the batches are lost.
RestoreNoBatches ==
  /\ UNCHANGED <<buffer, staged>> /\ rowCount' = 0
  /\ createdAt' = FALSE /\ batch' = {} /\ saved' = NothingSaved

\* mutant: the counters stay at zero.
RestoreNoCounters ==
  /\ staged' = batch /\ rowCount' = 0 /\ createdAt' = FALSE
  /\ batch' = {} /\ saved' = NothingSaved /\ UNCHANGED buffer

\* The commit cannot be prepared: its batches and counters go back.
Restore ==
  /\ staged' = batch
  /\ rowCount' = saved.rows
  /\ createdAt' = saved.created
  /\ batch' = {}
  /\ saved' = NothingSaved
  /\ UNCHANGED buffer

\* reload_table, its reconnect included.
Reload ==
  /\ pc = "reload"
  /\ \/ /\ NoFault
        /\ pc' = "upload"
        /\ UNCHANGED <<memory, op, batch, saved, promised>>
     \/ /\ Fault("reload")
        /\ Restore
        /\ ReturnErr
  /\ UNCHANGED <<scan, txns, disk, recorded, fresh, owed, rolled, swallowed,
                 abandoned, outside>>

\* write_data_files.
Upload ==
  /\ pc = "upload"
  /\ \/ /\ NoFault
        /\ pc' = "record"
        /\ UNCHANGED <<memory, op, batch, saved, promised>>
     \/ /\ Fault("upload")
        /\ Restore
        /\ ReturnErr
  /\ UNCHANGED <<scan, txns, disk, recorded, fresh, owed, rolled, swallowed,
                 abandoned, outside>>

\* What a record_files that does not return Ok may leave on the disk: no file
\* or an empty one, a file cut inside a line, or the lines of some or all of
\* the data files, which read as the manifest of a commit d of just those.
PartlyWritten(c) ==
  \/ \E m \in {"none", "empty", "torn"} : mfile' = [mfile EXCEPT ![c] = m]
  \/ \E d \in (SUBSET c) \ {{}} : mfile' = [mfile EXCEPT ![d] = "full"]

\* CommitManifest::new and record_files.  On an error the commit goes on
\* without a manifest, whatever part of the file reached the disk.
RecordManifest ==
  /\ pc = "record"
  /\ pc' = "reserve"
  /\ \/ /\ ~ManifestDir /\ NoFault
        /\ UNCHANGED <<mfile, recorded>>
     \/ /\ ManifestDir /\ NoFault
        /\ mfile' = [mfile EXCEPT ![batch] = "full"]
        /\ recorded' = recorded \cup {batch}
     \/ /\ ManifestDir /\ Fault("manifest")
        /\ PartlyWritten(batch)
        /\ UNCHANGED recorded
  /\ UNCHANGED <<memory, op, batch, saved, scan, txns, applied, fresh, owed,
                 rolled, promised, swallowed, abandoned, outside>>

\* A transaction on commit c starts from the table's current snapshot.
OpenTxn(c) ==
  /\ run' = [run EXCEPT ![c] = "open"]
  /\ tries' = [tries EXCEPT ![c] = 0]
  /\ UNCHANGED stale

\* mutant: one slot too many.
HasCapacityPlusOne == Cardinality(InPipeline) <= MaxPending

\* mutant: one slot too few.
HasCapacityMinusOne == Cardinality(InPipeline) + 1 < MaxPending

HasCapacity == Cardinality(InPipeline) < MaxPending

\* ensure_capacity waits for a slot, enqueue spawns the task.  commit() and
\* the last flush go on to wait for the pipeline.
Enqueue ==
  /\ pc = "reserve" /\ HasCapacity
  /\ OpenTxn(batch)
  /\ batch' = {}
  /\ saved' = NothingSaved
  /\ IF op = "commit" THEN pc' = "drain" /\ UNCHANGED <<op, promised>>
                      ELSE ReturnOk
  /\ UNCHANGED <<memory, scan, disk, recorded, fresh, owed, rolled, swallowed,
                 abandoned, faults, outside>>

\* mutant: the last task is not waited for.
AllButOneJoined == Cardinality(InPipeline) <= 1

AllJoined == InPipeline = {}

\* drain_all has joined every task: commit() answers Ok, or run() ends.
Drained ==
  /\ pc = "drain" /\ AllJoined
  /\ IF op = "final"
     THEN pc' = "stopped" /\ op' = "none" /\ UNCHANGED promised
     ELSE ReturnOk
  /\ UNCHANGED <<memory, batch, saved, scan, txns, disk, recorded, fresh,
                 owed, rolled, swallowed, abandoned, faults, outside>>

\* A finished transaction leaves the pipeline (or recovery).
CloseTxn(c) == run' = [run EXCEPT ![c] = "none"] /\ UNCHANGED <<stale, tries>>

\* mutant: the manifest is left behind.
KeepManifest(c) == UNCHANGED mfile /\ NoFault

\* manifest.delete(), which may fail.
DeleteManifest(c) ==
  \/ mfile' = [mfile EXCEPT ![c] = "none"] /\ NoFault
  \/ Fault("delete") /\ UNCHANGED mfile

\* mutant: an error counts as success.
SucceededOrFailed(c) == run[c] \in {"ok", "err"}

Succeeded(c) == run[c] = "ok"

\* handle_completion, from drain_completed, the select or a wait: the manifest
\* goes only when the task reports success.
Complete(c) ==
  /\ pc \in {"idle", "reserve", "drain"}
  /\ run[c] \in {"ok", "err", "panic"}
  /\ CloseTxn(c)
  /\ IF Succeeded(c) /\ c \in recorded
     THEN DeleteManifest(c)
     ELSE NoFault /\ UNCHANGED mfile
  /\ abandoned' = IF ~Succeeded(c) /\ c \notin recorded
                  THEN abandoned \cup {c} ELSE abandoned
  /\ UNCHANGED <<memory, loop, scan, applied, recorded, fresh, owed, rolled,
                 promised, swallowed, outside>>

-----------------------------------------------------------------------------
(* Catalog transactions: iceberg's Transaction::commit, as commit_data_files *)
(* and recover_pending_commit use it.                                      *)

NewSnapshot(c) ==
  /\ applied' = [applied EXCEPT ![c] = @ + 1]
  /\ stale' = (stale \cup OpenTxns) \ {c}

TxnUnchanged == UNCHANGED <<memory, loop, scan, mfile, recorded, fresh, owed,
                            rolled, promised, abandoned, outside>>

\* The catalog accepts the append; the reply arrives or is lost.
TxnApply(c) ==
  /\ run[c] = "open" /\ c \notin stale
  /\ NewSnapshot(c)
  /\ \/ NoFault /\ run' = [run EXCEPT ![c] = "ok"]
     \/ Fault("lost_reply") /\ run' = [run EXCEPT ![c] = "err"]
  /\ TxnUnchanged /\ UNCHANGED <<tries, swallowed>>

\* mutant: one rebase too many.
RetriesLeftPlusOne(c) == tries[c] <= CommitRetries

RetriesLeft(c) == tries[c] < CommitRetries

\* Another snapshot came first: reload and try again.
TxnRebase(c) ==
  /\ run[c] = "open" /\ c \in stale /\ RetriesLeft(c)
  /\ stale' = stale \ {c}
  /\ tries' = [tries EXCEPT ![c] = @ + 1]
  /\ TxnUnchanged /\ UNCHANGED <<run, applied, swallowed, faults>>

\* The retries are used up.  is_already_committed takes the conflict for
\* success; a pipeline task then reloads the table, which may fail.
TxnConflict(c) ==
  /\ run[c] = "open" /\ c \in stale /\ ~RetriesLeft(c)
  /\ stale' = stale \ {c}
  /\ \/ /\ NoFault
        /\ run' = [run EXCEPT ![c] = "ok"]
        /\ swallowed' = swallowed \cup {c}
     \/ /\ pc # "boot" /\ Fault("catalog")
        /\ run' = [run EXCEPT ![c] = "err"]
        /\ UNCHANGED swallowed
  /\ TxnUnchanged /\ UNCHANGED <<tries, applied>>

\* The catalog refuses or cannot be reached.
TxnFail(c) ==
  /\ run[c] = "open"
  /\ Fault("catalog")
  /\ run' = [run EXCEPT ![c] = "err"]
  /\ stale' = stale \ {c}
  /\ TxnUnchanged /\ UNCHANGED <<tries, applied, swallowed>>

\* The task panics; its JoinError carries no manifest.
TxnPanic(c) ==
  /\ pc # "boot" /\ run[c] = "open"
  /\ Fault("panic")
  /\ run' = [run EXCEPT ![c] = "panic"]
  /\ stale' = stale \ {c}
  /\ TxnUnchanged /\ UNCHANGED <<tries, applied, swallowed>>

\* A compactor or another sink adds a snapshot.
Rival ==
  /\ rivals < MaxRivals /\ OpenTxns # {}
  /\ rivals' = rivals + 1
  /\ stale' = stale \cup OpenTxns
  /\ UNCHANGED <<memory, loop, scan, run, tries, disk, history, faults,
                 builder>>

-----------------------------------------------------------------------------
(* The end of a process, and recovery in the next one.                     *)

\* Memory and background tasks go with the process (JoinSet aborts on drop).
LoseProcess ==
  /\ ClearMemory
  /\ op' = "none" /\ batch' = {} /\ saved' = NothingSaved
  /\ run' = [c \in Commits |-> "none"]
  /\ stale' = {}
  /\ tries' = [c \in Commits |-> 0]
  /\ owed' = {}

\* A crash at any point; one inside record_files leaves part of the file.
Crash ==
  /\ pc \notin Down /\ Fault("crash")
  /\ LoseProcess
  /\ pc' = "dead" /\ scan' = {}
  /\ IF pc = "record" /\ ManifestDir
     THEN PartlyWritten(batch)
     ELSE UNCHANGED mfile
  /\ UNCHANGED <<applied, recorded, fresh, rolled, promised, swallowed,
                 abandoned, outside>>

\* run() returned the error of maybe_roll.
Die ==
  /\ pc = "dying"
  /\ LoseProcess
  /\ pc' = "dead" /\ scan' = {}
  /\ UNCHANGED <<disk, recorded, fresh, rolled, promised, swallowed,
                 abandoned, faults, outside>>

\* mutant: the scan matches no file name.
ScanNothing == {}

\* scan_pending
PendingManifests == {c \in Commits : mfile[c] # "none"}

\* A new process scans the manifest directory; when it cannot, it warns and
\* goes on without recovery.
Restart ==
  /\ pc \in Down
  /\ LoseProcess
  /\ pc' = "boot"
  /\ \/ scan' = PendingManifests /\ NoFault
     \/ scan' = {} /\ Fault("scan")
  /\ UNCHANGED <<disk, recorded, fresh, rolled, promised, swallowed,
                 abandoned, outside>>

\* recover_pending_commit reads one manifest: an empty file is deleted, an
\* unreadable one is skipped, a full one is appended to the table.
RecoverBegin(c) ==
  /\ pc = "boot" /\ c \in scan /\ InPipeline = {}
  /\ CASE mfile[c] = "full" ->
            OpenTxn(c) /\ NoFault /\ UNCHANGED <<mfile, scan>>
       [] mfile[c] = "empty" ->
            DeleteManifest(c) /\ scan' = scan \ {c} /\ UNCHANGED txns
       [] OTHER ->
            NoFault /\ scan' = scan \ {c} /\ UNCHANGED <<mfile, txns>>
  /\ UNCHANGED <<memory, loop, applied, history, outside>>

\* ... and deletes the manifest when the append succeeded.
RecoverEnd(c) ==
  /\ pc = "boot" /\ run[c] \in {"ok", "err"}
  /\ CloseTxn(c)
  /\ scan' = scan \ {c}
  /\ IF Succeeded(c) THEN DeleteManifest(c) ELSE NoFault /\ UNCHANGED mfile
  /\ UNCHANGED <<memory, loop, applied, history, outside>>

BootDone ==
  /\ pc = "boot" /\ scan = {}
  /\ pc' = "idle"
  /\ UNCHANGED <<memory, op, batch, saved, scan, txns, disk, history, faults,
                 outside>>

-----------------------------------------------------------------------------
Prepares == Prepare \/ Reload \/ Upload \/ RecordManifest \/ Enqueue \/ Drained

Txn(c) == TxnApply(c) \/ TxnRebase(c) \/ TxnConflict(c)

Recovers(c) == RecoverBegin(c) \/ RecoverEnd(c)

Next ==
  \/ \E R \in SUBSET fresh : Write(R)
  \/ Roll \/ Commit \/ Rollback \/ Shutdown
  \/ Prepares
  \/ \E c \in Commits : Complete(c) \/ Recovers(c)
  \/ \E c \in Commits : Txn(c) \/ TxnFail(c) \/ TxnPanic(c)
  \/ Rival
  \/ Crash \/ Die \/ Restart \/ BootDone

Spec == Init /\ [][Next]_vars

\* A started handler and an open transaction make progress.  The biased select
\* polls finished tasks and the timer before messages, so neither is starved
\* by clients (SF).  A process that died is started again by its supervisor.
Fairness ==
  /\ WF_vars(Prepares) /\ WF_vars(Die) /\ WF_vars(BootDone) /\ WF_vars(Restart)
  /\ SF_vars(Roll)
  /\ \A c \in Commits :
       WF_vars(Txn(c)) /\ WF_vars(Recovers(c)) /\ SF_vars(Complete(c))

FairSpec == Spec /\ Fairness

-----------------------------------------------------------------------------
(* Properties.                                                             *)

MemoryType ==
  /\ buffer \subseteq Records /\ staged \subseteq Records
  /\ rowCount \in Nat /\ createdAt \in BOOLEAN

LoopType ==
  /\ pc \in Steps
  /\ op \in {"none", "write", "roll", "commit", "final"}
  /\ batch \subseteq Records
  /\ saved \in [rows : Nat, created : BOOLEAN]
  /\ scan \subseteq Commits

TxnType ==
  /\ run \in [Commits -> {"none", "open", "ok", "err", "panic"}]
  /\ stale \subseteq Commits
  /\ tries \in [Commits -> 0 .. CommitRetries]

DiskType ==
  /\ mfile \in [Commits -> {"none", "empty", "torn", "full"}]
  /\ applied \in [Commits -> Nat]

HistoryType ==
  /\ recorded \subseteq Commits
  /\ fresh \subseteq Records /\ owed \subseteq Records
  /\ rolled \subseteq Records /\ promised \subseteq Records
  /\ swallowed \subseteq Commits /\ abandoned \subseteq Commits
  /\ rivals \in 0 .. MaxRivals
  /\ builder \in Builders

FaultsType == faults \in Seq(FaultKinds) /\ Len(faults) <= MaxFaults

\* Every variable keeps its type; no transaction is rebased more often than
\* the retries allow, and no counter passes its bound.
TypeOK ==
  MemoryType /\ LoopType /\ TxnType /\ DiskType /\ HistoryType /\ FaultsType

Visible  == UNION {c \in Commits : applied[c] > 0}
OnDisk   == UNION {c \in Commits : mfile[c] = "full"}
InFlight == UNION InPipeline
InMemory == buffer \cup staged \cup batch

\* Every record the running sink accepted and did not roll back is in memory,
\* in an unfinished commit, in a manifest that a restart recovers, or in the
\* table - or it went one of the two ways out the code has: a conflict taken
\* for success, or a failed commit that had no manifest.
NoSilentDrop ==
  owed \subseteq InMemory \cup InFlight \cup OnDisk \cup Visible
                 \cup (UNION swallowed) \cup (UNION abandoned)

\* A commit whose manifest was written is in the table or still has its
\* manifest, across crashes and recoveries; only a swallowed conflict loses it.
RecordedNotLost ==
  \A c \in recorded : mfile[c] = "full" \/ applied[c] > 0 \/ c \in swallowed

\* No data file is added to the table twice and no record is in two of them.
AtMostOnce ==
  /\ \A c \in Commits : applied[c] <= 1
  /\ \A c, d \in Commits :
       applied[c] > 0 /\ applied[d] > 0 /\ c # d => c \cap d = {}

\* No step has failed that may leave the manifest of an applied commit behind,
\* or end the process beside it, as the roll timer does when a record does not
\* serialise.
Undisturbed ==
  Happened \subseteq {"catalog", "panic", "scan"} /\ (AutoCommit => Poison = {})

\* Then failed and panicking commits, shutdowns, recoveries and failed scans add
\* nothing twice.
OnceWithoutLoss == Undisturbed => AtMostOnce

\* What a rollback discarded never reaches the table, whatever was prepared,
\* restored after a failure or in flight at the time.
RolledBackStaysOut == rolled \cap Visible = {}

\* The rotation counter counts the staged rows exactly, and the roll timer is
\* armed while anything waits, also after a failed prepare put batches back.
CountersExact ==
  /\ rowCount = Cardinality(staged)
  /\ buffer \cup staged # {} => createdAt

\* The pipeline never holds more than max_pending_commits tasks.
PipelineBounded == Cardinality(InPipeline) <= MaxPending

\* The sink's books, after every restored, rolled back or refused commit.
AccountsExact == CountersExact /\ PipelineBounded

\* Every append so far was answered by the catalog, and its task returned.
Answered == Happened \cap {"catalog", "lost_reply", "panic"} = {}

\* Without auto_commit and while the catalog answers, every record some
\* commit() answered Ok for is in the table.
CommittedIsDurable == ~AutoCommit /\ Answered => promised \subseteq Visible

\* With manifests it is at least in one that the next start commits from,
\* unless the manifest could not be written.
CommittedIsRecoverable ==
  ManifestDir /\ "manifest" \notin Happened
    => promised \subseteq Visible \cup OnDisk \cup UNION swallowed

\* A sink without auto_commit that stops without a fault has put all it
\* accepted in the table.
StopFlushesAll ==
  ~AutoCommit /\ pc = "stopped" /\ faults = <<>> => owed \subseteq Visible

\* A conflict that is_already_committed takes for "already committed" belongs
\* to a commit that is in the table.
ConflictMeansCommitted == \A c \in swallowed : applied[c] > 0

\* Commits whose append failed, in the background or at recovery, or that a
\* failed scan passed over: the sink lives on without trying them again, and
\* only the manifest and the next start are left to them.
LeftToNextStart ==
  {c \in recorded : /\ pc = "idle" /\ run[c] = "none" /\ applied[c] = 0
                    /\ Happened \cap {"catalog", "panic", "scan"} # {}}

\* An accepted record reaches the table unless it is rolled back, the process
\* dies, or its own background commit fails, which no one retries while the
\* process lives: no rotation, failed prepare or full pipeline strands it.
OwedReachesTable ==
  \A r \in Records :
    r \in owed ~> \/ r \notin owed \/ r \in Visible
                  \/ r \in UNION (abandoned \cup LeftToNextStart)

\* A commit with a manifest reaches the table, through crashes and restarts,
\* unless a start could not scan or append it and the sink lives on.
RecordedReachesTable ==
  \A c \in Commits : c \in recorded ~> applied[c] > 0 \/ c \in LeftToNextStart

\* The last flush and the wait for the pipeline end.
ShutdownEnds == op = "final" ~> pc \in Down

\* The sink implements the record store of the abstract specification.
StatusOf(r) ==
  CASE r \in Visible -> "visible"
    [] r \in fresh -> "fresh"
    [] r \notin Visible \cup fresh \cup rolled
         /\ r \in InMemory \cup OnDisk \cup UNION OpenTxns -> "pending"
    [] OTHER -> "dropped"

Store == INSTANCE RecordStore WITH status <- [r \in Records |-> StatusOf(r)]

\* Committed records stay, and discarded ones never come back.
ImplementsStore == Store!Spec
=============================================================================
