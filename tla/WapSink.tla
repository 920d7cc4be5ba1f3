------------------------------- MODULE WapSink -------------------------------
(***************************************************************************)
(* The iceberg sink of src/prestige/src/iceberg/sink.rs in                 *)
(* write-audit-publish mode: background tasks that create the audit        *)
(* branch, commit to it and publish it, the publish() of a client, and     *)
(* recovery after a crash.                                                 *)
(*                                                                         *)
(* The front end (buffers, counters, rollback) is that of IcebergSink and  *)
(* left out: here a file is what one prepare_and_enqueue writes.           *)
(***************************************************************************)
EXTENDS AuditBranches, FiniteSets

CONSTANTS
  Branch,       \* wap_branch
  Own, Others,  \* files of this sink, and of writers of main
  MaxPending,   \* builder.max_pending_commits
  PublishIdle,  \* TRUE: the client publishes only after a commit() was answered
  AutoFaults    \* bound: the faults that happen with auto_publish

ASSUME SinkAssumption ==
  /\ Branches = {Branch}
  /\ Own \cap Others = {} /\ Files = Own \cup Others
  /\ PublishIdle \in BOOLEAN /\ AutoFaults \subseteq FaultKinds
  /\ MaxPending \in Nat \ {0}

VARIABLES
  autoPublish,  \* builder.auto_publish
  pc,        \* the step of the event loop
  op,        \* "commit" when commit() runs prepare_and_enqueue, or "roll"
  seen,      \* self.table: the loop's copy of the metadata
  cur,       \* the file being prepared, {} when there is none
  task,      \* file -> the step of its background commit
  meta,      \* file -> the task's copy of the metadata
  mfile,     \* files with a manifest on disk
  recorded,  \* files whose task has the manifest, to delete it
  scan,      \* manifests recovery has still to look at
  fresh,     \* files still to be prepared
  appended,  \* files of Others already written
  (* history, read only by properties *)
  settled,   \* files whose task reported success
  audited,   \* files on the branch at some publish()
  recovered  \* files recovery has appended

loop   == <<pc, op, seen, cur>>
tasks  == <<task, meta>>
disk   == <<mfile, scan, recorded>>
hist   == <<fresh, appended, settled, audited, recovered>>
vars   == <<tableVars, autoPublish, loop, tasks, disk, hist>>

Steps == {"boot", "idle", "reload", "record", "reserve", "drain", "refresh",
          "dead"}
TaskSteps == {"none", "create", "load", "commit", "reload", "publish", "last",
              "ok", "err"}

InPipeline == {c \in Own : task[c] # "none"}

Init ==
  /\ InitTable /\ autoPublish \in BOOLEAN
  /\ pc = "idle" /\ op = "roll" /\ seen = Metadata /\ cur = {}
  /\ task = [c \in Own |-> "none"] /\ meta = [c \in Own |-> Metadata]
  /\ mfile = {} /\ scan = {} /\ recorded = {}
  /\ fresh = Own /\ appended = {} 
  /\ settled = {} /\ audited = {} /\ recovered = {}

\* With auto_publish some faults are left out.
Disturbed(k) == Fault(k) /\ (autoPublish => k \in AutoFaults)

\* A request that fails; left out are then those that still take effect.
Fails(req) ==
  Failed(req) /\ (autoPublish /\ "lost_reply" \notin AutoFaults => UNCHANGED <<table, wire>>)

-----------------------------------------------------------------------------
(* The event loop.                                                         *)

\* A rotation or commit() takes the staged batches.
Prepare(c) ==
  /\ pc = "idle" /\ c \in fresh
  /\ pc' = "reload" /\ op' \in {"commit", "roll"} /\ cur' = {c}
  /\ fresh' = fresh \ {c}
  /\ UNCHANGED <<tableVars, seen, tasks, disk, appended, settled, audited,
                 recovered>>

\* The process ends with its tasks and everything in memory.
LoseProcess ==
  /\ pc' = "dead" /\ cur' = {} /\ scan' = {}
  /\ task' = [c \in Own |-> "none"]

\* reload_table and write_data_files.  When they fail the batches go back,
\* and run() ends if it was the roll timer that called.
Reload ==
  /\ pc = "reload"
  /\ \/ /\ NoFault
        /\ seen' = Metadata /\ pc' = "record"
        /\ UNCHANGED <<cur, scan, task, fresh>>
     \/ /\ Disturbed("reload")
        /\ pc' = "idle" /\ cur' = {} /\ fresh' = fresh \cup cur
        /\ UNCHANGED <<seen, scan, task>>
     \/ /\ op = "roll" /\ Disturbed("timer_reload")
        /\ LoseProcess
        /\ UNCHANGED <<seen, fresh>>
  /\ UNCHANGED <<table, wire, op, meta, mfile, recorded, appended, settled,
                 audited, recovered>>

\* When record_files fails, the task goes on without a manifest, even if the
\* whole file reached the disk.  (IcebergSink has the ones cut short.)
Record ==
  /\ pc = "record"
  /\ pc' = "reserve"
  /\ \/ /\ NoFault
        /\ mfile' = mfile \cup cur /\ recorded' = recorded \cup cur
     \/ /\ Disturbed("manifest")
        /\ mfile' \in {mfile, mfile \cup cur} /\ UNCHANGED recorded
  /\ UNCHANGED <<table, wire, op, seen, cur, tasks, scan, hist>>

\* mutant: one slot too many.
HasCapacityPlusOne == Cardinality(InPipeline) <= MaxPending

HasCapacity == Cardinality(InPipeline) < MaxPending

\* The task gets a clone of self.table.
Enqueue(c) ==
  /\ pc = "reserve" /\ cur = {c} /\ HasCapacity
  /\ task' = [task EXCEPT ![c] = "create"]
  /\ meta' = [meta EXCEPT ![c] = seen]
  /\ cur' = {}
  /\ pc' = IF op = "commit" THEN "drain" ELSE "idle"
  /\ UNCHANGED <<tableVars, op, seen, disk, hist>>

Drained ==
  /\ pc = "drain" /\ InPipeline = {}
  /\ pc' = "idle"
  /\ UNCHANGED <<tableVars, op, seen, cur, tasks, disk, hist>>

\* mutant: the loop keeps its own copy.
KeepTable(c) == UNCHANGED seen

\* *table = updated_table
TakeTable(c) == seen' = meta[c]

\* handle_completion
Complete(c) ==
  /\ pc \in {"idle", "reserve", "drain"} /\ task[c] \in {"ok", "err"}
  /\ task' = [task EXCEPT ![c] = "none"]
  /\ IF task[c] = "ok"
     THEN /\ TakeTable(c) /\ settled' = settled \cup {c}
          /\ mfile' = mfile \ ({c} \cap recorded)
     ELSE UNCHANGED <<seen, mfile, settled>>
  /\ UNCHANGED <<tableVars, pc, op, cur, meta, scan, recorded, fresh, appended,
                 audited, recovered>>

\* publish_wap: without the branch in self.table it is an error.
Publish ==
  /\ pc = "idle" /\ seen.refs[Branch] # Gone
  /\ PublishIdle => InPipeline = {}
  /\ audited' = audited \cup {f \in Own : Content(refs[Branch])[f] > 0}
  /\ LET req == PublishBranch(seen, Branch)
     IN \/ Accepted(req) /\ pc' = "refresh"
        \/ (Conflict(req) \/ Fails(req)) /\ UNCHANGED pc
  /\ UNCHANGED <<op, seen, cur, tasks, disk, fresh, appended, settled,
                 recovered>>

Refresh ==
  /\ pc = "refresh" /\ pc' = "idle"
  /\ \/ NoFault /\ seen' = Metadata
     \/ Disturbed("reload") /\ UNCHANGED seen
  /\ UNCHANGED <<table, wire, op, cur, tasks, disk, hist>>

-----------------------------------------------------------------------------
(* execute_wap_commit, in a background task.                               *)

TaskGoto(c, step) == task' = [task EXCEPT ![c] = step]

TaskFrame == UNCHANGED <<loop, disk, hist>>

\* The branch is created when the clone does not know it.
TaskCreate(c) ==
  /\ task[c] = "create"
  /\ LET req == CreateBranch(meta[c], Branch)
     IN IF meta[c].refs[Branch] # Gone \/ meta[c].refs[Main] = Gone
        THEN TaskGoto(c, "load") /\ UNCHANGED tableVars
        ELSE \/ Accepted(req) /\ TaskGoto(c, "load")
             \/ (Conflict(req) \/ Fails(req)) /\ TaskGoto(c, "err")
  /\ UNCHANGED meta /\ TaskFrame

\* The three load_table calls.
TaskLoad(c) ==
  /\ \/ /\ NoFault
        /\ meta' = [meta EXCEPT ![c] = Metadata]
        /\ \/ task[c] = "load" /\ TaskGoto(c, "commit")
           \/ /\ task[c] = "reload"
              /\ TaskGoto(c, IF autoPublish THEN "publish" ELSE "ok")
           \/ task[c] = "last" /\ TaskGoto(c, "ok")
     \/ /\ task[c] \in {"load", "reload", "last"} /\ Disturbed("reload")
        /\ TaskGoto(c, "err") /\ UNCHANGED meta
  /\ UNCHANGED <<table, wire>> /\ TaskFrame

\* A conflict counts as "already committed".
TaskCommit(c) ==
  /\ task[c] = "commit"
  /\ LET req == CommitToBranch(meta[c], Branch, {c}, "none")
     IN \/ (Accepted(req) \/ Conflict(req)) /\ TaskGoto(c, "reload")
        \/ Fails(req) /\ TaskGoto(c, "err")
  /\ UNCHANGED meta /\ TaskFrame

TaskPublish(c) ==
  /\ task[c] = "publish"
  /\ LET req == PublishBranch(meta[c], Branch)
     IN \/ req.head = Gone /\ TaskGoto(c, "err") /\ UNCHANGED tableVars
        \/ req.head # Gone /\ Accepted(req) /\ TaskGoto(c, "last")
        \/ req.head # Gone /\ (Conflict(req) \/ Fails(req)) /\ TaskGoto(c, "err")
  /\ UNCHANGED meta /\ TaskFrame

-----------------------------------------------------------------------------
(* Crashes, recovery, other writers.                                       *)

Crash ==
  /\ pc # "dead" /\ Disturbed("crash")
  /\ LoseProcess
  /\ UNCHANGED <<table, wire, op, seen, meta, mfile, recorded, hist>>

\* The next process is given the table as it is, and recovers the manifests of
\* the last; when it cannot scan them, it warns and goes on without.
Restart ==
  /\ pc = "dead"
  /\ seen' = Metadata
  /\ \/ NoFault /\ scan' = mfile /\ pc' = IF mfile = {} THEN "idle" ELSE "boot"
     \/ Disturbed("scan") /\ scan' = {} /\ pc' = "idle"
  /\ UNCHANGED <<table, wire, op, cur, tasks, mfile, recorded, hist>>

\* recover_pending_commit appends the file to main and deletes its manifest,
\* or fails and leaves it.  (IcebergSink models the steps in between.)
Recover(c) ==
  /\ pc = "boot" /\ c \in scan
  /\ scan' = scan \ {c}
  /\ \/ /\ AppendToMain(c) /\ mfile' = mfile \ {c} /\ seen' = Metadata'
        /\ recovered' = recovered \cup {c}
     \/ Fault("catalog") /\ UNCHANGED <<table, wire, mfile, seen, recovered>>
  /\ UNCHANGED <<pc, op, cur, tasks, recorded, fresh, appended, settled,
                 audited>>

\* ... and reloads the table at the end, unless nothing was recovered; a
\* failure is only logged.
BootDone ==
  /\ pc = "boot" /\ scan = {}
  /\ pc' = "idle"
  /\ \/ NoFault /\ seen' = Metadata
     \/ NoFault /\ mfile # {} /\ UNCHANGED seen
     \/ Disturbed("reload") /\ UNCHANGED seen
  /\ UNCHANGED <<table, wire, op, cur, tasks, disk, hist>>

OtherWriter(f) ==
  /\ f \in Others \ appended
  /\ appended' = appended \cup {f}
  /\ AppendToMain(f)
  /\ UNCHANGED <<loop, tasks, disk, fresh, settled, audited, recovered>>

Task(c) == TaskCreate(c) \/ TaskLoad(c) \/ TaskCommit(c) \/ TaskPublish(c)

Step ==
  \/ \E c \in Own : Prepare(c) \/ Enqueue(c) \/ Complete(c) \/ Task(c)
  \/ Reload \/ Record \/ Drained \/ Refresh
  \/ ~autoPublish /\ Publish
  \/ Crash \/ Restart \/ BootDone
  \/ \E c \in Own : Recover(c)
  \/ \E f \in Others : OtherWriter(f)
  \/ Arrive /\ UNCHANGED <<loop, tasks, disk, hist>>

Next == Step /\ UNCHANGED autoPublish

Spec == Init /\ [][Next]_vars

-----------------------------------------------------------------------------
\* Every variable keeps its type, and the pipeline its bound.
TypeOK ==
  /\ TableType
  /\ pc \in Steps /\ op \in {"commit", "roll"}
  /\ seen.refs \in [Refs -> 0 .. seen.last]
  /\ cur \subseteq Own /\ task \in [Own -> TaskSteps]
  /\ \A c \in Own : meta[c].refs \in [Refs -> 0 .. meta[c].last]
  /\ mfile \subseteq Own /\ scan \subseteq Own /\ recorded \subseteq Own
  /\ fresh \subseteq Own
  /\ appended \subseteq Others /\ settled \subseteq Own /\ audited \subseteq Own
  /\ recovered \subseteq Own
  /\ Cardinality(InPipeline) <= MaxPending

\* What the sink has put on main stays there when a branch is published.
MainKeepsOwn == [][\A c \in Own : OnMain[c] <= OnMain'[c]]_vars

\* With auto_publish a commit that reported success is on main.
SettledIsVisible == autoPublish /\ ~delayed => \A c \in settled : OnMain[c] > 0

\* A commit that reported success is on main or on the audit branch, unless
\* a request arrived late and made a conflict.
SettledIsKept ==
  ~delayed => \A c \in settled : OnMain[c] > 0 \/ Content(refs[Branch])[c] > 0

\* What a commit that reported success means, in either mode.
SettledSound == TypeOK /\ SettledIsKept /\ SettledIsVisible

\* Nothing reaches main that was not on the branch at a publish().
NothingUnaudited == \A c \in Own : OnMain[c] > 0 => c \in audited

\* With publish() of the client only recovery, or a late request, puts it there without one.
AuditedOrRecovered ==
  ~autoPublish /\ ~delayed => \A c \in Own : OnMain[c] > 0 => c \in audited \cup recovered

\* A publish() that is granted puts everything committed before on main.
PublishShowsAll ==
  [][~delayed /\ pc = "idle" /\ pc' = "refresh"
       => \A c \in settled : OnMain'[c] > 0]_vars
=============================================================================
