---------------------------- MODULE WapTransaction ----------------------------
(***************************************************************************)
(* The write-audit-publish transactions of                                 *)
(* src/prestige/src/iceberg/transaction.rs: begin, write and publish, with *)
(* callers that begin again with the same wap_id after an error or a crash *)
(* until publish has answered Ok.  Each wap_id has one caller, and names   *)
(* the branch, the data file and the wap.id of its snapshot.               *)
(***************************************************************************)
EXTENDS AuditBranches

CONSTANTS
  Jobs,       \* wap_ids
  EmptyJobs,  \* those that may have no batches to write
  Others      \* files that other writers append to main

ASSUME JobsAssumption ==
  /\ Branches = Jobs
  /\ EmptyJobs \subseteq Jobs
  /\ Others \cap Jobs = {}
  /\ Files = Jobs \cup Others

VARIABLES
  pc,         \* job -> where its caller or its transaction is
  meta,       \* job -> the transaction's copy of the metadata
  err,        \* jobs whose last call answered an error
  appended,   \* files of Others already written
  (* history, read only by properties *)
  published,  \* jobs that have sent a publish request
  overlapped  \* TRUE once main moved while another job was at work

locals == <<pc, meta, err, appended, published, overlapped>>
vars == <<tableVars, locals>>

\* "writer", "publisher" and "complete" are the states of a WapTransaction,
\* "idle" is a caller without one, "done" a caller whose publish was Ok; the
\* rest are the await points of begin, write and publish.
Steps == {"idle", "delete", "recreate", "create", "writer", "commit",
          "publisher", "publish", "complete", "done"}

Init ==
  /\ InitTable
  /\ pc = [j \in Jobs |-> "idle"]
  /\ meta = [j \in Jobs |-> Metadata]
  /\ err = {} /\ appended = {} /\ published = {} /\ overlapped = FALSE

Goto(j, step) == pc' = [pc EXCEPT ![j] = step]

Ok(j)  == err' = err \ {j}
Err(j) == err' = err \cup {j}

\* Jobs between their first begin and their end.
Active == {j \in Jobs : pc[j] \notin {"idle", "done"} \/ j \in err}

\* What w does to main.
MainMoves(w) ==
  overlapped' = (overlapped \/ (refs'[Main] # refs[Main] /\ Active \ {w} # {}))

\* reload_table
Reload(j) == meta' = [meta EXCEPT ![j] = Metadata]

\* begin and publish fail when the reload does.
LoadFails(j) ==
  /\ Fault("load")
  /\ Goto(j, "idle") /\ Err(j)
  /\ UNCHANGED <<table, wire, meta>>

-----------------------------------------------------------------------------
\* mutant: a stale branch is kept.
KeepStale(found, exists) ==
  CASE ~found -> "create"
    [] found /\ exists -> "publisher"
    [] found /\ ~exists -> "complete"

\* mutant: a published transaction starts over.
ForgetPublished(found, exists) ==
  CASE ~exists -> "create"
    [] ~found /\ exists -> "delete"
    [] found /\ exists -> "publisher"

\* detect_wap_state, and where begin goes from there.
Detect(found, exists) ==
  CASE ~found /\ ~exists -> "create"
    [] ~found /\ exists -> "delete"
    [] found /\ exists -> "publisher"
    [] found /\ ~exists -> "complete"

Begin(j) ==
  /\ pc[j] = "idle"
  /\ \/ /\ Reload(j)
        /\ Goto(j, Detect(HasWapId(j), refs[j] # Gone))
        /\ Ok(j)
        /\ UNCHANGED tableVars
     \/ LoadFails(j)
  /\ UNCHANGED <<appended, published, overlapped>>

\* A stale branch is deleted ...
Delete(j) ==
  /\ pc[j] = "delete"
  /\ \/ Accepted(DeleteBranch(j)) /\ Goto(j, "recreate") /\ Ok(j)
     \/ Failed(DeleteBranch(j)) /\ Goto(j, "idle") /\ Err(j)
  /\ UNCHANGED <<meta, appended, published, overlapped>>

\* ... and the metadata loaded again.
Recreate(j) ==
  /\ pc[j] = "recreate"
  /\ \/ /\ Reload(j)
        /\ Goto(j, "create")
        /\ UNCHANGED <<tableVars, err>>
     \/ LoadFails(j)
  /\ UNCHANGED <<appended, published, overlapped>>

\* On an empty table create_branch sends nothing.
Create(j) ==
  /\ pc[j] = "create"
  /\ LET req == CreateBranch(meta[j], j)
     IN \/ /\ meta[j].refs[Main] = Gone
           /\ Goto(j, "writer") /\ Ok(j) /\ UNCHANGED tableVars
        \/ /\ meta[j].refs[Main] # Gone
           /\ \/ Accepted(req) /\ Goto(j, "writer") /\ Ok(j)
              \/ (Conflict(req) \/ Failed(req)) /\ Goto(j, "idle") /\ Err(j)
  /\ UNCHANGED <<meta, appended, published, overlapped>>

\* write: reload and write the data files.  When one of them fails the
\* transaction is already Complete.
Write(j) ==
  /\ pc[j] = "writer"
  /\ \/ /\ j \in EmptyJobs
        /\ Goto(j, "publisher") /\ Ok(j)
        /\ UNCHANGED <<tableVars, meta>>
     \/ /\ Reload(j) /\ Goto(j, "commit")
        /\ UNCHANGED <<tableVars, err>>
     \/ /\ Fault("write")
        /\ Goto(j, "complete") /\ Err(j)
        /\ UNCHANGED <<table, wire, meta>>
  /\ UNCHANGED <<appended, published, overlapped>>

CommitBranch(j) ==
  /\ pc[j] = "commit"
  /\ LET req == CommitToBranch(meta[j], j, {j}, j)
     IN \/ Accepted(req) /\ Goto(j, "publisher") /\ Ok(j)
        \/ (Conflict(req) \/ Failed(req)) /\ Goto(j, "complete") /\ Err(j)
  /\ UNCHANGED <<meta, appended, published, overlapped>>

BranchExists(j) == refs[j] # Gone

\* publish: reload; without the branch it is an error.
PublishLoad(j) ==
  /\ pc[j] = "publisher"
  /\ \/ /\ Reload(j)
        /\ IF BranchExists(j) THEN Goto(j, "publish") /\ Ok(j)
                              ELSE Goto(j, "idle") /\ Err(j)
        /\ UNCHANGED tableVars
     \/ LoadFails(j)
  /\ UNCHANGED <<appended, published, overlapped>>

Publish(j) ==
  /\ pc[j] = "publish"
  /\ published' = published \cup {j}
  /\ LET req == PublishBranch(meta[j], j)
     IN \/ Accepted(req) /\ Goto(j, "done") /\ Ok(j)
        \/ (Conflict(req) \/ Failed(req)) /\ Goto(j, "idle") /\ Err(j)
  /\ MainMoves(j)
  /\ UNCHANGED <<meta, appended>>

\* publish on a Complete transaction; a caller that got an error from write
\* begins again instead.
Finish(j) ==
  /\ pc[j] = "complete"
  /\ Goto(j, IF j \in err THEN "idle" ELSE "done")
  /\ UNCHANGED <<tableVars, meta, err, appended, published, overlapped>>

\* The caller crashes and begins again later.
Crash(j) ==
  /\ pc[j] \notin {"idle", "done"} /\ Fault("crash")
  /\ Goto(j, "idle") /\ Err(j)
  /\ UNCHANGED <<table, wire, meta, appended, published, overlapped>>

OtherWriter(f) ==
  /\ f \notin appended
  /\ appended' = appended \cup {f}
  /\ AppendToMain(f)
  /\ MainMoves(f)
  /\ UNCHANGED <<pc, meta, err, published>>

-----------------------------------------------------------------------------
Advance(j) ==
  \/ Begin(j) \/ Delete(j) \/ Recreate(j) \/ Create(j)
  \/ Write(j) \/ CommitBranch(j)
  \/ PublishLoad(j) \/ Publish(j) \/ Finish(j)

Next ==
  \/ \E j \in Jobs : Advance(j) \/ Crash(j)
  \/ \E f \in Others : OtherWriter(f)
  \/ Arrive /\ UNCHANGED locals

Spec == Init /\ [][Next]_vars

\* A running caller makes progress, and begins again after an error.
FairSpec == Spec /\ \A j \in Jobs : WF_vars(Advance(j))

-----------------------------------------------------------------------------
\* Every variable keeps its type, copies of the metadata refer to snapshots
\* they know, and a publish request names one.
TypeOK ==
  /\ TableType
  /\ pc \in [Jobs -> Steps]
  /\ \A j \in Jobs : meta[j].refs \in [Refs -> 0 .. meta[j].last]
  /\ \A j \in Jobs : pc[j] = "publish" => meta[j].refs[j] # Gone
  /\ err \subseteq Jobs /\ appended \subseteq Others
  /\ published \subseteq Jobs /\ overlapped \in BOOLEAN

\* Audit: nobody sees a job's data on main before the job publishes.
HiddenUntilPublish == \A j \in Jobs : OnMain[j] > 0 => j \in published

\* Idempotence: however often a job is resumed, its data is on main and on
\* its branch at most once, unless a request arrives after begin was called
\* again.
WrittenOnce ==
  ~delayed => \A j \in Jobs : OnMain[j] <= 1 /\ Content(refs[j])[j] <= 1

\* Together: a resumed job neither repeats its data nor leaves a reference to a
\* snapshot that does not exist.
WrittenSound == TypeOK /\ WrittenOnce

\* A publish that is answered Ok has put all of the job's data on main, once.
PublishShowsData ==
  [][~delayed =>
       \A j \in Jobs \ EmptyJobs :
         pc[j] = "publish" /\ pc'[j] = "done" => OnMain'[j] = 1]_vars

\* publish fast-forwards main, whatever a job does and repeats, when nobody
\* else moves main meanwhile: what was on main stays there.
MainGrows ==
  [][~delayed /\ ~overlapped' => \A f \in Files : OnMain[f] <= OnMain'[f]]_vars

\* Then a caller that is done has its data on main.
DoneIsVisible ==
  ~delayed /\ ~overlapped
    => \A j \in Jobs \ EmptyJobs : pc[j] = "done" => OnMain[j] = 1

\* publish fast-forwards main beside other writers.
FastForward == [][\A f \in Files : OnMain[f] <= OnMain'[f]]_vars

\* Every caller gets through, whatever fails in between, except one that has
\* nothing to write to a table that stays empty.
EveryJobEnds ==
  \A j \in Jobs :
    []<>(pc[j] = "done" \/ (j \in EmptyJobs /\ refs[Main] = Gone))
=============================================================================
