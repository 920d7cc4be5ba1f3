---------------------------- MODULE AuditBranches ----------------------------
(***************************************************************************)
(* The branches of an iceberg table, and the four requests with which      *)
(* src/prestige/src/iceberg/branch.rs changes them: create_branch,         *)
(* commit_to_branch, publish_branch and delete_branch.  A request is built *)
(* from a copy of the table's metadata that may be outdated; the catalog   *)
(* checks its requirements and then applies its updates in one step.       *)
(*                                                                         *)
(* The writers (WapTransaction, WapSink) extend this module.               *)
(***************************************************************************)
EXTENDS Naturals, Sequences

CONSTANTS
  Files,       \* data files
  Branches,    \* names of branches other than main
  FaultKinds,  \* the faults the environment may inject ...
  MaxFaults    \* ... and how many of them in one behaviour

ASSUME FaultsAssumption == MaxFaults \in Nat

VARIABLES
  snaps,   \* the table's snapshots: the files each holds, and its wap.id
  refs,    \* main and the branches -> snapshot, Gone when there is none
  late,    \* requests whose sender gave up and that may still arrive
  delayed, \* history: TRUE once there was one
  faults   \* the number of faults so far

table == <<snaps, refs>>
wire == <<late, delayed>>
tableVars == <<table, wire, faults>>

Main == "main"
Refs == Branches \cup {Main}

ASSUME MainAssumption == Main \notin Branches

\* "none" is the wap.id of a snapshot that has none.
ASSUME WapIdAssumption == "none" \notin Branches

\* No such snapshot: a branch that does not exist, the main of an empty table.
Gone == 0

Empty == [f \in Files |-> 0]

Snapshot == [files : [Files -> Nat], wap : Branches \cup {"none"}]

\* How often each file is in snapshot s of the sequence sn.
At(sn, s) == IF s = Gone THEN Empty ELSE sn[s].files

Content(s) == At(snaps, s)

OnMain == Content(refs[Main])

Plus(content, F) == [f \in Files |-> content[f] + IF f \in F THEN 1 ELSE 0]

\* load_table
Metadata == [refs |-> refs, last |-> Len(snaps)]

Has(sn, w) == \E s \in 1 .. Len(sn) : sn[s].wap = w

HasWapId(w) == Has(snaps, w)

Fault(k) == k \in FaultKinds /\ faults < MaxFaults /\ faults' = faults + 1
NoFault  == UNCHANGED faults

InitTable ==
  /\ snaps = <<>> /\ refs = [r \in Refs |-> Gone]
  /\ late = {} /\ delayed = FALSE /\ faults = 0

-----------------------------------------------------------------------------
(* The requests, built from a copy of the metadata.                        *)

CreateBranch(meta, b) ==
  [op |-> "create", branch |-> b, head |-> meta.refs[Main]]

\* mutant: the new snapshot goes to main.
CommitToMain(meta, b, F, w) ==
  [op |-> "commit", branch |-> Main, parent |-> meta.refs[Main],
   last |-> meta.last, files |-> F, wap |-> w]

\* The new snapshot continues the branch, or nothing when the copy has no
\* such branch.
CommitToBranch(meta, b, F, w) ==
  [op |-> "commit", branch |-> b, parent |-> meta.refs[b], last |-> meta.last,
   files |-> F, wap |-> w]

PublishBranch(meta, b) ==
  [op |-> "publish", branch |-> b, main |-> meta.refs[Main],
   head |-> meta.refs[b]]

DeleteBranch(b) == [op |-> "delete", branch |-> b]

\* The requirements: RefSnapshotIdMatch, none for a deletion.
Granted(req) ==
  /\ req.op = "create"  => refs[req.branch] = Gone
  /\ req.op = "commit"  => refs[req.branch] = req.parent
  /\ req.op = "publish" => refs[Main] = req.main

\* A catalog may refuse a snapshot whose sequence number is not new.
OldSequence(req) ==
  req.op = "commit" /\ req.parent # Gone /\ req.last < Len(snaps)

\* mutant: the new snapshot holds the new files only.
NewFilesOnly(req) == Plus(Empty, req.files)

\* The files of the branch so far, and the new ones.
NewContent(req) == Plus(Content(req.parent), req.files)

AddSnapshot(content, w) == snaps' = Append(snaps, [files |-> content, wap |-> w])

\* The updates.
Apply(req) ==
  \/ /\ req.op = "create"
     /\ refs' = [refs EXCEPT ![req.branch] = req.head]
     /\ UNCHANGED snaps
  \/ /\ req.op = "commit"
     /\ AddSnapshot(NewContent(req), req.wap)
     /\ refs' = [refs EXCEPT ![req.branch] = Len(snaps) + 1]
  \/ /\ req.op = "publish"
     /\ refs' = [refs EXCEPT ![Main] = req.head, ![req.branch] = Gone]
     /\ UNCHANGED snaps
  \/ /\ req.op = "delete"
     /\ refs' = [refs EXCEPT ![req.branch] = Gone]
     /\ UNCHANGED snaps

-----------------------------------------------------------------------------
(* Catalog::commit_table_request as its caller sees it.                    *)

Accepted(req) == Granted(req) /\ Apply(req) /\ NoFault /\ UNCHANGED wire

\* A 409.
Conflict(req) == ~Granted(req) /\ NoFault /\ UNCHANGED <<table, wire>>

\* Any other error: the request was refused or lost, the reply was lost, or
\* the request arrives when its sender no longer waits.
Failed(req) ==
  \/ OldSequence(req) /\ NoFault /\ UNCHANGED <<table, wire>>
  \/ Fault("catalog") /\ UNCHANGED <<table, wire>>
  \/ Granted(req) /\ Apply(req) /\ Fault("lost_reply") /\ UNCHANGED wire
  \/ /\ Fault("delay") /\ late' = late \cup {req} /\ delayed' = TRUE
     /\ UNCHANGED table

\* What becomes of a request that is sent.
Sent(req) == Accepted(req) \/ Conflict(req) \/ Failed(req)

\* A delayed request reaches the catalog.
Arrive ==
  /\ \E req \in late :
       /\ late' = late \ {req}
       /\ IF Granted(req) THEN Apply(req) ELSE UNCHANGED table
  /\ UNCHANGED <<delayed, faults>>

\* A writer that works on main directly appends a file.
AppendToMain(f) ==
  /\ AddSnapshot(Plus(OnMain, {f}), "none")
  /\ refs' = [refs EXCEPT ![Main] = Len(snaps) + 1]
  /\ UNCHANGED <<wire, faults>>

TableType ==
  /\ snaps \in Seq(Snapshot)
  /\ refs \in [Refs -> 0 .. Len(snaps)]
  /\ faults \in 0 .. MaxFaults
  /\ \A req \in late : req.branch \in Branches
  /\ delayed \in BOOLEAN
=============================================================================
