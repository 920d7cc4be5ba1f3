----------------------------- MODULE WapSinkProofs -----------------------------
(***************************************************************************)
(* Proofs about the sink in write-audit-publish mode, for any number of    *)
(* files, writers of main, faults and restarts.                            *)
(***************************************************************************)
EXTENDS WapSink, SequenceTheorems, FiniteSetTheorems, TLAPS

-----------------------------------------------------------------------------
(* Snapshots, and the requests of AuditBranches.                           *)

LEMMA ContentAt == \A s : Content(s) = At(snaps, s)
  BY DEF Content, At

\* Adding files to the content of a known snapshot gives a snapshot.
LEMMA NewSnapshot ==
  ASSUME NEW sn \in Seq(Snapshot), NEW s \in 0 .. Len(sn),
         NEW c, c = IF s = Gone THEN Empty ELSE sn[s].files,
         NEW F, NEW w \in Branches \cup {"none"}
  PROVE  /\ [files |-> Plus(c, F), wap |-> w] \in Snapshot
         /\ \A k \in Files : Plus(c, F)[k] > 0 => c[k] > 0 \/ k \in F
<1>1. c \in [Files -> Nat]
  <2>1. CASE s = Gone
    BY <2>1 DEF Empty
  <2>2. CASE s # Gone
    <3>1. sn[s] \in Snapshot
      BY <2>2 DEF Gone
    <3> QED
      BY <2>2, <3>1 DEF Snapshot
  <2> QED
    BY <2>1, <2>2
<1>2. Plus(c, F) \in [Files -> Nat]
  BY <1>1 DEF Plus
<1> QED
  BY <1>1, <1>2 DEF Plus, Snapshot

\* A snapshot counts files.
LEMMA AtType ==
  ASSUME NEW sn \in Seq(Snapshot), NEW s \in 0 .. Len(sn)
  PROVE  At(sn, s) \in [Files -> Nat]
<1>1. CASE s = Gone
  BY <1>1 DEF At, Empty
<1>2. CASE s # Gone
  <2>1. sn[s] \in Snapshot
    BY <1>2 DEF Gone
  <2> QED
    BY <1>2, <2>1 DEF At, Snapshot
<1> QED
  BY <1>1, <1>2

\* t has one more snapshot than sn: s and the files F, by w.
Continues(t, sn, s, F, w) ==
  /\ t \in Seq(Snapshot) /\ Len(sn) \in Nat /\ Len(t) = Len(sn) + 1
  /\ \A r \in 0 .. Len(sn) : At(t, r) = At(sn, r)
  /\ At(t, Len(sn) + 1) = Plus(At(sn, s), F)
  /\ \A k : Has(t, k) <=> Has(sn, k) \/ k = w

LEMMA Extended ==
  ASSUME NEW sn \in Seq(Snapshot), NEW s \in 0 .. Len(sn), NEW F,
         NEW w \in Branches \cup {"none"}, NEW t,
         t = Append(sn, [files |-> Plus(At(sn, s), F), wap |-> w])
  PROVE  Continues(t, sn, s, F, w)
<1> DEFINE e == [files |-> Plus(At(sn, s), F), wap |-> w]
<1>1. e \in Snapshot
  BY NewSnapshot DEF At
<1>2. t \in Seq(Snapshot) /\ Len(sn) \in Nat /\ Len(t) = Len(sn) + 1
  BY <1>1
<1>3. /\ \A r \in 1 .. Len(sn) : t[r] = sn[r]
      /\ t[Len(sn) + 1] = e
  BY <1>1
<1>4. \A r \in 0 .. Len(sn) : At(t, r) = At(sn, r)
  <2> SUFFICES ASSUME NEW r \in 0 .. Len(sn), r # Gone PROVE At(t, r) = At(sn, r)
    BY DEF At
  <2>1. r \in 1 .. Len(sn)
    BY <1>2 DEF Gone
  <2> QED
    BY <1>3, <2>1 DEF At
<1>5. At(t, Len(sn) + 1) = Plus(At(sn, s), F)
  <2>1. Len(sn) + 1 # Gone
    BY <1>2 DEF Gone
  <2> QED
    BY <1>3, <2>1 DEF At
<1>6. \A k : Has(t, k) <=> Has(sn, k) \/ k = w
  <2> TAKE k
  <2>1. 1 .. Len(t) = 1 .. Len(sn) \cup {Len(sn) + 1}
    BY <1>2
  <2>2. e.wap = w
    OBVIOUS
  <2> QED
    BY <1>3, <2>1, <2>2 DEF Has
<1> QED
  BY <1>2, <1>4, <1>5, <1>6 DEF Continues

\* Its sender cannot tell whether a request that failed was applied; unless
\* it may still arrive, it was, or was not.
LEMMA SentEffect ==
  ASSUME faults \in 0 .. MaxFaults, delayed \in BOOLEAN, NEW req, Sent(req)
  PROVE  /\ UNCHANGED table \/ (Granted(req) /\ Apply(req))
         /\ ~delayed' => ~delayed /\ late' = late
         /\ delayed' \in BOOLEAN /\ late' \subseteq late \cup {req}
         /\ faults' \in 0 .. MaxFaults
<1>1. UNCHANGED table \/ (Granted(req) /\ Apply(req))
  BY DEF Sent, Accepted, Conflict, Failed, table
<1>2. UNCHANGED <<late, delayed>> \/ (late' = late \cup {req} /\ delayed' = TRUE)
  BY DEF Sent, Accepted, Conflict, Failed, wire
<1>3. faults' \in 0 .. MaxFaults
  <2>1. UNCHANGED faults \/ (faults < MaxFaults /\ faults' = faults + 1)
    BY DEF Sent, Accepted, Conflict, Failed, NoFault, Fault
  <2> QED
    BY <2>1, FaultsAssumption
<1>4. delayed' \in BOOLEAN /\ (~delayed' => ~delayed /\ late' = late)
  BY <1>2
<1>5. late' \subseteq late \cup {req}
  BY <1>2
<1> QED
  BY <1>1, <1>3, <1>4, <1>5

\* What a granted request does.
LEMMA CreateEffect ==
  ASSUME NEW m, NEW b, Granted(CreateBranch(m, b)), Apply(CreateBranch(m, b))
  PROVE  /\ snaps' = snaps /\ refs[b] = Gone
         /\ refs' = [refs EXCEPT ![b] = m.refs[Main]]
<1>1. /\ CreateBranch(m, b).op = "create" /\ CreateBranch(m, b).branch = b
      /\ CreateBranch(m, b).head = m.refs[Main]
  BY DEF CreateBranch
<1> QED
  BY <1>1 DEF Granted, Apply

LEMMA PublishEffect ==
  ASSUME NEW m, NEW b, Granted(PublishBranch(m, b)), Apply(PublishBranch(m, b))
  PROVE  /\ snaps' = snaps /\ refs[Main] = m.refs[Main]
         /\ refs' = [refs EXCEPT ![Main] = m.refs[b], ![b] = Gone]
<1>1. /\ PublishBranch(m, b).op = "publish" /\ PublishBranch(m, b).branch = b
      /\ PublishBranch(m, b).head = m.refs[b] /\ PublishBranch(m, b).main = m.refs[Main]
  BY DEF PublishBranch
<1> QED
  BY <1>1 DEF Granted, Apply

LEMMA CommitEffects ==
  ASSUME snaps \in Seq(Snapshot), NEW m, NEW b, m.refs[b] \in 0 .. Len(snaps), NEW F,
         NEW w \in Branches \cup {"none"},
         Granted(CommitToBranch(m, b, F, w)), Apply(CommitToBranch(m, b, F, w))
  PROVE  /\ refs[b] = m.refs[b]
         /\ refs' = [refs EXCEPT ![b] = Len(snaps) + 1]
         /\ Continues(snaps', snaps, m.refs[b], F, w)
<1> DEFINE req == CommitToBranch(m, b, F, w)
<1>1. /\ req.op = "commit" /\ req.branch = b /\ req.parent = m.refs[b]
      /\ req.files = F /\ req.wap = w
  BY DEF CommitToBranch
<1>2. refs[b] = m.refs[b]
  BY <1>1 DEF Granted
<1>3. AddSnapshot(NewContent(req), w) /\ refs' = [refs EXCEPT ![b] = Len(snaps) + 1]
  BY <1>1 DEF Apply
<1>4. PICK s : s = m.refs[b]
  OBVIOUS
<1>5. NewContent(req) = Plus(At(snaps, s), F)
  BY <1>1, <1>4, ContentAt DEF NewContent
<1>6. snaps' = Append(snaps, [files |-> Plus(At(snaps, s), F), wap |-> w])
  BY <1>3, <1>5 DEF AddSnapshot
<1>7. Continues(snaps', snaps, s, F, w)
  BY <1>4, <1>6, Extended
<1> QED
  BY <1>2, <1>3, <1>4, <1>7

\* A writer of main continues main.
LEMMA AppendEffect ==
  ASSUME snaps \in Seq(Snapshot), refs[Main] \in 0 .. Len(snaps), NEW f, AppendToMain(f)
  PROVE  /\ refs' = [refs EXCEPT ![Main] = Len(snaps) + 1]
         /\ Continues(snaps', snaps, refs[Main], {f}, "none")
         /\ UNCHANGED <<wire, faults>>
<1>1. PICK s : s = refs[Main]
  OBVIOUS
<1>2. snaps' = Append(snaps, [files |-> Plus(At(snaps, s), {f}), wap |-> "none"])
  BY <1>1, ContentAt DEF AppendToMain, AddSnapshot, OnMain
<1>3. Continues(snaps', snaps, s, {f}, "none")
  BY <1>1, <1>2, Extended
<1> QED
  BY <1>1, <1>3 DEF AppendToMain

-----------------------------------------------------------------------------
(* Types.                                                                  *)

\* A copy of the metadata leads to snapshots that exist.
CopyOk(sn, m) == m.last \in 0 .. Len(sn) /\ m.refs \in [Refs -> 0 .. m.last]

\* So does a request in transit.
RequestOk(sn, req) ==
  /\ req.branch = Branch
  /\ req.op = "create"  => req.head \in 0 .. Len(sn)
  /\ req.op = "commit"  => req.parent \in 0 .. Len(sn) /\ req.wap = "none"
  /\ req.op = "publish" => req.head \in 0 .. Len(sn)

TableOk ==
  /\ snaps \in Seq(Snapshot) /\ refs \in [Refs -> 0 .. Len(snaps)]
  /\ faults \in 0 .. MaxFaults /\ delayed \in BOOLEAN
  /\ \A req \in late : RequestOk(snaps, req)

CopiesOk ==
  /\ CopyOk(snaps, seen)
  /\ DOMAIN meta = Own /\ \A c \in Own : CopyOk(snaps, meta[c])

LocalTypes ==
  /\ autoPublish \in BOOLEAN
  /\ pc \in Steps /\ op \in {"commit", "roll"} /\ cur \subseteq Own
  /\ task \in [Own -> TaskSteps]
  /\ mfile \subseteq Own /\ scan \subseteq Own /\ recorded \subseteq Own
  /\ fresh \subseteq Own
  /\ appended \subseteq Others /\ settled \subseteq Own /\ audited \subseteq Own
  /\ recovered \subseteq Own

PipelineOk == IsFiniteSet(InPipeline) /\ Cardinality(InPipeline) <= MaxPending

Typed == TableOk /\ CopiesOk /\ LocalTypes /\ PipelineOk

LEMMA TypesTogether == Typed => TypeOK
<1> SUFFICES ASSUME Typed PROVE TypeOK
  OBVIOUS
<1> USE DEF Typed
<1>1. \A req \in late : req.branch \in Branches
  BY SinkAssumption DEF TableOk, RequestOk
<1>2. TableType
  BY <1>1 DEF TableOk, TableType, Snapshot
<1> QED
  BY <1>2 DEF TypeOK, CopiesOk, CopyOk, LocalTypes, PipelineOk

-----------------------------------------------------------------------------
(* Snapshots are only added.                                               *)

Grown(t, sn) == t = sn \/ \E e \in Snapshot : t = Append(sn, e)

\* The sink's files in snapshot s.
Shown(sn, s) == {c \in Own : At(sn, s)[c] > 0}

LEMMA GrownKeeps ==
  ASSUME NEW sn \in Seq(Snapshot), NEW t, Grown(t, sn)
  PROVE  /\ t \in Seq(Snapshot) /\ Len(sn) \in Nat /\ Len(t) \in Nat /\ Len(sn) <= Len(t)
         /\ \A m : CopyOk(sn, m) => CopyOk(t, m)
         /\ \A req : RequestOk(sn, req) => RequestOk(t, req)
         /\ \A s \in 0 .. Len(sn) : s \in 0 .. Len(t) /\ Shown(t, s) = Shown(sn, s)
<1>1. /\ t \in Seq(Snapshot) /\ Len(sn) \in Nat /\ Len(t) \in Nat /\ Len(sn) <= Len(t)
      /\ \A s \in 1 .. Len(sn) : t[s] = sn[s]
  BY DEF Grown
<1>2. 0 .. Len(sn) \subseteq 0 .. Len(t)
  BY <1>1
<1>3. \A s \in 0 .. Len(sn) : At(t, s) = At(sn, s)
  <2> SUFFICES ASSUME NEW s \in 0 .. Len(sn), s # Gone PROVE At(t, s) = At(sn, s)
    BY DEF At
  <2>1. s \in 1 .. Len(sn)
    BY <1>1 DEF Gone
  <2> QED
    BY <1>1, <2>1 DEF At
<1>4. \A m : CopyOk(sn, m) => CopyOk(t, m)
  BY <1>2 DEF CopyOk
<1>5. \A req : RequestOk(sn, req) => RequestOk(t, req)
  BY <1>2 DEF RequestOk
<1> QED
  BY <1>1, <1>2, <1>3, <1>4, <1>5 DEF Shown

\* A snapshot that continues s shows what s does, and the new files.
LEMMA ContinuesShows ==
  ASSUME NEW sn \in Seq(Snapshot), NEW s \in 0 .. Len(sn), NEW F, NEW w,
         NEW t, Continues(t, sn, s, F, w)
  PROVE  /\ Len(sn) + 1 \in 0 .. Len(t)
         /\ Shown(t, Len(sn) + 1) = Shown(sn, s) \cup (F \cap Own)
<1>1. At(sn, s) \in [Files -> Nat] /\ Own \subseteq Files
  BY AtType, SinkAssumption
<1>2. /\ Len(sn) \in Nat /\ Len(t) = Len(sn) + 1
      /\ At(t, Len(sn) + 1) = Plus(At(sn, s), F)
  BY DEF Continues
<1>3. \A c \in Own : Plus(At(sn, s), F)[c] > 0 <=> At(sn, s)[c] > 0 \/ c \in F
  BY <1>1 DEF Plus
<1> QED
  BY <1>2, <1>3 DEF Shown

LEMMA ShownContent == \A s, c : c \in Own => (Content(s)[c] > 0 <=> c \in Shown(snaps, s))
  BY ContentAt DEF Shown

LEMMA RefsAre == Refs = {Branch, Main} /\ Branch # Main
  BY SinkAssumption, MainAssumption DEF Refs

LEMMA NothingInGone == \A sn : Shown(sn, Gone) = {}
  BY SinkAssumption DEF Shown, At, Empty

-----------------------------------------------------------------------------
(* Steps of the table.                                                     *)

Quiet   == UNCHANGED <<table, wire>> /\ faults' \in 0 .. MaxFaults
Sends   == \E req : RequestOk(snaps, req) /\ Sent(req)
Appends == \E f \in Files : AppendToMain(f)

TableSteps == Quiet \/ Sends \/ Appends \/ Arrive

\* A granted request leaves a table with references to its snapshots.
LEMMA ApplyOk ==
  ASSUME snaps \in Seq(Snapshot), refs \in [Refs -> 0 .. Len(snaps)],
         NEW req, RequestOk(snaps, req), Apply(req)
  PROVE  Grown(snaps', snaps) /\ refs' \in [Refs -> 0 .. Len(snaps')]
<1> USE RefsAre
<1>0. Len(snaps) \in Nat /\ Gone \in 0 .. Len(snaps)
  BY DEF Gone
<1>1. CASE req.op = "create" /\ refs' = [refs EXCEPT ![req.branch] = req.head]
             /\ UNCHANGED snaps
  BY <1>1 DEF Grown, RequestOk
<1>2. CASE /\ req.op = "commit"
           /\ AddSnapshot(NewContent(req), req.wap)
           /\ refs' = [refs EXCEPT ![req.branch] = Len(snaps) + 1]
  <2>1. PICK s : s = req.parent
    OBVIOUS
  <2>2. s \in 0 .. Len(snaps) /\ req.wap = "none"
    BY <1>2, <2>1 DEF RequestOk
  <2>3. snaps' = Append(snaps, [files |-> Plus(At(snaps, s), req.files), wap |-> "none"])
    BY <1>2, <2>1, <2>2, ContentAt DEF AddSnapshot, NewContent
  <2>4. [files |-> Plus(At(snaps, s), req.files), wap |-> "none"] \in Snapshot
    BY <2>2, NewSnapshot DEF At
  <2>5. Grown(snaps', snaps)
    BY <2>3, <2>4 DEF Grown
  <2>6. Len(snaps') = Len(snaps) + 1
    BY <2>3, <2>4
  <2>7. Len(snaps) + 1 \in 0 .. Len(snaps') /\ 0 .. Len(snaps) \subseteq 0 .. Len(snaps')
    BY <1>0, <2>6
  <2>8. refs' = [refs EXCEPT ![Branch] = Len(snaps) + 1]
    BY <1>2 DEF RequestOk
  <2>9. refs' \in [Refs -> 0 .. Len(snaps')]
    BY <2>7, <2>8
  <2> QED
    BY <2>5, <2>9
<1>3. CASE /\ req.op = "publish"
           /\ refs' = [refs EXCEPT ![Main] = req.head, ![req.branch] = Gone]
           /\ UNCHANGED snaps
  BY <1>0, <1>3 DEF Grown, RequestOk
<1>4. CASE req.op = "delete" /\ refs' = [refs EXCEPT ![req.branch] = Gone]
             /\ UNCHANGED snaps
  BY <1>0, <1>4 DEF Grown
<1> QED
  BY <1>1, <1>2, <1>3, <1>4 DEF Apply

LEMMA TableStepOk ==
  ASSUME TableOk, TableSteps
  PROVE  TableOk' /\ Grown(snaps', snaps)
<1> USE DEF TableOk
<1>A. ASSUME Grown(snaps', snaps), \A req \in late' : RequestOk(snaps, req)
      PROVE  \A req \in late' : RequestOk(snaps', req)
  <2>1. PICK sn, t : sn = snaps /\ t = snaps'
    OBVIOUS
  <2> QED
    BY <1>A, <2>1, GrownKeeps
<1>B. Grown(snaps', snaps) => snaps' \in Seq(Snapshot)
  <2>1. PICK sn, t : sn = snaps /\ t = snaps'
    OBVIOUS
  <2> QED
    BY <2>1, GrownKeeps
<1>1. CASE Quiet
  BY <1>1 DEF Quiet, table, wire, Grown
<1>2. ASSUME NEW req, RequestOk(snaps, req), Sent(req) PROVE TableOk' /\ Grown(snaps', snaps)
  <2>1. Grown(snaps', snaps) /\ refs' \in [Refs -> 0 .. Len(snaps')]
    BY <1>2, SentEffect, ApplyOk DEF Grown, table
  <2>2. \A r \in late' : RequestOk(snaps, r)
    BY <1>2, SentEffect
  <2> QED
    BY <1>A, <1>B, <1>2, <2>1, <2>2, SentEffect
<1>3. ASSUME NEW f \in Files, AppendToMain(f) PROVE TableOk' /\ Grown(snaps', snaps)
  <2>1. PICK s : s = refs[Main]
    OBVIOUS
  <2>2. s \in 0 .. Len(snaps)
    BY <2>1, RefsAre
  <2>3. snaps' = Append(snaps, [files |-> Plus(At(snaps, s), {f}), wap |-> "none"])
    BY <1>3, <2>1, ContentAt DEF AppendToMain, AddSnapshot, OnMain
  <2>4. [files |-> Plus(At(snaps, s), {f}), wap |-> "none"] \in Snapshot
    BY <2>2, NewSnapshot DEF At
  <2>5. Grown(snaps', snaps)
    BY <2>3, <2>4 DEF Grown
  <2>6. Len(snaps') = Len(snaps) + 1 /\ Len(snaps) \in Nat
    BY <2>3, <2>4
  <2>7. refs' = [refs EXCEPT ![Main] = Len(snaps) + 1] /\ UNCHANGED <<late, delayed, faults>>
    BY <1>3 DEF AppendToMain, wire
  <2>8. Len(snaps) + 1 \in 0 .. Len(snaps') /\ 0 .. Len(snaps) \subseteq 0 .. Len(snaps')
    BY <2>6
  <2>9. refs' \in [Refs -> 0 .. Len(snaps')]
    BY <2>7, <2>8, RefsAre
  <2>10. \A req \in late' : RequestOk(snaps, req)
    BY <2>7
  <2> QED
    BY <1>A, <1>B, <2>5, <2>7, <2>9, <2>10
<1>4. CASE Arrive
  <2>1. /\ UNCHANGED table \/ \E req \in late : Apply(req)
        /\ late' \subseteq late /\ UNCHANGED <<delayed, faults>>
    BY <1>4 DEF Arrive
  <2>2. Grown(snaps', snaps) /\ refs' \in [Refs -> 0 .. Len(snaps')]
    BY <2>1, ApplyOk DEF Grown, table
  <2> QED
    BY <1>A, <1>B, <2>1, <2>2
<1> QED
  BY <1>1, <1>2, <1>3, <1>4 DEF TableSteps, Sends, Appends

\* Where a copy of the metadata comes from: another copy, or the table.
CopySteps ==
  /\ \/ seen' = seen \/ seen' = Metadata \/ seen' = Metadata'
     \/ \E c \in Own : seen' = meta[c]
  /\ DOMAIN meta' = Own
  /\ \A c \in Own : meta'[c] = meta[c] \/ meta'[c] = seen \/ meta'[c] = Metadata

\* The requests built from a copy are in order.
LEMMA Requests ==
  ASSUME NEW sn \in Seq(Snapshot), NEW m, CopyOk(sn, m)
  PROVE  /\ RequestOk(sn, CreateBranch(m, Branch))
         /\ RequestOk(sn, PublishBranch(m, Branch))
         /\ \A F : RequestOk(sn, CommitToBranch(m, Branch, F, "none"))
<1>1. m.refs[Main] \in 0 .. Len(sn) /\ m.refs[Branch] \in 0 .. Len(sn)
  <2>1. Len(sn) \in Nat /\ 0 .. m.last \subseteq 0 .. Len(sn)
    BY DEF CopyOk
  <2> QED
    BY <2>1, RefsAre DEF CopyOk
<1> QED
  BY <1>1 DEF RequestOk, CreateBranch, PublishBranch, CommitToBranch

LEMMA StepClasses ==
  ASSUME Typed, [Next]_vars
  PROVE  TableSteps /\ CopySteps
<1> USE DEF Typed
<1>1. (NoFault \/ \E k : Fault(k)) => faults' \in 0 .. MaxFaults
  BY FaultsAssumption DEF TableOk, NoFault, Fault
<1>2. UNCHANGED faults => NoFault
  BY DEF NoFault
<1>3. \A c \in Own : CopyOk(snaps, meta[c]) /\ CopyOk(snaps, seen) /\ snaps \in Seq(Snapshot)
  BY DEF CopiesOk, TableOk
<1>4. UNCHANGED <<seen, meta>> => CopySteps
  BY DEF CopySteps, CopiesOk
<1>5. UNCHANGED vars => Quiet /\ CopySteps
  BY <1>1, <1>2, <1>4 DEF vars, tableVars, table, wire, Quiet, loop, tasks
<1>6. ASSUME NEW c \in Own, Prepare(c) \/ Enqueue(c) \/ Complete(c) PROVE Quiet /\ CopySteps
  <2>1. Quiet
    BY <1>1, <1>2, <1>6 DEF Prepare, Enqueue, Complete, tableVars, table, wire, Quiet
  <2>2. CASE Prepare(c)
    BY <1>4, <2>1, <2>2 DEF Prepare, tasks
  <2>3. CASE Enqueue(c)
    BY <2>1, <2>3 DEF Enqueue, CopySteps, CopiesOk
  <2>4. CASE Complete(c)
    BY <2>1, <2>4 DEF Complete, TakeTable, CopySteps, CopiesOk
  <2> QED
    BY <1>6, <2>2, <2>3, <2>4
<1>7. ASSUME NEW c \in Own, Task(c) PROVE TableSteps /\ CopySteps
  <2>1. CASE TaskCreate(c)
    <3>1. UNCHANGED tableVars \/ Sent(CreateBranch(meta[c], Branch))
      BY <2>1 DEF TaskCreate, Fails, Sent
    <3>2. UNCHANGED tableVars => Quiet
      BY <1>1, <1>2 DEF tableVars, table, wire, Quiet
    <3> QED
      BY <1>3, <1>4, <2>1, <3>1, <3>2, Requests DEF TaskCreate, TaskFrame, loop, TableSteps, Sends
  <2>2. CASE TaskLoad(c)
    <3>1. Quiet
      BY <1>1, <2>2 DEF TaskLoad, Disturbed, table, wire, Quiet
    <3>2. UNCHANGED seen /\ (meta' = meta \/ meta' = [meta EXCEPT ![c] = Metadata])
      BY <2>2 DEF TaskLoad, TaskFrame, loop
    <3> QED
      BY <3>1, <3>2 DEF TableSteps, CopySteps, CopiesOk
  <2>3. CASE TaskCommit(c)
    <3>1. Sent(CommitToBranch(meta[c], Branch, {c}, "none"))
      BY <2>3 DEF TaskCommit, Fails, Sent
    <3> QED
      BY <1>3, <1>4, <2>3, <3>1, Requests DEF TaskCommit, TaskFrame, loop, TableSteps, Sends
  <2>4. CASE TaskPublish(c)
    <3>1. UNCHANGED tableVars \/ Sent(PublishBranch(meta[c], Branch))
      BY <2>4 DEF TaskPublish, Fails, Sent
    <3>2. UNCHANGED tableVars => Quiet
      BY <1>1, <1>2 DEF tableVars, table, wire, Quiet
    <3> QED
      BY <1>3, <1>4, <2>4, <3>1, <3>2, Requests DEF TaskPublish, TaskFrame, loop, TableSteps, Sends
  <2> QED
    BY <1>7, <2>1, <2>2, <2>3, <2>4 DEF Task
<1>8. CASE Reload \/ Record \/ Drained \/ Refresh
  <2>1. Quiet
    BY <1>1, <1>2, <1>8 DEF Reload, Record, Drained, Refresh, Disturbed, tableVars, table, wire, Quiet
  <2>2. UNCHANGED meta /\ (seen' = seen \/ seen' = Metadata)
    BY <1>8 DEF Reload, Record, Drained, Refresh, tasks
  <2> QED
    BY <2>1, <2>2 DEF TableSteps, CopySteps, CopiesOk
<1>9. CASE Publish
  <2>1. Sent(PublishBranch(seen, Branch)) /\ UNCHANGED <<seen, meta>>
    BY <1>9 DEF Publish, Fails, Sent, tasks
  <2>2. CopyOk(snaps, seen) /\ snaps \in Seq(Snapshot)
    BY DEF CopiesOk, TableOk
  <2> QED
    BY <1>4, <2>1, <2>2, Requests DEF TableSteps, Sends
<1>10. CASE Crash \/ Restart \/ BootDone
  <2>1. Quiet
    BY <1>1, <1>2, <1>10 DEF Crash, Restart, BootDone, Disturbed, tableVars, table, wire, Quiet
  <2>2. UNCHANGED meta /\ (seen' = seen \/ seen' = Metadata)
    BY <1>10 DEF Crash, Restart, BootDone, tasks
  <2> QED
    BY <2>1, <2>2 DEF TableSteps, CopySteps, CopiesOk
<1>11. ASSUME NEW c \in Own, Recover(c) PROVE TableSteps /\ CopySteps
  <2>1. AppendToMain(c) \/ Quiet
    BY <1>1, <1>11 DEF Recover, table, wire, Quiet
  <2>2. UNCHANGED meta /\ (seen' = seen \/ seen' = Metadata')
    BY <1>11 DEF Recover, tasks
  <2> QED
    BY <2>1, <2>2, SinkAssumption DEF TableSteps, Appends, CopySteps, CopiesOk
<1>12. ASSUME NEW f \in Others, OtherWriter(f) PROVE TableSteps /\ CopySteps
  BY <1>4, <1>12, SinkAssumption DEF OtherWriter, loop, tasks, TableSteps, Appends
<1>13. CASE Arrive /\ UNCHANGED <<loop, tasks, disk, hist>>
  BY <1>4, <1>13 DEF loop, tasks, TableSteps
<1> QED
  BY <1>5, <1>6, <1>7, <1>8, <1>9, <1>10, <1>11, <1>12, <1>13 DEF Next, Step, TableSteps

-----------------------------------------------------------------------------
(* Types.                                                                  *)

LEMMA CopiesStep == Typed /\ [Next]_vars => TableOk' /\ CopiesOk'
<1> SUFFICES ASSUME Typed, [Next]_vars PROVE TableOk' /\ CopiesOk'
  OBVIOUS
<1>1. TableOk' /\ Grown(snaps', snaps) /\ CopySteps
  BY TableStepOk, StepClasses DEF Typed
<1>2. PICK sn, t : sn = snaps /\ t = snaps'
  OBVIOUS
<1>3. \A m : CopyOk(sn, m) => CopyOk(t, m)
  BY <1>1, <1>2, GrownKeeps DEF Typed, TableOk
<1>4. CopyOk(snaps, Metadata)
  BY DEF Typed, TableOk, CopyOk, Metadata
<1>5. CopyOk(snaps', Metadata')
  BY <1>1 DEF TableOk, CopyOk, Metadata
<1>6. CopyOk(sn, seen) /\ \A c \in Own : CopyOk(sn, meta[c])
  BY <1>2 DEF Typed, CopiesOk
<1>7. CopyOk(t, seen')
  BY <1>1, <1>2, <1>3, <1>4, <1>5, <1>6 DEF CopySteps
<1>8. \A c \in Own : CopyOk(t, meta'[c])
  BY <1>1, <1>2, <1>3, <1>4, <1>6 DEF CopySteps
<1> QED
  BY <1>1, <1>2, <1>7, <1>8 DEF CopiesOk, CopySteps

\* No task enters the pipeline.
Narrows == \A c \in Own : task'[c] # "none" => task[c] # "none"

LEMMA NarrowsOk == PipelineOk /\ Narrows => PipelineOk'
<1> SUFFICES ASSUME PipelineOk, Narrows PROVE PipelineOk'
  OBVIOUS
<1>1. InPipeline' \subseteq InPipeline
  BY DEF InPipeline, Narrows
<1>2. PICK P, Q : P = InPipeline /\ Q = InPipeline'
  OBVIOUS
<1>3. IsFiniteSet(Q) /\ Cardinality(Q) <= Cardinality(P) /\ Cardinality(P) \in Nat /\ Cardinality(Q) \in Nat
  BY <1>1, <1>2, FS_Subset, FS_CardinalityType DEF PipelineOk
<1> QED
  BY <1>2, <1>3, SinkAssumption DEF PipelineOk

LEMMA EnqueueOk ==
  ASSUME NEW c \in Own, LocalTypes, PipelineOk, Enqueue(c)
  PROVE  PipelineOk'
<1>1. InPipeline' \subseteq InPipeline \cup {c}
  BY DEF InPipeline, Enqueue, LocalTypes
<1>2. PICK P, Q : P = InPipeline /\ Q = InPipeline'
  OBVIOUS
<1>3. IsFiniteSet(P) /\ Cardinality(P) \in Nat /\ Cardinality(P) < MaxPending
  BY <1>2, FS_CardinalityType DEF PipelineOk, Enqueue, HasCapacity
<1>4. /\ IsFiniteSet(P \cup {c}) /\ Cardinality(P \cup {c}) \in Nat
      /\ Cardinality(P \cup {c}) <= Cardinality(P) + 1
  <2>1. /\ IsFiniteSet(P \cup {c})
        /\ Cardinality(P \cup {c}) = IF c \in P THEN Cardinality(P) ELSE Cardinality(P) + 1
    BY <1>3, FS_AddElement
  <2> QED
    BY <1>3, <2>1
<1>5. IsFiniteSet(Q) /\ Cardinality(Q) <= Cardinality(P \cup {c}) /\ Cardinality(Q) \in Nat
  BY <1>1, <1>2, <1>4, FS_Subset, FS_CardinalityType
<1> QED
  BY <1>2, <1>3, <1>4, <1>5, SinkAssumption DEF PipelineOk

LEMMA LocalStep == LocalTypes /\ PipelineOk /\ [Next]_vars => LocalTypes' /\ PipelineOk'
<1> SUFFICES ASSUME LocalTypes, PipelineOk, [Next]_vars PROVE LocalTypes' /\ PipelineOk'
  OBVIOUS
<1> USE DEF LocalTypes, Steps, TaskSteps
<1>1. CASE UNCHANGED vars
  BY <1>1, NarrowsOk DEF vars, loop, tasks, disk, hist, Narrows
<1>2. CASE Next
  <2>0. autoPublish' \in BOOLEAN
    BY <1>2 DEF Next
  <2>1. ASSUME NEW c \in Own, Prepare(c) PROVE LocalTypes' /\ PipelineOk'
    BY <2>0, <2>1, NarrowsOk DEF Prepare, tasks, disk, Narrows
  <2>2. ASSUME NEW c \in Own, Enqueue(c) PROVE LocalTypes' /\ PipelineOk'
    BY <2>0, <2>2, EnqueueOk DEF Enqueue, disk, hist
  <2>3. ASSUME NEW c \in Own, Complete(c) PROVE LocalTypes' /\ PipelineOk'
    BY <2>0, <2>3, NarrowsOk DEF Complete, Narrows
  <2>4. ASSUME NEW c \in Own, Task(c) PROVE LocalTypes' /\ PipelineOk'
    <3>1. UNCHANGED <<pc, op, cur, mfile, scan, recorded, fresh, appended, settled, audited,
                      recovered>>
      BY <2>4 DEF Task, TaskCreate, TaskLoad, TaskCommit, TaskPublish, TaskFrame, loop, disk, hist
    <3>2. \E s \in TaskSteps : TaskGoto(c, s) /\ task[c] # "none"
      BY <2>4 DEF Task, TaskCreate, TaskLoad, TaskCommit, TaskPublish
    <3>3. task' \in [Own -> TaskSteps] /\ Narrows
      BY <3>2 DEF TaskGoto, Narrows
    <3> QED
      BY <2>0, <3>1, <3>3, NarrowsOk
  <2>5. CASE Reload
    BY <2>0, <2>5, NarrowsOk DEF Reload, LoseProcess, Narrows
  <2>6. CASE Record \/ Drained \/ Refresh
    BY <2>0, <2>6, NarrowsOk DEF Record, Drained, Refresh, tasks, disk, hist, Narrows
  <2>7. CASE Publish
    BY <2>0, <2>7, NarrowsOk DEF Publish, tasks, disk, Narrows
  <2>8. CASE Crash
    BY <2>0, <2>8, NarrowsOk DEF Crash, LoseProcess, hist, Narrows
  <2>9. CASE Restart \/ BootDone
    BY <2>0, <2>9, NarrowsOk DEF Restart, BootDone, tasks, disk, hist, Narrows
  <2>10. ASSUME NEW c \in Own, Recover(c) PROVE LocalTypes' /\ PipelineOk'
    BY <2>0, <2>10, NarrowsOk DEF Recover, tasks, Narrows
  <2>11. ASSUME NEW f \in Others, OtherWriter(f) PROVE LocalTypes' /\ PipelineOk'
    BY <2>0, <2>11, NarrowsOk DEF OtherWriter, loop, tasks, disk, Narrows
  <2>12. CASE Arrive /\ UNCHANGED <<loop, tasks, disk, hist>>
    BY <2>0, <2>12, NarrowsOk DEF loop, tasks, disk, hist, Narrows
  <2> QED
    BY <1>2, <2>1, <2>2, <2>3, <2>4, <2>5, <2>6, <2>7, <2>8, <2>9, <2>10, <2>11, <2>12 DEF Next, Step
<1> QED
  BY <1>1, <1>2

LEMMA TypedInit == Init => Typed
<1> SUFFICES ASSUME Init PROVE Typed
  OBVIOUS
<1>A. snaps = <<>> /\ refs = [r \in Refs |-> Gone]
  BY DEF Init, InitTable
<1>B. snaps \in Seq(Snapshot) /\ Len(snaps) = 0
  BY <1>A
<1>C. refs \in [Refs -> 0 .. Len(snaps)]
  BY <1>A, <1>B DEF Gone
<1>D. faults \in 0 .. MaxFaults
  BY FaultsAssumption DEF Init, InitTable
<1>E. delayed \in BOOLEAN /\ late = {}
  BY Zenon DEF Init, InitTable
<1>1. TableOk
  BY <1>B, <1>C, <1>D, <1>E DEF TableOk
<1>2. CopyOk(snaps, Metadata)
  BY <1>1 DEF CopyOk, Metadata, TableOk
<1>3. CopiesOk
  BY <1>2 DEF Init, CopiesOk
<1>4. LocalTypes
  BY DEF Init, LocalTypes, Steps, TaskSteps
<1>5. InPipeline = {}
  BY DEF Init, InPipeline
<1>6. PipelineOk
  BY <1>5, FS_EmptySet, SinkAssumption DEF PipelineOk
<1> QED
  BY <1>1, <1>3, <1>4, <1>6 DEF Typed

LEMMA TypedStep == Typed /\ [Next]_vars => Typed'
  BY CopiesStep, LocalStep DEF Typed

\* Every variable keeps its type, every reference leads to a snapshot that
\* exists, and no more than max_pending_commits tasks run: with any bound.
THEOREM TypeCorrect == Spec => []TypeOK
  BY TypedInit, TypedStep, TypesTogether, PTL DEF Spec

-----------------------------------------------------------------------------
(* What is on main without a publish() of the client.                      *)

Known == audited \cup recovered

OnBranch == Shown(snaps, refs[Branch])

\* Through copy m no file gets to main, or to the branch, that is neither in
\* K nor on the branch now.
Covered(sn, m, K, B) ==
  /\ Shown(sn, m.refs[Main]) \subseteq K
  /\ Shown(sn, m.refs[Branch]) \subseteq K \cup B

AllCovered ==
  /\ Covered(snaps, Metadata, Known, OnBranch)
  /\ Covered(snaps, seen, Known, OnBranch)
  /\ \A c \in Own : Covered(snaps, meta[c], Known, OnBranch)

NoLate == ~delayed => late = {}

\* Without auto_publish no task publishes.
ClientPublishes == ~autoPublish => \A c \in Own : task[c] # "publish"

AuditInv ==
  Typed /\ NoLate /\ ClientPublishes /\ (~autoPublish /\ ~delayed => AllCovered)

LEMMA NoLateStep == Typed /\ NoLate /\ [Next]_vars => NoLate' /\ (~delayed' => ~delayed)
<1> SUFFICES ASSUME Typed, NoLate, [Next]_vars PROVE NoLate' /\ (~delayed' => ~delayed)
  OBVIOUS
<1> USE DEF NoLate
<1>0. TableSteps
  BY StepClasses
<1>1. CASE Quiet \/ Appends
  <2>1. late' = late /\ delayed' = delayed
    BY <1>1 DEF Quiet, Appends, AppendToMain, wire
  <2> QED
    BY <2>1
<1>2. CASE Sends
  BY <1>2, SentEffect DEF Sends, Typed, TableOk
<1>3. CASE Arrive
  BY <1>3 DEF Arrive
<1> QED
  BY <1>0, <1>1, <1>2, <1>3 DEF TableSteps

LEMMA ClientPublishesStep ==
  Typed /\ ClientPublishes /\ [Next]_vars => ClientPublishes'
<1> SUFFICES ASSUME Typed, ClientPublishes, Next \/ UNCHANGED vars PROVE ClientPublishes'
  OBVIOUS
<1> USE DEF ClientPublishes
<1>1. UNCHANGED autoPublish
  BY DEF Next, vars
<1>2. ASSUME \A c \in Own : task'[c] = task[c] \/ task'[c] # "publish" PROVE ClientPublishes'
  BY <1>1, <1>2
<1>3. UNCHANGED task => ClientPublishes'
  BY <1>2
<1>4. CASE \E c \in Own : Prepare(c) \/ Recover(c)
  BY <1>3, <1>4 DEF Prepare, Recover, tasks
<1>5. CASE \E c \in Own : Enqueue(c) \/ Complete(c)
  BY <1>2, <1>5 DEF Enqueue, Complete, Typed, LocalTypes
<1>6. CASE \E c \in Own : Task(c)
  <2>1. PICK c \in Own : Task(c)
    BY <1>6
  <2>2. CASE autoPublish
    BY <1>1, <2>2
  <2>3. CASE ~autoPublish
    <3>1. \E s \in TaskSteps : TaskGoto(c, s) /\ s # "publish"
      BY <2>1, <2>3 DEF Task, TaskCreate, TaskLoad, TaskCommit, TaskPublish, TaskSteps
    <3> QED
      BY <1>2, <3>1 DEF TaskGoto, Typed, LocalTypes
  <2> QED
    BY <2>2, <2>3
<1>7. CASE Reload \/ Crash
  BY <1>2, <1>7 DEF Reload, Crash, LoseProcess
<1>8. CASE Record \/ Drained \/ Refresh \/ Publish \/ Restart \/ BootDone
  BY <1>3, <1>8 DEF Record, Drained, Refresh, Publish, Restart, BootDone, tasks
<1>9. CASE \E f \in Others : OtherWriter(f)
  BY <1>3, <1>9 DEF OtherWriter, tasks
<1>10. CASE UNCHANGED <<loop, tasks, disk, hist>> \/ UNCHANGED vars
  BY <1>3, <1>10 DEF vars, tasks
<1> QED
  BY <1>4, <1>5, <1>6, <1>7, <1>8, <1>9, <1>10 DEF Next, Step

\* A step of the table or of the histories by which nothing unknown gets to
\* main or to the branch.
Advances ==
  /\ Known \subseteq Known'
  /\ OnBranch \subseteq Known' \cup OnBranch'
  /\ Covered(snaps', Metadata', Known', OnBranch')

\* The request of a covered copy, when it is granted.
LEMMA GrantedAdvances ==
  ASSUME Typed, NEW m, CopyOk(snaps, m),
         Covered(snaps, m, Known, OnBranch), Covered(snaps, Metadata, Known, OnBranch),
         Known \subseteq Known',
         \/ Granted(CreateBranch(m, Branch)) /\ Apply(CreateBranch(m, Branch))
         \/ \E c \in Own : /\ Granted(CommitToBranch(m, Branch, {c}, "none"))
                           /\ Apply(CommitToBranch(m, Branch, {c}, "none"))
         \/ /\ Granted(PublishBranch(m, Branch)) /\ Apply(PublishBranch(m, Branch))
            /\ OnBranch \subseteq Known'
  PROVE  Advances
<1> USE DEF Typed, TableOk
<1>0. PICK sn, t, r, q, K, L : /\ sn = snaps /\ t = snaps' /\ r = refs /\ q = refs'
                              /\ K = Known /\ L = Known'
  OBVIOUS
<1>1. /\ sn \in Seq(Snapshot) /\ r \in [Refs -> 0 .. Len(sn)] /\ K \subseteq L
      /\ m.refs[Branch] \in 0 .. Len(sn) /\ m.refs[Main] \in 0 .. Len(sn)
  <2>1. Len(sn) \in Nat /\ 0 .. m.last \subseteq 0 .. Len(sn)
    BY <1>0 DEF CopyOk
  <2> QED
    BY <1>0, <2>1, RefsAre DEF CopyOk
<1>2. /\ Shown(sn, m.refs[Main]) \subseteq K
      /\ Shown(sn, m.refs[Branch]) \subseteq K \cup Shown(sn, r[Branch])
      /\ Shown(sn, r[Main]) \subseteq K
  BY <1>0 DEF Covered, OnBranch, Metadata
<1>3. Advances <=> /\ Shown(sn, r[Branch]) \subseteq L \cup Shown(t, q[Branch])
                   /\ Shown(t, q[Main]) \subseteq L
  BY <1>0, <1>1 DEF Advances, Covered, OnBranch, Metadata
<1>4. CASE Granted(CreateBranch(m, Branch)) /\ Apply(CreateBranch(m, Branch))
  <2>1. t = sn /\ r[Branch] = Gone /\ q = [r EXCEPT ![Branch] = m.refs[Main]]
    BY <1>0, <1>4, CreateEffect
  <2> QED
    BY <1>1, <1>2, <1>3, <2>1, RefsAre, NothingInGone
<1>5. ASSUME NEW c \in Own, Granted(CommitToBranch(m, Branch, {c}, "none")),
             Apply(CommitToBranch(m, Branch, {c}, "none"))
      PROVE  Advances
  <2>1. /\ r[Branch] = m.refs[Branch] /\ q = [r EXCEPT ![Branch] = Len(sn) + 1]
        /\ Continues(t, sn, m.refs[Branch], {c}, "none")
    BY <1>0, <1>1, <1>5, CommitEffects
  <2>B. Shown(t, Len(sn) + 1) = Shown(sn, m.refs[Branch]) \cup ({c} \cap Own)
    BY <1>1, <2>1, ContinuesShows
  <2>2. Shown(sn, r[Branch]) \subseteq Shown(t, q[Branch])
    BY <1>1, <2>1, <2>B, RefsAre
  <2>3. q[Main] = r[Main] /\ Shown(t, r[Main]) = Shown(sn, r[Main])
    BY <1>1, <2>1, RefsAre DEF Continues, Shown
  <2> QED
    BY <1>1, <1>2, <1>3, <2>2, <2>3
<1>6. CASE /\ Granted(PublishBranch(m, Branch)) /\ Apply(PublishBranch(m, Branch))
           /\ OnBranch \subseteq Known'
  <2>1. t = sn /\ q = [r EXCEPT ![Main] = m.refs[Branch], ![Branch] = Gone]
    BY <1>0, <1>6, PublishEffect
  <2>2. Shown(sn, r[Branch]) \subseteq L
    BY <1>0, <1>6 DEF OnBranch
  <2> QED
    BY <1>1, <1>2, <1>3, <2>1, <2>2, RefsAre
<1> QED
  BY <1>4, <1>5, <1>6

LEMMA AppendAdvances ==
  ASSUME Typed, Covered(snaps, Metadata, Known, OnBranch), Known \subseteq Known',
         NEW f \in Files, AppendToMain(f), f \in Own => f \in Known'
  PROVE  Advances
<1> USE DEF Typed, TableOk
<1>0. PICK sn, t, r, q, K, L : /\ sn = snaps /\ t = snaps' /\ r = refs /\ q = refs'
                              /\ K = Known /\ L = Known'
  OBVIOUS
<1>1. /\ sn \in Seq(Snapshot) /\ r \in [Refs -> 0 .. Len(sn)] /\ K \subseteq L
      /\ r[Main] \in 0 .. Len(sn) /\ r[Branch] \in 0 .. Len(sn)
  BY <1>0, RefsAre
<1>2. Shown(sn, r[Main]) \subseteq K
  BY <1>0 DEF Covered, OnBranch, Metadata
<1>3. Advances <=> /\ Shown(sn, r[Branch]) \subseteq L \cup Shown(t, q[Branch])
                   /\ Shown(t, q[Main]) \subseteq L /\ Shown(t, q[Branch]) \subseteq L \cup Shown(t, q[Branch])
  BY <1>0, <1>1 DEF Advances, Covered, OnBranch, Metadata
<1>4. /\ q = [r EXCEPT ![Main] = Len(sn) + 1]
      /\ Continues(t, sn, r[Main], {f}, "none")
  BY <1>0, <1>1, AppendEffect
<1>5. Shown(t, q[Main]) = Shown(sn, r[Main]) \cup ({f} \cap Own)
  <2>1. Shown(t, Len(sn) + 1) = Shown(sn, r[Main]) \cup ({f} \cap Own)
    BY <1>1, <1>4, ContinuesShows
  <2> QED
    BY <1>1, <1>4, <2>1, RefsAre
<1>6. Shown(t, q[Branch]) = Shown(sn, r[Branch])
  BY <1>1, <1>4, RefsAre DEF Continues, Shown
<1>7. {f} \cap Own \subseteq L
  BY <1>0
<1> QED
  BY <1>1, <1>2, <1>3, <1>5, <1>6, <1>7

LEMMA StillAdvances ==
  ASSUME Covered(snaps, Metadata, Known, OnBranch), Known \subseteq Known', UNCHANGED table
  PROVE  Advances
BY DEF Advances, Covered, OnBranch, Metadata, table

\* The histories only grow.
LEMMA KnownGrows == [Next]_vars => Known \subseteq Known'
<1> SUFFICES ASSUME Next \/ UNCHANGED vars PROVE audited \subseteq audited' /\ recovered \subseteq recovered'
  BY DEF Known
<1>1. CASE UNCHANGED vars
  BY <1>1 DEF vars, hist
<1>2. CASE \E c \in Own : Prepare(c) \/ Enqueue(c) \/ Complete(c) \/ Recover(c)
  BY <1>2 DEF Prepare, Enqueue, Complete, Recover, hist
<1>3. CASE \E c \in Own : Task(c)
  BY <1>3 DEF Task, TaskCreate, TaskLoad, TaskCommit, TaskPublish, TaskFrame, hist
<1>4. CASE Reload \/ Record \/ Drained \/ Refresh \/ Publish
  BY <1>4 DEF Reload, Record, Drained, Refresh, Publish, hist
<1>5. CASE Crash \/ Restart \/ BootDone
  BY <1>5 DEF Crash, Restart, BootDone, hist
<1>6. CASE \E f \in Others : OtherWriter(f)
  BY <1>6 DEF OtherWriter
<1>7. CASE UNCHANGED <<loop, tasks, disk, hist>>
  BY <1>7 DEF hist
<1> QED
  BY <1>1, <1>2, <1>3, <1>4, <1>5, <1>6, <1>7 DEF Next, Step

\* No step lets an unknown file through, while requests are not late.
LEMMA EveryStepAdvances ==
  ASSUME Typed, NoLate, ClientPublishes, AllCovered, ~autoPublish, ~delayed', [Next]_vars
  PROVE  Advances
<1> USE DEF AllCovered
<1>0. Known \subseteq Known' /\ ~delayed
  BY KnownGrows, NoLateStep
<1>1. UNCHANGED table => Advances
  BY <1>0, StillAdvances
<1>2. CopyOk(snaps, seen) /\ \A c \in Own : CopyOk(snaps, meta[c])
  BY DEF Typed, CopiesOk
<1>3. \A req : Sent(req) => UNCHANGED table \/ (Granted(req) /\ Apply(req))
  BY SentEffect DEF Typed, TableOk
<1>4. ASSUME NEW c \in Own, Task(c) PROVE Advances
  <2>1. \/ UNCHANGED table
        \/ Sent(CreateBranch(meta[c], Branch))
        \/ Sent(CommitToBranch(meta[c], Branch, {c}, "none"))
    BY <1>4 DEF Task, TaskCreate, TaskLoad, TaskCommit, TaskPublish, ClientPublishes,
                Fails, Sent, tableVars, table
  <2> QED
    BY <1>0, <1>1, <1>2, <1>3, <2>1, GrantedAdvances
<1>5. CASE Publish
  <2>1. Sent(PublishBranch(seen, Branch))
    BY <1>5 DEF Publish, Fails, Sent
  <2>2. OnBranch \subseteq Known'
    <3>1. {f \in Own : Content(refs[Branch])[f] > 0} \subseteq audited'
      BY <1>5 DEF Publish
    <3> QED
      BY <3>1, ShownContent DEF OnBranch, Known, Shown
  <2> QED
    BY <1>0, <1>1, <1>2, <1>3, <2>1, <2>2, GrantedAdvances
<1>6. ASSUME NEW c \in Own, Recover(c) PROVE Advances
  <2>1. CASE AppendToMain(c) /\ recovered' = recovered \cup {c}
    BY <1>0, <2>1, AppendAdvances, SinkAssumption DEF Known
  <2> QED
    BY <1>1, <1>6, <2>1 DEF Recover, table
<1>7. ASSUME NEW f \in Others, OtherWriter(f) PROVE Advances
  BY <1>0, <1>7, AppendAdvances, SinkAssumption DEF OtherWriter
<1>8. CASE Arrive
  BY <1>0, <1>8 DEF Arrive, NoLate
<1>9. CASE \E c \in Own : Prepare(c) \/ Enqueue(c) \/ Complete(c)
  BY <1>1, <1>9 DEF Prepare, Enqueue, Complete, tableVars
<1>10. CASE Reload \/ Record \/ Drained \/ Refresh
  BY <1>1, <1>10 DEF Reload, Record, Drained, Refresh, tableVars
<1>11. CASE Crash \/ Restart \/ BootDone \/ UNCHANGED vars
  BY <1>1, <1>11 DEF Crash, Restart, BootDone, tableVars, vars
<1> QED
  BY <1>4, <1>5, <1>6, <1>7, <1>8, <1>9, <1>10, <1>11 DEF Next, Step

LEMMA AuditInit == Init => AuditInv
<1> SUFFICES ASSUME Init PROVE AuditInv
  OBVIOUS
<1>1. Typed /\ NoLate /\ ClientPublishes
  BY TypedInit DEF Init, InitTable, NoLate, ClientPublishes
<1>2. Covered(snaps, Metadata, Known, OnBranch)
  BY RefsAre, NothingInGone DEF Init, InitTable, Covered, Metadata
<1>3. seen = Metadata /\ \A c \in Own : meta[c] = Metadata
  BY DEF Init
<1> QED
  BY <1>1, <1>2, <1>3 DEF AuditInv, AllCovered

LEMMA AuditStep == AuditInv /\ [Next]_vars => AuditInv'
<1> SUFFICES ASSUME AuditInv, [Next]_vars PROVE AuditInv'
  OBVIOUS
<1> USE DEF AuditInv
<1>1. Typed' /\ NoLate' /\ ClientPublishes' /\ (~delayed' => ~delayed)
  BY TypedStep, NoLateStep, ClientPublishesStep
<1>2. ASSUME ~autoPublish', ~delayed' PROVE AllCovered'
  <2>1. ~autoPublish /\ ~delayed /\ AllCovered
    BY <1>1, <1>2 DEF Next, vars
  <2>2. Advances
    BY <1>2, <2>1, EveryStepAdvances
  <2>3. PICK sn, t, K, L, B, C : /\ sn = snaps /\ t = snaps' /\ K = Known /\ L = Known'
                                /\ B = OnBranch /\ C = OnBranch'
    OBVIOUS
  <2>4. K \subseteq L /\ K \cup B \subseteq L \cup C /\ Covered(t, Metadata', L, C)
    BY <2>2, <2>3 DEF Advances
  <2>5. sn \in Seq(Snapshot) /\ Grown(t, sn) /\ CopySteps
    BY <2>3, StepClasses, TableStepOk DEF Typed, TableOk
  <2>6. \A m : CopyOk(sn, m) /\ Covered(sn, m, K, B) => Covered(t, m, L, C)
    <3> SUFFICES ASSUME NEW m, CopyOk(sn, m), Covered(sn, m, K, B) PROVE Covered(t, m, L, C)
      OBVIOUS
    <3>1. m.refs[Main] \in 0 .. Len(sn) /\ m.refs[Branch] \in 0 .. Len(sn)
      <4>1. Len(sn) \in Nat /\ 0 .. m.last \subseteq 0 .. Len(sn)
        BY <2>5 DEF CopyOk
      <4> QED
        BY <4>1, RefsAre DEF CopyOk
    <3>2. /\ Shown(t, m.refs[Main]) = Shown(sn, m.refs[Main])
          /\ Shown(t, m.refs[Branch]) = Shown(sn, m.refs[Branch])
      BY <2>5, <3>1, GrownKeeps
    <3> QED
      BY <2>4, <3>2 DEF Covered
  <2>7. /\ CopyOk(sn, Metadata) /\ Covered(sn, Metadata, K, B)
        /\ CopyOk(sn, seen) /\ Covered(sn, seen, K, B)
        /\ \A c \in Own : CopyOk(sn, meta[c]) /\ Covered(sn, meta[c], K, B)
    BY <2>1, <2>3 DEF AllCovered, Typed, CopiesOk, TableOk, CopyOk, Metadata
  <2>8. Covered(t, seen', L, C)
    BY <2>4, <2>5, <2>6, <2>7 DEF CopySteps
  <2>9. \A c \in Own : Covered(t, meta'[c], L, C)
    BY <2>5, <2>6, <2>7 DEF CopySteps
  <2> QED
    BY <2>3, <2>4, <2>8, <2>9 DEF AllCovered
<1> QED
  BY <1>1, <1>2

\* With publish() of the client nothing of the sink is on main that was not
\* on the branch at a publish(), or that recovery has not put there, however
\* many tasks run and whenever the client publishes, unless a request arrived
\* late.
THEOREM NothingSlipsThrough == Spec => []AuditedOrRecovered
<1>1. AuditInv => AuditedOrRecovered
  <2> SUFFICES ASSUME AuditInv, ~autoPublish, ~delayed, NEW c \in Own, OnMain[c] > 0
               PROVE  c \in audited \cup recovered
    BY DEF AuditedOrRecovered
  <2>1. c \in Shown(snaps, refs[Main])
    BY ShownContent DEF OnMain
  <2> QED
    BY <2>1 DEF AuditInv, AllCovered, Covered, Known, Metadata
<1> QED
  BY <1>1, AuditInit, AuditStep, PTL DEF Spec

-----------------------------------------------------------------------------
(* What a commit that reported success means.                              *)

\* One commit at a time, and a client that publishes in between.
OneAtATime == MaxPending = 1 /\ PublishIdle

\* With auto_publish there is none of the two faults after which the sink
\* takes a branch that was published for one that exists.
PublishHeard == AutoFaults \cap {"reload", "lost_reply"} = {}

Heard == autoPublish => PublishHeard

\* The settled files S are on the branch, on main when there is none, and on
\* the branch as copy m has it, which is what a publish() makes of main.
OnTable(sn, rf, m, S, auto) ==
  /\ rf[Branch] # Gone => S \subseteq Shown(sn, rf[Branch])
  /\ rf[Branch] = Gone \/ auto => S \subseteq Shown(sn, rf[Main])
  /\ m.refs[Branch] # Gone => S \subseteq Shown(sn, m.refs[Branch])

\* A branch created from copy m misses nothing.
Recent(sn, rf, m, S) ==
  /\ m.refs[Branch] # Gone => rf[Branch] # Gone
  /\ m.refs[Branch] = Gone /\ rf[Branch] = Gone => S \subseteq Shown(sn, m.refs[Main])

\* What the task of c knows at a step.
TaskOk(sn, rf, c, step, m, S, auto) ==
  /\ step = "create" => Recent(sn, rf, m, S)
  /\ step \in {"load", "commit"} => (rf[Branch] = Gone => S = {})
  /\ step \in {"commit", "publish"} => m.refs[Branch] = rf[Branch]
  /\ step \in {"reload", "publish"} => c \in Shown(sn, rf[Branch])
  /\ step = "publish" => auto
  /\ step = "last" => auto /\ rf[Branch] = Gone /\ c \in Shown(sn, rf[Main])
  /\ step = "ok" /\ auto => /\ rf[Branch] = Gone /\ c \in Shown(sn, rf[Main])
                            /\ m.refs[Branch] = Gone
                            /\ S \cup {c} \subseteq Shown(sn, m.refs[Main])
  /\ step = "ok" /\ ~auto => /\ c \in Shown(sn, rf[Branch])
                             /\ m.refs[Branch] = rf[Branch]

OneTask ==
  /\ \A c, d \in Own : task[c] # "none" /\ task[d] # "none" => c = d
  /\ pc \in {"boot", "dead", "refresh"} => \A c \in Own : task[c] = "none"

\* The loop's copy is recent when it is about to hand it to a task.
LoopOk(sn) ==
  /\ pc \in {"record", "reserve"}
  /\ \A c \in Own : task[c] \notin {"last", "ok"}
  => Recent(sn, refs, seen, settled)

SettledIn(sn) ==
  /\ OnTable(sn, refs, seen, settled, autoPublish)
  /\ OneTask /\ LoopOk(sn)
  /\ \A c \in Own : TaskOk(sn, refs, c, task[c], meta[c], settled, autoPublish)

SettledInv == Typed /\ NoLate /\ (~delayed /\ Heard => SettledIn(snaps))

\* More snapshots change nothing of it.
LEMMA SettledInMore ==
  ASSUME Typed, NEW sn, NEW t, sn = snaps, Grown(t, sn), SettledIn(sn)
  PROVE  SettledIn(t)
<1>1. \A s \in 0 .. Len(sn) : Shown(t, s) = Shown(sn, s)
  BY GrownKeeps DEF Typed, TableOk
<1>2. \A m : CopyOk(sn, m) => m.refs[Main] \in 0 .. Len(sn) /\ m.refs[Branch] \in 0 .. Len(sn)
  <2> SUFFICES ASSUME NEW m, CopyOk(sn, m)
               PROVE  m.refs[Main] \in 0 .. Len(sn) /\ m.refs[Branch] \in 0 .. Len(sn)
    OBVIOUS
  <2>1. Len(sn) \in Nat /\ 0 .. m.last \subseteq 0 .. Len(sn)
    BY DEF CopyOk, Typed, TableOk
  <2> QED
    BY <2>1, RefsAre DEF CopyOk
<1>3. /\ Shown(t, refs[Main]) = Shown(sn, refs[Main])
      /\ Shown(t, refs[Branch]) = Shown(sn, refs[Branch])
      /\ Shown(t, seen.refs[Main]) = Shown(sn, seen.refs[Main])
      /\ Shown(t, seen.refs[Branch]) = Shown(sn, seen.refs[Branch])
      /\ \A c \in Own : Shown(t, meta[c].refs[Main]) = Shown(sn, meta[c].refs[Main])
  BY <1>1, <1>2, RefsAre DEF Typed, TableOk, CopiesOk
<1>4. OnTable(t, refs, seen, settled, autoPublish) /\ LoopOk(t)
  BY <1>3 DEF SettledIn, OnTable, LoopOk, Recent
<1>5. \A c \in Own : TaskOk(t, refs, c, task[c], meta[c], settled, autoPublish)
  BY <1>3 DEF SettledIn, TaskOk, Recent
<1> QED
  BY <1>4, <1>5 DEF SettledIn

\* A step of the one task.
LEMMA TaskKeeps ==
  ASSUME NEW t, Typed, SettledIn(t), NEW c \in Own, task[c] # "none",
         NEW s, task' = [task EXCEPT ![c] = s],
         UNCHANGED <<pc, seen, settled, autoPublish>>,
         OnTable(t, refs', seen, settled, autoPublish),
         TaskOk(t, refs', c, s, meta'[c], settled, autoPublish),
         s \notin {"last", "ok"}
           => /\ task[c] \notin {"last", "ok"}
              /\ Recent(t, refs, seen, settled) => Recent(t, refs', seen, settled)
  PROVE  SettledIn(t)'
<1> USE DEF SettledIn
<1>1. task \in [Own -> TaskSteps]
  BY DEF Typed, LocalTypes
<1>2. task'[c] = s /\ \A d \in Own : d # c => task'[d] = "none" /\ task[d] = "none"
  BY <1>1 DEF OneTask
<1>3. OneTask'
  BY <1>2 DEF OneTask
<1>4. LoopOk(t)'
  BY <1>2 DEF LoopOk
<1>5. \A d \in Own : TaskOk(t, refs', d, task'[d], meta'[d], settled, autoPublish)
  BY <1>2 DEF TaskOk
<1> QED
  BY <1>3, <1>4, <1>5

LEMMA TaskCreateKeeps ==
  ASSUME NEW t, t = snaps', Typed, SettledIn(t), NEW c \in Own, TaskCreate(c),
         UNCHANGED autoPublish
  PROVE  SettledIn(t)'
<1>1. /\ task[c] = "create" /\ Recent(t, refs, meta[c], settled)
      /\ OnTable(t, refs, seen, settled, autoPublish)
  BY DEF SettledIn, TaskOk, TaskCreate
<1>2. UNCHANGED <<pc, seen, settled, autoPublish, meta>>
  BY DEF TaskCreate, TaskFrame, loop, hist
<1>3. CASE meta[c].refs[Branch] # Gone \/ meta[c].refs[Main] = Gone
  <2>1. task' = [task EXCEPT ![c] = "load"] /\ refs' = refs
    BY <1>3 DEF TaskCreate, TaskGoto, tableVars, table
  <2>2. refs[Branch] = Gone => settled = {}
    BY <1>1, <1>3, NothingInGone DEF Recent
  <2>3. TaskOk(t, refs', c, "load", meta'[c], settled, autoPublish)
    BY <2>1, <2>2 DEF TaskOk
  <2> QED
    BY <1>1, <1>2, <2>1, <2>3, TaskKeeps
<1>4. CASE meta[c].refs[Branch] = Gone /\ meta[c].refs[Main] # Gone
  <2>1. /\ Sent(CreateBranch(meta[c], Branch))
        /\ \/ Accepted(CreateBranch(meta[c], Branch)) /\ task' = [task EXCEPT ![c] = "load"]
           \/ task' = [task EXCEPT ![c] = "err"]
    BY <1>4 DEF TaskCreate, TaskGoto, Fails, Sent
  <2>2. CASE UNCHANGED table /\ task' = [task EXCEPT ![c] = "err"]
    <3>1. TaskOk(t, refs', c, "err", meta'[c], settled, autoPublish)
      BY DEF TaskOk
    <3> QED
      BY <1>1, <1>2, <2>2, <3>1, TaskKeeps DEF table
  <2>3. ASSUME NEW s \in {"load", "err"}, task' = [task EXCEPT ![c] = s],
               Granted(CreateBranch(meta[c], Branch)), Apply(CreateBranch(meta[c], Branch))
        PROVE  SettledIn(t)'
    <3>1. refs[Branch] = Gone /\ refs' = [refs EXCEPT ![Branch] = meta[c].refs[Main]]
      BY <2>3, CreateEffect
    <3>2. refs'[Branch] = meta[c].refs[Main] /\ refs'[Main] = refs[Main]
      BY <3>1, RefsAre DEF Typed, TableOk
    <3>3. settled \subseteq Shown(t, refs'[Branch])
      BY <1>1, <1>4, <3>1, <3>2 DEF Recent
    <3>4. OnTable(t, refs', seen, settled, autoPublish)
      BY <1>1, <1>4, <3>1, <3>2, <3>3 DEF OnTable
    <3>5. TaskOk(t, refs', c, s, meta'[c], settled, autoPublish)
      BY <1>4, <3>2 DEF TaskOk
    <3>6. Recent(t, refs', seen, settled)
      BY <1>4, <3>2 DEF Recent
    <3> QED
      BY <1>1, <1>2, <2>3, <3>4, <3>5, <3>6, TaskKeeps
  <2>4. UNCHANGED table \/ (Granted(CreateBranch(meta[c], Branch)) /\ Apply(CreateBranch(meta[c], Branch)))
    BY <2>1, SentEffect DEF Typed, TableOk
  <2>5. Accepted(CreateBranch(meta[c], Branch))
          => Granted(CreateBranch(meta[c], Branch)) /\ Apply(CreateBranch(meta[c], Branch))
    BY DEF Accepted
  <2> QED
    BY <2>1, <2>2, <2>3, <2>4, <2>5
<1> QED
  BY <1>3, <1>4

LEMMA TaskLoadKeeps ==
  ASSUME Heard, NEW t, t = snaps', Typed, SettledIn(t), NEW c \in Own, TaskLoad(c),
         UNCHANGED autoPublish
  PROVE  SettledIn(t)'
<1>1. /\ TaskOk(t, refs, c, task[c], meta[c], settled, autoPublish)
      /\ OnTable(t, refs, seen, settled, autoPublish)
  BY DEF SettledIn
<1>2. UNCHANGED <<pc, seen, settled, autoPublish>> /\ refs' = refs
  BY DEF TaskLoad, TaskFrame, loop, hist, table
<1>3. DOMAIN meta = Own
  BY DEF Typed, CopiesOk
<1>4. ASSUME NEW s \in TaskSteps, TaskGoto(c, s), task[c] \in {"load", "reload", "last"},
             s \in {"ok", "last"} \/ task[c] # "last",
             TaskOk(t, refs, c, s, meta'[c], settled, autoPublish)
      PROVE  SettledIn(t)'
  <2>1. task' = [task EXCEPT ![c] = s]
    BY <1>4 DEF TaskGoto
  <2> QED
    BY <1>1, <1>2, <1>4, <2>1, TaskKeeps
<1>5. CASE /\ meta' = [meta EXCEPT ![c] = Metadata]
           /\ \/ task[c] = "load" /\ TaskGoto(c, "commit")
              \/ task[c] = "reload" /\ TaskGoto(c, IF autoPublish THEN "publish" ELSE "ok")
              \/ task[c] = "last" /\ TaskGoto(c, "ok")
  <2>1. meta'[c].refs = refs
    BY <1>3, <1>5 DEF Metadata
  <2>2. CASE task[c] = "load" /\ TaskGoto(c, "commit")
    <3>1. TaskOk(t, refs, c, "commit", meta'[c], settled, autoPublish)
      BY <1>1, <2>1, <2>2 DEF TaskOk
    <3> QED
      BY <1>4, <2>2, <3>1 DEF TaskSteps
  <2>3. CASE task[c] = "reload" /\ TaskGoto(c, IF autoPublish THEN "publish" ELSE "ok")
    <3>1. CASE autoPublish
      <4>1. TaskOk(t, refs, c, "publish", meta'[c], settled, autoPublish)
        BY <1>1, <2>1, <2>3, <3>1 DEF TaskOk
      <4> QED
        BY <1>4, <2>3, <3>1, <4>1 DEF TaskSteps
    <3>2. CASE ~autoPublish
      <4>1. TaskOk(t, refs, c, "ok", meta'[c], settled, autoPublish)
        BY <1>1, <2>1, <2>3, <3>2 DEF TaskOk
      <4> QED
        BY <1>4, <2>3, <3>2, <4>1 DEF TaskSteps
    <3> QED
      BY <3>1, <3>2
  <2>4. CASE task[c] = "last" /\ TaskGoto(c, "ok")
    <3>1. /\ autoPublish /\ refs[Branch] = Gone /\ c \in Shown(t, refs[Main])
          /\ settled \subseteq Shown(t, refs[Main])
      BY <1>1, <2>4 DEF TaskOk, OnTable
    <3>2. TaskOk(t, refs, c, "ok", meta'[c], settled, autoPublish)
      BY <2>1, <3>1 DEF TaskOk
    <3> QED
      BY <1>4, <2>4, <3>2 DEF TaskSteps
  <2> QED
    BY <1>5, <2>2, <2>3, <2>4
<1>6. CASE Disturbed("reload") /\ task[c] \in {"load", "reload", "last"} /\ TaskGoto(c, "err")
  <2>1. ~autoPublish /\ task[c] # "last"
    BY <1>1, <1>6 DEF Disturbed, Heard, PublishHeard, TaskOk
  <2>2. TaskOk(t, refs, c, "err", meta'[c], settled, autoPublish)
    BY DEF TaskOk
  <2> QED
    BY <1>4, <1>6, <2>1, <2>2 DEF TaskSteps
<1> QED
  BY <1>5, <1>6 DEF TaskLoad

LEMMA TaskCommitKeeps ==
  ASSUME NEW t, t = snaps', Typed, SettledIn(t), NEW c \in Own, TaskCommit(c), ~delayed',
         UNCHANGED autoPublish
  PROVE  SettledIn(t)'
<1> DEFINE req == CommitToBranch(meta[c], Branch, {c}, "none")
<1>1. /\ task[c] = "commit" /\ meta[c].refs[Branch] = refs[Branch]
      /\ refs[Branch] = Gone => settled = {}
      /\ OnTable(t, refs, seen, settled, autoPublish)
  BY DEF SettledIn, TaskOk, TaskCommit
<1>2. UNCHANGED <<pc, seen, settled, autoPublish, meta>>
  BY DEF TaskCommit, TaskFrame, loop, hist
<1>3. /\ Sent(req)
      /\ \/ (Accepted(req) \/ Conflict(req)) /\ task' = [task EXCEPT ![c] = "reload"]
         \/ task' = [task EXCEPT ![c] = "err"]
  BY DEF TaskCommit, TaskGoto, Fails, Sent
<1>4. ~Conflict(req)
  <2>1. Granted(req)
    BY <1>1 DEF Granted, CommitToBranch
  <2> QED
    BY <2>1 DEF Conflict
<1>5. CASE UNCHANGED table /\ task' = [task EXCEPT ![c] = "err"]
  <2>1. TaskOk(t, refs', c, "err", meta'[c], settled, autoPublish)
    BY DEF TaskOk
  <2> QED
    BY <1>1, <1>2, <1>5, <2>1, TaskKeeps DEF table
<1>6. ASSUME NEW s \in {"reload", "err"}, task' = [task EXCEPT ![c] = s],
             Granted(req), Apply(req)
      PROVE  SettledIn(t)'
  <2>1. PICK sn : sn = snaps
    OBVIOUS
  <2>2. /\ sn \in Seq(Snapshot) /\ refs \in [Refs -> 0 .. Len(sn)]
        /\ refs[Branch] \in 0 .. Len(sn)
    BY <2>1, RefsAre DEF Typed, TableOk
  <2>3. /\ refs' = [refs EXCEPT ![Branch] = Len(sn) + 1]
        /\ Continues(t, sn, refs[Branch], {c}, "none")
    BY <1>1, <1>6, <2>1, <2>2, CommitEffects
  <2>4. /\ Shown(t, Len(sn) + 1) = Shown(sn, refs[Branch]) \cup {c}
        /\ Shown(t, refs[Branch]) = Shown(sn, refs[Branch])
    <3>1. Shown(t, Len(sn) + 1) = Shown(sn, refs[Branch]) \cup ({c} \cap Own)
      BY <2>2, <2>3, ContinuesShows
    <3>2. Shown(t, refs[Branch]) = Shown(sn, refs[Branch])
      BY <2>2, <2>3 DEF Continues, Shown
    <3> QED
      BY <3>1, <3>2
  <2>5. /\ refs'[Main] = refs[Main] /\ refs'[Branch] # Gone
        /\ Shown(t, refs'[Branch]) = Shown(t, refs[Branch]) \cup {c}
    <3>1. refs'[Branch] = Len(sn) + 1 /\ refs'[Main] = refs[Main]
      BY <2>2, <2>3, RefsAre
    <3>2. Len(sn) + 1 # Gone
      BY <2>2 DEF Gone
    <3> QED
      BY <2>4, <3>1, <3>2
  <2>6. settled \subseteq Shown(t, refs'[Branch])
    BY <1>1, <2>5 DEF OnTable
  <2>7. OnTable(t, refs', seen, settled, autoPublish)
    BY <1>1, <2>5, <2>6 DEF OnTable
  <2>8. TaskOk(t, refs', c, s, meta'[c], settled, autoPublish)
    BY <2>5 DEF TaskOk
  <2>9. Recent(t, refs', seen, settled)
    BY <2>5 DEF Recent
  <2> QED
    BY <1>1, <1>2, <1>6, <2>7, <2>8, <2>9, TaskKeeps
<1>7. UNCHANGED table \/ (Granted(req) /\ Apply(req))
  BY <1>3, SentEffect DEF Typed, TableOk
<1>8. Accepted(req) => Granted(req) /\ Apply(req)
  BY DEF Accepted
<1> QED
  BY <1>3, <1>4, <1>5, <1>6, <1>7, <1>8

LEMMA TaskPublishKeeps ==
  ASSUME Heard, NEW t, t = snaps', Typed, SettledIn(t), NEW c \in Own, TaskPublish(c),
         UNCHANGED autoPublish
  PROVE  SettledIn(t)'
<1> DEFINE req == PublishBranch(meta[c], Branch)
<1>1. /\ task[c] = "publish" /\ meta[c].refs[Branch] = refs[Branch] /\ autoPublish
      /\ c \in Shown(t, refs[Branch]) /\ refs[Branch] # Gone
      /\ OnTable(t, refs, seen, settled, autoPublish)
  BY NothingInGone DEF SettledIn, TaskOk, TaskPublish
<1>2. UNCHANGED <<pc, seen, settled, autoPublish, meta>>
  BY DEF TaskPublish, TaskFrame, loop, hist
<1>3. \/ UNCHANGED table /\ task' = [task EXCEPT ![c] = "err"]
      \/ Accepted(req) /\ task' = [task EXCEPT ![c] = "last"]
  BY <1>1 DEF TaskPublish, TaskGoto, Conflict, Fails, Heard, PublishHeard, tableVars
<1>4. CASE UNCHANGED table /\ task' = [task EXCEPT ![c] = "err"]
  <2>1. TaskOk(t, refs', c, "err", meta'[c], settled, autoPublish)
    BY DEF TaskOk
  <2> QED
    BY <1>1, <1>2, <1>4, <2>1, TaskKeeps DEF table
<1>5. CASE Accepted(req) /\ task' = [task EXCEPT ![c] = "last"]
  <2>1. refs' = [refs EXCEPT ![Main] = refs[Branch], ![Branch] = Gone]
    BY <1>1, <1>5, PublishEffect DEF Accepted
  <2>2. refs'[Main] = refs[Branch] /\ refs'[Branch] = Gone
    BY <2>1, RefsAre DEF Typed, TableOk
  <2>3. OnTable(t, refs', seen, settled, autoPublish)
    BY <1>1, <2>2 DEF OnTable
  <2>4. TaskOk(t, refs', c, "last", meta'[c], settled, autoPublish)
    BY <1>1, <2>2 DEF TaskOk
  <2> QED
    BY <1>1, <1>2, <1>5, <2>3, <2>4, TaskKeeps
<1> QED
  BY <1>3, <1>4, <1>5

\* A step of the loop, or of another writer, beside the task.
LEMMA LoopKeeps ==
  ASSUME NEW t, Typed, SettledIn(t), UNCHANGED <<task, meta, settled, autoPublish>>,
         refs'[Branch] = refs[Branch], Shown(t, refs[Main]) \subseteq Shown(t, refs'[Main]),
         OnTable(t, refs, seen', settled, autoPublish),
         pc' \in {"boot", "dead", "refresh"} => \A c \in Own : task[c] = "none",
         pc' \in {"record", "reserve"}
           => \/ seen' = seen /\ pc \in {"record", "reserve"}
              \/ seen'.refs = refs
  PROVE  SettledIn(t)'
<1> USE DEF SettledIn
<1>1. OneTask'
  BY DEF OneTask
<1>2. OnTable(t, refs', seen', settled, autoPublish)
  BY DEF OnTable
<1>3. \A m : Recent(t, refs, m, settled) => Recent(t, refs', m, settled)
  BY DEF Recent
<1>4. seen'.refs = refs => Recent(t, refs, seen', settled)
  BY DEF Recent, OnTable
<1>5. LoopOk(t)'
  <2> SUFFICES ASSUME pc' \in {"record", "reserve"},
                      \A c \in Own : task[c] \notin {"last", "ok"}
               PROVE  Recent(t, refs', seen', settled)
    BY DEF LoopOk
  <2> QED
    BY <1>3, <1>4 DEF LoopOk
<1>6. ASSUME NEW c \in Own
      PROVE  TaskOk(t, refs', c, task[c], meta[c], settled, autoPublish)
  BY <1>3 DEF TaskOk
<1> QED
  BY <1>1, <1>2, <1>5, <1>6

\* A step after which no task runs.
LEMMA IdleKeeps ==
  ASSUME NEW t, SettledIn(t), UNCHANGED <<settled, autoPublish>>,
         \A c \in Own : task'[c] = "none",
         pc' \notin {"record", "reserve"},
         OnTable(t, refs', seen', settled, autoPublish)
  PROVE  SettledIn(t)'
<1>1. OneTask'
  BY DEF OneTask
<1>2. LoopOk(t)'
  BY DEF LoopOk
<1>3. \A c \in Own : TaskOk(t, refs', c, task'[c], meta'[c], settled, autoPublish)
  BY DEF TaskOk
<1> QED
  BY <1>1, <1>2, <1>3 DEF SettledIn

LEMMA EnqueueKeeps ==
  ASSUME OneAtATime, NEW t, Typed, SettledIn(t), NEW c \in Own, Enqueue(c), UNCHANGED autoPublish
  PROVE  SettledIn(t)'
<1>1. \A d \in Own : task[d] = "none"
  <2>1. PICK P : P = InPipeline
    OBVIOUS
  <2>2. IsFiniteSet(P) /\ Cardinality(P) \in Nat /\ Cardinality(P) < 1
    BY <2>1, FS_CardinalityType DEF Typed, PipelineOk, Enqueue, HasCapacity, OneAtATime
  <2>3. P = {}
    BY <2>2, FS_EmptySet
  <2> QED
    BY <2>1, <2>3 DEF InPipeline
<1>2. /\ pc = "reserve" /\ pc' \in {"drain", "idle"}
      /\ task' = [task EXCEPT ![c] = "create"] /\ meta' = [meta EXCEPT ![c] = seen]
      /\ UNCHANGED <<refs, seen, settled>>
  BY DEF Enqueue, tableVars, table, hist
<1>3. Recent(t, refs, seen, settled)
  BY <1>1, <1>2 DEF SettledIn, LoopOk
<1>4. task'[c] = "create" /\ meta'[c] = seen /\ \A d \in Own : d # c => task'[d] = "none"
  BY <1>1, <1>2 DEF Typed, LocalTypes, CopiesOk
<1>5. OneTask' /\ LoopOk(t)'
  BY <1>2, <1>4 DEF OneTask, LoopOk
<1>6. \A d \in Own : TaskOk(t, refs, d, task'[d], meta'[d], settled, autoPublish)
  BY <1>3, <1>4 DEF TaskOk
<1> QED
  BY <1>2, <1>5, <1>6 DEF SettledIn

LEMMA CompleteKeeps ==
  ASSUME NEW t, Typed, SettledIn(t), NEW c \in Own, Complete(c), UNCHANGED autoPublish
  PROVE  SettledIn(t)'
<1>1. /\ TaskOk(t, refs, c, task[c], meta[c], settled, autoPublish)
      /\ OnTable(t, refs, seen, settled, autoPublish)
  BY DEF SettledIn
<1>2. /\ pc \notin {"boot", "dead", "refresh", "record"} /\ task[c] \in {"ok", "err"}
      /\ task' = [task EXCEPT ![c] = "none"] /\ UNCHANGED <<pc, refs, meta>>
  BY DEF Complete, tableVars, table
<1>3. \A d \in Own : task'[d] = "none"
  BY <1>2 DEF SettledIn, OneTask, Typed, LocalTypes
<1>4. OneTask'
  BY <1>2, <1>3 DEF OneTask
<1>5. \A d \in Own : TaskOk(t, refs', d, task'[d], meta'[d], settled', autoPublish)
  BY <1>3 DEF TaskOk
<1>6. CASE task[c] = "err"
  <2>1. UNCHANGED <<seen, settled>>
    BY <1>6 DEF Complete
  <2>2. \A d \in Own : task[d] \notin {"last", "ok"}
    BY <1>2, <1>6 DEF SettledIn, OneTask
  <2>3. LoopOk(t)'
    BY <1>2, <2>1, <2>2 DEF SettledIn, LoopOk
  <2> QED
    BY <1>1, <1>2, <1>4, <1>5, <2>1, <2>3 DEF SettledIn
<1>7. CASE task[c] = "ok"
  <2>1. seen' = meta[c] /\ settled' = settled \cup {c}
    BY <1>7 DEF Complete, TakeTable
  <2>2. CASE autoPublish
    <3>1. /\ refs[Branch] = Gone /\ meta[c].refs[Branch] = Gone
          /\ settled' \subseteq Shown(t, refs[Main])
          /\ settled' \subseteq Shown(t, meta[c].refs[Main])
      BY <1>1, <1>7, <2>1, <2>2 DEF TaskOk, OnTable
    <3>2. OnTable(t, refs, seen', settled', autoPublish) /\ Recent(t, refs, seen', settled')
      BY <2>1, <3>1 DEF OnTable, Recent
    <3> QED
      BY <1>2, <1>4, <1>5, <3>2 DEF SettledIn, LoopOk
  <2>3. CASE ~autoPublish
    <3>1. c \in Shown(t, refs[Branch]) /\ meta[c].refs[Branch] = refs[Branch]
      BY <1>1, <1>7, <2>3 DEF TaskOk
    <3>2. refs[Branch] # Gone
      BY <3>1, NothingInGone
    <3>3. settled' \subseteq Shown(t, refs[Branch])
      BY <1>1, <2>1, <3>1, <3>2 DEF OnTable
    <3>4. OnTable(t, refs, seen', settled', autoPublish) /\ Recent(t, refs, seen', settled')
      BY <2>1, <2>3, <3>1, <3>2, <3>3 DEF OnTable, Recent
    <3> QED
      BY <1>2, <1>4, <1>5, <3>4 DEF SettledIn, LoopOk
  <2> QED
    BY <2>2, <2>3
<1> QED
  BY <1>2, <1>6, <1>7

\* A publish() that is granted, whether or not the client hears of it.
LEMMA PublishedShows ==
  ASSUME NEW t, t = snaps', Typed, SettledIn(t), seen.refs[Branch] # Gone,
         Granted(PublishBranch(seen, Branch)), Apply(PublishBranch(seen, Branch))
  PROVE  /\ OnTable(t, refs', seen, settled, autoPublish)
         /\ settled \subseteq Shown(t, refs'[Main])
<1>1. refs' = [refs EXCEPT ![Main] = seen.refs[Branch], ![Branch] = Gone]
  BY PublishEffect
<1>2. refs'[Main] = seen.refs[Branch] /\ refs'[Branch] = Gone
  BY <1>1, RefsAre DEF Typed, TableOk
<1> QED
  BY <1>2 DEF SettledIn, OnTable

\* A writer of main takes nothing from main.
LEMMA AppendShows ==
  ASSUME NEW t, t = snaps', Typed, SettledIn(t), NEW f \in Files, AppendToMain(f)
  PROVE  /\ refs'[Branch] = refs[Branch]
         /\ Shown(t, refs[Main]) \subseteq Shown(t, refs'[Main])
         /\ OnTable(t, refs', seen, settled, autoPublish)
<1>1. PICK sn : sn = snaps
  OBVIOUS
<1>2. sn \in Seq(Snapshot) /\ refs \in [Refs -> 0 .. Len(sn)] /\ refs[Main] \in 0 .. Len(sn)
  BY <1>1, RefsAre DEF Typed, TableOk
<1>3. /\ refs' = [refs EXCEPT ![Main] = Len(sn) + 1]
      /\ Continues(t, sn, refs[Main], {f}, "none")
  BY <1>1, <1>2, AppendEffect
<1>4. refs'[Branch] = refs[Branch] /\ refs'[Main] = Len(sn) + 1
  BY <1>2, <1>3, RefsAre
<1>5. Shown(t, Len(sn) + 1) = Shown(sn, refs[Main]) \cup ({f} \cap Own)
  BY <1>2, <1>3, ContinuesShows
<1>6. Shown(t, refs[Main]) = Shown(sn, refs[Main])
  BY <1>2, <1>3 DEF Continues, Shown
<1>7. Shown(t, refs[Main]) \subseteq Shown(t, refs'[Main])
  BY <1>4, <1>5, <1>6
<1> QED
  BY <1>4, <1>7 DEF SettledIn, OnTable

LEMMA SettledStep ==
  ASSUME OneAtATime, Heard, Typed, NoLate, ~delayed', SettledIn(snaps), [Next]_vars
  PROVE  SettledIn(snaps)'
<1>0. PICK sn, t : sn = snaps /\ t = snaps'
  OBVIOUS
<1>1. /\ Typed /\ SettledIn(t) /\ ~delayed /\ UNCHANGED autoPublish
      /\ OnTable(t, refs, seen, settled, autoPublish) /\ OneTask
  <2>1. Grown(t, sn)
    BY <1>0, StepClasses, TableStepOk DEF Typed
  <2>2. SettledIn(t)
    BY <1>0, <2>1, SettledInMore
  <2> QED
    BY <2>2, NoLateStep DEF Next, vars, SettledIn
<1>2. SettledIn(t)' => SettledIn(snaps)'
  BY <1>0 DEF SettledIn, LoopOk
<1>3. \A m : m.refs = refs => OnTable(t, refs, m, settled, autoPublish)
  BY <1>1 DEF OnTable
<1>4. ASSUME UNCHANGED <<table, task, meta, settled>>, seen' = seen \/ seen' = Metadata,
             pc' \in {"boot", "dead", "refresh"} => pc' = pc,
             pc' = "record" => seen' = Metadata,
             pc' = "reserve" => \/ seen' = seen /\ pc \in {"record", "reserve"}
                                \/ seen' = Metadata
      PROVE  SettledIn(t)'
  <2>1. OnTable(t, refs, seen', settled, autoPublish)
    BY <1>1, <1>3, <1>4 DEF Metadata
  <2>2. pc' \in {"boot", "dead", "refresh"} => \A c \in Own : task[c] = "none"
    BY <1>1, <1>4 DEF OneTask
  <2> QED
    BY <1>1, <1>4, <2>1, <2>2, LoopKeeps DEF table, Metadata
<1>5. ASSUME UNCHANGED <<table, seen, settled>>, LoseProcess PROVE SettledIn(t)'
  <2>1. pc' \notin {"record", "reserve"} /\ \A c \in Own : task'[c] = "none"
    BY <1>5 DEF LoseProcess
  <2> QED
    BY <1>1, <1>5, <2>1, IdleKeeps DEF table
<1>6. CASE \E c \in Own : Prepare(c)
  BY <1>2, <1>4, <1>6 DEF Prepare, tableVars, tasks
<1>7. CASE \E c \in Own : Enqueue(c)
  BY <1>1, <1>2, <1>7, EnqueueKeeps
<1>8. CASE \E c \in Own : Complete(c)
  BY <1>1, <1>2, <1>8, CompleteKeeps
<1>9. CASE \E c \in Own : Task(c)
  BY <1>0, <1>1, <1>2, <1>9, TaskCreateKeeps, TaskLoadKeeps, TaskCommitKeeps, TaskPublishKeeps
     DEF Task
<1>10. CASE Reload
  <2>1. \/ LoseProcess /\ UNCHANGED seen
        \/ seen' = Metadata /\ pc' = "record" /\ UNCHANGED task
        \/ seen' = seen /\ pc' = "idle" /\ UNCHANGED task
    BY <1>10 DEF Reload
  <2>2. UNCHANGED <<table, meta, settled>>
    BY <1>10 DEF Reload
  <2> QED
    BY <1>2, <1>4, <1>5, <2>1, <2>2
<1>11. CASE Record
  <2>1. pc = "record" /\ pc' = "reserve" /\ UNCHANGED <<table, task, meta, settled, seen>>
    BY <1>11 DEF Record, tableVars, tasks, hist
  <2> QED
    BY <1>2, <1>4, <2>1
<1>12. CASE Drained
  <2>1. pc' = "idle" /\ UNCHANGED <<table, task, meta, settled, seen>>
    BY <1>12 DEF Drained, tableVars, tasks, hist
  <2> QED
    BY <1>2, <1>4, <2>1
<1>13. CASE Refresh \/ BootDone
  <2>1. pc' = "idle" /\ UNCHANGED <<table, task, meta, settled>> /\ (seen' = seen \/ seen' = Metadata)
    BY <1>13 DEF Refresh, BootDone, tasks, hist
  <2> QED
    BY <1>2, <1>4, <2>1
<1>14. CASE Publish
  <2>1. /\ seen.refs[Branch] # Gone /\ Sent(PublishBranch(seen, Branch)) /\ pc = "idle"
        /\ pc' \in {"idle", "refresh"} /\ UNCHANGED <<seen, task, meta, settled>>
    BY <1>14 DEF Publish, Fails, Sent, tasks
  <2>2. \A c \in Own : task[c] = "none"
    BY <1>14 DEF Publish, OneAtATime, InPipeline
  <2>3. UNCHANGED table
        \/ (Granted(PublishBranch(seen, Branch)) /\ Apply(PublishBranch(seen, Branch)))
    BY <2>1, SentEffect DEF Typed, TableOk
  <2>4. OnTable(t, refs', seen, settled, autoPublish)
    BY <1>0, <1>1, <2>1, <2>3, PublishedShows DEF table
  <2> QED
    BY <1>1, <1>2, <2>1, <2>2, <2>4, IdleKeeps
<1>15. CASE Crash
  BY <1>2, <1>5, <1>15 DEF Crash, hist
<1>16. CASE Restart
  <2>1. /\ pc = "dead" /\ pc' \in {"idle", "boot"} /\ seen' = Metadata
        /\ UNCHANGED <<table, task, settled>>
    BY <1>16 DEF Restart, tableVars, tasks, hist
  <2>2. \A c \in Own : task'[c] = "none"
    BY <1>1, <2>1 DEF OneTask
  <2> QED
    BY <1>1, <1>2, <1>3, <2>1, <2>2, IdleKeeps DEF table, Metadata
<1>17. CASE \E c \in Own : Recover(c)
  <2>1. PICK c \in Own : Recover(c)
    BY <1>17
  <2>2. pc = "boot" /\ UNCHANGED <<pc, task, meta, settled>>
    BY <2>1 DEF Recover, tasks
  <2>3. \A d \in Own : task'[d] = "none"
    BY <1>1, <2>2 DEF OneTask
  <2>4. CASE AppendToMain(c) /\ seen' = Metadata'
    <3>1. refs'[Branch] = refs[Branch] /\ OnTable(t, refs', seen, settled, autoPublish)
      BY <1>0, <1>1, <2>4, AppendShows, SinkAssumption
    <3>2. OnTable(t, refs', seen', settled, autoPublish)
      BY <2>4, <3>1 DEF OnTable, Metadata
    <3> QED
      BY <1>1, <1>2, <2>2, <2>3, <3>2, IdleKeeps
  <2>5. CASE UNCHANGED <<table, seen>>
    BY <1>1, <1>2, <2>2, <2>3, <2>5, IdleKeeps DEF table
  <2> QED
    BY <2>1, <2>4, <2>5 DEF Recover
<1>18. CASE \E f \in Others : OtherWriter(f)
  <2>1. PICK f \in Others : OtherWriter(f)
    BY <1>18
  <2>2. AppendToMain(f) /\ UNCHANGED <<pc, seen, task, meta, settled>> /\ f \in Files
    BY <2>1, SinkAssumption DEF OtherWriter, loop, tasks
  <2>3. refs'[Branch] = refs[Branch] /\ Shown(t, refs[Main]) \subseteq Shown(t, refs'[Main])
    BY <1>0, <1>1, <2>2, AppendShows
  <2>4. pc' \in {"boot", "dead", "refresh"} => \A c \in Own : task[c] = "none"
    BY <1>1, <2>2 DEF OneTask
  <2> QED
    BY <1>1, <1>2, <2>2, <2>3, <2>4, LoopKeeps
<1>19. CASE Arrive
  BY <1>1, <1>19 DEF Arrive, NoLate
<1>20. CASE UNCHANGED vars
  <2>1. UNCHANGED <<table, task, meta, settled, seen, pc>>
    BY <1>20 DEF vars, tableVars, tasks, hist, loop
  <2>2. SettledIn(t)'
    BY <1>1, <2>1 DEF SettledIn, OneTask, LoopOk, table
  <2> QED
    BY <1>2, <2>2
<1> QED
  BY <1>6, <1>7, <1>8, <1>9, <1>10, <1>11, <1>12, <1>13, <1>14, <1>15, <1>16, <1>17,
     <1>18, <1>19, <1>20 DEF Next, Step

LEMMA SettledInit == Init => SettledInv
<1> SUFFICES ASSUME Init PROVE SettledInv
  OBVIOUS
<1>1. Typed /\ NoLate
  BY TypedInit, AuditInit DEF AuditInv
<1>2. refs[Branch] = Gone /\ settled = {} /\ seen.refs = refs
  BY RefsAre DEF Init, InitTable, Metadata
<1>3. OnTable(snaps, refs, seen, settled, autoPublish)
  BY <1>2 DEF OnTable
<1>4. pc = "idle" /\ \A c \in Own : task[c] = "none"
  BY DEF Init
<1> QED
  BY <1>1, <1>3, <1>4 DEF SettledInv, SettledIn, OneTask, LoopOk, TaskOk

LEMMA SettledInductive == OneAtATime /\ SettledInv /\ [Next]_vars => SettledInv'
<1> SUFFICES ASSUME OneAtATime, SettledInv, [Next]_vars PROVE SettledInv'
  OBVIOUS
<1>1. Typed' /\ NoLate' /\ (~delayed' => ~delayed)
  BY TypedStep, NoLateStep DEF SettledInv
<1>2. Heard' => Heard
  BY DEF Heard, Next, vars
<1>3. ASSUME ~delayed', Heard' PROVE SettledIn(snaps)'
  BY <1>1, <1>2, <1>3, SettledStep DEF SettledInv
<1> QED
  BY <1>1, <1>3 DEF SettledInv

\* With one commit at a time, a commit that reported success is on the audit
\* branch or on main, and with auto_publish on main, unless a request arrived
\* late: for any number of commits, crashes and other faults, but for a
\* reload that fails and a reply that is lost with auto_publish.
THEOREM SettledIsSound == ASSUME OneAtATime, PublishHeard PROVE Spec => []SettledSound
<1>1. SettledInv => SettledSound
  <2> SUFFICES ASSUME SettledInv PROVE SettledSound
    OBVIOUS
  <2>1. TypeOK
    BY TypesTogether DEF SettledInv
  <2>2. ASSUME ~delayed, NEW c \in settled
        PROVE  /\ OnMain[c] > 0 \/ Content(refs[Branch])[c] > 0
               /\ autoPublish => OnMain[c] > 0
    <3>1. c \in Own
      BY DEF SettledInv, Typed, LocalTypes
    <3>2. /\ c \in Shown(snaps, refs[Main]) \/ c \in Shown(snaps, refs[Branch])
          /\ autoPublish => c \in Shown(snaps, refs[Main])
      BY <2>2 DEF SettledInv, SettledIn, OnTable, Heard
    <3> QED
      BY <3>1, <3>2, ShownContent DEF OnMain
  <2> QED
    BY <2>1, <2>2 DEF SettledSound, SettledIsKept, SettledIsVisible
<1>2. SettledInv /\ [Next]_vars => SettledInv'
  BY SettledInductive
<1> QED
  BY <1>1, <1>2, SettledInit, PTL DEF Spec

\* Only a publish() that is granted takes the loop from idle to refresh.
LEMMA OnlyPublishRefreshes ==
  ASSUME [Next]_vars, pc = "idle", pc' = "refresh"
  PROVE  /\ seen.refs[Branch] # Gone /\ ~autoPublish
         /\ Accepted(PublishBranch(seen, Branch)) /\ UNCHANGED settled
<1>1. CASE Publish /\ ~autoPublish
  BY <1>1 DEF Publish
<1>2. CASE \E c \in Own : Prepare(c) \/ Enqueue(c) \/ Complete(c) \/ Recover(c)
  BY <1>2 DEF Prepare, Enqueue, Complete, Recover
<1>3. CASE \E c \in Own : Task(c)
  BY <1>3 DEF Task, TaskCreate, TaskLoad, TaskCommit, TaskPublish, TaskFrame, loop
<1>4. CASE Reload \/ Record \/ Drained \/ Refresh
  BY <1>4 DEF Reload, Record, Drained, Refresh
<1>5. CASE Crash \/ Restart \/ BootDone
  BY <1>5 DEF Crash, Restart, BootDone, LoseProcess
<1>6. CASE \E f \in Others : OtherWriter(f)
  BY <1>6 DEF OtherWriter, loop
<1>7. CASE UNCHANGED <<loop, tasks, disk, hist>> \/ UNCHANGED vars
  BY <1>7 DEF vars, loop
<1> QED
  BY <1>1, <1>2, <1>3, <1>4, <1>5, <1>6, <1>7 DEF Next, Step

Shows == ~delayed /\ pc = "idle" /\ pc' = "refresh" => \A c \in settled : OnMain'[c] > 0

\* With one commit at a time, a publish() that is granted puts every commit
\* that reported success before it on main.
THEOREM PublishIsComplete == ASSUME OneAtATime PROVE Spec => PublishShowsAll
<1>1. SettledInv /\ [Next]_vars => Shows
  <2> SUFFICES ASSUME SettledInv, [Next]_vars, ~delayed, pc = "idle", pc' = "refresh",
                      NEW c \in settled
               PROVE  OnMain'[c] > 0
    BY DEF Shows
  <2>1. /\ seen.refs[Branch] # Gone /\ Typed /\ SettledIn(snaps)
        /\ Granted(PublishBranch(seen, Branch)) /\ Apply(PublishBranch(seen, Branch))
    BY OnlyPublishRefreshes DEF SettledInv, Heard, Accepted
  <2>2. PICK sn, t : sn = snaps /\ t = snaps'
    OBVIOUS
  <2>3. SettledIn(t)
    BY <2>1, <2>2, SettledInMore, PublishEffect DEF Grown
  <2>4. settled \subseteq Shown(t, refs'[Main])
    BY <2>1, <2>2, <2>3, PublishedShows
  <2>5. OnMain' = At(t, refs'[Main]) /\ c \in Own
    BY <2>1, <2>2 DEF OnMain, Content, At, Empty, Typed, LocalTypes
  <2> QED
    BY <2>4, <2>5 DEF Shown
<1>2. SettledInv /\ [Next]_vars => SettledInv'
  BY SettledInductive
<1>3. Spec => [][Shows]_vars
  BY <1>1, <1>2, SettledInit, PTL DEF Spec
<1> QED
  BY <1>3, PTL DEF PublishShowsAll, Shows
=============================================================================
