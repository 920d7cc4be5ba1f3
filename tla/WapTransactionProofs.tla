------------------------- MODULE WapTransactionProofs -------------------------
(***************************************************************************)
(* Proofs about write-audit-publish transactions, for any number of jobs,  *)
(* writers, crashes, and lost requests: their data stays off main until    *)
(* they publish, even when requests arrive late; and unless one does, a    *)
(* job that is resumed writes its data once, publishes all of it, and      *)
(* takes nothing off main.                                                 *)
(***************************************************************************)
EXTENDS WapTransaction, SequenceTheorems, TLAPS

-----------------------------------------------------------------------------
(* Snapshots, and the requests of AuditBranches.                           *)

LEMMA ContentAt == \A s : Content(s) = At(snaps, s)
  BY DEF Content, At

LEMMA HasWapIdIs == \A w : HasWapId(w) <=> Has(snaps, w)
  BY DEF HasWapId, Has

\* Adding files to the content of a known snapshot gives a snapshot.
LEMMA NewSnapshot ==
  ASSUME NEW sn \in Seq(Snapshot), NEW s \in 0 .. Len(sn),
         NEW c, c = IF s = Gone THEN Empty ELSE sn[s].files,
         NEW F, NEW w \in Branches \cup {"none"}
  PROVE  /\ [files |-> Plus(c, F), wap |-> w] \in Snapshot
         /\ \A k \in Files : Plus(c, F)[k] > 0 => c[k] > 0 \/ k \in F
<1>1. c \in [Files -> Nat]
  <2>1. CASE s = Gone
    BY <2>1 DEF Empty
  <2>2. CASE s # Gone
    <3>1. sn[s] \in Snapshot
      BY <2>2 DEF Gone
    <3> QED
      BY <2>2, <3>1 DEF Snapshot
  <2> QED
    BY <2>1, <2>2
<1>2. Plus(c, F) \in [Files -> Nat]
  BY <1>1 DEF Plus
<1> QED
  BY <1>1, <1>2 DEF Plus, Snapshot

\* A snapshot counts files.
LEMMA AtType ==
  ASSUME NEW sn \in Seq(Snapshot), NEW s \in 0 .. Len(sn)
  PROVE  At(sn, s) \in [Files -> Nat]
<1>1. CASE s = Gone
  BY <1>1 DEF At, Empty
<1>2. CASE s # Gone
  <2>1. sn[s] \in Snapshot
    BY <1>2 DEF Gone
  <2> QED
    BY <1>2, <2>1 DEF At, Snapshot
<1> QED
  BY <1>1, <1>2

\* t has one more snapshot than sn: s and the files F, by w.
Continues(t, sn, s, F, w) ==
  /\ t \in Seq(Snapshot) /\ Len(sn) \in Nat /\ Len(t) = Len(sn) + 1
  /\ \A r \in 0 .. Len(sn) : At(t, r) = At(sn, r)
  /\ At(t, Len(sn) + 1) = Plus(At(sn, s), F)
  /\ \A k : Has(t, k) <=> Has(sn, k) \/ k = w

LEMMA Extended ==
  ASSUME NEW sn \in Seq(Snapshot), NEW s \in 0 .. Len(sn), NEW F,
         NEW w \in Branches \cup {"none"}, NEW t,
         t = Append(sn, [files |-> Plus(At(sn, s), F), wap |-> w])
  PROVE  Continues(t, sn, s, F, w)
<1> DEFINE e == [files |-> Plus(At(sn, s), F), wap |-> w]
<1>1. e \in Snapshot
  BY NewSnapshot DEF At
<1>2. t \in Seq(Snapshot) /\ Len(sn) \in Nat /\ Len(t) = Len(sn) + 1
  BY <1>1
<1>3. /\ \A r \in 1 .. Len(sn) : t[r] = sn[r]
      /\ t[Len(sn) + 1] = e
  BY <1>1
<1>4. \A r \in 0 .. Len(sn) : At(t, r) = At(sn, r)
  <2> SUFFICES ASSUME NEW r \in 0 .. Len(sn), r # Gone PROVE At(t, r) = At(sn, r)
    BY DEF At
  <2>1. r \in 1 .. Len(sn)
    BY <1>2 DEF Gone
  <2> QED
    BY <1>3, <2>1 DEF At
<1>5. At(t, Len(sn) + 1) = Plus(At(sn, s), F)
  <2>1. Len(sn) + 1 # Gone
    BY <1>2 DEF Gone
  <2> QED
    BY <1>3, <2>1 DEF At
<1>6. \A k : Has(t, k) <=> Has(sn, k) \/ k = w
  <2> TAKE k
  <2>1. 1 .. Len(t) = 1 .. Len(sn) \cup {Len(sn) + 1}
    BY <1>2
  <2>2. e.wap = w
    OBVIOUS
  <2> QED
    BY <1>3, <2>1, <2>2 DEF Has
<1> QED
  BY <1>2, <1>4, <1>5, <1>6 DEF Continues

\* Its sender cannot tell whether a request that failed was applied; unless
\* it may still arrive, it was, or was not.
LEMMA SentEffect ==
  ASSUME faults \in 0 .. MaxFaults, delayed \in BOOLEAN, NEW req, Sent(req)
  PROVE  /\ UNCHANGED table \/ (Granted(req) /\ Apply(req))
         /\ ~delayed' => ~delayed /\ late' = late
         /\ delayed' \in BOOLEAN /\ late' \subseteq late \cup {req}
         /\ faults' \in 0 .. MaxFaults
<1>1. UNCHANGED table \/ (Granted(req) /\ Apply(req))
  BY DEF Sent, Accepted, Conflict, Failed, table
<1>2. UNCHANGED <<late, delayed>> \/ (late' = late \cup {req} /\ delayed' = TRUE)
  BY DEF Sent, Accepted, Conflict, Failed, wire
<1>3. faults' \in 0 .. MaxFaults
  <2>1. UNCHANGED faults \/ (faults < MaxFaults /\ faults' = faults + 1)
    BY DEF Sent, Accepted, Conflict, Failed, NoFault, Fault
  <2> QED
    BY <2>1, FaultsAssumption
<1>4. delayed' \in BOOLEAN /\ (~delayed' => ~delayed /\ late' = late)
  BY <1>2
<1>5. late' \subseteq late \cup {req}
  BY <1>2
<1> QED
  BY <1>1, <1>3, <1>4, <1>5

LEMMA CommitEffects ==
  ASSUME snaps \in Seq(Snapshot), NEW m, NEW b, m.refs[b] \in 0 .. Len(snaps), NEW F,
         NEW w \in Branches \cup {"none"},
         Granted(CommitToBranch(m, b, F, w)), Apply(CommitToBranch(m, b, F, w))
  PROVE  /\ refs[b] = m.refs[b]
         /\ refs' = [refs EXCEPT ![b] = Len(snaps) + 1]
         /\ Continues(snaps', snaps, m.refs[b], F, w)
<1> DEFINE req == CommitToBranch(m, b, F, w)
<1>1. /\ req.op = "commit" /\ req.branch = b /\ req.parent = m.refs[b]
      /\ req.files = F /\ req.wap = w
  BY DEF CommitToBranch
<1>2. refs[b] = m.refs[b]
  BY <1>1 DEF Granted
<1>3. AddSnapshot(NewContent(req), w) /\ refs' = [refs EXCEPT ![b] = Len(snaps) + 1]
  BY <1>1 DEF Apply
<1>4. PICK s : s = m.refs[b]
  OBVIOUS
<1>5. NewContent(req) = Plus(At(snaps, s), F)
  BY <1>1, <1>4, ContentAt DEF NewContent
<1>6. snaps' = Append(snaps, [files |-> Plus(At(snaps, s), F), wap |-> w])
  BY <1>3, <1>5 DEF AddSnapshot
<1>7. Continues(snaps', snaps, s, F, w)
  BY <1>4, <1>6, Extended
<1> QED
  BY <1>2, <1>3, <1>4, <1>7

-----------------------------------------------------------------------------
(* Who may be on main.                                                     *)

\* Snapshot s of the sequence sn holds data only of jobs in pub, and of the
\* job whose branch r is.
OnlyOf(sn, pub, s, r) ==
  /\ s \in 0 .. Len(sn)
  /\ s # Gone => \A k \in Jobs : sn[s].files[k] > 0 => k \in pub \/ k = r

\* A request in transit leads to no other snapshots on main and the branches.
RequestOk(sn, pub, req) ==
  /\ req.branch \in Jobs
  /\ req.op = "create"  => OnlyOf(sn, pub, req.head, Main)
  /\ req.op = "commit"  => /\ OnlyOf(sn, pub, req.parent, req.branch)
                           /\ req.files = {req.branch}
                           /\ req.wap \in Branches
  /\ req.op = "publish" => /\ OnlyOf(sn, pub, req.head, req.branch)
                           /\ req.branch \in pub

RefsOk(sn, pub, rs) ==
  rs \in [Refs -> Nat] /\ \A r \in Refs : OnlyOf(sn, pub, rs[r], r)

\* Everything that a request is or will be built from is audited.
Audited ==
  /\ snaps \in Seq(Snapshot)
  /\ RefsOk(snaps, published, refs)
  /\ DOMAIN meta = Jobs
  /\ \A j \in Jobs : RefsOk(snaps, published, meta[j].refs)
  /\ \A req \in late : RequestOk(snaps, published, req)

\* More snapshots and more published jobs do no harm.
LEMMA OnlyOfGrows ==
  ASSUME NEW sn \in Seq(Snapshot), NEW e \in Snapshot,
         NEW pub, NEW pub2, pub \subseteq pub2,
         NEW s, NEW r, OnlyOf(sn, pub, s, r)
  PROVE  /\ OnlyOf(sn, pub2, s, r)
         /\ OnlyOf(Append(sn, e), pub2, s, r)
<1>1. Len(Append(sn, e)) = Len(sn) + 1 /\ Len(sn) \in Nat
  OBVIOUS
<1>2. s # Gone => Append(sn, e)[s] = sn[s]
  BY <1>1 DEF OnlyOf, Gone
<1> QED
  BY <1>1, <1>2 DEF OnlyOf, Gone

\* ... to a request,
LEMMA RequestOkGrows ==
  ASSUME NEW sn \in Seq(Snapshot), NEW e \in Snapshot,
         NEW pub, NEW pub2, pub \subseteq pub2,
         NEW req, RequestOk(sn, pub, req)
  PROVE  /\ RequestOk(sn, pub2, req)
         /\ RequestOk(Append(sn, e), pub2, req)
  BY OnlyOfGrows DEF RequestOk

\* ... or to the branches.
LEMMA RefsOkGrows ==
  ASSUME NEW sn \in Seq(Snapshot), NEW e \in Snapshot,
         NEW pub, NEW pub2, pub \subseteq pub2,
         NEW rs, RefsOk(sn, pub, rs)
  PROVE  /\ RefsOk(sn, pub2, rs)
         /\ RefsOk(Append(sn, e), pub2, rs)
  BY OnlyOfGrows DEF RefsOk

\* A step adds at most one snapshot and unpublishes nothing.
Grows ==
  /\ snaps' = snaps \/ \E e \in Snapshot : snaps' = Append(snaps, e)
  /\ published \subseteq published'

\* Then whatever was audited remains so.
LEMMA GrowsKeeps ==
  ASSUME snaps \in Seq(Snapshot), Grows
  PROVE  /\ snaps' \in Seq(Snapshot)
         /\ \A rs : RefsOk(snaps, published, rs) => RefsOk(snaps', published', rs)
         /\ \A req : RequestOk(snaps, published, req)
                     => RequestOk(snaps', published', req)
         /\ \A req : RequestOk(snaps, published', req)
                     => RequestOk(snaps', published', req)
<1>1. CASE snaps' = snaps
  <2>1. PICK e \in {[files |-> Empty, wap |-> "none"]} : TRUE
    OBVIOUS
  <2>2. e \in Snapshot
    BY <2>1 DEF Snapshot, Empty
  <2> QED
    BY <1>1, <2>2, RefsOkGrows, RequestOkGrows DEF Grows
<1>2. CASE \E e \in Snapshot : snaps' = Append(snaps, e)
  <2>1. PICK e \in Snapshot : snaps' = Append(snaps, e)
    BY <1>2
  <2>2. snaps' \in Seq(Snapshot)
    BY <2>1, AppendProperties
  <2>3. \A rs : RefsOk(snaps, published, rs) => RefsOk(snaps', published', rs)
    BY <2>1, RefsOkGrows DEF Grows
  <2>4. \A req : RequestOk(snaps, published, req)
                => RequestOk(snaps', published', req)
    BY <2>1, RequestOkGrows DEF Grows
  <2>5. \A req : RequestOk(snaps, published', req)
                => RequestOk(snaps', published', req)
    BY <2>1, RequestOkGrows
  <2> QED
    BY <2>2, <2>3, <2>4, <2>5
<1> QED
  BY <1>1, <1>2 DEF Grows

\* A granted request of the jobs leaves main and the branches audited.
LEMMA ApplyKeeps ==
  ASSUME snaps \in Seq(Snapshot), RefsOk(snaps, published, refs),
         published \subseteq published',
         NEW req, RequestOk(snaps, published', req), Granted(req), Apply(req)
  PROVE  Grows /\ RefsOk(snaps', published', refs')
<1> USE JobsAssumption
<1>0. RefsOk(snaps, published', refs)
  <2>1. [files |-> Empty, wap |-> "none"] \in Snapshot
    BY DEF Snapshot, Empty
  <2> QED
    BY <2>1, RefsOkGrows
<1>1. CASE req.op = "create" /\ refs' = [refs EXCEPT ![req.branch] = req.head]
             /\ UNCHANGED snaps
  BY <1>0, <1>1, MainAssumption DEF Grows, RefsOk, RequestOk, OnlyOf, Refs
<1>2. CASE /\ req.op = "commit"
           /\ AddSnapshot(NewContent(req), req.wap)
           /\ refs' = [refs EXCEPT ![req.branch] = Len(snaps) + 1]
  <2> DEFINE e == [files |-> NewContent(req), wap |-> req.wap]
  <2>1. snaps' = Append(snaps, e)
    BY <1>2 DEF AddSnapshot
  <2>2. OnlyOf(snaps, published', req.parent, req.branch)
        /\ req.files = {req.branch} /\ req.branch \in Jobs /\ req.wap \in Branches
    BY <1>2 DEF RequestOk
  <2>3. e \in Snapshot /\ \A k \in Files : e.files[k] > 0
                               => Content(req.parent)[k] > 0 \/ k \in req.files
    <3>1. req.parent \in 0 .. Len(snaps) /\ req.wap \in Branches \cup {"none"}
      BY <2>2 DEF OnlyOf
    <3>2. /\ [files |-> Plus(Content(req.parent), req.files), wap |-> req.wap]
               \in Snapshot
          /\ \A k \in Files : Plus(Content(req.parent), req.files)[k] > 0
                => Content(req.parent)[k] > 0 \/ k \in req.files
      <4>1. Content(req.parent) = IF req.parent = Gone THEN Empty
                                  ELSE snaps[req.parent].files
        BY DEF Content, At
      <4> QED
        BY <3>1, <4>1, NewSnapshot
    <3>3. e.files = Plus(Content(req.parent), req.files) /\ e.wap = req.wap
      BY DEF NewContent
    <3> QED
      BY <3>2, <3>3 DEF NewContent
  <2>4. \A k \in Jobs : Content(req.parent)[k] > 0 => k \in published' \/ k = req.branch
    BY <2>2 DEF OnlyOf, Content, At, Empty
  <2>5. Len(snaps') = Len(snaps) + 1 /\ snaps'[Len(snaps) + 1] = e /\ Len(snaps) \in Nat
    BY <2>1, <2>3, AppendProperties
  <2>6. OnlyOf(snaps', published', Len(snaps) + 1, req.branch)
    BY <2>2, <2>3, <2>4, <2>5 DEF OnlyOf
  <2>7. Grows
    BY <2>1, <2>3 DEF Grows
  <2>8. RefsOk(snaps', published', refs)
    BY <2>7, GrowsKeeps
  <2> QED
    BY <1>2, <2>2, <2>5, <2>6, <2>7, <2>8 DEF RefsOk, Refs
<1>3. CASE /\ req.op = "publish"
           /\ refs' = [refs EXCEPT ![Main] = req.head, ![req.branch] = Gone]
           /\ UNCHANGED snaps
  BY <1>0, <1>3, MainAssumption DEF Grows, RefsOk, RequestOk, OnlyOf, Refs, Gone
<1>4. CASE req.op = "delete" /\ refs' = [refs EXCEPT ![req.branch] = Gone]
             /\ UNCHANGED snaps
  <2>1. OnlyOf(snaps, published', Gone, req.branch)
    BY DEF OnlyOf, Gone
  <2> QED
    BY <1>0, <1>4, <2>1 DEF Grows, RefsOk, Refs, Gone
<1> QED
  BY <1>1, <1>2, <1>3, <1>4 DEF Apply

\* Whatever becomes of a request of the jobs, main and the branches stay
\* audited, and at most this request is left in transit.
LEMMA SendKeeps ==
  ASSUME snaps \in Seq(Snapshot), RefsOk(snaps, published, refs),
         published \subseteq published',
         NEW req, RequestOk(snaps, published', req),
         Accepted(req) \/ Conflict(req) \/ Failed(req)
  PROVE  Grows /\ RefsOk(snaps', published', refs') /\ late' \subseteq late \cup {req}
<1>1. CASE Granted(req) /\ Apply(req)
  BY <1>1, ApplyKeeps DEF Accepted, Conflict, Failed, wire
<1>2. CASE UNCHANGED table
  <2>1. Grows
    BY <1>2 DEF Grows, table
  <2>2. RefsOk(snaps', published', refs)
    BY <2>1, GrowsKeeps
  <2> QED
    BY <1>2, <2>1, <2>2 DEF Accepted, Conflict, Failed, table, wire
<1> QED
  BY <1>1, <1>2 DEF Accepted, Conflict, Failed, wire

\* A step keeps everything audited when it sends only good requests and
\* transactions reload what the catalog has.
LEMMA StepKeeps ==
  ASSUME Audited, Grows, RefsOk(snaps', published', refs'),
         \A req \in late' : req \in late \/ RequestOk(snaps, published', req),
         DOMAIN meta' = Jobs,
         \A j \in Jobs : meta'[j].refs \in {meta[j].refs, refs}
  PROVE  Audited'
<1>1. \A j \in Jobs : RefsOk(snaps', published', meta'[j].refs)
  BY GrowsKeeps DEF Audited
<1>2. \A req \in late' : RequestOk(snaps', published', req)
  BY GrowsKeeps DEF Audited
<1>3. snaps' \in Seq(Snapshot)
  BY GrowsKeeps DEF Audited
<1> QED
  BY <1>1, <1>2, <1>3 DEF Audited

\* The first state has nothing to audit.
LEMMA InitAudited == Init => Audited
<1> SUFFICES ASSUME Init PROVE Audited
  OBVIOUS
<1>1. snaps \in Seq(Snapshot) /\ Len(snaps) = 0 /\ late = {}
  BY DEF Init, InitTable
<1>2. RefsOk(snaps, published, refs)
  BY <1>1 DEF Init, InitTable, RefsOk, OnlyOf, Gone
<1> QED
  BY <1>1, <1>2 DEF Audited, Init, Metadata

\* Each request is built from audited metadata.
LEMMA RequestsOk ==
  ASSUME Audited, NEW j \in Jobs
  PROVE  /\ RequestOk(snaps, published, CreateBranch(meta[j], j))
         /\ RequestOk(snaps, published, DeleteBranch(j))
         /\ RequestOk(snaps, published, CommitToBranch(meta[j], j, {j}, j))
         /\ RequestOk(snaps, published \cup {j}, PublishBranch(meta[j], j))
<1>1. RefsOk(snaps, published, meta[j].refs) /\ j \in Refs /\ Main \in Refs
  BY JobsAssumption DEF Audited, Refs
<1>2. OnlyOf(snaps, published, meta[j].refs[j], j)
  BY <1>1 DEF RefsOk
<1>3. OnlyOf(snaps, published, meta[j].refs[Main], Main)
  BY <1>1 DEF RefsOk
<1>4. OnlyOf(snaps, published \cup {j}, meta[j].refs[j], j)
  BY <1>2 DEF OnlyOf
<1> QED
  BY <1>2, <1>3, <1>4, JobsAssumption
     DEF RequestOk, CreateBranch, DeleteBranch, CommitToBranch, PublishBranch

\* One more reload keeps the shape of the copies.
LEMMA ReloadMeta ==
  ASSUME Audited, NEW j \in Jobs, Reload(j)
  PROVE  DOMAIN meta' = Jobs /\ \A k \in Jobs : meta'[k].refs \in {meta[k].refs, refs}
  BY DEF Reload, Metadata, Audited

\* A step that leaves the table, the copies and the publications alone.
LEMMA QuietKeeps ==
  ASSUME Audited, UNCHANGED <<snaps, refs, late, meta, published>>
  PROVE  Audited'
  BY DEF Audited

\* Every step of a job, a writer of main, or a late request keeps main and
\* the branches audited.
LEMMA AuditedStep == Audited /\ [Next]_vars => Audited'
<1> SUFFICES ASSUME Audited, [Next]_vars PROVE Audited'
  OBVIOUS
<1> USE DEF table, wire, tableVars, locals
<1>0. snaps \in Seq(Snapshot) /\ RefsOk(snaps, published, refs)
      /\ DOMAIN meta = Jobs
  BY DEF Audited
<1>1. ASSUME NEW j \in Jobs, Begin(j) PROVE Audited'
  <2>1. Grows /\ UNCHANGED <<snaps, refs, late, published>>
    BY <1>1 DEF Begin, LoadFails, Grows
  <2>2. CASE Reload(j)
    BY <1>0, <2>1, <2>2, ReloadMeta, StepKeeps
  <2>3. CASE UNCHANGED meta
    BY <2>1, <2>3, QuietKeeps
  <2> QED
    BY <1>1, <2>2, <2>3 DEF Begin, LoadFails
<1>2. ASSUME NEW j \in Jobs, Delete(j) PROVE Audited'
  <2>1. UNCHANGED <<meta, published>>
        /\ (Accepted(DeleteBranch(j)) \/ Failed(DeleteBranch(j)))
    BY <1>2 DEF Delete
  <2>2. RequestOk(snaps, published', DeleteBranch(j))
    BY <2>1, RequestsOk
  <2> QED
    BY <1>0, <2>1, <2>2, SendKeeps, StepKeeps
<1>3. ASSUME NEW j \in Jobs, Recreate(j) PROVE Audited'
  <2>1. Grows /\ UNCHANGED <<snaps, refs, late, published>>
    BY <1>3 DEF Recreate, LoadFails, Grows
  <2>2. CASE Reload(j)
    BY <1>0, <2>1, <2>2, ReloadMeta, StepKeeps
  <2>3. CASE UNCHANGED meta
    BY <2>1, <2>3, QuietKeeps
  <2> QED
    BY <1>3, <2>2, <2>3 DEF Recreate, LoadFails
<1>4. ASSUME NEW j \in Jobs, Create(j) PROVE Audited'
  <2> DEFINE req == CreateBranch(meta[j], j)
  <2>1. UNCHANGED <<meta, published>>
    BY <1>4 DEF Create
  <2>2. CASE UNCHANGED tableVars
    BY <2>1, <2>2, QuietKeeps
  <2>3. CASE Accepted(req) \/ Conflict(req) \/ Failed(req)
    <3>1. RequestOk(snaps, published', req)
      BY <2>1, RequestsOk
    <3> QED
      BY <1>0, <2>1, <2>3, <3>1, SendKeeps, StepKeeps
  <2> QED
    BY <1>4, <2>2, <2>3 DEF Create
<1>5. ASSUME NEW j \in Jobs, Write(j) PROVE Audited'
  <2>1. Grows /\ UNCHANGED <<snaps, refs, late, published>>
    BY <1>5 DEF Write, Grows
  <2>2. CASE Reload(j)
    BY <1>0, <2>1, <2>2, ReloadMeta, StepKeeps
  <2>3. CASE UNCHANGED meta
    BY <2>1, <2>3, QuietKeeps
  <2> QED
    BY <1>5, <2>2, <2>3 DEF Write
<1>6. ASSUME NEW j \in Jobs, CommitBranch(j) PROVE Audited'
  <2> DEFINE req == CommitToBranch(meta[j], j, {j}, j)
  <2>1. UNCHANGED <<meta, published>>
        /\ (Accepted(req) \/ Conflict(req) \/ Failed(req))
    BY <1>6 DEF CommitBranch
  <2>2. RequestOk(snaps, published', req)
    BY <2>1, RequestsOk
  <2> QED
    BY <1>0, <2>1, <2>2, SendKeeps, StepKeeps
<1>7. ASSUME NEW j \in Jobs, PublishLoad(j) PROVE Audited'
  <2>1. Grows /\ UNCHANGED <<snaps, refs, late, published>>
    BY <1>7 DEF PublishLoad, LoadFails, Grows
  <2>2. CASE Reload(j)
    BY <1>0, <2>1, <2>2, ReloadMeta, StepKeeps
  <2>3. CASE UNCHANGED meta
    BY <2>1, <2>3, QuietKeeps
  <2> QED
    BY <1>7, <2>2, <2>3 DEF PublishLoad, LoadFails
<1>8. ASSUME NEW j \in Jobs, Publish(j) PROVE Audited'
  <2> DEFINE req == PublishBranch(meta[j], j)
  <2>1. UNCHANGED meta /\ published' = published \cup {j}
        /\ (Accepted(req) \/ Conflict(req) \/ Failed(req))
    BY <1>8 DEF Publish
  <2>2. RequestOk(snaps, published', req)
    BY <2>1, RequestsOk
  <2>3. published \subseteq published'
    BY <2>1
  <2> QED
    BY <1>0, <2>1, <2>2, <2>3, SendKeeps, StepKeeps
<1>9. ASSUME NEW j \in Jobs, Finish(j) \/ Crash(j) PROVE Audited'
  BY <1>9, QuietKeeps DEF Finish, Crash
<1>10. ASSUME NEW f \in Others, OtherWriter(f) PROVE Audited'
  <2> DEFINE e == [files |-> Plus(OnMain, {f}), wap |-> "none"]
  <2>1. UNCHANGED <<meta, published, late>>
        /\ snaps' = Append(snaps, e)
        /\ refs' = [refs EXCEPT ![Main] = Len(snaps) + 1]
    BY <1>10 DEF OtherWriter, AppendToMain, AddSnapshot
  <2>2. OnlyOf(snaps, published, refs[Main], Main)
    BY <1>0 DEF RefsOk, Refs
  <2>3. OnMain = IF refs[Main] = Gone THEN Empty ELSE snaps[refs[Main]].files
    BY DEF OnMain, Content, At
  <2>4. e \in Snapshot
        /\ \A k \in Files : Plus(OnMain, {f})[k] > 0 => OnMain[k] > 0 \/ k = f
    BY <1>0, <2>2, <2>3, NewSnapshot DEF OnlyOf
  <2>5. Len(snaps') = Len(snaps) + 1 /\ snaps'[Len(snaps) + 1] = e /\ Len(snaps) \in Nat
    BY <1>0, <2>1, <2>4, AppendProperties
  <2>6. \A k \in Jobs : OnMain[k] > 0 => k \in published \/ k = Main
    BY <2>2, <2>3, JobsAssumption DEF OnlyOf, Empty
  <2>7. OnlyOf(snaps', published', Len(snaps) + 1, Main)
    <3>1. snaps'[Len(snaps) + 1].files = Plus(OnMain, {f})
      BY <2>5
    <3>2. \A k \in Jobs : Plus(OnMain, {f})[k] > 0 => k \in published \/ k = Main
      BY <2>4, <2>6, JobsAssumption
    <3>3. Len(snaps) + 1 \in 0 .. Len(snaps') /\ published' = published
      BY <2>1, <2>5
    <3> HIDE DEF e
    <3> QED
      BY <3>1, <3>2, <3>3 DEF OnlyOf
  <2>8. Grows
    BY <2>1, <2>4 DEF Grows
  <2>9. RefsOk(snaps', published', refs)
    BY <1>0, <2>8, GrowsKeeps
  <2>10. RefsOk(snaps', published', refs')
    BY <2>1, <2>5, <2>7, <2>9 DEF RefsOk, Refs
  <2> QED
    BY <1>0, <2>1, <2>8, <2>10, StepKeeps
<1>11. CASE Arrive /\ UNCHANGED locals
  <2>1. PICK req \in late : /\ late' = late \ {req}
                            /\ IF Granted(req) THEN Apply(req) ELSE UNCHANGED table
    BY <1>11 DEF Arrive
  <2>2. RequestOk(snaps, published', req) /\ UNCHANGED <<meta, published>>
    BY <1>11 DEF Audited
  <2>3. CASE Granted(req)
    BY <1>0, <2>1, <2>2, <2>3, ApplyKeeps, StepKeeps
  <2>4. CASE ~Granted(req)
    BY <1>0, <2>1, <2>2, <2>4, StepKeeps DEF Grows
  <2> QED
    BY <2>3, <2>4
<1>12. CASE UNCHANGED vars
  BY <1>12, QuietKeeps DEF vars
<1> QED
  BY <1>1, <1>2, <1>3, <1>4, <1>5, <1>6, <1>7, <1>8, <1>9, <1>10, <1>11, <1>12
     DEF Next, Advance

\* Main, the branches, the transactions' copies of the metadata and the
\* requests in transit hold a job's data only on its own branch, until the
\* job publishes.
THEOREM AlwaysAudited == Spec => []Audited
  BY InitAudited, AuditedStep, PTL DEF Spec

\* Readers of main see nothing of a job that has not called publish: for any
\* number of jobs and writers, and any crashes, lost replies and late
\* requests.
THEOREM NothingEarly == Spec => []HiddenUntilPublish
<1>1. Audited => HiddenUntilPublish
  <2> SUFFICES ASSUME Audited, NEW j \in Jobs, OnMain[j] > 0
               PROVE  j \in published
    BY DEF HiddenUntilPublish
  <2>1. OnlyOf(snaps, published, refs[Main], Main)
    BY DEF Audited, RefsOk, Refs
  <2> QED
    BY <2>1, JobsAssumption, MainAssumption DEF OnlyOf, OnMain, Content, At, Empty
<1> QED
  BY <1>1, AlwaysAudited, PTL
-----------------------------------------------------------------------------
(* What resumed transactions do while no request arrives late.             *)

\* The wap.id of a job is found wherever its data is ...
Known(sn) == \A s \in 1 .. Len(sn), k \in Jobs : sn[s].files[k] > 0 => Has(sn, k)

\* ... and no snapshot has it twice.
Single(sn) == \A s \in 1 .. Len(sn), k \in Jobs : sn[s].files[k] <= 1

\* What a job's place in begin, write and publish says of the table.
Resumes(j) ==
  /\ pc[j] \in {"delete", "recreate", "create", "writer", "commit"}
       => ~Has(snaps, j)
  /\ pc[j] \in {"publisher", "publish"} => j \in EmptyJobs \/ Has(snaps, j)
  /\ pc[j] = "publish" => meta[j].refs[j] = refs[j]
  /\ pc[j] = "complete" => j \in err \/ (Has(snaps, j) /\ refs[j] = Gone)
  /\ pc[j] = "done" => /\ refs[j] = Gone /\ j \notin err
                       /\ j \in EmptyJobs \/ Has(snaps, j)
  /\ pc[j] = "idle" => j \in err \/ refs[j] = Gone
  /\ Has(snaps, j) /\ refs[j] # Gone => At(snaps, refs[j])[j] >= 1

\* A branch continues main, as long as main has not moved under it.
Ahead(j) ==
  /\ refs[j] # Gone
       => \A f \in Files : At(snaps, refs[Main])[f] <= At(snaps, refs[j])[f]
  /\ pc[j] = "create" => meta[j].refs[Main] = refs[Main]
  /\ pc[j] \in {"writer", "commit"} => refs[j] # Gone \/ refs[Main] = Gone
  /\ Has(snaps, j) => refs[j] # Gone \/ At(snaps, refs[Main])[j] >= 1

Orderly ==
  /\ late = {}
  /\ Known(snaps) /\ Single(snaps)
  /\ \A j \in Jobs : Resumes(j)

Resumable ==
  /\ ~delayed => Orderly
  /\ ~delayed /\ ~overlapped => \A j \in Jobs : Ahead(j)

\* The part of TypeOK that Audited does not say.
LocalTypes ==
  /\ faults \in 0 .. MaxFaults /\ delayed \in BOOLEAN
  /\ pc \in [Jobs -> Steps]
  /\ \A j \in Jobs : meta[j].refs \in [Refs -> 0 .. meta[j].last]
  /\ \A j \in Jobs : pc[j] = "publish" => meta[j].refs[j] # Gone
  /\ err \subseteq Jobs /\ appended \subseteq Others
  /\ published \subseteq Jobs /\ overlapped \in BOOLEAN

WInv == Audited /\ LocalTypes /\ Resumable

LEMMA TypesTogether == Audited /\ LocalTypes => TypeOK
<1> SUFFICES ASSUME Audited, LocalTypes PROVE TypeOK
  OBVIOUS
<1>1. refs \in [Refs -> 0 .. Len(snaps)]
  BY DEF Audited, RefsOk, OnlyOf
<1>2. \A req \in late : req.branch \in Branches
  BY JobsAssumption DEF Audited, RequestOk
<1>3. TableType
  BY <1>1, <1>2 DEF Audited, LocalTypes, TableType, Snapshot
<1> QED
  BY <1>3 DEF LocalTypes, TypeOK

\* It has the data of at most the job whose wap.id is new.
LEMMA ExtendedKeeps ==
  ASSUME NEW sn \in Seq(Snapshot), NEW s \in 0 .. Len(sn), NEW F, NEW w,
         NEW t, Continues(t, sn, s, F, w),
         Known(sn), Single(sn),
         \A k \in Jobs : k \in F => k = w /\ ~Has(sn, k)
  PROVE  Known(t) /\ Single(t)
<1> USE JobsAssumption
<1>1. /\ t \in Seq(Snapshot) /\ Len(sn) \in Nat /\ Len(t) = Len(sn) + 1
      /\ \A r \in 0 .. Len(sn) : At(t, r) = At(sn, r)
      /\ At(t, Len(sn) + 1) = Plus(At(sn, s), F)
      /\ \A k : Has(t, k) <=> Has(sn, k) \/ k = w
      /\ At(sn, s) \in [Files -> Nat]
  BY AtType DEF Continues
<1>2. \A r \in 1 .. Len(sn) : r # Gone /\ r \in 0 .. Len(sn)
  BY <1>1 DEF Gone
<1>3. \A r \in 1 .. Len(sn) : t[r].files = sn[r].files
  BY <1>1, <1>2 DEF At
<1>4. t[Len(sn) + 1].files = Plus(At(sn, s), F)
  <2>1. Len(sn) + 1 # Gone
    BY <1>1 DEF Gone
  <2> QED
    BY <1>1, <2>1 DEF At
<1>5. \A k \in Jobs : At(sn, s)[k] <= 1 /\ (At(sn, s)[k] > 0 => Has(sn, k))
  <2>1. CASE s = Gone
    BY <2>1 DEF At, Empty
  <2>2. CASE s # Gone
    <3>1. s \in 1 .. Len(sn)
      BY <2>2 DEF Gone
    <3> QED
      BY <2>2, <3>1 DEF At, Known, Single
  <2> QED
    BY <2>1, <2>2
<1>6. \A k \in Jobs : /\ Plus(At(sn, s), F)[k] <= 1
                      /\ Plus(At(sn, s), F)[k] > 0 => Has(t, k)
  <2> SUFFICES ASSUME NEW k \in Jobs
               PROVE  /\ Plus(At(sn, s), F)[k] <= 1
                      /\ Plus(At(sn, s), F)[k] > 0 => Has(t, k)
    OBVIOUS
  <2>1. k \in Files /\ At(sn, s)[k] \in Nat
    BY <1>1
  <2>2. CASE k \in F
    <3>1. At(sn, s)[k] = 0 /\ Has(t, k)
      BY <1>1, <1>5, <2>1, <2>2
    <3> QED
      BY <2>1, <2>2, <3>1 DEF Plus
  <2>3. CASE k \notin F
    <3>1. Plus(At(sn, s), F)[k] = At(sn, s)[k]
      BY <2>1, <2>3 DEF Plus
    <3> QED
      BY <1>1, <1>5, <3>1
  <2> QED
    BY <2>2, <2>3
<1>7. 1 .. Len(t) = 1 .. Len(sn) \cup {Len(sn) + 1}
  BY <1>1
<1>8. Known(t)
  BY <1>1, <1>3, <1>4, <1>6, <1>7 DEF Known
<1>9. Single(t)
  BY <1>3, <1>4, <1>6, <1>7 DEF Single
<1> QED
  BY <1>8, <1>9

LEMMA SentTypes ==
  ASSUME LocalTypes, NEW req, Sent(req)
  PROVE  /\ faults' \in 0 .. MaxFaults /\ delayed' \in BOOLEAN
         /\ UNCHANGED table \/ (Granted(req) /\ Apply(req))
         /\ ~delayed' => ~delayed /\ late' = late
  BY SentEffect DEF LocalTypes

\* A step of job j to a place it may be in, to "publish" only with a branch.
Proper(j, step) ==
  /\ step \in Steps /\ Goto(j, step)
  /\ faults' \in 0 .. MaxFaults /\ delayed' \in BOOLEAN
  /\ UNCHANGED meta \/ Reload(j)
  /\ step = "publish" => meta'[j].refs[j] # Gone
  /\ Ok(j) \/ Err(j) \/ UNCHANGED err
  /\ UNCHANGED appended /\ published' \subseteq Jobs /\ overlapped' \in BOOLEAN

\* It keeps the types.
LEMMA JobTypes ==
  ASSUME Audited, LocalTypes, NEW j \in Jobs, NEW step, Proper(j, step)
  PROVE  LocalTypes'
<1> USE DEF Proper
<1>1. pc' \in [Jobs -> Steps] /\ pc' = [pc EXCEPT ![j] = step]
  BY DEF LocalTypes, Goto
<1>2. err' \subseteq Jobs
  BY DEF LocalTypes, Ok, Err
<1>3. \A k \in Jobs : meta'[k].refs \in [Refs -> 0 .. meta'[k].last]
  <2>1. CASE UNCHANGED meta
    BY <2>1 DEF LocalTypes
  <2>2. CASE Reload(j)
    <3>1. refs \in [Refs -> 0 .. Len(snaps)]
      BY DEF Audited, RefsOk, OnlyOf
    <3> QED
      BY <2>2, <3>1 DEF LocalTypes, Reload, Metadata, Audited
  <2> QED
    BY <2>1, <2>2
<1>4. \A k \in Jobs : pc'[k] = "publish" => meta'[k].refs[k] # Gone
  <2> TAKE k \in Jobs
  <2>1. CASE k = j
    BY <1>1, <2>1 DEF LocalTypes
  <2>2. CASE k # j
    <3>1. meta'[k] = meta[k]
      BY <2>2 DEF Reload, Audited
    <3> QED
      BY <1>1, <2>2, <3>1 DEF LocalTypes
  <2> QED
    BY <2>1, <2>2
<1> QED
  BY <1>1, <1>2, <1>3, <1>4 DEF LocalTypes

\* A reload that fails is one.
LEMMA LoadTypes ==
  ASSUME LocalTypes, NEW j \in Jobs, LoadFails(j)
  PROVE  /\ Goto(j, "idle") /\ Err(j) /\ UNCHANGED <<table, wire, meta>>
         /\ faults' \in 0 .. MaxFaults /\ delayed' \in BOOLEAN
  BY FaultsAssumption DEF LoadFails, Fault, LocalTypes, wire

\* So is every step of a job.
LEMMA JobStep ==
  ASSUME WInv, NEW j \in Jobs, Advance(j) \/ Crash(j)
  PROVE  \E step : Proper(j, step)
<1> USE DEF WInv, Proper
<1>00. /\ faults \in 0 .. MaxFaults /\ delayed \in BOOLEAN
       /\ published \subseteq Jobs /\ overlapped \in BOOLEAN
  BY DEF LocalTypes
<1>l. ASSUME LoadFails(j), UNCHANGED <<appended, published, overlapped>>
      PROVE  Proper(j, "idle")
  BY <1>00, <1>l, LoadTypes DEF Steps
<1>1. CASE Begin(j)
  <2>1. CASE LoadFails(j)
    BY <1>1, <1>l, <2>1 DEF Begin
  <2>2. CASE Reload(j) /\ Goto(j, Detect(HasWapId(j), refs[j] # Gone)) /\ Ok(j)
             /\ UNCHANGED tableVars
    <3> DEFINE step == Detect(HasWapId(j), refs[j] # Gone)
    <3>1. step \in Steps /\ step # "publish"
      BY DEF Detect, Steps
    <3>2. faults' \in 0 .. MaxFaults /\ delayed' \in BOOLEAN
      BY <1>00, <2>2 DEF tableVars, wire
    <3>3. Goto(j, step)
      BY <2>2
    <3> HIDE DEF step
    <3> QED
      BY <1>00, <1>1, <2>2, <3>1, <3>2, <3>3 DEF Begin
  <2> QED
    BY <1>1, <2>1, <2>2 DEF Begin
<1>2. CASE Delete(j)
  <2>1. Sent(DeleteBranch(j)) /\ UNCHANGED <<meta, appended, published, overlapped>>
    BY <1>2 DEF Delete, Sent
  <2>2. faults' \in 0 .. MaxFaults /\ delayed' \in BOOLEAN
    BY <2>1, SentTypes
  <2>3. PICK step \in {"recreate", "idle"} : Goto(j, step) /\ (Ok(j) \/ Err(j))
    BY <1>2 DEF Delete
  <2>4. step \in Steps /\ step # "publish"
    BY DEF Steps
  <2> QED
    BY <1>00, <2>1, <2>2, <2>3, <2>4
<1>3. CASE Recreate(j)
  <2>1. CASE LoadFails(j)
    BY <1>3, <1>l, <2>1 DEF Recreate
  <2>2. CASE Reload(j) /\ Goto(j, "create") /\ UNCHANGED <<tableVars, err>>
    <3>1. PICK step \in {"create"} : Goto(j, step)
      BY <2>2
    <3>2. step \in Steps /\ step # "publish"
      BY DEF Steps
    <3>3. faults' \in 0 .. MaxFaults /\ delayed' \in BOOLEAN
      BY <1>00, <2>2 DEF tableVars, wire
    <3> QED
      BY <1>00, <1>3, <2>2, <3>1, <3>2, <3>3 DEF Recreate
  <2> QED
    BY <1>3, <2>1, <2>2 DEF Recreate
<1>4. CASE Create(j)
  <2>1. UNCHANGED tableVars \/ Sent(CreateBranch(meta[j], j))
    BY <1>4 DEF Create, Sent
  <2>2. faults' \in 0 .. MaxFaults /\ delayed' \in BOOLEAN
    BY <1>00, <2>1, SentTypes DEF tableVars, wire
  <2>3. PICK step \in {"writer", "idle"} : Goto(j, step) /\ (Ok(j) \/ Err(j))
    BY <1>4 DEF Create
  <2>4. step \in Steps /\ step # "publish"
    BY DEF Steps
  <2> QED
    BY <1>00, <1>4, <2>2, <2>3, <2>4 DEF Create
<1>5. CASE Write(j)
  <2>1. faults' \in 0 .. MaxFaults /\ delayed' \in BOOLEAN
    BY <1>5, <1>00, FaultsAssumption DEF Write, Fault, tableVars, wire
  <2>2. PICK step \in {"publisher", "commit", "complete"} :
          Goto(j, step) /\ (Ok(j) \/ Err(j) \/ UNCHANGED err)
    BY <1>5 DEF Write
  <2>3. step \in Steps /\ step # "publish"
    BY DEF Steps
  <2>4. UNCHANGED meta \/ Reload(j)
    BY <1>5 DEF Write
  <2> QED
    BY <1>00, <1>5, <2>1, <2>2, <2>3, <2>4 DEF Write
<1>6. CASE CommitBranch(j)
  <2>1. Sent(CommitToBranch(meta[j], j, {j}, j))
    BY <1>6 DEF CommitBranch, Sent
  <2>2. faults' \in 0 .. MaxFaults /\ delayed' \in BOOLEAN
    BY <2>1, SentTypes
  <2>3. PICK step \in {"publisher", "complete"} : Goto(j, step) /\ (Ok(j) \/ Err(j))
    BY <1>6 DEF CommitBranch
  <2>4. step \in Steps /\ step # "publish"
    BY DEF Steps
  <2> QED
    BY <1>00, <1>6, <2>2, <2>3, <2>4 DEF CommitBranch
<1>7. CASE PublishLoad(j)
  <2>1. CASE LoadFails(j)
    BY <1>7, <1>l, <2>1 DEF PublishLoad
  <2>2. CASE /\ Reload(j)
             /\ IF BranchExists(j) THEN Goto(j, "publish") /\ Ok(j)
                                   ELSE Goto(j, "idle") /\ Err(j)
             /\ UNCHANGED tableVars
    <3>1. PICK step \in {"publish", "idle"} :
            Goto(j, step) /\ (Ok(j) \/ Err(j)) /\ (step = "publish" => refs[j] # Gone)
      BY <2>2 DEF BranchExists
    <3>2. step \in Steps
      BY DEF Steps
    <3>3. faults' \in 0 .. MaxFaults /\ delayed' \in BOOLEAN
      BY <1>00, <2>2 DEF tableVars, wire
    <3>4. meta'[j].refs = refs
      BY <2>2 DEF Reload, Metadata, Audited
    <3> QED
      BY <1>00, <1>7, <2>2, <3>1, <3>2, <3>3, <3>4 DEF PublishLoad
  <2> QED
    BY <1>7, <2>1, <2>2 DEF PublishLoad
<1>8. CASE Publish(j)
  <2>1. Sent(PublishBranch(meta[j], j)) /\ MainMoves(j)
    BY <1>8 DEF Publish, Sent
  <2>2. faults' \in 0 .. MaxFaults /\ delayed' \in BOOLEAN
    BY <2>1, SentTypes
  <2>3. PICK step \in {"done", "idle"} : Goto(j, step) /\ (Ok(j) \/ Err(j))
    BY <1>8 DEF Publish
  <2>4. step \in Steps /\ step # "publish"
    BY DEF Steps
  <2>5. overlapped' \in BOOLEAN
    BY <2>1, <1>00 DEF MainMoves
  <2>6. UNCHANGED <<meta, appended>> /\ published' \subseteq Jobs
    BY <1>8, <1>00 DEF Publish
  <2> QED
    BY <2>2, <2>3, <2>4, <2>5, <2>6
<1>9. CASE Finish(j)
  <2>1. PICK step \in {"done", "idle"} : Goto(j, step)
    BY <1>9 DEF Finish
  <2>2. step \in Steps /\ step # "publish"
    BY DEF Steps
  <2>3. faults' \in 0 .. MaxFaults /\ delayed' \in BOOLEAN
    BY <1>00, <1>9 DEF Finish, tableVars, wire
  <2> QED
    BY <1>00, <1>9, <2>1, <2>2, <2>3 DEF Finish
<1>10. CASE Crash(j)
  <2>1. PICK step \in {"idle"} : Goto(j, step)
    BY <1>10 DEF Crash
  <2>2. step \in Steps /\ step # "publish"
    BY DEF Steps
  <2>3. faults' \in 0 .. MaxFaults /\ delayed' \in BOOLEAN
    BY <1>00, <1>10, FaultsAssumption DEF Crash, Fault, wire
  <2> QED
    BY <1>00, <1>10, <2>1, <2>2, <2>3 DEF Crash
<1> QED
  BY <1>1, <1>2, <1>3, <1>4, <1>5, <1>6, <1>7, <1>8, <1>9, <1>10 DEF Advance

\* Every variable keeps its type.
LEMMA TypesStep == WInv /\ [Next]_vars => LocalTypes'
<1> SUFFICES ASSUME WInv, [Next]_vars PROVE LocalTypes'
  OBVIOUS
<1>1. ASSUME NEW j \in Jobs, Advance(j) \/ Crash(j) PROVE LocalTypes'
  BY <1>1, JobStep, JobTypes DEF WInv
<1>2. ASSUME NEW f \in Others, OtherWriter(f) PROVE LocalTypes'
  <2>1. UNCHANGED <<pc, meta, err, published, delayed, faults>>
        /\ appended' = appended \cup {f} /\ MainMoves(f)
    BY <1>2 DEF OtherWriter, AppendToMain, wire
  <2>2. overlapped' \in BOOLEAN
    BY <2>1 DEF MainMoves, WInv, LocalTypes
  <2> QED
    BY <2>1, <2>2 DEF WInv, LocalTypes
<1>3. CASE Arrive /\ UNCHANGED locals
  BY <1>3 DEF Arrive, locals, WInv, LocalTypes
<1>4. CASE UNCHANGED vars
  BY <1>4 DEF vars, locals, tableVars, table, wire, WInv, LocalTypes
<1> QED
  BY <1>1, <1>2, <1>3, <1>4 DEF Next

\* What a step of another writer leaves to job k.
Away(k) ==
  /\ pc'[k] = pc[k] /\ meta'[k] = meta[k] /\ (k \in err' <=> k \in err)
  /\ refs'[k] = refs[k]
  /\ Has(snaps', k) <=> Has(snaps, k)
  /\ At(snaps', refs'[k]) = At(snaps, refs[k])

\* The table changes as w may change it: its own branch, and main.
Touches(w) ==
  /\ \A k \in Jobs : k # w => refs'[k] = refs[k]
  /\ \/ snaps' = snaps
     \/ \E s, F, x : Continues(snaps', snaps, s, F, x) /\ (x = w \/ x \notin Jobs)

LEMMA TouchesAway ==
  ASSUME Audited, NEW w, Touches(w), NEW k \in Jobs, k # w,
         pc'[k] = pc[k], meta'[k] = meta[k], k \in err' <=> k \in err
  PROVE  Away(k)
<1>1. refs'[k] = refs[k] /\ refs[k] \in 0 .. Len(snaps)
  BY JobsAssumption DEF Touches, Audited, RefsOk, OnlyOf, Refs
<1>2. (Has(snaps', k) <=> Has(snaps, k)) /\ At(snaps', refs[k]) = At(snaps, refs[k])
  BY <1>1 DEF Touches, Continues
<1> QED
  BY <1>1, <1>2 DEF Away

LEMMA JobAway ==
  ASSUME WInv, NEW j \in Jobs, NEW step, Proper(j, step), Touches(j),
         NEW k \in Jobs, k # j
  PROVE  Away(k)
<1>1. pc'[k] = pc[k]
  BY DEF WInv, LocalTypes, Proper, Goto
<1>2. meta'[k] = meta[k]
  BY DEF WInv, Audited, Proper, Reload
<1>3. k \in err' <=> k \in err
  BY DEF Proper, Ok, Err
<1> QED
  BY <1>1, <1>2, <1>3, TouchesAway DEF WInv

LEMMA AwayResumes ==
  ASSUME NEW k \in Jobs, Resumes(k), Away(k)
  PROVE  Resumes(k)'
  BY DEF Resumes, Away

\* main stays as it is, or it grows while no other job is at work.
MainSteady(w) ==
  \/ refs'[Main] = refs[Main] /\ At(snaps', refs'[Main]) = At(snaps, refs[Main])
  \/ /\ Active \ {w} = {}
     /\ \A f \in Files : At(snaps, refs[Main])[f] <= At(snaps', refs'[Main])[f]

LEMMA AwayAhead ==
  ASSUME WInv, NEW w, NEW k \in Jobs, k # w, Resumes(k), Ahead(k), Away(k),
         MainSteady(w), At(snaps', refs'[Main]) \in [Files -> Nat]
  PROVE  Ahead(k)'
<1>1. CASE refs'[Main] = refs[Main] /\ At(snaps', refs'[Main]) = At(snaps, refs[Main])
  BY <1>1 DEF Ahead, Away
<1>2. CASE /\ Active \ {w} = {}
           /\ \A f \in Files : At(snaps, refs[Main])[f] <= At(snaps', refs'[Main])[f]
  <2>1. pc[k] \in {"idle", "done"} /\ k \notin err
    BY <1>2 DEF Active
  <2>2. refs[k] = Gone /\ refs'[k] = Gone /\ pc'[k] \in {"idle", "done"}
    BY <2>1 DEF Resumes, Away
  <2>3. Has(snaps', k) => At(snaps', refs'[Main])[k] >= 1
    <3>1. SUFFICES ASSUME Has(snaps', k) PROVE At(snaps', refs'[Main])[k] >= 1
      OBVIOUS
    <3>2. At(snaps, refs[Main])[k] >= 1
      BY <2>2, <3>1 DEF Ahead, Away
    <3>3. refs[Main] \in 0 .. Len(snaps) /\ snaps \in Seq(Snapshot) /\ k \in Files
      BY JobsAssumption DEF WInv, Audited, RefsOk, OnlyOf, Refs
    <3>4. At(snaps, refs[Main])[k] \in Nat
      BY <3>3, AtType
    <3>5. /\ At(snaps', refs'[Main])[k] \in Nat
          /\ At(snaps, refs[Main])[k] <= At(snaps', refs'[Main])[k]
      BY <1>2, <3>3
    <3> QED
      BY <3>2, <3>4, <3>5
  <2> QED
    BY <2>2, <2>3 DEF Ahead
<1> QED
  BY <1>1, <1>2 DEF MainSteady

\* A step of w that finds the table in order leaves it so, when it does for w's
\* own job.
LEMMA Together ==
  ASSUME WInv, Audited', LocalTypes', NEW w,
         ~delayed' => ~delayed,
         ~overlapped' => ~overlapped,
         ~delayed' => /\ late' = late /\ Touches(w)
                      /\ Known(snaps') /\ Single(snaps')
                      /\ \A k \in Jobs : k # w => Away(k)
                      /\ w \in Jobs => Resumes(w)',
         ~delayed' /\ ~overlapped' => /\ MainSteady(w)
                                      /\ w \in Jobs => Ahead(w)'
  PROVE  WInv'
<1>1. ASSUME ~delayed' PROVE Orderly'
  <2>1. Orderly
    BY <1>1 DEF WInv, Resumable
  <2>2. \A k \in Jobs : Resumes(k)'
    BY <1>1, <2>1, AwayResumes DEF Orderly
  <2> QED
    BY <1>1, <2>1, <2>2 DEF Orderly
<1>2. ASSUME ~delayed', ~overlapped', NEW k \in Jobs PROVE Ahead(k)'
  <2>1. Orderly /\ Ahead(k)
    BY <1>2 DEF WInv, Resumable
  <2>2. At(snaps', refs'[Main]) \in [Files -> Nat]
    <3>1. refs'[Main] \in 0 .. Len(snaps') /\ snaps' \in Seq(Snapshot)
      BY DEF Audited, RefsOk, OnlyOf, Refs
    <3> QED
      BY <3>1, AtType
  <2> QED
    BY <1>2, <2>1, <2>2, AwayAhead DEF Orderly
<1> QED
  BY <1>1, <1>2 DEF WInv, Resumable

LEMMA ForJob ==
  ASSUME WInv, Audited', NEW j \in Jobs, Advance(j) \/ Crash(j),
         ~delayed' => ~delayed,
         ~overlapped' => ~overlapped,
         ~delayed' => /\ late' = late /\ Touches(j)
                      /\ Known(snaps') /\ Single(snaps') /\ Resumes(j)',
         ~delayed' /\ ~overlapped' => MainSteady(j) /\ Ahead(j)'
  PROVE  WInv'
<1>1. PICK step : Proper(j, step)
  BY JobStep
<1>2. LocalTypes'
  BY <1>1, JobTypes DEF WInv
<1>3. ~delayed' => \A k \in Jobs : k # j => Away(k)
  BY <1>1, JobAway
<1> QED
  BY <1>2, <1>3, Together

\* ... that does not touch the table.
LEMMA QuietJob ==
  ASSUME WInv, Audited', NEW j \in Jobs, Advance(j) \/ Crash(j),
         UNCHANGED <<table, wire, overlapped>>,
         Resumes(j) => Resumes(j)',
         Resumes(j) /\ Ahead(j) => Ahead(j)'
  PROVE  WInv'
<1>1. snaps' = snaps /\ refs' = refs /\ late' = late /\ delayed' = delayed
      /\ overlapped' = overlapped
  BY DEF table, wire
<1>2. Touches(j) /\ MainSteady(j)
  BY <1>1 DEF Touches, MainSteady
<1>3. ~delayed' => Known(snaps') /\ Single(snaps') /\ Resumes(j)'
  BY <1>1 DEF WInv, Resumable, Orderly
<1>4. ~delayed' /\ ~overlapped' => Ahead(j)'
  BY <1>1 DEF WInv, Resumable, Orderly
<1> QED
  BY <1>1, <1>2, <1>3, <1>4, ForJob

\* A job that answers an error, the table as it was, begins again from what it
\* has done.
LEMMA GivesUp ==
  ASSUME WInv, NEW j \in Jobs, Goto(j, "idle"), Err(j), UNCHANGED table
  PROVE  /\ Resumes(j) => Resumes(j)'
         /\ Ahead(j) => Ahead(j)'
<1>1. pc'[j] = "idle" /\ j \in err' /\ snaps' = snaps /\ refs' = refs
  BY DEF WInv, LocalTypes, Goto, Err, table
<1> QED
  BY <1>1 DEF Resumes, Ahead

LEMMA LoadFailsKeeps ==
  ASSUME WInv, Audited', NEW j \in Jobs, Advance(j), LoadFails(j), UNCHANGED overlapped
  PROVE  WInv'
<1>1. Goto(j, "idle") /\ Err(j) /\ UNCHANGED <<table, wire, overlapped>>
  BY DEF LoadFails
<1> QED
  BY <1>1, GivesUp, QuietJob

\* What a job's step leaves in its own entries.
LEMMA Own ==
  ASSUME WInv, NEW j \in Jobs
  PROVE  /\ \A step : Goto(j, step) => pc'[j] = step
         /\ Reload(j) => meta'[j].refs = refs
         /\ Ok(j) => j \notin err'
         /\ Err(j) => j \in err'
  BY DEF WInv, LocalTypes, Audited, Goto, Reload, Metadata, Ok, Err

LEMMA BeginKeeps ==
  ASSUME WInv, Audited', NEW j \in Jobs, Begin(j)
  PROVE  WInv'
<1>0. Advance(j) /\ UNCHANGED overlapped /\ pc[j] = "idle"
  BY DEF Advance, Begin
<1>1. CASE LoadFails(j)
  BY <1>0, <1>1, LoadFailsKeeps
<1>2. CASE Reload(j) /\ Goto(j, Detect(HasWapId(j), refs[j] # Gone)) /\ Ok(j)
           /\ UNCHANGED tableVars
  <2>1. /\ pc'[j] = Detect(Has(snaps, j), refs[j] # Gone)
        /\ meta'[j].refs = refs /\ j \notin err'
    BY <1>2, Own, HasWapIdIs
  <2>2. snaps' = snaps /\ refs' = refs /\ UNCHANGED <<table, wire>>
    BY <1>2 DEF tableVars, table
  <2>3. /\ ~Has(snaps, j) /\ refs[j] = Gone => pc'[j] = "create"
        /\ ~Has(snaps, j) /\ refs[j] # Gone => pc'[j] = "delete"
        /\ Has(snaps, j) /\ refs[j] # Gone => pc'[j] = "publisher"
        /\ Has(snaps, j) /\ refs[j] = Gone => pc'[j] = "complete"
    BY <2>1 DEF Detect
  <2>4. Resumes(j) => Resumes(j)'
    BY <2>2, <2>3 DEF Resumes
  <2>5. Ahead(j) => Ahead(j)'
    BY <2>1, <2>2, <2>3 DEF Ahead
  <2> QED
    BY <1>0, <2>2, <2>4, <2>5, QuietJob
<1> QED
  BY <1>1, <1>2 DEF Begin

LEMMA RecreateKeeps ==
  ASSUME WInv, Audited', NEW j \in Jobs, Recreate(j)
  PROVE  WInv'
<1>0. Advance(j) /\ UNCHANGED overlapped /\ pc[j] = "recreate"
  BY DEF Advance, Recreate
<1>1. CASE LoadFails(j)
  BY <1>0, <1>1, LoadFailsKeeps
<1>2. CASE Reload(j) /\ Goto(j, "create") /\ UNCHANGED <<tableVars, err>>
  <2>1. pc'[j] = "create" /\ meta'[j].refs = refs
    BY <1>2, Own
  <2>2. snaps' = snaps /\ refs' = refs /\ UNCHANGED <<table, wire>>
    BY <1>2 DEF tableVars, table
  <2>3. Resumes(j) => Resumes(j)'
    BY <1>0, <2>1, <2>2 DEF Resumes
  <2>4. Ahead(j) => Ahead(j)'
    BY <2>1, <2>2 DEF Ahead
  <2> QED
    BY <1>0, <2>2, <2>3, <2>4, QuietJob
<1> QED
  BY <1>1, <1>2 DEF Recreate

LEMMA WriteKeeps ==
  ASSUME WInv, Audited', NEW j \in Jobs, Write(j)
  PROVE  WInv'
<1>0. Advance(j) /\ UNCHANGED <<table, wire, overlapped>> /\ pc[j] = "writer"
      /\ snaps' = snaps /\ refs' = refs
  BY DEF Advance, Write, tableVars, table
<1>1. \/ pc'[j] = "publisher" /\ j \in EmptyJobs
      \/ pc'[j] = "commit"
      \/ pc'[j] = "complete" /\ j \in err'
  BY Own DEF Write
<1>2. Resumes(j) => Resumes(j)'
  BY <1>0, <1>1 DEF Resumes
<1>3. Ahead(j) => Ahead(j)'
  BY <1>0, <1>1 DEF Ahead
<1> QED
  BY <1>0, <1>2, <1>3, QuietJob

LEMMA PublishLoadKeeps ==
  ASSUME WInv, Audited', NEW j \in Jobs, PublishLoad(j)
  PROVE  WInv'
<1>0. Advance(j) /\ UNCHANGED overlapped /\ pc[j] = "publisher"
  BY DEF Advance, PublishLoad
<1>1. CASE LoadFails(j)
  BY <1>0, <1>1, LoadFailsKeeps
<1>2. CASE /\ Reload(j)
           /\ IF BranchExists(j) THEN Goto(j, "publish") /\ Ok(j)
                                 ELSE Goto(j, "idle") /\ Err(j)
           /\ UNCHANGED tableVars
  <2>1. /\ meta'[j].refs = refs
        /\ pc'[j] = "publish" \/ (pc'[j] = "idle" /\ j \in err')
    BY <1>2, Own
  <2>2. snaps' = snaps /\ refs' = refs /\ UNCHANGED <<table, wire>>
    BY <1>2 DEF tableVars, table
  <2>3. Resumes(j) => Resumes(j)'
    BY <1>0, <2>1, <2>2 DEF Resumes
  <2>4. Ahead(j) => Ahead(j)'
    BY <2>1, <2>2 DEF Ahead
  <2> QED
    BY <1>0, <2>2, <2>3, <2>4, QuietJob
<1> QED
  BY <1>1, <1>2 DEF PublishLoad

LEMMA FinishKeeps ==
  ASSUME WInv, Audited', NEW j \in Jobs, Finish(j)
  PROVE  WInv'
<1>0. Advance(j) /\ UNCHANGED <<table, wire, overlapped>> /\ pc[j] = "complete"
      /\ snaps' = snaps /\ refs' = refs /\ err' = err
  BY DEF Advance, Finish, tableVars, table
<1>1. pc'[j] = IF j \in err THEN "idle" ELSE "done"
  BY Own DEF Finish
<1>2. Resumes(j) => Resumes(j)'
  BY <1>0, <1>1 DEF Resumes
<1>3. Ahead(j) => Ahead(j)'
  BY <1>0, <1>1 DEF Ahead
<1> QED
  BY <1>0, <1>2, <1>3, QuietJob

LEMMA CrashKeeps ==
  ASSUME WInv, Audited', NEW j \in Jobs, Crash(j)
  PROVE  WInv'
<1>1. Goto(j, "idle") /\ Err(j) /\ UNCHANGED <<table, wire, overlapped>>
  BY DEF Crash
<1> QED
  BY <1>1, GivesUp, QuietJob

LEMMA DeleteKeeps ==
  ASSUME WInv, Audited', NEW j \in Jobs, Delete(j)
  PROVE  WInv'
<1> DEFINE req == DeleteBranch(j)
<1>0. Advance(j) /\ UNCHANGED overlapped /\ pc[j] = "delete" /\ Sent(req)
  BY DEF Advance, Delete, Sent
<1>1. /\ UNCHANGED table \/ Apply(req)
      /\ ~delayed' => ~delayed /\ late' = late
  BY <1>0, SentTypes DEF WInv
<1>2. (Accepted(req) /\ pc'[j] = "recreate") \/ (pc'[j] = "idle" /\ j \in err')
  BY Own DEF Delete
<1>3. snaps' = snaps /\ (refs' = refs \/ refs' = [refs EXCEPT ![j] = Gone])
  BY <1>1 DEF table, Apply, DeleteBranch
<1>4. \A r \in Refs : r # j => refs'[r] = refs[r]
  BY <1>3 DEF WInv, Audited, RefsOk
<1>5. refs'[j] = refs[j] \/ refs'[j] = Gone
  BY <1>3, JobsAssumption DEF WInv, Audited, RefsOk, Refs
<1>6. Main # j /\ Main \in Refs /\ Jobs \subseteq Refs
  BY JobsAssumption, MainAssumption DEF Refs
<1>7. Touches(j) /\ MainSteady(j)
  BY <1>3, <1>4, <1>6 DEF Touches, MainSteady
<1>8. Resumes(j) => Resumes(j)'
  BY <1>0, <1>2, <1>3, <1>5 DEF Resumes
<1>9. Resumes(j) /\ Ahead(j) => Ahead(j)'
  <2>1. Resumes(j) => ~Has(snaps, j)
    BY <1>0 DEF Resumes
  <2> QED
    BY <1>2, <1>3, <1>4, <1>5, <1>6, <2>1 DEF Ahead
<1>10. ~delayed' => Orderly
  BY <1>1 DEF WInv, Resumable
<1> QED
  BY <1>0, <1>1, <1>3, <1>7, <1>8, <1>9, <1>10, ForJob DEF WInv, Resumable, Orderly

LEMMA CreateKeeps ==
  ASSUME WInv, Audited', NEW j \in Jobs, Create(j)
  PROVE  WInv'
<1> DEFINE req == CreateBranch(meta[j], j)
<1>0. Advance(j) /\ UNCHANGED overlapped /\ pc[j] = "create"
  BY DEF Advance, Create
<1>1. Main # j /\ Main \in Refs /\ Jobs \subseteq Refs
  BY JobsAssumption, MainAssumption DEF Refs
<1>2. CASE meta[j].refs[Main] = Gone /\ Goto(j, "writer") /\ Ok(j) /\ UNCHANGED tableVars
  <2>1. pc'[j] = "writer"
    BY <1>2, Own
  <2>2. snaps' = snaps /\ refs' = refs /\ UNCHANGED <<table, wire>>
    BY <1>2 DEF tableVars, table
  <2>3. Resumes(j) => Resumes(j)'
    BY <1>0, <2>1, <2>2 DEF Resumes
  <2>4. Ahead(j) => Ahead(j)'
    BY <1>0, <1>2, <2>1, <2>2 DEF Ahead
  <2> QED
    BY <1>0, <2>2, <2>3, <2>4, QuietJob
<1>3. CASE /\ meta[j].refs[Main] # Gone
           /\ \/ Accepted(req) /\ Goto(j, "writer") /\ Ok(j)
              \/ (Conflict(req) \/ Failed(req)) /\ Goto(j, "idle") /\ Err(j)
  <2>0. Sent(req)
    BY <1>3 DEF Sent
  <2>1. /\ UNCHANGED table \/ (Granted(req) /\ Apply(req))
        /\ ~delayed' => ~delayed /\ late' = late
    BY <2>0, SentTypes DEF WInv
  <2>2. (Granted(req) /\ Apply(req) /\ pc'[j] = "writer")
        \/ (pc'[j] = "idle" /\ j \in err')
    BY <1>3, Own DEF Accepted
  <2>3. Granted(req) /\ Apply(req)
          => /\ snaps' = snaps /\ refs[j] = Gone
             /\ refs' = [refs EXCEPT ![j] = meta[j].refs[Main]]
    BY DEF Granted, Apply, CreateBranch
  <2>4. snaps' = snaps /\ \A r \in Refs : r # j => refs'[r] = refs[r]
    BY <2>1, <2>3 DEF table, WInv, Audited, RefsOk
  <2>5. refs'[j] = refs[j] \/ refs'[j] = meta[j].refs[Main]
    BY <1>1, <2>1, <2>3 DEF table, WInv, Audited, RefsOk
  <2>6. pc'[j] = "writer" => refs'[j] # Gone
    BY <1>1, <1>3, <2>2, <2>3 DEF WInv, Audited, RefsOk
  <2>7. Touches(j) /\ MainSteady(j)
    BY <1>1, <2>4 DEF Touches, MainSteady
  <2>8. Resumes(j) => Resumes(j)'
    BY <1>0, <2>2, <2>4, <2>5 DEF Resumes
  <2>9. Resumes(j) /\ Ahead(j) => Ahead(j)'
    <3>1. SUFFICES ASSUME Resumes(j), Ahead(j) PROVE Ahead(j)'
      OBVIOUS
    <3>2. ~Has(snaps, j) /\ meta[j].refs[Main] = refs[Main] /\ refs'[Main] = refs[Main]
      BY <1>0, <1>1, <2>4, <3>1 DEF Resumes, Ahead
    <3>3. At(snaps, refs[Main]) \in [Files -> Nat]
      BY AtType, <1>1 DEF WInv, Audited, RefsOk, OnlyOf
    <3>4. \A f \in Files : At(snaps, refs[Main])[f] <= At(snaps, refs[Main])[f]
      BY <3>3
    <3>5. refs'[j] # Gone
            => \A f \in Files : At(snaps', refs'[Main])[f] <= At(snaps', refs'[j])[f]
      BY <2>4, <2>5, <3>1, <3>2, <3>4 DEF Ahead
    <3> QED
      BY <2>2, <2>4, <2>6, <3>2, <3>5 DEF Ahead
  <2>10. ~delayed' => Orderly
    BY <2>1 DEF WInv, Resumable
  <2> QED
    BY <1>0, <2>1, <2>4, <2>7, <2>8, <2>9, <2>10, ForJob DEF WInv, Resumable, Orderly
<1> QED
  BY <1>2, <1>3 DEF Create

\* What a commit to j's branch leaves: the branch and the job's data.
LEMMA CommitEffect ==
  ASSUME WInv, Audited', NEW j \in Jobs, NEW m, m.refs[j] \in 0 .. Len(snaps),
         NEW req, req = CommitToBranch(m, j, {j}, j), Granted(req), Apply(req)
  PROVE  /\ refs[j] = m.refs[j]
         /\ refs' = [refs EXCEPT ![j] = Len(snaps) + 1]
         /\ Continues(snaps', snaps, refs[j], {j}, j)
  BY CommitEffects, JobsAssumption DEF WInv, Audited

LEMMA CommitKeeps ==
  ASSUME WInv, Audited', NEW j \in Jobs, CommitBranch(j)
  PROVE  WInv'
<1> DEFINE req == CommitToBranch(meta[j], j, {j}, j)
<1>0. Advance(j) /\ UNCHANGED overlapped /\ pc[j] = "commit" /\ Sent(req)
  BY DEF Advance, CommitBranch, Sent
<1>1. Main # j /\ Main \in Refs /\ Jobs \subseteq Refs /\ j \in Files
  BY JobsAssumption, MainAssumption DEF Refs
<1>2. /\ UNCHANGED table \/ (Granted(req) /\ Apply(req))
      /\ ~delayed' => ~delayed /\ late' = late
  BY <1>0, SentTypes DEF WInv
<1>3. \/ Granted(req) /\ Apply(req) /\ pc'[j] = "publisher"
      \/ pc'[j] = "complete" /\ j \in err'
  BY Own DEF CommitBranch, Accepted
<1>4. ~delayed' => Orderly
  BY <1>2 DEF WInv, Resumable
<1>5. CASE UNCHANGED table /\ pc'[j] = "complete" /\ j \in err'
  <2>1. snaps' = snaps /\ refs' = refs
    BY <1>5 DEF table
  <2>2. Touches(j) /\ MainSteady(j)
    BY <2>1 DEF Touches, MainSteady
  <2>3. Resumes(j) => Resumes(j)'
    BY <1>5, <2>1 DEF Resumes
  <2>4. Ahead(j) => Ahead(j)'
    BY <1>5, <2>1 DEF Ahead
  <2> QED
    BY <1>0, <1>2, <1>4, <2>1, <2>2, <2>3, <2>4, ForJob DEF WInv, Resumable, Orderly
<1>6. CASE Granted(req) /\ Apply(req)
  <2>0. meta[j].refs[j] \in 0 .. Len(snaps)
    BY <1>1 DEF WInv, Audited, RefsOk, OnlyOf
  <2>1. /\ refs' = [refs EXCEPT ![j] = Len(snaps) + 1]
        /\ Continues(snaps', snaps, refs[j], {j}, j)
    BY <1>6, <2>0, CommitEffect
  <2>2. refs'[j] = Len(snaps) + 1 /\ \A r \in Refs : r # j => refs'[r] = refs[r]
    BY <1>1, <2>1 DEF WInv, Audited, RefsOk
  <2>3. Touches(j)
    BY <1>1, <2>1, <2>2 DEF Touches
  <2>4. /\ refs[j] \in 0 .. Len(snaps) /\ refs[Main] \in 0 .. Len(snaps)
        /\ snaps \in Seq(Snapshot) /\ Len(snaps) \in Nat
    BY <1>1 DEF WInv, Audited, RefsOk, OnlyOf
  <2>5. /\ At(snaps', refs'[j]) = Plus(At(snaps, refs[j]), {j})
        /\ At(snaps', refs'[Main]) = At(snaps, refs[Main])
        /\ Has(snaps', j) /\ refs'[j] # Gone
    BY <1>1, <2>1, <2>2, <2>4 DEF Continues, Gone
  <2>6. MainSteady(j)
    BY <1>1, <2>2, <2>5 DEF MainSteady
  <2>7. /\ At(snaps, refs[j]) \in [Files -> Nat]
        /\ At(snaps, refs[Main]) \in [Files -> Nat]
    BY <2>4, AtType
  <2>8. \A f \in Files : At(snaps, refs[j])[f] <= Plus(At(snaps, refs[j]), {j})[f]
    BY <2>7 DEF Plus
  <2>9. Plus(At(snaps, refs[j]), {j})[j] >= 1
    BY <1>1, <2>7 DEF Plus
  <2>10. Resumes(j) => Resumes(j)'
    BY <1>3, <2>5, <2>9 DEF Resumes
  <2>11. Ahead(j) => Ahead(j)'
    <3>1. SUFFICES ASSUME Ahead(j) PROVE Ahead(j)'
      OBVIOUS
    <3>2. \A f \in Files : At(snaps, refs[Main])[f] <= At(snaps, refs[j])[f]
      <4>1. CASE refs[j] # Gone
        BY <3>1, <4>1 DEF Ahead
      <4>2. CASE refs[j] = Gone
        <5>1. refs[Main] = Gone
          BY <1>0, <3>1, <4>2 DEF Ahead
        <5> QED
          BY <4>2, <5>1, <2>7
      <4> QED
        BY <4>1, <4>2
    <3>3. \A f \in Files : At(snaps, refs[Main])[f] <= Plus(At(snaps, refs[j]), {j})[f]
      <4>1. Plus(At(snaps, refs[j]), {j}) \in [Files -> Nat]
        BY <2>7 DEF Plus
      <4> QED
        BY <2>7, <2>8, <3>2, <4>1
    <3> QED
      BY <1>3, <2>5, <3>3 DEF Ahead
  <2>12. Orderly => Known(snaps') /\ Single(snaps')
    <3>1. SUFFICES ASSUME Orderly PROVE Known(snaps') /\ Single(snaps')
      OBVIOUS
    <3>2. Known(snaps) /\ Single(snaps) /\ ~Has(snaps, j)
      BY <1>0, <3>1 DEF Orderly, Resumes
    <3>3. PICK s, F, t : s = refs[j] /\ F = {j} /\ t = snaps'
      OBVIOUS
    <3>4. Continues(t, snaps, s, F, j) /\ s \in 0 .. Len(snaps)
      BY <2>1, <2>4, <3>3
    <3>5. \A k \in Jobs : k \in F => k = j /\ ~Has(snaps, k)
      BY <3>2, <3>3
    <3>6. Known(t) /\ Single(t)
      BY <2>4, <3>2, <3>4, <3>5, ExtendedKeeps
    <3> QED
      BY <3>3, <3>6
  <2> QED
    BY <1>0, <1>2, <1>4, <2>3, <2>6, <2>10, <2>11, <2>12, ForJob DEF WInv, Resumable, Orderly
<1> QED
  BY <1>2, <1>3, <1>5, <1>6

LEMMA PublishKeeps ==
  ASSUME WInv, Audited', NEW j \in Jobs, Publish(j)
  PROVE  WInv'
<1> DEFINE req == PublishBranch(meta[j], j)
<1>0. Advance(j) /\ MainMoves(j) /\ pc[j] = "publish" /\ Sent(req)
  BY DEF Advance, Publish, Sent
<1>1. Main # j /\ Main \in Refs /\ Jobs \subseteq Refs /\ j \in Files
  BY JobsAssumption, MainAssumption DEF Refs
<1>2. /\ UNCHANGED table \/ (Granted(req) /\ Apply(req))
      /\ ~delayed' => ~delayed /\ late' = late
  BY <1>0, SentTypes DEF WInv
<1>3. \/ Granted(req) /\ Apply(req) /\ pc'[j] = "done" /\ j \notin err'
      \/ pc'[j] = "idle" /\ j \in err'
  BY Own DEF Publish, Accepted
<1>4. ~delayed' => Orderly
  BY <1>2 DEF WInv, Resumable
<1>5. ~overlapped' => ~overlapped /\ (refs'[Main] = refs[Main] \/ Active \ {j} = {})
  BY <1>0 DEF MainMoves
<1>6. CASE UNCHANGED table /\ pc'[j] = "idle" /\ j \in err'
  <2>1. snaps' = snaps /\ refs' = refs
    BY <1>6 DEF table
  <2>2. Touches(j) /\ MainSteady(j)
    BY <2>1 DEF Touches, MainSteady
  <2>3. Resumes(j) => Resumes(j)'
    BY <1>6, <2>1 DEF Resumes
  <2>4. Ahead(j) => Ahead(j)'
    BY <1>6, <2>1 DEF Ahead
  <2> QED
    BY <1>0, <1>2, <1>4, <1>5, <2>1, <2>2, <2>3, <2>4, ForJob DEF WInv, Resumable, Orderly
<1>7. CASE Granted(req) /\ Apply(req)
  <2>1. /\ snaps' = snaps
        /\ refs' = [refs EXCEPT ![Main] = meta[j].refs[j], ![j] = Gone]
    BY <1>7 DEF Apply, PublishBranch
  <2>2. /\ refs'[Main] = meta[j].refs[j] /\ refs'[j] = Gone
        /\ \A k \in Jobs : k # j => refs'[k] = refs[k]
    BY <1>1, <2>1, JobsAssumption, MainAssumption DEF WInv, Audited, RefsOk
  <2>3. Touches(j)
    BY <2>1, <2>2 DEF Touches
  <2>4. meta[j].refs[j] # Gone
    BY <1>0 DEF WInv, LocalTypes
  <2>5. Resumes(j) => Resumes(j)'
    BY <1>0, <1>3, <2>1, <2>2 DEF Resumes
  <2>6. Resumes(j) => refs'[Main] = refs[j] /\ refs[j] # Gone
    BY <1>0, <2>2, <2>4 DEF Resumes
  <2>7. ~overlapped' /\ Resumes(j) /\ Ahead(j) => MainSteady(j)
    BY <1>5, <2>1, <2>6 DEF Ahead, MainSteady
  <2>8. Resumes(j) => Ahead(j)'
    BY <1>3, <2>1, <2>2, <2>6 DEF Ahead, Resumes
  <2> QED
    BY <1>0, <1>2, <1>4, <1>5, <2>1, <2>3, <2>5, <2>7, <2>8, ForJob
       DEF WInv, Resumable, Orderly
<1> QED
  BY <1>2, <1>3, <1>6, <1>7

\* Other writers only add to main.
LEMMA OtherKeeps ==
  ASSUME WInv, Audited', LocalTypes', NEW f \in Others, OtherWriter(f)
  PROVE  WInv'
<1>1. /\ UNCHANGED <<pc, meta, err, late, delayed>>
      /\ AddSnapshot(Plus(OnMain, {f}), "none")
      /\ refs' = [refs EXCEPT ![Main] = Len(snaps) + 1]
      /\ MainMoves(f)
  BY DEF OtherWriter, AppendToMain, wire
<1>2. Main \in Refs /\ Jobs \subseteq Refs /\ Main \notin Jobs /\ f \notin Jobs
  BY JobsAssumption, MainAssumption DEF Refs
<1>3. PICK s : s = refs[Main]
  OBVIOUS
<1>4. s \in 0 .. Len(snaps) /\ snaps \in Seq(Snapshot) /\ Len(snaps) \in Nat
  BY <1>2, <1>3 DEF WInv, Audited, RefsOk, OnlyOf
<1>5. snaps' = Append(snaps, [files |-> Plus(At(snaps, s), {f}), wap |-> "none"])
  BY <1>1, <1>3, ContentAt DEF AddSnapshot, OnMain
<1>6. PICK t : t = snaps'
  OBVIOUS
<1>7. Continues(t, snaps, s, {f}, "none")
  BY <1>4, <1>5, <1>6, Extended
<1>8. \A k \in Jobs : Has(t, k) <=> Has(snaps, k)
  BY <1>7, JobsAssumption, WapIdAssumption DEF Continues
<1>9. /\ \A k \in Jobs : refs'[k] = refs[k] /\ refs[k] \in 0 .. Len(snaps)
      /\ refs'[Main] = Len(snaps) + 1
  BY <1>1, <1>2 DEF WInv, Audited, RefsOk, OnlyOf
<1>10. \A k \in Jobs : Away(k)
  <2> TAKE k \in Jobs
  <2>1. At(t, refs[k]) = At(snaps, refs[k])
    BY <1>7, <1>9 DEF Continues
  <2> QED
    BY <1>1, <1>6, <1>8, <1>9, <2>1 DEF Away
<1>11. Touches(f)
  <2>1. "none" \notin Jobs
    BY JobsAssumption, WapIdAssumption
  <2> QED
    BY <1>6, <1>7, <1>9, <2>1 DEF Touches
<1>12. Known(snaps) /\ Single(snaps) => Known(t) /\ Single(t)
  <2>1. SUFFICES ASSUME Known(snaps), Single(snaps) PROVE Known(t) /\ Single(t)
    OBVIOUS
  <2>2. PICK F, w : F = {f} /\ w = "none"
    OBVIOUS
  <2>3. \A k \in Jobs : k \in F => k = w /\ ~Has(snaps, k)
    BY <1>2, <2>2
  <2>4. Continues(t, snaps, s, F, w)
    BY <1>7, <2>2
  <2> QED
    BY <1>4, <2>1, <2>3, <2>4, ExtendedKeeps
<1>13. At(t, Len(snaps) + 1) = Plus(At(snaps, s), {f}) /\ At(snaps, s) \in [Files -> Nat]
  BY <1>4, <1>7, AtType DEF Continues
<1>14. \A g \in Files : At(snaps, s)[g] <= Plus(At(snaps, s), {f})[g]
  BY <1>13 DEF Plus
<1>15. refs'[Main] # refs[Main]
  BY <1>3, <1>4, <1>9
<1>16. ~overlapped' => ~overlapped /\ Active \ {f} = {}
  BY <1>1, <1>15 DEF MainMoves
<1>17. ~overlapped' => MainSteady(f)
  BY <1>3, <1>6, <1>9, <1>13, <1>14, <1>16 DEF MainSteady
<1>18. ~delayed' => Known(snaps') /\ Single(snaps')
  BY <1>1, <1>6, <1>12 DEF WInv, Resumable, Orderly
<1> QED
  BY <1>1, <1>2, <1>10, <1>11, <1>16, <1>17, <1>18, Together

\* Every step keeps the jobs resumable.
LEMMA WInvStep == WInv /\ [Next]_vars => WInv'
<1> SUFFICES ASSUME WInv, [Next]_vars PROVE WInv'
  OBVIOUS
<1>0. Audited' /\ LocalTypes'
  BY AuditedStep, TypesStep DEF WInv
<1>1. ASSUME NEW j \in Jobs, Advance(j) PROVE WInv'
  BY <1>0, <1>1, BeginKeeps, DeleteKeeps, RecreateKeeps, CreateKeeps, WriteKeeps,
     CommitKeeps, PublishLoadKeeps, PublishKeeps, FinishKeeps DEF Advance
<1>2. ASSUME NEW j \in Jobs, Crash(j) PROVE WInv'
  BY <1>0, <1>2, CrashKeeps
<1>3. ASSUME NEW f \in Others, OtherWriter(f) PROVE WInv'
  BY <1>0, <1>3, OtherKeeps
<1>4. CASE Arrive /\ UNCHANGED locals
  <2>1. late # {} /\ UNCHANGED delayed
    BY <1>4 DEF Arrive
  <2>2. delayed
    BY <2>1 DEF WInv, Resumable, Orderly
  <2> QED
    BY <1>0, <2>1, <2>2 DEF WInv, Resumable
<1>5. CASE UNCHANGED vars
  <2>1. Resumable'
    BY <1>5 DEF vars, locals, tableVars, table, wire, WInv, Resumable, Orderly,
                Resumes, Ahead
  <2> QED
    BY <1>0, <2>1 DEF WInv
<1> QED
  BY <1>1, <1>2, <1>3, <1>4, <1>5 DEF Next

LEMMA InitWInv == Init => WInv
<1> SUFFICES ASSUME Init PROVE WInv
  OBVIOUS
<1>1. snaps = <<>> /\ Len(snaps) = 0 /\ late = {} /\ refs = [r \in Refs |-> Gone]
  BY DEF Init, InitTable
<1>2. LocalTypes
  <2>1. faults \in 0 .. MaxFaults /\ delayed \in BOOLEAN
    <3>1. faults = 0 /\ delayed = FALSE
      BY DEF Init, InitTable
    <3>2. \A n \in Nat : 0 \in 0 .. n
      OBVIOUS
    <3> QED
      BY <3>1, <3>2, FaultsAssumption, Zenon
  <2>2. pc \in [Jobs -> Steps] /\ \A j \in Jobs : pc[j] # "publish"
    BY DEF Init, Steps
  <2>3. \A j \in Jobs : meta[j].refs \in [Refs -> 0 .. meta[j].last]
    BY <1>1 DEF Init, Metadata, Gone
  <2>4. err = {} /\ appended = {} /\ published = {} /\ overlapped = FALSE
    BY DEF Init
  <2> QED
    BY <2>1, <2>2, <2>3, <2>4 DEF LocalTypes
<1>3. \A k : ~Has(snaps, k)
  BY <1>1 DEF Has
<1>4. Known(snaps) /\ Single(snaps)
  BY <1>1 DEF Known, Single
<1>5. \A j \in Jobs : refs[j] = Gone /\ pc[j] = "idle"
  BY <1>1, JobsAssumption DEF Init, Refs
<1>6. \A j \in Jobs : Resumes(j) /\ Ahead(j)
  BY <1>3, <1>5 DEF Resumes, Ahead
<1> QED
  BY <1>1, <1>2, <1>4, <1>6, InitAudited DEF WInv, Resumable, Orderly

\* However jobs are resumed, what the table holds of a job agrees with its place in
\* begin, write and publish, and its branch continues a main that nobody else moved,
\* until a request arrives late.
THEOREM AlwaysResumable == Spec => []WInv
  BY InitWInv, WInvStep, PTL DEF Spec

-----------------------------------------------------------------------------
(* The properties.                                                         *)

\* What is known of references and their contents.
LEMMA Contents ==
  ASSUME WInv, NEW r \in Refs
  PROVE  /\ refs[r] \in 0 .. Len(snaps)
         /\ Content(refs[r]) = At(snaps, refs[r])
         /\ At(snaps, refs[r]) \in [Files -> Nat]
         /\ Single(snaps) => \A k \in Jobs : At(snaps, refs[r])[k] <= 1
<1>1. refs[r] \in 0 .. Len(snaps) /\ snaps \in Seq(Snapshot)
  BY DEF WInv, Audited, RefsOk, OnlyOf
<1>2. Single(snaps) => \A k \in Jobs : At(snaps, refs[r])[k] <= 1
  <2>1. CASE refs[r] = Gone
    BY <2>1, JobsAssumption DEF At, Empty
  <2>2. CASE refs[r] # Gone
    <3>1. refs[r] \in 1 .. Len(snaps)
      BY <1>1, <2>2 DEF Gone
    <3> QED
      BY <2>2, <3>1 DEF At, Single
  <2> QED
    BY <2>1, <2>2
<1> QED
  BY <1>1, <1>2, AtType, ContentAt

\* However often a job crashes, fails and begins again, its data is on main and on
\* its branch at most once, and no reference leads nowhere.
THEOREM WrittenAtMostOnce == Spec => []WrittenSound
<1>1. WInv => WrittenSound
  <2> SUFFICES ASSUME WInv PROVE WrittenSound
    OBVIOUS
  <2>1. TypeOK
    BY TypesTogether DEF WInv
  <2>2. ASSUME ~delayed, NEW j \in Jobs
        PROVE  OnMain[j] <= 1 /\ Content(refs[j])[j] <= 1
    <3>1. Single(snaps) /\ Main \in Refs /\ j \in Refs
      BY <2>2, JobsAssumption DEF WInv, Resumable, Orderly, Refs
    <3> QED
      BY <3>1, Contents DEF OnMain
  <2> QED
    BY <2>1, <2>2 DEF WrittenSound, WrittenOnce
<1> QED
  BY <1>1, AlwaysResumable, PTL

\* A caller that is done finds its data on main, when main moved for nobody else.
THEOREM DoneShows == Spec => []DoneIsVisible
<1>1. WInv => DoneIsVisible
  <2> SUFFICES ASSUME WInv, ~delayed, ~overlapped,
                      NEW j \in Jobs \ EmptyJobs, pc[j] = "done"
               PROVE  OnMain[j] = 1
    BY DEF DoneIsVisible
  <2>1. Resumes(j) /\ Ahead(j) /\ Single(snaps) /\ Main \in Refs /\ j \in Files
    BY JobsAssumption DEF WInv, Resumable, Orderly, Refs
  <2>2. At(snaps, refs[Main])[j] >= 1
    BY <2>1 DEF Resumes, Ahead
  <2>3. OnMain[j] = At(snaps, refs[Main])[j] /\ At(snaps, refs[Main])[j] <= 1
        /\ At(snaps, refs[Main])[j] \in Nat
    BY <2>1, Contents DEF OnMain
  <2> QED
    BY <2>2, <2>3
<1> QED
  BY <1>1, AlwaysResumable, PTL

\* What an accepted publish request puts on main: j's branch.
LEMMA Published ==
  ASSUME WInv, ~delayed, NEW j \in Jobs, pc[j] = "publish",
         LET req == PublishBranch(meta[j], j) IN Granted(req) /\ Apply(req)
  PROVE  /\ snaps' = snaps /\ refs'[Main] = refs[j] /\ refs[j] # Gone
         /\ OnMain' = At(snaps, refs[j])
<1>1. /\ snaps' = snaps
      /\ refs' = [refs EXCEPT ![Main] = meta[j].refs[j], ![j] = Gone]
  BY DEF Apply, PublishBranch
<1>2. meta[j].refs[j] = refs[j] /\ refs[j] # Gone
  BY DEF WInv, Resumable, Orderly, Resumes, LocalTypes
<1>3. refs'[Main] = refs[j]
  BY <1>1, <1>2, JobsAssumption, MainAssumption DEF WInv, Audited, RefsOk, Refs
<1>4. OnMain' = At(snaps', refs'[Main])
  BY DEF OnMain, Content, At
<1> QED
  BY <1>1, <1>2, <1>3, <1>4

\* A publish that is answered Ok has put all of the job's data on main.
THEOREM PublishShows == Spec => PublishShowsData
<1> DEFINE Shows ==
      ~delayed =>
        \A j \in Jobs \ EmptyJobs : pc[j] = "publish" /\ pc'[j] = "done" => OnMain'[j] = 1
<1>1. WInv /\ [Next]_vars => Shows
  <2> SUFFICES ASSUME WInv, [Next]_vars, ~delayed, NEW j \in Jobs \ EmptyJobs,
                      pc[j] = "publish", pc'[j] = "done"
               PROVE  OnMain'[j] = 1
    OBVIOUS
  <2>1. Publish(j)
    <3>1. ASSUME NEW k \in Jobs, k # j, Advance(k) \/ Crash(k) PROVE FALSE
      <4>1. PICK step : Proper(k, step)
        BY <3>1, JobStep
      <4> QED
        BY <3>1, <4>1 DEF Proper, Goto, WInv, LocalTypes
    <3>2. Advance(j) \/ Crash(j)
      BY <3>1 DEF Next, OtherWriter, locals, vars
    <3>3. ~Crash(j)
      BY Own DEF Crash
    <3> QED
      BY <3>2, <3>3 DEF Advance, Begin, Delete, Recreate, Create, Write,
                        CommitBranch, PublishLoad, Finish
  <2>2. LET req == PublishBranch(meta[j], j) IN Granted(req) /\ Apply(req)
    BY <2>1, Own DEF Publish, Accepted
  <2>3. OnMain' = At(snaps, refs[j]) /\ refs[j] # Gone
    BY <2>2, Published
  <2>4. Resumes(j) /\ Single(snaps) /\ j \in Refs /\ j \in Files
    BY JobsAssumption DEF WInv, Resumable, Orderly, Refs
  <2>5. At(snaps, refs[j])[j] >= 1
    BY <2>3, <2>4 DEF Resumes
  <2>6. At(snaps, refs[j])[j] <= 1 /\ At(snaps, refs[j])[j] \in Nat
    BY <2>4, Contents
  <2> QED
    BY <2>3, <2>5, <2>6
<1>2. [][Shows]_vars => PublishShowsData
  BY PTL DEF PublishShowsData
<1> QED
  BY <1>1, <1>2, AlwaysResumable, PTL DEF Spec

\* What was in a snapshot that main names is there afterwards.
LEMMA SameMain ==
  ASSUME WInv, refs'[Main] = refs[Main],
         snaps' = snaps \/ \E s, F, w : Continues(snaps', snaps, s, F, w)
  PROVE  OnMain' = OnMain
<1>1. refs[Main] \in 0 .. Len(snaps) /\ OnMain = At(snaps, refs[Main])
  BY Contents DEF OnMain, Refs
<1>2. OnMain' = At(snaps', refs'[Main])
  BY DEF OnMain, Content, At
<1> QED
  BY <1>1, <1>2 DEF Continues

\* A job's requests about its branch leave main alone.
LEMMA OwnBranch ==
  ASSUME WInv, Audited', NEW j \in Jobs,
         \/ Sent(CreateBranch(meta[j], j))
         \/ Sent(DeleteBranch(j))
         \/ Sent(CommitToBranch(meta[j], j, {j}, j))
  PROVE  OnMain' = OnMain
<1>0. Main # j /\ Main \in Refs /\ j \in Refs
  BY JobsAssumption, MainAssumption DEF Refs
<1>1. ASSUME UNCHANGED table PROVE OnMain' = OnMain
  BY <1>1, SameMain DEF table
<1>2. CASE Sent(CreateBranch(meta[j], j))
  <2>1. UNCHANGED table \/ Apply(CreateBranch(meta[j], j))
    BY <1>2, SentTypes DEF WInv
  <2>2. Apply(CreateBranch(meta[j], j))
          => snaps' = snaps /\ refs' = [refs EXCEPT ![j] = meta[j].refs[Main]]
    BY DEF Apply, CreateBranch
  <2> QED
    BY <1>0, <1>1, <2>1, <2>2, SameMain DEF WInv, Audited, RefsOk
<1>3. CASE Sent(DeleteBranch(j))
  <2>1. UNCHANGED table \/ Apply(DeleteBranch(j))
    BY <1>3, SentTypes DEF WInv
  <2>2. Apply(DeleteBranch(j)) => snaps' = snaps /\ refs' = [refs EXCEPT ![j] = Gone]
    BY DEF Apply, DeleteBranch
  <2> QED
    BY <1>0, <1>1, <2>1, <2>2, SameMain DEF WInv, Audited, RefsOk
<1>4. CASE Sent(CommitToBranch(meta[j], j, {j}, j))
  <2> DEFINE req == CommitToBranch(meta[j], j, {j}, j)
  <2>1. UNCHANGED table \/ (Granted(req) /\ Apply(req))
    BY <1>4, SentTypes DEF WInv
  <2>2. CASE Granted(req) /\ Apply(req)
    <3>1. meta[j].refs[j] \in 0 .. Len(snaps)
      BY <1>0 DEF WInv, Audited, RefsOk, OnlyOf
    <3>2. /\ refs' = [refs EXCEPT ![j] = Len(snaps) + 1]
          /\ Continues(snaps', snaps, refs[j], {j}, j)
      BY <2>2, <3>1, CommitEffect
    <3>3. refs'[Main] = refs[Main]
      BY <1>0, <3>2 DEF WInv, Audited, RefsOk
    <3> QED
      BY <3>2, <3>3, SameMain
  <2> QED
    BY <1>1, <2>1, <2>2
<1> QED
  BY <1>2, <1>3, <1>4

\* publish fast-forwards main: whatever jobs do and repeat, what was on main stays
\* there when nobody else moves it meanwhile.
THEOREM MainOnlyGrows == Spec => MainGrows
<1> DEFINE Grown == ~delayed /\ ~overlapped' => \A f \in Files : OnMain[f] <= OnMain'[f]
<1>1. WInv /\ [Next]_vars => Grown
  <2> SUFFICES ASSUME WInv, [Next]_vars, ~delayed, ~overlapped'
               PROVE  \A f \in Files : OnMain[f] <= OnMain'[f]
    OBVIOUS
  <2>0. Audited' /\ Main \in Refs /\ Main \notin Jobs
    BY AuditedStep, JobsAssumption, MainAssumption DEF WInv, Refs
  <2>1. OnMain \in [Files -> Nat] /\ OnMain = At(snaps, refs[Main])
    BY <2>0, Contents DEF OnMain
  <2>2. ASSUME OnMain' = OnMain PROVE \A f \in Files : OnMain[f] <= OnMain'[f]
    BY <2>1, <2>2
  <2>3. ASSUME UNCHANGED table PROVE OnMain' = OnMain
    BY <2>3, SameMain DEF table
  <2>4. ASSUME NEW j \in Jobs, Publish(j)
        PROVE  \A f \in Files : OnMain[f] <= OnMain'[f]
    <3> DEFINE req == PublishBranch(meta[j], j)
    <3>1. Sent(req) /\ MainMoves(j) /\ pc[j] = "publish"
      BY <2>4 DEF Publish, Sent
    <3>2. UNCHANGED table \/ (Granted(req) /\ Apply(req))
      BY <3>1, SentTypes DEF WInv
    <3>3. CASE Granted(req) /\ Apply(req)
      <4>1. OnMain' = At(snaps, refs[j]) /\ refs[j] # Gone
        BY <3>1, <3>3, Published
      <4>2. ~overlapped
        BY <3>1 DEF MainMoves
      <4>3. Ahead(j)
        BY <4>2 DEF WInv, Resumable
      <4> QED
        BY <2>1, <4>1, <4>3 DEF Ahead
    <3> QED
      BY <2>2, <2>3, <3>2, <3>3
  <2>5. ASSUME NEW f \in Others, OtherWriter(f)
        PROVE  \A g \in Files : OnMain[g] <= OnMain'[g]
    <3>1. /\ AddSnapshot(Plus(OnMain, {f}), "none")
          /\ refs' = [refs EXCEPT ![Main] = Len(snaps) + 1]
      BY <2>5 DEF OtherWriter, AppendToMain
    <3>2. PICK s, t : s = refs[Main] /\ t = snaps'
      OBVIOUS
    <3>3. s \in 0 .. Len(snaps) /\ snaps \in Seq(Snapshot)
      BY <2>0, <3>2, Contents DEF WInv, Audited
    <3>4. t = Append(snaps, [files |-> Plus(At(snaps, s), {f}), wap |-> "none"])
      BY <2>1, <3>1, <3>2 DEF AddSnapshot
    <3>5. Continues(t, snaps, s, {f}, "none")
      BY <3>3, <3>4, Extended
    <3>6. refs'[Main] = Len(snaps) + 1
      BY <2>0, <3>1 DEF WInv, Audited, RefsOk
    <3>7. OnMain' = At(snaps', refs'[Main])
      BY DEF OnMain, Content, At
    <3>8. OnMain' = Plus(OnMain, {f})
      BY <2>1, <3>2, <3>5, <3>6, <3>7 DEF Continues
    <3> QED
      BY <2>1, <3>8 DEF Plus
  <2>6. ASSUME NEW j \in Jobs, Advance(j) \/ Crash(j), ~Publish(j)
        PROVE  OnMain' = OnMain
    <3>1. CASE Delete(j) \/ Create(j) \/ CommitBranch(j)
      <4>1. \/ UNCHANGED table
            \/ Sent(CreateBranch(meta[j], j))
            \/ Sent(DeleteBranch(j))
            \/ Sent(CommitToBranch(meta[j], j, {j}, j))
        BY <3>1 DEF Delete, Create, CommitBranch, Sent, tableVars
      <4> QED
        BY <2>0, <2>3, <4>1, OwnBranch
    <3>2. CASE Begin(j) \/ Recreate(j) \/ Write(j) \/ PublishLoad(j) \/ Finish(j) \/ Crash(j)
      <4>1. UNCHANGED table
        BY <3>2 DEF Begin, Recreate, Write, PublishLoad, Finish, Crash, LoadFails, tableVars
      <4> QED
        BY <2>3, <4>1
    <3> QED
      BY <2>6, <3>1, <3>2 DEF Advance
  <2>7. ~Arrive
    BY DEF Arrive, WInv, Resumable, Orderly
  <2>8. CASE UNCHANGED vars
    BY <2>2, <2>3, <2>8 DEF vars, tableVars
  <2> QED
    BY <2>2, <2>4, <2>5, <2>6, <2>7, <2>8 DEF Next
<1>2. [][Grown]_vars => MainGrows
  BY PTL DEF MainGrows
<1> QED
  BY <1>1, <1>2, AlwaysResumable, PTL DEF Spec
=============================================================================
