--------------------------- MODULE ParquetSinkProofs ---------------------------
(***************************************************************************)
(* Facts about ParquetSink for all its constants: nothing accepted is lost *)
(* silently, what a commit answered for stays, and the bucket holds what   *)
(* it should.  They are proved of a clock that advances between two files. *)
(***************************************************************************)
EXTENDS ParquetSink, FiniteSetTheorems, TLAPS

ClockAdvances == "same_ms" \notin FaultKinds

NamesOf(F) == {f.name : f \in F}

File == [name : Nat, rows : SUBSET Nat, footer : BOOLEAN]
UploadRequest == [name : Nat, tries : 0..UploadRetries, stored : BOOLEAN]
Memory == [active : [name : Nat, rows : SUBSET Nat, buffer : SUBSET Nat], staged : Seq(Nat)]

\* What a part of a handler works on, its fault aside.
Outcome ==
  [mem : Memory, tmp : SUBSET File, target : SUBSET File, uploads : SUBSET UploadRequest,
   ok : BOOLEAN, fault : {"none", "open", "flush", "close", "rename"}]

\* A handler's outcome as it is at the end of the last one, with no fault yet.
Fresh(o) == o \in Outcome /\ o.ok /\ o.fault = "none"

(***************************************************************************)
(* The invariant, of an outcome o.  The names up to N and the records up   *)
(* to R have been used.                                                    *)
(***************************************************************************)

\* A file is in one place.  What is in the target directory or the bucket
\* under one name is one file; the active file is in tmp/; the staged files,
\* those that wait for their upload and those in tmp/ have different names.
Layout(o, N) ==
  /\ NamesOf(o.tmp \cup o.target \cup o.uploads) \cup StagedNames(o.mem) \subseteq 1..N
  /\ \A f, g \in o.tmp : f.name = g.name => f = g
  /\ \A f, g \in o.target \cup bucket : f.name = g.name => f = g
  /\ hist.committed \subseteq o.target \cup bucket
  /\ NamesOf(o.tmp) \cap NamesOf(o.target \cup bucket \cup o.uploads) = {}
  /\ StagedNames(o.mem) \cap NamesOf(o.tmp \cup o.uploads \cup bucket \cup hist.committed) = {}
  /\ IF o.mem.active.name = 0 THEN o.mem.active = NoFile
     ELSE o.mem.active.name \in NamesOf(o.tmp)

\* A record is in one file, or in memory.
RowsApart(o, R) ==
  LET all == o.tmp \cup o.target \cup bucket IN
  /\ Held(o.mem) \cup RowsOf(all) \subseteq 1..R
  /\ Held(o.mem) \cap RowsOf(all) = {}
  /\ \A f, g \in all : f.name # g.name => f.rows \cap g.rows = {}

\* What was rolled back is in files that could not be removed, which nothing
\* but recovery touches again.
RolledApart(o) ==
  /\ Held(o.mem) \cap hist.rolled = {}
  /\ \A f \in o.tmp \cup o.target \cup bucket :
       f.rows \cap hist.rolled # {} => f.name \in hist.stuck
  /\ hist.stuck \cap (StagedNames(o.mem) \cup NamesOf(o.tmp)) = {}
  /\ hist.stuck \cap NamesOf(o.uploads) \subseteq hist.recovered

\* A stored request's file is in the bucket; a request was made by a commit
\* or by recovery; a file was closed or recovered.
UploadsKnown(o) ==
  /\ \A u \in o.uploads : u.stored => Named(o.target, {u.name}) \subseteq bucket
  /\ \A f \in o.target : f.footer \/ (auto /\ f.name \in hist.recovered)

Sound(o, N, R) == Layout(o, N) /\ RowsApart(o, R) /\ RolledApart(o) /\ UploadsKnown(o)

Requested ==
  \A u \in uploads : u.name \in hist.recovered \/ Named(target, {u.name}) \subseteq hist.committed

\* A record that is only in tmp/ was never accepted, or given up with an error.
TmpTold == RowsOf(tmp) \cap hist.accepted \subseteq hist.told

HistType ==
  /\ hist \in [accepted : SUBSET Nat, written : Nat, told : SUBSET Nat, committed : SUBSET File,
               rolled : SUBSET Nat, stuck : SUBSET Nat, recovered : SUBSET Nat,
               givenUp : SUBSET Nat]
  /\ hist.written <= MaxRecords
  /\ hist.accepted \cup hist.rolled \subseteq 1..hist.written
  /\ hist.stuck \cup NamesOf(bucket \cup hist.committed) \subseteq 1..names

StateType ==
  /\ auto \in BOOLEAN /\ up \in {"down", "running", "stopped"} /\ server \in BOOLEAN
  /\ names \in 0..MaxFiles /\ opened \in 0..names /\ faults \in 0..MaxFaults
  /\ bucket \subseteq File /\ Now \in Outcome
  /\ IsFiniteSet(mem.active.buffer) /\ Cardinality(mem.active.buffer) <= BatchSize + faults
  /\ server \/ uploads = {}
  /\ up # "running" => mem = Forgotten

IInv ==
  /\ StateType /\ HistType
  /\ Sound(Now, names, hist.written)
  /\ Requested /\ TmpTold
  /\ NoSilentDrop
  /\ RolledBackStaysOut /\ OnlyCommittedOrRecovered /\ UnreadableOnlyRecovered

-----------------------------------------------------------------------------
(* What the parts of a handler do.                                         *)

SameDisk(o, p) == p.tmp = o.tmp /\ p.target = o.target /\ p.uploads = o.uploads

\* The file that the active file of o becomes.
FileOf(o) == [name |-> o.mem.active.name, rows |-> Held(o.mem), footer |-> TRUE]

\* p is o with its buffer written.
Flushes(o, p) ==
  /\ Fresh(p) /\ SameDisk(o, p) /\ p.mem.staged = o.mem.staged
  /\ p.mem.active.name = o.mem.active.name
  /\ p.mem.active.buffer = {} /\ Held(p.mem) = Held(o.mem)

Halts(o, p, kind) ==
  p \in Outcome /\ ~ p.ok /\ p.fault = kind /\ SameDisk(o, p) /\ p.mem = o.mem

\* The active file is closed and staged.
Closes(o, p) ==
  /\ Fresh(p) /\ o.mem.active.name # 0 /\ p.mem.active = NoFile
  /\ p.mem.staged = Append(o.mem.staged, o.mem.active.name)
  /\ p.tmp = o.tmp \ Named(o.tmp, {o.mem.active.name})
  /\ p.target = Put(o.target, FileOf(o)) /\ p.uploads = o.uploads

\* It is lost, with what it held, or left in tmp/.
Loses(o, p) ==
  /\ p \in Outcome /\ ~ p.ok /\ o.mem.active.name # 0 /\ p.mem.active = NoFile
  /\ p.mem.staged = o.mem.staged
  /\ p.target = o.target /\ p.uploads = o.uploads
  /\ \/ p.fault = "close" /\ p.tmp = o.tmp
     \/ p.fault = "rename" /\ p.tmp = Put(o.tmp, FileOf(o))

Nothing(o, p) == p = o /\ o.mem.active.name = 0

\* flush_buffer writes the buffer or leaves everything as it is.
LEMMA FlushKinds ==
  ASSUME NEW o, Fresh(o), NEW p \in Flush(o)
  PROVE  Flushes(o, p) \/ Halts(o, p, "flush")
<1>1. CASE o.mem.active.buffer = {}
  BY <1>1 DEF Flush, Fresh, Flushes, SameDisk
<1>2. CASE o.mem.active.buffer # {} /\ p = [o EXCEPT !.mem.active = Flushed(@)]
  BY <1>2 DEF Flushes, Fresh, Flushed, SameDisk, Held, Outcome, Memory
<1>3. CASE o.mem.active.buffer # {} /\ p = Failed(o, "flush")
  BY <1>3 DEF Failed, Halts, Fresh, SameDisk, Outcome, Memory
<1> QED
  BY <1>1, <1>2, <1>3 DEF Flush

\* maybe_close_active_sink closes the active file, or fails on the way.
LEMMA CloseKinds ==
  ASSUME NEW o, Fresh(o), o.mem.active.name = 0 => o.mem.active = NoFile,
         NEW p \in Close(o)
  PROVE  Nothing(o, p) \/ Halts(o, p, "flush") \/ Closes(o, p) \/ Loses(o, p)
<1>1. PICK q \in Flush(o) : IF q.ok THEN p \in TakeActive(q) ELSE p = q
  BY DEF Close, Then
<1>2. CASE Halts(o, q, "flush")
  BY <1>1, <1>2 DEF Halts
<1>3. CASE Flushes(o, q)
  <2>1. p \in TakeActive(q)
    BY <1>1, <1>3 DEF Flushes, Fresh
  <2>2. CASE o.mem.active.name = 0
    <3>1. q = o
      BY <1>1, <2>2 DEF Flush, NoFile
    <3> QED
      BY <2>1, <2>2, <3>1 DEF TakeActive, Nothing
  <2>3. CASE o.mem.active.name # 0
    <3>1. q.mem.active # NoFile
      BY <1>3, <2>3 DEF Flushes, NoFile
    <3>2. Closed(q.mem.active) = FileOf(o)
      BY <1>3 DEF Flushes, Held, Closed, FileOf, Fresh, Outcome, Memory
    <3>3. FileOf(o) \in File
      BY DEF FileOf, File, Held, Fresh, Outcome, Memory
    <3> DEFINE taken == [q EXCEPT !.mem = Emptied(@)]
    <3>4. taken \in Outcome /\ taken.mem.active = NoFile /\ SameDisk(o, taken)
          /\ taken.mem.staged = o.mem.staged
      BY <1>3 DEF Flushes, Fresh, Emptied, NoFile, Outcome, Memory, SameDisk
    <3>5. CASE p = [taken EXCEPT !.mem.staged = Append(@, q.mem.active.name),
                                 !.tmp = @ \ Named(@, {q.mem.active.name}),
                                 !.target = Put(@, Closed(q.mem.active))]
      <4>1. Put(o.target, FileOf(o)) \subseteq File
        BY <3>3 DEF Put, Fresh, Outcome
      <4>2. q.mem.active.name = o.mem.active.name /\ o.mem.active.name \in Nat
        BY <1>3 DEF Flushes, Fresh, Outcome, Memory
      <4>3. Append(o.mem.staged, o.mem.active.name) \in Seq(Nat)
        BY <4>2 DEF Fresh, Outcome, Memory
      <4>4. taken.ok /\ taken.fault = "none"
        BY <1>3 DEF Flushes, Fresh, Outcome
      <4>5. p = [taken EXCEPT !.mem.staged = Append(o.mem.staged, o.mem.active.name),
                              !.tmp = o.tmp \ Named(o.tmp, {o.mem.active.name}),
                              !.target = Put(o.target, FileOf(o))]
        BY <3>2, <3>4, <3>5, <4>2 DEF SameDisk, Outcome, Memory
      <4> QED
        BY <2>3, <3>4, <4>1, <4>3, <4>4, <4>5 DEF Closes, Fresh, Outcome, Memory, SameDisk
    <3>6. CASE p = Failed(taken, "close")
      BY <1>3, <2>3, <3>4, <3>6 DEF Loses, Failed, Outcome, SameDisk
    <3>7. CASE p = Failed([taken EXCEPT !.tmp = Put(@, Closed(q.mem.active))], "rename")
      <4>1. Put(o.tmp, FileOf(o)) \subseteq File
        BY <3>3 DEF Put, Fresh, Outcome
      <4> QED
        BY <2>3, <3>2, <3>4, <3>7, <4>1 DEF Loses, Failed, Outcome, SameDisk
    <3> QED
      BY <2>1, <3>1, <3>5, <3>6, <3>7 DEF TakeActive
  <2> QED
    BY <2>2, <2>3
<1> QED
  BY <1>1, <1>2, <1>3, FlushKinds

-----------------------------------------------------------------------------
(* The parts keep the invariant.                                           *)

LEMMA StagedAppend ==
  ASSUME NEW m \in Memory, NEW n \in Nat, NEW l, l.staged = Append(m.staged, n)
  PROVE  StagedNames(l) = StagedNames(m) \cup {n}
<1> DEFINE s == m.staged
           t == Append(s, n)
<1>1. s \in Seq(Nat) /\ Len(s) \in Nat
  BY DEF Memory
<1>2. /\ DOMAIN s = 1..Len(s) /\ DOMAIN t = 1..Len(s) + 1
      /\ t[Len(s) + 1] = n /\ \A i \in 1..Len(s) : t[i] = s[i]
  BY <1>1
<1>3. {t[i] : i \in DOMAIN t} = {s[i] : i \in DOMAIN s} \cup {n}
  <2>1. ASSUME NEW i \in DOMAIN t PROVE t[i] \in {s[j] : j \in DOMAIN s} \cup {n}
    <3>1. i \in 1..Len(s) \/ i = Len(s) + 1
      BY <1>1, <1>2, <2>1
    <3> QED
      BY <1>2, <3>1
  <2>2. ASSUME NEW j \in DOMAIN s PROVE s[j] \in {t[i] : i \in DOMAIN t}
    <3>1. j \in DOMAIN t /\ t[j] = s[j]
      BY <1>1, <1>2
    <3> QED
      BY <3>1
  <2>3. n \in {t[i] : i \in DOMAIN t}
    <3>1. Len(s) + 1 \in DOMAIN t
      BY <1>1, <1>2
    <3> QED
      BY <1>2, <3>1
  <2> QED
    BY <2>1, <2>2, <2>3
<1> QED
  BY <1>3 DEF StagedNames

LEMMA NothingHeld ==
  ASSUME NEW m \in Memory, m.active = NoFile
  PROVE  Held(m) = {} /\ m.active.name = 0
BY DEF Held, NoFile, Memory

LEMMA FlushesSound ==
  ASSUME NEW N, NEW R, NEW o \in Outcome, NEW p, Flushes(o, p) \/ Halts(o, p, "flush"),
         o.mem.active.name # 0, Sound(o, N, R)
  PROVE  Sound(p, N, R)
<1> Held(p.mem) = Held(o.mem) /\ SameDisk(o, p) /\ p.mem.active.name = o.mem.active.name
    /\ p.mem.staged = o.mem.staged
  BY DEF Flushes, Halts
<1>1. StagedNames(p.mem) = StagedNames(o.mem)
  BY DEF StagedNames
<1> QED
  BY <1>1 DEF Sound, Layout, RowsApart, RolledApart, UploadsKnown, SameDisk

LEMMA ClosesSound ==
  ASSUME NEW N \in Nat, NEW R \in Nat, bucket \subseteq File, HistType,
         NEW o \in Outcome, NEW p, Closes(o, p), Sound(o, N, R)
  PROVE  Sound(p, N, R)
<1> DEFINE a == o.mem.active.name
           F == FileOf(o)
<1>1. a \in Nat /\ p \in Outcome /\ o.mem \in Memory /\ p.mem \in Memory
  BY DEF Closes, Fresh, Outcome, Memory
<1>2. StagedNames(p.mem) = StagedNames(o.mem) \cup {a}
  <2>1. p.mem.staged = Append(o.mem.staged, a)
    BY DEF Closes
  <2> QED
    BY <1>1, <2>1, StagedAppend
<1>3. Held(p.mem) = {} /\ p.mem.active.name = 0 /\ p.mem.active = NoFile
  BY <1>1, NothingHeld DEF Closes
<1>4. a \in NamesOf(o.tmp) /\ a \notin NamesOf(o.target \cup bucket \cup o.uploads)
  BY DEF Sound, Layout, Closes
<1>5. p.target = o.target \cup {F} /\ F.name = a /\ F.rows = Held(o.mem) /\ F.footer
  BY <1>4 DEF Closes, Put, NamesOf, FileOf
<1>6. p.tmp = {f \in o.tmp : f.name # a} /\ p.uploads = o.uploads
  BY DEF Closes, Named
<1>7. \A f \in o.tmp \cup o.target \cup bucket : f.rows \cap Held(o.mem) = {}
  BY DEF Sound, RowsApart, RowsOf
<1>8. Layout(p, N)
  <2>1. NamesOf(p.tmp \cup p.target \cup p.uploads) \cup StagedNames(p.mem) \subseteq 1..N
    BY <1>2, <1>4, <1>5, <1>6 DEF Sound, Layout, NamesOf
  <2>2. \A f, g \in p.tmp : f.name = g.name => f = g
    BY <1>6 DEF Sound, Layout
  <2>3. \A f, g \in p.target \cup bucket : f.name = g.name => f = g
    BY <1>4, <1>5 DEF Sound, Layout, NamesOf
  <2>4. NamesOf(p.tmp) \cap NamesOf(p.target \cup bucket \cup p.uploads) = {}
    BY <1>5, <1>6 DEF Sound, Layout, NamesOf
  <2>5. StagedNames(p.mem) \cap NamesOf(p.tmp \cup p.uploads \cup bucket \cup hist.committed) = {}
    BY <1>2, <1>4, <1>6 DEF Sound, Layout, NamesOf
  <2>6. hist.committed \subseteq p.target \cup bucket
    BY <1>5 DEF Sound, Layout
  <2> QED
    BY <1>3, <2>1, <2>2, <2>3, <2>4, <2>5, <2>6 DEF Layout
<1>9. RowsApart(p, R)
  BY <1>3, <1>5, <1>6, <1>7 DEF Sound, RowsApart, RowsOf
<1>10. RolledApart(p)
  <2>1. F.rows \cap hist.rolled = {}
    BY <1>5 DEF Sound, RolledApart
  <2>2. hist.stuck \cap (StagedNames(p.mem) \cup NamesOf(p.tmp)) = {}
    BY <1>2, <1>4, <1>6 DEF Sound, RolledApart, NamesOf
  <2> QED
    BY <1>3, <1>5, <1>6, <2>1, <2>2 DEF Sound, RolledApart
<1>11. UploadsKnown(p)
  BY <1>4, <1>5, <1>6 DEF Sound, UploadsKnown, Named, NamesOf
<1> QED
  BY <1>8, <1>9, <1>10, <1>11 DEF Sound

LEMMA LosesSound ==
  ASSUME NEW N \in Nat, NEW R \in Nat, bucket \subseteq File, HistType,
         NEW o \in Outcome, NEW p, Loses(o, p), Sound(o, N, R)
  PROVE  Sound(p, N, R)
<1> DEFINE a == o.mem.active.name
           F == FileOf(o)
<1>1. p \in Outcome /\ p.mem \in Memory
  BY DEF Loses, Outcome
<1>2. StagedNames(p.mem) = StagedNames(o.mem)
  BY DEF Loses, StagedNames
<1>3. Held(p.mem) = {} /\ p.mem.active.name = 0 /\ p.mem.active = NoFile
  BY <1>1, NothingHeld DEF Loses
<1>4. a \in NamesOf(o.tmp) /\ p.target = o.target /\ p.uploads = o.uploads
  BY DEF Sound, Layout, Loses
<1>5. F.name = a /\ F.rows = Held(o.mem)
  BY DEF FileOf
<1>6. p.tmp = o.tmp \/ p.tmp = {f \in o.tmp : f.name # a} \cup {F}
  BY <1>5 DEF Loses, Put
<1>7. NamesOf(p.tmp) = NamesOf(o.tmp)
  BY <1>4, <1>5, <1>6 DEF NamesOf
<1>8. Layout(p, N)
  BY <1>2, <1>3, <1>4, <1>5, <1>6, <1>7 DEF Sound, Layout, NamesOf
<1>9. RowsApart(p, R)
  BY <1>3, <1>4, <1>5, <1>6 DEF Sound, RowsApart, RowsOf
<1>10. RolledApart(p)
  BY <1>2, <1>3, <1>4, <1>5, <1>6, <1>7 DEF Sound, RolledApart
<1>11. UploadsKnown(p)
  BY <1>4 DEF Sound, UploadsKnown
<1> QED
  BY <1>8, <1>9, <1>10, <1>11 DEF Sound

-----------------------------------------------------------------------------
(* Whole handlers.                                                         *)

\* What a handler's outcome o keeps of what the handler began with, i: closed
\* files, and the records in memory unless it failed and says so; and a commit
\* covers all of them.
Keeps(i, o) ==
  /\ o \in Outcome /\ o.mem.active.buffer \subseteq i.mem.active.buffer
  /\ i.target \subseteq o.target
  /\ o.ok \/ o.fault = "flush" => Held(i.mem) \subseteq Held(o.mem) \cup RowsOf(o.target)
  /\ \/ RowsOf(o.tmp) \subseteq RowsOf(i.tmp)
     \/ /\ ~ o.ok /\ o.fault # "flush" /\ Held(o.mem) = {} /\ o.target = i.target
        /\ RowsOf(o.tmp) \subseteq RowsOf(i.tmp) \cup Held(i.mem)
  /\ \A u \in i.uploads : Named(o.target, {u.name}) \subseteq i.target
  /\ \/ o.uploads = i.uploads
     \/ /\ o.ok
        /\ Held(i.mem) \cup StagedRows(i)
             \subseteq RowsOf(Named(o.target, NamesOf(o.uploads \ i.uploads)))
  /\ server \/ o.uploads = i.uploads

\* What holds before each part of a handler, and during it.
Context(N, R) == N \in Nat /\ R \in Nat /\ bucket \subseteq File /\ HistType

\* Closing the active file keeps the invariant and what there is.
LEMMA CloseKeeps ==
  ASSUME NEW N, NEW R, Context(N, R), NEW i, Fresh(i), Sound(i, N, R), NEW o \in Close(i)
  PROVE  /\ Sound(o, N, R) /\ Keeps(i, o) /\ o.fault # "open"
         /\ o.ok => Nothing(i, o) \/ Closes(i, o)
<1> i \in Outcome /\ i.mem \in Memory
  BY DEF Fresh, Outcome
<1>1. Nothing(i, o) \/ Halts(i, o, "flush") \/ Closes(i, o) \/ Loses(i, o)
  BY CloseKinds DEF Sound, Layout
<1>2. CASE Nothing(i, o)
  BY <1>2 DEF Nothing, Keeps, Fresh, Named
<1>3. CASE Halts(i, o, "flush")
  <2>1. CASE i.mem.active.name = 0
    <3>1. i.mem.active = NoFile
      BY <2>1 DEF Sound, Layout
    <3>2. o.mem = i.mem /\ SameDisk(i, o)
      BY <1>3 DEF Halts
    <3>3. StagedNames(o.mem) = StagedNames(i.mem) /\ Held(o.mem) = Held(i.mem)
      BY <3>2
    <3>4. Sound(o, N, R)
      BY <3>2 DEF Sound, Layout, RowsApart, RolledApart, UploadsKnown, SameDisk
    <3> QED
      BY <1>3, <3>4 DEF Halts, Keeps, SameDisk, Named, Closes
  <2>2. CASE i.mem.active.name # 0
    BY <1>3, <2>2, FlushesSound DEF Halts, Keeps, SameDisk, Named
  <2> QED
    BY <2>1, <2>2
<1>4. CASE Closes(i, o)
  <2>1. Sound(o, N, R)
    BY <1>4, ClosesSound DEF Context
  <2>2. Held(o.mem) = {} /\ o.mem.active.buffer = {}
    BY <1>4, NothingHeld DEF Closes, Fresh, Outcome, NoFile
  <2>3. i.mem.active.name \in NamesOf(i.tmp)
    BY <1>4 DEF Sound, Layout, Closes
  <2>4. o.target = i.target \cup {FileOf(i)}
    BY <1>4, <2>3 DEF Closes, Sound, Layout, Put, NamesOf, FileOf
  <2>5. FileOf(i).rows = Held(i.mem) /\ FileOf(i).name = i.mem.active.name
    BY DEF FileOf
  <2>6. \A u \in i.uploads : Named(o.target, {u.name}) \subseteq i.target
    BY <2>3, <2>4, <2>5 DEF Sound, Layout, Named, NamesOf
  <2>7. Held(i.mem) \subseteq RowsOf(o.target) /\ RowsOf(o.tmp) \subseteq RowsOf(i.tmp)
    BY <1>4, <2>4, <2>5 DEF RowsOf, Closes
  <2> QED
    BY <1>4, <2>1, <2>2, <2>4, <2>6, <2>7 DEF Keeps, Closes, Fresh
<1>5. CASE Loses(i, o)
  <2>1. Sound(o, N, R)
    BY <1>5, LosesSound DEF Context
  <2>2. Held(o.mem) = {} /\ o.mem.active.buffer = {}
    BY <1>5, NothingHeld DEF Loses, Outcome, NoFile
  <2>3. RowsOf(o.tmp) \subseteq RowsOf(i.tmp) \cup Held(i.mem)
    BY <1>5 DEF RowsOf, Loses, Put, FileOf
  <2> QED
    BY <1>5, <2>1, <2>2, <2>3 DEF Keeps, Loses, Named
<1> QED
  BY <1>1, <1>2, <1>3, <1>4, <1>5 DEF Halts, Loses

\* The requests of the staged files.
Queues(p, o) ==
  /\ o \in Outcome /\ o.fault = p.fault /\ o.mem.staged = <<>>
  /\ o.mem.active = p.mem.active /\ o.tmp = p.tmp /\ o.target = p.target
  /\ \/ o.ok /\ o.uploads = p.uploads \cup {Request(n) : n \in StagedNames(p.mem)}
     \/ o.ok /\ StagedNames(p.mem) = {} /\ o.uploads = p.uploads
     \/ ~ o.ok /\ o.uploads = p.uploads
  /\ server \/ o.uploads = p.uploads

LEMMA QueueKinds ==
  ASSUME SinkAssumption, server \in BOOLEAN, NEW p, Fresh(p), NEW o \in Queue(p)
  PROVE  Queues(p, o)
<1>1. StagedNames(p.mem) \subseteq Nat
  BY DEF StagedNames, Fresh, Outcome, Memory
<1>2. \A n \in StagedNames(p.mem) : Request(n) \in UploadRequest
  BY <1>1 DEF Request, UploadRequest, SinkAssumption
<1>3. p.mem.staged = <<>> => StagedNames(p.mem) = {}
  BY DEF StagedNames
<1> DEFINE new == {Request(n) : n \in StagedNames(p.mem)}
<1>4. new \subseteq UploadRequest
  BY <1>2
<1> HIDE DEF new
<1> DEFINE l == [p.mem EXCEPT !.staged = <<>>]
<1>5. o = [p EXCEPT !.mem = l,
                    !.uploads = IF server THEN p.uploads \cup new ELSE p.uploads,
                    !.ok = server \/ p.mem.staged = <<>>]
  BY DEF Queue, Fresh, Outcome, new
<1>6. l \in Memory /\ l.staged = <<>> /\ l.active = p.mem.active
  <2>1. p.mem \in Memory
    BY DEF Fresh, Outcome
  <2>2. <<>> \in Seq(Nat)
    OBVIOUS
  <2> QED
    BY <2>1, <2>2 DEF Memory
<1> HIDE DEF l
<1>7. /\ o.mem = l /\ o.tmp = p.tmp /\ o.target = p.target /\ o.fault = p.fault
      /\ o.uploads = IF server THEN p.uploads \cup new ELSE p.uploads
      /\ o.ok = (server \/ p.mem.staged = <<>>)
  BY <1>5 DEF Fresh, Outcome
<1>8. o \in Outcome
  <2>1. (IF server THEN p.uploads \cup new ELSE p.uploads) \subseteq UploadRequest
    BY <1>4 DEF Fresh, Outcome
  <2>2. (server \/ p.mem.staged = <<>>) \in BOOLEAN
    OBVIOUS
  <2> QED
    BY <1>5, <1>6, <2>1, <2>2 DEF Fresh, Outcome
<1> QED
  BY <1>3, <1>6, <1>7, <1>8 DEF Queues, new

\* A commit keeps the invariant and what there is.
LEMMA CommitKeeps ==
  ASSUME SinkAssumption, server \in BOOLEAN,
         NEW N, NEW R, Context(N, R), NEW i, Fresh(i), Sound(i, N, R), NEW o \in CommitAll(i)
  PROVE  Sound(o, N, R) /\ Keeps(i, o) /\ o.fault # "open"
<1>1. PICK p \in Close(i) : IF p.ok THEN o \in Queue(p) ELSE o = p
  BY DEF CommitAll, Then
<1>2. Sound(p, N, R) /\ Keeps(i, p) /\ p.fault # "open" /\ (p.ok => Nothing(i, p) \/ Closes(i, p))
  BY CloseKeeps
<1>3. CASE ~ p.ok
  BY <1>1, <1>2, <1>3
<1>4. CASE p.ok
  <2>1. Fresh(p)
    BY <1>2, <1>4 DEF Nothing, Closes
  <2>2. Queues(p, o)
    BY <1>1, <1>4, <2>1, QueueKinds
  <2>3. StagedNames(o.mem) = {} /\ Held(o.mem) = Held(p.mem)
    BY <2>2 DEF Queues, StagedNames, Held
  <2> DEFINE new == {Request(n) : n \in StagedNames(p.mem)}
  <2>4. NamesOf(new) = StagedNames(p.mem) /\ \A u \in new : ~ u.stored
    <3>1. \A n : Request(n).name = n /\ ~ Request(n).stored
      BY DEF Request
    <3> QED
      BY <3>1 DEF NamesOf
  <2>5. o.uploads \subseteq p.uploads \cup new
    BY <2>2 DEF Queues
  <2>6. NamesOf(o.uploads) \subseteq NamesOf(p.uploads) \cup StagedNames(p.mem)
    BY <2>4, <2>5 DEF NamesOf
  <2> HIDE DEF new
  <2>7. Sound(o, N, R)
    <3>1. Layout(o, N)
      <4> o.mem.active = p.mem.active /\ o.tmp = p.tmp /\ o.target = p.target
        BY <2>2 DEF Queues
      <4> Layout(p, N)
        BY <1>2 DEF Sound
      <4>1. NamesOf(o.tmp \cup o.target \cup o.uploads) \cup StagedNames(o.mem) \subseteq 1..N
        <5>1. NamesOf(o.tmp \cup o.target \cup o.uploads)
                \subseteq NamesOf(p.tmp \cup p.target \cup p.uploads) \cup NamesOf(o.uploads)
          BY DEF NamesOf
        <5>2. NamesOf(p.uploads) \subseteq NamesOf(p.tmp \cup p.target \cup p.uploads)
          BY DEF NamesOf
        <5> QED
          BY <2>3, <2>6, <5>1, <5>2 DEF Layout
      <4>2. NamesOf(o.tmp) \cap NamesOf(o.target \cup bucket \cup o.uploads) = {}
        <5>1. NamesOf(o.target \cup bucket \cup o.uploads)
                \subseteq NamesOf(p.target \cup bucket \cup p.uploads) \cup StagedNames(p.mem)
          <6>1. NamesOf(o.target \cup bucket \cup o.uploads)
                  = NamesOf(p.target \cup bucket) \cup NamesOf(o.uploads)
            BY DEF NamesOf
          <6>2. NamesOf(p.target \cup bucket) \cup NamesOf(p.uploads)
                  = NamesOf(p.target \cup bucket \cup p.uploads)
            BY DEF NamesOf
          <6> QED
            BY <2>6, <6>1, <6>2
        <5>2. NamesOf(p.tmp) \cap StagedNames(p.mem) = {}
          BY DEF Layout, NamesOf
        <5> QED
          BY <5>1, <5>2 DEF Layout
      <4> QED
        BY <2>3, <4>1, <4>2 DEF Layout
    <3>2. RolledApart(o)
      BY <1>2, <2>2, <2>3, <2>6 DEF Sound, RolledApart, Queues
    <3> QED
      BY <1>2, <2>2, <2>3, <2>4, <2>5, <3>1, <3>2
         DEF Sound, RowsApart, UploadsKnown, Queues
  <2>8. p.uploads = i.uploads
    BY <1>2, <1>4 DEF Nothing, Closes
  <2>9. ASSUME o.ok
        PROVE  Held(i.mem) \cup StagedRows(i)
                 \subseteq RowsOf(Named(o.target, NamesOf(o.uploads \ i.uploads)))
    <3>1. NamesOf(o.uploads \ i.uploads) = StagedNames(p.mem)
      <4>1. new \cap p.uploads = {}
        BY <1>2, <2>4 DEF Sound, Layout, NamesOf
      <4> QED
        BY <2>2, <2>4, <2>8, <2>9, <4>1 DEF Queues, NamesOf, new
    <3>2. o.target = p.target
      BY <2>2 DEF Queues
    <3>3. CASE Nothing(i, p)
      <4>1. Held(i.mem) = {} /\ p = i
        BY <3>3, NothingHeld DEF Nothing, Sound, Layout, Fresh, Outcome
      <4> QED
        BY <3>1, <3>2, <4>1 DEF StagedRows
    <3>4. CASE Closes(i, p)
      <4>1. StagedNames(p.mem) = StagedNames(i.mem) \cup {i.mem.active.name}
        <5>1. i.mem \in Memory /\ i.mem.active.name \in Nat
          BY DEF Fresh, Outcome, Memory
        <5> QED
          BY <3>4, <5>1, StagedAppend DEF Closes
      <4>2. FileOf(i) \in p.target /\ i.target \subseteq p.target
        BY <1>2, <3>4 DEF Closes, Put, Keeps
      <4>3. FileOf(i).rows = Held(i.mem) /\ FileOf(i).name = i.mem.active.name
        BY DEF FileOf
      <4> QED
        <5> DEFINE files == Named(o.target, NamesOf(o.uploads \ i.uploads))
        <5>1. files = {f \in p.target : f.name \in StagedNames(i.mem) \cup {i.mem.active.name}}
          BY <3>1, <3>2, <4>1 DEF Named
        <5>2. FileOf(i) \in files /\ Named(i.target, StagedNames(i.mem)) \subseteq files
          BY <4>2, <4>3, <5>1 DEF Named
        <5> HIDE DEF files
        <5> QED
          BY <4>3, <5>2 DEF StagedRows, RowsOf, files
    <3> QED
      BY <1>2, <1>4, <3>3, <3>4
  <2>10. Keeps(i, o)
    <3>1. Held(i.mem) \subseteq Held(o.mem) \cup RowsOf(o.target)
      BY <1>2, <1>4, <2>2, <2>3 DEF Keeps, Queues
    <3>2. o.uploads = i.uploads \/ o.ok
      BY <2>2, <2>8 DEF Queues
    <3> QED
      BY <1>2, <1>4, <2>2, <2>3, <2>9, <3>1, <3>2 DEF Keeps, Queues
  <2>11. o.fault # "open"
    BY <1>2, <2>2 DEF Queues
  <2> QED
    BY <2>7, <2>10, <2>11
<1> QED
  BY <1>3, <1>4

LEMMA RotateKeeps ==
  ASSUME SinkAssumption, server \in BOOLEAN,
         NEW N, NEW R, Context(N, R), NEW i, Fresh(i), Sound(i, N, R), NEW o \in Rotate(i)
  PROVE  Sound(o, N, R) /\ Keeps(i, o) /\ o.fault # "open"
BY CloseKeeps, CommitKeeps DEF Rotate

\* A file is opened under a name nobody has used, or nothing happens.
Opened(p, N) ==
  /\ Fresh(p) /\ Sound(p, N, hist.written) /\ p.mem.active.name # 0
  /\ Held(p.mem) = Held(mem) /\ p.mem.active.buffer = mem.active.buffer
  /\ p.mem.staged = mem.staged
  /\ p.target = target /\ p.uploads = uploads /\ RowsOf(p.tmp) = RowsOf(tmp)

NameAfter(n) == IF n < names THEN names ELSE n

LEMMA OpenKinds ==
  ASSUME SinkAssumption, ClockAdvances, IInv,
         NEW n \in IF mem.active = NoFile THEN NextNames ELSE {mem.active.name},
         NEW p \in Open(Now, n)
  PROVE  /\ n \in 1..MaxFiles /\ NameAfter(n) \in names..MaxFiles /\ n <= NameAfter(n)
         /\ Opened(p, NameAfter(n)) \/ (Halts(Now, p, "open") /\ Held(mem) = {})
<1> USE DEF IInv
<1>1. /\ Now.mem = mem /\ Now.tmp = tmp /\ Now.target = target /\ Now.uploads = uploads
      /\ Now.ok = TRUE /\ Now.fault = "none"
  BY DEF Now
<1>2. Now \in Outcome /\ mem \in Memory /\ Fresh(Now)
  BY <1>1 DEF StateType, Outcome, Fresh
<1>3. names \in 0..MaxFiles /\ MaxFiles \in Nat
  BY DEF StateType, SinkAssumption
<1>4. CASE mem.active # NoFile
  <2>1. mem.active.name # 0 /\ mem.active.name \in NamesOf(tmp)
    BY <1>1, <1>4 DEF Sound, Layout
  <2>2. n = mem.active.name /\ n \in 1..names
    BY <1>1, <1>4, <2>1 DEF Sound, Layout, NamesOf
  <2>3. NameAfter(n) = names
    BY <1>3, <2>2 DEF NameAfter
  <2>4. p = Now
    BY <1>1, <1>4 DEF Open
  <2> QED
    BY <1>1, <1>2, <1>3, <2>1, <2>2, <2>3, <2>4 DEF Opened
<1>5. CASE mem.active = NoFile
  <2>1. n = names + 1 /\ n \in 1..MaxFiles
    BY <1>5, <1>3 DEF NextNames, ClockAdvances
  <2>0. n \in Nat /\ n # 0
    <3>1. names + 1 \in Nat /\ names + 1 # 0
      BY <1>3
    <3> QED
      BY <2>1, <3>1
  <2>2. NameAfter(n) = n
    BY <1>3, <2>1 DEF NameAfter
  <2>3. Held(mem) = {} /\ mem.active.name = 0 /\ mem.active.buffer = {}
    BY <1>2, <1>5, NothingHeld DEF NoFile
  <2>4. CASE p = Failed(Now, "open")
    <3>1. Halts(Now, p, "open")
      BY <1>1, <1>2, <2>4 DEF Halts, Failed, SameDisk, Outcome
    <3> QED
      BY <1>3, <2>1, <2>2, <2>3, <3>1
  <2>5. CASE p = [Now EXCEPT !.mem.active = [NoFile EXCEPT !.name = n],
                             !.tmp = Put(@, [name |-> n, rows |-> {}, footer |-> FALSE])]
    <3> DEFINE F == [name |-> n, rows |-> {}, footer |-> FALSE]
    <3>1. F \in File /\ F.name = n /\ F.rows = {}
      BY <1>3, <2>1 DEF File
    <3>2. n \notin NamesOf(tmp \cup target \cup uploads) \cup StagedNames(mem) \cup hist.stuck
             \cup NamesOf(bucket \cup hist.committed)
      <4>1. NamesOf(tmp \cup target \cup uploads) \cup StagedNames(mem) \subseteq 1..names
        BY <1>1 DEF Sound, Layout
      <4>2. hist.stuck \cup NamesOf(bucket \cup hist.committed) \subseteq 1..names
        BY DEF HistType
      <4>3. n \notin 1..names
        BY <1>3, <2>1
      <4> QED
        BY <4>1, <4>2, <4>3
    <3>3. Put(tmp, F) = tmp \cup {F}
      BY <3>1, <3>2 DEF Put, NamesOf
    <3> HIDE DEF F
    <3>4. p = [Now EXCEPT !.mem = [mem EXCEPT !.active = [NoFile EXCEPT !.name = n]],
                          !.tmp = tmp \cup {F}]
      BY <1>1, <2>5, <3>3 DEF F, Now
    <3>5. LET m == [mem EXCEPT !.active = [NoFile EXCEPT !.name = n]] IN
            /\ m \in Memory /\ m.staged = mem.staged /\ m.active.name = n /\ Held(m) = {}
            /\ m.active.buffer = {}
      <4> DEFINE a == [NoFile EXCEPT !.name = n]
                 m == [mem EXCEPT !.active = a]
      <4>1. a = [name |-> n, rows |-> {}, buffer |-> {}] /\ n \in Nat
        BY <2>0 DEF NoFile
      <4>2. m.active = a /\ m.staged = mem.staged /\ m \in Memory
        BY <1>2, <4>1 DEF Memory
      <4>3. a.name = n /\ a.rows = {} /\ a.buffer = {}
        BY <4>1
      <4> QED
        BY <4>2, <4>3 DEF Held
    <3>6. /\ Fresh(p) /\ p.mem.staged = mem.staged /\ p.mem.active.name = n /\ Held(p.mem) = {}
          /\ p.mem.active.buffer = {}
          /\ p.tmp = tmp \cup {F} /\ p.target = target /\ p.uploads = uploads
      BY <1>1, <1>2, <3>1, <3>4, <3>5 DEF Fresh, Outcome
    <3>7. StagedNames(p.mem) = StagedNames(mem) /\ NamesOf(p.tmp) = NamesOf(tmp) \cup {n}
          /\ RowsOf(p.tmp) = RowsOf(tmp)
      BY <3>1, <3>6 DEF StagedNames, NamesOf, RowsOf
    <3>8. Layout(p, n)
      <4> Layout(Now, names)
        BY DEF Sound
      <4>1. NamesOf(p.tmp \cup p.target \cup p.uploads) \cup StagedNames(p.mem) \subseteq 1..n
        <5>1. NamesOf(p.tmp \cup p.target \cup p.uploads)
                = NamesOf(tmp \cup target \cup uploads) \cup {n}
          BY <3>1, <3>6 DEF NamesOf
        <5>2. 1..names \subseteq 1..n /\ n \in 1..n
          BY <1>3, <2>1
        <5> QED
          BY <1>1, <3>7, <5>1, <5>2 DEF Layout
      <4>2. \A f, g \in p.tmp : f.name = g.name => f = g
        BY <1>1, <3>1, <3>2, <3>6 DEF Layout, NamesOf
      <4>3. NamesOf(p.tmp) \cap NamesOf(p.target \cup bucket \cup p.uploads) = {}
        <5>1. n \notin NamesOf(target \cup bucket \cup uploads)
          BY <3>2 DEF NamesOf
        <5> QED
          BY <1>1, <3>6, <3>7, <5>1 DEF Layout
      <4>4. StagedNames(p.mem) \cap NamesOf(p.tmp \cup p.uploads \cup bucket \cup hist.committed) = {}
        BY <1>1, <3>1, <3>2, <3>6, <3>7 DEF Layout, NamesOf
      <4>5. p.mem.active.name # 0 /\ p.mem.active.name \in NamesOf(p.tmp)
        BY <2>0, <3>6, <3>7
      <4>6. p.target = target
        BY <3>6
      <4> QED
        BY <1>1, <4>1, <4>2, <4>3, <4>4, <4>5, <4>6 DEF Layout
    <3>9. RowsApart(p, hist.written)
      BY <1>1, <3>1, <3>6 DEF Sound, RowsApart, RowsOf
    <3>10. RolledApart(p)
      BY <1>1, <3>1, <3>2, <3>6, <3>7 DEF Sound, RolledApart
    <3>11. UploadsKnown(p)
      BY <1>1, <3>6 DEF Sound, UploadsKnown
    <3> QED
      BY <1>3, <2>1, <2>2, <2>3, <3>6, <3>7, <3>8, <3>9, <3>10, <3>11 DEF Opened, Sound
  <2> QED
    BY <1>1, <1>5, <2>4, <2>5 DEF Open
<1> QED
  BY <1>4, <1>5

\* The next record is buffered.
Pushed(p) == [p EXCEPT !.mem.active.buffer = @ \cup {hist.written + 1}]

\* What is buffered after a part, and after a flush that failed.
BufferBound(o) ==
  /\ IsFiniteSet(o.mem.active.buffer)
  /\ Cardinality(o.mem.active.buffer)
       <= BatchSize + faults + (IF o.fault = "flush" THEN 1 ELSE 0)

LEMMA FewerBuffered ==
  ASSUME SinkAssumption, faults \in Nat, NEW i, NEW o,
         o.mem.active.buffer \subseteq i.mem.active.buffer,
         IsFiniteSet(i.mem.active.buffer),
         Cardinality(i.mem.active.buffer) <= BatchSize + faults
  PROVE  BufferBound(o)
<1>1. /\ IsFiniteSet(o.mem.active.buffer) /\ Cardinality(o.mem.active.buffer) \in Nat
      /\ Cardinality(o.mem.active.buffer) <= Cardinality(i.mem.active.buffer)
  BY FS_Subset, FS_CardinalityType
<1>2. Cardinality(i.mem.active.buffer) \in Nat /\ BatchSize + faults \in Nat
  BY FS_CardinalityType DEF SinkAssumption
<1> QED
  BY <1>1, <1>2 DEF BufferBound

\* Pushing a record keeps the invariant, and what there is with the record.
LEMMA PushKeeps ==
  ASSUME SinkAssumption, server \in BOOLEAN, faults \in Nat,
         NEW N, Context(N, hist.written), NEW p, Opened(p, N),
         IsFiniteSet(mem.active.buffer), Cardinality(mem.active.buffer) <= BatchSize + faults,
         NEW old \in BOOLEAN, NEW o \in Push(p, hist.written + 1, old)
  PROVE  /\ Sound(o, N, hist.written + 1) /\ BufferBound(o) /\ o.fault # "open"
         /\ Keeps(Pushed(p), o)
         /\ Fresh(Pushed(p)) /\ Held(Pushed(p).mem) = Held(mem) \cup {hist.written + 1}
         /\ SameDisk(p, Pushed(p)) /\ Pushed(p).mem.staged = mem.staged
<1> DEFINE r == hist.written + 1
           q == Pushed(p)
<1>1. r \in Nat /\ r \notin 1..hist.written /\ 1..hist.written \subseteq 1..r /\ r \in 1..r
  BY DEF Context
<1>2. p.mem.active.name \in Nat /\ Fresh(p) /\ p.mem \in Memory
  BY DEF Opened, Fresh, Outcome, Memory
<1>3. /\ Fresh(q) /\ SameDisk(p, q) /\ q.mem.staged = p.mem.staged
      /\ q.mem.active.name = p.mem.active.name /\ q.mem.active.name # 0
      /\ q.mem.active.buffer = mem.active.buffer \cup {r} /\ Held(q.mem) = Held(mem) \cup {r}
  <2> DEFINE b == p.mem.active.buffer \cup {r}
             a == [p.mem.active EXCEPT !.buffer = b]
             m == [p.mem EXCEPT !.active = a]
  <2>1. q = [p EXCEPT !.mem = m]
    BY <1>2 DEF Pushed, Fresh, Outcome, Memory
  <2>2. a.name = p.mem.active.name /\ a.rows = p.mem.active.rows /\ a.buffer = b
    BY <1>2 DEF Memory
  <2>3. m \in Memory /\ m.active = a /\ m.staged = p.mem.staged
    BY <1>1, <1>2 DEF Memory
  <2> HIDE DEF m
  <2>4. q.mem = m /\ Fresh(q) /\ SameDisk(p, q)
    BY <1>2, <2>1, <2>3 DEF Fresh, Outcome, SameDisk
  <2>5. Held(m) = Held(p.mem) \cup {r}
    BY <2>2, <2>3 DEF Held
  <2> QED
    BY <2>2, <2>3, <2>4, <2>5 DEF Opened
<1> HIDE DEF q
<1>4. Sound(q, N, r)
  <2>1. StagedNames(q.mem) = StagedNames(p.mem)
    BY <1>3 DEF StagedNames
  <2>2. Sound(p, N, hist.written) /\ Held(q.mem) = Held(p.mem) \cup {r}
    BY <1>3 DEF Opened
  <2>3. Layout(q, N) /\ UploadsKnown(q)
    BY <1>2, <1>3, <2>1, <2>2 DEF Sound, Layout, UploadsKnown, SameDisk, Opened
  <2>4. r \notin hist.rolled
    BY <1>1 DEF Context, HistType
  <2>5. RolledApart(q)
    BY <1>3, <2>1, <2>2, <2>4 DEF Sound, RolledApart, SameDisk
  <2>6. RowsApart(q, r)
    BY <1>1, <1>3, <2>2 DEF Sound, RowsApart, SameDisk
  <2> QED
    BY <2>3, <2>5, <2>6 DEF Sound
<1>5. Context(N, r)
  BY <1>1 DEF Context
<1>6. IsFiniteSet(q.mem.active.buffer)
      /\ Cardinality(q.mem.active.buffer) \in Nat
      /\ Cardinality(q.mem.active.buffer) <= Cardinality(mem.active.buffer) + 1
  <2> DEFINE b == mem.active.buffer
  <2>1. IsFiniteSet(b \cup {r})
        /\ Cardinality(b \cup {r}) = IF r \in b THEN Cardinality(b) ELSE Cardinality(b) + 1
    BY FS_AddElement
  <2>2. Cardinality(b) \in Nat
    BY FS_CardinalityType
  <2> QED
    BY <1>3, <2>1, <2>2
<1>7. Cardinality(mem.active.buffer) \in Nat /\ BatchSize \in Nat
  BY FS_CardinalityType DEF SinkAssumption
<1>8. PICK x \in IF Cardinality(q.mem.active.buffer) >= BatchSize THEN Flush(q) ELSE {q} :
        IF x.ok
        THEN o \in IF old \/ Cardinality(x.mem.active.rows) >= MaxRows THEN Rotate(x) ELSE {x}
        ELSE o = x
  BY DEF Push, Then, Pushed, q
<1>9. Flushes(q, x) \/ Halts(q, x, "flush") \/ (x = q /\ Cardinality(q.mem.active.buffer) < BatchSize)
  BY <1>3, <1>6, <1>7, <1>8, FlushKinds
<1>10. CASE Halts(q, x, "flush")
  <2>1. o = x
    BY <1>8, <1>10 DEF Halts
  <2>2. Sound(o, N, r)
    BY <1>3, <1>4, <1>10, <2>1, FlushesSound DEF Fresh
  <2>3. Keeps(q, o)
    BY <1>10, <2>1 DEF Halts, Keeps, SameDisk, Named
  <2>4. o.mem = q.mem /\ o.fault = "flush"
    BY <1>10, <2>1 DEF Halts
  <2>5. BufferBound(o)
    BY <1>6, <1>7, <2>4 DEF BufferBound
  <2> QED
    BY <1>3, <2>2, <2>3, <2>4, <2>5 DEF q, Opened
<1>11. CASE Flushes(q, x) \/ (x = q /\ Cardinality(q.mem.active.buffer) < BatchSize)
  <2>1. Fresh(x) /\ SameDisk(q, x) /\ Held(x.mem) = Held(q.mem) /\ x.mem.staged = q.mem.staged
        /\ x.mem.active.buffer \subseteq q.mem.active.buffer
    BY <1>3, <1>11 DEF Flushes, SameDisk
  <2>2. Sound(x, N, r)
    BY <1>3, <1>4, <1>11, FlushesSound DEF Fresh
  <2>3. IsFiniteSet(x.mem.active.buffer) /\ Cardinality(x.mem.active.buffer) <= BatchSize + faults
    <3>1. CASE Flushes(q, x)
      BY <1>7, <3>1, FS_EmptySet DEF Flushes
    <3>2. CASE x = q /\ Cardinality(q.mem.active.buffer) < BatchSize
      BY <1>6, <1>7, <3>2
    <3> QED
      BY <1>11, <3>1, <3>2
  <2>4. o \in Rotate(x) \/ o = x
    BY <1>8, <2>1 DEF Fresh
  <2>5. Sound(o, N, r) /\ Keeps(x, o) /\ o.fault # "open"
    <3>1. CASE o = x
      BY <2>1, <2>2, <3>1 DEF Keeps, Fresh, Named
    <3>2. CASE o \in Rotate(x)
      BY <1>5, <2>1, <2>2, <3>2, RotateKeeps
    <3> QED
      BY <2>4, <3>1, <3>2
  <2>6. StagedRows(x) = StagedRows(q)
    BY <2>1 DEF StagedRows, StagedNames, SameDisk
  <2>7. Keeps(q, o)
    BY <2>1, <2>5, <2>6 DEF Keeps, SameDisk
  <2>8. BufferBound(o)
    BY <2>3, <2>5, FewerBuffered DEF Keeps
  <2> QED
    BY <1>3, <2>5, <2>7, <2>8 DEF q, Opened
<1> QED
  BY <1>9, <1>10, <1>11

\* What a handler began with: the sink as it was, and the record pushed.
Begins(i, E) ==
  /\ Held(i.mem) = Held(mem) \cup E /\ i.mem.staged = mem.staged
  /\ i.target = target /\ i.uploads = uploads /\ RowsOf(i.tmp) = RowsOf(tmp)

\* What the histories say of a handler that ended with o.
Remembers(o, E) ==
  /\ hist'.told = hist.told \cup LostBy(o)
  /\ hist'.committed = IF o.ok THEN hist.committed \cup Queued(o) ELSE hist.committed
  /\ hist'.rolled = hist.rolled /\ hist'.stuck = hist.stuck /\ hist'.recovered = hist.recovered
  /\ hist'.givenUp = hist.givenUp
  /\ hist'.accepted = IF o.ok THEN hist.accepted \cup E ELSE hist.accepted
  /\ hist' \in [accepted : SUBSET Nat, written : Nat, told : SUBSET Nat, committed : SUBSET File,
                rolled : SUBSET Nat, stuck : SUBSET Nat, recovered : SUBSET Nat,
                givenUp : SUBSET Nat]

\* What CommitCoversAll says of a step.
Covers ==
  (hist'.committed # hist.committed /\ up' = "running") =>
    hist'.accepted \cap (Held(mem) \cup StagedRows(Now)) \subseteq RowsOf(hist'.committed)

\* A handler that answers keeps the invariant, and covers what it commits.
LEMMA AnswerKeeps ==
  ASSUME SinkAssumption, IInv, up = "running",
         NEW N \in names..MaxFiles, names' = N, opened' \in 0..N,
         NEW E, E \subseteq {hist.written + 1},
         NEW R \in hist.written..MaxRecords, 1..hist.written \cup E \subseteq 1..R, hist'.written = R,
         NEW i, NEW o, Sound(o, N, R), Keeps(i, o), BufferBound(o), Begins(i, E),
         Answer(o), Remembers(o, E)
  PROVE  IInv' /\ Covers
<1> USE DEF IInv
<1>1. /\ mem' = o.mem /\ tmp' = o.tmp /\ target' = o.target /\ uploads' = o.uploads
      /\ Meets(o.fault) /\ UNCHANGED <<auto, up, server, bucket>>
  BY DEF Answer
<1>2. o \in Outcome /\ names \in Nat /\ N \in Nat /\ R \in Nat /\ hist.written \in Nat
      /\ faults \in Nat
  BY DEF Keeps, StateType, HistType, SinkAssumption
<1>3. /\ Now.mem = mem /\ Now.tmp = tmp /\ Now.target = target /\ Now.uploads = uploads
      /\ Now'.mem = o.mem /\ Now'.tmp = o.tmp /\ Now'.target = o.target /\ Now'.uploads = o.uploads
      /\ Now'.ok = TRUE /\ Now'.fault = "none"
  BY <1>1 DEF Now
<1>4. hist.committed \subseteq hist'.committed /\ hist'.committed \subseteq hist.committed \cup Queued(o)
  BY DEF Remembers
<1>5. Queued(o) \subseteq o.target /\ NamesOf(Queued(o)) \subseteq NamesOf(o.uploads)
  BY DEF Queued, Named, NamesOf
<1>6. target \subseteq o.target
  BY DEF Keeps, Begins
<1>7. hist.accepted \subseteq 1..hist.written /\ E \cap 1..hist.written = {}
  BY <1>2 DEF HistType
<1>8. StateType'
  <2>1. Now' \in Outcome
    BY <1>1, <1>2 DEF Now, Outcome
  <2>2. faults' \in 0..MaxFaults
        /\ Cardinality(o.mem.active.buffer) <= BatchSize + faults'
    <3>1. Cardinality(o.mem.active.buffer) \in Nat
      BY FS_CardinalityType DEF BufferBound
    <3> QED
      BY <1>1, <3>1 DEF BufferBound, Meets, StateType, SinkAssumption
  <2>3. server \/ o.uploads = {}
    BY DEF Keeps, Begins, StateType
  <2> QED
    BY <1>1, <2>1, <2>2, <2>3 DEF StateType, BufferBound, SinkAssumption
<1>9. Layout(Now, names)'
  <2> Layout(o, N)
    BY DEF Sound
  <2>1. hist'.committed \subseteq o.target \cup bucket
    BY <1>3, <1>4, <1>5, <1>6 DEF Sound, Layout
  <2>2. NamesOf(o.tmp \cup o.uploads \cup bucket \cup hist'.committed)
          \subseteq NamesOf(o.tmp \cup o.uploads \cup bucket \cup hist.committed)
    BY <1>4, <1>5 DEF NamesOf
  <2> QED
    BY <1>1, <1>3, <2>1, <2>2 DEF Layout
<1>10. HistType'
  <2>1. NamesOf(bucket \cup hist'.committed) \subseteq 1..N
    <3>1. NamesOf(bucket \cup hist'.committed) \subseteq NamesOf(bucket \cup hist.committed) \cup NamesOf(o.uploads)
      BY <1>4, <1>5 DEF NamesOf
    <3>2. NamesOf(o.uploads) \subseteq 1..N
      BY DEF Sound, Layout, NamesOf
    <3>3. 1..names \subseteq 1..N
      BY <1>2
    <3> QED
      BY <3>1, <3>2, <3>3 DEF HistType
  <2>2. hist'.stuck \subseteq 1..N
    <3>1. 1..names \subseteq 1..N
      BY <1>2
    <3> QED
      BY <3>1 DEF HistType, Remembers
  <2>3. hist'.accepted \cup hist'.rolled \subseteq 1..R
    BY DEF HistType, Remembers
  <2>4. R <= MaxRecords
    BY <1>2 DEF SinkAssumption
  <2> QED
    BY <1>1, <2>1, <2>2, <2>3, <2>4 DEF HistType, Remembers
<1>11. RowsApart(Now, hist.written)' /\ RolledApart(Now)' /\ UploadsKnown(Now)'
  BY <1>1, <1>3 DEF Sound, RowsApart, RolledApart, UploadsKnown, Remembers
<1>12. Requested'
  <2> SUFFICES ASSUME NEW u \in o.uploads
               PROVE  u.name \in hist.recovered \/ Named(o.target, {u.name}) \subseteq hist'.committed
    BY <1>1 DEF Requested, Remembers
  <2>1. CASE u \in uploads
    <3>1. Named(o.target, {u.name}) \subseteq Named(target, {u.name})
      BY <2>1 DEF Keeps, Begins, Named
    <3> QED
      BY <1>4, <2>1, <3>1 DEF Requested
  <2>2. CASE u \notin uploads
    <3>1. o.ok
      BY <2>2 DEF Keeps, Begins
    <3>2. Named(o.target, {u.name}) \subseteq Queued(o)
      BY <2>2 DEF Queued, Named
    <3> QED
      BY <3>1, <3>2 DEF Remembers
  <2> QED
    BY <2>1, <2>2
<1>13. Held(mem) \subseteq Held(o.mem) \cup RowsOf(o.target) \cup hist'.told
  <2>1. CASE o.ok \/ o.fault = "flush"
    BY <2>1 DEF Keeps, Begins
  <2>2. CASE ~ (o.ok \/ o.fault = "flush")
    <3>1. StagedRows(o) \subseteq RowsOf(o.target)
      BY DEF StagedRows, RowsOf, Named
    <3> QED
      BY <2>2, <3>1 DEF LostBy, Remembers
  <2> QED
    BY <2>1, <2>2
<1>14. TmpTold'
  <2>1. RowsOf(tmp) \subseteq 1..hist.written /\ Held(mem) \cap RowsOf(target) = {}
    BY <1>3 DEF Sound, RowsApart, RowsOf
  <2>2. CASE RowsOf(o.tmp) \subseteq RowsOf(tmp)
    BY <1>1, <1>7, <2>1, <2>2 DEF TmpTold, Remembers
  <2>3. CASE /\ ~ o.ok /\ o.fault # "flush" /\ Held(o.mem) = {} /\ o.target = target
             /\ RowsOf(o.tmp) \subseteq RowsOf(tmp) \cup Held(mem) \cup E
    <3>1. StagedRows(o) \subseteq RowsOf(target)
      BY <2>3 DEF StagedRows, RowsOf, Named
    <3>2. Held(mem) \subseteq hist'.told
      BY <2>1, <2>3, <3>1 DEF LostBy, Remembers
    <3> QED
      BY <1>1, <1>7, <2>1, <2>3, <3>2 DEF TmpTold, Remembers
  <2> QED
    BY <2>2, <2>3 DEF Keeps, Begins
<1>15. NoSilentDrop'
  <2>1. RowsOf(tmp \cup target \cup bucket) = RowsOf(tmp) \cup RowsOf(target \cup bucket)
    BY DEF RowsOf
  <2>2. RowsOf(target \cup bucket) \cup RowsOf(o.target) \subseteq RowsOf(o.tmp \cup o.target \cup bucket)
    BY <1>6 DEF RowsOf
  <2>3. hist.accepted \subseteq Held(o.mem) \cup RowsOf(o.tmp \cup o.target \cup bucket)
                                 \cup hist.rolled \cup hist'.told
    BY <1>13, <2>1, <2>2 DEF NoSilentDrop, TmpTold, Remembers
  <2>4. o.ok => E \subseteq Held(o.mem) \cup RowsOf(o.target)
    BY DEF Keeps, Begins
  <2> QED
    BY <1>1, <2>2, <2>3, <2>4 DEF NoSilentDrop, Remembers
<1>16. (RolledBackStaysOut /\ OnlyCommittedOrRecovered /\ UnreadableOnlyRecovered)'
  BY <1>1, <1>4 DEF RolledBackStaysOut, OnlyCommittedOrRecovered, UnreadableOnlyRecovered, Remembers
<1>17. Covers
  <2> SUFFICES ASSUME hist'.committed # hist.committed
               PROVE  Held(mem) \cup StagedRows(Now) \subseteq RowsOf(hist'.committed)
    BY DEF Covers
  <2>1. o.ok /\ Queued(o) # {} /\ Queued(o) \subseteq hist'.committed
    BY DEF Remembers
  <2>2. o.uploads # i.uploads
    BY <2>1 DEF Begins, Queued, Named
  <2>3. Queued(o) = Named(o.target, NamesOf(o.uploads \ i.uploads))
    BY DEF Begins, Queued, NamesOf
  <2>4. Held(i.mem) \cup StagedRows(i) \subseteq RowsOf(Queued(o))
    BY <2>2, <2>3 DEF Keeps
  <2>5. StagedRows(i) = StagedRows(Now)
    BY <1>3 DEF Begins, StagedRows, StagedNames
  <2>6. RowsOf(Queued(o)) \subseteq RowsOf(hist'.committed)
    BY <2>1 DEF RowsOf
  <2> QED
    BY <2>4, <2>5, <2>6 DEF Begins
<1> QED
  BY <1>8, <1>9, <1>10, <1>11, <1>12, <1>14, <1>15, <1>16, <1>17 DEF Sound

-----------------------------------------------------------------------------
(* The actions.                                                            *)

LEMMA NowFresh ==
  ASSUME SinkAssumption, IInv
  PROVE  /\ Now.mem = mem /\ Now.tmp = tmp /\ Now.target = target /\ Now.uploads = uploads
         /\ Fresh(Now) /\ mem \in Memory /\ Begins(Now, {})
         /\ names \in Nat /\ faults \in Nat /\ hist.written \in Nat
         /\ Context(names, hist.written) /\ server \in BOOLEAN
         /\ names \in names..MaxFiles /\ hist.written \in hist.written..MaxRecords
<1>1. /\ Now.mem = mem /\ Now.tmp = tmp /\ Now.target = target /\ Now.uploads = uploads
      /\ Now.ok = TRUE /\ Now.fault = "none"
  BY DEF Now
<1>2. Now \in Outcome /\ names \in 0..MaxFiles /\ faults \in 0..MaxFaults /\ server \in BOOLEAN
      /\ bucket \subseteq File /\ HistType /\ hist.written \in Nat
  BY DEF IInv, StateType, HistType
<1>3. {MaxFiles, MaxFaults, MaxRecords} \subseteq Nat
  BY DEF SinkAssumption
<1>4. names \in Nat /\ faults \in Nat /\ names \in names..MaxFiles
  BY <1>2, <1>3
<1>5. hist.written \in hist.written..MaxRecords
  BY <1>2, <1>3 DEF HistType
<1> QED
  BY <1>1, <1>2, <1>4, <1>5 DEF Fresh, Outcome, Begins, Context

LEMMA ToldRemembers ==
  ASSUME IInv, NEW o, o \in Outcome, NEW E, E \subseteq Nat, NEW R \in Nat,
         hist' = [Told(o) EXCEPT !.written = R,
                                 !.accepted = IF o.ok THEN @ \cup E ELSE @]
  PROVE  Remembers(o, E) /\ hist'.written = R
<1>1. LostBy(o) \subseteq Nat
  <2>1. Held(mem) \cup StagedRows(Now) \subseteq Nat
    <3>1. StagedRows(Now) \subseteq RowsOf(Now.target)
      BY DEF StagedRows, RowsOf, Named
    <3>2. Held(Now.mem) \cup RowsOf(Now.target) \subseteq 1..hist.written
      BY DEF IInv, Sound, RowsApart, RowsOf
    <3>3. Now.mem = mem
      BY DEF Now
    <3> QED
      BY <3>1, <3>2, <3>3
  <2> QED
    BY <2>1 DEF LostBy
<1>2. Queued(o) \subseteq File
  BY DEF Queued, Named, Outcome
<1> QED
  BY <1>1, <1>2 DEF Told, Remembers, IInv, HistType

\* Handlers that push no record.
LEMMA HandlerKeeps ==
  ASSUME SinkAssumption, IInv, up = "running",
         NEW o, Sound(o, names, hist.written), Keeps(Now, o),
         Answer(o), hist' = Told(o), UNCHANGED <<names, opened>>
  PROVE  IInv' /\ Covers
<1>1. o \in Outcome
  BY DEF Keeps
<1>2. hist' = [Told(o) EXCEPT !.written = hist.written, !.accepted = IF o.ok THEN @ \cup {} ELSE @]
  BY DEF Told, IInv, HistType
<1>3. Remembers(o, {}) /\ hist'.written = hist.written
  BY <1>1, <1>2, NowFresh, ToldRemembers
<1>4. BufferBound(o)
  BY NowFresh, FewerBuffered DEF Keeps, IInv, StateType
<1>5. opened' \in 0..names
  BY DEF IInv, StateType
<1> QED
  BY <1>3, <1>4, <1>5, NowFresh, AnswerKeeps

LEMMA WriteStep ==
  ASSUME SinkAssumption, ClockAdvances, IInv, Write
  PROVE  IInv' /\ Covers
<1> DEFINE r == hist.written + 1
<1>1. PICK n \in IF mem.active = NoFile THEN NextNames ELSE {mem.active.name}, old \in BOOLEAN :
        \E o \in Then(Open(Now, n), LAMBDA p : Push(p, r, old)) :
            /\ Answer(o)
            /\ opened' = IF o.fault = "open" THEN opened ELSE n
            /\ names' = IF o.fault = "open" \/ n < names THEN names ELSE n
            /\ hist' = [Told(o) EXCEPT !.written = r,
                                       !.accepted = IF o.ok THEN @ \cup {r} ELSE @]
  BY DEF Write
<1>2. PICK o \in Then(Open(Now, n), LAMBDA p : Push(p, r, old)) :
        /\ Answer(o)
        /\ opened' = IF o.fault = "open" THEN opened ELSE n
        /\ names' = IF o.fault = "open" \/ n < names THEN names ELSE n
        /\ hist' = [Told(o) EXCEPT !.written = r,
                                   !.accepted = IF o.ok THEN @ \cup {r} ELSE @]
  BY <1>1
<1>3. PICK p \in Open(Now, n) : IF p.ok THEN o \in Push(p, r, old) ELSE o = p
  BY <1>2 DEF Then
<1>4. /\ n \in 1..MaxFiles /\ NameAfter(n) \in names..MaxFiles /\ n <= NameAfter(n)
      /\ Opened(p, NameAfter(n)) \/ (Halts(Now, p, "open") /\ Held(mem) = {})
  BY <1>1, OpenKinds
<1>5. up = "running" /\ r \in hist.written..MaxRecords /\ {r} \subseteq Nat /\ r \in Nat
      /\ 1..hist.written \cup {r} \subseteq 1..r /\ 1..hist.written \subseteq 1..r
  <2>1. up = "running" /\ hist.written < MaxRecords /\ MaxRecords \in Nat
    BY DEF Write, SinkAssumption
  <2> QED
    BY <2>1, NowFresh
<1>6. opened \in 0..names /\ names \in Nat /\ MaxFiles \in Nat
  BY NowFresh DEF IInv, StateType, SinkAssumption
<1>7. CASE Halts(Now, p, "open") /\ Held(mem) = {}
  <2>1. o = p /\ ~ o.ok /\ o.fault = "open" /\ o \in Outcome /\ o.mem = mem /\ SameDisk(Now, o)
    BY <1>3, <1>7, NowFresh DEF Halts
  <2>2. Sound(o, names, r)
    <3>1. Sound(Now, names, hist.written)
      BY DEF IInv
    <3>2. RowsApart(o, r)
      BY <1>5, <2>1, <3>1, NowFresh DEF Sound, RowsApart, SameDisk
    <3> QED
      BY <2>1, <3>1, <3>2, NowFresh DEF Sound, Layout, RolledApart, UploadsKnown, SameDisk
  <2>3. Keeps(Now, o) /\ BufferBound(o)
    <3>1. Keeps(Now, o)
      BY <1>7, <2>1, NowFresh DEF Keeps, SameDisk, Named
    <3> QED
      BY <3>1, NowFresh, FewerBuffered DEF Keeps, IInv, StateType
  <2>4. Remembers(o, {r}) /\ hist'.written = r
    BY <1>2, <1>5, <2>1, ToldRemembers
  <2>5. Remembers(o, {})
    BY <2>1, <2>4 DEF Remembers
  <2>6. names' = names /\ opened' \in 0..names
    BY <1>2, <1>6, <2>1
  <2> QED
    BY <1>2, <1>5, <2>2, <2>3, <2>4, <2>5, <2>6, NowFresh, AnswerKeeps
<1>8. CASE Opened(p, NameAfter(n))
  <2> DEFINE N == NameAfter(n)
  <2>1. N \in Nat /\ Context(N, hist.written)
    BY <1>4, <1>6, NowFresh DEF Context
  <2>2. o \in Push(p, r, old)
    BY <1>3, <1>8 DEF Opened, Fresh
  <2>3. /\ Sound(o, N, r) /\ BufferBound(o) /\ Keeps(Pushed(p), o) /\ o.fault # "open"
        /\ Fresh(Pushed(p)) /\ Held(Pushed(p).mem) = Held(mem) \cup {r}
        /\ SameDisk(p, Pushed(p)) /\ Pushed(p).mem.staged = mem.staged
    BY <1>8, <2>1, <2>2, NowFresh, PushKeeps DEF IInv, StateType
  <2>4. Begins(Pushed(p), {r})
    BY <1>8, <2>3 DEF Begins, Opened, SameDisk
  <2>5. Remembers(o, {r}) /\ hist'.written = r
    BY <1>2, <1>5, <2>3, ToldRemembers DEF Keeps
  <2>7. names' = N /\ opened' \in 0..N
    BY <1>2, <1>4, <1>6, <2>3 DEF NameAfter
  <2> QED
    BY <1>2, <1>4, <1>5, <2>3, <2>4, <2>5, <2>7, AnswerKeeps
<1> QED
  BY <1>4, <1>7, <1>8

LEMMA CommitStep ==
  ASSUME SinkAssumption, IInv, Commit
  PROVE  IInv' /\ Covers
<1>1. PICK o \in CommitAll(Now) : Answer(o) /\ hist' = Told(o)
  BY DEF Commit
<1>2. Sound(o, names, hist.written) /\ Keeps(Now, o)
  BY NowFresh, CommitKeeps DEF IInv
<1> QED
  BY <1>1, <1>2, HandlerKeeps DEF Commit

\* A process that ends keeps its directories, closed or not.
LEMMA EndKeeps ==
  ASSUME SinkAssumption, IInv, up = "running",
         NEW o, Sound(o, names, hist.written), Keeps(Now, o), NEW kind, Meets(kind),
         tmp' = o.tmp, target' = o.target,
         NEW m, EndProcess(up', m), up' \in {"down", "stopped"},
         Held(m) \subseteq Held(mem),
         Held(mem) \subseteq Held(m) \cup RowsOf(o.target),
         o.uploads = uploads,
         RowsOf(o.tmp) \cap hist.accepted \subseteq hist.told \cup Held(m)
  PROVE  IInv'
<1> USE DEF IInv
<1>1. /\ mem' = Forgotten /\ uploads' = {} /\ server' = FALSE /\ opened' = 0
      /\ UNCHANGED <<auto, bucket, names>>
      /\ hist' = [hist EXCEPT !.told = @ \cup Held(m)]
  BY DEF EndProcess
<1>2. /\ hist'.told = hist.told \cup Held(m) /\ hist'.accepted = hist.accepted
      /\ hist'.written = hist.written /\ hist'.committed = hist.committed
      /\ hist'.rolled = hist.rolled /\ hist'.stuck = hist.stuck
      /\ hist'.recovered = hist.recovered
  BY <1>1 DEF HistType
<1>3. Held(mem) \subseteq Nat
  BY NowFresh DEF Held, Memory
<1>4. Forgotten \in Memory /\ Held(Forgotten) = {} /\ StagedNames(Forgotten) = {}
      /\ Forgotten.active = NoFile /\ Forgotten.active.name = 0 /\ Forgotten.active.buffer = {}
  <2>1. <<>> \in Seq(Nat)
    OBVIOUS
  <2>2. NoFile.name = 0 /\ NoFile.rows = {} /\ NoFile.buffer = {}
        /\ NoFile \in [name : Nat, rows : SUBSET Nat, buffer : SUBSET Nat]
    BY DEF NoFile
  <2>3. Forgotten.active = NoFile /\ Forgotten.staged = <<>> /\ Forgotten \in Memory
    BY <2>1, <2>2 DEF Forgotten, Memory
  <2> QED
    BY <2>2, <2>3 DEF Held, StagedNames
<1>5. /\ Now'.mem = Forgotten /\ Now'.tmp = o.tmp /\ Now'.target = o.target /\ Now'.uploads = {}
      /\ Now' \in Outcome
  BY <1>1, <1>4 DEF Now, Outcome, Keeps
<1>6. StateType'
  <2>1. faults' \in 0..MaxFaults
    BY DEF Meets, StateType, SinkAssumption
  <2>2. IsFiniteSet({}) /\ Cardinality({}) <= BatchSize + faults'
    BY <2>1, FS_EmptySet DEF SinkAssumption
  <2>3. /\ auto' \in BOOLEAN /\ bucket' \subseteq File
        /\ names' \in 0..MaxFiles /\ opened' \in 0..names'
    <3>1. 0 \in 0..names
      BY NowFresh
    <3> QED
      BY <1>1, <3>1 DEF StateType
  <2> QED
    BY <1>1, <1>4, <1>5, <2>1, <2>2, <2>3 DEF StateType
<1>7. HistType'
  BY <1>1, <1>2, <1>3 DEF HistType
<1>8. Layout(Now, names)'
  BY <1>1, <1>2, <1>4, <1>5 DEF Sound, Layout, NamesOf
<1>9. RowsApart(Now, hist.written)' /\ RolledApart(Now)' /\ UploadsKnown(Now)'
  BY <1>1, <1>2, <1>4, <1>5 DEF Sound, RowsApart, RolledApart, UploadsKnown, NamesOf
<1>10. Requested' /\ TmpTold'
  BY <1>1, <1>2 DEF Requested, TmpTold
<1>11. NoSilentDrop'
  <2>1. target \subseteq o.target
    BY NowFresh DEF Keeps
  <2>2. RowsOf(tmp \cup target \cup bucket) \subseteq RowsOf(tmp) \cup RowsOf(o.tmp \cup o.target \cup bucket)
    BY <2>1 DEF RowsOf
  <2>3. RowsOf(o.target) \subseteq RowsOf(o.tmp \cup o.target \cup bucket)
    BY DEF RowsOf
  <2> QED
    BY <1>1, <1>2, <2>2, <2>3 DEF NoSilentDrop, TmpTold
<1>12. (RolledBackStaysOut /\ OnlyCommittedOrRecovered /\ UnreadableOnlyRecovered)'
  BY <1>1, <1>2 DEF RolledBackStaysOut, OnlyCommittedOrRecovered, UnreadableOnlyRecovered
<1> QED
  BY <1>6, <1>7, <1>8, <1>9, <1>10, <1>11, <1>12 DEF Sound

LEMMA RollStep ==
  ASSUME SinkAssumption, IInv, Roll
  PROVE  IInv' /\ Covers
<1>1. PICK o \in Rotate(Now) :
       \/ o.ok /\ Answer(o) /\ hist' = Told(o) /\ UNCHANGED <<names, opened>>
       \/ /\ ~ o.ok /\ Meets(o.fault)
          /\ tmp' = o.tmp /\ target' = o.target
          /\ EndProcess("down", mem)
  BY DEF Roll
<1>2. Sound(o, names, hist.written) /\ Keeps(Now, o) /\ up = "running"
  BY NowFresh, RotateKeeps DEF IInv, Roll
<1>3. CASE ~ o.ok /\ Meets(o.fault) /\ tmp' = o.tmp /\ target' = o.target /\ EndProcess("down", mem)
  <2>1. up' = "down"
    BY <1>3 DEF EndProcess
  <2>2. o.uploads = uploads
    BY <1>2, <1>3, NowFresh DEF Keeps
  <2>3. RowsOf(o.tmp) \subseteq RowsOf(tmp) \cup Held(mem)
    BY <1>2, NowFresh DEF Keeps
  <2>4. RowsOf(o.tmp) \cap hist.accepted \subseteq hist.told \cup Held(mem)
    BY <2>3 DEF IInv, TmpTold
  <2> QED
    BY <1>2, <1>3, <2>1, <2>2, <2>4, EndKeeps DEF Covers
<1> QED
  BY <1>1, <1>2, <1>3, HandlerKeeps

LEMMA ShutdownStep ==
  ASSUME SinkAssumption, IInv, Shutdown
  PROVE  IInv'
<1>1. PICK o \in Close(Now) :
        /\ Meets(o.fault) /\ tmp' = o.tmp /\ target' = o.target
        /\ EndProcess("stopped", IF o.ok THEN Forgotten ELSE mem)
  BY DEF Shutdown
<1>2. Sound(o, names, hist.written) /\ Keeps(Now, o) /\ up = "running"
      /\ (o.ok => Nothing(Now, o) \/ Closes(Now, o))
  BY NowFresh, CloseKeeps DEF IInv, Shutdown
<1>3. up' = "stopped"
  BY <1>1 DEF EndProcess
<1>4. o.uploads = uploads
  BY <1>2, NowFresh DEF Keeps, Nothing, Closes
<1>5. CASE o.ok
  <2>1. Held(Forgotten) = {}
    BY DEF Held, Forgotten, NoFile
  <2>2. Held(mem) \subseteq RowsOf(o.target)
    <3>1. CASE Nothing(Now, o)
      BY <3>1, NowFresh, NothingHeld DEF Nothing, IInv, Sound, Layout
    <3>2. CASE Closes(Now, o)
      <4>1. Held(o.mem) = {}
        BY <1>2, <3>2, NothingHeld DEF Closes, Keeps, Outcome
      <4> QED
        BY <1>2, <1>5, <4>1, NowFresh DEF Keeps
    <3> QED
      BY <1>2, <1>5, <3>1, <3>2
  <2>3. RowsOf(o.tmp) \cap hist.accepted \subseteq hist.told
    BY <1>2, <1>5, NowFresh DEF Keeps, IInv, TmpTold
  <2> QED
    BY <1>1, <1>2, <1>3, <1>4, <1>5, <2>1, <2>2, <2>3, EndKeeps
<1>6. CASE ~ o.ok
  <2>1. RowsOf(o.tmp) \subseteq RowsOf(tmp) \cup Held(mem)
    BY <1>2, NowFresh DEF Keeps
  <2>2. RowsOf(o.tmp) \cap hist.accepted \subseteq hist.told \cup Held(mem)
    BY <2>1 DEF IInv, TmpTold
  <2> QED
    BY <1>1, <1>2, <1>3, <1>4, <1>6, <2>2, EndKeeps
<1> QED
  BY <1>5, <1>6

LEMMA CrashStep ==
  ASSUME SinkAssumption, IInv, Crash
  PROVE  IInv'
<1>1. Sound(Now, names, hist.written) /\ Keeps(Now, Now)
  BY NowFresh DEF IInv, Keeps, Fresh, Named
<1>2. RowsOf(Now.tmp) \cap hist.accepted \subseteq hist.told \cup Held(mem)
  BY NowFresh DEF IInv, TmpTold
<1>3. EndProcess(up', mem) /\ up' = "down" /\ Meets("crash") /\ up = "running"
      /\ UNCHANGED <<tmp, target>>
  BY DEF Crash, EndProcess
<1> QED
  BY <1>1, <1>2, <1>3, NowFresh, EndKeeps

\* The steps of the upload service, seen as one: objects are only added, from
\* files it was asked for, and a file is only removed once it is an object.
LEMMA ServiceKeeps ==
  ASSUME SinkAssumption, IInv, UNCHANGED <<auto, up, mem, tmp, names, opened>>,
         server' \in BOOLEAN, server' \/ uploads' = {},
         target' \subseteq target, target \subseteq target' \cup bucket',
         bucket \subseteq bucket',
         \A f \in bucket' : f \in bucket \/ (f \in target /\ f.name \in NamesOf(uploads)),
         uploads' \subseteq UploadRequest, NamesOf(uploads') \subseteq NamesOf(uploads),
         \A u \in uploads' : u.stored => Named(target', {u.name}) \subseteq bucket',
         NEW kind, Meets(kind),
         NEW G \in SUBSET Nat, hist' = [hist EXCEPT !.givenUp = G]
  PROVE  IInv'
<1> USE DEF IInv
<1>1. /\ hist'.told = hist.told /\ hist'.accepted = hist.accepted
      /\ hist'.written = hist.written /\ hist'.committed = hist.committed
      /\ hist'.rolled = hist.rolled /\ hist'.stuck = hist.stuck
      /\ hist'.recovered = hist.recovered
      /\ hist' \in [accepted : SUBSET Nat, written : Nat, told : SUBSET Nat, committed : SUBSET File,
                    rolled : SUBSET Nat, stuck : SUBSET Nat, recovered : SUBSET Nat,
                    givenUp : SUBSET Nat]
  BY DEF HistType
<1>2. /\ Now.mem = mem /\ Now.tmp = tmp /\ Now.target = target /\ Now.uploads = uploads
      /\ Now \in Outcome
      /\ Now'.mem = mem /\ Now'.tmp = tmp /\ Now'.target = target' /\ Now'.uploads = uploads'
      /\ Now'.ok = TRUE /\ Now'.fault = "none"
  BY NowFresh DEF Now, Fresh
<1>3. bucket' \subseteq bucket \cup target
  OBVIOUS
<1>4. NamesOf(bucket') \subseteq NamesOf(bucket) \cup NamesOf(uploads)
  BY DEF NamesOf
<1>5. NamesOf(target' \cup bucket' \cup uploads') \subseteq NamesOf(target \cup bucket \cup uploads)
      /\ NamesOf(tmp \cup target' \cup uploads') \subseteq NamesOf(tmp \cup target \cup uploads)
  BY <1>3, <1>4 DEF NamesOf
<1>6. NamesOf(uploads) \subseteq 1..names
  BY <1>2 DEF Sound, Layout, NamesOf
<1>7. StateType'
  <2>1. faults' \in 0..MaxFaults /\ faults <= faults' /\ faults \in Nat /\ faults' \in Nat
    BY DEF Meets, StateType, SinkAssumption
  <2>2. Cardinality(mem.active.buffer) <= BatchSize + faults'
    <3>1. Cardinality(mem.active.buffer) \in Nat /\ BatchSize \in Nat
      BY FS_CardinalityType DEF StateType, SinkAssumption
    <3> QED
      BY <2>1, <3>1 DEF StateType
  <2>3. Now' \in Outcome
    <3>1. target' \subseteq File
      BY <1>2 DEF Outcome
    <3> QED
      BY <1>2, <3>1 DEF Now, Outcome
  <2>4. bucket' \subseteq File
    BY <1>2, <1>3 DEF StateType, Outcome
  <2> QED
    BY <2>1, <2>2, <2>3, <2>4 DEF StateType
<1>8. HistType'
  <2>1. NamesOf(bucket' \cup hist.committed) \subseteq NamesOf(bucket \cup hist.committed) \cup NamesOf(uploads)
    BY <1>4 DEF NamesOf
  <2> QED
    BY <1>1, <1>6, <2>1 DEF HistType
<1>9. Layout(Now, names)'
  <2> Layout(Now, names)
    BY DEF Sound
  <2>1. StagedNames(mem) \cap NamesOf(tmp \cup uploads' \cup bucket' \cup hist.committed) = {}
    <3>1. NamesOf(tmp \cup uploads' \cup bucket' \cup hist.committed)
            \subseteq NamesOf(tmp \cup uploads \cup bucket \cup hist.committed)
      BY <1>4 DEF NamesOf
    <3> QED
      BY <1>2, <3>1 DEF Layout
  <2>2. NamesOf(tmp \cup target' \cup uploads') \cup StagedNames(mem) \subseteq 1..names
    BY <1>2, <1>5 DEF Layout
  <2>3. NamesOf(tmp) \cap NamesOf(target' \cup bucket' \cup uploads') = {}
    BY <1>2, <1>5 DEF Layout
  <2>4. \A f, g \in target' \cup bucket' : f.name = g.name => f = g
    BY <1>2, <1>3 DEF Layout
  <2>5. hist.committed \subseteq target' \cup bucket'
    BY <1>2 DEF Layout
  <2>6. /\ \A f, g \in tmp : f.name = g.name => f = g
        /\ IF mem.active.name = 0 THEN mem.active = NoFile ELSE mem.active.name \in NamesOf(tmp)
    BY <1>2 DEF Layout
  <2> QED
    BY <1>1, <1>2, <2>1, <2>2, <2>3, <2>4, <2>5, <2>6 DEF Layout
<1>10. RowsApart(Now, hist.written)'
  <2>1. tmp \cup target' \cup bucket' \subseteq tmp \cup target \cup bucket
    BY <1>3
  <2>2. RowsOf(tmp \cup target' \cup bucket') \subseteq RowsOf(tmp \cup target \cup bucket)
    BY <2>1 DEF RowsOf
  <2> QED
    BY <1>1, <1>2, <2>1, <2>2 DEF Sound, RowsApart
<1>11. RolledApart(Now)' /\ UploadsKnown(Now)'
  BY <1>1, <1>2, <1>3 DEF Sound, RolledApart, UploadsKnown
<1>12. Requested' /\ TmpTold'
  BY <1>1 DEF Requested, TmpTold, Named, NamesOf
<1>13. NoSilentDrop'
  <2>1. RowsOf(tmp \cup target \cup bucket) \subseteq RowsOf(tmp \cup target' \cup bucket')
    BY DEF RowsOf
  <2> QED
    BY <1>1, <2>1 DEF NoSilentDrop
<1>14. ASSUME NEW f \in bucket', f \notin bucket
       PROVE  /\ f.rows \cap hist.rolled # {} => f.name \in hist.stuck \cap hist.recovered
              /\ f \in hist.committed \/ f.name \in hist.recovered
              /\ f.footer \/ (auto /\ f.name \in hist.recovered)
  <2>1. f \in target /\ f.name \in NamesOf(uploads)
    BY <1>14
  <2>2. PICK u \in uploads : u.name = f.name
    BY <2>1 DEF NamesOf
  <2>3. f \in Named(target, {u.name})
    BY <2>1, <2>2 DEF Named
  <2> QED
    BY <1>2, <2>1, <2>2, <2>3 DEF Sound, RolledApart, UploadsKnown, Requested
<1>15. RolledBackStaysOut'
  BY <1>1, <1>14 DEF RolledBackStaysOut, RowsOf
<1>16. OnlyCommittedOrRecovered' /\ UnreadableOnlyRecovered'
  BY <1>1, <1>14 DEF OnlyCommittedOrRecovered, UnreadableOnlyRecovered
<1> QED
  BY <1>7, <1>8, <1>9, <1>10, <1>11, <1>12, <1>13, <1>15, <1>16 DEF Sound

LEMMA UploadStep ==
  ASSUME SinkAssumption, IInv, NEW u \in uploads, Upload(u)
  PROVE  IInv'
<1>1. /\ UNCHANGED <<auto, up, mem, tmp, names, opened>> /\ server' \in BOOLEAN
      /\ server' \/ uploads' = {} \/ u \notin uploads
      /\ Ignore(u) \/ Stored(u) \/ PutFails(u) \/ RemoveLocal(u)
  BY DEF Upload, IInv, StateType
<1>2. /\ uploads \subseteq UploadRequest /\ u.name \in NamesOf(uploads) /\ server'
      /\ \A v \in uploads : v.stored => Named(target, {v.name}) \subseteq bucket
      /\ \A f, g \in target \cup bucket : f.name = g.name => f = g
  BY <1>1, NowFresh DEF Upload, IInv, StateType, Sound, Layout, UploadsKnown, Fresh, Outcome, NamesOf
<1>3. hist.givenUp \in SUBSET Nat /\ hist = [hist EXCEPT !.givenUp = hist.givenUp] 
      /\ (Meets("none") <=> UNCHANGED faults)
  BY DEF IInv, HistType, Meets
<1>4. CASE Ignore(u)
  <2>1. uploads' \subseteq uploads /\ UNCHANGED <<target, bucket, faults, hist>>
    BY <1>4 DEF Ignore
  <2>2. NamesOf(uploads') \subseteq NamesOf(uploads)
    BY <2>1 DEF NamesOf
  <2> QED
    BY <1>1, <1>2, <1>3, <2>1, <2>2, ServiceKeeps
<1>5. ASSUME NEW f \in Named(target, {u.name}), bucket' = bucket \/ bucket' = Put(bucket, f)
      PROVE  /\ bucket \subseteq bucket'
             /\ \A g \in bucket' : g \in bucket \/ (g \in target /\ g.name \in NamesOf(uploads))
             /\ f \in bucket' => Named(target, {u.name}) \subseteq bucket'
  BY <1>2, <1>5 DEF Named, Put
<1>6. CASE Stored(u)
  <2>1. PICK f \in Named(target, {u.name}) : bucket' = Put(bucket, f)
    BY <1>6 DEF Stored
  <2>2. UNCHANGED <<target, faults, hist>> /\ uploads' = (uploads \ {u}) \cup {[u EXCEPT !.stored = TRUE]}
    BY <1>6 DEF Stored
  <2>3. [u EXCEPT !.stored = TRUE] \in UploadRequest /\ [u EXCEPT !.stored = TRUE].name = u.name
    BY <1>2 DEF UploadRequest
  <2>4. uploads' \subseteq UploadRequest /\ NamesOf(uploads') \subseteq NamesOf(uploads)
    BY <1>2, <2>2, <2>3 DEF NamesOf
  <2>5. f \in bucket'
    BY <2>1 DEF Put
  <2>6. \A v \in uploads' : v.stored => Named(target', {v.name}) \subseteq bucket'
    BY <1>2, <1>5, <2>1, <2>2, <2>3, <2>5
  <2> QED
    BY <1>1, <1>2, <1>3, <1>5, <2>1, <2>2, <2>4, <2>6, ServiceKeeps
<1>7. CASE PutFails(u)
  <2>1. PICK f \in Named(target, {u.name}), kind \in {"put", "lost_reply"} :
          Meets(kind) /\ bucket' = IF kind = "put" THEN bucket ELSE Put(bucket, f)
    BY <1>7 DEF PutFails
  <2>2. /\ ~ u.stored /\ target' = target /\ uploads' = (uploads \ {u}) \cup NextTry(u)
        /\ hist' = [hist EXCEPT !.givenUp = IF NextTry(u) = {} THEN @ \cup {u.name} ELSE @]
    BY <1>7 DEF PutFails
  <2>3. \A v \in NextTry(u) : v \in UploadRequest /\ v.name = u.name /\ ~ v.stored
    BY <1>2, <2>2 DEF NextTry, UploadRequest, SinkAssumption
  <2>4. uploads' \subseteq UploadRequest /\ NamesOf(uploads') \subseteq NamesOf(uploads)
    BY <1>2, <2>2, <2>3 DEF NamesOf
  <2>5. bucket' = bucket \/ bucket' = Put(bucket, f)
    BY <2>1
  <2>6. \A v \in uploads' : v.stored => Named(target', {v.name}) \subseteq bucket'
    BY <1>2, <1>5, <2>2, <2>3, <2>5
  <2>7. PICK G \in SUBSET Nat : hist' = [hist EXCEPT !.givenUp = G]
    <3>1. u.name \in Nat
      BY <1>2 DEF UploadRequest
    <3>2. (IF NextTry(u) = {} THEN hist.givenUp \cup {u.name} ELSE hist.givenUp) \in SUBSET Nat
      BY <1>3, <3>1
    <3> QED
      BY <2>2, <3>2
  <2> QED
    BY <1>1, <1>2, <1>5, <2>1, <2>2, <2>4, <2>5, <2>6, <2>7, ServiceKeeps
<1>8. CASE RemoveLocal(u)
  <2>1. u.stored /\ uploads' = uploads \ {u} /\ UNCHANGED <<bucket, hist>>
        /\ target' \in {target, target \ Named(target, {u.name})}
    BY <1>8 DEF RemoveLocal
  <2>2. PICK kind \in {"none", "remove"} : Meets(kind)
    BY <1>8 DEF RemoveLocal, Meets
  <2>3. Named(target, {u.name}) \subseteq bucket /\ NamesOf(uploads') \subseteq NamesOf(uploads)
    BY <1>2, <2>1 DEF NamesOf
  <2>4. target' \subseteq target /\ target \subseteq target' \cup bucket'
    BY <2>1, <2>3
  <2>5. \A v \in uploads' : v.stored => Named(target', {v.name}) \subseteq bucket'
    BY <1>2, <2>1 DEF Named
  <2> QED
    BY <1>1, <1>2, <1>3, <2>1, <2>2, <2>3, <2>4, <2>5, ServiceKeeps
<1> QED
  BY <1>1, <1>4, <1>6, <1>7, <1>8

LEMMA UploaderStopsStep ==
  ASSUME SinkAssumption, IInv, UploaderStops
  PROVE  IInv'
<1>1. /\ Meets("uploader") /\ server' = FALSE /\ uploads' = {}
      /\ hist' = [hist EXCEPT !.givenUp = @ \cup {v.name : v \in uploads}]
      /\ UNCHANGED <<auto, up, mem, tmp, target, bucket, names, opened>>
  BY DEF UploaderStops
<1>2. uploads \subseteq UploadRequest
  BY NowFresh DEF Fresh, Outcome
<1>3. PICK G \in SUBSET Nat : hist' = [hist EXCEPT !.givenUp = G]
  BY <1>1, <1>2 DEF IInv, HistType, UploadRequest
<1>4. NamesOf(uploads') \subseteq NamesOf(uploads)
  BY <1>1 DEF NamesOf
<1> QED
  BY <1>1, <1>3, <1>4, ServiceKeeps

LEMMA RollbackStep ==
  ASSUME SinkAssumption, IInv, Rollback
  PROVE  IInv' /\ Covers
<1> USE DEF IInv
<1>1. PICK o \in Close(Now) :
       \/ ~ o.ok /\ Answer(o) /\ hist' = Told(o)
       \/ /\ o.ok
          /\ \E kept \in SUBSET StagedNames(o.mem) :
               /\ Answer([o EXCEPT !.mem.staged = <<>>,
                                   !.target = @ \ Named(@, StagedNames(o.mem) \ kept),
                                   !.fault = IF kept = {} THEN "none" ELSE "remove"])
               /\ hist' = [hist EXCEPT !.rolled = @ \cup StagedRows(o), !.stuck = @ \cup kept]
  BY DEF Rollback
<1>2. /\ Sound(o, names, hist.written) /\ Keeps(Now, o) /\ up = "running"
      /\ o.ok => Nothing(Now, o) \/ Closes(Now, o)
      /\ UNCHANGED <<names, opened>>
  BY NowFresh, CloseKeeps DEF Rollback
<1>3. CASE ~ o.ok
  BY <1>1, <1>2, <1>3, HandlerKeeps
<1>4. CASE o.ok
  <2> DEFINE S == StagedNames(o.mem)
  <2>1. PICK kept \in SUBSET S :
          /\ Answer([o EXCEPT !.mem.staged = <<>>, !.target = @ \ Named(@, S \ kept),
                              !.fault = IF kept = {} THEN "none" ELSE "remove"])
          /\ hist' = [hist EXCEPT !.rolled = @ \cup StagedRows(o), !.stuck = @ \cup kept]
    BY <1>1, <1>4
  <2> DEFINE T == o.target \ Named(o.target, S \ kept)
             m == [o.mem EXCEPT !.staged = <<>>]
             x == [o EXCEPT !.mem.staged = <<>>, !.target = @ \ Named(@, S \ kept),
                            !.fault = IF kept = {} THEN "none" ELSE "remove"]
  <2>2. o \in Outcome /\ o.mem \in Memory /\ o.mem.active = NoFile /\ o.uploads = uploads
    BY <1>2, <1>4, NowFresh DEF Keeps, Outcome, Nothing, Closes, Sound, Layout
  <2>3. x.mem = m /\ x.tmp = o.tmp /\ x.target = T /\ x.uploads = uploads
        /\ x.fault = IF kept = {} THEN "none" ELSE "remove"
    BY <2>2 DEF Outcome
  <2>4. m \in Memory /\ m.active = NoFile /\ m.staged = <<>>
    <3>1. <<>> \in Seq(Nat)
      OBVIOUS
    <3> QED
      BY <2>2, <3>1 DEF Memory
  <2>5. Held(m) = {} /\ Held(o.mem) = {} /\ StagedNames(m) = {} /\ m.active.name = 0
        /\ m.active.buffer = {}
    <3> HIDE DEF m
    <3>1. Held(m) = {} /\ m.active.name = 0 /\ Held(o.mem) = {}
      BY <2>2, <2>4, NothingHeld
    <3>2. StagedNames(m) = {} /\ m.active.buffer = {}
      BY <2>4 DEF StagedNames, NoFile
    <3> QED
      BY <3>1, <3>2
  <2> HIDE DEF m, x
  <2>6. /\ mem' = m /\ tmp' = o.tmp /\ target' = T /\ uploads' = uploads
        /\ Meets(IF kept = {} THEN "none" ELSE "remove")
        /\ UNCHANGED <<auto, up, server, bucket, names, opened>>
    BY <1>2, <2>1, <2>3 DEF Answer, x
  <2>7. /\ hist'.told = hist.told /\ hist'.accepted = hist.accepted
        /\ hist'.written = hist.written /\ hist'.committed = hist.committed
        /\ hist'.rolled = hist.rolled \cup StagedRows(o) /\ hist'.stuck = hist.stuck \cup kept
        /\ hist'.recovered = hist.recovered
    BY <2>1 DEF HistType
  <2>8. StagedRows(o) \subseteq RowsOf(o.target) /\ RowsOf(o.target) \subseteq 1..hist.written
        /\ StagedRows(o) \subseteq Nat
    BY <1>2 DEF StagedRows, RowsOf, Named, Sound, RowsApart
  <2>9. S \cap NamesOf(o.tmp \cup uploads \cup bucket \cup hist.committed) = {} /\ S \subseteq 1..names
    BY <1>2, <2>2 DEF Sound, Layout
  <2>10. ASSUME NEW f \in o.tmp \cup o.target \cup bucket, f.rows \cap StagedRows(o) # {}
         PROVE  f.name \in S
    <3>1. PICK g \in o.target : g.name \in S /\ f.rows \cap g.rows # {}
      BY <2>10 DEF StagedRows, RowsOf, Named
    <3> QED
      BY <1>2, <3>1 DEF Sound, RowsApart
  <2>11. /\ Now'.mem = m /\ Now'.tmp = o.tmp /\ Now'.target = T /\ Now'.uploads = uploads
         /\ Now'.ok = TRUE /\ Now'.fault = "none" /\ Now' \in Outcome
    BY <2>2, <2>4, <2>6 DEF Now, Outcome
  <2>12. T \subseteq o.target /\ \A f \in o.target : f \in T \/ f.name \in S
    BY DEF Named
  <2>13. StateType'
    <3>1. faults' \in 0..MaxFaults
      BY <2>6 DEF Meets, StateType, SinkAssumption
    <3>2. IsFiniteSet({}) /\ Cardinality({}) <= BatchSize + faults'
      BY <3>1, FS_EmptySet DEF SinkAssumption
    <3> QED
      BY <1>2, <2>5, <2>6, <2>11, <3>1, <3>2 DEF StateType
  <2>14. HistType'
    <3>1. kept \subseteq 1..names /\ 1..names \subseteq Nat
      BY <2>9, NowFresh
    <3>2. hist' \in [accepted : SUBSET Nat, written : Nat, told : SUBSET Nat,
                     committed : SUBSET File, rolled : SUBSET Nat, stuck : SUBSET Nat,
                     recovered : SUBSET Nat, givenUp : SUBSET Nat]
      BY <2>1, <2>8, <3>1 DEF HistType
    <3> QED
      BY <2>6, <2>7, <2>8, <3>1, <3>2 DEF HistType
  <2> HIDE DEF T, S
  <2>15. Layout(Now, names)'
    <3> Layout(o, names)
      BY <1>2 DEF Sound
    <3>1. hist.committed \subseteq T \cup bucket
      BY <2>9, <2>12 DEF Layout, NamesOf
    <3>2. NamesOf(o.tmp \cup T \cup uploads) \subseteq NamesOf(o.tmp \cup o.target \cup uploads)
          /\ NamesOf(T \cup bucket \cup uploads) \subseteq NamesOf(o.target \cup bucket \cup uploads)
      BY <2>12 DEF NamesOf
    <3> QED
      BY <2>2, <2>4, <2>5, <2>6, <2>7, <2>11, <2>12, <3>1, <3>2 DEF Layout
  <2>16. RowsApart(Now, hist.written)'
    <3>1. RowsOf(o.tmp \cup T \cup bucket) \subseteq RowsOf(o.tmp \cup o.target \cup bucket)
      BY <2>12 DEF RowsOf
    <3> QED
      BY <1>2, <2>5, <2>6, <2>7, <2>11, <2>12, <3>1 DEF Sound, RowsApart
  <2>17. RolledApart(Now)'
    <3>1. ASSUME NEW f \in o.tmp \cup T \cup bucket, f.rows \cap StagedRows(o) # {}
          PROVE  f.name \in kept
      <4>1. f.name \in S
        BY <2>10, <2>12, <3>1
      <4>2. f \in T
        BY <2>9, <3>1, <4>1 DEF NamesOf
      <4> QED
        BY <4>1, <4>2 DEF T, Named
    <3>2. kept \cap NamesOf(o.tmp) = {} /\ kept \cap NamesOf(uploads) = {}
      BY <2>9 DEF NamesOf
    <3> QED
      BY <1>2, <2>2, <2>5, <2>6, <2>7, <2>11, <2>12, <3>1, <3>2 DEF Sound, RolledApart
  <2>18. UploadsKnown(Now)'
    BY <1>2, <2>2, <2>6, <2>7, <2>11, <2>12 DEF Sound, UploadsKnown, Named
  <2>19. Requested'
    <3>1. \A u \in uploads : Named(T, {u.name}) \subseteq Named(target, {u.name})
      BY <1>2, <2>12, NowFresh DEF Keeps, Named
    <3> QED
      BY <2>6, <2>7, <3>1 DEF Requested
  <2>20. TmpTold'
    BY <1>2, <1>4, <2>6, <2>7, NowFresh DEF Keeps, TmpTold
  <2>21. NoSilentDrop'
    <3>1. Held(mem) \subseteq RowsOf(o.target) /\ target \subseteq o.target
      BY <1>2, <1>4, <2>5, NowFresh DEF Keeps
    <3>2. RowsOf(o.target) \subseteq RowsOf(T) \cup StagedRows(o)
      BY <2>12 DEF RowsOf, StagedRows, Named, S
    <3>3. RowsOf(tmp \cup target \cup bucket) \subseteq RowsOf(tmp) \cup RowsOf(o.target) \cup RowsOf(bucket)
      BY <3>1 DEF RowsOf
    <3>4. RowsOf(T) \cup RowsOf(bucket) \subseteq RowsOf(o.tmp \cup T \cup bucket)
      BY DEF RowsOf
    <3> QED
      BY <2>6, <2>7, <3>1, <3>2, <3>3, <3>4 DEF NoSilentDrop, TmpTold
  <2>22. RolledBackStaysOut'
    <3>1. ASSUME NEW f \in bucket PROVE f.rows \cap StagedRows(o) = {}
      BY <2>9, <2>10 DEF NamesOf
    <3> QED
      BY <2>6, <2>7, <3>1 DEF RolledBackStaysOut, RowsOf
  <2>23. OnlyCommittedOrRecovered' /\ UnreadableOnlyRecovered'
    BY <2>6, <2>7 DEF OnlyCommittedOrRecovered, UnreadableOnlyRecovered
  <2> QED
    BY <2>13, <2>14, <2>15, <2>16, <2>17, <2>18, <2>19, <2>20, <2>21, <2>22, <2>23, <2>7
       DEF Sound, Covers
<1> QED
  BY <1>3, <1>4

LEMMA BootStep ==
  ASSUME SinkAssumption, IInv, Boot
  PROVE  IInv'
<1> USE DEF IInv
<1>1. PICK skipped \in SUBSET tmp :
        /\ Meets(IF skipped = {} THEN "none" ELSE "boot")
        /\ LET found == Deposited(tmp \ skipped)
               all == {f \in target : f.name \notin {g.name : g \in found}} \cup found
           IN /\ tmp' = skipped /\ target' = all
              /\ uploads' = Requests(all)
              /\ hist' = [hist EXCEPT !.recovered = @ \cup {f.name : f \in all}]
  BY DEF Boot
<1> DEFINE found == Deposited(tmp \ skipped)
           all == {f \in target : f.name \notin {g.name : g \in found}} \cup found
<1>2. found \subseteq tmp \ skipped /\ (found # {} => auto)
  BY DEF Deposited
<1> HIDE DEF found
<1>3. Layout(Now, names) /\ mem = Forgotten /\ up # "running"
      /\ Now.mem = mem /\ Now.tmp = tmp /\ Now.target = target /\ Now.uploads = uploads
      /\ tmp \subseteq File /\ target \subseteq File
  BY NowFresh DEF Sound, Boot, StateType, Fresh, Outcome
<1>4. \A f \in found, g \in target \cup bucket \cup skipped : f.name # g.name
  BY <1>2, <1>3 DEF Layout, NamesOf
<1>5. all = target \cup found
  BY <1>4
<1> HIDE DEF all
<1>6. /\ tmp' = skipped /\ target' = target \cup found /\ up' = "running" /\ server' = TRUE
      /\ UNCHANGED <<auto, mem, bucket, names, opened>>
      /\ uploads' = Requests(target \cup found)
      /\ hist' = [hist EXCEPT !.recovered = @ \cup NamesOf(target \cup found)]
  BY <1>1, <1>5 DEF Boot, all, found, NamesOf
<1>7. NamesOf(target \cup found) \subseteq 1..names /\ 1..names \subseteq Nat
  BY <1>2, <1>3, NowFresh DEF Layout, NamesOf
<1>8. /\ hist'.told = hist.told /\ hist'.accepted = hist.accepted
      /\ hist'.written = hist.written /\ hist'.committed = hist.committed
      /\ hist'.rolled = hist.rolled /\ hist'.stuck = hist.stuck
      /\ hist'.recovered = hist.recovered \cup NamesOf(target \cup found)
  BY <1>6 DEF HistType
<1>9. uploads' \subseteq UploadRequest /\ NamesOf(uploads') = NamesOf(target \cup found)
      /\ \A u \in uploads' : ~ u.stored
  <2>1. \A n \in Nat : Request(n) \in UploadRequest
    BY DEF Request, UploadRequest, SinkAssumption
  <2>2. \A n : Request(n).name = n /\ ~ Request(n).stored
    BY DEF Request
  <2>3. \A f \in target \cup found : f.name \in Nat
    BY <1>7 DEF NamesOf
  <2> QED
    BY <1>6, <2>1, <2>2, <2>3 DEF Requests, NamesOf
<1>10. StagedNames(mem) = {} /\ Held(mem) = {} /\ mem.active.name = 0 /\ mem.active = NoFile
  BY <1>3 DEF Forgotten, NoFile, StagedNames, Held
<1>11. /\ Now'.mem = mem /\ Now'.tmp = skipped /\ Now'.target = target \cup found
       /\ Now'.uploads = uploads' /\ Now'.ok = TRUE /\ Now'.fault = "none" /\ Now' \in Outcome
  BY <1>2, <1>3, <1>6, <1>9, NowFresh DEF Now, Outcome
<1>12. skipped \cup target \cup found \cup bucket \subseteq tmp \cup target \cup bucket
  BY <1>2
<1>13. StateType'
  <2>1. faults' \in 0..MaxFaults
    BY <1>1 DEF Meets, StateType, SinkAssumption
  <2>2. mem.active.buffer = {} /\ IsFiniteSet({}) /\ Cardinality({}) <= BatchSize + faults'
    BY <1>10, <2>1, FS_EmptySet DEF SinkAssumption, NoFile
  <2> QED
    BY <1>6, <1>11, <2>1, <2>2 DEF StateType
<1>14. HistType'
  <2>1. hist' \in [accepted : SUBSET Nat, written : Nat, told : SUBSET Nat,
                   committed : SUBSET File, rolled : SUBSET Nat, stuck : SUBSET Nat,
                   recovered : SUBSET Nat, givenUp : SUBSET Nat]
    BY <1>6, <1>7 DEF HistType
  <2> QED
    BY <1>6, <1>8, <2>1 DEF HistType
<1>15. Layout(Now, names)'
  <2>1. NamesOf(skipped \cup (target \cup found) \cup uploads') \subseteq 1..names
    <3>1. NamesOf(skipped \cup (target \cup found) \cup uploads')
            = NamesOf(skipped) \cup NamesOf(target \cup found) \cup NamesOf(uploads')
      BY DEF NamesOf
    <3>2. NamesOf(skipped) \subseteq 1..names
      BY <1>3 DEF Layout, NamesOf
    <3> QED
      BY <1>7, <1>9, <3>1, <3>2
  <2>2. NamesOf(skipped) \cap NamesOf((target \cup found) \cup bucket \cup uploads') = {}
    <3>1. NamesOf((target \cup found) \cup bucket \cup uploads') = NamesOf(target \cup found \cup bucket)
      BY <1>9 DEF NamesOf
    <3>2. \A f \in skipped, g \in target \cup found \cup bucket : f.name # g.name
      BY <1>3, <1>4 DEF Layout, NamesOf
    <3> QED
      BY <3>1, <3>2 DEF NamesOf
  <2>3. \A f, g \in target \cup found \cup bucket : f.name = g.name => f = g
    BY <1>2, <1>3, <1>4 DEF Layout
  <2> QED
    BY <1>3, <1>6, <1>8, <1>10, <1>11, <2>1, <2>2, <2>3 DEF Layout
<1>16. RowsApart(Now, hist.written)'
  <2>1. RowsOf(skipped \cup (target \cup found) \cup bucket) \subseteq RowsOf(tmp \cup target \cup bucket)
    BY <1>12 DEF RowsOf
  <2> QED
    BY <1>3, <1>6, <1>8, <1>10, <1>11, <1>12, <2>1 DEF Sound, RowsApart
<1>17. RolledApart(Now)'
  <2>1. hist.stuck \cap NamesOf(skipped) = {}
    BY <1>3 DEF Sound, RolledApart, NamesOf
  <2> QED
    BY <1>3, <1>6, <1>8, <1>9, <1>10, <1>11, <1>12, <2>1 DEF Sound, RolledApart
<1>18. UploadsKnown(Now)'
  <2>1. \A f \in target \cup found : f.footer \/ (auto /\ f.name \in hist'.recovered)
    BY <1>2, <1>3, <1>8 DEF Sound, UploadsKnown, NamesOf
  <2> QED
    BY <1>6, <1>9, <1>11, <2>1 DEF UploadsKnown
<1>19. Requested' /\ TmpTold'
  <2>1. \A u \in uploads' : u.name \in hist'.recovered
    BY <1>8, <1>9 DEF NamesOf
  <2>2. RowsOf(skipped) \subseteq RowsOf(tmp)
    BY DEF RowsOf
  <2> QED
    BY <1>6, <1>8, <2>1, <2>2 DEF Requested, TmpTold
<1>20. NoSilentDrop'
  <2>1. RowsOf(tmp \cup target \cup bucket) \subseteq RowsOf(tmp) \cup RowsOf(skipped \cup (target \cup found) \cup bucket)
    BY DEF RowsOf
  <2> QED
    BY <1>6, <1>8, <2>1 DEF NoSilentDrop, TmpTold
<1>21. (RolledBackStaysOut /\ OnlyCommittedOrRecovered /\ UnreadableOnlyRecovered)'
  BY <1>6, <1>8 DEF RolledBackStaysOut, OnlyCommittedOrRecovered, UnreadableOnlyRecovered, RowsOf
<1> QED
  BY <1>13, <1>14, <1>15, <1>16, <1>17, <1>18, <1>19, <1>20, <1>21 DEF Sound

LEMMA StutterStep ==
  ASSUME IInv, UNCHANGED vars
  PROVE  IInv'
<1> USE DEF vars, IInv
<1>1. Now' = Now
  BY DEF Now
<1>2. StateType' /\ HistType'
  BY <1>1 DEF StateType, HistType
<1>3. Layout(Now, names)' /\ RowsApart(Now, hist.written)' /\ RolledApart(Now)' /\ UploadsKnown(Now)'
  BY <1>1 DEF Sound, Layout, RowsApart, RolledApart, UploadsKnown
<1>4. (Requested /\ TmpTold /\ NoSilentDrop)'
  BY DEF Requested, TmpTold, NoSilentDrop
<1>5. (RolledBackStaysOut /\ OnlyCommittedOrRecovered /\ UnreadableOnlyRecovered)'
  BY DEF RolledBackStaysOut, OnlyCommittedOrRecovered, UnreadableOnlyRecovered
<1> QED
  BY <1>2, <1>3, <1>4, <1>5 DEF Sound

LEMMA InitIInv ==
  ASSUME SinkAssumption, Init
  PROVE  IInv
<1> USE DEF Init
<1>1. Forgotten.active = NoFile /\ Forgotten.staged = <<>> /\ Forgotten \in Memory
  <2>1. <<>> \in Seq(Nat)
    OBVIOUS
  <2>2. NoFile \in [name : Nat, rows : SUBSET Nat, buffer : SUBSET Nat]
    BY DEF NoFile
  <2> QED
    BY <2>1, <2>2 DEF Forgotten, Memory
<1>2. /\ mem.active.name = 0 /\ mem.active.rows = {} /\ mem.active.buffer = {}
      /\ mem.active = NoFile /\ StagedNames(mem) = {}
  BY <1>1 DEF NoFile, StagedNames
<1>3. Held(mem) = {}
  BY <1>2 DEF Held
<1>4. /\ Now.mem = mem /\ Now.tmp = {} /\ Now.target = {} /\ Now.uploads = {} /\ Now \in Outcome
  BY <1>1 DEF Now, Outcome
<1>5. StateType
  <2>1. IsFiniteSet({}) /\ Cardinality({}) <= BatchSize + 0
    BY FS_EmptySet DEF SinkAssumption
  <2>2. 0 \in 0..MaxFiles /\ 0 \in 0..MaxFaults /\ 0 \in 0..0
    BY DEF SinkAssumption
  <2> QED
    BY <1>2, <1>4, <2>1, <2>2 DEF StateType
<1>6. HistType
  <2>1. 0 <= MaxRecords
    BY DEF SinkAssumption
  <2> QED
    BY <2>1 DEF HistType, HistInit, NamesOf
<1>7. Sound(Now, names, hist.written)
  BY <1>2, <1>3, <1>4 DEF Sound, Layout, RowsApart, RolledApart, UploadsKnown, NamesOf, RowsOf, HistInit
<1>8. Requested /\ TmpTold /\ NoSilentDrop
  BY <1>3 DEF Requested, TmpTold, NoSilentDrop, HistInit, RowsOf
<1>9. RolledBackStaysOut /\ OnlyCommittedOrRecovered /\ UnreadableOnlyRecovered
  BY DEF RolledBackStaysOut, OnlyCommittedOrRecovered, UnreadableOnlyRecovered, HistInit, RowsOf
<1> QED
  BY <1>5, <1>6, <1>7, <1>8, <1>9 DEF IInv

LEMMA IInvStep ==
  ASSUME SinkAssumption, ClockAdvances, IInv, [Next]_vars
  PROVE  IInv' /\ Covers
<1>1. CASE Write \/ Commit \/ Rollback \/ Roll
  BY <1>1, WriteStep, CommitStep, RollbackStep, RollStep
<1>2. CASE Shutdown \/ Crash
  <2>1. up' # "running"
    BY <1>2 DEF Shutdown, Crash, EndProcess
  <2> QED
    BY <1>2, <2>1, ShutdownStep, CrashStep DEF Covers
<1>3. CASE Boot
  <2>1. hist'.committed = hist.committed
    BY <1>3 DEF Boot, IInv, HistType
  <2> QED
    BY <1>3, <2>1, BootStep DEF Covers
<1>4. CASE \E u \in uploads : Upload(u)
  <2>1. PICK u \in uploads : Upload(u)
    BY <1>4
  <2>2. hist'.committed = hist.committed
    BY <2>1 DEF Upload, Ignore, Stored, PutFails, RemoveLocal, IInv, HistType
  <2> QED
    BY <2>1, <2>2, UploadStep DEF Covers
<1>5. CASE UploaderStops
  <2>1. hist'.committed = hist.committed
    BY <1>5 DEF UploaderStops, IInv, HistType
  <2> QED
    BY <1>5, <2>1, UploaderStopsStep DEF Covers
<1>6. CASE UNCHANGED vars
  BY <1>6, StutterStep DEF Covers, vars
<1> QED
  BY <1>1, <1>2, <1>3, <1>4, <1>5, <1>6 DEF Next

LEMMA InductiveInvariant ==
  ASSUME ClockAdvances
  PROVE  Spec => []IInv
<1>1. Init => IInv
  BY InitIInv, SinkAssumption
<1>2. IInv /\ [Next]_vars => IInv'
  BY IInvStep, SinkAssumption
<1> QED
  BY <1>1, <1>2, PTL DEF Spec

-----------------------------------------------------------------------------
(* What follows.                                                           *)

\* A record whose write was answered Ok is in memory, on disk or in the
\* bucket, was rolled back, or an error was answered when it was lost
\* (file_sink.rs, write, maybe_roll, rollback, recover_from_crash).
THEOREM AcceptedIsKept ==
  ASSUME ClockAdvances
  PROVE  Spec => []NoSilentDrop
<1>1. IInv => NoSilentDrop
  BY DEF IInv
<1> QED
  BY <1>1, InductiveInvariant, PTL

\* A file a commit answered Ok for stays on disk or in the bucket, through
\* failed uploads, rollbacks, crashes and recoveries (file_sink.rs, commit).
THEOREM CommittedStays ==
  ASSUME ClockAdvances
  PROVE  Spec => []CommittedKept
<1>1. IInv => CommittedKept
  BY DEF IInv, Sound, Layout, CommittedKept, Now
<1> QED
  BY <1>1, InductiveInvariant, PTL

\* The bucket holds what was committed or recovered, each record in one
\* object, and of what was rolled back only what could not be removed and
\* was recovered; files without a footer only where recovery put them.
THEOREM BucketIsSound ==
  ASSUME ClockAdvances
  PROVE  Spec => []BucketSound
<1>1. IInv => BucketSound
  <2> SUFFICES ASSUME IInv PROVE BucketSound
    OBVIOUS
  <2>1. /\ Now.mem = mem /\ Now.tmp = tmp /\ Now.target = target /\ Now.uploads = uploads
        /\ Now \in Outcome /\ names \in Nat
    BY NowFresh, SinkAssumption DEF Fresh
  <2>2. UploadedOnce
    BY <2>1 DEF IInv, Sound, RowsApart, UploadedOnce
  <2>3. \A f \in tmp \cup target \cup bucket :
          f.name \in 1..names /\ f.rows \subseteq 1..MaxRecords /\ f.footer \in BOOLEAN
    <3> SUFFICES ASSUME NEW f \in tmp \cup target \cup bucket
                 PROVE  f.name \in 1..names /\ f.rows \subseteq 1..MaxRecords /\ f.footer \in BOOLEAN
      OBVIOUS
    <3>1. f.name \in 1..names
      BY <2>1 DEF IInv, Sound, Layout, HistType, NamesOf
    <3>2. f.rows \subseteq 1..hist.written
      BY <2>1 DEF IInv, Sound, RowsApart, RowsOf
    <3>3. 1..hist.written \subseteq 1..MaxRecords
      BY SinkAssumption DEF IInv, HistType, SinkAssumption
    <3>4. f \in File
      BY <2>1 DEF IInv, StateType, Outcome
    <3> QED
      BY <3>1, <3>2, <3>3, <3>4 DEF File
  <2>4. \A u \in uploads : u.name \in 1..names /\ u.tries \in 0..UploadRetries
    BY <2>1 DEF IInv, Sound, Layout, NamesOf, Outcome, UploadRequest
  <2>5. TypeOK
    BY <2>3, <2>4 DEF IInv, StateType, TypeOK
  <2> QED
    BY <2>2, <2>5 DEF IInv, BucketSound
<1> QED
  BY <1>1, InductiveInvariant, PTL

\* A commit that answers Ok covers every record accepted before it, in memory
\* or staged (file_sink.rs, commit and maybe_close_active_sink).
THEOREM CommitsCoverAll ==
  ASSUME ClockAdvances
  PROVE  Spec => CommitCoversAll
<1>1. IInv /\ [Next]_vars
        => [(hist'.committed # hist.committed /\ up' = "running") =>
              hist'.accepted \cap (Held(mem) \cup StagedRows(Now)) \subseteq
                RowsOf(hist'.committed)]_vars
  BY IInvStep, SinkAssumption DEF Covers
<1> QED
  BY <1>1, InductiveInvariant, PTL DEF Spec, CommitCoversAll
=============================================================================
