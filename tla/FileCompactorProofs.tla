-------------------------- MODULE FileCompactorProofs --------------------------
(***************************************************************************)
(* Proofs about the file compactor, for any number of files, batches,      *)
(* schemas, runs and faults, with and without deduplication, deletion of   *)
(* the originals, and a checkpoint.                                        *)
(***************************************************************************)
EXTENDS FileCompactor, FiniteSetTheorems, SequenceTheorems, TLAPS

-----------------------------------------------------------------------------
(* Maxima and sequences.                                                   *)

\* A set of timestamps has a latest.
LEMMA MaxIs ==
  ASSUME NEW S \in SUBSET Times, S # {}
  PROVE  Max(S) \in S /\ \A x \in S : x <= Max(S)
<1> DEFINE D == {MaxTime - x : x \in S}
<1>1. MaxTime \in Nat /\ S \subseteq 1..MaxTime
  BY CompactorAssumption DEF Times
<1>2. D \subseteq Nat /\ D # {}
  <2>1. \A x \in S : MaxTime - x \in Nat
    BY <1>1
  <2> QED
    BY <2>1
<1>3. PICK d \in D : \A y \in D : ~(<<y, d>> \in OpToRel(<, Nat))
  BY <1>2, NatLessThanWellFounded, WFMin
<1>4. PICK m \in S : d = MaxTime - m
  OBVIOUS
<1>5. \A x \in S : x <= m
  <2> TAKE x \in S
  <2>1. MaxTime - x \in D /\ ~(<<MaxTime - x, d>> \in OpToRel(<, Nat))
    BY <1>3
  <2>2. ~(MaxTime - x < d)
    BY <1>2, <2>1 DEF OpToRel
  <2> QED
    BY <1>1, <1>4, <2>2
<1> QED
  BY <1>1, <1>5 DEF Max

\* What appending does to the elements of a sequence.
LEMMA AppendRange ==
  ASSUME NEW S, NEW s \in Seq(S), NEW e \in S
  PROVE  /\ Append(s, e) \in Seq(S) /\ Append(s, e) # <<>>
         /\ Len(s) \in Nat /\ Len(Append(s, e)) = Len(s) + 1
         /\ Range(Append(s, e)) = Range(s) \cup {e}
<1>1. /\ Append(s, e) \in Seq(S) /\ Len(s) \in Nat /\ Len(Append(s, e)) = Len(s) + 1
      /\ \A i \in 1 .. Len(s) : Append(s, e)[i] = s[i]
      /\ Append(s, e)[Len(s) + 1] = e
  OBVIOUS
<1>2. 1 .. Len(s) + 1 = (1 .. Len(s)) \cup {Len(s) + 1}
  BY <1>1
<1>3. DOMAIN Append(s, e) = 1 .. Len(s) + 1 /\ DOMAIN s = 1 .. Len(s)
  BY <1>1
<1>4. Range(Append(s, e)) = Range(s) \cup {e}
  BY <1>1, <1>2, <1>3 DEF Range
<1>5. Append(s, e) # <<>>
  BY <1>1
<1> QED
  BY <1>1, <1>4, <1>5

LEMMA EmptySequence ==
  /\ Range(<<>>) = {} /\ Len(<<>>) = 0 /\ IsInjective(<<>>)
  /\ \A S : <<>> \in Seq(S)
  BY DEF Range, IsInjective

\* A sequence over a set is one over any larger set, and its elements are there.
LEMMA SeqElements ==
  ASSUME NEW S, NEW s \in Seq(S)
  PROVE  /\ Range(s) \subseteq S
         /\ \A T : S \subseteq T => s \in Seq(T)
         /\ s # <<>> => \E e \in S : e \in Range(s)
         /\ Range(s) = {} => s = <<>>
<1>1. Len(s) \in Nat /\ DOMAIN s = 1 .. Len(s) /\ \A i \in 1 .. Len(s) : s[i] \in S
  OBVIOUS
<1>2. Range(s) \subseteq S
  BY <1>1 DEF Range
<1>3. ASSUME NEW T, S \subseteq T PROVE s \in Seq(T)
  BY <1>1, <1>3
<1>4. ASSUME s # <<>> PROVE \E e \in S : e \in Range(s)
  <2>1. 1 \in 1 .. Len(s)
    BY <1>1, <1>4
  <2> QED
    BY <1>1, <2>1 DEF Range
<1> QED
  BY <1>2, <1>3, <1>4

\* The batches of a file.
LEMMA Bounded ==
  ASSUME NEW s \in BoundedSeq(Rows, MaxBatches)
  PROVE  /\ Len(s) \in 0 .. MaxBatches /\ DOMAIN s = 1 .. Len(s)
         /\ \A i \in DOMAIN s : s[i] \in Rows
<1>1. PICK m \in 0 .. MaxBatches : s \in [1 .. m -> Rows]
  BY DEF BoundedSeq, SeqOf
<1>2. s \in Seq(Rows) /\ Len(s) = m
  BY <1>1
<1> QED
  BY <1>1, <1>2

LEMMA StaysInjective ==
  ASSUME NEW S, NEW s \in Seq(S), NEW e \in S, IsInjective(s), e \notin Range(s)
  PROVE  IsInjective(Append(s, e))
<1>1. /\ Len(s) \in Nat /\ \A i \in 1 .. Len(s) : Append(s, e)[i] = s[i]
      /\ Append(s, e)[Len(s) + 1] = e
      /\ DOMAIN Append(s, e) = 1 .. Len(s) + 1 /\ DOMAIN s = 1 .. Len(s)
  OBVIOUS
<1>2. 1 .. Len(s) + 1 = (1 .. Len(s)) \cup {Len(s) + 1}
  BY <1>1
<1>3. \A i \in 1 .. Len(s) : s[i] # e
  BY <1>1 DEF Range
<1> QED
  BY <1>1, <1>2, <1>3 DEF IsInjective

-----------------------------------------------------------------------------
(* The accumulator.                                                        *)

\* Rows with their schemas.
Values == Schemas \X Rows

Accumulators == [rows : Seq(Batches), seen : SUBSET Values, dups : Nat, full : BOOLEAN]

\* n is a with batch b, unless an equal row was seen.
AddedTo(n, a, b) ==
  \/ /\ n.rows = Append(a.rows, b) /\ (deduplicate => Row(b) \notin a.seen)
     /\ n.seen = IF deduplicate THEN a.seen \cup {Row(b)} ELSE a.seen
     /\ n.dups = a.dups
  \/ /\ deduplicate /\ Row(b) \in a.seen
     /\ n.rows = a.rows /\ n.seen = a.seen /\ n.dups = a.dups + 1

LEMMA EmptyType == Empty \in Accumulators
  BY EmptySequence DEF Empty, Accumulators

LEMMA AddEffect ==
  ASSUME NEW a \in Accumulators, NEW b \in Batches, Row(b) \in Values
  PROVE  /\ AddBatch(a, b) \in Accumulators
         /\ AddedTo(AddBatch(a, b), a, b) /\ AddBatch(a, b).full = a.full
<1> DEFINE n == AddBatch(a, b)
<1>0. Append(a.rows, b) \in Seq(Batches)
  BY DEF Accumulators
<1>1. CASE ~deduplicate
  <2>1. n = [a EXCEPT !.rows = Append(@, b)]
    BY <1>1 DEF AddBatch
  <2> QED
    BY <1>0, <1>1, <2>1 DEF Accumulators, AddedTo
<1>2. CASE deduplicate /\ Row(b) \in a.seen
  <2>1. n = [a EXCEPT !.dups = @ + 1]
    BY <1>2 DEF AddBatch
  <2> QED
    BY <1>2, <2>1 DEF Accumulators, AddedTo
<1>3. CASE deduplicate /\ Row(b) \notin a.seen
  <2>1. n = [a EXCEPT !.rows = Append(@, b), !.seen = @ \cup {Row(b)}]
    BY <1>3 DEF AddBatch
  <2> QED
    BY <1>0, <1>3, <2>1 DEF Accumulators, AddedTo
<1> QED
  BY <1>1, <1>2, <1>3

\* A batch that is read is added, and the limit noted, unless it was met before.
LEMMA ReadEffect ==
  ASSUME NEW a \in Accumulators, NEW b \in Batches, Row(b) \in Values
  PROVE  /\ ReadBatch(a, b) \in Accumulators
         /\ a.full => ReadBatch(a, b) = a
         /\ ~a.full => /\ AddedTo(ReadBatch(a, b), a, b)
                       /\ ReadBatch(a, b).full <=> MeetsLimit(a)
<1>1. CASE a.full
  BY <1>1 DEF ReadBatch
<1>2. CASE ~a.full
  <2>1. PICK n : n = AddBatch(a, b)
    OBVIOUS
  <2>2. n \in Accumulators /\ AddedTo(n, a, b)
    BY <2>1, AddEffect
  <2>3. ReadBatch(a, b) = [n EXCEPT !.full = MeetsLimit(a)]
    BY <1>2, <2>1 DEF ReadBatch
  <2>4. MeetsLimit(a) \in BOOLEAN
    BY DEF MeetsLimit
  <2>5. ReadBatch(a, b) \in Accumulators /\ ReadBatch(a, b).full = MeetsLimit(a)
    BY <2>2, <2>3, <2>4 DEF Accumulators
  <2>6. AddedTo(ReadBatch(a, b), a, b)
    BY <2>2, <2>3 DEF Accumulators, AddedTo
  <2> QED
    BY <1>2, <2>5, <2>6
<1> QED
  BY <1>1, <1>2

LEMMA TakenEffect ==
  ASSUME NEW a \in Accumulators
  PROVE  /\ Taken(a) \in Accumulators /\ Taken(a).rows = <<>>
         /\ Taken(a).seen = a.seen /\ ~Taken(a).full
  BY EmptySequence DEF Taken, Accumulators

-----------------------------------------------------------------------------
(* What plan mode computes.                                                *)

Plans == [acc : Accumulators, records : Nat, duplicates : Nat, created : Nat,
          files : Nat, last : 0 .. MaxTime]

LEMMA SettledEffect ==
  ASSUME NEW p \in Plans
  PROVE  /\ Settled(p) \in Plans /\ Settled(p).files = p.files
         /\ Settled(p).acc = Taken(p.acc)
         /\ Settled(p).records = p.records + Len(p.acc.rows)
<1>1. p.acc \in Accumulators /\ Taken(p.acc) \in Accumulators
  BY TakenEffect DEF Plans
<1>2. Len(p.acc.rows) \in Nat /\ p.acc.dups \in Nat
  BY <1>1 DEF Accumulators
<1>3. PICK c, r, d, n : /\ c = Taken(p.acc) /\ r = p.records + Len(p.acc.rows)
                        /\ d = p.duplicates + p.acc.dups /\ n = p.created + 1
  OBVIOUS
<1>4. Settled(p) = [p EXCEPT !.acc = c, !.records = r, !.duplicates = d, !.created = n]
  BY <1>3 DEF Settled
<1>5. c \in Accumulators /\ r \in Nat /\ d \in Nat /\ n \in Nat
  <2>1. p.records \in Nat /\ p.duplicates \in Nat /\ p.created \in Nat
    BY DEF Plans
  <2>2. /\ \A x, y \in Nat : x + y \in Nat
        /\ r = p.records + Len(p.acc.rows) /\ d = p.duplicates + p.acc.dups /\ n = p.created + 1
    BY <1>3
  <2>3. r \in Nat
    BY <1>2, <2>1, <2>2
  <2>4. d \in Nat /\ n \in Nat
    BY <1>2, <2>1, <2>2
  <2> QED
    BY <1>1, <1>3, <2>3, <2>4
<1>6. Settled(p) \in Plans
  BY <1>4, <1>5 DEF Plans
<1>7. Settled(p).files = p.files /\ Settled(p).acc = c /\ Settled(p).records = r
  BY <1>4 DEF Plans
<1> QED
  BY <1>3, <1>6, <1>7

\* The records of a plan: those of its outputs, and those about to be one.
Planned(p) == p.records + Len(p.acc.rows)

LEMMA PlanEffect ==
  ASSUME NEW p \in Plans, NEW b \in Batches, Row(b) \in Values
  PROVE  /\ PlanBatch(p, b) \in Plans /\ PlanBatch(p, b).files = p.files
         /\ \/ /\ Planned(PlanBatch(p, b)) = Planned(p) + 1
               /\ PlanBatch(p, b).acc.seen =
                    IF deduplicate THEN p.acc.seen \cup {Row(b)} ELSE p.acc.seen
               /\ deduplicate => Row(b) \notin p.acc.seen
            \/ /\ deduplicate /\ Row(b) \in p.acc.seen
               /\ Planned(PlanBatch(p, b)) = Planned(p)
               /\ PlanBatch(p, b).acc.seen = p.acc.seen
<1>1. PICK q : q = IF MeetsLimit(p.acc) THEN Settled(p) ELSE p
  OBVIOUS
<1>2. /\ q \in Plans /\ q.files = p.files /\ q.acc.seen = p.acc.seen
      /\ Planned(q) = Planned(p)
  <2>1. CASE MeetsLimit(p.acc)
    <3>1. p.acc \in Accumulators /\ Len(p.acc.rows) \in Nat /\ p.records \in Nat
      BY DEF Plans, Accumulators
    <3>2. q = Settled(p) /\ q.acc.rows = <<>> /\ q.acc.seen = p.acc.seen
      BY <1>1, <2>1, <3>1, SettledEffect, TakenEffect
    <3> QED
      BY <3>1, <3>2, SettledEffect, EmptySequence DEF Planned
  <2>2. CASE ~MeetsLimit(p.acc)
    BY <1>1, <2>2
  <2> QED
    BY <2>1, <2>2
<1>3. PICK n : n = AddBatch(q.acc, b)
  OBVIOUS
<1>4. q.acc \in Accumulators /\ n \in Accumulators /\ AddedTo(n, q.acc, b)
  BY <1>2, <1>3, AddEffect DEF Plans
<1>5. PlanBatch(p, b) = [q EXCEPT !.acc = n]
  BY <1>1, <1>3 DEF PlanBatch
<1>6. /\ PlanBatch(p, b) \in Plans /\ PlanBatch(p, b).files = p.files
      /\ PlanBatch(p, b).acc = n /\ PlanBatch(p, b).records = q.records
  BY <1>2, <1>4, <1>5 DEF Plans
<1>7. Planned(PlanBatch(p, b)) = q.records + Len(n.rows) /\ Planned(q) = q.records + Len(q.acc.rows)
  BY <1>6 DEF Planned
<1>8. /\ q.records \in Nat /\ Len(q.acc.rows) \in Nat
      /\ Len(Append(q.acc.rows, b)) = Len(q.acc.rows) + 1
  BY <1>2, <1>4 DEF Plans, Accumulators
<1>9. CASE deduplicate /\ Row(b) \in q.acc.seen
  <2>1. AddBatch(q.acc, b) = [q.acc EXCEPT !.dups = @ + 1]
    BY <1>9 DEF AddBatch
  <2>2. n.rows = q.acc.rows /\ n.seen = q.acc.seen
    BY <1>3, <1>4, <2>1 DEF Accumulators
  <2> QED
    BY <1>2, <1>6, <1>7, <1>9, <2>2
<1>10. CASE ~(deduplicate /\ Row(b) \in q.acc.seen)
  <2>1. /\ n.rows = Append(q.acc.rows, b)
        /\ n.seen = IF deduplicate THEN q.acc.seen \cup {Row(b)} ELSE q.acc.seen
    BY <1>4, <1>10 DEF AddedTo
  <2>2. Planned(PlanBatch(p, b)) = Planned(p) + 1
    BY <1>2, <1>7, <1>8, <2>1
  <2> QED
    BY <1>2, <1>6, <1>10, <2>1, <2>2
<1> QED
  BY <1>9, <1>10

-----------------------------------------------------------------------------
(* Types, and what the phases of a run have in common.                     *)

Counts == [records : Nat, duplicates : Nat, created : Nat, files : Nat, last : 0 .. MaxTime]

FilesOk ==
  /\ content \in [Times -> BoundedSeq(Rows, MaxBatches)]
  /\ bad \subseteq uploaded /\ uploaded \subseteq Times
  /\ schemaOf \in [Times -> Schemas]

\* Every run adds at most one marker to a marker.
KeysOk ==
  /\ runs \in 0 .. MaxRuns /\ keys \subseteq uploaded \X (0 .. runs)
  /\ remaining \cup sources \cup todo \cup listed \subseteq uploaded \X (0 .. runs - 1)
  /\ made \subseteq uploaded

OutputsOk ==
  /\ compacted \in [Times -> Seq(Uploads)]
  /\ \A t \in Times : /\ Len(compacted[t]) <= MaxSize + 1
                      /\ t \notin uploaded => compacted[t] = <<>>
  /\ cut \subseteq Uploads

AccOk ==
  /\ acc \in Accumulators /\ acc.rows \in Seq(Uploads)
  /\ Len(acc.rows) <= (IF acc.full \/ phase = "upload" THEN MaxSize + 1 ELSE MaxSize)
  /\ acc.full => (file # NoFile \/ phase = "upload") /\ acc.rows # <<>>

LocalTypes ==
  /\ phase \in Phases /\ file \in Times \cup {NoFile} /\ offset \in Nat
  /\ happened \subseteq FaultKinds /\ schema \in Schemas \cup {NoSchema}
  /\ deduplicate \in BOOLEAN /\ deleting \in BOOLEAN /\ checkpointing \in BOOLEAN

CountsOk == counts \in Counts /\ plan \in Plans /\ checkpoint \in 0 .. MaxTime

Reset ==
  /\ remaining = {} /\ file = NoFile /\ sources = {} /\ todo = {} /\ acc = Empty
  /\ counts = NoCounts /\ listed = {} /\ made = {} /\ plan = NoPlan

PhasesOk ==
  /\ phase = "idle" => Reset
  /\ file # NoFile => /\ phase = "read" /\ file \in uploaded \ bad
                      /\ offset \in 0 .. Len(content[file]) /\ DataKey(file) \in listed
  /\ phase \in {"mark", "delete"} => acc.rows = <<>> /\ todo \subseteq sources
  /\ phase \in {"read", "upload"} => todo = {}
  /\ phase = "upload" => acc.rows # <<>>
  /\ phase = "delete" => deleting

\* Files that can be read and have not been read yet are listed.
ListedOk ==
  /\ \A k \in listed : IsData(k)
  /\ \A k \in remaining : IsData(k) => k \in listed

\* The source files of the output that is being built, or was built last, and
\* the file that is being read.
OpenKey == IF file = NoFile THEN {} ELSE {DataKey(file)}
Active == sources \cup OpenKey

\* What is accumulated comes from them.
RowsFrom == \A b \in Range(acc.rows) : DataKey(b[1]) \in Active

TypeInv ==
  /\ FilesOk /\ KeysOk /\ OutputsOk /\ AccOk /\ LocalTypes /\ CountsOk
  /\ PhasesOk /\ ListedOk /\ RowsFrom

\* The run ends, with its result, an error, or its process.
EndStep ==
  /\ phase # "idle" /\ phase' = "idle" /\ Reset'
  /\ UNCHANGED <<content, bad, uploaded, keys, config, runs, cut>>
  /\ \/ UNCHANGED compacted
     \/ /\ phase = "upload" /\ "put_stored" \in happened'
        /\ compacted' = [compacted EXCEPT ![LatestSource] = acc.rows]
  /\ UNCHANGED checkpoint \/ (Done /\ checkpoint' = counts.last)
  /\ phase \in {"mark", "delete"} => "crash" \in happened'
  /\ offset' \in Nat /\ schema' = NoSchema

\* A key is marked, deleted or unmarked.
KeyStep(key) ==
  /\ phase \in {"mark", "delete"} /\ key \in todo /\ todo' \subseteq todo
  /\ phase = "mark" => keys' \in {keys, keys \cup {MarkerOf(key)}}
  /\ phase = "delete" =>
       /\ keys' \in {keys, keys \ {key}, keys \ {MarkerOf(key)}}
       /\ "delete" \notin happened' =>
            \/ key \in keys /\ keys' = keys \ {key} /\ todo' = todo
            \/ /\ key \notin keys /\ todo' = todo \ {key}
               /\ "unmark" \notin happened' => keys' = keys \ {MarkerOf(key)}
  /\ UNCHANGED <<content, bad, uploaded, compacted, checkpoint, config, phase, reading,
                 sources, acc, counts, runs, history>>

\* The run passes to another phase.
PhaseStep ==
  /\ UNCHANGED <<bucket, checkpoint, config, reading, acc, counts, runs, happened, history>>
  /\ \/ /\ phase = "read" /\ phase' = "upload" /\ acc.rows # <<>> /\ file = NoFile
        /\ remaining = {} /\ UNCHANGED <<sources, todo>>
     \/ /\ phase = "mark" /\ phase' = "delete" /\ deleting /\ todo = {}
        /\ todo' = sources /\ UNCHANGED sources
     \/ /\ phase \in {"mark", "delete"} /\ phase' = "read" /\ sources' = {}
        /\ todo = {} /\ UNCHANGED todo /\ (phase = "mark" => ~deleting)

LEMMA EndSteps ==
  ASSUME TypeInv, PutFails \/ GetFails \/ (\E key \in Keys : GetsNothing(key)) \/ Finish \/ Stop
  PROVE  EndStep
<1>1. CASE PutFails
  BY <1>1 DEF PutFails, Fault, RunEnds, EndStep, Reset, config
<1>2. CASE GetFails
  BY <1>2 DEF GetFails, RunEnds, EndStep, Reset, config
<1>3. CASE \E key \in Keys : GetsNothing(key)
  BY <1>3 DEF GetsNothing, RunEnds, EndStep, Reset, config
<1>4. CASE Finish
  <2>1. todo = {} /\ offset \in Nat
    BY <1>4 DEF Finish, Done, TypeInv, PhasesOk, LocalTypes
  <2> QED
    BY <1>4, <2>1 DEF Finish, Done, Result, EndStep, Reset, bucket, config
<1>5. CASE Stop
  BY <1>5 DEF Stop, Fault, RunEnds, EndStep, Reset, config
<1> QED
  BY <1>1, <1>2, <1>3, <1>4, <1>5

LEMMA KeySteps ==
  ASSUME NEW key \in Keys, Mark(key) \/ Delete(key) \/ Unmark(key)
  PROVE  KeyStep(key)
<1>1. CASE Mark(key)
  BY <1>1 DEF Mark, KeyStep
<1>2. CASE Delete(key)
  BY <1>2 DEF Delete, Unmarked, KeyStep, Fault
<1>3. CASE Unmark(key)
  BY <1>3 DEF Unmark, Unmarked, KeyStep, Fault
<1> QED
  BY <1>1, <1>2, <1>3

LEMMA PhaseSteps ==
  ASSUME Flush \/ Marked \/ Deleted
  PROVE  PhaseStep
<1>1. CASE Flush
  BY <1>1 DEF Flush, PhaseStep
<1>2. CASE Marked
  BY <1>2 DEF Marked, PhaseStep
<1>3. CASE Deleted
  BY <1>3 DEF Deleted, PhaseStep
<1> QED
  BY <1>1, <1>2, <1>3

\* The kinds of step there are.
Kinds ==
  \/ \E t \in Times : Upload(t)
  \/ \E t \in Times : Start(t)
  \/ \E key \in Keys : Open(key)
  \/ \E key \in Keys : Pass(key)
  \/ Read \/ Close \/ Put \/ EndStep
  \/ \E key \in Keys : KeyStep(key)
  \/ PhaseStep
  \/ UNCHANGED vars

LEMMA StepKinds ==
  ASSUME TypeInv, [Next]_vars
  PROVE  Kinds /\ (happened \subseteq FaultKinds => happened' \subseteq FaultKinds)
               /\ happened \subseteq happened'
<1>1. Kinds
  BY EndSteps, KeySteps, PhaseSteps DEF Next, Kinds
<1>2. UNCHANGED happened \/ \E kind \in FaultKinds : happened' = happened \cup {kind}
  BY DEF Next, vars, Upload, Start, Open, Pass, GetsNothing, Read, Close, Flush, Put, PutFails,
         GetFails, Mark, Delete, Unmark, Marked, Deleted, Finish, Result, Stop, Fault
<1> QED
  BY <1>1, <1>2

\* No step but an upload changes the files, and an upload adds one.
LEMMA FilesFrame ==
  ASSUME Kinds
  PROVE  /\ UNCHANGED <<content, bad, uploaded>> \/ \E t \in Times : Upload(t)
         /\ UNCHANGED config
  BY DEF Kinds, Start, Open, Pass, Read, Close, Put, EndStep, KeyStep, PhaseStep, vars, bucket,
         Upload, config

\* What was uploaded stays as it is.
LEMMA UploadsStay ==
  ASSUME FilesOk, Kinds
  PROVE  /\ Uploads \subseteq Uploads' /\ uploaded \subseteq uploaded'
         /\ \A b \in Uploads : Row(b)' = Row(b)
         /\ \A b \in Uploads' : b \in Uploads \/ b[1] \notin uploaded
         /\ \A k : k[1] \in uploaded => (IsData(k)' <=> IsData(k))
<1>0. UNCHANGED schemaOf
  BY FilesFrame DEF config
<1>1. CASE UNCHANGED <<content, bad, uploaded>>
  BY <1>0, <1>1 DEF Uploads, Row, IsData, IsFile, Time
<1>2. CASE \E t \in Times : Upload(t)
  <2>1. PICK t \in Times : Upload(t)
    BY <1>2
  <2>2. PICK s \in BoundedSeq(Rows, MaxBatches) : content' = [content EXCEPT ![t] = s]
    BY <2>1 DEF Upload
  <2>3. /\ t \notin uploaded /\ uploaded' = uploaded \cup {t}
        /\ bad' = bad \/ bad' = bad \cup {t}
    BY <2>1 DEF Upload
  <2>4. \A u \in uploaded : content'[u] = content[u]
    BY <2>2, <2>3 DEF FilesOk
  <2>5. \A b \in Batches : b[1] \in uploaded => (b \in Uploads' <=> b \in Uploads)
    BY <2>3, <2>4 DEF Uploads
  <2>6. \A b \in Uploads : b \in Batches /\ b[1] \in uploaded
    BY DEF Uploads
  <2>7. \A b \in Uploads : Row(b)' = Row(b)
    BY <1>0, <2>4, <2>6 DEF Row
  <2>8. Uploads \subseteq Uploads'
    BY <2>5, <2>6
  <2>9. \A b \in Uploads' : b \in Uploads \/ b[1] \notin uploaded
    BY <2>5 DEF Uploads
  <2>10. \A k : k[1] \in uploaded => (IsData(k)' <=> IsData(k))
    BY <2>3 DEF IsData, IsFile, Time
  <2> QED
    BY <2>3, <2>7, <2>8, <2>9, <2>10
<1> QED
  BY <1>1, <1>2, FilesFrame

\* A batch that was uploaded has a row.
LEMMA RowType ==
  ASSUME FilesOk, NEW b \in Uploads
  PROVE  b \in Batches /\ Row(b) \in Values /\ b[1] \in uploaded \ bad
<1>1. b \in Batches /\ b[1] \in uploaded \ bad /\ b[2] \in DOMAIN content[b[1]]
  BY DEF Uploads
<1>2. content[b[1]] \in BoundedSeq(Rows, MaxBatches)
  BY <1>1 DEF FilesOk
<1> QED
  BY <1>1, <1>2, Bounded DEF Row, Values, FilesOk

\* The batch that is read next.
LEMMA NextBatch ==
  ASSUME TypeInv, Read
  PROVE  /\ <<file, offset + 1>> \in Uploads
         /\ file # NoFile /\ file \in uploaded \ bad /\ phase = "read"
         /\ offset + 1 \in 1 .. Len(content[file])
<1>1. /\ file # NoFile /\ file \in uploaded \ bad /\ phase = "read"
      /\ offset \in 0 .. Len(content[file]) /\ offset < Len(content[file])
  BY DEF Read, TypeInv, PhasesOk
<1>2. file \in Times /\ content[file] \in BoundedSeq(Rows, MaxBatches)
  BY <1>1 DEF TypeInv, FilesOk
<1>3. Len(content[file]) \in 0 .. MaxBatches /\ DOMAIN content[file] = 1 .. Len(content[file])
  BY <1>2, Bounded
<1>4. MaxBatches \in Nat
  BY CompactorAssumption
<1>5. offset + 1 \in 1 .. Len(content[file]) /\ offset + 1 \in 1 .. MaxBatches
  BY <1>1, <1>3, <1>4
<1>6. <<file, offset + 1>> \in Batches
  BY <1>2, <1>5 DEF Batches
<1> QED
  BY <1>1, <1>3, <1>5, <1>6 DEF Uploads

\* Where the output of the sources goes.
LEMMA LatestIs ==
  ASSUME KeysOk, FilesOk, sources # {}
  PROVE  /\ LatestSource \in uploaded /\ \E k \in sources : LatestSource = Time(k)
         /\ \A k \in sources : Time(k) <= LatestSource
<1> DEFINE S == {Time(k) : k \in sources}
<1>1. \A k \in sources : Time(k) \in uploaded
  BY DEF KeysOk, Time
<1>2. S \subseteq Times /\ S # {}
  BY <1>1 DEF FilesOk
<1>3. Max(S) \in S /\ \A x \in S : x <= Max(S)
  BY <1>2, MaxIs
<1> QED
  BY <1>1, <1>3 DEF LatestSource

-----------------------------------------------------------------------------
(* The types are kept.                                                     *)

LEMMA FilesKept ==
  ASSUME FilesOk, Kinds
  PROVE  FilesOk'
<1>0. UNCHANGED schemaOf
  BY FilesFrame DEF config
<1>1. CASE UNCHANGED <<content, bad, uploaded>>
  BY <1>0, <1>1 DEF FilesOk
<1>2. CASE \E t \in Times : Upload(t)
  BY <1>0, <1>2 DEF Upload, FilesOk
<1> QED
  BY <1>1, <1>2, FilesFrame

\* An output has sources, and files among them.
LEMMA HasSources ==
  ASSUME TypeInv, phase = "upload"
  PROVE  \E b \in Range(acc.rows) : DataKey(b[1]) \in sources
<1>1. file = NoFile /\ acc.rows # <<>> /\ acc.rows \in Seq(Uploads)
  BY DEF TypeInv, PhasesOk, AccOk
<1>2. PICK b : b \in Range(acc.rows)
  BY <1>1, SeqElements
<1> QED
  BY <1>1, <1>2 DEF TypeInv, RowsFrom, Active, OpenKey

LEMMA SourcesLatest ==
  ASSUME TypeInv, phase = "upload"
  PROVE  /\ LatestSource \in uploaded /\ \E k \in sources : LatestSource = Time(k)
         /\ \A k \in sources : Time(k) <= LatestSource
  BY HasSources, LatestIs DEF TypeInv

LEMMA KeysKept ==
  ASSUME TypeInv, Kinds
  PROVE  KeysOk'
<1> USE DEF KeysOk
<1>0. /\ runs \in Nat /\ MaxRuns \in Nat /\ 0 .. runs - 1 \subseteq 0 .. runs
      /\ \A n \in 0 .. runs - 1 : n + 1 \in 0 .. runs
      /\ KeysOk /\ uploaded \subseteq uploaded'
  BY UploadsStay, CompactorAssumption DEF TypeInv
<1>1. CASE \E t \in Times : Upload(t)
  BY <1>0, <1>1 DEF Upload, DataKey, history, reading
<1>2. CASE \E t \in Times : Start(t)
  <2>1. /\ runs' = runs + 1 /\ runs < MaxRuns
        /\ remaining' \subseteq keys /\ listed' \subseteq keys /\ sources' = {} /\ made' = {}
        /\ UNCHANGED <<keys, uploaded, todo>>
    BY <1>2 DEF Start, Uncompacted, bucket
  <2>2. todo = {}
    BY <1>2 DEF Start, TypeInv, PhasesOk, Reset
  <2>3. runs' - 1 = runs /\ runs' \in 0 .. MaxRuns /\ 0 .. runs \subseteq 0 .. runs'
    BY <1>0, <2>1
  <2> QED
    BY <1>0, <2>1, <2>2, <2>3
<1>3. CASE \E key \in Keys : Open(key)
  BY <1>0, <1>3 DEF Open, bucket, history
<1>4. CASE \E key \in Keys : Pass(key)
  BY <1>0, <1>4 DEF Pass, SourcesWith, IsNext, bucket, history
<1>5. CASE Read
  BY <1>0, <1>5 DEF Read, bucket
<1>6. CASE Close
  <2>1. DataKey(file) \in listed
    BY <1>6 DEF Close, TypeInv, PhasesOk
  <2> QED
    BY <1>0, <1>6, <2>1 DEF Close, SourcesWith, bucket, history
<1>7. CASE Put
  <2>1. LatestSource \in uploaded
    BY <1>7, SourcesLatest DEF Put
  <2> QED
    BY <1>0, <1>7, <2>1 DEF Put, reading
<1>8. CASE EndStep
  BY <1>0, <1>8 DEF EndStep, Reset
<1>9. CASE \E key \in Keys : KeyStep(key)
  <2>1. PICK key \in Keys : KeyStep(key)
    BY <1>9
  <2>2. key \in uploaded \X (0 .. runs - 1)
    BY <1>0, <2>1 DEF KeyStep
  <2>3. MarkerOf(key) \in uploaded \X (0 .. runs)
    BY <1>0, <2>2 DEF MarkerOf
  <2>4. keys' \subseteq keys \cup {MarkerOf(key)}
    BY <2>1 DEF KeyStep
  <2> QED
    BY <1>0, <2>1, <2>3, <2>4 DEF KeyStep, reading, history
<1>10. CASE PhaseStep
  BY <1>0, <1>10 DEF PhaseStep, bucket, reading, history
<1>11. CASE UNCHANGED vars
  BY <1>0, <1>11 DEF vars, bucket, reading, history
<1> QED
  BY <1>1, <1>2, <1>3, <1>4, <1>5, <1>6, <1>7, <1>8, <1>9, <1>10, <1>11 DEF Kinds

LEMMA OutputsKept ==
  ASSUME TypeInv, Kinds
  PROVE  OutputsOk'
<1>0. OutputsOk /\ Uploads \subseteq Uploads' /\ uploaded \subseteq uploaded' /\ AccOk
  BY UploadsStay DEF TypeInv
<1>1. ASSUME UNCHANGED compacted PROVE compacted' \in [Times -> Seq(Uploads')]
  <2>1. \A t \in Times : compacted[t] \in Seq(Uploads')
    BY <1>0, SeqElements DEF OutputsOk
  <2> QED
    BY <1>0, <1>1, <2>1 DEF OutputsOk
<1>2. ASSUME UNCHANGED <<compacted, cut>> PROVE OutputsOk'
  BY <1>0, <1>1, <1>2 DEF OutputsOk
<1>3. ASSUME phase = "upload", compacted' = [compacted EXCEPT ![LatestSource] = acc.rows],
             UNCHANGED <<content, bad, uploaded, cut>>
      PROVE  OutputsOk'
  <2>1. Uploads' = Uploads
    BY <1>3 DEF Uploads
  <2>2. LatestSource \in uploaded /\ LatestSource \in Times
    BY <1>3, SourcesLatest DEF TypeInv, FilesOk
  <2>3. acc.rows \in Seq(Uploads) /\ Len(acc.rows) <= MaxSize + 1
    BY <1>0, <1>3 DEF AccOk
  <2>4. compacted' \in [Times -> Seq(Uploads)]
    BY <1>0, <1>3, <2>3 DEF OutputsOk
  <2>5. \A t \in Times : compacted'[t] = IF t = LatestSource THEN acc.rows ELSE compacted[t]
    BY <1>0, <1>3 DEF OutputsOk
  <2> QED
    BY <1>0, <1>3, <2>1, <2>2, <2>3, <2>4, <2>5 DEF OutputsOk
<1>4. CASE Read
  <2>1. UNCHANGED compacted /\ cut' \subseteq cut \cup {<<file, offset + 1>>}
    BY <1>4 DEF Read, bucket
  <2>2. cut' \subseteq Uploads'
    BY <1>0, <1>4, <2>1, NextBatch DEF OutputsOk
  <2> QED
    BY <1>0, <1>1, <2>1, <2>2, <1>4 DEF OutputsOk, Read, bucket
<1>5. CASE Put
  BY <1>3, <1>5 DEF Put
<1>6. CASE EndStep
  BY <1>2, <1>3, <1>6 DEF EndStep
<1>7. CASE UNCHANGED <<compacted, cut>>
  BY <1>2, <1>7
<1> QED
  BY <1>4, <1>5, <1>6, <1>7
     DEF Kinds, Upload, Start, Open, Pass, Close, KeyStep, PhaseStep, vars, bucket, history

LEMMA AccKept ==
  ASSUME TypeInv, Kinds
  PROVE  AccOk'
<1>0. AccOk /\ Uploads \subseteq Uploads' /\ MaxSize \in Nat \ {0}
  BY UploadsStay, CompactorAssumption DEF TypeInv
<1>1. acc.rows \in Seq(Uploads') /\ Len(acc.rows) \in Nat
  BY <1>0, SeqElements DEF AccOk
<1>2. ASSUME UNCHANGED acc,
             acc.full => file' # NoFile \/ phase' = "upload",
             phase = "upload" => phase' = "upload"
      PROVE  AccOk'
  BY <1>0, <1>1, <1>2 DEF AccOk
<1>3. ASSUME acc' = Empty PROVE AccOk'
  BY <1>0, <1>3, EmptyType, EmptySequence DEF AccOk, Empty
<1>4. CASE \E t \in Times : Upload(t)
  BY <1>0, <1>2, <1>4 DEF Upload, AccOk, reading
<1>5. CASE \E t \in Times : Start(t)
  BY <1>3, <1>5 DEF Start
<1>6. CASE \E key \in Keys : Open(key)
  BY <1>0, <1>2, <1>6 DEF Open, AccOk
<1>7. CASE \E key \in Keys : Pass(key)
  BY <1>0, <1>2, <1>7 DEF Pass, AccOk
<1>8. CASE Read
  <2>1. PICK b : b = <<file, offset + 1>>
    OBVIOUS
  <2>2. /\ b \in Uploads /\ file # NoFile /\ phase = "read" /\ b \in Batches /\ Row(b) \in Values
        /\ UNCHANGED <<file, phase>>
    BY <1>8, <2>1, NextBatch, RowType DEF Read, TypeInv
  <2>3. acc' = ReadBatch(acc, b) /\ acc \in Accumulators
    BY <1>0, <1>8, <2>1 DEF Read, AccOk
  <2>4. CASE acc.full
    BY <1>0, <1>2, <2>2, <2>3, <2>4, ReadEffect
  <2>5. CASE ~acc.full
    <3>1. /\ acc' \in Accumulators /\ AddedTo(acc', acc, b)
          /\ acc'.full <=> MeetsLimit(acc)
      BY <2>2, <2>3, <2>5, ReadEffect
    <3>2. Len(acc.rows) <= MaxSize
      BY <1>0, <2>2, <2>5 DEF AccOk
    <3>3. acc'.rows = Append(acc.rows, b) \/ acc'.rows = acc.rows
      BY <3>1 DEF AddedTo
    <3>4. /\ Append(acc.rows, b) \in Seq(Uploads') /\ Append(acc.rows, b) # <<>>
          /\ Len(Append(acc.rows, b)) = Len(acc.rows) + 1
      BY <1>0, <1>1, <2>2, AppendRange
    <3>5. acc'.full => acc'.rows # <<>>
      BY <3>1, <3>3, <3>4 DEF MeetsLimit
    <3>6. ~acc'.full => Len(acc'.rows) <= MaxSize
      <4>1. ASSUME ~MeetsLimit(acc) PROVE Len(acc.rows) + 1 <= MaxSize
        <5>1. CASE acc.rows = <<>>
          BY <1>0, <5>1, EmptySequence
        <5>2. CASE acc.rows # <<>>
          BY <1>0, <1>1, <4>1, <5>2 DEF MeetsLimit
        <5> QED
          BY <5>1, <5>2
      <4> QED
        BY <1>1, <3>1, <3>2, <3>3, <3>4, <4>1
    <3>7. Len(acc'.rows) <= MaxSize + 1
      BY <1>0, <1>1, <3>2, <3>3, <3>4
    <3>8. acc'.rows \in Seq(Uploads')
      BY <1>1, <3>3, <3>4
    <3>9. Len(acc'.rows) <= (IF acc'.full \/ phase' = "upload" THEN MaxSize + 1 ELSE MaxSize)
      BY <3>6, <3>7, <2>2
    <3> QED
      BY <2>2, <3>1, <3>5, <3>8, <3>9 DEF AccOk
  <2> QED
    BY <2>4, <2>5
<1>9. CASE Close
  <2>1. phase = "read"
    BY <1>9 DEF Close, TypeInv, PhasesOk
  <2> QED
    BY <1>2, <1>9, <2>1 DEF Close
<1>10. CASE Put
  <2>1. /\ acc' \in Accumulators /\ acc'.rows = <<>> /\ ~acc'.full
    BY <1>0, <1>10, TakenEffect DEF Put, AccOk
  <2> QED
    BY <1>0, <2>1, EmptySequence DEF AccOk
<1>11. CASE EndStep
  BY <1>3, <1>11 DEF EndStep, Reset
<1>12. CASE \E key \in Keys : KeyStep(key)
  BY <1>0, <1>2, <1>12 DEF KeyStep, AccOk, reading
<1>13. CASE PhaseStep
  <2>1. acc.full => file # NoFile
    BY <1>0, <1>13 DEF PhaseStep, AccOk
  <2> QED
    BY <1>2, <1>13, <2>1 DEF PhaseStep, reading
<1>14. CASE UNCHANGED vars
  BY <1>0, <1>2, <1>14 DEF vars, reading, AccOk
<1> QED
  BY <1>4, <1>5, <1>6, <1>7, <1>8, <1>9, <1>10, <1>11, <1>12, <1>13, <1>14 DEF Kinds

LEMMA LocalKept ==
  ASSUME TypeInv, Kinds, happened' \subseteq FaultKinds
  PROVE  LocalTypes'
<1>0. LocalTypes /\ UNCHANGED config
  BY FilesFrame DEF TypeInv
<1>1. phase' \in Phases
  BY <1>0 DEF Kinds, LocalTypes, Phases, Upload, Start, Open, Pass, Read, Close, Put, EndStep,
              KeyStep, PhaseStep, vars
<1>2. file' \in Times \cup {NoFile}
  BY <1>0 DEF Kinds, LocalTypes, Upload, Start, Open, Pass, Read, Close, Put, EndStep, Reset,
              KeyStep, PhaseStep, vars, reading, Keys, Time
<1>3. offset' \in Nat
  <2>1. offset' = offset \/ offset' = 0 \/ offset' = offset + 1 \/ offset' \in Nat
    BY DEF Kinds, Upload, Start, Open, Pass, Read, Close, Put, EndStep, KeyStep, PhaseStep, vars,
           reading
  <2> QED
    BY <1>0, <2>1 DEF LocalTypes
<1>4. schema' \in Schemas \cup {NoSchema}
  <2>1. \A key \in Keys : schemaOf[Time(key)] \in Schemas
    BY DEF TypeInv, FilesOk, Keys, Time
  <2> QED
    BY <1>0, <2>1 DEF Kinds, LocalTypes, Upload, Start, Open, Pass, Read, Close, Put, EndStep,
                      KeyStep, PhaseStep, vars, reading
<1> QED
  BY <1>0, <1>1, <1>2, <1>3, <1>4 DEF LocalTypes, config

\* The latest time of some keys.
LEMMA LatestOf ==
  ASSUME FilesOk, KeysOk, NEW S \in SUBSET keys
  PROVE  /\ S # {} => Max({Time(k) : k \in S}) \in Times
         /\ IsFiniteSet(S) /\ Cardinality(S) \in Nat
<1>1. {Time(k) : k \in S} \subseteq Times
  BY DEF FilesOk, KeysOk, Time
<1>2. IsFiniteSet(keys)
  <2>1. IsFiniteSet(Times) /\ IsFiniteSet(0 .. runs)
    BY CompactorAssumption, FS_Interval DEF Times, KeysOk
  <2>2. IsFiniteSet(uploaded)
    BY <2>1, FS_Subset DEF FilesOk
  <2>3. IsFiniteSet(uploaded \X (0 .. runs))
    BY <2>1, <2>2, FS_Product
  <2> QED
    BY <2>3, FS_Subset DEF KeysOk
<1>3. S # {} => Max({Time(k) : k \in S}) \in Times
  BY <1>1, MaxIs
<1> QED
  BY <1>2, <1>3, FS_Subset, FS_CardinalityType

LEMMA NothingCounted == NoCounts \in Counts /\ NoPlan \in Plans
<1>1. 0 \in 0 .. MaxTime
  BY CompactorAssumption
<1> QED
  BY <1>1, EmptyType DEF NoCounts, NoPlan, Counts, Plans

LEMMA CountsKept ==
  ASSUME TypeInv, Kinds
  PROVE  CountsOk'
<1>0. /\ CountsOk /\ FilesOk /\ KeysOk /\ AccOk /\ LocalTypes /\ MaxTime \in Nat
      /\ Times \subseteq 0 .. MaxTime
  BY CompactorAssumption DEF TypeInv, Times
<1>1. ASSUME NEW key, Time(key) \in Times PROVE Processed(key) \in Counts
  <2>1. counts \in Counts /\ Time(key) \in 0 .. MaxTime
    BY <1>0, <1>1 DEF CountsOk
  <2>2. counts.files + 1 \in Nat
    BY <2>1 DEF Counts
  <2> QED
    BY <2>1, <2>2 DEF Processed, Counts
<1>2. CASE \E t \in Times : Start(t)
  <2>1. PICK t \in Times : Start(t)
    BY <1>2
  <2>2. PICK listing : listing = Uncompacted(IF checkpointing THEN checkpoint ELSE 0, t)
    OBVIOUS
  <2>3. listing \subseteq keys /\ listing # {}
    BY <2>1, <2>2 DEF Start, Uncompacted
  <2>4. PICK skipped \in SUBSET {k \in listing : HasMarker(k)} :
          counts' = [NoCounts EXCEPT !.files = Cardinality(skipped),
                       !.last = IF skipped = {} THEN 0 ELSE Max({Time(k) : k \in skipped})]
    BY <2>1, <2>2 DEF Start
  <2>5. plan' = [NoPlan EXCEPT !.files = Cardinality(listing),
                               !.last = Max({Time(k) : k \in listing})]
    BY <2>1, <2>2 DEF Start
  <2>6. PICK f, l, fl, ll : /\ f = Cardinality(skipped)
                            /\ l = IF skipped = {} THEN 0 ELSE Max({Time(k) : k \in skipped})
                            /\ fl = Cardinality(listing) /\ ll = Max({Time(k) : k \in listing})
    OBVIOUS
  <2>7. fl \in Nat /\ ll \in 0 .. MaxTime
    BY <1>0, <2>3, <2>6, LatestOf
  <2>8. f \in Nat /\ l \in 0 .. MaxTime
    <3>1. skipped \in SUBSET keys
      BY <2>3, <2>4
    <3>2. 0 \in 0 .. MaxTime
      BY <1>0
    <3>3. f \in Nat /\ (skipped # {} => l \in Times)
      BY <1>0, <2>6, <3>1, LatestOf
    <3> QED
      BY <1>0, <2>6, <3>2, <3>3
  <2>9. counts' \in Counts
    BY <2>4, <2>6, <2>8, NothingCounted DEF Counts
  <2>10. plan' \in Plans
    BY <2>5, <2>6, <2>7, NothingCounted DEF Plans
  <2> QED
    BY <1>0, <2>1, <2>9, <2>10 DEF Start, CountsOk
<1>3. CASE \E key \in Keys : Pass(key)
  <2>1. PICK key \in Keys : Pass(key)
    BY <1>3
  <2>2. Time(key) \in Times
    BY DEF Keys, Time
  <2> QED
    BY <1>0, <1>1, <2>1, <2>2 DEF Pass, CountsOk, history
<1>4. CASE Read
  <2>1. PICK b : b = <<file, offset + 1>>
    OBVIOUS
  <2>2. b \in Batches /\ Row(b) \in Values
    BY <1>0, <1>4, <2>1, NextBatch, RowType
  <2>3. plan' = PlanBatch(plan, b) /\ UNCHANGED <<counts, checkpoint>>
    BY <1>4, <2>1 DEF Read
  <2> QED
    BY <1>0, <2>2, <2>3, PlanEffect DEF CountsOk
<1>5. CASE Close
  <2>1. Time(DataKey(file)) \in Times
    BY <1>0, <1>5 DEF Close, LocalTypes, Time, DataKey
  <2> QED
    BY <1>0, <1>1, <1>5, <2>1 DEF Close, CountsOk, history
<1>6. CASE Put
  <2>1. PICK r, d : r = Len(acc.rows) /\ d = acc.dups
    OBVIOUS
  <2>2. r \in Nat /\ d \in Nat
    BY <1>0, <2>1 DEF AccOk, Accumulators
  <2>3. counts' = [counts EXCEPT !.records = @ + r, !.duplicates = @ + d, !.created = @ + 1]
    BY <1>6, <2>1 DEF Put
  <2>4. /\ counts.records + r \in Nat /\ counts.duplicates + d \in Nat
        /\ counts.created + 1 \in Nat /\ counts \in Counts
    BY <1>0, <2>2 DEF CountsOk, Counts
  <2>5. counts' \in Counts
    BY <2>3, <2>4 DEF Counts
  <2> QED
    BY <1>0, <1>6, <2>5 DEF Put, CountsOk
<1>7. CASE EndStep
  <2>1. counts.last \in 0 .. MaxTime
    BY <1>0 DEF CountsOk, Counts
  <2> QED
    BY <1>0, <1>7, <2>1, NothingCounted DEF EndStep, Reset, CountsOk
<1>8. CASE UNCHANGED <<counts, plan, checkpoint>>
  BY <1>0, <1>8 DEF CountsOk
<1> QED
  BY <1>2, <1>3, <1>4, <1>5, <1>6, <1>7, <1>8
     DEF Kinds, Upload, Open, KeyStep, PhaseStep, vars, history

LEMMA PhasesKept ==
  ASSUME TypeInv, Kinds
  PROVE  PhasesOk'
<1>0. /\ PhasesOk /\ LocalTypes /\ UNCHANGED config
      /\ phase = "idle" => Reset
  BY FilesFrame DEF TypeInv, PhasesOk
<1>1. CASE \E t \in Times : Upload(t)
  <2>1. PICK t \in Times : Upload(t)
    BY <1>1
  <2>2. /\ t \notin uploaded /\ uploaded' = uploaded \cup {t} /\ bad' \subseteq bad \cup {t}
        /\ UNCHANGED <<phase, remaining, file, offset, sources, acc, counts, todo, listed, made,
                       plan, deleting>>
    BY <2>1, <1>0 DEF Upload, reading, history, config
  <2>3. ASSUME file # NoFile PROVE content'[file] = content[file]
    <3>1. file \in uploaded /\ content \in [Times -> BoundedSeq(Rows, MaxBatches)] /\ file \in Times
      BY <1>0, <2>3 DEF PhasesOk, TypeInv, FilesOk
    <3>2. file # t
      BY <2>2, <3>1
    <3> QED
      BY <2>1, <3>1, <3>2 DEF Upload
  <2>4. Reset => Reset'
    BY <2>2 DEF Reset
  <2> QED
    BY <1>0, <2>2, <2>3, <2>4 DEF PhasesOk
<1>2. CASE \E t \in Times : Start(t)
  <2>1. Reset
    BY <1>0, <1>2 DEF Start
  <2> QED
    BY <1>2, <2>1 DEF PhasesOk, Start, Reset
<1>3. CASE \E key \in Keys : Open(key)
  <2>1. PICK key \in Keys : Open(key)
    BY <1>3
  <2>2. /\ key \in remaining /\ IsData(key) /\ key \in listed
    BY <2>1 DEF Open, IsNext, TypeInv, ListedOk
  <2>3. key = DataKey(Time(key)) /\ Time(key) \in uploaded \ bad
    BY <2>1, <2>2 DEF IsData, IsFile, DataKey, Time, Keys, TypeInv, KeysOk
  <2>4. Time(key) \in Times /\ content[Time(key)] \in BoundedSeq(Rows, MaxBatches)
    BY <2>3 DEF TypeInv, FilesOk
  <2>5. Len(content[Time(key)]) \in Nat /\ Time(key) # NoFile
    BY <2>4, Bounded DEF Times, NoFile
  <2>6. 0 \in 0 .. Len(content[Time(key)])
    BY <2>5
  <2>7. /\ phase = "read" /\ file' = Time(key) /\ offset' = 0
        /\ UNCHANGED <<content, bad, uploaded, phase, listed, todo, acc, deleting>>
    BY <2>1, <1>0 DEF Open, bucket, history, config
  <2> QED
    BY <1>0, <2>2, <2>3, <2>6, <2>7 DEF PhasesOk
<1>4. CASE \E key \in Keys : Pass(key)
  BY <1>0, <1>4 DEF Pass, PhasesOk, bucket, history, config
<1>5. CASE Read
  <2>1. /\ file # NoFile /\ file \in uploaded \ bad /\ phase = "read"
        /\ offset + 1 \in 1 .. Len(content[file])
    BY <1>5, NextBatch
  <2>2. content[file] \in BoundedSeq(Rows, MaxBatches)
    BY <2>1 DEF TypeInv, FilesOk
  <2>3. offset' \in 0 .. Len(content[file])
    BY <1>5, <2>1, <2>2, Bounded DEF Read
  <2> QED
    BY <1>0, <1>5, <2>1, <2>3 DEF Read, PhasesOk, bucket, config
<1>6. CASE Close
  <2>1. phase = "read" /\ todo = {} /\ (acc.full => acc.rows # <<>>)
    BY <1>0, <1>6 DEF Close, PhasesOk, TypeInv, AccOk
  <2> QED
    BY <1>0, <1>6, <2>1 DEF Close, PhasesOk, bucket, history, config
<1>7. CASE Put
  <2>1. acc'.rows = <<>> /\ file = NoFile
    BY <1>0, <1>7, TakenEffect DEF Put, TypeInv, AccOk, PhasesOk
  <2> QED
    BY <1>7, <2>1 DEF Put, PhasesOk, reading
<1>8. CASE EndStep
  BY <1>8, EmptySequence DEF EndStep, PhasesOk, Reset, Empty
<1>9. CASE \E key \in Keys : KeyStep(key)
  BY <1>0, <1>9 DEF KeyStep, PhasesOk, reading, history, config
<1>10. CASE PhaseStep
  <2>1. phase \in {"read", "mark", "delete"} /\ file = NoFile
    BY <1>0, <1>10 DEF PhaseStep, PhasesOk
  <2> QED
    BY <1>0, <1>10, <2>1 DEF PhaseStep, PhasesOk, bucket, reading, history, config
<1>11. CASE UNCHANGED vars
  BY <1>0, <1>11 DEF vars, bucket, reading, history, config, PhasesOk, Reset
<1> QED
  BY <1>1, <1>2, <1>3, <1>4, <1>5, <1>6, <1>7, <1>8, <1>9, <1>10, <1>11 DEF Kinds

LEMMA ListedKept ==
  ASSUME TypeInv, Kinds
  PROVE  ListedOk'
<1>0. /\ ListedOk /\ \A k \in remaining \cup listed : k[1] \in uploaded
  BY DEF TypeInv, KeysOk
<1>1. \A k \in remaining \cup listed : IsData(k)' <=> IsData(k)
  BY <1>0, UploadsStay DEF TypeInv
<1>2. CASE \E t \in Times : Start(t)
  <2>1. PICK t \in Times : Start(t)
    BY <1>2
  <2>2. PICK listing : listing = Uncompacted(IF checkpointing THEN checkpoint ELSE 0, t)
    OBVIOUS
  <2>3. PICK skipped : /\ remaining' = listing \ skipped
                       /\ listed' = {k \in listing \ skipped : IsData(k)}
    BY <2>1, <2>2 DEF Start
  <2>4. \A k : IsData(k)' <=> IsData(k)
    BY <2>1 DEF Start, bucket, IsData, IsFile
  <2> QED
    BY <2>3, <2>4 DEF ListedOk
<1>3. CASE EndStep
  BY <1>3 DEF EndStep, Reset, ListedOk
<1>4. CASE remaining' \subseteq remaining /\ listed' = listed
  BY <1>0, <1>1, <1>4 DEF ListedOk
<1>5. CASE \E key \in Keys : Pass(key)
  <2>1. PICK key : remaining' = remaining \ {key} /\ listed' = listed \ {key}
    BY <1>5 DEF Pass
  <2> QED
    BY <1>0, <1>1, <2>1 DEF ListedOk
<1> QED
  BY <1>2, <1>3, <1>4, <1>5
     DEF Kinds, Upload, Open, Read, Close, Put, KeyStep, PhaseStep, vars, reading, history

LEMMA RowsFromKept ==
  ASSUME TypeInv, Kinds
  PROVE  RowsFrom'
<1>0. RowsFrom /\ AccOk /\ PhasesOk
  BY DEF TypeInv
<1>1. ASSUME UNCHANGED acc, Active \subseteq Active' PROVE RowsFrom'
  BY <1>0, <1>1 DEF RowsFrom
<1>2. ASSUME acc'.rows = <<>> PROVE RowsFrom'
  BY <1>2, EmptySequence DEF RowsFrom
<1>3. CASE \E t \in Times : Start(t)
  BY <1>2, <1>3 DEF Start, Empty
<1>4. CASE \E key \in Keys : Open(key)
  BY <1>1, <1>4 DEF Open, Active, OpenKey
<1>5. CASE \E key \in Keys : Pass(key)
  BY <1>1, <1>5 DEF Pass, Active, OpenKey, SourcesWith
<1>6. CASE Read
  <2>1. PICK b : b = <<file, offset + 1>>
    OBVIOUS
  <2>2. b \in Uploads /\ file # NoFile /\ b \in Batches /\ Row(b) \in Values
    BY <1>6, <2>1, NextBatch, RowType DEF TypeInv
  <2>3. /\ acc' = ReadBatch(acc, b) /\ acc \in Accumulators /\ acc.rows \in Seq(Uploads)
        /\ UNCHANGED <<sources, file>>
    BY <1>0, <1>6, <2>1 DEF Read, AccOk
  <2>4. acc'.rows = acc.rows \/ acc'.rows = Append(acc.rows, b)
    BY <2>2, <2>3, ReadEffect DEF AddedTo
  <2>5. Range(acc'.rows) \subseteq Range(acc.rows) \cup {b}
    <3>1. Range(Append(acc.rows, b)) = Range(acc.rows) \cup {b}
      BY <2>2, <2>3, AppendRange
    <3> QED
      BY <2>4, <3>1
  <2>6. DataKey(b[1]) \in Active /\ Active' = Active
    BY <2>1, <2>2, <2>3 DEF Active, OpenKey
  <2> QED
    BY <1>0, <2>5, <2>6 DEF RowsFrom
<1>7. CASE Close
  BY <1>1, <1>7 DEF Close, Active, OpenKey, SourcesWith
<1>8. CASE Put
  BY <1>0, <1>2, <1>8, TakenEffect DEF Put, AccOk
<1>9. CASE EndStep
  BY <1>2, <1>9 DEF EndStep, Reset, Empty
<1>10. CASE PhaseStep
  <2>1. CASE phase \in {"mark", "delete"}
    <3>1. acc'.rows = <<>>
      BY <1>0, <1>10, <2>1 DEF PhaseStep, PhasesOk
    <3> QED
      BY <1>2, <3>1
  <2>2. CASE phase = "read"
    BY <1>1, <1>10, <2>2 DEF PhaseStep, Active, OpenKey, reading
  <2> QED
    BY <1>10, <2>1, <2>2 DEF PhaseStep
<1>11. CASE UNCHANGED <<acc, sources, file>>
  BY <1>1, <1>11 DEF Active, OpenKey
<1> QED
  BY <1>3, <1>4, <1>5, <1>6, <1>7, <1>8, <1>9, <1>10, <1>11
     DEF Kinds, Upload, KeyStep, vars, reading

LEMMA TypeInit ==
  ASSUME Init
  PROVE  TypeInv
<1> USE DEF Init
<1>1. FilesOk
  <2>1. <<>> \in BoundedSeq(Rows, MaxBatches)
    <3>1. 0 \in 0 .. MaxBatches /\ <<>> \in [1 .. 0 -> Rows]
      BY CompactorAssumption
    <3> QED
      BY <3>1 DEF BoundedSeq, SeqOf
  <2> QED
    BY <2>1 DEF FilesOk
<1>2. KeysOk
  BY CompactorAssumption DEF KeysOk
<1>3. OutputsOk
  BY CompactorAssumption, EmptySequence DEF OutputsOk
<1>4. AccOk
  BY CompactorAssumption, EmptyType, EmptySequence DEF AccOk, Empty
<1>5. LocalTypes
  BY DEF LocalTypes, Phases
<1>6. CountsOk
  BY CompactorAssumption, NothingCounted DEF CountsOk
<1>7. PhasesOk
  BY DEF PhasesOk, Reset
<1>8. ListedOk
  BY DEF ListedOk
<1>9. RowsFrom
  BY EmptySequence DEF RowsFrom, Empty
<1> QED
  BY <1>1, <1>2, <1>3, <1>4, <1>5, <1>6, <1>7, <1>8, <1>9 DEF TypeInv

LEMMA TypeStep ==
  ASSUME TypeInv, [Next]_vars
  PROVE  TypeInv'
<1>1. Kinds /\ happened' \subseteq FaultKinds
  BY StepKinds DEF TypeInv, LocalTypes
<1> QED
  BY <1>1, FilesKept, KeysKept, OutputsKept, AccKept, LocalKept, CountsKept, PhasesKept,
     ListedKept, RowsFromKept DEF TypeInv

LEMMA TypeInvHolds == Spec => []TypeInv
  BY TypeInit, TypeStep, PTL DEF Spec

\* Every variable keeps its type: an output holds batches that were uploaded, at
\* most one more than the limit, and the keys a run works on are files or
\* markers, whatever it takes for a file.
THEOREM TypeCorrect == Spec => []TypeOK
<1>1. ASSUME TypeInv PROVE TypeOK
  <2> USE DEF TypeInv
  <2>1. uploaded \X (0 .. runs) \subseteq Keys /\ uploaded \X (0 .. runs - 1) \subseteq Keys
    <3>1. runs \in Nat /\ MaxRuns \in Nat /\ runs <= MaxRuns /\ uploaded \subseteq Times
      BY <1>1, CompactorAssumption DEF KeysOk, FilesOk
    <3>2. 0 .. runs \subseteq 0 .. MaxRuns /\ 0 .. runs - 1 \subseteq 0 .. MaxRuns
      BY <3>1
    <3> QED
      BY <3>1, <3>2 DEF Keys
  <2>2. /\ \A t \in Times : compacted[t] \in Seq(Uploads) /\ Len(compacted[t]) <= MaxSize + 1
        /\ cut \subseteq Uploads
    BY <1>1 DEF OutputsOk
  <2>3. acc.rows \in Seq(Uploads) /\ Len(acc.rows) <= MaxSize + 1
    <3>1. /\ acc.rows \in Seq(Uploads) /\ Len(acc.rows) \in Nat /\ MaxSize \in Nat
          /\ Len(acc.rows) <= (IF acc.full \/ phase = "upload" THEN MaxSize + 1 ELSE MaxSize)
      BY <1>1, CompactorAssumption DEF AccOk
    <3> QED
      BY <3>1
  <2>4. acc.full => file # NoFile \/ phase = "upload"
    BY <1>1 DEF AccOk
  <2>5. /\ keys \subseteq Keys /\ remaining \cup sources \cup todo \cup listed \subseteq Keys
        /\ made \subseteq Times /\ runs \in 0 .. MaxRuns
    BY <1>1, <2>1 DEF KeysOk, FilesOk
  <2> QED
    BY <1>1, <2>2, <2>3, <2>4, <2>5 DEF TypeOK, FilesOk, LocalTypes, CountsOk, PhasesOk
<1> QED
  BY <1>1, TypeInvHolds, PTL

-----------------------------------------------------------------------------
(* The order of a run.  It reads its keys in the order of their times, so   *)
(* the outputs it has made are older than every file it still reads and     *)
(* never share a name, and what the caller asked to skip is not listed.     *)

Unread == remaining \cup OpenKey

InOrder ==
  /\ \A s \in sources, k \in Unread : Before(s, k)
  /\ \A s \in OpenKey, k \in remaining : Before(s, k)

FilesListed == \A k \in Active : IsFile(k) => k \in listed

FilesHere ==
  /\ \A k \in Unread : IsFile(k) => k \in keys
  /\ phase # "delete" => \A k \in sources : IsFile(k) => k \in keys

Fresh ==
  \A t \in made :
    /\ \A k \in Unread : IsFile(k) => t < Time(k)
    /\ phase \in {"read", "upload"} => \A k \in sources : IsFile(k) => t < Time(k)

BehindCheckpoint == checkpointing => \A k \in listed : checkpoint < Time(k)

OrderInv == InOrder /\ FilesListed /\ FilesHere /\ Fresh /\ BehindCheckpoint

\* The keys of a run are ordered.
LEMMA Ordered ==
  ASSUME NEW a \in Times \X Nat, NEW b \in Times \X Nat
  PROVE  /\ ~Before(a, a)
         /\ a # b => Before(a, b) \/ Before(b, a)
         /\ ~(Before(a, b) /\ Before(b, a))
         /\ (Before(a, b) /\ IsFile(b)) => Time(a) < Time(b)
<1>1. /\ a = <<a[1], a[2]>> /\ b = <<b[1], b[2]>>
      /\ a[1] \in Int /\ b[1] \in Int /\ a[2] \in Nat /\ b[2] \in Nat
  BY CompactorAssumption DEF Times
<1> QED
  BY <1>1 DEF Before, Time, IsFile

LEMMA RunKeys ==
  ASSUME TypeInv
  PROVE  /\ remaining \cup sources \cup todo \cup listed \subseteq Times \X Nat
         /\ OpenKey \subseteq Times \X Nat /\ Active \subseteq Times \X Nat
         /\ Unread \subseteq Times \X Nat
         /\ \A k \in OpenKey : IsFile(k) /\ k \in listed /\ k = DataKey(file)
<1>1. remaining \cup sources \cup todo \cup listed \subseteq Times \X Nat
  <2>1. runs \in Nat /\ 0 .. runs - 1 \subseteq Nat
    BY CompactorAssumption DEF TypeInv, KeysOk
  <2> QED
    BY <2>1 DEF TypeInv, KeysOk, FilesOk
<1>2. \A k \in OpenKey : k = DataKey(file) /\ k \in listed
  BY DEF TypeInv, PhasesOk, OpenKey
<1>3. OpenKey \subseteq Times \X Nat
  BY <1>1, <1>2
<1> QED
  BY <1>1, <1>2, <1>3 DEF Active, Unread, IsFile, DataKey

\* The next key is before all others.
LEMMA NextFirst ==
  ASSUME TypeInv, NEW key, IsNext(key)
  PROVE  key \in remaining /\ \A k \in remaining \ {key} : Before(key, k)
  BY RunKeys, Ordered DEF IsNext

LEMMA InOrderKept ==
  ASSUME TypeInv, InOrder, Kinds
  PROVE  InOrder'
<1>1. ASSUME sources' \in {sources, {}}, UNCHANGED file, remaining' \subseteq remaining
      PROVE  InOrder'
  BY <1>1 DEF InOrder, Unread, OpenKey
<1>2. CASE \E t \in Times : Start(t)
  BY <1>2 DEF Start, TypeInv, PhasesOk, Reset, InOrder, OpenKey, Unread
<1>3. CASE \E key \in Keys : Open(key)
  <2>1. PICK key \in Keys : Open(key)
    BY <1>3
  <2>2. /\ key \in remaining /\ \A k \in remaining \ {key} : Before(key, k)
        /\ IsData(key) /\ file' = Time(key) /\ remaining' = remaining \ {key}
        /\ UNCHANGED sources
    BY <2>1, NextFirst DEF Open
  <2>3. OpenKey' = {key}
    <3>1. key = DataKey(Time(key)) /\ Time(key) # NoFile
      BY <2>1, <2>2 DEF IsData, IsFile, DataKey, Time, Keys, Times, NoFile
    <3> QED
      BY <2>2, <3>1 DEF OpenKey
  <2> QED
    BY <2>2, <2>3 DEF InOrder, Unread
<1>4. CASE \E key \in Keys : Pass(key)
  <2>1. PICK key \in Keys : Pass(key)
    BY <1>4
  <2>2. /\ key \in remaining /\ \A k \in remaining \ {key} : Before(key, k)
        /\ remaining' = remaining \ {key} /\ file = NoFile /\ file' = NoFile
        /\ sources' \subseteq sources \cup {key}
    BY <2>1, NextFirst DEF Pass, SourcesWith
  <2> QED
    BY <2>2 DEF InOrder, Unread, OpenKey
<1>5. CASE Close
  <2>1. /\ file # NoFile /\ file' = NoFile /\ UNCHANGED remaining
        /\ sources' = sources \cup {DataKey(file)}
    BY <1>5 DEF Close, SourcesWith
  <2> QED
    BY <2>1 DEF InOrder, Unread, OpenKey
<1>6. CASE EndStep
  BY <1>6 DEF EndStep, Reset, InOrder, OpenKey, Unread
<1>7. CASE sources' \in {sources, {}} /\ UNCHANGED <<file, remaining>>
  BY <1>1, <1>7
<1> QED
  BY <1>2, <1>3, <1>4, <1>5, <1>6, <1>7
     DEF Kinds, Upload, Read, Put, KeyStep, PhaseStep, vars, reading

LEMMA FilesListedKept ==
  ASSUME TypeInv, InOrder, FilesListed, Kinds
  PROVE  FilesListed'
<1>1. CASE \E t \in Times : Start(t)
  BY <1>1 DEF Start, TypeInv, PhasesOk, Reset, FilesListed, Active, OpenKey
<1>2. CASE \E key \in Keys : Open(key)
  <2>1. PICK key \in Keys : Open(key)
    BY <1>2
  <2>2. /\ key \in remaining /\ IsData(key) /\ file' = Time(key)
        /\ UNCHANGED <<sources, listed>>
    BY <2>1 DEF Open, IsNext, history
  <2>3. key = DataKey(Time(key)) /\ key \in listed
    BY <2>1, <2>2 DEF IsData, IsFile, DataKey, Time, Keys, TypeInv, ListedOk
  <2> QED
    BY <2>2, <2>3 DEF FilesListed, Active, OpenKey
<1>3. CASE \E key \in Keys : Pass(key)
  <2>1. PICK key \in Keys : Pass(key)
    BY <1>3
  <2>2. /\ key \in remaining /\ listed' = listed \ {key} /\ OpenKey = {} /\ OpenKey' = {}
        /\ sources' = IF IsFile(key) THEN sources ELSE SourcesWith(key)
    BY <2>1 DEF Pass, IsNext, OpenKey
  <2>3. key \notin sources
    BY <2>2, RunKeys, Ordered DEF InOrder, Unread
  <2> QED
    BY <2>2, <2>3 DEF FilesListed, Active, SourcesWith
<1>4. CASE Close
  BY <1>4 DEF Close, FilesListed, Active, OpenKey, SourcesWith, history
<1>5. CASE EndStep
  BY <1>5 DEF EndStep, Reset, FilesListed, Active, OpenKey
<1>6. CASE sources' \in {sources, {}} /\ UNCHANGED <<file, listed>>
  BY <1>6 DEF FilesListed, Active, OpenKey
<1> QED
  BY <1>1, <1>2, <1>3, <1>4, <1>5, <1>6
     DEF Kinds, Upload, Read, Put, KeyStep, PhaseStep, vars, reading, history

LEMMA FilesHereKept ==
  ASSUME TypeInv, InOrder, FilesHere, Kinds
  PROVE  FilesHere'
<1>1. ASSUME sources' \in {sources, {}}, UNCHANGED file, remaining' \subseteq remaining,
             keys \subseteq keys', phase = "delete" => phase' = "delete" \/ sources' = {}
      PROVE  FilesHere'
  BY <1>1 DEF FilesHere, Unread, OpenKey
<1>2. CASE \E t \in Times : Start(t)
  <2>1. remaining' \subseteq keys /\ UNCHANGED <<keys, file>> /\ sources' = {}
    BY <1>2 DEF Start, Uncompacted, bucket
  <2>2. file = NoFile
    BY <1>2 DEF Start, TypeInv, PhasesOk, Reset
  <2> QED
    BY <2>1, <2>2 DEF FilesHere, Unread, OpenKey
<1>3. CASE \E key \in Keys : Open(key)
  <2>1. PICK key \in Keys : Open(key)
    BY <1>3
  <2>2. /\ key \in remaining /\ IsData(key) /\ file' = Time(key) /\ key \in keys
        /\ remaining' = remaining \ {key} /\ UNCHANGED <<sources, keys, phase>>
    BY <2>1 DEF Open, IsNext, bucket
  <2>3. key = DataKey(Time(key))
    BY <2>1, <2>2 DEF IsData, IsFile, DataKey, Time, Keys
  <2>4. Unread' \subseteq Unread
    BY <2>2, <2>3 DEF Unread, OpenKey
  <2> QED
    BY <2>2, <2>4 DEF FilesHere
<1>4. CASE \E key \in Keys : Pass(key)
  <2>1. PICK key \in Keys : Pass(key)
    BY <1>4
  <2>2. /\ Unread' \subseteq Unread /\ UNCHANGED <<keys, phase>> /\ key \in Unread
        /\ sources' \subseteq sources \cup {key}
    BY <2>1 DEF Pass, IsNext, Unread, OpenKey, SourcesWith, bucket
  <2> QED
    BY <2>2 DEF FilesHere
<1>5. CASE Close
  <2>1. /\ Unread' \subseteq Unread /\ UNCHANGED keys /\ DataKey(file) \in Unread
        /\ sources' = sources \cup {DataKey(file)} /\ phase = "read"
    BY <1>5 DEF Close, Unread, OpenKey, SourcesWith, bucket, TypeInv, PhasesOk
  <2> QED
    BY <2>1 DEF FilesHere
<1>6. CASE EndStep
  BY <1>6 DEF EndStep, Reset, FilesHere, OpenKey, Unread
<1>7. CASE \E key \in Keys : KeyStep(key)
  <2>1. PICK key \in Keys : KeyStep(key)
    BY <1>7
  <2>2. CASE phase = "mark"
    BY <1>1, <2>1, <2>2 DEF KeyStep, reading
  <2>3. CASE phase = "delete"
    <3>1. /\ key \in sources /\ UNCHANGED <<sources, remaining, file, phase>>
      BY <2>1, <2>3 DEF KeyStep, reading, TypeInv, PhasesOk
    <3>2. key \notin Unread
      BY <3>1, RunKeys, Ordered DEF InOrder
    <3>3. ~IsFile(MarkerOf(key))
      <4>1. key[2] \in Nat
        BY <3>1, RunKeys
      <4> QED
        BY <4>1 DEF MarkerOf, IsFile
    <3>4. \A k \in keys : (IsFile(k) /\ k # key) => k \in keys'
      BY <2>1, <2>3, <3>3 DEF KeyStep
    <3> QED
      BY <2>3, <3>1, <3>2, <3>4 DEF FilesHere, Unread, OpenKey
  <2> QED
    BY <2>1, <2>2, <2>3 DEF KeyStep
<1>8. CASE /\ sources' \in {sources, {}} /\ UNCHANGED <<file, remaining>>
           /\ keys \subseteq keys' /\ (phase = "delete" => phase' = "delete" \/ sources' = {})
  BY <1>1, <1>8
<1> QED
  BY <1>2, <1>3, <1>4, <1>5, <1>6, <1>7, <1>8
     DEF Kinds, Upload, Read, Put, PhaseStep, vars, reading, bucket

LEMMA FreshKept ==
  ASSUME TypeInv, InOrder, Fresh, Kinds
  PROVE  Fresh'
<1>1. ASSUME UNCHANGED made, Unread' \subseteq Unread, sources' \subseteq sources \cup Unread,
             phase' \in {"read", "upload"} => (phase \in {"read", "upload"} \/ sources' = {})
      PROVE  Fresh'
  BY <1>1 DEF Fresh
<1>2. ASSUME made' = {} PROVE Fresh'
  BY <1>2 DEF Fresh
<1>3. CASE \E t \in Times : Start(t)
  BY <1>2, <1>3 DEF Start
<1>4. CASE \E key \in Keys : Open(key)
  <2>1. PICK key \in Keys : Open(key)
    BY <1>4
  <2>2. /\ key \in remaining /\ IsData(key) /\ file' = Time(key)
        /\ remaining' = remaining \ {key} /\ UNCHANGED <<sources, made, phase>>
    BY <2>1 DEF Open, IsNext, history
  <2>3. key = DataKey(Time(key))
    BY <2>1, <2>2 DEF IsData, IsFile, DataKey, Time, Keys
  <2>4. Unread' \subseteq Unread
    BY <2>2, <2>3 DEF Unread, OpenKey
  <2> QED
    BY <1>1, <2>2, <2>4
<1>5. CASE \E key \in Keys : Pass(key)
  <2>1. PICK key \in Keys : Pass(key)
    BY <1>5
  <2>2. /\ Unread' \subseteq Unread /\ UNCHANGED <<made, phase>> /\ key \in Unread
        /\ sources' \subseteq sources \cup {key}
    BY <2>1 DEF Pass, IsNext, Unread, OpenKey, SourcesWith, history
  <2> QED
    BY <1>1, <2>2
<1>6. CASE Close
  <2>1. /\ Unread' \subseteq Unread /\ UNCHANGED made /\ DataKey(file) \in Unread
        /\ sources' = sources \cup {DataKey(file)} /\ phase = "read"
    BY <1>6 DEF Close, Unread, OpenKey, SourcesWith, history, TypeInv, PhasesOk
  <2> QED
    BY <1>1, <2>1
<1>7. CASE Put
  <2>1. /\ phase = "upload" /\ phase' = "mark" /\ made' = made \cup {LatestSource}
        /\ UNCHANGED <<sources, remaining, file>>
    BY <1>7 DEF Put, reading
  <2>2. PICK s \in sources : LatestSource = Time(s)
    BY <2>1, SourcesLatest
  <2>3. \A k \in Unread : IsFile(k) => LatestSource < Time(k)
    BY <2>2, RunKeys, Ordered DEF InOrder
  <2> QED
    BY <2>1, <2>3 DEF Fresh, Unread, OpenKey
<1>8. CASE EndStep
  BY <1>2, <1>8 DEF EndStep, Reset
<1>9. CASE /\ sources' \in {sources, {}} /\ UNCHANGED <<made, remaining, file>>
           /\ phase' \in {"read", "upload"} => phase \in {"read", "upload"} \/ sources' = {}
  BY <1>1, <1>9 DEF Unread, OpenKey
<1> QED
  BY <1>3, <1>4, <1>5, <1>6, <1>7, <1>8, <1>9
     DEF Kinds, Upload, Read, KeyStep, PhaseStep, vars, reading, history

\* The run has no output of the name that the next one gets.
LEMMA NewName ==
  ASSUME TypeInv, Fresh, phase = "upload"
  PROVE  LatestSource \notin made
<1>1. PICK b \in Range(acc.rows) : DataKey(b[1]) \in sources
  BY HasSources
<1>2. PICK k : k = DataKey(b[1])
  OBVIOUS
<1>3. IsFile(k) /\ k \in sources /\ Time(k) <= LatestSource /\ LatestSource \in Times
  BY <1>1, <1>2, SourcesLatest DEF IsFile, DataKey, TypeInv, FilesOk
<1>4. Time(k) \in Int /\ LatestSource \in Int
  <2>1. Times \subseteq Int
    BY DEF Times
  <2> QED
    BY <1>3, <2>1, RunKeys DEF Time
<1>5. LatestSource \in made => LatestSource < Time(k)
  BY <1>3 DEF Fresh
<1> QED
  BY <1>3, <1>4, <1>5

LEMMA BehindKept ==
  ASSUME TypeInv, BehindCheckpoint, Kinds
  PROVE  BehindCheckpoint'
<1>0. UNCHANGED checkpointing
  BY FilesFrame DEF config
<1>1. CASE \E t \in Times : Start(t)
  <2>1. PICK t \in Times : Start(t)
    BY <1>1
  <2>2. PICK listing : listing = Uncompacted(IF checkpointing THEN checkpoint ELSE 0, t)
    OBVIOUS
  <2>3. listed' \subseteq listing /\ UNCHANGED checkpoint
    BY <2>1, <2>2 DEF Start
  <2> QED
    BY <1>0, <2>2, <2>3 DEF BehindCheckpoint, Uncompacted
<1>2. CASE EndStep
  BY <1>2 DEF EndStep, Reset, BehindCheckpoint
<1>3. CASE listed' \subseteq listed /\ UNCHANGED checkpoint
  BY <1>0, <1>3 DEF BehindCheckpoint
<1> QED
  BY <1>1, <1>2, <1>3
     DEF Kinds, Upload, Open, Pass, Close, Put, Read, KeyStep, PhaseStep, vars, history

LEMMA OrderStep ==
  ASSUME TypeInv, OrderInv, [Next]_vars
  PROVE  OrderInv'
  BY StepKinds, InOrderKept, FilesListedKept, FilesHereKept, FreshKept, BehindKept DEF OrderInv

LEMMA OrderInit ==
  ASSUME Init
  PROVE  OrderInv
  BY DEF Init, OrderInv, InOrder, FilesListed, FilesHere, Fresh, BehindCheckpoint, Unread,
         OpenKey, Active

-----------------------------------------------------------------------------
(* What the run has read is held: by its accumulator or by an output of it. *)

OutputsIn(f, S) == UNION {Range(f[t]) : t \in S}

Held == Range(acc.rows) \cup OutputsIn(compacted, made)

HashesHeld == deduplicate => \A v \in acc.seen : \E c \in Held : Row(c) = v

\* Batches that the run has read, but for those it cut off.
Passed(b) ==
  DataKey(b[1]) \in listed \ remaining /\ (b[1] = file => b[2] <= offset)

PassedHeld == \A b \in Uploads \ cut : Passed(b) => Stands(b, Held)

HeldInv == HashesHeld /\ PassedHeld

LEMMA HeldType ==
  ASSUME TypeInv
  PROVE  /\ Held \subseteq Uploads /\ Outputs \subseteq Uploads
         /\ OutputsIn(compacted, made) \subseteq Outputs
<1>1. \A t \in Times : Range(compacted[t]) \subseteq Uploads
  BY SeqElements DEF TypeInv, OutputsOk
<1>2. made \subseteq Times
  BY DEF TypeInv, KeysOk, FilesOk
<1>3. Range(acc.rows) \subseteq Uploads
  BY SeqElements DEF TypeInv, AccOk
<1> QED
  BY <1>1, <1>2, <1>3 DEF Held, OutputsIn, Outputs

\* What is held is kept until the run ends.
LEMMA HeldGrows ==
  ASSUME TypeInv, Fresh, Kinds
  PROVE  EndStep \/ (Held \subseteq Held' /\ Held' \subseteq Uploads')
<1>0. AccOk /\ PhasesOk /\ OutputsOk
  BY DEF TypeInv
<1>1. Held \subseteq Uploads /\ Uploads \subseteq Uploads'
  BY HeldType, UploadsStay DEF TypeInv
<1>2. CASE \E t \in Times : Start(t)
  <2>1. Held' = {}
    BY <1>2, EmptySequence DEF Start, Held, OutputsIn, Empty
  <2>2. Held = {}
    BY <1>0, <1>2, EmptySequence DEF Start, PhasesOk, Reset, Held, OutputsIn, Empty
  <2> QED
    BY <2>1, <2>2
<1>3. CASE Read
  <2>1. PICK b : b = <<file, offset + 1>>
    OBVIOUS
  <2>2. b \in Uploads /\ b \in Batches /\ Row(b) \in Values
    BY <1>3, <2>1, NextBatch, RowType DEF TypeInv
  <2>3. /\ acc' = ReadBatch(acc, b) /\ acc \in Accumulators /\ acc.rows \in Seq(Uploads)
        /\ UNCHANGED <<compacted, made>>
    BY <1>0, <1>3, <2>1 DEF Read, AccOk, bucket
  <2>4. acc'.rows = acc.rows \/ acc'.rows = Append(acc.rows, b)
    BY <2>2, <2>3, ReadEffect DEF AddedTo
  <2>5. Range(acc'.rows) \in {Range(acc.rows), Range(acc.rows) \cup {b}}
    <3>1. Range(Append(acc.rows, b)) = Range(acc.rows) \cup {b}
      BY <2>2, <2>3, AppendRange
    <3> QED
      BY <2>4, <3>1
  <2> QED
    BY <1>1, <2>2, <2>3, <2>5 DEF Held
<1>4. CASE Put
  <2>1. /\ acc'.rows = <<>> /\ made' = made \cup {LatestSource}
        /\ compacted' = [compacted EXCEPT ![LatestSource] = acc.rows]
        /\ LatestSource \notin made /\ LatestSource \in Times
    BY <1>0, <1>4, TakenEffect, NewName, SourcesLatest DEF Put, AccOk, TypeInv, FilesOk
  <2>2. made \subseteq Times /\ compacted \in [Times -> Seq(Uploads)]
    BY <1>0 DEF OutputsOk, TypeInv, KeysOk, FilesOk
  <2>3. compacted'[LatestSource] = acc.rows /\ \A t \in made : compacted'[t] = compacted[t]
    BY <2>1, <2>2
  <2>4. OutputsIn(compacted', made') = OutputsIn(compacted, made) \cup Range(acc.rows)
    BY <2>1, <2>3 DEF OutputsIn
  <2>5. Held' = Held
    BY <2>1, <2>4, EmptySequence DEF Held
  <2> QED
    BY <1>1, <2>5
<1>5. CASE UNCHANGED <<acc, compacted, made>>
  <2>1. Held' = Held
    BY <1>5 DEF Held
  <2> QED
    BY <1>1, <2>1
<1> QED
  BY <1>2, <1>3, <1>4, <1>5
     DEF Kinds, Upload, Open, Pass, Close, KeyStep, PhaseStep, vars, bucket, history

LEMMA HashesHeldKept ==
  ASSUME TypeInv, Fresh, HashesHeld, Kinds
  PROVE  HashesHeld'
<1>0. /\ AccOk /\ UNCHANGED deduplicate /\ Held \subseteq Uploads
      /\ \A c \in Uploads : Row(c)' = Row(c)
  BY UploadsStay, FilesFrame, HeldType DEF TypeInv, config
<1>1. CASE EndStep
  BY <1>1 DEF EndStep, Reset, Empty, HashesHeld
<1>2. CASE \E t \in Times : Start(t)
  BY <1>2 DEF Start, Empty, HashesHeld
<1>3. CASE Held \subseteq Held' /\ acc'.seen = acc.seen
  BY <1>0, <1>3 DEF HashesHeld
<1>4. CASE Read
  <2>1. PICK b : b = <<file, offset + 1>>
    OBVIOUS
  <2>2. b \in Uploads /\ b \in Batches /\ Row(b) \in Values
    BY <1>4, <2>1, NextBatch, RowType DEF TypeInv
  <2>3. /\ acc' = ReadBatch(acc, b) /\ acc \in Accumulators /\ acc.rows \in Seq(Uploads)
        /\ ~EndStep
    BY <1>0, <1>4, <2>1 DEF Read, AccOk, EndStep
  <2>4. Held \subseteq Held'
    BY <2>3, HeldGrows
  <2>5. CASE acc'.seen = acc.seen
    BY <1>3, <2>4, <2>5
  <2>6. CASE acc'.seen # acc.seen
    <3>1. acc'.rows = Append(acc.rows, b) /\ acc'.seen \subseteq acc.seen \cup {Row(b)}
      BY <2>2, <2>3, <2>6, ReadEffect DEF AddedTo
    <3>2. b \in Range(acc'.rows)
      BY <2>2, <2>3, <3>1, AppendRange
    <3>3. b \in Held' /\ Row(b)' = Row(b)
      BY <1>0, <2>2, <3>2 DEF Held
    <3> QED
      BY <1>0, <2>4, <3>1, <3>3 DEF HashesHeld
  <2> QED
    BY <2>5, <2>6
<1>5. CASE Put
  <2>1. acc'.seen = acc.seen /\ ~EndStep
    BY <1>0, <1>5, TakenEffect DEF Put, AccOk, EndStep
  <2> QED
    BY <1>3, <1>5, <2>1, HeldGrows
<1>6. CASE UNCHANGED acc
  BY <1>1, <1>3, <1>6, HeldGrows
<1> QED
  BY <1>1, <1>2, <1>4, <1>5, <1>6 DEF Kinds, Upload, Open, Pass, Close, KeyStep, PhaseStep, vars

\* What a step passes is what it reads.
LEMMA PassedBefore ==
  ASSUME TypeInv, Kinds, NEW b \in Uploads', Passed(b)',
         ~EndStep, ~(Read /\ b = <<file, offset + 1>>)
  PROVE  b \in Uploads /\ Passed(b)
<1>0. /\ PhasesOk /\ FilesOk
      /\ \A k \in listed : k[1] \in uploaded
      /\ b \in Uploads \/ b[1] \notin uploaded
      /\ \A c \in Uploads : c \in Batches /\ c[1] \in uploaded \ bad /\ c[2] \in DOMAIN content[c[1]]
  BY UploadsStay DEF TypeInv, KeysOk, Uploads
<1>1. b \in Batches /\ b[1] \in Times /\ b[2] \in Nat \ {0} /\ b = <<b[1], b[2]>>
  <2>1. b \in Batches /\ 1 .. MaxBatches \subseteq Nat \ {0}
    BY CompactorAssumption DEF Uploads
  <2> QED
    BY <2>1 DEF Batches
<1>2. DataKey(b[1])[1] = b[1] /\ IsFile(DataKey(b[1])) /\ b[1] # NoFile
  BY <1>1 DEF DataKey, IsFile, Times, NoFile
<1>3. listed' \subseteq listed => b \in Uploads
  BY <1>0, <1>2 DEF Passed
<1>4. CASE \E t \in Times : Start(t)
  BY <1>4 DEF Start, Passed
<1>5. CASE \E key \in Keys : Open(key)
  <2>1. PICK key \in Keys : Open(key)
    BY <1>5
  <2>2. /\ remaining' = remaining \ {key} /\ file' = Time(key) /\ offset' = 0 /\ file = NoFile
        /\ UNCHANGED listed
    BY <2>1 DEF Open, history
  <2>3. DataKey(b[1]) # key
    <3>1. DataKey(b[1]) = key => b[1] = file'
      BY <1>2, <2>2 DEF Time
    <3> QED
      BY <1>1, <2>2, <3>1 DEF Passed
  <2> QED
    BY <1>2, <1>3, <2>2, <2>3 DEF Passed
<1>6. CASE \E key \in Keys : Pass(key)
  <2>1. PICK key \in Keys : Pass(key)
    BY <1>6
  <2>2. /\ remaining' = remaining \ {key} /\ listed' = listed \ {key}
        /\ UNCHANGED <<file, offset>>
    BY <2>1 DEF Pass
  <2> QED
    BY <1>3, <2>2 DEF Passed
<1>7. CASE Read
  <2>1. /\ UNCHANGED <<remaining, file, listed>> /\ offset' = offset + 1
        /\ offset \in Nat
    BY <1>7 DEF Read, TypeInv, LocalTypes
  <2>2. b[1] = file => b[2] # offset + 1
    BY <1>1, <1>7
  <2> QED
    BY <1>1, <1>3, <2>1, <2>2 DEF Passed
<1>8. CASE Close
  <2>1. UNCHANGED <<remaining, listed>> /\ offset = Len(content[file])
    BY <1>8 DEF Close, history
  <2>2. b[1] = file => b[2] <= offset
    <3>1. SUFFICES ASSUME b[1] = file PROVE b[2] <= offset
      OBVIOUS
    <3>2. b[2] \in DOMAIN content[file] /\ content[file] \in BoundedSeq(Rows, MaxBatches)
      BY <1>0, <1>1, <1>3, <2>1, <3>1 DEF FilesOk
    <3> QED
      BY <2>1, <3>2, Bounded
  <2> QED
    BY <1>3, <2>1, <2>2 DEF Passed
<1>9. CASE UNCHANGED <<remaining, file, offset, listed>>
  BY <1>3, <1>9 DEF Passed
<1> QED
  BY <1>4, <1>5, <1>6, <1>7, <1>8, <1>9
     DEF Kinds, Upload, Put, KeyStep, PhaseStep, vars, reading, history

LEMMA PassedHeldKept ==
  ASSUME TypeInv, Fresh, HeldInv, Kinds
  PROVE  PassedHeld'
<1>0. /\ Held \subseteq Uploads /\ HashesHeld /\ PassedHeld /\ AccOk
      /\ UNCHANGED deduplicate /\ \A c \in Uploads : Row(c)' = Row(c)
  BY HeldType, UploadsStay, FilesFrame DEF HeldInv, TypeInv, config
<1>1. CASE EndStep
  BY <1>1 DEF EndStep, Reset, PassedHeld, Passed
<1>2. CASE ~EndStep
  <2>1. Held \subseteq Held'
    BY <1>2, HeldGrows
  <2>2. SUFFICES ASSUME NEW b \in Uploads' \ cut', Passed(b)' PROVE Stands(b, Held)'
    BY DEF PassedHeld
  <2>3. ASSUME b \in Uploads, Stands(b, Held) PROVE Stands(b, Held)'
    BY <1>0, <2>1, <2>3 DEF Stands
  <2>4. CASE ~(Read /\ b = <<file, offset + 1>>)
    <3>1. b \in Uploads /\ Passed(b)
      BY <1>2, <2>2, <2>4, PassedBefore
    <3>2. b \notin cut
      <4>1. cut \subseteq cut'
        BY DEF Kinds, Upload, Start, Open, Pass, Read, Close, Put, EndStep, KeyStep, PhaseStep, vars,
               history
      <4> QED
        BY <2>2, <4>1
    <3> QED
      BY <1>0, <2>2, <2>3, <3>1, <3>2 DEF PassedHeld
  <2>5. CASE Read /\ b = <<file, offset + 1>>
    <3>1. b \in Uploads /\ b \in Batches /\ Row(b) \in Values /\ acc \in Accumulators
          /\ acc.rows \in Seq(Uploads)
      BY <1>0, <2>5, NextBatch, RowType DEF TypeInv, AccOk
    <3>2. acc' = ReadBatch(acc, b) /\ ~acc.full
      BY <2>2, <2>5 DEF Read
    <3>3. AddedTo(acc', acc, b)
      BY <3>1, <3>2, ReadEffect
    <3>4. CASE acc'.rows = Append(acc.rows, b)
      <4>1. b \in Range(acc'.rows)
        BY <3>1, <3>4, AppendRange
      <4> QED
        BY <4>1 DEF Stands, Held
    <3>5. CASE deduplicate /\ Row(b) \in acc.seen
      <4>1. Stands(b, Held)
        BY <1>0, <3>5 DEF HashesHeld, Stands
      <4> QED
        BY <2>3, <3>1, <4>1
    <3> QED
      BY <3>3, <3>4, <3>5 DEF AddedTo
  <2> QED
    BY <2>4, <2>5
<1> QED
  BY <1>1, <1>2

LEMMA HeldStep ==
  ASSUME TypeInv, OrderInv, HeldInv, [Next]_vars
  PROVE  HeldInv'
  BY StepKinds, HashesHeldKept, PassedHeldKept DEF OrderInv, HeldInv

LEMMA HeldInit ==
  ASSUME Init
  PROVE  HeldInv
  BY DEF Init, HeldInv, HashesHeld, PassedHeld, Passed, Empty

RunInv == TypeInv /\ OrderInv /\ HeldInv

LEMMA RunInvHolds == Spec => []RunInv
<1>1. Init => RunInv
  BY TypeInit, OrderInit, HeldInit DEF RunInv
<1>2. RunInv /\ [Next]_vars => RunInv'
  BY TypeStep, OrderStep, HeldStep DEF RunInv
<1> QED
  BY <1>1, <1>2, PTL DEF Spec

\* A file that a run deletes was read by it to its end.
LEMMA DeletedWasPassed ==
  ASSUME RunInv, Kinds, NEW b \in Uploads \ cut, DataKey(b[1]) \in keys,
         DataKey(b[1]) \notin keys'
  PROVE  /\ phase = "delete" /\ Stands(b, OutputsIn(compacted, made))
         /\ DataKey(b[1]) \in todo
<1>0. TypeInv /\ InOrder /\ FilesListed /\ PassedHeld
  BY DEF RunInv, OrderInv, HeldInv
<1>1. PICK k : k = DataKey(b[1])
  OBVIOUS
<1>2. IsFile(k) /\ k \in keys /\ k \notin keys'
  BY <1>1 DEF IsFile, DataKey
<1>3. PICK key \in Keys : KeyStep(key)
  BY <1>2 DEF Kinds, Upload, Start, Open, Pass, Read, Close, Put, EndStep, PhaseStep, vars, bucket
<1>4. phase = "delete" /\ key \in sources /\ key \in todo /\ k \in {key, MarkerOf(key)}
  BY <1>0, <1>2, <1>3 DEF KeyStep, TypeInv, PhasesOk
<1>5. k = key
  <2>1. key[2] \in Nat
    BY <1>0, <1>4, RunKeys
  <2> QED
    BY <1>2, <1>4, <2>1 DEF IsFile, MarkerOf
<1>6. k \in listed /\ k \notin remaining
  BY <1>0, <1>2, <1>4, <1>5, RunKeys, Ordered DEF FilesListed, Active, InOrder, Unread
<1>7. file = NoFile /\ acc.rows = <<>> /\ b[1] # NoFile
  <2>1. b[1] \in Times
    BY DEF Uploads, Batches
  <2> QED
    BY <1>0, <1>4, <2>1 DEF TypeInv, PhasesOk, Times, NoFile
<1>8. Stands(b, Held)
  BY <1>0, <1>1, <1>6, <1>7 DEF PassedHeld, Passed
<1>9. Held = OutputsIn(compacted, made)
  BY <1>7, EmptySequence DEF Held
<1> QED
  BY <1>1, <1>4, <1>5, <1>8, <1>9

\* A file that was deleted is in outputs, whatever has failed: the run deletes
\* the source files of one output, and has read each of them to its end, but
\* for what the size limit cut off.
THEOREM DeletedFilesAreCompacted == Spec => DeletedIsCompacted
<1> DEFINE Shows == \A b \in Uploads \ cut :
                      (DataKey(b[1]) \in keys /\ DataKey(b[1]) \notin keys') => Stands(b, Outputs)'
<1>1. ASSUME RunInv, [Next]_vars PROVE Shows
  <2>1. SUFFICES ASSUME NEW b \in Uploads \ cut, DataKey(b[1]) \in keys, DataKey(b[1]) \notin keys'
                 PROVE  Stands(b, Outputs)'
    OBVIOUS
  <2>2. Kinds /\ TypeInv
    BY <1>1, StepKinds DEF RunInv
  <2>3. phase = "delete" /\ Stands(b, OutputsIn(compacted, made))
    BY <1>1, <2>1, <2>2, DeletedWasPassed
  <2>4. UNCHANGED <<compacted, deduplicate>>
    BY <2>1, <2>2, <2>3 DEF Kinds, Upload, Start, Open, Pass, Read, Close, Put, EndStep, KeyStep,
       PhaseStep, vars, bucket, config, TypeInv, PhasesOk
  <2>5. /\ OutputsIn(compacted, made) \subseteq Outputs /\ Outputs \subseteq Uploads
        /\ Outputs' = Outputs
    BY <2>2, <2>4, HeldType DEF Outputs
  <2>6. \A c \in Uploads : Row(c)' = Row(c)
    BY <2>2, UploadsStay DEF TypeInv
  <2> QED
    BY <2>1, <2>3, <2>4, <2>5, <2>6 DEF Stands
<1>2. RunInv /\ [Next]_vars => [Shows]_vars
  BY <1>1
<1> QED
  BY <1>2, RunInvHolds, PTL DEF Spec, DeletedIsCompacted

\* The caller that lists from its checkpoint on leaves nothing behind: a run that
\* returns a result has read every file it listed and written all it read, and
\* a run that fails leaves the checkpoint before them.
THEOREM CheckpointIsSound == Spec => CheckpointSound
<1> DEFINE Shows == (checkpointing /\ phase # "idle" /\ phase' = "idle") =>
                      \A b \in Uploads \ cut :
                        (DataKey(b[1]) \in listed /\ b[1] <= checkpoint') => Stands(b, Outputs)'
<1>1. ASSUME RunInv, [Next]_vars PROVE Shows
  <2>1. SUFFICES ASSUME checkpointing, phase # "idle", phase' = "idle",
                        NEW b \in Uploads \ cut, DataKey(b[1]) \in listed, b[1] <= checkpoint'
                 PROVE  Stands(b, Outputs)'
    OBVIOUS
  <2>2. Kinds /\ TypeInv /\ BehindCheckpoint /\ PassedHeld
    BY <1>1, StepKinds DEF RunInv, OrderInv, HeldInv
  <2>3. EndStep
    BY <2>1, <2>2 DEF Kinds, Upload, Start, Open, Pass, Read, Close, Put, KeyStep, PhaseStep, vars,
                      TypeInv, PhasesOk
  <2>4. b[1] \in Times /\ b[1] # NoFile /\ checkpoint \in Int
    BY <2>2, CompactorAssumption DEF Uploads, Batches, Times, NoFile, TypeInv, CountsOk
  <2>5. checkpoint' # checkpoint
    <3>1. checkpoint < b[1]
      BY <2>1, <2>2 DEF BehindCheckpoint, DataKey, Time
    <3>2. b[1] \in Int
      BY <2>4 DEF Times
    <3> QED
      BY <2>1, <2>4, <3>1, <3>2
  <2>6. Done /\ UNCHANGED <<compacted, deduplicate>>
    BY <2>3, <2>5 DEF EndStep, Done, config
  <2>7. Stands(b, Held) /\ Held = OutputsIn(compacted, made)
    BY <2>1, <2>2, <2>4, <2>6, EmptySequence DEF Done, PassedHeld, Passed, Held
  <2>8. /\ OutputsIn(compacted, made) \subseteq Outputs /\ Outputs \subseteq Uploads
        /\ Outputs' = Outputs
    BY <2>2, <2>6, HeldType DEF Outputs
  <2>9. \A c \in Uploads : Row(c)' = Row(c)
    BY <2>2, UploadsStay DEF TypeInv
  <2> QED
    BY <2>6, <2>7, <2>8, <2>9 DEF Stands
<1>2. RunInv /\ [Next]_vars => [Shows]_vars
  BY <1>1
<1> QED
  BY <1>2, RunInvHolds, PTL DEF Spec, CheckpointSound

\* Both together: no file goes, or is passed for good, before it is compacted.
THEOREM PassedAreCompacted == Spec => PassedIsCompacted
BY DeletedFilesAreCompacted, CheckpointIsSound DEF PassedIsCompacted

-----------------------------------------------------------------------------
(* Files and outputs.  While no deletion fails and no run stops among its   *)
(* markers and deletions, every key between two outputs is a file, and a    *)
(* name that an output may take is that of a file that is still there, or   *)
(* of an output of the run: nothing else is replaced.                       *)

Gone ==
  (deleting /\ "delete" \notin happened /\ phase = "delete") =>
    \A k \in sources \ todo : k \notin keys

Safe == deleting /\ happened \cap {"crash", "delete", "unmark"} = {}

FilesStay == ~deleting => \A t \in uploaded : DataKey(t) \in keys

OnlyFiles ==
  /\ \A k \in keys : \/ IsFile(k)
                     \/ phase = "mark" /\ \E s \in sources : k = MarkerOf(s)
                     \/ phase = "delete" /\ \E s \in todo : k = MarkerOf(s)
  /\ \A k \in sources \cup remaining : IsFile(k)

NamesFree ==
  \A t \in made : DataKey(t) \notin keys \/ (phase \in {"mark", "delete"} /\ DataKey(t) \in sources)

\* Names that no later output takes.
Loose == {t \in Times : DataKey(t) \notin keys \/ t \in made}

Covered == \A b \in Uploads \ cut : DataKey(b[1]) \in keys \/ Stands(b, OutputsIn(compacted, Loose))

LostInv == FilesStay /\ Gone /\ (Safe => OnlyFiles /\ NamesFree /\ Covered)

\* The files in the bucket change with an upload or a deletion only.
LEMMA FilesChange ==
  ASSUME TypeInv, Kinds
  PROVE  /\ \A t : DataKey(t) \in keys' =>
              DataKey(t) \in keys \/ (t \in uploaded' \ uploaded /\ Upload(t))
         /\ \A k \in keys : (IsFile(k) /\ k \notin keys') => phase = "delete" /\ k \in todo
<1>1. CASE \E t \in Times : Upload(t)
  BY <1>1 DEF Upload, DataKey
<1>2. CASE \E key \in Keys : KeyStep(key)
  <2>1. PICK key \in Keys : KeyStep(key)
    BY <1>2
  <2>2. key[2] \in Nat
    BY <2>1, RunKeys DEF KeyStep
  <2>3. ~IsFile(MarkerOf(key)) /\ \A t : IsFile(DataKey(t))
    BY <2>2 DEF MarkerOf, IsFile, DataKey
  <2> QED
    BY <2>1, <2>3 DEF KeyStep
<1>3. CASE UNCHANGED keys
  BY <1>3
<1> QED
  BY <1>1, <1>2, <1>3
     DEF Kinds, Start, Open, Pass, Read, Close, Put, EndStep, PhaseStep, vars, bucket

LEMMA FilesStayKept ==
  ASSUME TypeInv, FilesStay, Kinds
  PROVE  FilesStay'
<1>1. SUFFICES ASSUME ~deleting', NEW t \in uploaded' PROVE DataKey(t) \in keys'
  BY DEF FilesStay
<1>2. ~deleting /\ phase # "delete" /\ IsFile(DataKey(t))
  BY <1>1, FilesFrame DEF config, TypeInv, PhasesOk, IsFile, DataKey
<1>3. CASE t \in uploaded
  BY <1>2, <1>3, FilesChange DEF FilesStay
<1>4. CASE t \notin uploaded
  BY <1>1, <1>4, FilesFrame DEF Upload
<1> QED
  BY <1>3, <1>4

\* What uploads, and what the run works on, are different files.
LEMMA NotUploaded ==
  ASSUME TypeInv, NEW t, Upload(t)
  PROVE  /\ DataKey(t) \notin keys \cup sources \cup remaining \cup todo /\ t \notin made
         /\ t \in uploaded' /\ t \notin uploaded
  BY DEF Upload, TypeInv, KeysOk, DataKey

LEMMA GoneKept ==
  ASSUME TypeInv, Gone, Kinds, happened \subseteq happened'
  PROVE  Gone'
<1>0. UNCHANGED deleting /\ \A k \in sources : k[1] \in uploaded
  BY FilesFrame DEF config, TypeInv, KeysOk
<1>1. CASE \E t \in Times : Upload(t)
  <2>1. PICK t \in Times : Upload(t)
    BY <1>1
  <2>2. /\ keys' = keys \cup {DataKey(t)} /\ DataKey(t) \notin sources
        /\ UNCHANGED <<sources, todo, phase, happened>>
    BY <2>1, NotUploaded DEF Upload
  <2> QED
    BY <1>0, <2>2 DEF Gone
<1>2. CASE \E key \in Keys : KeyStep(key)
  <2>1. PICK key \in Keys : KeyStep(key)
    BY <1>2
  <2> QED
    BY <1>0, <2>1 DEF KeyStep, Gone
<1>3. CASE PhaseStep
  BY <1>0, <1>3 DEF PhaseStep, Gone
<1>4. CASE phase' # "delete"
  BY <1>4 DEF Gone
<1>5. CASE UNCHANGED vars
  BY <1>5 DEF vars, Gone, bucket, config
<1> QED
  BY <1>1, <1>2, <1>3, <1>4, <1>5
     DEF Kinds, Start, Open, Pass, Read, Close, Put, EndStep, TypeInv, PhasesOk

LEMMA OnlyFilesKept ==
  ASSUME TypeInv, OnlyFiles, Kinds, Safe'
  PROVE  OnlyFiles'
<1>0. deleting /\ happened' \cap {"crash", "delete", "unmark"} = {}
  BY FilesFrame DEF Safe, config
<1>1. CASE \E t \in Times : Upload(t)
  BY <1>1 DEF Upload, OnlyFiles, reading, DataKey, IsFile
<1>2. CASE \E t \in Times : Start(t)
  <2>1. remaining' \subseteq keys /\ UNCHANGED keys /\ sources' = {} /\ phase = "idle"
    BY <1>2 DEF Start, Uncompacted, bucket
  <2> QED
    BY <2>1 DEF OnlyFiles
<1>3. CASE \E key \in Keys : Open(key)
  BY <1>3 DEF Open, OnlyFiles, bucket
<1>4. CASE \E key \in Keys : Pass(key)
  BY <1>4 DEF Pass, IsNext, SourcesWith, OnlyFiles, bucket
<1>5. CASE Close
  <2>1. phase = "read" /\ phase' \in {"read", "upload"} /\ UNCHANGED <<keys, remaining>>
        /\ sources' = sources \cup {DataKey(file)}
    BY <1>5 DEF Close, TypeInv, PhasesOk, SourcesWith, bucket
  <2> QED
    BY <2>1 DEF OnlyFiles, DataKey, IsFile
<1>6. CASE Put
  BY <1>6 DEF Put, OnlyFiles, reading
<1>7. CASE EndStep
  <2>1. phase \notin {"mark", "delete"} /\ UNCHANGED keys /\ remaining' = {} /\ sources' = {}
    BY <1>0, <1>7 DEF EndStep, Reset
  <2> QED
    BY <2>1 DEF OnlyFiles
<1>8. CASE \E key \in Keys : KeyStep(key)
  <2>1. PICK key \in Keys : KeyStep(key)
    BY <1>8
  <2>2. /\ UNCHANGED <<phase, sources, remaining>> /\ phase \in {"mark", "delete"}
        /\ key \in todo /\ key \in sources
    BY <2>1 DEF KeyStep, reading, TypeInv, PhasesOk
  <2>3. CASE phase = "mark"
    <3>1. keys' \subseteq keys \cup {MarkerOf(key)}
      BY <2>1, <2>3 DEF KeyStep
    <3> QED
      BY <2>2, <2>3, <3>1 DEF OnlyFiles
  <2>4. CASE phase = "delete"
    <3>1. \/ keys' = keys \ {key} /\ todo' = todo
          \/ keys' = keys \ {MarkerOf(key)} /\ todo' = todo \ {key}
      BY <1>0, <2>1, <2>4 DEF KeyStep
    <3> QED
      BY <2>2, <2>4, <3>1 DEF OnlyFiles
  <2> QED
    BY <2>2, <2>3, <2>4
<1>9. CASE PhaseStep
  BY <1>0, <1>9 DEF PhaseStep, OnlyFiles, bucket, reading
<1>10. CASE UNCHANGED <<keys, phase, sources, todo, remaining>>
  BY <1>10 DEF OnlyFiles
<1> QED
  BY <1>1, <1>2, <1>3, <1>4, <1>5, <1>6, <1>7, <1>8, <1>9, <1>10
     DEF Kinds, Read, vars, bucket, reading

LEMMA NamesFreeKept ==
  ASSUME TypeInv, Gone, OnlyFiles, NamesFree, Kinds, Safe, Safe'
  PROVE  NamesFree'
<1>0. deleting /\ happened' \cap {"crash", "delete", "unmark"} = {} /\ "delete" \notin happened
  BY FilesFrame DEF Safe, config
<1>1. CASE \E t \in Times : Upload(t)
  <2>1. PICK t \in Times : Upload(t)
    BY <1>1
  <2>2. /\ keys' = keys \cup {DataKey(t)} /\ t \notin made
        /\ UNCHANGED <<sources, phase, made>>
    BY <2>1, NotUploaded DEF Upload, history
  <2> QED
    BY <2>2 DEF NamesFree, DataKey
<1>2. ASSUME made' = {} PROVE NamesFree'
  BY <1>2 DEF NamesFree
<1>3. CASE \E t \in Times : Start(t)
  BY <1>2, <1>3 DEF Start
<1>4. CASE EndStep
  BY <1>2, <1>4 DEF EndStep, Reset
<1>5. CASE Put
  <2>1. phase = "upload" /\ phase' = "mark" /\ made' = made \cup {LatestSource}
        /\ UNCHANGED <<sources, keys>>
    BY <1>5 DEF Put
  <2>2. PICK s \in sources : LatestSource = Time(s)
    BY <2>1, SourcesLatest
  <2>3. DataKey(LatestSource) \in sources
    <3>1. IsFile(s) /\ s \in Times \X Nat
      BY <2>2, RunKeys DEF OnlyFiles
    <3>2. s = DataKey(Time(s))
      BY <3>1 DEF IsFile, DataKey, Time
    <3> QED
      BY <2>2, <3>2
  <2> QED
    BY <2>1, <2>3 DEF NamesFree
<1>6. CASE \E key \in Keys : KeyStep(key)
  <2>1. \A t : DataKey(t) \in keys' => DataKey(t) \in keys
    BY <1>6, FilesChange DEF KeyStep, Upload
  <2> QED
    BY <1>6, <2>1 DEF KeyStep, NamesFree, history
<1>7. CASE PhaseStep
  <2>1. UNCHANGED <<keys, made>>
    BY <1>7 DEF PhaseStep, bucket, history
  <2>2. CASE phase = "delete"
    <3>1. \A k \in sources : k \notin keys
      BY <1>0, <1>7, <2>2 DEF PhaseStep, Gone
    <3> QED
      BY <2>1, <3>1 DEF NamesFree
  <2>3. CASE phase # "delete"
    BY <1>0, <1>7, <2>1, <2>3 DEF PhaseStep, NamesFree
  <2> QED
    BY <2>2, <2>3
<1>8. CASE Close
  <2>1. phase = "read" /\ UNCHANGED <<keys, made>>
    BY <1>8 DEF Close, TypeInv, PhasesOk, bucket, history
  <2> QED
    BY <2>1 DEF NamesFree
<1>9. CASE UNCHANGED <<keys, made, phase>> /\ sources \subseteq sources'
  BY <1>9 DEF NamesFree
<1> QED
  BY <1>1, <1>3, <1>4, <1>5, <1>6, <1>7, <1>8, <1>9
     DEF Kinds, Open, Pass, SourcesWith, Read, vars, bucket, history

\* What an output that no later one replaces holds, it keeps.
LEMMA LooseStays ==
  ASSUME TypeInv, OrderInv, OnlyFiles, NamesFree, Kinds, Safe, Safe'
  PROVE  OutputsIn(compacted, Loose) \subseteq OutputsIn(compacted', Loose')
<1>0. /\ OutputsOk /\ deleting /\ happened' \cap {"crash", "delete", "unmark"} = {}
      /\ made \subseteq Times
  BY FilesFrame DEF TypeInv, Safe, config, KeysOk, FilesOk
<1>1. SUFFICES ASSUME NEW t \in Loose, NEW c \in Range(compacted[t])
               PROVE  t \in Loose' /\ c \in Range(compacted'[t])
  BY DEF OutputsIn
<1>2. t \in Times /\ (DataKey(t) \notin keys \/ t \in made)
  BY <1>1 DEF Loose
<1>3. t \in uploaded
  BY <1>0, <1>1, <1>2, EmptySequence DEF OutputsOk
<1>4. ASSUME made \subseteq made' PROVE t \in Loose'
  BY <1>2, <1>3, <1>4, FilesChange DEF Loose
<1>5. CASE phase # "upload" /\ ~EndStep
  <2>1. made \subseteq made'
    BY <1>5 DEF Kinds, Upload, Start, Open, Pass, Close, Read, Put, KeyStep, PhaseStep, vars, history,
                TypeInv, PhasesOk, Reset
  <2>2. UNCHANGED compacted
    BY <1>5 DEF Kinds, Upload, Start, Open, Pass, Close, Read, Put, KeyStep, PhaseStep, vars, bucket
  <2> QED
    BY <1>1, <1>4, <2>1, <2>2
<1>6. CASE phase # "upload" /\ EndStep
  <2>1. UNCHANGED <<compacted, keys>>
    BY <1>6 DEF EndStep
  <2>2. DataKey(t) \notin keys
    BY <1>0, <1>2, <1>6 DEF EndStep, NamesFree
  <2> QED
    BY <1>1, <1>2, <2>1, <2>2 DEF Loose
<1>7. CASE phase = "upload"
  <2>1. PICK s \in sources : LatestSource = Time(s)
    BY <1>7, SourcesLatest
  <2>2. IsFile(s) /\ s \in Times \X Nat /\ s \in keys
    BY <1>7, <2>1, RunKeys DEF OnlyFiles, OrderInv, FilesHere
  <2>3. DataKey(LatestSource) \in keys
    <3>1. s = DataKey(Time(s))
      BY <2>2 DEF IsFile, DataKey, Time
    <3> QED
      BY <2>1, <2>2, <3>1
  <2>4. t # LatestSource
    BY <1>2, <1>7, <2>3, NewName DEF OrderInv
  <2>5. compacted'[t] = compacted[t]
    <3>1. UNCHANGED compacted \/ compacted' = [compacted EXCEPT ![LatestSource] = acc.rows]
      BY <1>7 DEF Kinds, Upload, Start, Open, Pass, Close, Read, Put, EndStep, KeyStep, PhaseStep,
                  vars, bucket
    <3> QED
      BY <1>0, <1>2, <2>4, <3>1 DEF OutputsOk
  <2>6. CASE EndStep
    <3>1. DataKey(t) \notin keys /\ UNCHANGED keys
      BY <1>2, <1>7, <2>6 DEF EndStep, NamesFree
    <3> QED
      BY <1>1, <1>2, <2>5, <3>1 DEF Loose
  <2>7. CASE ~EndStep
    <3>1. made \subseteq made'
      BY <1>7, <2>7 DEF Kinds, Upload, Start, Open, Pass, Close, Read, Put, KeyStep, PhaseStep, vars,
                        history, TypeInv, PhasesOk
    <3> QED
      BY <1>1, <1>4, <2>5, <3>1
  <2> QED
    BY <2>6, <2>7
<1> QED
  BY <1>5, <1>6, <1>7

LEMMA CoveredKept ==
  ASSUME RunInv, OnlyFiles, NamesFree, Covered, Kinds, Safe, Safe'
  PROVE  Covered'
<1>0. TypeInv /\ OrderInv /\ made \subseteq Times
  BY DEF RunInv, TypeInv, KeysOk, FilesOk
<1>1. OutputsIn(compacted, Loose) \subseteq OutputsIn(compacted', Loose')
  BY <1>0, LooseStays
<1>2. /\ OutputsIn(compacted, Loose) \subseteq Uploads
      /\ OutputsIn(compacted, made) \subseteq OutputsIn(compacted, Loose)
  BY <1>0, HeldType DEF OutputsIn, Loose, Outputs
<1>3. /\ UNCHANGED deduplicate /\ cut \subseteq cut'
      /\ \A c \in Uploads : Row(c)' = Row(c)
      /\ \A b \in Uploads' : b \in Uploads \/ b[1] \notin uploaded
  <2>1. cut \subseteq cut'
    BY DEF Kinds, Upload, Start, Open, Pass, Read, Close, Put, EndStep, KeyStep, PhaseStep, vars,
           history
  <2> QED
    BY <1>0, <2>1, UploadsStay, FilesFrame DEF TypeInv, config
<1>4. ASSUME NEW b \in Uploads, Stands(b, OutputsIn(compacted, Loose))
      PROVE  Stands(b, OutputsIn(compacted, Loose))'
  BY <1>1, <1>2, <1>3, <1>4 DEF Stands
<1>5. SUFFICES ASSUME NEW b \in Uploads' \ cut'
               PROVE  DataKey(b[1]) \in keys' \/ Stands(b, OutputsIn(compacted, Loose))'
  BY DEF Covered
<1>6. CASE b \notin Uploads
  <2>1. b[1] \in uploaded' /\ b[1] \notin uploaded
    BY <1>3, <1>5, <1>6 DEF Uploads
  <2> QED
    BY <2>1, FilesFrame DEF Upload
<1>7. CASE b \in Uploads
  <2>1. b \in Uploads \ cut
    BY <1>3, <1>5, <1>7
  <2>2. CASE DataKey(b[1]) \in keys
    <3>1. DataKey(b[1]) \in keys' \/ Stands(b, OutputsIn(compacted, made))
      BY <2>1, <2>2, DeletedWasPassed
    <3> QED
      BY <1>2, <1>4, <1>7, <3>1 DEF Stands
  <2>3. CASE DataKey(b[1]) \notin keys
    BY <1>4, <2>1, <2>3 DEF Covered
  <2> QED
    BY <2>2, <2>3
<1> QED
  BY <1>6, <1>7

LEMMA LostStep ==
  ASSUME RunInv, LostInv, [Next]_vars
  PROVE  LostInv'
<1>1. TypeInv /\ OrderInv /\ Kinds /\ happened \subseteq happened'
  BY StepKinds DEF RunInv
<1>2. Safe' => Safe
  BY <1>1, FilesFrame DEF Safe, config
<1> QED
  BY <1>1, <1>2, FilesStayKept, GoneKept, OnlyFilesKept, NamesFreeKept, CoveredKept DEF LostInv

LEMMA LostInvHolds == Spec => [](RunInv /\ LostInv)
<1>1. Init => LostInv
  BY DEF Init, LostInv, FilesStay, Gone, OnlyFiles, NamesFree, Covered, Uploads
<1> QED
  BY <1>1, LostStep, RunInvHolds, PTL DEF Spec

\* Nothing that was uploaded is lost while no deletion fails and no run stops
\* among its markers and deletions: an output never takes the name of one that
\* still holds rows, because its latest source is a file that is there, and a
\* file goes only when its rows are in such an output.
THEOREM UploadsAreKept == Spec => []NothingLost
<1>1. ASSUME RunInv, LostInv PROVE NothingLost
  <2>1. SUFFICES ASSUME happened \cap {"crash", "delete", "unmark"} = {}, NEW b \in Uploads \ cut
                 PROVE  DataKey(b[1]) \in keys \/ Stands(b, Outputs)
    BY DEF NothingLost
  <2>2. CASE deleting
    <3>1. DataKey(b[1]) \in keys \/ Stands(b, OutputsIn(compacted, Loose))
      BY <1>1, <2>1, <2>2 DEF LostInv, Safe, Covered
    <3>2. OutputsIn(compacted, Loose) \subseteq Outputs
      BY DEF OutputsIn, Outputs, Loose
    <3> QED
      BY <3>1, <3>2 DEF Stands
  <2>3. CASE ~deleting
    BY <1>1, <2>3 DEF LostInv, FilesStay, Uploads
  <2> QED
    BY <2>2, <2>3
<1> QED
  BY <1>1, LostInvHolds, PTL

-----------------------------------------------------------------------------
(* No batch twice.  What is accumulated is in files of the bucket, what an  *)
(* output holds is not, unless its sources are about to be deleted.         *)

Once == deleting /\ happened \cap {"put_stored", "crash", "delete"} = {}

Apart ==
  \A b \in Outputs :
    DataKey(b[1]) \notin keys \/ (phase \in {"mark", "delete"} /\ DataKey(b[1]) \in sources)

Distinct ==
  /\ \A t, u \in Times : t # u => Range(compacted[t]) \cap Range(compacted[u]) = {}
  /\ \A t \in Times : IsInjective(compacted[t])

RowsOnce ==
  IsInjective(acc.rows) /\ \A c \in Range(acc.rows) : c[1] = file => c[2] <= offset

DoubledInv == Gone /\ RowsOnce /\ (Once => Apart /\ Distinct)

LEMMA RowsOnceKept ==
  ASSUME TypeInv, InOrder, RowsOnce, Kinds
  PROVE  RowsOnce'
<1>0. /\ AccOk /\ RowsFrom /\ PhasesOk /\ LocalTypes /\ Range(acc.rows) \subseteq Uploads
      /\ \A c \in Uploads : c[1] \in Times /\ c[2] \in Nat /\ c[1] # NoFile
  <2>1. 1 .. MaxBatches \subseteq Nat /\ \A t \in Times : t # NoFile
    BY CompactorAssumption DEF Times, NoFile
  <2>2. \A c \in Uploads : c[1] \in Times /\ c[2] \in Nat
    BY <2>1 DEF Uploads, Batches
  <2> QED
    BY <2>1, <2>2, SeqElements DEF TypeInv, AccOk
<1>1. ASSUME acc'.rows = <<>> PROVE RowsOnce'
  BY <1>1, EmptySequence DEF RowsOnce
<1>2. CASE \E t \in Times : Start(t)
  BY <1>1, <1>2 DEF Start, Empty
<1>3. CASE \E key \in Keys : Open(key)
  <2>1. PICK key \in Keys : Open(key)
    BY <1>3
  <2>2. key \in remaining /\ IsData(key) /\ file = NoFile /\ file' = Time(key) /\ UNCHANGED acc
    BY <2>1 DEF Open, IsNext
  <2>3. \A c \in Range(acc.rows) : c[1] # Time(key)
    <3>1. SUFFICES ASSUME NEW c \in Range(acc.rows), c[1] = Time(key) PROVE FALSE
      OBVIOUS
    <3>2. DataKey(c[1]) = key
      BY <2>1, <2>2, <3>1 DEF IsData, IsFile, DataKey, Time, Keys
    <3>3. key \in sources
      BY <1>0, <2>2, <3>1, <3>2 DEF RowsFrom, Active, OpenKey
    <3> QED
      BY <2>2, <3>3, RunKeys, Ordered DEF InOrder, Unread
  <2> QED
    BY <2>2, <2>3 DEF RowsOnce
<1>4. CASE Read
  <2>1. PICK b : b = <<file, offset + 1>>
    OBVIOUS
  <2>2. b \in Uploads /\ b \in Batches /\ Row(b) \in Values
    BY <1>4, <2>1, NextBatch, RowType DEF TypeInv
  <2>3. /\ acc' = ReadBatch(acc, b) /\ acc \in Accumulators /\ acc.rows \in Seq(Uploads)
        /\ UNCHANGED file /\ offset' = offset + 1 /\ offset \in Nat
    BY <1>0, <1>4, <2>1 DEF Read, AccOk, LocalTypes
  <2>4. acc'.rows = acc.rows \/ acc'.rows = Append(acc.rows, b)
    BY <2>2, <2>3, ReadEffect DEF AddedTo
  <2>5. b \notin Range(acc.rows)
    BY <2>1, <2>3 DEF RowsOnce
  <2>6. IsInjective(acc'.rows)
    BY <2>2, <2>3, <2>4, <2>5, StaysInjective DEF RowsOnce
  <2>7. Range(acc'.rows) \subseteq Range(acc.rows) \cup {b}
    <3>1. Range(Append(acc.rows, b)) = Range(acc.rows) \cup {b}
      BY <2>2, <2>3, AppendRange
    <3> QED
      BY <2>4, <3>1
  <2>8. \A c \in Range(acc.rows) : c[1] = file => c[2] <= offset + 1
    BY <1>0, <2>3 DEF RowsOnce
  <2> QED
    BY <2>1, <2>3, <2>6, <2>7, <2>8 DEF RowsOnce
<1>5. CASE Close
  BY <1>0, <1>5 DEF Close, RowsOnce
<1>6. CASE Put
  BY <1>0, <1>1, <1>6, TakenEffect DEF Put, AccOk
<1>7. CASE EndStep
  BY <1>1, <1>7 DEF EndStep, Reset, Empty
<1>8. CASE UNCHANGED <<acc, file, offset>>
  BY <1>8 DEF RowsOnce
<1> QED
  BY <1>2, <1>3, <1>4, <1>5, <1>6, <1>7, <1>8
     DEF Kinds, Upload, Pass, KeyStep, PhaseStep, vars, reading

\* A new output, of batches that are in files.
LEMMA OutputAdded ==
  ASSUME TypeInv, phase = "upload",
         compacted' = [compacted EXCEPT ![LatestSource] = acc.rows]
  PROVE  /\ LatestSource \in Times
         /\ \A t \in Times : compacted'[t] = IF t = LatestSource THEN acc.rows ELSE compacted[t]
         /\ Outputs' \subseteq Outputs \cup Range(acc.rows)
         /\ \A b \in Range(acc.rows) : DataKey(b[1]) \in sources
<1>1. LatestSource \in Times /\ compacted \in [Times -> Seq(Uploads)]
  BY SourcesLatest DEF TypeInv, FilesOk, OutputsOk
<1>2. \A t \in Times : compacted'[t] = IF t = LatestSource THEN acc.rows ELSE compacted[t]
  BY <1>1
<1>3. file = NoFile
  BY DEF TypeInv, PhasesOk
<1> QED
  BY <1>1, <1>2, <1>3 DEF Outputs, TypeInv, RowsFrom, Active, OpenKey

LEMMA ApartKept ==
  ASSUME TypeInv, OrderInv, Gone, Apart, Kinds, Once, Once'
  PROVE  Apart'
<1>0. /\ deleting /\ happened' \cap {"put_stored", "crash", "delete"} = {}
      /\ "delete" \notin happened /\ Outputs \subseteq Uploads
  BY FilesFrame, HeldType DEF Once, config
<1>1. CASE \E t \in Times : Upload(t)
  <2>1. PICK t \in Times : Upload(t)
    BY <1>1
  <2>2. /\ keys' = keys \cup {DataKey(t)} /\ t \notin uploaded
        /\ UNCHANGED <<sources, phase, compacted>>
    BY <2>1, NotUploaded DEF Upload
  <2>3. Outputs' = Outputs /\ \A b \in Outputs : b[1] # t
    BY <1>0, <2>2 DEF Outputs, Uploads
  <2> QED
    BY <2>2, <2>3 DEF Apart, DataKey
<1>2. CASE \E t \in Times : Start(t)
  <2>1. UNCHANGED <<keys, compacted>> /\ phase = "idle"
    BY <1>2 DEF Start, bucket
  <2> QED
    BY <2>1 DEF Apart, Outputs
<1>3. CASE Put
  <2>1. /\ phase = "upload" /\ phase' = "mark" /\ UNCHANGED <<sources, keys>>
        /\ compacted' = [compacted EXCEPT ![LatestSource] = acc.rows]
    BY <1>3 DEF Put
  <2> QED
    BY <2>1, OutputAdded DEF Apart
<1>4. CASE EndStep
  <2>1. UNCHANGED <<keys, compacted>> /\ phase \notin {"mark", "delete"}
    BY <1>0, <1>4 DEF EndStep
  <2> QED
    BY <2>1 DEF Apart, Outputs
<1>5. CASE \E key \in Keys : KeyStep(key)
  <2>1. \A t : DataKey(t) \in keys' => DataKey(t) \in keys
    BY <1>5, FilesChange DEF KeyStep, Upload
  <2>2. UNCHANGED <<sources, phase, compacted>>
    BY <1>5 DEF KeyStep
  <2> QED
    BY <2>1, <2>2 DEF Apart, Outputs
<1>6. CASE PhaseStep
  <2>1. UNCHANGED <<keys, compacted>>
    BY <1>6 DEF PhaseStep, bucket
  <2>2. CASE phase = "delete"
    <3>1. \A k \in sources : k \notin keys
      BY <1>0, <1>6, <2>2 DEF PhaseStep, Gone
    <3> QED
      BY <2>1, <3>1 DEF Apart, Outputs
  <2>3. CASE phase # "delete"
    BY <1>0, <1>6, <2>1, <2>3 DEF PhaseStep, Apart, Outputs
  <2> QED
    BY <2>2, <2>3
<1>7. CASE Close
  <2>1. phase = "read" /\ UNCHANGED <<keys, compacted>>
    BY <1>7 DEF Close, TypeInv, PhasesOk, bucket
  <2> QED
    BY <2>1 DEF Apart, Outputs
<1>8. CASE UNCHANGED <<keys, compacted, phase>> /\ sources \subseteq sources'
  BY <1>8 DEF Apart, Outputs
<1> QED
  BY <1>1, <1>2, <1>3, <1>4, <1>5, <1>6, <1>7, <1>8
     DEF Kinds, Open, Pass, SourcesWith, Read, vars, bucket

LEMMA DistinctKept ==
  ASSUME TypeInv, OrderInv, RowsOnce, Apart, Distinct, Kinds, Once'
  PROVE  Distinct'
<1>1. CASE UNCHANGED compacted
  BY <1>1 DEF Distinct
<1>2. CASE Put
  <2>1. phase = "upload" /\ compacted' = [compacted EXCEPT ![LatestSource] = acc.rows]
    BY <1>2 DEF Put
  <2>2. \A b \in Range(acc.rows) : DataKey(b[1]) \in keys
    <3>1. \A b : IsFile(DataKey(b[1]))
      BY DEF IsFile, DataKey
    <3> QED
      BY <2>1, <3>1, OutputAdded DEF OrderInv, FilesHere
  <2>3. Range(acc.rows) \cap Outputs = {}
    BY <2>1, <2>2 DEF Apart
  <2>4. \A t \in Times : Range(compacted[t]) \cap Range(acc.rows) = {}
    BY <2>3 DEF Outputs
  <2>5. \A t \in Times : compacted'[t] = IF t = LatestSource THEN acc.rows ELSE compacted[t]
    BY <2>1, OutputAdded
  <2> QED
    BY <2>4, <2>5 DEF Distinct, RowsOnce
<1>3. CASE EndStep
  BY <1>1, <1>3 DEF EndStep, Once
<1> QED
  BY <1>1, <1>2, <1>3
     DEF Kinds, Upload, Start, Open, Pass, Close, Read, KeyStep, PhaseStep, vars, bucket

LEMMA DoubledStep ==
  ASSUME RunInv, DoubledInv, [Next]_vars
  PROVE  DoubledInv'
<1>1. TypeInv /\ OrderInv /\ InOrder /\ Kinds /\ happened \subseteq happened'
  BY StepKinds DEF RunInv, OrderInv
<1>2. Once' => Once
  BY <1>1, FilesFrame DEF Once, config
<1> QED
  BY <1>1, <1>2, GoneKept, RowsOnceKept, ApartKept, DistinctKept DEF DoubledInv

LEMMA DoubledInvHolds == Spec => []DoubledInv
<1>1. ASSUME Init PROVE DoubledInv
  <2>1. Outputs = {} /\ \A t \in Times : compacted[t] = <<>>
    BY <1>1, EmptySequence DEF Init, Outputs
  <2>2. Apart /\ Distinct
    BY <2>1, EmptySequence DEF Apart, Distinct
  <2> QED
    BY <1>1, <2>2, EmptySequence DEF Init, DoubledInv, Gone, RowsOnce, Empty
<1> QED
  BY <1>1, DoubledStep, RunInvHolds, PTL DEF Spec

\* Between two runs that delete their originals no batch is in the bucket twice,
\* unless a failed upload was stored or a run stopped before its deletions:
\* every output holds each batch once, of files that are gone with it.
THEOREM NothingIsDoubled == Spec => []NothingDoubled
<1>1. DoubledInv => NothingDoubled
  BY DEF DoubledInv, NothingDoubled, Once, Apart, Distinct
<1> QED
  BY <1>1, DoubledInvHolds, PTL

-----------------------------------------------------------------------------
(* Plan mode and the run.                                                   *)

\* No batch of a file that the run has read was cut off.
Uncut == \A b \in cut : DataKey(b[1]) \notin listed \ remaining

FilesAgree == counts.files + Cardinality(Unread) = plan.files

RecordsAgree ==
  Uncut => /\ counts.records + Len(acc.rows) = Planned(plan)
           /\ deduplicate => acc.seen = plan.acc.seen

LEMMA UnreadFinite ==
  ASSUME TypeInv
  PROVE  IsFiniteSet(Unread)
<1>1. IsFiniteSet(Times) /\ IsFiniteSet(0 .. runs - 1)
  BY CompactorAssumption, FS_Interval DEF Times, TypeInv, KeysOk
<1>2. IsFiniteSet(uploaded)
  BY <1>1, FS_Subset DEF TypeInv, FilesOk
<1>3. IsFiniteSet(uploaded \X (0 .. runs - 1))
  BY <1>1, <1>2, FS_Product
<1>4. Unread \subseteq uploaded \X (0 .. runs - 1)
  BY RunKeys DEF Unread, TypeInv, KeysOk
<1> QED
  BY <1>3, <1>4, FS_Subset

LEMMA FilesAgreeKept ==
  ASSUME TypeInv, InOrder, FilesAgree, Kinds
  PROVE  FilesAgree'
<1>0. /\ IsFiniteSet(Unread) /\ Cardinality(Unread) \in Nat
      /\ counts \in Counts /\ counts.files \in Nat /\ plan \in Plans
  BY UnreadFinite, FS_CardinalityType DEF TypeInv, CountsOk, Counts
<1>1. ASSUME NEW key \in Unread, Unread' = Unread \ {key}, counts' = Processed(key),
             UNCHANGED plan
      PROVE  FilesAgree'
  <2>1. Cardinality(Unread') = Cardinality(Unread) - 1
    BY <1>0, <1>1, FS_RemoveElement
  <2>2. counts'.files = counts.files + 1
    BY <1>0, <1>1 DEF Processed, Counts
  <2> QED
    BY <1>0, <1>1, <2>1, <2>2 DEF FilesAgree
<1>2. CASE \E t \in Times : Start(t)
  <2>1. PICK t \in Times : Start(t)
    BY <1>2
  <2>2. PICK listing : listing = Uncompacted(IF checkpointing THEN checkpoint ELSE 0, t)
    OBVIOUS
  <2>3. PICK skipped \in SUBSET {k \in listing : HasMarker(k)} :
          /\ counts' = [NoCounts EXCEPT !.files = Cardinality(skipped),
                          !.last = IF skipped = {} THEN 0 ELSE Max({Time(k) : k \in skipped})]
          /\ remaining' = listing \ skipped
    BY <2>1, <2>2 DEF Start
  <2>4. /\ plan' = [NoPlan EXCEPT !.files = Cardinality(listing),
                                  !.last = Max({Time(k) : k \in listing})]
        /\ UNCHANGED file /\ file = NoFile
    BY <2>1, <2>2 DEF Start, TypeInv, PhasesOk, Reset
  <2>5. PICK l, ll : /\ l = IF skipped = {} THEN 0 ELSE Max({Time(k) : k \in skipped})
                     /\ ll = Max({Time(k) : k \in listing})
    OBVIOUS
  <2>6. counts'.files = Cardinality(skipped) /\ plan'.files = Cardinality(listing)
    BY <2>3, <2>4, <2>5 DEF NoCounts, NoPlan
  <2>7. IsFiniteSet(listing) /\ listing \in SUBSET keys
    <3>1. listing \in SUBSET keys
      BY <2>2 DEF Uncompacted
    <3> QED
      BY <3>1, LatestOf DEF TypeInv
  <2>8. /\ Cardinality(listing \ skipped) = Cardinality(listing) - Cardinality(skipped)
        /\ Cardinality(listing) \in Nat /\ Cardinality(skipped) \in Nat
    <3>1. listing \cap skipped = skipped /\ IsFiniteSet(skipped)
      BY <2>3, <2>7, FS_Subset
    <3> QED
      BY <2>7, <3>1, FS_Difference, FS_CardinalityType
  <2>9. Unread' = listing \ skipped
    BY <2>3, <2>4 DEF Unread, OpenKey
  <2> QED
    BY <2>6, <2>8, <2>9 DEF FilesAgree
<1>3. CASE \E key \in Keys : Open(key)
  <2>1. PICK key \in Keys : Open(key)
    BY <1>3
  <2>2. /\ key \in remaining /\ IsData(key) /\ file = NoFile /\ file' = Time(key)
        /\ remaining' = remaining \ {key} /\ UNCHANGED <<counts, plan>>
    BY <2>1 DEF Open, IsNext, history
  <2>3. key = DataKey(Time(key)) /\ Time(key) # NoFile
    BY <2>1, <2>2 DEF IsData, IsFile, DataKey, Time, Keys, Times, NoFile
  <2>4. Unread' = Unread
    BY <2>2, <2>3 DEF Unread, OpenKey
  <2> QED
    BY <2>2, <2>4 DEF FilesAgree
<1>4. CASE \E key \in Keys : Pass(key)
  <2>1. PICK key \in Keys : Pass(key)
    BY <1>4
  <2>2. /\ key \in Unread /\ Unread' = Unread \ {key} /\ counts' = Processed(key)
        /\ UNCHANGED plan
    BY <2>1 DEF Pass, IsNext, Unread, OpenKey, history
  <2> QED
    BY <1>1, <2>2
<1>5. CASE Close
  <2>1. PICK key : key = DataKey(file)
    OBVIOUS
  <2>2. /\ OpenKey = {key} /\ OpenKey' = {} /\ UNCHANGED <<remaining, plan>>
        /\ counts' = Processed(key)
    BY <1>5, <2>1 DEF Close, OpenKey, history
  <2>3. key \notin remaining
    BY <2>2, RunKeys, Ordered DEF InOrder
  <2>4. key \in Unread /\ Unread' = Unread \ {key}
    BY <2>2, <2>3 DEF Unread
  <2> QED
    BY <1>1, <2>2, <2>4
<1>6. CASE EndStep
  <2>1. Unread' = {} /\ counts' = NoCounts /\ plan' = NoPlan
    BY <1>6 DEF EndStep, Reset, Unread, OpenKey
  <2> QED
    BY <2>1, FS_EmptySet DEF FilesAgree, NoCounts, NoPlan
<1>7. CASE Read
  <2>1. PICK b : b = <<file, offset + 1>>
    OBVIOUS
  <2>2. b \in Batches /\ Row(b) \in Values
    BY <1>7, <2>1, NextBatch, RowType DEF TypeInv
  <2>3. plan' = PlanBatch(plan, b) /\ UNCHANGED <<counts, remaining, file>>
    BY <1>7, <2>1 DEF Read
  <2>4. plan'.files = plan.files
    BY <1>0, <2>2, <2>3, PlanEffect
  <2> QED
    BY <2>3, <2>4 DEF FilesAgree, Unread, OpenKey
<1>8. CASE Put
  <2>1. PICK r, d : r = Len(acc.rows) /\ d = acc.dups
    OBVIOUS
  <2>2. counts' = [counts EXCEPT !.records = @ + r, !.duplicates = @ + d, !.created = @ + 1]
    BY <1>8, <2>1 DEF Put
  <2>3. counts'.files = counts.files /\ UNCHANGED <<plan, remaining, file>>
    BY <1>0, <1>8, <2>2 DEF Put, Counts, reading
  <2> QED
    BY <2>3 DEF FilesAgree, Unread, OpenKey
<1>9. CASE UNCHANGED <<counts, plan, remaining, file>>
  BY <1>9 DEF FilesAgree, Unread, OpenKey
<1> QED
  BY <1>2, <1>3, <1>4, <1>5, <1>6, <1>7, <1>8, <1>9
     DEF Kinds, Upload, KeyStep, PhaseStep, vars, reading, history

LEMMA RecordsAgreeKept ==
  ASSUME TypeInv, InOrder, RecordsAgree, Kinds
  PROVE  RecordsAgree'
<1>0. /\ AccOk /\ counts \in Counts /\ plan \in Plans /\ UNCHANGED deduplicate
      /\ acc \in Accumulators /\ acc.rows \in Seq(Uploads)
      /\ counts.records \in Nat /\ Len(acc.rows) \in Nat
  BY FilesFrame DEF TypeInv, CountsOk, AccOk, Counts, config
<1>1. CASE /\ UNCHANGED <<acc, plan, cut>> /\ counts'.records = counts.records
           /\ listed \ remaining \subseteq listed' \ remaining'
  BY <1>0, <1>1 DEF RecordsAgree, Uncut, Planned
<1>2. ASSUME acc' = Empty, counts'.records = 0, plan'.records = 0, plan'.acc = Empty
      PROVE  RecordsAgree'
  BY <1>2, EmptySequence DEF RecordsAgree, Planned, Empty
<1>3. CASE \E t \in Times : Start(t)
  <2>1. PICK t \in Times : Start(t)
    BY <1>3
  <2>2. acc' = Empty /\ counts'.records = 0
    BY <2>1 DEF Start, NoCounts
  <2>3. plan'.records = 0 /\ plan'.acc = Empty
    BY <2>1 DEF Start, NoPlan
  <2> QED
    BY <1>2, <2>2, <2>3
<1>4. CASE EndStep
  BY <1>2, <1>4 DEF EndStep, Reset, NoCounts, NoPlan
<1>5. CASE Read
  <2>1. PICK b : b = <<file, offset + 1>>
    OBVIOUS
  <2>2. b \in Uploads /\ b \in Batches /\ Row(b) \in Values
    BY <1>5, <2>1, NextBatch, RowType DEF TypeInv
  <2>3. /\ acc' = ReadBatch(acc, b) /\ plan' = PlanBatch(plan, b)
        /\ cut' = (IF acc.full THEN cut \cup {b} ELSE cut)
        /\ UNCHANGED <<counts, listed, remaining>>
    BY <1>5, <2>1 DEF Read
  <2>4. DataKey(b[1]) \in listed \ remaining
    <3>1. DataKey(b[1]) \in listed /\ OpenKey = {DataKey(b[1])}
      BY <1>5, <2>1 DEF Read, TypeInv, PhasesOk, OpenKey
    <3> QED
      BY <3>1, RunKeys, Ordered DEF InOrder
  <2>5. CASE acc.full
    BY <2>3, <2>4, <2>5 DEF RecordsAgree, Uncut
  <2>6. CASE ~acc.full
    <3>1. SUFFICES ASSUME Uncut
                   PROVE  /\ counts.records + Len(acc'.rows) = Planned(plan')
                          /\ deduplicate => acc'.seen = plan'.acc.seen
      BY <1>0, <2>3, <2>6 DEF RecordsAgree, Uncut, Planned
    <3>2. /\ counts.records + Len(acc.rows) = Planned(plan)
          /\ deduplicate => acc.seen = plan.acc.seen
      BY <3>1 DEF RecordsAgree
    <3>3. AddedTo(acc', acc, b)
      BY <1>0, <2>2, <2>3, <2>6, ReadEffect
    <3>4. Len(Append(acc.rows, b)) = Len(acc.rows) + 1
      BY <1>0, <2>2, AppendRange
    <3>5. PICK p : p = plan'
      OBVIOUS
    <3>6. \/ /\ Planned(p) = Planned(plan) + 1
             /\ p.acc.seen = IF deduplicate THEN plan.acc.seen \cup {Row(b)} ELSE plan.acc.seen
             /\ deduplicate => Row(b) \notin plan.acc.seen
          \/ /\ deduplicate /\ Row(b) \in plan.acc.seen
             /\ Planned(p) = Planned(plan) /\ p.acc.seen = plan.acc.seen
      BY <1>0, <2>2, <2>3, <3>5, PlanEffect
    <3>7. CASE deduplicate /\ Row(b) \in acc.seen
      <4>1. acc'.rows = acc.rows /\ acc'.seen = acc.seen
        BY <3>3, <3>7 DEF AddedTo
      <4>2. Planned(p) = Planned(plan) /\ p.acc.seen = plan.acc.seen
        BY <3>2, <3>6, <3>7
      <4> QED
        BY <3>2, <3>5, <4>1, <4>2 DEF Planned
    <3>8. CASE ~(deduplicate /\ Row(b) \in acc.seen)
      <4>1. /\ acc'.rows = Append(acc.rows, b)
            /\ deduplicate => acc'.seen = acc.seen \cup {Row(b)}
        BY <3>3, <3>8 DEF AddedTo
      <4>2. /\ Planned(p) = Planned(plan) + 1
            /\ deduplicate => p.acc.seen = plan.acc.seen \cup {Row(b)}
        BY <3>2, <3>6, <3>8
      <4>3. counts.records + Len(acc'.rows) = Planned(p)
        BY <1>0, <3>2, <3>4, <4>1, <4>2
      <4> QED
        BY <3>2, <3>5, <4>1, <4>2, <4>3 DEF Planned
    <3> QED
      BY <3>7, <3>8
  <2> QED
    BY <2>5, <2>6
<1>6. CASE Put
  <2>1. PICK r, d : r = Len(acc.rows) /\ d = acc.dups
    OBVIOUS
  <2>2. counts' = [counts EXCEPT !.records = @ + r, !.duplicates = @ + d, !.created = @ + 1]
    BY <1>6, <2>1 DEF Put
  <2>3. counts'.records = counts.records + Len(acc.rows) /\ UNCHANGED <<plan, cut, listed, remaining>>
    BY <1>0, <1>6, <2>1, <2>2 DEF Put, Counts, reading
  <2>4. acc'.rows = <<>> /\ acc'.seen = acc.seen
    BY <1>0, <1>6, TakenEffect DEF Put
  <2>5. counts'.records + Len(acc'.rows) = counts.records + Len(acc.rows)
    BY <1>0, <2>3, <2>4, EmptySequence
  <2> QED
    BY <1>0, <2>3, <2>4, <2>5 DEF RecordsAgree, Uncut, Planned
<1>7. CASE \E key \in Keys : Pass(key)
  <2>1. PICK key \in Keys : Pass(key)
    BY <1>7
  <2>2. listed' = listed \ {key} /\ remaining' = remaining \ {key}
    BY <2>1 DEF Pass
  <2>3. counts'.records = counts.records /\ UNCHANGED <<acc, plan, cut>>
    BY <1>0, <2>1 DEF Pass, Processed, Counts
  <2>4. key \in remaining
    BY <2>1 DEF Pass, IsNext
  <2> QED
    BY <1>1, <2>2, <2>3, <2>4
<1>8. CASE Close
  <2>1. counts'.records = counts.records /\ UNCHANGED <<acc, plan, cut, listed, remaining>>
    BY <1>0, <1>8 DEF Close, Processed, Counts, history
  <2> QED
    BY <1>1, <2>1
<1>9. CASE \E key \in Keys : Open(key)
  <2>1. remaining' \subseteq remaining /\ UNCHANGED <<counts, acc, plan, cut, listed>>
    BY <1>9 DEF Open, history
  <2> QED
    BY <1>1, <2>1
<1> QED
  BY <1>1, <1>3, <1>4, <1>5, <1>6, <1>7, <1>8, <1>9
     DEF Kinds, Upload, KeyStep, PhaseStep, vars, reading, history

LEMMA PlanInvHolds == Spec => [](RunInv /\ FilesAgree /\ RecordsAgree)
<1>1. ASSUME Init PROVE FilesAgree /\ RecordsAgree
  <2>1. Unread = {}
    BY <1>1 DEF Init, Unread, OpenKey
  <2> QED
    BY <1>1, <2>1, FS_EmptySet, EmptySequence
       DEF Init, FilesAgree, RecordsAgree, Planned, Empty, NoCounts, NoPlan
<1>2. ASSUME RunInv, FilesAgree, RecordsAgree, [Next]_vars
      PROVE  FilesAgree' /\ RecordsAgree'
  BY <1>2, StepKinds, FilesAgreeKept, RecordsAgreeKept DEF RunInv, OrderInv
<1> QED
  BY <1>1, <1>2, RunInvHolds, PTL DEF Spec

\* Plan mode says how many records a run writes and how many files it goes
\* through, when no batch of a file of the run was cut off at the size limit: it
\* settles its outputs elsewhere, but drops the same rows.
THEOREM PlanIsRight == Spec => []PlanAgreesUncut
<1>1. ASSUME RunInv, FilesAgree, RecordsAgree, Done, Uncut PROVE Agrees
  <2>1. Unread = {} /\ Len(acc.rows) = 0
    BY <1>1, EmptySequence DEF Done, Unread, OpenKey
  <2>2. /\ counts.files \in Nat /\ counts.records \in Nat /\ plan \in Plans
        /\ plan.acc \in Accumulators
    BY <1>1 DEF RunInv, TypeInv, CountsOk, Counts, Plans
  <2>3. counts.files = plan.files
    BY <1>1, <2>1, <2>2, FS_EmptySet DEF FilesAgree
  <2>4. counts.records = Planned(plan)
    BY <1>1, <2>1, <2>2 DEF RecordsAgree
  <2>5. Planned(plan) = PlanEnd(plan).records
    <3>1. CASE plan.acc.rows = <<>>
      BY <2>2, <3>1, EmptySequence DEF PlanEnd, Planned, Plans
    <3>2. CASE plan.acc.rows # <<>>
      BY <2>2, <3>2, SettledEffect DEF PlanEnd, Planned
    <3> QED
      BY <3>1, <3>2
  <2> QED
    BY <2>3, <2>4, <2>5 DEF Agrees
<1>2. RunInv /\ FilesAgree /\ RecordsAgree => PlanAgreesUncut
  BY <1>1 DEF PlanAgreesUncut, Uncut, Done
<1> QED
  BY <1>2, PlanInvHolds, PTL
=============================================================================
