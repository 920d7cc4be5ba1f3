-------------------------- MODULE IcebergStreamProofs --------------------------
(***************************************************************************)
(* Facts about IcebergStream for all its constants: the scans of two       *)
(* windows fit together, the checkpoint covers only what was processed,    *)
(* and, where no commit leaves a part of a manifest behind, compaction     *)
(* keeps what readers see.                                                 *)
(***************************************************************************)
EXTENDS IcebergStream, FiniteSetTheorems, TLAPS

NewFile == [part : Partitions, rows : [Rows -> Nat]]
File == [seq : Nat, part : Partitions, rows : [Rows -> Nat]]
Snapshot == [op : {"append", "replace"}, files : SUBSET File]

\* The rows of f are all of its partition.
InPartition(f) == f.rows = OfPartitions(f.rows, {f.part}) /\ f.rows # NoRows

\* Each row of bag is in one of the files F.
Spreads(F, bag) ==
  \A r \in Rows :
    \/ bag[r] = 0 /\ \A f \in F : f.rows[r] = 0
    \/ \E g \in F : g.rows[r] = bag[r] /\ \A f \in F \ {g} : f.rows[r] = 0

\* The new files as the snapshot n names them.
Stamped(new, n) == {[seq |-> n, part |-> f.part, rows |-> f.rows] : f \in new}

(***************************************************************************)
(* The invariant of the table.                                             *)
(***************************************************************************)

FilesTyped ==
  \A s \in 1..Current :
    /\ IsFiniteSet(snaps[s].files)
    /\ \A f \in snaps[s].files : f.seq \in 1..s /\ InPartition(f)

\* A file is in each snapshot from the one that added it to the last that
\* has it.
FilesLast ==
  \A s \in 1..Current : \A f \in snaps[s].files : \A t \in f.seq..s : f \in snaps[t].files

\* Appends take no file away.
AppendsKeep ==
  \A a, t \in 0..Current : (a <= t /\ Replaces(a, t) = {}) => FilesOf(a) \subseteq FilesOf(t)

\* An append adds a row in one file, and there once.
AppendsOnce ==
  \A s \in 1..Current : snaps[s].op = "append" =>
    \A f \in snaps[s].files : f.seq = s =>
      \A r \in Rows : f.rows[r] > 0 =>
        /\ f.rows[r] = 1
        /\ \A g \in snaps[s].files : (g.seq = s /\ g.rows[r] > 0) => g = f

TableInv ==
  /\ faults \in 0..MaxFaults /\ snaps \in Seq(Snapshot)
  /\ FilesTyped /\ FilesLast /\ AppendsKeep /\ AppendsOnce

(***************************************************************************)
(* The compactors.                                                         *)
(***************************************************************************)

Job == [at : {"idle", "commit", "reload"}, base : Nat, old : SUBSET File,
        new : SUBSET NewFile, tries : 0..MaxCommitRetries]

\* A job's new files hold what its old ones do, or one row of each key.
JobsOk ==
  /\ job \in [Compactors -> Job] /\ splits \in 0..MaxSplits
  /\ \A k \in Compactors :
       /\ job[k].base \in 0..Current /\ job[k].old \subseteq FilesOf(job[k].base)
       /\ job[k].at = "idle" <=> job[k] = Idle
       /\ IsFiniteSet(job[k].new) /\ \A f \in job[k].new : InPartition(f)
       /\ job[k].at # "idle" =>
            \E bag \in Outputs(k, Content(job[k].old)) : Spreads(job[k].new, bag)

(***************************************************************************)
(* The poller and its consumer.                                            *)
(***************************************************************************)

Stream == [at : {"none", "sent", "processed", "acked", "dropped"}, snap : Nat,
           rows : [Rows -> Nat]]

Covered(s) == \A r \in Untouched(s) : processed[r] > 0

PollerTyped ==
  /\ last \in 0..Current /\ saved \in 0..Current
  /\ stream \in Stream /\ stream.snap \in 0..Current
  /\ server \in {"running", "ended"} /\ receiver \in BOOLEAN /\ redone \in BOOLEAN
  /\ processed \in [Rows -> Nat]

\* The poller's checkpoint is not ahead of the consumer's, and a stream
\* holds what its checkpoint lacks.
PollerOk ==
  /\ PollerTyped
  /\ last <= saved
  /\ stream.at # "none" => last <= stream.snap
  /\ stream.at = "acked" => saved = stream.snap
  /\ Covered(last) /\ Covered(saved)
  /\ stream.at \in {"processed", "acked"} => Covered(stream.snap)
  /\ stream.at = "sent" =>
       \A r \in Untouched(stream.snap) : processed[r] > 0 \/ stream.rows[r] > 0

StreamInv == TableInv /\ JobsOk /\ PollerOk

(***************************************************************************)
(* Where compactions take whole manifests.                                 *)
(***************************************************************************)

\* No commit is about to replace a part of the files of a manifest.
WholeManifests ==
  \A k \in Compactors :
    (job[k].at = "commit" /\ job[k].base = Current) =>
      \A f \in job[k].old : Manifest(f) \subseteq job[k].old

\* The snapshot up to which the rows were processed or sent.
Reached == IF stream.at = "none" THEN last ELSE stream.snap
InStream(r) == IF stream.at = "sent" THEN stream.rows[r] ELSE 0

\* Readers see no row more often than it was appended.
SeenOnce == \A r \in Rows : Content(FilesOf(Current))[r] <= Appends(r, 1..Current)

\* Nor does the consumer, who has had the rows up to the checkpoint and no
\* others.
ConsumedOnce ==
  ~redone =>
    /\ stream.at # "dropped"
    /\ stream.at # "acked" => last = saved
    /\ \A r \in Rows : processed[r] + InStream(r) <= Appends(r, 1..Reached)

\* A table without partitions.
Unpartitioned == \A r, s \in Rows : PartitionOf[r] = PartitionOf[s]

\* There a compaction takes all the files of a snapshot.
OldIsAll ==
  \A k \in Compactors :
    job[k].at # "idle" => \E p \in 0..Current : job[k].old = FilesOf(p)

-----------------------------------------------------------------------------
(* Counting the copies of a row.                                           *)

\* A file holds finitely many copies, and so do finitely many files.
LEMMA CopiesFinite ==
  ASSUME NEW F, IsFiniteSet(F), NEW r, \A f \in F : f.rows[r] \in Nat
  PROVE  IsFiniteSet(Copies(F, r)) /\ Cardinality(Copies(F, r)) \in Nat
<1> DEFINE ofFile(f) == {f} \X (1..f.rows[r])
           parts == {ofFile(f) : f \in F}
           h == [f \in F |-> ofFile(f)]
<1>1. h \in Surjection(F, parts)
  BY DEF Surjection
<1>2. IsFiniteSet(parts)
  BY <1>1, FS_Surjection
<1>3. \A T \in parts : IsFiniteSet(T)
  <2> SUFFICES ASSUME NEW f \in F PROVE IsFiniteSet(ofFile(f))
    OBVIOUS
  <2>1. IsFiniteSet({f})
    BY FS_Singleton
  <2>2. IsFiniteSet(1..f.rows[r])
    BY FS_Interval
  <2> QED
    BY <2>1, <2>2, FS_Product
<1>4. IsFiniteSet(UNION parts)
  BY <1>2, <1>3, FS_UNION
<1>5. Copies(F, r) = UNION parts
  BY DEF Copies
<1> QED
  BY <1>4, <1>5, FS_CardinalityType

LEMMA CopiesMember ==
  ASSUME NEW F, NEW r
  PROVE  /\ \A c \in Copies(F, r) : c[1] \in F /\ c[2] \in 1..c[1].rows[r] /\ c = <<c[1], c[2]>>
         /\ \A f \in F : \A i \in 1..f.rows[r] : <<f, i>> \in Copies(F, r)
  BY DEF Copies

\* Files without the row hold no copy of it.
LEMMA NoCopies ==
  ASSUME NEW F, NEW r, \A f \in F : f.rows[r] \in Nat
  PROVE  /\ (\A f \in F : f.rows[r] = 0) => Copies(F, r) = {} /\ Cardinality(Copies(F, r)) = 0
         /\ \A f \in F : f.rows[r] > 0 => Copies(F, r) # {}
<1>1. (\A f \in F : f.rows[r] = 0) => Copies(F, r) = {}
  BY CopiesMember
<1>2. ASSUME NEW f \in F, f.rows[r] > 0
      PROVE  Copies(F, r) # {}
  <2>1. 1 \in 1..f.rows[r]
    BY <1>2
  <2> QED
    BY <2>1, CopiesMember
<1> QED
  BY <1>1, <1>2, FS_EmptySet

\* Where one file holds the row, the copies are that file's.
LEMMA CopiesOfOne ==
  ASSUME NEW F, NEW r, \A f \in F : f.rows[r] \in Nat,
         NEW g \in F, \A f \in F \ {g} : f.rows[r] = 0
  PROVE  Cardinality(Copies(F, r)) = g.rows[r]
<1>1. Copies(F, r) = {g} \X (1..g.rows[r])
  <2>1. \A f \in F \ {g} : {f} \X (1..f.rows[r]) = {}
    OBVIOUS
  <2> QED
    BY <2>1 DEF Copies
<1>2. IsFiniteSet({g}) /\ Cardinality({g}) = 1
  BY FS_Singleton
<1>3. IsFiniteSet(1..g.rows[r]) /\ Cardinality(1..g.rows[r]) = g.rows[r]
  <2>1. \A n \in Nat : IsFiniteSet(1..n) /\ Cardinality(1..n) = n
    <3> SUFFICES ASSUME NEW n \in Nat PROVE IsFiniteSet(1..n) /\ Cardinality(1..n) = n
      OBVIOUS
    <3>1. IsFiniteSet(1..n) /\ Cardinality(1..n) = IF 1 > n THEN 0 ELSE n - 1 + 1
      BY FS_Interval
    <3> QED
      BY <3>1
  <2> QED
    BY <2>1
<1>4. Cardinality(Copies(F, r)) = 1 * g.rows[r]
  <2>1. Cardinality({g} \X (1..g.rows[r])) = Cardinality({g}) * Cardinality(1..g.rows[r])
    BY <1>2, <1>3, FS_Product
  <2> QED
    BY <1>1, <1>2, <1>3, <2>1
<1>5. g.rows[r] \in Nat
  OBVIOUS
<1> QED
  BY <1>4, <1>5

\* The copies of two disjoint sets of files add up; fewer files hold fewer.
LEMMA CopiesAdd ==
  ASSUME NEW F, IsFiniteSet(F), NEW G, IsFiniteSet(G), F \cap G = {},
         NEW r, \A f \in F \cup G : f.rows[r] \in Nat
  PROVE  Cardinality(Copies(F \cup G, r)) = Cardinality(Copies(F, r)) + Cardinality(Copies(G, r))
<1>1. Copies(F \cup G, r) = Copies(F, r) \cup Copies(G, r)
  BY DEF Copies
<1>2. Copies(F, r) \cap Copies(G, r) = {}
  BY CopiesMember
<1>3. IsFiniteSet(Copies(F, r)) /\ Cardinality(Copies(F, r)) \in Nat
      /\ IsFiniteSet(Copies(G, r)) /\ Cardinality(Copies(G, r)) \in Nat
  BY CopiesFinite
<1>4. Cardinality(Copies(F, r) \cap Copies(G, r)) = 0
  BY <1>2, FS_EmptySet
<1>5. \A a, b \in Nat : a + b - 0 = a + b
  OBVIOUS
<1>6. Cardinality(Copies(F, r) \cup Copies(G, r))
        = Cardinality(Copies(F, r)) + Cardinality(Copies(G, r)) - Cardinality(Copies(F, r) \cap Copies(G, r))
  BY <1>3, FS_Union
<1> QED
  BY <1>1, <1>3, <1>4, <1>5, <1>6, Zenon

LEMMA CopiesFewer ==
  ASSUME NEW F, IsFiniteSet(F), NEW G, G \subseteq F,
         NEW r, \A f \in F : f.rows[r] \in Nat
  PROVE  Cardinality(Copies(G, r)) <= Cardinality(Copies(F, r))
<1>1. Copies(G, r) \subseteq Copies(F, r)
  BY DEF Copies
<1> QED
  BY <1>1, CopiesFinite, FS_Subset

\* Files that spread a bag hold what is in it, under whatever number.
LEMMA SpreadContent ==
  ASSUME NEW F, IsFiniteSet(F), NEW bag \in [Rows -> Nat], Spreads(F, bag),
         \A f \in F : f.rows \in [Rows -> Nat]
  PROVE  \A r \in Rows : Cardinality(Copies(F, r)) = bag[r]
<1> SUFFICES ASSUME NEW r \in Rows PROVE Cardinality(Copies(F, r)) = bag[r]
  OBVIOUS
<1>0. \A f \in F : f.rows[r] \in Nat
  OBVIOUS
<1>1. CASE bag[r] = 0 /\ \A f \in F : f.rows[r] = 0
  BY <1>0, <1>1, NoCopies
<1>2. CASE \E g \in F : g.rows[r] = bag[r] /\ \A f \in F \ {g} : f.rows[r] = 0
  BY <1>0, <1>2, CopiesOfOne
<1> QED
  BY <1>1, <1>2 DEF Spreads

LEMMA StampedSpread ==
  ASSUME NEW new \in SUBSET NewFile, IsFiniteSet(new), NEW bag, Spreads(new, bag), NEW n \in Nat
  PROVE  Spreads(Stamped(new, n), bag)
<1>1. \A f \in new : [seq |-> n, part |-> f.part, rows |-> f.rows] \in Stamped(new, n)
  BY DEF Stamped
<1>2. \A g \in Stamped(new, n) : \E f \in new : g = [seq |-> n, part |-> f.part, rows |-> f.rows]
  BY DEF Stamped
<1> SUFFICES ASSUME NEW r \in Rows
             PROVE  \/ bag[r] = 0 /\ \A f \in Stamped(new, n) : f.rows[r] = 0
                    \/ \E g \in Stamped(new, n) :
                         g.rows[r] = bag[r] /\ \A f \in Stamped(new, n) \ {g} : f.rows[r] = 0
  BY DEF Spreads
<1>3. CASE bag[r] = 0 /\ \A f \in new : f.rows[r] = 0
  BY <1>2, <1>3
<1>4. CASE \E g \in new : g.rows[r] = bag[r] /\ \A f \in new \ {g} : f.rows[r] = 0
  <2>1. PICK g \in new : g.rows[r] = bag[r] /\ \A f \in new \ {g} : f.rows[r] = 0
    BY <1>4
  <2> DEFINE h == [seq |-> n, part |-> g.part, rows |-> g.rows]
  <2>2. h \in Stamped(new, n) /\ h.rows[r] = bag[r]
    BY <1>1, <2>1
  <2>3. \A f \in Stamped(new, n) \ {h} : f.rows[r] = 0
    BY <1>2, <2>1
  <2> QED
    BY <2>2, <2>3
<1> QED
  BY <1>3, <1>4 DEF Spreads

LEMMA StampedTyped ==
  ASSUME NEW new \in SUBSET NewFile, IsFiniteSet(new), NEW n \in Nat
  PROVE  /\ IsFiniteSet(Stamped(new, n)) /\ Stamped(new, n) \in SUBSET File
         /\ \A g \in Stamped(new, n) : g.seq = n
         /\ (\A f \in new : InPartition(f)) => \A g \in Stamped(new, n) : InPartition(g)
<1> DEFINE stamp == [f \in new |-> [seq |-> n, part |-> f.part, rows |-> f.rows]]
<1>1. stamp \in Surjection(new, Stamped(new, n))
  BY DEF Surjection, Stamped
<1>2. IsFiniteSet(Stamped(new, n))
  BY <1>1, FS_Surjection
<1>3. Stamped(new, n) \in SUBSET File
  BY DEF Stamped, File, NewFile
<1> QED
  BY <1>2, <1>3 DEF Stamped, InPartition

-----------------------------------------------------------------------------
(* The table.                                                              *)

LEMMA CommitFacts ==
  ASSUME snaps \in Seq(Snapshot), NEW op \in {"append", "replace"},
         NEW kept \in SUBSET File, NEW new \in SUBSET NewFile, IsFiniteSet(new),
         AddSnapshot(op, kept, new)
  PROVE  /\ Current \in Nat /\ Current' = Current + 1
         /\ snaps' \in Seq(Snapshot)
         /\ \A s \in 1..Current : snaps'[s] = snaps[s]
         /\ snaps'[Current'].op = op
         /\ snaps'[Current'].files = kept \cup Stamped(new, Current')
         /\ \A s \in 0..Current : FilesOf(s)' = FilesOf(s)
<1> DEFINE e == [op |-> op, files |-> kept \cup Stamped(new, Current + 1)]
<1>0. Current \in Nat
  BY DEF Current
<1>1. e \in Snapshot
  BY <1>0, StampedTyped DEF Snapshot
<1>2. snaps' = Append(snaps, e)
  BY DEF AddSnapshot, Stamped
<1>3. e.op = op /\ e.files = kept \cup Stamped(new, Current + 1)
  OBVIOUS
<1> HIDE DEF e
<1>4. /\ Len(snaps') = Len(snaps) + 1 /\ snaps' \in Seq(Snapshot)
      /\ \A s \in 1..Len(snaps) : snaps'[s] = snaps[s]
      /\ snaps'[Len(snaps) + 1] = e
  BY <1>1, <1>2
<1>5. \A s \in 0..Current : FilesOf(s)' = FilesOf(s)
  BY <1>4 DEF FilesOf, Current
<1> QED
  BY <1>0, <1>3, <1>4, <1>5 DEF Current

LEMMA FilesFacts ==
  ASSUME TableInv, NEW s \in 0..Current
  PROVE  /\ Current \in Nat
         /\ FilesOf(s) \in SUBSET File /\ IsFiniteSet(FilesOf(s))
         /\ \A f \in FilesOf(s) : f.seq \in 1..s /\ InPartition(f) /\ f.rows \in [Rows -> Nat]
<1>0. Current \in Nat /\ snaps \in Seq(Snapshot)
  BY DEF TableInv, Current
<1>1. CASE s = 0
  BY <1>0, <1>1, FS_EmptySet DEF FilesOf
<1>2. CASE s # 0
  <2>1. snaps[s] \in Snapshot /\ s \in 1..Current
    BY <1>0, <1>2 DEF Current
  <2>2. FilesOf(s) \in SUBSET File
    BY <1>2, <2>1 DEF FilesOf, Snapshot
  <2>3. \A f \in FilesOf(s) : f.rows \in [Rows -> Nat]
    BY <2>2 DEF File
  <2> QED
    BY <1>0, <1>2, <2>1, <2>2, <2>3 DEF FilesOf, TableInv, FilesTyped
<1> QED
  BY <1>1, <1>2

LEMMA CommitKeeps ==
  ASSUME TableInv, NEW op \in {"append", "replace"},
         NEW kept \in SUBSET FilesOf(Current),
         NEW new \in SUBSET NewFile, IsFiniteSet(new), \A f \in new : InPartition(f),
         op = "append" => /\ kept = FilesOf(Current)
                          /\ \E bag \in [Rows -> 0..1] : Spreads(new, bag),
         AddSnapshot(op, kept, new), faults' \in 0..MaxFaults
  PROVE  TableInv'
<1>0. Current \in Nat /\ snaps \in Seq(Snapshot)
  BY DEF TableInv, Current
<1>n. PICK n \in Nat : n = Current + 1
  BY <1>0
<1> DEFINE added == Stamped(new, n)
<1>1. /\ FilesOf(Current) \in SUBSET File /\ IsFiniteSet(FilesOf(Current))
      /\ \A f \in FilesOf(Current) : f.seq \in 1..Current /\ InPartition(f)
  <2>1. Current \in 0..Current
    BY <1>0
  <2> QED
    BY <2>1, FilesFacts
<1>2. kept \in SUBSET File /\ IsFiniteSet(kept)
      /\ \A f \in kept : f.seq \in 1..Current /\ InPartition(f)
  BY <1>1, FS_Subset
<1>3. IsFiniteSet(added) /\ added \in SUBSET File /\ \A g \in added : g.seq = n /\ InPartition(g)
  BY <1>0, <1>n, StampedTyped
<1>4. /\ Current' = n /\ snaps' \in Seq(Snapshot)
      /\ \A s \in 1..Current : snaps'[s] = snaps[s]
      /\ snaps'[n].op = op /\ snaps'[n].files = kept \cup added
      /\ \A s \in 0..Current : FilesOf(s)' = FilesOf(s)
  BY <1>0, <1>n, <1>2, <1>n, CommitFacts
<1>5. FilesOf(n)' = kept \cup added
  BY <1>0, <1>n, <1>4 DEF FilesOf
<1>6. FilesTyped'
  <2>1. IsFiniteSet(kept \cup added)
    BY <1>2, <1>3, FS_Union
  <2> SUFFICES ASSUME NEW s \in 1..n
               PROVE  IsFiniteSet(snaps'[s].files)
                      /\ \A f \in snaps'[s].files : f.seq \in 1..s /\ InPartition(f)
    BY <1>4 DEF FilesTyped, InPartition, NoRows, OfPartitions
  <2> HIDE DEF added
  <2>2. CASE s = n
    <3>1. \A f \in kept \cup added : f.seq \in 1..n /\ InPartition(f)
      BY <1>0, <1>n, <1>2, <1>3
    <3> QED
      BY <1>4, <2>1, <2>2, <3>1
  <2>3. CASE s \in 1..Current
    BY <1>4, <2>3 DEF TableInv, FilesTyped
  <2> QED
    BY <1>0, <1>n, <2>2, <2>3
<1> HIDE DEF added
<1>7. FilesLast'
  <2> SUFFICES ASSUME NEW s \in 1..n, NEW f \in snaps'[s].files, NEW t \in f.seq..s
               PROVE  f \in snaps'[t].files
    BY <1>4 DEF FilesLast
  <2>1. CASE s \in 1..Current
    <3>1. f.seq \in 1..s
      BY <1>4, <2>1 DEF TableInv, FilesTyped
    <3>2. t \in 1..Current
      BY <1>0, <1>n, <2>1, <3>1
    <3> QED
      BY <1>4, <2>1, <3>2 DEF TableInv, FilesLast
  <2>2. CASE s = n /\ f \in added
    BY <1>0, <1>n, <1>3, <1>4, <2>2
  <2>3. CASE s = n /\ f \in kept
    <3>1. f.seq \in 1..Current /\ Current # 0 /\ f \in snaps[Current].files
      BY <1>1, <2>3 DEF FilesOf
    <3>2. t = n \/ t \in f.seq..Current
      BY <1>0, <1>n, <2>3, <3>1
    <3>3. CASE t \in f.seq..Current
      <4>1. f \in snaps[t].files /\ t \in 1..Current
        BY <1>0, <1>n, <3>1, <3>3 DEF TableInv, FilesLast
      <4> QED
        BY <1>4, <4>1
    <3> QED
      BY <1>4, <2>3, <3>2, <3>3
  <2> QED
    BY <1>0, <1>n, <1>4, <2>1, <2>2, <2>3
<1>8. AppendsKeep'
  <2>0. \A a \in 0..Current, t \in 0..Current : Replaces(a, t)' = Replaces(a, t)
    BY <1>0, <1>n, <1>4 DEF Replaces
  <2> SUFFICES ASSUME NEW a \in 0..n, NEW t \in 0..n, a <= t, Replaces(a, t)' = {}
               PROVE  FilesOf(a)' \subseteq FilesOf(t)'
    BY <1>4 DEF AppendsKeep
  <2>1. CASE t \in 0..Current
    BY <1>0, <1>n, <1>4, <2>0, <2>1 DEF TableInv, AppendsKeep
  <2>2. CASE t = n /\ a \in 0..Current
    <3>1. op = "append"
      <4>1. n \in a+1..t
        BY <1>0, <1>n, <2>2
      <4> QED
        BY <1>4, <2>2, <4>1 DEF Replaces
    <3>2. Replaces(a, Current) = {}
      <4>1. \A s \in a+1..Current : s \in a+1..t /\ snaps'[s].op = snaps[s].op
        BY <1>0, <1>n, <1>4, <2>2
      <4> QED
        BY <4>1 DEF Replaces
    <3>3. FilesOf(a) \subseteq FilesOf(Current)
      BY <1>0, <1>n, <2>2, <3>2 DEF TableInv, AppendsKeep
    <3> QED
      BY <1>4, <1>5, <2>2, <3>1, <3>3
  <2> QED
    BY <1>0, <1>n, <2>1, <2>2
<1>9. AppendsOnce'
  <2> SUFFICES ASSUME NEW s \in 1..n, snaps'[s].op = "append",
                      NEW f \in snaps'[s].files, f.seq = s, NEW r \in Rows, f.rows[r] > 0
               PROVE  /\ f.rows[r] = 1
                      /\ \A g \in snaps'[s].files : (g.seq = s /\ g.rows[r] > 0) => g = f
    BY <1>4 DEF AppendsOnce
  <2>1. CASE s \in 1..Current
    BY <1>4, <2>1 DEF TableInv, AppendsOnce
  <2>2. CASE s = n
    <3>1. PICK bag \in [Rows -> 0..1] : Spreads(new, bag)
      BY <1>4, <2>2
    <3>2. Spreads(added, bag)
      BY <1>0, <1>n, <3>1, StampedSpread DEF added
    <3>3. f \in added /\ \A g \in snaps'[s].files : g.seq = s => g \in added
      BY <1>0, <1>n, <1>2, <1>4, <2>2
    <3>4. \A g \in added : g.rows \in [Rows -> Nat]
      BY <1>3 DEF File
    <3>5. PICK h \in added : h.rows[r] = bag[r] /\ \A g \in added \ {h} : g.rows[r] = 0
      BY <3>2, <3>3 DEF Spreads
    <3>6. \A g \in added : g.rows[r] > 0 => g = h
      BY <3>5
    <3> QED
      BY <3>3, <3>4, <3>5, <3>6
  <2> QED
    BY <1>0, <1>n, <2>1, <2>2
<1> QED
  BY <1>4, <1>6, <1>7, <1>8, <1>9 DEF TableInv

-----------------------------------------------------------------------------
(* Scans.                                                                  *)

LEMMA ScanFacts ==
  ASSUME TableInv, NEW a \in 0..Current, NEW t \in a..Current
  PROVE  /\ ScanRange(a, t) \in SUBSET File /\ IsFiniteSet(ScanRange(a, t))
         /\ ScanRange(a, t) \subseteq FilesOf(t)
         /\ \A f \in ScanRange(a, t) : /\ f.seq \in a+1..t /\ snaps[f.seq].op = "append"
                                       /\ f \in snaps[f.seq].files
<1>1. t \in 0..Current /\ Current \in Nat
  BY DEF TableInv, Current
<1>2. /\ FilesOf(t) \in SUBSET File /\ IsFiniteSet(FilesOf(t))
      /\ \A f \in FilesOf(t) : f.seq \in 1..t
  BY <1>1, FilesFacts
<1>3. ScanRange(a, t) \subseteq FilesOf(t)
  BY DEF ScanRange
<1>4. ASSUME NEW f \in ScanRange(a, t)
      PROVE  f.seq \in a+1..t /\ snaps[f.seq].op = "append" /\ f \in snaps[f.seq].files
  <2>1. f \in FilesOf(t) /\ f.seq \in a+1..t /\ f.seq \notin Replaces(a, t)
    BY DEF ScanRange
  <2>2. f.seq \in 1..Current /\ t \in 1..Current /\ f \in snaps[t].files
    BY <1>1, <2>1 DEF FilesOf
  <2>3. f \in snaps[f.seq].files
    <3>1. f.seq \in f.seq..t
      BY <2>1
    <3> QED
      BY <2>2, <3>1 DEF TableInv, FilesLast
  <2>4. snaps[f.seq].op \in {"append", "replace"}
    <3>1. snaps[f.seq] \in Snapshot
      BY <2>2 DEF TableInv, Current
    <3> QED
      BY <3>1 DEF Snapshot
  <2> QED
    BY <2>1, <2>3, <2>4 DEF Replaces
<1>5. IsFiniteSet(ScanRange(a, t))
  BY <1>2, <1>3, FS_Subset
<1> QED
  BY <1>2, <1>3, <1>4, <1>5

\* The snapshots of a window that append a row.
AppendsOf(r, window) ==
  {s \in window : /\ snaps[s].op = "append"
                  /\ \E f \in snaps[s].files : f.seq = s /\ f.rows[r] > 0}

LEMMA AppendsFacts ==
  ASSUME NEW r, NEW a \in Nat, NEW b \in Nat
  PROVE  /\ Appends(r, a+1..b) = Cardinality(AppendsOf(r, a+1..b))
         /\ IsFiniteSet(AppendsOf(r, a+1..b)) /\ Appends(r, a+1..b) \in Nat
<1>1. IsFiniteSet(a+1..b)
  BY FS_Interval
<1>2. AppendsOf(r, a+1..b) \subseteq a+1..b
  BY DEF AppendsOf
<1>3. IsFiniteSet(AppendsOf(r, a+1..b))
  BY <1>1, <1>2, FS_Subset
<1> QED
  BY <1>3, FS_CardinalityType DEF Appends, AppendsOf

\* Windows that meet add up.
LEMMA AppendsAdd ==
  ASSUME NEW r, NEW a \in Nat, NEW b \in Nat, NEW c \in Nat, a <= b, b <= c
  PROVE  Appends(r, a+1..c) = Appends(r, a+1..b) + Appends(r, b+1..c)
<1>1. AppendsOf(r, a+1..c) = AppendsOf(r, a+1..b) \cup AppendsOf(r, b+1..c)
  <2>1. a+1..c = (a+1..b) \cup (b+1..c)
    OBVIOUS
  <2> QED
    BY <2>1 DEF AppendsOf
<1>2. AppendsOf(r, a+1..b) \cap AppendsOf(r, b+1..c) = {}
  BY DEF AppendsOf
<1>3. Cardinality(AppendsOf(r, a+1..b) \cap AppendsOf(r, b+1..c)) = 0
  BY <1>2, FS_EmptySet
<1>4. \A x, y \in Nat : x + y - 0 = x + y
  OBVIOUS
<1>5. Cardinality(AppendsOf(r, a+1..b) \cup AppendsOf(r, b+1..c))
        = Cardinality(AppendsOf(r, a+1..b)) + Cardinality(AppendsOf(r, b+1..c))
          - Cardinality(AppendsOf(r, a+1..b) \cap AppendsOf(r, b+1..c))
  BY AppendsFacts, FS_Union
<1>6. /\ Appends(r, a+1..b) = Cardinality(AppendsOf(r, a+1..b)) /\ Appends(r, a+1..b) \in Nat
      /\ Appends(r, b+1..c) = Cardinality(AppendsOf(r, b+1..c)) /\ Appends(r, b+1..c) \in Nat
      /\ Appends(r, a+1..c) = Cardinality(AppendsOf(r, a+1..c))
  BY AppendsFacts
<1> QED
  BY <1>1, <1>3, <1>4, <1>5, <1>6, Zenon

\* Files that appends of a window added hold a row no more often than the
\* window appends it.
LEMMA AddedCount ==
  ASSUME TableInv, NEW F \in SUBSET File, IsFiniteSet(F),
         NEW a \in 0..Current, NEW b \in 0..Current, NEW r \in Rows,
         \A f \in F : f.seq \in a+1..b /\ snaps[f.seq].op = "append" /\ f \in snaps[f.seq].files
  PROVE  Cardinality(Copies(F, r)) <= Appends(r, a+1..b)
<1>0. Current \in Nat /\ a \in Nat /\ b \in Nat /\ \A f \in F : f.rows[r] \in Nat
  BY DEF TableInv, Current, File
<1> DEFINE h == [c \in Copies(F, r) |-> c[1].seq]
<1>1. \A c \in Copies(F, r) : /\ c[1] \in F /\ c[1].rows[r] = 1 /\ c = <<c[1], 1>>
                             /\ c[1].seq \in AppendsOf(r, a+1..b)
  <2> SUFFICES ASSUME NEW c \in Copies(F, r)
               PROVE  /\ c[1] \in F /\ c[1].rows[r] = 1 /\ c = <<c[1], 1>>
                      /\ c[1].seq \in AppendsOf(r, a+1..b)
    OBVIOUS
  <2>1. c[1] \in F /\ c[2] \in 1..c[1].rows[r] /\ c = <<c[1], c[2]>>
    BY CopiesMember
  <2> DEFINE f == c[1]
  <2>2. f \in F /\ f.rows[r] \in Nat /\ f.rows[r] > 0
    BY <1>0, <2>1
  <2> HIDE DEF f
  <2>3. f.seq \in 1..Current
    BY <1>0, <2>2
  <2>4. f.rows[r] = 1
    BY <2>2, <2>3 DEF TableInv, AppendsOnce
  <2>5. f.seq \in AppendsOf(r, a+1..b)
    BY <2>2 DEF AppendsOf
  <2>6. c[2] = 1
    BY <2>1, <2>4 DEF f
  <2> QED
    BY <2>1, <2>4, <2>5, <2>6 DEF f
<1>2. \A f, g \in F : (f.seq = g.seq /\ f.rows[r] = 1 /\ g.rows[r] = 1) => f = g
  BY <1>0 DEF TableInv, AppendsOnce
<1>3. h \in Injection(Copies(F, r), AppendsOf(r, a+1..b))
  <2>1. h \in [Copies(F, r) -> AppendsOf(r, a+1..b)]
    BY <1>1
  <2>2. \A c, d \in Copies(F, r) : h[c] = h[d] => c = d
    <3> SUFFICES ASSUME NEW c \in Copies(F, r), NEW d \in Copies(F, r), c[1].seq = d[1].seq
                 PROVE  c = d
      OBVIOUS
    <3>1. c[1] = d[1]
      BY <1>1, <1>2
    <3> QED
      BY <1>1, <3>1
  <2> HIDE DEF h
  <2> QED
    BY <2>1, <2>2 DEF Injection, IsInjective
<1>4. Cardinality(Copies(F, r)) <= Cardinality(AppendsOf(r, a+1..b))
  BY <1>0, <1>3, AppendsFacts, FS_Injection
<1> QED
  BY <1>0, <1>4, AppendsFacts

\* A window without a compaction is exactly what it adds.
LEMMA WindowExact == TableInv => WindowIsExact
<1> SUFFICES ASSUME TableInv, NEW a \in 0..Current, Replaces(a, Current) = {}, NEW r \in Rows
             PROVE  Content(FilesOf(Current))[r]
                      = Content(FilesOf(a))[r] + Content(ScanRange(a, Current))[r]
  BY DEF WindowIsExact
<1>0. Current \in Nat /\ Current \in 0..Current /\ Current \in a..Current
  BY DEF TableInv, Current
<1>1. /\ FilesOf(a) \in SUBSET File /\ IsFiniteSet(FilesOf(a))
      /\ \A f \in FilesOf(a) : f.seq \in 1..a
  BY FilesFacts
<1>2. /\ ScanRange(a, Current) \in SUBSET File /\ IsFiniteSet(ScanRange(a, Current))
      /\ ScanRange(a, Current) \subseteq FilesOf(Current)
      /\ \A f \in ScanRange(a, Current) : f.seq \in a+1..Current
  BY <1>0, ScanFacts
<1>3. FilesOf(Current) = FilesOf(a) \cup ScanRange(a, Current)
  <2>1. FilesOf(a) \subseteq FilesOf(Current)
    BY <1>0 DEF TableInv, AppendsKeep
  <2>2. ASSUME NEW f \in FilesOf(Current)
        PROVE  f \in FilesOf(a) \cup ScanRange(a, Current)
    <3>1. f.seq \in 1..Current
      BY <1>0, FilesFacts
    <3>2. CASE f.seq \in a+1..Current
      BY <3>2 DEF ScanRange
    <3>3. CASE f.seq <= a
      <4>1. a \in f.seq..Current /\ f \in snaps[Current].files /\ Current \in 1..Current /\ a # 0
        BY <1>0, <3>1, <3>3 DEF FilesOf
      <4>2. f \in snaps[a].files
        BY <4>1 DEF TableInv, FilesLast
      <4> QED
        BY <4>1, <4>2 DEF FilesOf
    <3> QED
      BY <1>0, <3>1, <3>2, <3>3
  <2> QED
    BY <1>2, <2>1, <2>2
<1>4. FilesOf(a) \cap ScanRange(a, Current) = {}
  BY <1>0, <1>1, <1>2
<1>5. \A f \in FilesOf(a) \cup ScanRange(a, Current) : f.rows[r] \in Nat
  BY <1>1, <1>2 DEF File
<1>6. Cardinality(Copies(FilesOf(a) \cup ScanRange(a, Current), r))
        = Cardinality(Copies(FilesOf(a), r)) + Cardinality(Copies(ScanRange(a, Current), r))
  BY <1>1, <1>2, <1>4, <1>5, CopiesAdd
<1> QED
  BY <1>3, <1>6 DEF Content

\* Windows that meet deliver no row more often than it was appended.
LEMMA WindowsMeet == TableInv => WindowsDoNotOverlap
<1> SUFFICES ASSUME TableInv, NEW a \in 0..Current, NEW m \in a..Current, NEW r \in Rows
             PROVE  Content(ScanRange(a, m))[r] + Content(ScanRange(m, Current))[r]
                      <= Appends(r, a+1..Current)
  BY DEF WindowsDoNotOverlap
<1>0. Current \in Nat /\ m \in 0..Current /\ Current \in m..Current /\ Current \in 0..Current
      /\ a \in Nat /\ m \in Nat /\ a <= m /\ m <= Current
  BY DEF TableInv, Current
<1>1. \A s \in 0..Current, t \in 0..Current : s <= t =>
        Content(ScanRange(s, t))[r] <= Appends(r, s+1..t) /\ Content(ScanRange(s, t))[r] \in Nat
  <2> SUFFICES ASSUME NEW s \in 0..Current, NEW t \in 0..Current, s <= t
               PROVE  Content(ScanRange(s, t))[r] <= Appends(r, s+1..t)
                      /\ Content(ScanRange(s, t))[r] \in Nat
    OBVIOUS
  <2>1. t \in s..Current
    BY <1>0
  <2>2. /\ ScanRange(s, t) \in SUBSET File /\ IsFiniteSet(ScanRange(s, t))
        /\ \A f \in ScanRange(s, t) : /\ f.seq \in s+1..t /\ snaps[f.seq].op = "append"
                                      /\ f \in snaps[f.seq].files
    BY <2>1, ScanFacts
  <2>3. Cardinality(Copies(ScanRange(s, t), r)) <= Appends(r, s+1..t)
    BY <2>2, AddedCount
  <2>4. \A f \in ScanRange(s, t) : f.rows[r] \in Nat
    BY <2>2 DEF File
  <2>5. Cardinality(Copies(ScanRange(s, t), r)) \in Nat
    BY <2>2, <2>4, CopiesFinite
  <2> QED
    BY <2>3, <2>5 DEF Content
<1>2. /\ Content(ScanRange(a, m))[r] <= Appends(r, a+1..m) /\ Content(ScanRange(a, m))[r] \in Nat
      /\ Content(ScanRange(m, Current))[r] <= Appends(r, m+1..Current)
      /\ Content(ScanRange(m, Current))[r] \in Nat
  BY <1>0, <1>1
<1>3. Appends(r, a+1..Current) = Appends(r, a+1..m) + Appends(r, m+1..Current)
      /\ Appends(r, a+1..m) \in Nat /\ Appends(r, m+1..Current) \in Nat
  BY <1>0, AppendsAdd, AppendsFacts
<1>4. \A x, y, u, v \in Nat : (x <= u /\ y <= v) => x + y <= u + v
  OBVIOUS
<1> QED
  BY <1>2, <1>3, <1>4

-----------------------------------------------------------------------------
(* What a compaction writes.                                               *)

\* An output has no more of a row than the input, and a row of each key.
LEMMA OutputFacts ==
  ASSUME NEW k \in Compactors, NEW bag \in [Rows -> Nat], NEW out \in Outputs(k, bag)
  PROVE  /\ out \in [Rows -> Nat]
         /\ \A r \in Rows : out[r] <= bag[r]
         /\ k \notin Deduplicating => out = bag
         /\ \A r \in Rows : bag[r] > 0 => \E s \in Rows : KeyOf[s] = KeyOf[r] /\ out[s] > 0
<1>1. CASE k \notin Deduplicating
  BY <1>1 DEF Outputs
<1>2. CASE k \in Deduplicating
  <2> DEFINE present == {r \in Rows : bag[r] > 0}
  <2>1. PICK K \in SUBSET present :
          /\ \A r \in present : Cardinality({s \in K : KeyOf[s] = KeyOf[r]}) = 1
          /\ out = [r \in Rows |-> IF r \in K THEN 1 ELSE 0]
    BY <1>2 DEF Outputs, Deduplicated
  <2>2. out \in [Rows -> Nat] /\ \A r \in Rows : out[r] <= bag[r]
    BY <2>1
  <2>3. ASSUME NEW r \in Rows, bag[r] > 0
        PROVE  \E s \in Rows : KeyOf[s] = KeyOf[r] /\ out[s] > 0
    <3>1. {s \in K : KeyOf[s] = KeyOf[r]} # {}
      <4>1. Cardinality({s \in K : KeyOf[s] = KeyOf[r]}) = 1
        BY <2>1, <2>3
      <4>2. Cardinality({}) = 0
        BY FS_EmptySet
      <4> QED
        BY <4>1, <4>2
    <3>2. PICK s \in K : KeyOf[s] = KeyOf[r]
      BY <3>1
    <3>3. s \in Rows /\ out[s] = 1
      BY <2>1, <3>2
    <3> QED
      BY <3>2, <3>3
  <2> QED
    BY <1>2, <2>2, <2>3
<1> QED
  BY <1>1, <1>2

LEMMA BagOfPartition ==
  ASSUME NEW bag \in [Rows -> Nat], NEW p
  PROVE  /\ OfPartitions(bag, {p}) \in [Rows -> Nat]
         /\ \A r \in Rows : OfPartitions(bag, {p})[r] = IF PartitionOf[r] = p THEN bag[r] ELSE 0
  BY DEF OfPartitions

\* The written files spread the output, each within its partition.
LEMMA WrittenFacts ==
  ASSUME NEW bag \in [Rows -> Nat], NEW split \in BOOLEAN
  PROVE  /\ Written(bag, split) \in SUBSET NewFile /\ IsFiniteSet(Written(bag, split))
         /\ \A f \in Written(bag, split) : InPartition(f)
         /\ Spreads(Written(bag, split), bag)
<1> DEFINE present == {r \in Rows : bag[r] > 0}
<1>0. IsFiniteSet(present)
  BY TableAssumption, FS_Subset DEF TableAssumption
<1>1. CASE split
  <2> DEFINE rowsOf(r) == [s \in Rows |-> IF s = r THEN bag[r] ELSE 0]
             file(r) == [part |-> PartitionOf[r], rows |-> rowsOf(r)]
             h == [r \in present |-> file(r)]
  <2>1. Written(bag, split) = {file(r) : r \in present}
    BY <1>1 DEF Written
  <2>2. h \in Surjection(present, {file(r) : r \in present})
    BY DEF Surjection
  <2>3. IsFiniteSet(Written(bag, split))
    BY <1>0, <2>1, <2>2, FS_Surjection
  <2>4. \A r \in present : rowsOf(r) \in [Rows -> Nat] /\ PartitionOf[r] \in Partitions
    BY DEF Partitions
  <2>5. \A r \in present : file(r) \in NewFile
    BY <2>4 DEF NewFile
  <2>6. \A r \in present : InPartition(file(r))
    <3> SUFFICES ASSUME NEW r \in present PROVE InPartition(file(r))
      OBVIOUS
    <3>1. rowsOf(r) = OfPartitions(rowsOf(r), {PartitionOf[r]})
      BY DEF OfPartitions
    <3>2. rowsOf(r) # NoRows
      BY DEF NoRows
    <3>3. file(r).rows = rowsOf(r) /\ file(r).part = PartitionOf[r]
      OBVIOUS
    <3> HIDE DEF file, rowsOf
    <3> QED
      BY <3>1, <3>2, <3>3 DEF InPartition
  <2>7. Spreads({file(r) : r \in present}, bag)
    <3> SUFFICES ASSUME NEW r \in Rows
                 PROVE  \/ bag[r] = 0 /\ \A f \in {file(q) : q \in present} : f.rows[r] = 0
                        \/ \E g \in {file(q) : q \in present} :
                             g.rows[r] = bag[r] /\ \A f \in {file(q) : q \in present} \ {g} : f.rows[r] = 0
      BY DEF Spreads
    <3>1. \A q \in present : file(q).rows[r] = IF q = r THEN bag[r] ELSE 0
      OBVIOUS
    <3> HIDE DEF file
    <3>2. CASE r \in present
      BY <3>1, <3>2
    <3>3. CASE r \notin present
      BY <3>1, <3>3
    <3> QED
      BY <3>2, <3>3
  <2> HIDE DEF file, present
  <2> QED
    BY <2>1, <2>3, <2>5, <2>6, <2>7
<1>2. CASE ~ split
  <2> DEFINE parts == {PartitionOf[r] : r \in present}
             file(p) == [part |-> p, rows |-> OfPartitions(bag, {p})]
             h == [p \in parts |-> file(p)]
             g == [r \in present |-> PartitionOf[r]]
  <2>1. Written(bag, split) = {file(p) : p \in parts}
    BY <1>2 DEF Written
  <2>2. g \in Surjection(present, parts)
    BY DEF Surjection
  <2>3. IsFiniteSet(parts)
    BY <1>0, <2>2, FS_Surjection
  <2>4. h \in Surjection(parts, {file(p) : p \in parts})
    BY DEF Surjection
  <2>5. IsFiniteSet(Written(bag, split))
    BY <2>1, <2>3, <2>4, FS_Surjection
  <2>6. \A p \in parts : file(p) \in NewFile
    BY BagOfPartition DEF NewFile, Partitions
  <2>7. \A p \in parts : InPartition(file(p))
    <3> SUFFICES ASSUME NEW p \in parts PROVE InPartition(file(p))
      OBVIOUS
    <3> DEFINE b == OfPartitions(bag, {p})
    <3>1. b = OfPartitions(b, {p})
      BY BagOfPartition DEF OfPartitions
    <3>2. b # NoRows
      <4>1. PICK r \in Rows : bag[r] > 0 /\ PartitionOf[r] = p
        OBVIOUS
      <4>2. b[r] = bag[r] /\ NoRows[r] = 0
        BY <4>1, BagOfPartition DEF NoRows
      <4> QED
        BY <4>1, <4>2
    <3>3. file(p).rows = b /\ file(p).part = p
      OBVIOUS
    <3> HIDE DEF file, b
    <3> QED
      BY <3>1, <3>2, <3>3 DEF InPartition
  <2>8. Spreads({file(p) : p \in parts}, bag)
    <3> SUFFICES ASSUME NEW r \in Rows
                 PROVE  \/ bag[r] = 0 /\ \A f \in {file(q) : q \in parts} : f.rows[r] = 0
                        \/ \E gg \in {file(q) : q \in parts} :
                             gg.rows[r] = bag[r] /\ \A f \in {file(q) : q \in parts} \ {gg} : f.rows[r] = 0
      BY DEF Spreads
    <3>1. \A q \in parts : file(q).rows[r] = IF PartitionOf[r] = q THEN bag[r] ELSE 0
      <4> SUFFICES ASSUME NEW q \in parts
                   PROVE  file(q).rows[r] = IF PartitionOf[r] = q THEN bag[r] ELSE 0
        OBVIOUS
      <4>1. file(q).rows = OfPartitions(bag, {q})
        OBVIOUS
      <4>2. OfPartitions(bag, {q})[r] = IF PartitionOf[r] = q THEN bag[r] ELSE 0
        BY BagOfPartition
      <4> HIDE DEF file
      <4> QED
        BY <4>1, <4>2
    <3>2. bag[r] \in Nat /\ (bag[r] > 0 => PartitionOf[r] \in parts)
      OBVIOUS
    <3> HIDE DEF file, parts
    <3>3. CASE bag[r] > 0
      BY <3>1, <3>2, <3>3
    <3>4. CASE bag[r] = 0
      BY <3>1, <3>4
    <3> QED
      BY <3>2, <3>3, <3>4
  <2> HIDE DEF file, parts
  <2> QED
    BY <2>1, <2>5, <2>6, <2>7, <2>8
<1> QED
  BY <1>1, <1>2

\* What a set of typed files holds is a bag.
LEMMA ContentType ==
  ASSUME NEW F \in SUBSET File, IsFiniteSet(F)
  PROVE  /\ Content(F) \in [Rows -> Nat]
         /\ \A r \in Rows : Content(F)[r] = Cardinality(Copies(F, r))
<1>1. \A r \in Rows : Cardinality(Copies(F, r)) \in Nat
  <2> SUFFICES ASSUME NEW r \in Rows PROVE Cardinality(Copies(F, r)) \in Nat
    OBVIOUS
  <2>1. \A f \in F : f.rows[r] \in Nat
    BY DEF File
  <2> QED
    BY <2>1, CopiesFinite
<1> QED
  BY <1>1 DEF Content

-----------------------------------------------------------------------------
(* What a step does to the snapshots.                                      *)

\* Snapshots are added, none is changed.
Extends ==
  /\ Current \in Nat /\ Current' \in Nat /\ Current <= Current'
  /\ \A s \in 1..Current : snaps'[s] = snaps[s]
  /\ \A s \in 0..Current : FilesOf(s)' = FilesOf(s)

LEMMA QuietTable ==
  ASSUME TableInv, UNCHANGED snaps, faults' \in 0..MaxFaults
  PROVE  TableInv' /\ Extends
<1>1. Current \in Nat /\ Current' = Current
  BY DEF TableInv, Current
<1>2. Extends
  BY <1>1 DEF Extends, FilesOf
<1>3. FilesTyped' /\ FilesLast'
  BY <1>1 DEF TableInv, FilesTyped, FilesLast, InPartition, OfPartitions, NoRows
<1>4. AppendsKeep' /\ AppendsOnce'
  BY <1>1 DEF TableInv, AppendsKeep, AppendsOnce, Replaces, FilesOf
<1> QED
  BY <1>2, <1>3, <1>4 DEF TableInv

LEMMA CommitExtends ==
  ASSUME TableInv, NEW op \in {"append", "replace"},
         NEW kept \in SUBSET FilesOf(Current), NEW new \in SUBSET NewFile, IsFiniteSet(new),
         AddSnapshot(op, kept, new)
  PROVE  Extends /\ Current' = Current + 1 /\ snaps'[Current'].op = op
         /\ FilesOf(Current)' = kept \cup Stamped(new, Current')
<1>1. Current \in 0..Current /\ snaps \in Seq(Snapshot)
  BY DEF TableInv, Current
<1>2. kept \in SUBSET File
  BY <1>1, FilesFacts
<1>3. /\ Current \in Nat /\ Current' = Current + 1
      /\ \A s \in 1..Current : snaps'[s] = snaps[s]
      /\ snaps'[Current'].op = op
      /\ snaps'[Current'].files = kept \cup Stamped(new, Current')
      /\ \A s \in 0..Current : FilesOf(s)' = FilesOf(s)
  BY <1>1, <1>2, CommitFacts
<1>4. FilesOf(Current)' = kept \cup Stamped(new, Current')
  BY <1>3 DEF FilesOf
<1> QED
  BY <1>3, <1>4 DEF Extends

\* What the poller looks at of old snapshots stays.
LEMMA OldStays ==
  ASSUME TableInv, Extends
  PROVE  /\ \A s \in 0..Current : Untouched(s)' = Untouched(s)
         /\ \A r : \A a, b \in 0..Current : Appends(r, a+1..b)' = Appends(r, a+1..b)
<1>1. ASSUME NEW s \in 0..Current
      PROVE  Untouched(s)' = Untouched(s)
  <2>1. \A f \in FilesOf(s) : f.seq \in 1..Current
    BY <1>1, FilesFacts
  <2>2. \A f \in FilesOf(s) : snaps'[f.seq] = snaps[f.seq]
    BY <2>1 DEF Extends
  <2>3. FilesOf(s)' = FilesOf(s)
    BY DEF Extends
  <2> QED
    BY <2>2, <2>3 DEF Untouched
<1>2. ASSUME NEW r, NEW a \in 0..Current, NEW b \in 0..Current
      PROVE  Appends(r, a+1..b)' = Appends(r, a+1..b)
  <2>1. \A s \in a+1..b : snaps'[s] = snaps[s]
    BY DEF Extends
  <2> QED
    BY <2>1 DEF Appends
<1> QED
  BY <1>1, <1>2

\* A step that leaves the jobs, or the poller, alone.
LEMMA QuietJobs ==
  ASSUME TableInv, JobsOk, Extends, UNCHANGED <<job, splits>>
  PROVE  JobsOk'
<1>1. \A k \in Compactors : FilesOf(job[k].base)' = FilesOf(job[k].base)
  BY DEF Extends, JobsOk
<1> QED
  BY <1>1 DEF JobsOk, Extends, InPartition, Idle

LEMMA QuietPoller ==
  ASSUME TableInv, PollerOk, Extends, UNCHANGED pollerVars
  PROVE  PollerOk'
<1>1. /\ Untouched(last)' = Untouched(last) /\ Untouched(saved)' = Untouched(saved)
      /\ Untouched(stream.snap)' = Untouched(stream.snap)
  <2>1. last \in 0..Current /\ saved \in 0..Current /\ stream.snap \in 0..Current
    BY DEF PollerOk, PollerTyped
  <2>2. UNCHANGED <<last, saved, stream>>
    BY DEF pollerVars
  <2> QED
    BY <2>1, <2>2, OldStays
<1>2. PollerTyped'
  BY DEF PollerOk, PollerTyped, Extends, pollerVars
<1>3. Covered(last)' /\ Covered(saved)'
  BY <1>1 DEF PollerOk, Covered, pollerVars
<1>4. stream'.at \in {"processed", "acked"} => Covered(stream.snap)'
  BY <1>1 DEF PollerOk, Covered, pollerVars
<1>5. stream'.at = "sent" =>
         \A r \in Untouched(stream.snap)' : processed'[r] > 0 \/ stream'.rows[r] > 0
  BY <1>1 DEF PollerOk, pollerVars
<1> QED
  BY <1>2, <1>3, <1>4, <1>5 DEF PollerOk, pollerVars

BagOf(C) == [r \in Rows |-> IF r \in C THEN 1 ELSE 0]

\* An append is a commit that keeps all files and spreads its batch.
LEMMA IngestCommits ==
  ASSUME NEW C \in Commits, Ingest(C)
  PROVE  \E new \in SUBSET NewFile :
           /\ IsFiniteSet(new) /\ \A f \in new : InPartition(f)
           /\ Spreads(new, BagOf(C)) /\ BagOf(C) \in [Rows -> 0..1]
           /\ AddSnapshot("append", FilesOf(Current), new)
<1>1. C \subseteq Rows
  BY TableAssumption DEF TableAssumption
<1>2. BagOf(C) \in [Rows -> 0..1] /\ BagOf(C) \in [Rows -> Nat]
  BY DEF BagOf
<1>3. {r \in Rows : BagOf(C)[r] > 0} = C
  BY <1>1 DEF BagOf
<1>4. Written(BagOf(C), FALSE)
        = {[part |-> p, rows |-> OfPartitions(BagOf(C), {p})] : p \in {PartitionOf[r] : r \in C}}
  BY <1>3 DEF Written
<1>5. AddSnapshot("append", FilesOf(Current), Written(BagOf(C), FALSE))
  BY <1>4 DEF Ingest, BagOf
<1> QED
  BY <1>2, <1>5, WrittenFacts

LEMMA RewriteCommits ==
  ASSUME TableInv, JobsOk, NEW k \in Compactors, Rewrite(k)
  PROVE  /\ job[k].new \in SUBSET NewFile /\ IsFiniteSet(job[k].new)
         /\ \A f \in job[k].new : InPartition(f)
         /\ Survivors(job[k].old) \in SUBSET FilesOf(Current)
         /\ AddSnapshot("replace", Survivors(job[k].old), job[k].new)
  BY DEF Rewrite, JobsOk, Job, Survivors

\* A job that ends or is yet to be done.
LEMMA JobBecomes ==
  ASSUME TableInv, JobsOk, Extends, splits' \in 0..MaxSplits,
         NEW k \in Compactors, NEW j \in Job, job' = [job EXCEPT ![k] = j],
         j.base \in 0..Current', j.old \subseteq FilesOf(j.base)',
         j.at = "idle" <=> j = Idle,
         IsFiniteSet(j.new) /\ \A f \in j.new : InPartition(f),
         j.at # "idle" => \E bag \in Outputs(k, Content(j.old)) : Spreads(j.new, bag)
  PROVE  JobsOk'
<1>1. job' \in [Compactors -> Job] /\ job'[k] = j /\ \A i \in Compactors \ {k} : job'[i] = job[i]
  BY DEF JobsOk
<1> SUFFICES ASSUME NEW i \in Compactors
             PROVE  /\ job'[i].base \in 0..Current' /\ job'[i].old \subseteq FilesOf(job[i].base)'
                    /\ job'[i].at = "idle" <=> job'[i] = Idle
                    /\ IsFiniteSet(job'[i].new) /\ \A f \in job'[i].new : InPartition(f)
                    /\ job'[i].at # "idle" =>
                          \E bag \in Outputs(i, Content(job'[i].old)) : Spreads(job'[i].new, bag)
  BY <1>1 DEF JobsOk, Idle, Outputs, Content, Copies, Spreads, InPartition, OfPartitions, NoRows, Deduplicated
<1>3. CASE i = k
  <2>1. FilesOf(job[i].base)' = FilesOf(j.base)'
    BY <1>1, <1>3
  <2> QED
    BY <1>1, <1>3, <2>1
<1>4. CASE i # k
  <2>1. job'[i] = job[i]
    BY <1>1, <1>4
  <2>2. job[i].base \in 0..Current /\ job[i].old \subseteq FilesOf(job[i].base)
    BY DEF JobsOk
  <2>3. FilesOf(job[i].base)' = FilesOf(job[i].base)
    BY <2>1, <2>2 DEF Extends
  <2> QED
    BY <2>1, <2>2, <2>3 DEF JobsOk, Extends
<1> QED
  BY <1>3, <1>4

LEMMA IdleJob ==
  /\ Idle \in Job /\ Idle.at = "idle" /\ Idle.base = 0 /\ Idle.old = {} /\ Idle.new = {}
  /\ IsFiniteSet(Idle.new)
<1>1. 0 \in 0..MaxCommitRetries
  BY CompactorAssumption DEF CompactorAssumption
<1> QED
  BY <1>1, FS_EmptySet DEF Idle, Job

LEMMA JobEnds ==
  ASSUME TableInv, JobsOk, Extends, splits' \in 0..MaxSplits,
         NEW k \in Compactors, job' = [job EXCEPT ![k] = Idle]
  PROVE  JobsOk'
<1>1. PICK j \in Job : j = Idle
  BY IdleJob
<1>2. j.base \in 0..Current' /\ j.old \subseteq FilesOf(j.base)'
  BY <1>1, IdleJob DEF Extends
<1>3. j.at = "idle" /\ IsFiniteSet(j.new) /\ \A f \in j.new : InPartition(f)
  BY <1>1, IdleJob
<1>4. job' = [job EXCEPT ![k] = j]
  BY <1>1
<1>5. j.at = "idle" <=> j = Idle
  BY <1>1, <1>3
<1>6. j.at # "idle" => \E bag \in Outputs(k, Content(j.old)) : Spreads(j.new, bag)
  BY <1>3
<1> HIDE <1>1
<1> QED
  BY <1>2, <1>3, <1>4, <1>5, <1>6, JobBecomes

-----------------------------------------------------------------------------
(* The steps.                                                              *)

LEMMA WriteStep ==
  ASSUME TableInv, JobsOk, PollerOk, Write
  PROVE  TableInv' /\ JobsOk' /\ PollerOk' /\ Extends
<1>1. PICK C \in Commits : Ingest(C) /\ UNCHANGED <<compactorVars, pollerVars>>
  BY DEF Write
<1>2. PICK new \in SUBSET NewFile :
        /\ IsFiniteSet(new) /\ \A f \in new : InPartition(f)
        /\ Spreads(new, BagOf(C)) /\ BagOf(C) \in [Rows -> 0..1]
        /\ AddSnapshot("append", FilesOf(Current), new)
  BY <1>1, IngestCommits
<1>3. faults' \in 0..MaxFaults
  BY <1>1 DEF Ingest, TableInv
<1>4. TableInv'
  BY <1>2, <1>3, CommitKeeps
<1>5. Extends
  BY <1>2, CommitExtends
<1> QED
  BY <1>1, <1>4, <1>5, QuietJobs, QuietPoller DEF compactorVars, pollerVars

LEMMA PlanStep ==
  ASSUME TableInv, JobsOk, NEW k \in Compactors, Plan(k)
  PROVE  JobsOk'
<1>1. PICK out \in Outputs(k, Content(ToCompact)), split \in BOOLEAN :
        /\ split => splits < MaxSplits
        /\ splits' = IF split THEN splits + 1 ELSE splits
        /\ job' = [job EXCEPT ![k] = [at |-> "commit", base |-> Current, old |-> ToCompact,
                                      new |-> Written(out, split), tries |-> 0]]
  BY DEF Plan
<1>2. UNCHANGED snaps /\ UNCHANGED faults
  BY DEF Plan, tableVars
<1>3. Extends
  BY <1>2, QuietTable DEF TableInv
<1>4. Current \in 0..Current /\ Current' = Current /\ Current \in Nat
  BY <1>2 DEF TableInv, Current
<1>5. ToCompact \subseteq FilesOf(Current)
  BY DEF ToCompact, FilesIn
<1>6. ToCompact \in SUBSET File /\ IsFiniteSet(ToCompact)
  BY <1>4, <1>5, FilesFacts, FS_Subset
<1>7. Content(ToCompact) \in [Rows -> Nat]
  BY <1>6, ContentType
<1>8. out \in [Rows -> Nat]
  BY <1>7, OutputFacts
<1>9. /\ Written(out, split) \in SUBSET NewFile /\ IsFiniteSet(Written(out, split))
      /\ \A f \in Written(out, split) : InPartition(f)
      /\ Spreads(Written(out, split), out)
  BY <1>8, WrittenFacts
<1>10. splits' \in 0..MaxSplits
  BY <1>1, CompactorAssumption DEF JobsOk, CompactorAssumption
<1>11. 0 \in 0..MaxCommitRetries
  BY CompactorAssumption DEF CompactorAssumption
<1>12. PICK j \in Job : j = [at |-> "commit", base |-> Current, old |-> ToCompact,
                            new |-> Written(out, split), tries |-> 0]
  BY <1>4, <1>6, <1>9, <1>11 DEF Job
<1>13. /\ j.at = "commit" /\ j.base = Current /\ j.old = ToCompact
       /\ j.new = Written(out, split) /\ job' = [job EXCEPT ![k] = j]
  BY <1>1, <1>12
<1>14. FilesOf(j.base)' = FilesOf(Current)
  BY <1>2, <1>13 DEF FilesOf
<1>15. j # Idle
  BY <1>13, IdleJob
<1> QED
  BY <1>3, <1>4, <1>5, <1>9, <1>10, <1>12, <1>13, <1>14, <1>15, JobBecomes

LEMMA CompactStep ==
  ASSUME TableInv, JobsOk, PollerOk, NEW k \in Compactors,
         Compact(k) \/ Abandon(k), UNCHANGED pollerVars
  PROVE  TableInv' /\ JobsOk' /\ PollerOk' /\ Extends
<1>0. job[k] \in Job /\ job[k].base \in 0..Current /\ job[k].old \subseteq FilesOf(job[k].base)
      /\ Current \in Nat /\ Current \in 0..Current
  BY DEF JobsOk, TableInv, Current
<1>1. CASE Plan(k)
  <2>1. UNCHANGED snaps /\ faults' \in 0..MaxFaults
    BY <1>1 DEF Plan, tableVars, TableInv
  <2>2. TableInv' /\ Extends
    BY <2>1, QuietTable
  <2> QED
    BY <1>1, <2>2, PlanStep, QuietPoller
<1>2. CASE Rewrite(k)
  <2>1. /\ job[k].new \in SUBSET NewFile /\ IsFiniteSet(job[k].new)
        /\ \A f \in job[k].new : InPartition(f)
        /\ Survivors(job[k].old) \in SUBSET FilesOf(Current)
        /\ AddSnapshot("replace", Survivors(job[k].old), job[k].new)
    BY <1>2, RewriteCommits
  <2>2. faults' \in 0..MaxFaults /\ splits' = splits /\ job' = [job EXCEPT ![k] = Idle]
    BY <1>2 DEF Rewrite, TableInv
  <2>3. TableInv'
    BY <2>1, <2>2, CommitKeeps
  <2>4. Extends
    BY <2>1, CommitExtends
  <2>5. JobsOk'
    BY <2>2, <2>4, JobEnds DEF JobsOk
  <2> QED
    BY <2>3, <2>4, <2>5, QuietPoller
<1>3. CASE Conflict(k)
  <2>1. UNCHANGED snaps /\ faults' \in 0..MaxFaults /\ splits' \in 0..MaxSplits
    BY <1>3 DEF Conflict, tableVars, TableInv, JobsOk
  <2>2. TableInv' /\ Extends
    BY <2>1, QuietTable
  <2>3. CASE RetriesLeft(job[k].tries)
    <3>1. job' = [job EXCEPT ![k] = [job[k] EXCEPT !.at = "reload", !.tries = @ + 1]]
      <4>1. job' = [job EXCEPT ![k].at = "reload", ![k].tries = @ + 1]
        BY <1>3, <2>3 DEF Conflict
      <4> QED
        BY <1>0, <4>1 DEF JobsOk, Job
    <3>2. job[k].tries + 1 \in 0..MaxCommitRetries
      BY <1>0, <2>3, CompactorAssumption DEF Job, RetriesLeft, CompactorAssumption
    <3>j. PICK j \in Job : j = [job[k] EXCEPT !.at = "reload", !.tries = @ + 1]
      BY <1>0, <3>2 DEF Job
    <3>3. /\ j.at = "reload" /\ j.base = job[k].base /\ j.old = job[k].old
          /\ j.new = job[k].new /\ job' = [job EXCEPT ![k] = j]
      BY <1>0, <3>1, <3>j DEF Job
    <3>4. job[k].at # "idle" /\ j # Idle
      BY <1>3, <3>3, IdleJob DEF Conflict
    <3>5. FilesOf(j.base)' = FilesOf(job[k].base) /\ j.base \in 0..Current'
      BY <1>0, <2>2, <3>3 DEF Extends
    <3>6. JobsOk'
      <4>1. j.old \subseteq FilesOf(j.base)'
        BY <1>0, <3>3, <3>5
      <4>2. IsFiniteSet(j.new) /\ \A f \in j.new : InPartition(f)
        BY <3>3 DEF JobsOk
      <4>3. \E bag \in Outputs(k, Content(j.old)) : Spreads(j.new, bag)
        BY <3>3, <3>4 DEF JobsOk
      <4>4. j.at = "idle" <=> j = Idle
        BY <3>3, <3>4
      <4> QED
        BY <2>1, <2>2, <3>3, <3>5, <4>1, <4>2, <4>3, <4>4, JobBecomes
    <3> QED
      BY <2>2, <3>6, QuietPoller
  <2>4. CASE ~ RetriesLeft(job[k].tries)
    <3>1. job' = [job EXCEPT ![k] = Idle]
      BY <1>3, <2>4 DEF Conflict, JobsOk
    <3>2. JobsOk'
      BY <2>1, <2>2, <3>1, JobEnds
    <3> QED
      BY <2>2, <3>2, QuietPoller
  <2> QED
    BY <2>3, <2>4
<1>4. CASE Reload(k)
  <2>1. UNCHANGED snaps /\ faults' \in 0..MaxFaults /\ splits' \in 0..MaxSplits
    BY <1>4 DEF Reload, tableVars, TableInv, JobsOk
  <2>2. TableInv' /\ Extends
    BY <2>1, QuietTable
  <2>3. CASE StillThere(job[k].old)
    <3>1. job' = [job EXCEPT ![k] = [job[k] EXCEPT !.at = "commit", !.base = Current]]
      <4>1. job' = [job EXCEPT ![k].at = "commit", ![k].base = Current]
        BY <1>4, <2>3 DEF Reload
      <4> QED
        BY <1>0, <4>1 DEF JobsOk, Job
    <3>j. PICK j \in Job : j = [job[k] EXCEPT !.at = "commit", !.base = Current]
      BY <1>0 DEF Job
    <3>3. /\ j.at = "commit" /\ j.base = Current /\ j.old = job[k].old
          /\ j.new = job[k].new /\ job' = [job EXCEPT ![k] = j]
      BY <1>0, <3>1, <3>j DEF Job
    <3>4. job[k].at # "idle" /\ j # Idle
      BY <1>4, <3>3, IdleJob DEF Reload
    <3>5. FilesOf(j.base)' = FilesOf(Current) /\ j.base \in 0..Current'
      BY <1>0, <2>2, <3>3 DEF Extends
    <3>6. j.old \subseteq FilesOf(Current)
      BY <2>3, <3>3 DEF StillThere
    <3>7. JobsOk'
      <4>1. j.old \subseteq FilesOf(j.base)'
        BY <3>5, <3>6
      <4>2. IsFiniteSet(j.new) /\ \A f \in j.new : InPartition(f)
        BY <3>3 DEF JobsOk
      <4>3. \E bag \in Outputs(k, Content(j.old)) : Spreads(j.new, bag)
        BY <3>3, <3>4 DEF JobsOk
      <4>4. j.at = "idle" <=> j = Idle
        BY <3>3, <3>4
      <4> QED
        BY <2>1, <2>2, <3>3, <3>5, <4>1, <4>2, <4>3, <4>4, JobBecomes
    <3> QED
      BY <2>2, <3>7, QuietPoller
  <2>4. CASE ~ StillThere(job[k].old)
    <3>1. job' = [job EXCEPT ![k] = Idle]
      BY <1>4, <2>4 DEF Reload, JobsOk
    <3>2. JobsOk'
      BY <2>1, <2>2, <3>1, JobEnds
    <3> QED
      BY <2>2, <3>2, QuietPoller
  <2> QED
    BY <2>3, <2>4
<1>5. CASE Abandon(k)
  <2>1. UNCHANGED snaps /\ faults' \in 0..MaxFaults /\ splits' \in 0..MaxSplits
        /\ job' = [job EXCEPT ![k] = Idle]
    BY <1>5, TableAssumption DEF Abandon, Fault, TableInv, JobsOk, TableAssumption
  <2>2. TableInv' /\ Extends
    BY <2>1, QuietTable
  <2>3. JobsOk'
    BY <2>1, <2>2, JobEnds
  <2> QED
    BY <2>2, <2>3, QuietPoller
<1> QED
  BY <1>1, <1>2, <1>3, <1>4, <1>5 DEF Compact

\* A scan yields a bag, and all untouched rows that the scanned snapshots have.
LEMMA SentFacts ==
  ASSUME TableInv, PollerOk
  PROVE  /\ ToSend \in [Rows -> Nat] /\ Acked \in 0..Current
         /\ \A r \in Untouched(Current) : r \in Untouched(Acked) \/ ToSend[r] > 0
<1>0. Current \in Nat /\ Current \in 0..Current
  BY DEF TableInv, Current
<1>1. Acked \in 0..Current
  BY DEF PollerOk, PollerTyped, Acked
<1> DEFINE F == IF Acked = 0 THEN FilesOf(Current) ELSE ScanRange(Acked, Current)
<1>2. F \in SUBSET File /\ IsFiniteSet(F)
  <2>1. Current \in Acked..Current
    BY <1>0, <1>1
  <2> QED
    BY <1>0, <1>1, <2>1, FilesFacts, ScanFacts
<1>3. ToSend = Content(F)
  BY DEF ToSend
<1>4. ASSUME NEW r \in Untouched(Current)
      PROVE  r \in Untouched(Acked) \/ ToSend[r] > 0
  <2>1. r \in Rows
    BY DEF Untouched
  <2>2. PICK f \in FilesOf(Current) : snaps[f.seq].op = "append" /\ f.rows[r] > 0
    BY DEF Untouched
  <2>3. f.seq \in 1..Current
    BY <1>0, FilesFacts
  <2>4. CASE f \in F
    <3>1. \A g \in F : g.rows[r] \in Nat
      BY <1>2, <2>1 DEF File
    <3>2. Copies(F, r) # {} /\ IsFiniteSet(Copies(F, r)) /\ Cardinality(Copies(F, r)) \in Nat
      BY <1>2, <2>2, <2>4, <3>1, NoCopies, CopiesFinite
    <3>3. Cardinality(Copies(F, r)) # 0
      BY <3>2, FS_EmptySet
    <3>4. ToSend[r] = Cardinality(Copies(F, r))
      BY <1>2, <1>3, <2>1, ContentType
    <3> HIDE DEF F
    <3> QED
      BY <3>2, <3>3, <3>4
  <2>5. CASE f \notin F
    <3>1. Acked # 0 /\ f \notin ScanRange(Acked, Current)
      BY <2>2, <2>5
    <3>2. f.seq \notin Replaces(Acked, Current)
      BY <2>2 DEF Replaces
    <3>3. f.seq <= Acked
      BY <1>0, <1>1, <2>2, <2>3, <3>1, <3>2 DEF ScanRange
    <3>4. Current \in 1..Current /\ f \in snaps[Current].files /\ Acked \in f.seq..Current
      BY <1>0, <1>1, <2>2, <2>3, <3>3 DEF FilesOf
    <3>5. f \in snaps[Acked].files
      BY <3>4 DEF TableInv, FilesLast
    <3>6. f \in FilesOf(Acked)
      BY <3>1, <3>5 DEF FilesOf
    <3> QED
      BY <2>1, <2>2, <3>6 DEF Untouched
  <2> QED
    BY <2>4, <2>5
<1> QED
  BY <1>1, <1>2, <1>3, <1>4, ContentType

\* The checkpoint an acknowledgement leads to.
LEMMA AckedFacts ==
  ASSUME PollerOk
  PROVE  /\ Acked \in 0..Current /\ Acked <= saved /\ Covered(Acked)
         /\ (stream.at \in {"none", "acked"} => Acked = IF stream.at = "none" THEN last ELSE stream.snap)
  BY DEF PollerOk, PollerTyped, Acked

\* Steps that leave the table alone.
LEMMA PollerStep ==
  ASSUME TableInv, PollerOk, Poll \/ Consume \/ Disturb
  PROVE  PollerOk'
<1>1. UNCHANGED snaps /\ Current' = Current /\ Current \in Nat /\ Current \in 0..Current
  BY DEF Poll, Consume, Disturb, tableVars, TableInv, Current
<1>2. \A s : Untouched(s)' = Untouched(s)
  BY <1>1 DEF Untouched, FilesOf
<1>3. stream \in Stream /\ PollerTyped
  BY DEF PollerOk, PollerTyped
<1>4. CASE PollSends
  <2>1. PICK t \in Stream : t = [at |-> "sent", snap |-> Current, rows |-> ToSend]
    BY <1>1, SentFacts DEF Stream
  <2>2. t.at = "sent" /\ t.snap = Current /\ t.rows = ToSend
    BY <2>1
  <2>3. /\ stream' = t /\ last' = Acked
        /\ UNCHANGED <<server, receiver, processed, saved, redone>>
    BY <1>4, <2>1 DEF PollSends
  <2>4. PollerTyped'
    BY <1>1, <1>3, <2>2, <2>3, SentFacts DEF PollerTyped
  <2>5. Covered(last)' /\ Covered(saved)'
    BY <1>2, <2>3, AckedFacts DEF Covered, PollerOk
  <2>6. \A r \in Untouched(stream.snap)' : processed'[r] > 0 \/ stream'.rows[r] > 0
    <3>1. Untouched(stream.snap)' = Untouched(Current)
      BY <1>1, <2>2, <2>3 DEF Untouched, FilesOf
    <3> QED
      BY <2>2, <2>3, <3>1, SentFacts, AckedFacts DEF Covered
  <2>7. last' <= saved' /\ last' <= stream'.snap
    BY <2>2, <2>3, SentFacts, AckedFacts
  <2> QED
    BY <2>2, <2>3, <2>4, <2>5, <2>6, <2>7 DEF PollerOk
<1>5. CASE PollEmpty \/ PollGone
  <2>1. /\ stream' = NoStream /\ last' = Acked /\ server' \in {server, "ended"}
        /\ UNCHANGED <<receiver, processed, saved, redone>>
    BY <1>5 DEF PollEmpty, PollGone
  <2>2. NoStream \in Stream /\ NoStream.at = "none" /\ NoStream.snap = 0
    BY DEF NoStream, Stream, NoRows
  <2>3. PollerTyped'
    BY <1>1, <1>3, <2>1, <2>2, AckedFacts DEF PollerTyped
  <2>4. Covered(last)' /\ Covered(saved)'
    BY <1>2, <2>1, AckedFacts DEF Covered, PollerOk
  <2> QED
    BY <2>1, <2>2, <2>3, <2>4, AckedFacts DEF PollerOk
<1>6. CASE Process
  <2>1. /\ stream.at = "sent" /\ stream' = [stream EXCEPT !.at = "processed"]
        /\ processed' = [r \in Rows |-> processed[r] + stream.rows[r]]
        /\ UNCHANGED <<last, server, receiver, saved, redone>>
    BY <1>6 DEF Process
  <2>2. /\ stream' \in Stream /\ stream'.at = "processed" /\ stream'.snap = stream.snap
        /\ stream'.rows = stream.rows
    BY <1>3, <2>1 DEF Stream
  <2>3. /\ processed' \in [Rows -> Nat]
        /\ \A r \in Rows : processed[r] > 0 \/ stream.rows[r] > 0 => processed'[r] > 0
    <3>1. stream.rows \in [Rows -> Nat] /\ processed \in [Rows -> Nat]
      BY <1>3 DEF Stream, PollerTyped
    <3> QED
      BY <2>1, <3>1
  <2>4. PollerTyped'
    BY <1>1, <1>3, <2>1, <2>2, <2>3 DEF PollerTyped
  <2>5. \A s : \A r \in Untouched(s) : r \in Rows
    BY DEF Untouched
  <2>6. Covered(last)' /\ Covered(saved)'
    BY <1>2, <2>1, <2>3, <2>5 DEF Covered, PollerOk
  <2>7. Covered(stream.snap)'
    <3>1. Untouched(stream.snap)' = Untouched(stream.snap)
      BY <1>1, <2>2 DEF Untouched, FilesOf
    <3> QED
      BY <2>1, <2>3, <2>5, <3>1 DEF Covered, PollerOk
  <2> QED
    BY <2>1, <2>2, <2>4, <2>6, <2>7 DEF PollerOk
<1>7. CASE Ack
  <2>1. /\ stream.at = "processed" /\ stream' = [stream EXCEPT !.at = "acked"]
        /\ saved' = stream.snap
        /\ UNCHANGED <<last, server, receiver, processed, redone>>
    BY <1>7 DEF Ack
  <2>2. /\ stream' \in Stream /\ stream'.at = "acked" /\ stream'.snap = stream.snap
    BY <1>3, <2>1 DEF Stream
  <2>3. PollerTyped'
    BY <1>1, <1>3, <2>1, <2>2 DEF PollerTyped
  <2>4. /\ Untouched(stream.snap)' = Untouched(stream.snap)
        /\ Untouched(saved)' = Untouched(stream.snap) /\ Untouched(last)' = Untouched(last)
    BY <1>1, <2>1, <2>2 DEF Untouched, FilesOf
  <2>5. Covered(last)' /\ Covered(saved)' /\ Covered(stream.snap)'
    BY <2>1, <2>4 DEF Covered, PollerOk
  <2> QED
    BY <2>1, <2>2, <2>3, <2>5 DEF PollerOk
<1>8. CASE Drop \/ Close
  <2>1. /\ stream' = stream \/ stream' = [stream EXCEPT !.at = "dropped"]
        /\ receiver' \in BOOLEAN /\ redone' \in BOOLEAN
        /\ UNCHANGED <<last, server, processed, saved>>
    BY <1>3, <1>8 DEF Drop, Close, PollerTyped
  <2>2. /\ stream' \in Stream /\ stream'.snap = stream.snap /\ stream'.rows = stream.rows
        /\ stream'.at = stream.at \/ stream'.at = "dropped"
        /\ (stream'.at # "none" => stream.at # "none")
    BY <1>3, <1>8, <2>1 DEF Stream, Drop, Close, Waiting
  <2>3. PollerTyped'
    BY <1>1, <1>3, <2>1, <2>2 DEF PollerTyped
  <2>4. /\ Untouched(stream.snap)' = Untouched(stream.snap)
        /\ Untouched(saved)' = Untouched(saved) /\ Untouched(last)' = Untouched(last)
    BY <1>1, <2>1, <2>2 DEF Untouched, FilesOf
  <2>5. Covered(last)' /\ Covered(saved)'
        /\ (stream'.at \in {"processed", "acked"} => Covered(stream.snap)')
    BY <2>1, <2>2, <2>4 DEF Covered, PollerOk
  <2>6. stream'.at = "sent" =>
          \A r \in Untouched(stream.snap)' : processed'[r] > 0 \/ stream'.rows[r] > 0
    BY <2>1, <2>2, <2>4 DEF PollerOk
  <2>7. /\ last' <= saved'
        /\ (stream'.at # "none" => last' <= stream'.snap)
        /\ (stream'.at = "acked" => saved' = stream'.snap)
    BY <2>1, <2>2 DEF PollerOk
  <2> QED
    BY <2>3, <2>5, <2>6, <2>7 DEF PollerOk
<1>9. CASE Restart
  <2>1. /\ last' = saved /\ stream' = NoStream /\ server' = "running" /\ receiver' = TRUE
        /\ redone' \in BOOLEAN /\ UNCHANGED <<processed, saved>>
    BY <1>3, <1>9 DEF Restart, PollerTyped
  <2>2. NoStream \in Stream /\ NoStream.at = "none" /\ NoStream.snap = 0
    BY DEF NoStream, Stream, NoRows
  <2>3. PollerTyped'
    BY <1>1, <1>3, <2>1, <2>2 DEF PollerTyped
  <2>4. Covered(last)' /\ Covered(saved)'
    BY <1>2, <2>1 DEF Covered, PollerOk
  <2> QED
    BY <1>3, <2>1, <2>2, <2>3, <2>4 DEF PollerOk, PollerTyped
<1> QED
  BY <1>4, <1>5, <1>6, <1>7, <1>8, <1>9 DEF Poll, Consume, Disturb

LEMMA InitStreamInv == Init => StreamInv
<1> SUFFICES ASSUME Init PROVE StreamInv
  OBVIOUS
<1> USE DEF Init, InitTable, InitCompactor, InitPoller
<1>1. snaps \in Seq(Snapshot) /\ Current = 0 /\ \A s : FilesOf(s) = {} \/ s # 0
  BY DEF Current, FilesOf
<1>2. TableInv
  BY <1>1, TableAssumption
     DEF TableInv, FilesTyped, FilesLast, AppendsKeep, AppendsOnce, TableAssumption
<1>3. JobsOk
  <2>1. splits \in 0..MaxSplits
    BY CompactorAssumption DEF CompactorAssumption
  <2>2. job = [k \in Compactors |-> Idle] /\ \A k \in Compactors : job[k] = Idle
    OBVIOUS
  <2>3. job \in [Compactors -> Job]
    BY <2>2, IdleJob
  <2>4. 0 \in 0..Current
    BY <1>1
  <2> QED
    BY <2>1, <2>2, <2>3, <2>4, IdleJob DEF JobsOk
<1>4. PollerOk
  <2>1. NoStream \in Stream /\ NoStream.at = "none" /\ NoStream.snap = 0
    BY DEF NoStream, Stream, NoRows
  <2>2. Untouched(0) = {}
    BY DEF Untouched, FilesOf
  <2>3. processed \in [Rows -> Nat]
    BY DEF NoRows
  <2> QED
    <3>1. /\ last = 0 /\ saved = 0 /\ stream = NoStream /\ server = "running" /\ receiver = TRUE
          /\ redone = FALSE
      OBVIOUS
    <3>2. PollerTyped
      <4>1. 0 \in 0..Current
        BY <1>1
      <4> QED
        BY <2>1, <2>3, <3>1, <4>1 DEF PollerTyped
    <3> QED
      BY <2>1, <2>2, <3>1, <3>2 DEF PollerOk, Covered
<1> QED
  BY <1>2, <1>3, <1>4 DEF StreamInv

LEMMA FaultBound ==
  ASSUME TableInv, Poll \/ Consume \/ Disturb
  PROVE  UNCHANGED snaps /\ faults' \in 0..MaxFaults /\ UNCHANGED <<job, splits>>
<1>1. UNCHANGED snaps /\ UNCHANGED <<job, splits>>
  BY DEF Poll, Consume, Disturb, tableVars, compactorVars
<1>2. faults \in 0..MaxFaults /\ MaxFaults \in Nat
  BY TableAssumption DEF TableInv, TableAssumption
<1>3. faults' = faults \/ (faults < MaxFaults /\ faults' = faults + 1)
  BY DEF Poll, Consume, Disturb, tableVars, PollEmpty, Drop, Close, Restart, Fault
<1> QED
  BY <1>1, <1>2, <1>3

LEMMA StreamStep == StreamInv /\ [Next]_vars => StreamInv' /\ Extends
<1> SUFFICES ASSUME StreamInv, [Next]_vars PROVE StreamInv' /\ Extends
  OBVIOUS
<1>0. TableInv /\ JobsOk /\ PollerOk
  BY DEF StreamInv
<1>1. CASE Write
  BY <1>0, <1>1, WriteStep DEF StreamInv
<1>2. ASSUME NEW k \in Compactors, Compact(k) \/ Abandon(k), UNCHANGED pollerVars
      PROVE  StreamInv' /\ Extends
  BY <1>0, <1>2, CompactStep DEF StreamInv
<1>3. CASE Poll \/ Consume \/ Disturb
  <2>1. UNCHANGED snaps /\ faults' \in 0..MaxFaults /\ UNCHANGED <<job, splits>>
    BY <1>0, <1>3, FaultBound
  <2>2. TableInv' /\ Extends
    BY <1>0, <2>1, QuietTable
  <2> QED
    BY <1>0, <1>3, <2>1, <2>2, QuietJobs, PollerStep DEF StreamInv
<1>4. CASE UNCHANGED vars
  <2>1. UNCHANGED snaps /\ faults' \in 0..MaxFaults /\ UNCHANGED <<job, splits>>
        /\ UNCHANGED pollerVars
    BY <1>0, <1>4 DEF vars, pollerVars, TableInv
  <2>2. TableInv' /\ Extends
    BY <1>0, <2>1, QuietTable
  <2> QED
    BY <1>0, <2>1, <2>2, QuietJobs, QuietPoller DEF StreamInv
<1> QED
  BY <1>1, <1>2, <1>3, <1>4 DEF Next

\* The inductive invariant.
THEOREM StreamInvHolds == Spec => []StreamInv
<1>1. Init => StreamInv
  BY InitStreamInv
<1>2. StreamInv /\ [Next]_vars => StreamInv'
  BY StreamStep
<1> QED
  BY <1>1, <1>2, PTL DEF Spec

\* scanner.rs: after each commit, an append or a compaction, a window without
\* a compaction is exactly what it adds, and windows that meet deliver no row
\* more often than it was appended.
THEOREM WindowsAreSound == Spec => WindowsSound
<1>1. StreamInv' => (WindowIsExact /\ WindowsDoNotOverlap)'
  <2>1. TableInv => WindowIsExact /\ WindowsDoNotOverlap
    BY WindowExact, WindowsMeet
  <2>2. TableInv' => (WindowIsExact /\ WindowsDoNotOverlap)'
    BY <2>1, PTL
  <2> QED
    BY <2>2 DEF StreamInv
<1>2. StreamInv /\ StreamInv'
        => [Current' > Current => (WindowIsExact /\ WindowsDoNotOverlap)']_snaps
  BY <1>1
<1> QED
  BY <1>2, StreamInvHolds, PTL DEF WindowsSound

\* poller.rs: what a checkpoint covers was processed, unless a compaction
\* rewrote it, and the poller's checkpoint does not pass the consumer's.
THEOREM CheckpointIsSound == Spec => [](TypeOK /\ CheckpointCovers /\ CheckpointsOrdered)
<1>1. StreamInv => TypeOK /\ CheckpointCovers /\ CheckpointsOrdered
  <2> SUFFICES ASSUME StreamInv PROVE TypeOK /\ CheckpointCovers /\ CheckpointsOrdered
    OBVIOUS
  <2>0. TableInv /\ JobsOk /\ PollerOk
    BY DEF StreamInv
  <2>1. TableTypeOK
    <3> SUFFICES ASSUME NEW s \in 1..Current
                 PROVE  /\ snaps[s].op \in {"append", "replace"}
                        /\ \A f \in snaps[s].files :
                             /\ f.seq \in 1..s /\ f.part \in Partitions
                             /\ f.rows = OfPartitions(f.rows, {f.part}) /\ f.rows # NoRows
      BY <2>0 DEF TableTypeOK, TableInv
    <3>1. snaps[s] \in Snapshot
      BY <2>0 DEF TableInv, Current
    <3>2. snaps[s].op \in {"append", "replace"} /\ snaps[s].files \in SUBSET File
      BY <3>1 DEF Snapshot
    <3>3. \A f \in snaps[s].files : f.part \in Partitions
      BY <3>2 DEF File
    <3> QED
      BY <2>0, <3>2, <3>3 DEF TableInv, FilesTyped, InPartition
  <2>2. CompactorTypeOK
    BY <2>0 DEF JobsOk, CompactorTypeOK, Job
  <2>3. PollerTypeOK
    BY <2>0 DEF PollerOk, PollerTyped, PollerTypeOK, Stream
  <2>4. CheckpointCovers
    <3>1. Covered(last) /\ Covered(saved) /\ (stream.at = "acked" => Covered(stream.snap))
      BY <2>0 DEF PollerOk
    <3>2. Untouched(0) = {}
      BY DEF Untouched, FilesOf
    <3> QED
      BY <3>1, <3>2 DEF CheckpointCovers, Covered
  <2> QED
    BY <2>0, <2>1, <2>2, <2>3, <2>4 DEF TypeOK, CheckpointsOrdered, PollerOk
<1> QED
  BY <1>1, StreamInvHolds, PTL

-----------------------------------------------------------------------------
(* Where compactions take whole manifests.                                 *)

\* A rewrite takes out the old files and puts the output in.
LEMMA RewriteContent ==
  ASSUME TableInv, JobsOk, WholeManifests, NEW k \in Compactors, Rewrite(k)
  PROVE  \E bag \in Outputs(k, Content(job[k].old)) :
           \A r \in Rows : \E n \in Nat :
             /\ Content(FilesOf(Current))[r] = n + Content(job[k].old)[r]
             /\ Content(FilesOf(Current))'[r] = n + bag[r]
<1> DEFINE old == job[k].old
           new == job[k].new
           kept == Survivors(old)
           live == FilesOf(Current)
<1>0. Current \in 0..Current /\ Current \in Nat
  BY DEF TableInv, Current
<1>1. job[k].at = "commit" /\ job[k].base = Current /\ old \subseteq live
  BY DEF Rewrite, JobsOk
<1>2. live \in SUBSET File /\ IsFiniteSet(live) /\ \A f \in live : f.seq \in 1..Current
  BY <1>0, FilesFacts
<1>3. old \in SUBSET File /\ IsFiniteSet(old)
  BY <1>1, <1>2, FS_Subset
<1>4. kept = live \ old
  <2>1. ASSUME NEW f \in live, f \in old
        PROVE  f \notin kept
    BY <1>1, <2>1 DEF WholeManifests, Survivors
  <2>2. ASSUME NEW f \in live, f \notin old
        PROVE  f \in kept
    <3>1. f \in Manifest(f)
      BY DEF Manifest
    <3> QED
      BY <2>2, <3>1 DEF Survivors
  <2>3. kept \subseteq live
    BY DEF Survivors
  <2> QED
    BY <2>1, <2>2, <2>3
<1>5. /\ new \in SUBSET NewFile /\ IsFiniteSet(new)
      /\ kept \in SUBSET live /\ AddSnapshot("replace", kept, new)
  BY RewriteCommits
<1>6. IsFiniteSet(kept) /\ kept \in SUBSET File
  BY <1>2, <1>5, FS_Subset
<1>7. Current' = Current + 1 /\ FilesOf(Current)' = kept \cup Stamped(new, Current')
  BY <1>5, CommitExtends
<1>n. PICK c \in Nat : c = Current'
  BY <1>0, <1>7
<1> DEFINE added == Stamped(new, c)
<1>8. IsFiniteSet(added) /\ added \in SUBSET File /\ \A g \in added : g.seq = c
  BY <1>5, StampedTyped
<1>9. Content(old) \in [Rows -> Nat] /\ \A r \in Rows : Content(old)[r] = Cardinality(Copies(old, r))
  BY <1>3, ContentType
<1>10. PICK bag \in Outputs(k, Content(old)) : Spreads(new, bag)
  BY <1>1 DEF JobsOk
<1>11. bag \in [Rows -> Nat]
  BY <1>9, OutputFacts
<1>12. Spreads(added, bag)
  BY <1>5, <1>10, StampedSpread
<1>13. \A r \in Rows : Cardinality(Copies(added, r)) = bag[r]
  <2>1. \A f \in added : f.rows \in [Rows -> Nat]
    BY <1>8 DEF File
  <2> HIDE DEF added
  <2> QED
    BY <1>8, <1>11, <1>12, <2>1, SpreadContent
<1>14. Content(FilesOf(Current))' = [r \in Rows |-> Cardinality(Copies(kept \cup added, r))]
  BY <1>7, <1>n DEF Content, Copies
<1> HIDE DEF added, kept, old, new
<1> SUFFICES ASSUME NEW r \in Rows
             PROVE  \E n \in Nat :
                      /\ Content(live)[r] = n + Content(old)[r]
                      /\ Content(FilesOf(Current))'[r] = n + bag[r]
  BY <1>10 DEF old
<1>15. \A f \in live \cup kept \cup old \cup added : f.rows[r] \in Nat
  BY <1>2, <1>3, <1>6, <1>8 DEF File
<1>16. live = kept \cup old /\ kept \cap old = {}
  BY <1>1, <1>4 DEF old
<1>17. Cardinality(Copies(live, r)) = Cardinality(Copies(kept, r)) + Cardinality(Copies(old, r))
  BY <1>3, <1>6, <1>15, <1>16, CopiesAdd
<1>18. kept \cap added = {}
  BY <1>0, <1>2, <1>4, <1>7, <1>n, <1>8
<1>19. Cardinality(Copies(kept \cup added, r))
         = Cardinality(Copies(kept, r)) + Cardinality(Copies(added, r))
  BY <1>6, <1>8, <1>15, <1>18, CopiesAdd
<1>20. Cardinality(Copies(kept, r)) \in Nat
  BY <1>6, <1>15, CopiesFinite
<1>21. Content(live)[r] = Cardinality(Copies(kept, r)) + Content(old)[r]
  BY <1>9, <1>17 DEF Content
<1>22. Content(FilesOf(Current))'[r] = Cardinality(Copies(kept, r)) + bag[r]
  BY <1>13, <1>14, <1>19
<1> QED
  BY <1>20, <1>21, <1>22

\* The commits of compactors preserve what readers see.
LEMMA RewritesPreserve ==
  ASSUME StreamInv, WholeManifests, [Next]_vars
  PROVE  RewritePreserves /\ DeduplicationKeepsKeys
<1>0. TableInv /\ JobsOk
  BY DEF StreamInv
<1>1. ASSUME NEW k \in Compactors, Commits_(k)
      PROVE  Rewrite(k)
  <2>1. job[k].at = "commit" /\ job'[k] = Idle /\ Current' > Current /\ job'[k] # job[k]
    BY <1>1, IdleJob DEF Commits_
  <2>2. Current \in Nat
    BY <1>0 DEF TableInv, Current
  <2>3. snaps' # snaps /\ job' # job
    BY <2>1, <2>2 DEF Current
  <2>4. PICK i \in Compactors : Compact(i) \/ Abandon(i)
    BY <2>3 DEF Next, vars, Write, Poll, Consume, Disturb, compactorVars, tableVars
  <2>5. Rewrite(i)
    BY <2>3, <2>4 DEF Compact, Plan, Conflict, Reload, Abandon, tableVars
  <2>6. i = k
    <3>1. job' = [job EXCEPT ![i] = Idle]
      BY <2>5 DEF Rewrite
    <3> QED
      BY <1>0, <2>1, <3>1 DEF JobsOk
  <2> QED
    BY <2>5, <2>6
<1>2. ASSUME NEW k \in Compactors, Commits_(k)
      PROVE  \E bag \in Outputs(k, Content(job[k].old)) :
               \A r \in Rows : \E n \in Nat :
                 /\ Content(FilesOf(Current))[r] = n + Content(job[k].old)[r]
                 /\ Content(FilesOf(Current))'[r] = n + bag[r]
  BY <1>0, <1>1, <1>2, RewriteContent
<1>3. ASSUME NEW k \in Compactors
      PROVE  Commits_(k) => Content(job[k].old) \in [Rows -> Nat]
  <2> SUFFICES ASSUME Commits_(k) PROVE Content(job[k].old) \in [Rows -> Nat]
    OBVIOUS
  <2>1. job[k].base \in 0..Current /\ job[k].old \subseteq FilesOf(job[k].base)
    BY <1>0 DEF JobsOk
  <2>2. job[k].old \in SUBSET File /\ IsFiniteSet(job[k].old)
    BY <1>0, <2>1, FilesFacts, FS_Subset
  <2> QED
    BY <2>2, ContentType
<1>4. RewritePreserves
  <2> SUFFICES ASSUME NEW k \in Compactors \ Deduplicating, Commits_(k)
               PROVE  Content(FilesOf(Current))' = Content(FilesOf(Current))
    BY DEF RewritePreserves
  <2>1. PICK bag \in Outputs(k, Content(job[k].old)) :
          \A r \in Rows : \E n \in Nat :
            /\ Content(FilesOf(Current))[r] = n + Content(job[k].old)[r]
            /\ Content(FilesOf(Current))'[r] = n + bag[r]
    BY <1>2
  <2>2. bag = Content(job[k].old)
    BY <1>3, OutputFacts
  <2>3. \A r \in Rows : Content(FilesOf(Current))'[r] = Content(FilesOf(Current))[r]
    BY <2>1, <2>2
  <2> QED
    BY <2>3 DEF Content
<1>5. DeduplicationKeepsKeys
  <2> SUFFICES ASSUME NEW k \in Deduplicating, Commits_(k), NEW r \in Rows
               PROVE  /\ Content(FilesOf(Current))'[r] <= Content(FilesOf(Current))[r]
                      /\ Content(FilesOf(Current))[r] > 0 =>
                           \E s \in Rows : KeyOf[s] = KeyOf[r] /\ Content(FilesOf(Current))'[s] > 0
    BY DEF DeduplicationKeepsKeys
  <2>0. k \in Compactors
    BY CompactorAssumption DEF CompactorAssumption
  <2>1. PICK bag \in Outputs(k, Content(job[k].old)) :
          \A q \in Rows : \E n \in Nat :
            /\ Content(FilesOf(Current))[q] = n + Content(job[k].old)[q]
            /\ Content(FilesOf(Current))'[q] = n + bag[q]
    BY <1>2, <2>0
  <2>2. Content(job[k].old) \in [Rows -> Nat]
    BY <1>3, <2>0
  <2>3. /\ bag \in [Rows -> Nat] /\ \A q \in Rows : bag[q] <= Content(job[k].old)[q]
        /\ \A q \in Rows : Content(job[k].old)[q] > 0 =>
             \E s \in Rows : KeyOf[s] = KeyOf[q] /\ bag[s] > 0
    BY <2>0, <2>2, OutputFacts
  <2>4. \A q \in Rows : Content(job[k].old)[q] \in Nat /\ bag[q] \in Nat
    BY <2>2, <2>3
  <2>5. PICK n \in Nat : /\ Content(FilesOf(Current))[r] = n + Content(job[k].old)[r]
                        /\ Content(FilesOf(Current))'[r] = n + bag[r]
    BY <2>1
  <2>6. Content(FilesOf(Current))'[r] <= Content(FilesOf(Current))[r]
    BY <2>3, <2>4, <2>5
  <2>7. ASSUME Content(FilesOf(Current))[r] > 0
        PROVE  \E s \in Rows : KeyOf[s] = KeyOf[r] /\ Content(FilesOf(Current))'[s] > 0
    <3>1. CASE Content(job[k].old)[r] > 0
      <4>1. PICK s \in Rows : KeyOf[s] = KeyOf[r] /\ bag[s] > 0
        BY <2>3, <3>1
      <4>2. PICK m \in Nat : Content(FilesOf(Current))'[s] = m + bag[s]
        BY <2>1
      <4>3. Content(FilesOf(Current))'[s] > 0
        BY <2>4, <4>1, <4>2
      <4> QED
        BY <4>1, <4>3
    <3>2. CASE Content(job[k].old)[r] = 0
      <4>1. Content(FilesOf(Current))'[r] > 0
        BY <2>4, <2>5, <2>7, <3>2
      <4> QED
        BY <4>1
    <3> QED
      BY <2>4, <3>1, <3>2
  <2> QED
    BY <2>6, <2>7
<1> QED
  BY <1>4, <1>5

\* Compaction preserves what readers see, however it interleaves with writers
\* and other compactors, when it replaces whole manifests.
THEOREM CompactionPreserves == Spec /\ []WholeManifests => PreservesAlways
<1>1. StreamInv /\ WholeManifests /\ [Next]_vars
        => [RewritePreserves /\ DeduplicationKeepsKeys]_<<snaps, job>>
  BY RewritesPreserve
<1> QED
  BY <1>1, StreamInvHolds, PTL DEF Spec, PreservesAlways

\* The lemmas on counting, in a form that holds of the next state too.
CountsAdd ==
  \A r \in Rows : \A a, b, c \in Nat : (a <= b /\ b <= c) =>
    /\ Appends(r, a+1..c) = Appends(r, a+1..b) + Appends(r, b+1..c)
    /\ Appends(r, a+1..b) \in Nat /\ Appends(r, b+1..c) \in Nat

AddedCounts ==
  \A F \in SUBSET File : IsFiniteSet(F) =>
    \A a, b \in 0..Current : \A r \in Rows :
      (\A f \in F : f.seq \in a+1..b /\ snaps[f.seq].op = "append" /\ f \in snaps[f.seq].files)
        => Cardinality(Copies(F, r)) <= Appends(r, a+1..b)

LEMMA CountingNext ==
  /\ CountsAdd /\ CountsAdd'
  /\ TableInv' => AddedCounts'
<1>1. CountsAdd
  BY AppendsAdd, AppendsFacts DEF CountsAdd
<1>2. CountsAdd'
  BY <1>1, PTL
<1>3. TableInv => AddedCounts
  BY AddedCount DEF AddedCounts
<1>4. TableInv' => AddedCounts'
  BY <1>3, PTL
<1> QED
  BY <1>1, <1>2, <1>4

\* What a scan of a window yields was appended in it.
LEMMA ScanCount ==
  ASSUME TableInv, NEW a \in 0..Current, NEW r \in Rows
  PROVE  Content(ScanRange(a, Current))[r] <= Appends(r, a+1..Current)
<1>1. Current \in a..Current /\ Current \in 0..Current
  BY DEF TableInv, Current
<1>2. /\ ScanRange(a, Current) \in SUBSET File /\ IsFiniteSet(ScanRange(a, Current))
      /\ \A f \in ScanRange(a, Current) : /\ f.seq \in a+1..Current /\ snaps[f.seq].op = "append"
                                          /\ f \in snaps[f.seq].files
  BY <1>1, ScanFacts
<1>3. Cardinality(Copies(ScanRange(a, Current), r)) <= Appends(r, a+1..Current)
  BY <1>1, <1>2, AddedCount
<1> QED
  BY <1>3 DEF Content

LEMMA ContentHere ==
  ASSUME TableInv, NEW r \in Rows
  PROVE  Content(FilesOf(Current))[r] \in Nat
<1>1. Current \in 0..Current
  BY DEF TableInv, Current
<1>2. FilesOf(Current) \in SUBSET File /\ IsFiniteSet(FilesOf(Current))
  BY <1>1, FilesFacts
<1> QED
  BY <1>2, ContentType

\* The appends since the start are those up to a and those after it.
LEMMA AppendsSplit ==
  ASSUME NEW r, NEW a \in Nat, NEW c \in Nat, a <= c
  PROVE  /\ Appends(r, 1..c) = Appends(r, 1..a) + Appends(r, a+1..c)
         /\ Appends(r, 1..a) \in Nat /\ Appends(r, a+1..c) \in Nat
<1>1. PICK z \in Nat : z = 0
  OBVIOUS
<1>2. z <= a
  BY <1>1
<1>3. Appends(r, z+1..c) = Appends(r, z+1..a) + Appends(r, a+1..c)
  BY <1>2, AppendsAdd
<1>4. Appends(r, z+1..a) \in Nat /\ Appends(r, a+1..c) \in Nat
  BY AppendsFacts
<1>5. z + 1 = 1
  BY <1>1
<1> QED
  BY <1>3, <1>4, <1>5

LEMMA AppendsGrow ==
  ASSUME TableInv, Extends, NEW r \in Rows,
         NEW b \in Nat, b = Current, NEW c \in Nat, c = Current'
  PROVE  /\ Appends(r, 1..c)' = Appends(r, 1..b) + Appends(r, b+1..c)'
         /\ Appends(r, 1..b) \in Nat /\ Appends(r, b+1..c)' \in Nat
<1>1. PICK z \in Nat : z = 0
  OBVIOUS
<1>2. z <= b /\ b <= c /\ z \in 0..Current /\ b \in 0..Current
  BY <1>1 DEF Extends
<1>3. /\ Appends(r, z+1..c)' = Appends(r, z+1..b)' + Appends(r, b+1..c)'
      /\ Appends(r, z+1..b)' \in Nat /\ Appends(r, b+1..c)' \in Nat
  <2>1. CountsAdd'
    BY CountingNext
  <2>2. \A q \in Rows : \A x, y, w \in Nat : (x <= y /\ y <= w) =>
          /\ Appends(q, x+1..w)' = Appends(q, x+1..y)' + Appends(q, y+1..w)'
          /\ Appends(q, x+1..y)' \in Nat /\ Appends(q, y+1..w)' \in Nat
    BY <2>1 DEF CountsAdd
  <2> QED
    BY <1>2, <2>2
<1>4. Appends(r, z+1..b)' = Appends(r, z+1..b) /\ Appends(r, z+1..b) \in Nat
  BY <1>2, OldStays, AppendsFacts
<1>5. z + 1 = 1
  BY <1>1
<1> QED
  BY <1>3, <1>4, <1>5

LEMMA SeenOnceStep ==
  ASSUME StreamInv, StreamInv', Extends, WholeManifests, SeenOnce, [Next]_vars
  PROVE  SeenOnce'
<1>0. TableInv /\ JobsOk /\ TableInv' /\ Current \in Nat /\ Current' \in Nat /\ Current <= Current'
  BY DEF StreamInv, Extends
<1>b. PICK b \in Nat : b = Current
  BY <1>0
<1>c. PICK c \in Nat : c = Current'
  BY <1>0
<1> SUFFICES ASSUME NEW r \in Rows
             PROVE  Content(FilesOf(Current))'[r] <= Appends(r, 1..c)'
  BY <1>c DEF SeenOnce
<1>1. /\ Appends(r, 1..c)' = Appends(r, 1..b) + Appends(r, b+1..c)'
      /\ Appends(r, 1..b) \in Nat /\ Appends(r, b+1..c)' \in Nat
  BY <1>0, <1>b, <1>c, AppendsGrow
<1>2. Content(FilesOf(Current))[r] <= Appends(r, 1..b) /\ Content(FilesOf(Current))[r] \in Nat
  BY <1>0, <1>b, ContentHere DEF SeenOnce
<1>3. CASE Write
  <2>1. PICK C \in Commits : Ingest(C)
    BY <1>3 DEF Write
  <2>2. PICK new \in SUBSET NewFile :
          /\ IsFiniteSet(new) /\ \A f \in new : InPartition(f)
          /\ Spreads(new, BagOf(C)) /\ BagOf(C) \in [Rows -> 0..1]
          /\ AddSnapshot("append", FilesOf(Current), new)
    BY <2>1, IngestCommits
  <2>3. /\ Current' = Current + 1 /\ snaps'[Current'].op = "append"
        /\ FilesOf(Current)' = FilesOf(Current) \cup Stamped(new, Current')
    BY <1>0, <2>2, CommitExtends
  <2> DEFINE added == Stamped(new, c)
             live == FilesOf(Current)
  <2>4. IsFiniteSet(added) /\ added \in SUBSET File /\ \A g \in added : g.seq = c
    BY <2>2, StampedTyped
  <2>5. live \in SUBSET File /\ IsFiniteSet(live) /\ \A f \in live : f.seq \in 1..Current
    <3>1. Current \in 0..Current
      BY <1>0
    <3> QED
      BY <1>0, <3>1, FilesFacts
  <2>6. Content(FilesOf(Current))' = [q \in Rows |-> Cardinality(Copies(live \cup added, q))]
    BY <1>c, <2>3 DEF Content, Copies
  <2> HIDE DEF added
  <2>7. \A f \in live \cup added : f.rows[r] \in Nat
    BY <2>4, <2>5 DEF File
  <2>8. Cardinality(Copies(live \cup added, r))
          = Cardinality(Copies(live, r)) + Cardinality(Copies(added, r))
    <3>1. live \cap added = {}
      BY <1>0, <1>c, <2>3, <2>4, <2>5
    <3> HIDE DEF live
    <3> QED
      BY <2>4, <2>5, <2>7, <3>1, CopiesAdd
  <2>9. Cardinality(Copies(added, r)) <= Appends(r, b+1..c)'
    <3>1. \A f \in added : f.seq \in b+1..c /\ snaps'[f.seq].op = "append" /\ f \in snaps'[f.seq].files
      <4>1. c \in b+1..c /\ c # 0
        BY <1>0, <1>b, <1>c, <2>3
      <4>2. snaps'[c].files = FilesOf(Current)'
        BY <1>c, <4>1 DEF FilesOf
      <4> QED
        BY <1>c, <2>3, <2>4, <4>1, <4>2 DEF added
    <3>2. b \in 0..Current' /\ c \in 0..Current'
      BY <1>0, <1>b, <1>c
    <3> QED
      BY <1>0, <2>4, <3>1, <3>2, CountingNext DEF AddedCounts
  <2>10. Cardinality(Copies(added, r)) \in Nat
    BY <2>4, <2>7, CopiesFinite
  <2>11. Content(live)[r] = Cardinality(Copies(live, r))
    BY DEF Content
  <2>12. Content(FilesOf(Current))'[r] = Content(live)[r] + Cardinality(Copies(added, r))
    BY <2>6, <2>8, <2>11
  <2> QED
    BY <1>1, <1>2, <2>9, <2>10, <2>12
<1>4. ASSUME NEW k \in Compactors, Rewrite(k)
      PROVE  Content(FilesOf(Current))'[r] <= Appends(r, 1..c)'
  <2>1. PICK bag \in Outputs(k, Content(job[k].old)) :
          \A q \in Rows : \E n \in Nat :
            /\ Content(FilesOf(Current))[q] = n + Content(job[k].old)[q]
            /\ Content(FilesOf(Current))'[q] = n + bag[q]
    BY <1>0, <1>4, RewriteContent
  <2>2. Content(job[k].old) \in [Rows -> Nat]
    <3>1. job[k].base \in 0..Current /\ job[k].old \subseteq FilesOf(job[k].base)
      BY <1>0 DEF JobsOk
    <3>2. job[k].old \in SUBSET File /\ IsFiniteSet(job[k].old)
      BY <1>0, <3>1, FilesFacts, FS_Subset
    <3> QED
      BY <3>2, ContentType
  <2>3. bag \in [Rows -> Nat] /\ bag[r] <= Content(job[k].old)[r]
    BY <2>2, OutputFacts
  <2>4. Content(job[k].old)[r] \in Nat /\ bag[r] \in Nat
    BY <2>2, <2>3
  <2>5. PICK n \in Nat : /\ Content(FilesOf(Current))[r] = n + Content(job[k].old)[r]
                        /\ Content(FilesOf(Current))'[r] = n + bag[r]
    BY <2>1
  <2> QED
    BY <1>1, <1>2, <2>3, <2>4, <2>5
<1>5. CASE UNCHANGED snaps
  <2>1. Content(FilesOf(Current))' = Content(FilesOf(Current))
    BY <1>5 DEF Content, FilesOf, Current, Copies
  <2> QED
    BY <1>1, <1>2, <2>1
<1>6. Write \/ (\E k \in Compactors : Rewrite(k)) \/ UNCHANGED snaps
  BY DEF Next, vars, Poll, Consume, Disturb, tableVars, Compact, Plan, Conflict, Reload, Abandon
<1> QED
  BY <1>3, <1>4, <1>5, <1>6

LEMMA ConsumedOnceStep ==
  ASSUME StreamInv, StreamInv', Extends, SeenOnce, ConsumedOnce, [Next]_vars
  PROVE  ConsumedOnce'
<1>0. /\ TableInv /\ PollerOk /\ PollerTyped /\ stream \in Stream
      /\ Current \in Nat /\ Reached \in 0..Current /\ saved \in 0..Current /\ last \in 0..Current
  BY DEF StreamInv, Extends, PollerOk, PollerTyped, Reached
<1> SUFFICES ASSUME ~redone'
             PROVE  /\ stream'.at # "dropped"
                    /\ stream'.at # "acked" => last' = saved'
                    /\ \A r \in Rows : processed'[r] + InStream(r)' <= Appends(r, 1..Reached)'
  BY DEF ConsumedOnce
<1>1. \A r \in Rows, a \in 0..Current : Appends(r, 1..a)' = Appends(r, 1..a)
  <2> SUFFICES ASSUME NEW r \in Rows, NEW a \in 0..Current
               PROVE  Appends(r, 1..a)' = Appends(r, 1..a)
    OBVIOUS
  <2>1. 0 \in 0..Current /\ 0 + 1 = 1
    BY <1>0
  <2>2. Appends(r, 0+1..a)' = Appends(r, 0+1..a)
    BY <1>0, <2>1, OldStays
  <2> QED
    BY <2>1, <2>2
<1>2. CASE UNCHANGED pollerVars
  <2>1. UNCHANGED <<last, stream, saved, processed, redone>> /\ Reached' = Reached
    BY <1>2 DEF pollerVars, Reached
  <2>2. \A r \in Rows : Appends(r, 1..Reached)' = Appends(r, 1..Reached)
    <3>1. PICK a \in 0..Current : a = Reached
      BY <1>0
    <3> QED
      BY <1>1, <2>1, <3>1
  <2> QED
    BY <2>1, <2>2 DEF ConsumedOnce, InStream
<1>3. ASSUME UNCHANGED snaps, NEW r \in Rows, NEW a \in 0..Current, Reached' = a,
             Reached = a, processed'[r] + InStream(r)' = processed[r] + InStream(r), ~redone
      PROVE  processed'[r] + InStream(r)' <= Appends(r, 1..Reached)'
  <2>1. Appends(r, 1..a)' = Appends(r, 1..a)
    BY <1>1, <1>3
  <2>2. processed[r] + InStream(r) <= Appends(r, 1..a)
    BY <1>3 DEF ConsumedOnce
  <2> QED
    BY <1>3, <2>1, <2>2
<1>4. ASSUME ~Waiting, ~redone
      PROVE  Reached = Acked /\ Acked = saved /\ \A r \in Rows : InStream(r) = 0
  <2>1. stream.at \in {"none", "acked"}
    BY <1>0, <1>4 DEF ConsumedOnce, Waiting, Stream
  <2>2. stream.at = "acked" => saved = stream.snap
    BY <1>0 DEF PollerOk
  <2> QED
    BY <1>4, <2>1, <2>2 DEF ConsumedOnce, Acked, Reached, InStream
<1>5. ASSUME PollSends, UNCHANGED snaps
      PROVE  /\ stream'.at # "dropped"
             /\ stream'.at # "acked" => last' = saved'
             /\ \A r \in Rows : processed'[r] + InStream(r)' <= Appends(r, 1..Reached)'
  <2>1. /\ ~redone /\ ~Waiting /\ last' = Acked /\ saved' = saved /\ processed' = processed
        /\ stream' = [at |-> "sent", snap |-> Current, rows |-> ToSend]
    BY <1>5 DEF PollSends
  <2>2. /\ stream'.at = "sent" /\ Reached' = Current /\ Reached = Acked /\ Acked = saved
        /\ \A r \in Rows : InStream(r)' = ToSend[r] /\ InStream(r) = 0
    BY <1>4, <2>1 DEF Reached, InStream
  <2>3. ASSUME NEW r \in Rows
        PROVE  processed'[r] + InStream(r)' <= Appends(r, 1..Reached)'
    <3>1. PICK a \in 0..Current : a = Acked
      BY <1>0, <2>2
    <3>2. PICK c \in 0..Current : c = Current
      BY <1>0
    <3>3. /\ Appends(r, 1..c) = Appends(r, 1..a) + Appends(r, a+1..c)
          /\ Appends(r, 1..a) \in Nat /\ Appends(r, a+1..c) \in Nat
      <4>1. a \in Nat /\ c \in Nat /\ a <= c
        BY <1>0, <3>1, <3>2
      <4> QED
        BY <4>1, AppendsSplit
    <3>4. processed[r] <= Appends(r, 1..a) /\ processed[r] \in Nat
      <4>1. processed[r] + 0 <= Appends(r, 1..a)
        BY <2>1, <2>2, <3>1 DEF ConsumedOnce
      <4>2. processed[r] \in Nat
        BY <1>0 DEF PollerTyped
      <4> QED
        BY <4>1, <4>2
    <3>5. ToSend[r] \in Nat /\ processed[r] + ToSend[r] <= Appends(r, 1..c)
      <4>1. CASE a = 0
        <5>1. ToSend[r] = Content(FilesOf(Current))[r]
          BY <3>1, <4>1 DEF ToSend
        <5>2. ToSend[r] \in Nat /\ ToSend[r] <= Appends(r, 1..c)
          BY <1>0, <3>2, <5>1, ContentHere DEF SeenOnce
        <5>3. processed[r] = 0
          <6>1. Appends(r, 1..0) = 0
            BY FS_EmptySet, 1..0 = {} DEF Appends
          <6> QED
            BY <3>4, <4>1, <6>1
        <5> QED
          BY <5>2, <5>3
      <4>2. CASE a # 0
        <5>1. ToSend[r] = Content(ScanRange(a, Current))[r]
          BY <3>1, <4>2 DEF ToSend
        <5>2. ToSend[r] <= Appends(r, a+1..c)
          BY <1>0, <3>2, <5>1, ScanCount
        <5>3. ToSend[r] \in Nat
          <6>1. Current \in a..Current
            BY <1>0
          <6>2. ScanRange(a, Current) \in SUBSET File /\ IsFiniteSet(ScanRange(a, Current))
            BY <1>0, <6>1, ScanFacts
          <6> QED
            BY <5>1, <6>2, ContentType
        <5> QED
          BY <3>3, <3>4, <5>2, <5>3
      <4> QED
        BY <4>1, <4>2
    <3>6. Appends(r, 1..c)' = Appends(r, 1..c)
      BY <1>1
    <3> QED
      BY <2>1, <2>2, <3>2, <3>5, <3>6
  <2> QED
    BY <2>1, <2>2, <2>3
<1>6. ASSUME ~Waiting, ~redone, UNCHANGED <<snaps, processed, saved>>, stream' = NoStream,
             last' = saved
      PROVE  /\ stream'.at # "dropped"
             /\ stream'.at # "acked" => last' = saved'
             /\ \A r \in Rows : processed'[r] + InStream(r)' <= Appends(r, 1..Reached)'
  <2>1. /\ stream'.at = "none" /\ Reached' = saved /\ Reached = saved
        /\ \A r \in Rows : InStream(r)' = 0 /\ InStream(r) = 0
    BY <1>4, <1>6 DEF NoStream, Reached, InStream
  <2>2. PICK a \in 0..Current : a = saved
    BY <1>0
  <2> QED
    BY <1>3, <1>6, <2>1, <2>2
<1>7. ASSUME PollEmpty \/ PollGone, UNCHANGED snaps
      PROVE  /\ stream'.at # "dropped"
             /\ stream'.at # "acked" => last' = saved'
             /\ \A r \in Rows : processed'[r] + InStream(r)' <= Appends(r, 1..Reached)'
  <2>1. /\ ~Waiting /\ ~redone /\ UNCHANGED <<snaps, processed, saved>> /\ stream' = NoStream
        /\ last' = Acked
    BY <1>7 DEF PollEmpty, PollGone
  <2> QED
    BY <1>4, <1>6, <2>1
<1>8. ASSUME Process, UNCHANGED snaps
      PROVE  /\ stream'.at # "dropped"
             /\ stream'.at # "acked" => last' = saved'
             /\ \A r \in Rows : processed'[r] + InStream(r)' <= Appends(r, 1..Reached)'
  <2>1. /\ ~redone /\ stream.at = "sent" /\ stream' = [stream EXCEPT !.at = "processed"]
        /\ processed' = [r \in Rows |-> processed[r] + stream.rows[r]]
        /\ last' = last /\ saved' = saved
    BY <1>8 DEF Process
  <2>2. stream'.at = "processed" /\ stream'.snap = stream.snap
    BY <1>0, <2>1 DEF Stream
  <2>3. Reached' = Reached /\ \A r \in Rows : InStream(r)' = 0 /\ InStream(r) = stream.rows[r]
    BY <2>1, <2>2 DEF Reached, InStream
  <2>4. ASSUME NEW r \in Rows
        PROVE  processed'[r] + InStream(r)' = processed[r] + InStream(r)
    <3>1. processed[r] \in Nat /\ stream.rows[r] \in Nat
      BY <1>0 DEF PollerTyped, Stream
    <3>2. processed'[r] = processed[r] + stream.rows[r]
      BY <2>1
    <3> QED
      BY <2>3, <3>1, <3>2
  <2>5. PICK a \in 0..Current : a = Reached
    BY <1>0
  <2>6. \A r \in Rows : processed'[r] + InStream(r)' <= Appends(r, 1..Reached)'
    BY <1>3, <1>8, <2>1, <2>3, <2>4, <2>5
  <2> QED
    BY <2>1, <2>2, <2>6 DEF ConsumedOnce
<1>9. ASSUME Ack, UNCHANGED snaps
      PROVE  /\ stream'.at # "dropped"
             /\ stream'.at # "acked" => last' = saved'
             /\ \A r \in Rows : processed'[r] + InStream(r)' <= Appends(r, 1..Reached)'
  <2>1. /\ ~redone /\ stream.at = "processed" /\ stream' = [stream EXCEPT !.at = "acked"]
        /\ processed' = processed
    BY <1>9 DEF Ack
  <2>2. stream'.at = "acked" /\ stream'.snap = stream.snap
    BY <1>0, <2>1 DEF Stream
  <2>3. Reached' = Reached /\ \A r \in Rows : InStream(r)' = 0 /\ InStream(r) = 0
    BY <2>1, <2>2 DEF Reached, InStream
  <2>4. PICK a \in 0..Current : a = Reached
    BY <1>0
  <2> QED
    BY <1>3, <1>9, <2>1, <2>2, <2>3, <2>4
<1>10. ASSUME Close, UNCHANGED snaps
       PROVE  /\ stream'.at # "dropped"
              /\ stream'.at # "acked" => last' = saved'
              /\ \A r \in Rows : processed'[r] + InStream(r)' <= Appends(r, 1..Reached)'
  <2>1. ~redone /\ UNCHANGED <<stream, last, saved, processed>>
    BY <1>10 DEF Close
  <2>2. Reached' = Reached /\ \A r \in Rows : InStream(r)' = InStream(r)
    BY <2>1 DEF Reached, InStream
  <2>3. PICK a \in 0..Current : a = Reached
    BY <1>0
  <2>4. \A r \in Rows : processed'[r] + InStream(r)' <= Appends(r, 1..Reached)'
    BY <1>3, <1>10, <2>1, <2>2, <2>3
  <2> QED
    BY <2>1, <2>4 DEF ConsumedOnce
<1>11. ASSUME Restart, UNCHANGED snaps
       PROVE  /\ stream'.at # "dropped"
              /\ stream'.at # "acked" => last' = saved'
              /\ \A r \in Rows : processed'[r] + InStream(r)' <= Appends(r, 1..Reached)'
  <2>1. /\ ~Waiting /\ ~redone /\ UNCHANGED <<snaps, processed, saved>> /\ stream' = NoStream
        /\ last' = saved
    BY <1>11 DEF Restart
  <2> QED
    BY <1>6, <2>1
<1>12. ~Drop
  BY DEF Drop
<1>13. CASE Poll
  BY <1>5, <1>7, <1>13 DEF Poll
<1>14. CASE Consume
  BY <1>8, <1>9, <1>14 DEF Consume, tableVars
<1>15. CASE Disturb
  BY <1>10, <1>11, <1>12, <1>15 DEF Disturb
<1>16. Poll \/ Consume \/ Disturb \/ UNCHANGED pollerVars
  BY DEF Next, vars, Write, pollerVars
<1> QED
  BY <1>2, <1>13, <1>14, <1>15, <1>16

\* README.md: nothing is delivered twice to a consumer that drops no stream,
\* whatever was compacted meanwhile, and its checkpoint covers what it
\* processed, where compactions replace whole manifests.
THEOREM DeliveryIsSound == Spec /\ []WholeManifests => []DeliverySound
<1>1. Init => SeenOnce /\ ConsumedOnce
  <2> SUFFICES ASSUME Init PROVE SeenOnce /\ ConsumedOnce
    OBVIOUS
  <2>1. TableInv /\ Current = 0 /\ last = 0 /\ saved = 0 /\ stream = NoStream /\ processed = NoRows
    BY InitStreamInv DEF StreamInv, Init, InitTable, InitPoller, Current
  <2>2. \A r \in Rows : Appends(r, 1..0) = 0
    BY FS_EmptySet, 1..0 = {} DEF Appends
  <2>3. ASSUME NEW r \in Rows
        PROVE  Content({})[r] = 0
    <3>1. Copies({}, r) = {}
      BY DEF Copies
    <3> QED
      BY <3>1, FS_EmptySet DEF Content
  <2>4. SeenOnce
    BY <2>1, <2>2, <2>3 DEF SeenOnce, FilesOf
  <2>5. Reached = 0 /\ stream.at = "none" /\ \A r \in Rows : InStream(r) = 0 /\ processed[r] = 0
    BY <2>1 DEF Reached, InStream, NoStream, NoRows
  <2> QED
    BY <2>1, <2>2, <2>4, <2>5 DEF ConsumedOnce
<1>2. StreamInv /\ StreamInv' /\ WholeManifests /\ SeenOnce /\ ConsumedOnce /\ [Next]_vars
        => SeenOnce' /\ ConsumedOnce'
  <2>1. StreamInv /\ [Next]_vars => Extends
    BY StreamStep
  <2> QED
    BY <2>1, SeenOnceStep, ConsumedOnceStep
<1>3. StreamInv /\ SeenOnce /\ ConsumedOnce => OnceUnlessRedone
  <2> SUFFICES ASSUME StreamInv, ConsumedOnce, ~redone, NEW r \in Rows
               PROVE  processed[r] <= Appends(r, 1..Current)
    BY DEF OnceUnlessRedone
  <2>1. /\ TableInv /\ PollerTyped /\ Current \in Nat /\ stream.snap \in 0..Current
        /\ last \in 0..Current /\ Reached \in 0..Current
    BY DEF StreamInv, PollerOk, PollerTyped, TableInv, Current, Reached
  <2>2. PICK a \in 0..Current : a = Reached
    BY <2>1
  <2>3. PICK c \in 0..Current : c = Current
    BY <2>1
  <2>4. processed[r] \in Nat /\ InStream(r) \in Nat
    BY <2>1 DEF PollerTyped, Stream, InStream
  <2>5. processed[r] + InStream(r) <= Appends(r, 1..a)
    BY <2>2 DEF ConsumedOnce
  <2>6. /\ Appends(r, 1..c) = Appends(r, 1..a) + Appends(r, a+1..c)
        /\ Appends(r, 1..a) \in Nat /\ Appends(r, a+1..c) \in Nat
    <3>1. a \in Nat /\ c \in Nat /\ a <= c
      BY <2>1, <2>2, <2>3
    <3> QED
      BY <3>1, AppendsSplit
  <2> QED
    BY <2>3, <2>4, <2>5, <2>6
<1>4. Spec /\ []WholeManifests => []OnceUnlessRedone
  BY <1>1, <1>2, <1>3, StreamInvHolds, PTL DEF Spec
<1> QED
  BY <1>4, CheckpointIsSound, PTL DEF DeliverySound

-----------------------------------------------------------------------------
(* Tables without partitions.                                              *)

\* A compaction that takes all the files of a snapshot takes whole manifests:
\* later snapshots add none of an earlier number.
LEMMA AllFilesWhole == ASSUME StreamInv, OldIsAll PROVE WholeManifests
<1> SUFFICES ASSUME NEW k \in Compactors, job[k].at = "commit",
                    NEW f \in job[k].old, NEW g \in Manifest(f)
             PROVE  g \in job[k].old
  BY DEF WholeManifests
<1>0. TableInv /\ Current \in Nat
  BY DEF StreamInv, TableInv, Current
<1>1. PICK p \in 0..Current : job[k].old = FilesOf(p)
  BY DEF OldIsAll
<1>2. f.seq \in 1..p /\ p \in 1..Current
  BY <1>0, <1>1, FilesFacts
<1>3. g \in snaps[Current].files /\ g.seq = f.seq
  BY <1>0, <1>2 DEF Manifest, FilesOf
<1>4. Current \in 1..Current /\ p \in g.seq..Current
  BY <1>0, <1>2, <1>3
<1>5. g \in snaps[p].files
  BY <1>0, <1>3, <1>4 DEF TableInv, FilesLast
<1> QED
  BY <1>1, <1>2, <1>5 DEF FilesOf

\* Without partitions, enough files means all of them.
LEMMA CompactsAll ==
  ASSUME Unpartitioned, TableInv
  PROVE  ToCompact = {} \/ ToCompact = FilesOf(Current)
<1>0. Current \in 0..Current
  BY DEF TableInv, Current
<1>1. \A f \in FilesOf(Current) : f.part \in Partitions
  BY <1>0, FilesFacts DEF File
<1>2. \A p, q \in Partitions : p = q
  BY DEF Unpartitioned, Partitions
<1>3. \A p \in Partitions : FilesIn(Current, p) = FilesOf(Current)
  BY <1>1, <1>2 DEF FilesIn
<1>4. CASE \E p \in Partitions : EnoughFiles(p)
  BY <1>3, <1>4 DEF ToCompact
<1>5. CASE ~ \E p \in Partitions : EnoughFiles(p)
  BY <1>5 DEF ToCompact
<1> QED
  BY <1>4, <1>5

\* Jobs keep their old files, and these their snapshot.
LEMMA OldIsAllStep ==
  ASSUME Unpartitioned, StreamInv, Extends, OldIsAll, [Next]_vars
  PROVE  OldIsAll'
<1>0. TableInv /\ JobsOk /\ Current \in Nat
  BY DEF StreamInv, Extends
<1>1. \A p \in 0..Current : p \in 0..Current' /\ FilesOf(p)' = FilesOf(p)
  BY DEF Extends
<1>2. ASSUME NEW k \in Compactors, job'[k].at # "idle", job'[k].old = job[k].old, job[k].at # "idle"
      PROVE  \E p \in 0..Current' : job'[k].old = FilesOf(p)'
  BY <1>1, <1>2 DEF OldIsAll
<1>3. ASSUME NEW k \in Compactors, Compact(k) \/ Abandon(k), NEW i \in Compactors,
             job'[i].at # "idle"
      PROVE  \E p \in 0..Current' : job'[i].old = FilesOf(p)'
  <2>1. CASE i # k
    <3>1. job'[i] = job[i]
      BY <1>0, <1>3, <2>1 DEF Compact, Plan, Rewrite, Conflict, Reload, Abandon, JobsOk
    <3> QED
      BY <1>2, <1>3, <3>1
  <2>2. CASE i = k /\ Plan(k)
    <3>1. job'[k].old = ToCompact
      BY <1>0, <2>2 DEF Plan, JobsOk
    <3>2. FilesOf(0) = {} /\ 0 \in 0..Current /\ Current \in 0..Current
      BY <1>0 DEF FilesOf
    <3>3. \E p \in 0..Current : job'[k].old = FilesOf(p)
      BY <1>0, <3>1, <3>2, CompactsAll
    <3> QED
      BY <1>1, <2>2, <3>3
  <2>3. CASE i = k /\ (Rewrite(k) \/ Abandon(k))
    <3>1. job'[k] = Idle
      BY <1>0, <2>3 DEF Rewrite, Abandon, JobsOk
    <3> QED
      BY <1>3, <2>3, <3>1 DEF Idle
  <2>4. CASE i = k /\ (Conflict(k) \/ Reload(k))
    <3>1. job[k].at # "idle"
      BY <2>4 DEF Conflict, Reload
    <3>2. job[k] \in Job
      BY <1>0 DEF JobsOk
    <3>3. job'[k].old = job[k].old
      <4>1. CASE job'[k] = Idle
        BY <1>3, <2>4, <4>1 DEF Idle
      <4>2. CASE job'[k] # Idle
        BY <1>0, <2>4, <3>2, <4>2 DEF Conflict, Reload, JobsOk, Job
      <4> QED
        BY <4>1, <4>2
    <3> QED
      BY <1>2, <1>3, <2>4, <3>1, <3>3
  <2> QED
    BY <1>3, <2>1, <2>2, <2>3, <2>4 DEF Compact
<1>4. CASE UNCHANGED job
  BY <1>2, <1>4 DEF OldIsAll
<1>5. (\E k \in Compactors : Compact(k) \/ Abandon(k)) \/ UNCHANGED job
  BY DEF Next, vars, Write, Poll, Consume, Disturb, compactorVars
<1> QED
  BY <1>3, <1>4, <1>5 DEF OldIsAll

\* So in a table without partitions no commit leaves a part of a manifest.
LEMMA WithoutPartitions == ASSUME Unpartitioned PROVE Spec => []WholeManifests
<1>1. Init => OldIsAll
  BY DEF Init, InitCompactor, OldIsAll, Idle
<1>2. StreamInv /\ OldIsAll /\ [Next]_vars => OldIsAll'
  BY StreamStep, OldIsAllStep
<1>3. StreamInv /\ OldIsAll => WholeManifests
  BY AllFilesWhole
<1> QED
  BY <1>1, <1>2, <1>3, StreamInvHolds, PTL DEF Spec

\* compactor.rs, "readers never see duplicated data", for a table without
\* partitions: no commit of a compactor changes what readers see, whatever
\* writers and other compactors do meanwhile.
THEOREM UnpartitionedPreserves == ASSUME Unpartitioned PROVE Spec => PreservesAlways
BY WithoutPartitions, CompactionPreserves, PTL

\* README.md's streaming promise for a table without partitions: the
\* checkpoint covers what was processed, and nothing is delivered twice to a
\* consumer that drops no stream.
THEOREM UnpartitionedDelivers == ASSUME Unpartitioned PROVE Spec => []DeliverySound
BY WithoutPartitions, DeliveryIsSound, PTL
=============================================================================
