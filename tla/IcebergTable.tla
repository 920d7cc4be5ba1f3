----------------------------- MODULE IcebergTable -----------------------------
(***************************************************************************)
(* The main branch of an iceberg table as prestige's compactor and readers *)
(* use it, and the scans of src/prestige/src/iceberg/scanner.rs.           *)
(*                                                                         *)
(* Main is linear here (AuditBranches models the branches): a snapshot is  *)
(* named by its position, which is its sequence number too.  A data file   *)
(* carries the number of the snapshot that added it, so the files of one   *)
(* number are one manifest.                                                *)
(***************************************************************************)
EXTENDS Naturals, Sequences, FiniteSets

CONSTANTS
  Rows,         \* the rows that writers append
  PartitionOf,  \* row -> partition
  Commits,      \* the batches that writers append, each of them once
  MaxFaults     \* bound on faults

ASSUME TableAssumption ==
  /\ IsFiniteSet(Rows)
  /\ Commits \subseteq (SUBSET Rows) \ {{}}
  /\ MaxFaults \in Nat

VARIABLES
  snaps,   \* main: snapshots with their operation and live data files
  faults   \* faults so far

tableVars == <<snaps, faults>>

Partitions == {PartitionOf[r] : r \in Rows}
Current == Len(snaps)
FilesOf(s) == IF s = 0 THEN {} ELSE snaps[s].files
Manifest(f) == {g \in FilesOf(Current) : g.seq = f.seq}

\* The copies of row r in the files F.
Copies(F, r) == UNION {{f} \X (1..f.rows[r]) : f \in F}

\* How often the files F hold each row: what a reader of them gets.
Content(F) == [r \in Rows |-> Cardinality(Copies(F, r))]
NoRows == [r \in Rows |-> 0]

\* The rows of bag that belong to the partitions P.
OfPartitions(bag, P) == [r \in Rows |-> IF PartitionOf[r] \in P THEN bag[r] ELSE 0]

\* A commit: one more snapshot, whose new files get its number.
AddSnapshot(op, kept, new) ==
  snaps' = Append(snaps, [op |-> op,
    files |-> kept \cup {[seq |-> Current + 1, part |-> f.part, rows |-> f.rows] : f \in new}])

InitTable == snaps = <<>> /\ faults = 0

\* How many appends with the row r the snapshots of window hold.
Appends(r, window) ==
  Cardinality({s \in window : /\ snaps[s].op = "append"
                              /\ \E f \in snaps[s].files : f.seq = s /\ f.rows[r] > 0})

\* A writer appends a batch: one file for each partition it has rows of.
Ingest(C) ==
  /\ \A r \in C : Appends(r, 1..Current) = 0
  /\ LET bag == [r \in Rows |-> IF r \in C THEN 1 ELSE 0] IN
     AddSnapshot("append", FilesOf(Current),
       {[part |-> p, rows |-> OfPartitions(bag, {p})] : p \in {PartitionOf[r] : r \in C}})
  /\ UNCHANGED faults

Fault == faults < MaxFaults /\ faults' = faults + 1

-----------------------------------------------------------------------------
(* scanner.rs                                                              *)

\* Mutant: compactions are not told from appends.
NoReplaces(after, to) == {}
\* The snapshots of the window that rewrote data.
Replaces(after, to) == {s \in after+1..to : snaps[s].op = "replace"}

\* The files an incremental scan reads: those alive at to that the appends
\* of the window added.
ScanRange(after, to) ==
  {f \in FilesOf(to) : f.seq \in after+1..to /\ f.seq \notin Replaces(after, to)}

TableTypeOK ==
  /\ faults \in 0..MaxFaults
  /\ \A s \in 1..Current :
       /\ snaps[s].op \in {"append", "replace"}
       /\ \A f \in snaps[s].files :
            /\ f.seq \in 1..s
            /\ f.part \in Partitions
            /\ f.rows = OfPartitions(f.rows, {f.part}) /\ f.rows # NoRows

\* scanner.rs of append-only workloads: a window without a compaction yields
\* exactly the rows that it adds to what readers see ("exactly the new records
\* in the window").  What it says of other windows is WindowReturnsAdded.
WindowIsExact ==
  \A after \in 0..Current :
    Replaces(after, Current) = {} =>
      \A r \in Rows : Content(FilesOf(Current))[r]
                        = Content(FilesOf(after))[r] + Content(ScanRange(after, Current))[r]

\* scanner.rs: two windows that meet at a snapshot never deliver a row more
\* often than it was appended, whatever was rewritten in either of them.
WindowsDoNotOverlap ==
  \A after \in 0..Current : \A mid \in after..Current, r \in Rows :
    Content(ScanRange(after, mid))[r] + Content(ScanRange(mid, Current))[r]
      <= Appends(r, after+1..Current)

\* What scanner.rs says of every window: it "returns all data added after"
\* the lower bound, and "for tables with compaction it returns the compacted
\* output files".  A row appended in the window that readers of the table see
\* is then in the scan, in its own file or in a rewritten one.
WindowReturnsAdded ==
  \A after \in 1..Current, r \in Rows :
    Appends(r, after+1..Current) > 0 /\ Content(FilesOf(Current))[r] > 0
      => Content(ScanRange(after, Current))[r] > 0

\* Exact and apart, whenever the table changed.
WindowsSound == [][Current' > Current => (WindowIsExact /\ WindowsDoNotOverlap)']_snaps
=============================================================================
