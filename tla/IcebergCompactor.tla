--------------------------- MODULE IcebergCompactor ---------------------------
(***************************************************************************)
(* The iceberg compactor and its scheduler,                                *)
(* src/prestige/src/iceberg/compactor.rs: a tick loads the table, takes    *)
(* the partitions with enough files, writes their rows to new files and    *)
(* swaps these in by an optimistic commit that is repeated on conflicts.   *)
(***************************************************************************)
EXTENDS IcebergTable

CONSTANTS
  Compactors,        \* the schedulers at work on the table
  Deduplicating,     \* those with deduplicate(true)
  KeyOf,             \* row -> its identifier columns
  MinFiles,          \* min_files_to_compact
  MaxCommitRetries,  \* MAX_COMMIT_RETRIES
  MaxSplits          \* bound: rewrites that exceed the target file size

ASSUME CompactorAssumption ==
  /\ Deduplicating \subseteq Compactors
  /\ {MinFiles, MaxCommitRetries, MaxSplits} \subseteq Nat

VARIABLES
  job,     \* compactor -> its execute()
  splits   \* rewrites that wrote more than one file of a partition

compactorVars == <<job, splits>>

Idle == [at |-> "idle", base |-> 0, old |-> {}, new |-> {}, tries |-> 0]

InitCompactor == job = [k \in Compactors |-> Idle] /\ splits = 0

-----------------------------------------------------------------------------
(* Planning and rewriting.  Data files never change, so reading the files  *)
(* of a loaded snapshot and writing the new ones is part of the same step. *)

FilesIn(s, p) == {f \in FilesOf(s) : f.part = p}
\* Mutant: a partition at the threshold is passed over.
MoreFiles(p) == Cardinality(FilesIn(Current, p)) > MinFiles
EnoughFiles(p) == Cardinality(FilesIn(Current, p)) >= MinFiles
NeedsCompaction == \E p \in Partitions : FilesIn(Current, p) # {} /\ EnoughFiles(p)
ToCompact == UNION {FilesIn(Current, p) : p \in {q \in Partitions : EnoughFiles(q)}}

\* What is left of bag when only the first row of each key is kept, in the
\* order the scan happens to have.
Deduplicated(bag) ==
  LET present == {r \in Rows : bag[r] > 0} IN
  {[r \in Rows |-> IF r \in K THEN 1 ELSE 0] :
     K \in {S \in SUBSET present :
              \A r \in present : Cardinality({s \in S : KeyOf[s] = KeyOf[r]}) = 1}}

Outputs(k, bag) == IF k \in Deduplicating THEN Deduplicated(bag) ELSE {bag}

\* The new files: one for each partition, or (split) several.
Written(bag, split) ==
  IF split
  THEN {[part |-> PartitionOf[r], rows |-> [s \in Rows |-> IF s = r THEN bag[r] ELSE 0]] :
          r \in {s \in Rows : bag[s] > 0}}
  ELSE {[part |-> p, rows |-> OfPartitions(bag, {p})] :
          p \in {PartitionOf[r] : r \in {s \in Rows : bag[s] > 0}}}

\* compact_once: load, check, and the first half of execute.
Plan(k) ==
  /\ job[k].at = "idle" /\ NeedsCompaction
  /\ \E out \in Outputs(k, Content(ToCompact)), split \in BOOLEAN :
       /\ split => splits < MaxSplits /\ Written(out, TRUE) # Written(out, FALSE)
       /\ splits' = IF split THEN splits + 1 ELSE splits
       /\ job' = [job EXCEPT ![k] = [at |-> "commit", base |-> Current, old |-> ToCompact,
                                     new |-> Written(out, split), tries |-> 0]]
  /\ UNCHANGED tableVars

-----------------------------------------------------------------------------
(* The commit loop.                                                        *)

\* The data files of the manifests that are carried over: a manifest stays
\* with all its files unless each of them was compacted.
Survivors(old) == {f \in FilesOf(Current) : ~ Manifest(f) \subseteq old}

\* commit_rewrite: the catalog still has the parent.  A reply that is lost
\* ends the job like one that arrives.
Rewrite(k) ==
  /\ job[k].at = "commit" /\ job[k].base = Current
  /\ AddSnapshot("replace", Survivors(job[k].old), job[k].new)
  /\ job' = [job EXCEPT ![k] = Idle]
  /\ UNCHANGED <<faults, splits>>

RetriesLeft(tries) == tries < MaxCommitRetries

\* The catalog refuses: main moved.  Once more, or give up.
Conflict(k) ==
  /\ job[k].at = "commit" /\ job[k].base # Current
  /\ job' = IF RetriesLeft(job[k].tries)
            THEN [job EXCEPT ![k].at = "reload", ![k].tries = @ + 1]
            ELSE [job EXCEPT ![k] = Idle]
  /\ UNCHANGED <<tableVars, splits>>

\* Mutant: a retry does not look for the old files.
NotLooked(old) == TRUE
StillThere(old) == old \subseteq FilesOf(Current)

\* A retry loads the table and insists on finding all the old files.
Reload(k) ==
  /\ job[k].at = "reload"
  /\ job' = IF StillThere(job[k].old)
            THEN [job EXCEPT ![k].at = "commit", ![k].base = Current]
            ELSE [job EXCEPT ![k] = Idle]
  /\ UNCHANGED <<tableVars, splits>>

\* The process stops, or the catalog or the store fails: the scheduler logs
\* it and waits for its next tick.  New files nobody committed are orphans.
Abandon(k) ==
  /\ job[k].at # "idle" /\ Fault
  /\ job' = [job EXCEPT ![k] = Idle]
  /\ UNCHANGED <<snaps, splits>>

Compact(k) == Plan(k) \/ Rewrite(k) \/ Conflict(k) \/ Reload(k)

-----------------------------------------------------------------------------
CompactorTypeOK ==
  /\ splits \in 0..MaxSplits
  /\ \A k \in Compactors :
       /\ job[k].at \in {"idle", "commit", "reload"}
       /\ job[k].base \in 0..Current /\ job[k].tries \in 0..MaxCommitRetries
       /\ job[k].old \subseteq FilesOf(job[k].base)
       /\ job[k].at = "idle" <=> job[k] = Idle

Commits_(k) == job[k].at = "commit" /\ job'[k] = Idle /\ Current' > Current

\* compactor.rs: "readers never see duplicated data", and lose none: the
\* commit of a compactor that does not deduplicate leaves what readers see
\* as it is, whatever was appended or compacted since it read the table.
RewritePreserves ==
  \A k \in Compactors \ Deduplicating :
    Commits_(k) => Content(FilesOf(Current))' = Content(FilesOf(Current))

\* The commit of one that does keeps a row of every key and adds none.
DeduplicationKeepsKeys ==
  \A k \in Deduplicating :
    Commits_(k) =>
      LET before == Content(FilesOf(Current))
          after == Content(FilesOf(Current))'
      IN \A r \in Rows :
           /\ after[r] <= before[r]
           /\ before[r] > 0 => \E s \in Rows : KeyOf[s] = KeyOf[r] /\ after[s] > 0

PreservesAlways == [][RewritePreserves /\ DeduplicationKeepsKeys]_<<snaps, job>>

\* The scheduler: when writers stop and no rewrite exceeds the target size,
\* every partition ends below the threshold, rival compactors or not.
Settles == <>[](\A p \in Partitions : Cardinality(FilesIn(Current, p)) < MinFiles)
=============================================================================
