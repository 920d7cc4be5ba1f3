---------------------------- MODULE FileCompactor ----------------------------
(***************************************************************************)
(* The file compactor (file_compactor.rs): one run lists the uncompacted   *)
(* files of a prefix, skips those that have a ".processed" marker, reads   *)
(* the others in the order of their timestamps into an accumulator, and    *)
(* for every full accumulator uploads <prefix>.<latest>.c.parquet, marks   *)
(* its source files, and deletes them with their markers.                  *)
(*                                                                         *)
(* A key is <<timestamp, depth>>: depth 0 is a file, depth 1 its marker,   *)
(* depth 2 the marker of that marker.  Markers are keys of their own here  *)
(* because the pattern of FileMeta is not anchored: the listing takes a    *)
(* marker for an uncompacted file.  A batch of a file is one row, <<t, i>> *)
(* is the i-th batch of the file of time t, and outputs hold such pairs,   *)
(* which tell a row from an equal one of another file.                     *)
(***************************************************************************)
EXTENDS Integers, FiniteSets, Sequences, SequencesExt, FiniteSetsExt

CONSTANTS
  MaxTime,      \* timestamps of the files
  Rows,         \* values of a row
  Schemas,      \* schemas of the files under the prefix
  NoSchema,     \* before a run has met one
  MaxBatches,   \* batches of a file
  MaxSize,      \* max_bytes_per_file, in batches
  MaxRuns,      \* compaction runs
  MaxFaults,
  FaultKinds    \* "get", "put", "put_stored", "head", "mark", "stop",
                \* "crash", "delete", "unmark"

ASSUME CompactorAssumption ==
  /\ {MaxTime, MaxBatches, MaxSize} \subseteq Nat \ {0}
  /\ {MaxRuns, MaxFaults} \subseteq Nat
  /\ NoSchema \notin Schemas

Times == 1..MaxTime
Keys == Times \X (0..MaxRuns)
Time(key) == key[1]
DataKey(t) == <<t, 0>>
MarkerOf(key) == <<key[1], key[2] + 1>>

VARIABLES
  content,        \* timestamp -> the batches uploaded under it, ever
  bad,            \* timestamps whose file is no parquet file
  uploaded,       \* timestamps uploaded so far
  keys,           \* the files and markers in the bucket
  compacted,      \* timestamp -> what its .c file holds, <<>> where there is none
  checkpoint,     \* last_processed_timestamp the caller kept, 0 for none
  deduplicate,    \* enable_deduplication
  deleting,       \* delete_originals
  checkpointing,  \* the caller passes its checkpoint as after_timestamp
  schemaOf,       \* timestamp -> the schema its file is written with
  phase,          \* where the run stands
  remaining,      \* remaining_files
  file,           \* the file being read, NoFile between two files
  offset,         \* how many of its batches have been read
  schema,         \* of the run: that of the first file it could read
  sources,        \* source_files of the batch being built, then finalized
  acc,            \* the accumulator
  counts,         \* what the run has counted
  todo,           \* keys the current phase has yet to mark, delete or unmark
  runs,
  happened,       \* kinds of fault that have happened
  listed,         \* history: readable files of the run, less those it found to be
                  \* of another schema
  made,           \* history: names of the outputs of the run
  plan,           \* history: what plan mode makes of the same files
  cut             \* history: batches a run left unread, as one before them in their
                  \* file had met the size limit

bucket == <<content, bad, uploaded, keys, compacted>>
config == <<deduplicate, deleting, checkpointing, schemaOf>>
reading == <<remaining, file, offset, schema>>
history == <<listed, made, plan, cut>>
vars == <<bucket, checkpoint, config, phase, reading, sources, acc, counts, todo, runs,
          happened, history>>

Phases == {"idle", "read", "upload", "mark", "delete"}

NoFile == 0

NoCounts == [records |-> 0, duplicates |-> 0, created |-> 0, files |-> 0, last |-> 0]

(***************************************************************************)
(* What a run computes.                                                    *)
(***************************************************************************)

\* The listing: uncompacted keys in (after, until].
Uncompacted(after, until) == {k \in keys : after < Time(k) /\ Time(k) <= until}

\* The order in which they are read: of their timestamps, then of their names.
Before(a, b) == Time(a) < Time(b) \/ (Time(a) = Time(b) /\ a[2] < b[2])

IsNext(key) == key \in remaining /\ \A k \in remaining : ~Before(k, key)

HasMarker(key) == MarkerOf(key) \in keys

IsFile(key) == key[2] = 0
IsData(key) == IsFile(key) /\ Time(key) \notin bad

\* The first file that can be read sets the schema of the run.
Matches(key) == schema \in {NoSchema, schemaOf[Time(key)]}

\* A batch of a file, its row, and the batches that were ever uploaded.  Rows of
\* two schemas are two rows.
Batches == Times \X (1..MaxBatches)
Row(b) == <<schemaOf[b[1]], content[b[1]][b[2]]>>
Uploads == {b \in Batches : b[1] \in uploaded \ bad /\ b[2] \in DOMAIN content[b[1]]}

(***************************************************************************)
(* DeduplicatingAccumulator: the rows kept, the hashes seen and the        *)
(* duplicates dropped since the last time its batches were taken.          *)
(***************************************************************************)
Empty == [rows |-> <<>>, seen |-> {}, dups |-> 0, full |-> FALSE]

\* Mutant: duplicates are dropped whether the caller asked for it or not.
AddUnseen(a, b) ==
  IF Row(b) \in a.seen THEN [a EXCEPT !.dups = @ + 1]
  ELSE [a EXCEPT !.rows = Append(@, b), !.seen = @ \cup {Row(b)}]

AddBatch(a, b) ==
  IF ~deduplicate THEN [a EXCEPT !.rows = Append(@, b)]
  ELSE IF Row(b) \in a.seen THEN [a EXCEPT !.dups = @ + 1]
  ELSE [a EXCEPT !.rows = Append(@, b), !.seen = @ \cup {Row(b)}]

\* Mutant: the hashes are forgotten with the batches.
TakenWithHashes(a) == Empty

\* take_batches(): the hashes stay.
Taken(a) == [a EXCEPT !.rows = <<>>, !.dups = 0, !.full = FALSE]

MeetsLimit(a) == a.rows # <<>> /\ Len(a.rows) + 1 > MaxSize

\* Mutant: the batch that meets the limit is not added.
ReadAllButLast(a, b) ==
  IF a.full THEN a
  ELSE IF MeetsLimit(a) THEN [a EXCEPT !.full = TRUE] ELSE AddBatch(a, b)

\* One batch of a file: the one that meets the size limit is still added, and
\* the rest of its file is not read.
ReadBatch(a, b) ==
  IF a.full THEN a ELSE [AddBatch(a, b) EXCEPT !.full = MeetsLimit(a)]

SourcesWith(key) == sources \cup {key}

Processed(key) == [counts EXCEPT !.files = @ + 1, !.last = Time(key)]

LatestSource == Max({Time(k) : k \in sources})

\* plan_compaction_schema_agnostic(): it settles an output before it adds the
\* batch that meets the limit, and reads every file to its end.
NoPlan == [acc |-> Empty, records |-> 0, duplicates |-> 0, created |-> 0, files |-> 0,
           last |-> 0]

Settled(p) ==
  [p EXCEPT !.acc = Taken(@), !.records = @ + Len(p.acc.rows),
            !.duplicates = @ + p.acc.dups, !.created = @ + 1]

PlanBatch(p, b) ==
  LET q == IF MeetsLimit(p.acc) THEN Settled(p) ELSE p
  IN  [q EXCEPT !.acc = AddBatch(@, b)]

PlanEnd(p) == IF p.acc.rows = <<>> THEN p ELSE Settled(p)

Fault(kind) ==
  /\ kind \in FaultKinds /\ Cardinality(happened) < MaxFaults
  /\ happened' = happened \cup {kind}

(***************************************************************************)
(* The writers.                                                            *)
(***************************************************************************)
Upload(t) ==
  /\ t \notin uploaded
  /\ uploaded' = uploaded \cup {t} /\ keys' = keys \cup {DataKey(t)}
  /\ \E s \in BoundedSeq(Rows, MaxBatches) : content' = [content EXCEPT ![t] = s]
  /\ bad' \in {bad, bad \cup {t}}
  /\ UNCHANGED <<compacted, checkpoint, config, phase, reading, sources, acc, counts, todo,
                 runs, happened, history>>

(***************************************************************************)
(* A run.                                                                  *)
(***************************************************************************)

\* The listing and the marker checks; a check that fails counts as no marker.
\* The files that are skipped move last_processed_timestamp at once.
Start(until) ==
  /\ phase = "idle" /\ runs < MaxRuns
  /\ LET listing == Uncompacted(IF checkpointing THEN checkpoint ELSE 0, until)
         marked == {k \in listing : HasMarker(k)}
     IN  /\ listing # {}
         /\ \E skipped \in SUBSET marked :
              /\ \/ skipped = marked /\ UNCHANGED happened
                 \/ skipped # marked /\ Fault("head")
              /\ remaining' = listing \ skipped
              /\ counts' = [NoCounts EXCEPT
                   !.files = Cardinality(skipped),
                   !.last = IF skipped = {} THEN 0 ELSE Max({Time(k) : k \in skipped})]
              /\ listed' = {k \in listing \ skipped : IsData(k)}
         /\ plan' = [NoPlan EXCEPT !.files = Cardinality(listing),
                                   !.last = Max({Time(k) : k \in listing})]
  /\ phase' = "read" /\ runs' = runs + 1
  /\ sources' = {} /\ acc' = Empty /\ made' = {}
  /\ UNCHANGED <<bucket, checkpoint, config, file, offset, schema, todo, cut>>

\* The next download holds a file of batches.
Open(key) ==
  /\ phase = "read" /\ file = NoFile /\ IsNext(key) /\ key \in keys
  /\ IsData(key) /\ Matches(key)
  /\ file' = Time(key) /\ offset' = 0 /\ remaining' = remaining \ {key}
  /\ schema' = schemaOf[Time(key)]
  /\ UNCHANGED <<bucket, checkpoint, config, phase, sources, acc, counts, todo, runs,
                 happened, history>>

\* Or it is a marker, which is empty and becomes a source, cannot be read, or is
\* of another schema: what is no source is passed, and the checkpoint with it.
Pass(key) ==
  /\ phase = "read" /\ file = NoFile /\ IsNext(key) /\ key \in keys
  /\ ~(IsData(key) /\ Matches(key))
  /\ sources' = IF IsFile(key) THEN sources ELSE SourcesWith(key)
  /\ counts' = Processed(key) /\ remaining' = remaining \ {key}
  /\ listed' = listed \ {key}
  /\ UNCHANGED <<bucket, checkpoint, config, phase, file, offset, schema, acc, todo, runs,
                 happened, made, plan, cut>>

\* The next batch.  Behind the limit only plan mode reads.
Read ==
  /\ file # NoFile /\ offset < Len(content[file])
  /\ LET b == <<file, offset + 1>>
     IN  /\ acc' = ReadBatch(acc, b)
         /\ plan' = PlanBatch(plan, b)
         /\ cut' = IF acc.full THEN cut \cup {b} ELSE cut
  /\ offset' = offset + 1
  /\ UNCHANGED <<bucket, checkpoint, config, phase, remaining, file, schema, sources, counts,
                 todo, runs, happened, listed, made>>

\* The end of the file, or of what the limit left of it.
Close ==
  /\ file # NoFile /\ offset = Len(content[file])
  /\ sources' = SourcesWith(DataKey(file)) /\ counts' = Processed(DataKey(file))
  /\ phase' = IF acc.full THEN "upload" ELSE "read"
  /\ file' = NoFile /\ offset' = 0
  /\ UNCHANGED <<bucket, checkpoint, config, remaining, schema, acc, todo, runs, happened,
                 history>>

\* What is left in the accumulator when no file remains is finalized too.
Flush ==
  /\ phase = "read" /\ file = NoFile /\ remaining = {} /\ acc.rows # <<>>
  /\ phase' = "upload"
  /\ UNCHANGED <<bucket, checkpoint, config, reading, sources, acc, counts, todo, runs,
                 happened, history>>

\* The output is named for the latest of its sources, and replaces an object of
\* that name.
Put ==
  /\ phase = "upload"
  /\ compacted' = [compacted EXCEPT ![LatestSource] = acc.rows]
  /\ made' = made \cup {LatestSource}
  /\ counts' = [counts EXCEPT !.records = @ + Len(acc.rows), !.duplicates = @ + acc.dups,
                              !.created = @ + 1]
  /\ acc' = Taken(acc)
  /\ phase' = "mark" /\ todo' = sources
  /\ UNCHANGED <<content, bad, uploaded, keys, checkpoint, config, reading, sources, runs,
                 happened, listed, plan, cut>>

\* The run returns its error, or its process stops.
RunEnds ==
  /\ phase' = "idle" /\ todo' = {} /\ remaining' = {} /\ sources' = {}
  /\ file' = NoFile /\ offset' = 0 /\ schema' = NoSchema
  /\ acc' = Empty /\ counts' = NoCounts
  /\ listed' = {} /\ made' = {} /\ plan' = NoPlan
  /\ UNCHANGED <<content, bad, uploaded, keys, checkpoint, config, runs, cut>>

PutFails ==
  /\ phase = "upload"
  /\ \/ Fault("put") /\ UNCHANGED compacted
     \/ Fault("put_stored") /\ compacted' = [compacted EXCEPT ![LatestSource] = acc.rows]
  /\ RunEnds

\* A download, or the reading of a file, fails.
GetFails ==
  /\ phase = "read" /\ (remaining # {} \/ file # NoFile) /\ Fault("get")
  /\ RunEnds /\ UNCHANGED compacted

\* The next file is gone: a marker that the run removed with its file.
GetsNothing(key) ==
  /\ phase = "read" /\ file = NoFile /\ IsNext(key) /\ key \notin keys
  /\ RunEnds /\ UNCHANGED <<compacted, happened>>

\* Markers are created concurrently; a failure is only logged.
Mark(key) ==
  /\ phase = "mark" /\ key \in todo
  /\ \/ keys' = keys \cup {MarkerOf(key)} /\ UNCHANGED happened
     \/ Fault("mark") /\ UNCHANGED keys
  /\ todo' = todo \ {key}
  /\ UNCHANGED <<content, bad, uploaded, compacted, checkpoint, config, phase, reading,
                 sources, acc, counts, runs, history>>

\* Mutant: only the files that got their markers are deleted.
DeleteMarked ==
  /\ phase = "mark" /\ todo = {}
  /\ IF deleting
     THEN phase' = "delete" /\ todo' = {k \in sources : HasMarker(k)} /\ UNCHANGED sources
     ELSE phase' = "read" /\ sources' = {} /\ UNCHANGED todo
  /\ UNCHANGED <<bucket, checkpoint, config, reading, acc, counts, runs, happened, history>>

Marked ==
  /\ phase = "mark" /\ todo = {}
  /\ IF deleting THEN phase' = "delete" /\ todo' = sources /\ UNCHANGED sources
     ELSE phase' = "read" /\ sources' = {} /\ UNCHANGED todo
  /\ UNCHANGED <<bucket, checkpoint, config, reading, acc, counts, runs, happened, history>>

Unmarked(key) == keys \ {MarkerOf(key)}

\* delete_original_files(), key by key, concurrently: the file is removed, and
\* then its marker whether that worked or not.
Delete(key) ==
  /\ phase = "delete" /\ key \in todo /\ key \in keys
  /\ \/ keys' = keys \ {key} /\ UNCHANGED <<todo, happened>>
     \/ Fault("delete") /\ keys' \in {keys, Unmarked(key)} /\ todo' = todo \ {key}
  /\ UNCHANGED <<content, bad, uploaded, compacted, checkpoint, config, phase, reading,
                 sources, acc, counts, runs, history>>

Unmark(key) ==
  /\ phase = "delete" /\ key \in todo /\ key \notin keys
  /\ \/ keys' = Unmarked(key) /\ UNCHANGED happened
     \/ Fault("unmark") /\ UNCHANGED keys
  /\ todo' = todo \ {key}
  /\ UNCHANGED <<content, bad, uploaded, compacted, checkpoint, config, phase, reading,
                 sources, acc, counts, runs, history>>

Deleted ==
  /\ phase = "delete" /\ todo = {}
  /\ phase' = "read" /\ sources' = {}
  /\ UNCHANGED <<bucket, checkpoint, config, reading, acc, counts, todo, runs, happened,
                 history>>

\* The result; the caller keeps last_processed_timestamp.
Result ==
  /\ checkpoint' = counts.last
  /\ phase' = "idle" /\ sources' = {} /\ acc' = Empty /\ counts' = NoCounts
  /\ schema' = NoSchema /\ listed' = {} /\ made' = {} /\ plan' = NoPlan
  /\ UNCHANGED <<bucket, config, remaining, file, offset, todo, runs, happened, cut>>

\* Nothing remains, neither to read nor in the accumulator.
Done == phase = "read" /\ file = NoFile /\ remaining = {} /\ acc.rows = <<>>

Finish == Done /\ Result

\* The process stops before, or after, its first marker or deletion.
Stop ==
  /\ phase # "idle"
  /\ Fault(IF phase \in {"mark", "delete"} THEN "crash" ELSE "stop")
  /\ RunEnds /\ UNCHANGED compacted

Init ==
  /\ content = [t \in Times |-> <<>>] /\ bad = {} /\ uploaded = {} /\ keys = {}
  /\ compacted = [t \in Times |-> <<>>] /\ checkpoint = 0
  /\ deduplicate \in BOOLEAN /\ deleting \in BOOLEAN /\ checkpointing \in BOOLEAN
  /\ schemaOf \in [Times -> Schemas] /\ schema = NoSchema
  /\ phase = "idle" /\ remaining = {} /\ file = NoFile /\ offset = 0 /\ sources = {}
  /\ acc = Empty /\ counts = NoCounts /\ todo = {} /\ runs = 0 /\ happened = {}
  /\ listed = {} /\ made = {} /\ plan = NoPlan /\ cut = {}

Next ==
  \/ \E t \in Times : Upload(t) \/ Start(t)
  \/ \E key \in Keys : Open(key) \/ Pass(key) \/ GetsNothing(key)
  \/ Read \/ Close \/ Flush \/ Put \/ PutFails \/ GetFails
  \/ \E key \in Keys : Mark(key) \/ Delete(key) \/ Unmark(key)
  \/ Marked \/ Deleted \/ Finish \/ Stop

Spec == Init /\ [][Next]_vars

-----------------------------------------------------------------------------
\* Every variable has its type; an output holds batches that were uploaded, and
\* at most one more than the limit.
TypeOK ==
  /\ content \in [Times -> BoundedSeq(Rows, MaxBatches)]
  /\ bad \subseteq uploaded /\ uploaded \subseteq Times
  /\ keys \subseteq Keys /\ checkpoint \in 0..MaxTime
  /\ \A t \in Times : compacted[t] \in Seq(Uploads) /\ Len(compacted[t]) <= MaxSize + 1
  /\ acc.rows \in Seq(Uploads) /\ Len(acc.rows) <= MaxSize + 1
  /\ schemaOf \in [Times -> Schemas] /\ schema \in Schemas \cup {NoSchema}
  /\ phase \in Phases /\ file \in Times \cup {NoFile}
  /\ acc.full => file # NoFile \/ phase = "upload"
  /\ remaining \cup sources \cup todo \cup listed \subseteq Keys
  /\ made \subseteq Times /\ cut \subseteq Uploads
  /\ (phase \in {"mark", "delete"} => todo \subseteq sources /\ acc.rows = <<>>)
  /\ runs \in 0..MaxRuns /\ happened \subseteq FaultKinds

\* What the outputs in the bucket hold.
Outputs == UNION {Range(compacted[t]) : t \in Times}

\* b is among the batches B, or an equal row when duplicates are dropped.
Stands(b, B) == IF deduplicate THEN \E c \in B : Row(c) = Row(b) ELSE b \in B

\* Whatever a run does to the bucket, and wherever it fails short of its
\* deletions, every batch that was uploaded stays in it, in its file or in an
\* output, unless the size limit cut it off.  This relates the accumulator,
\* the source files of an output and the name of the output, which a later run
\* may use again.
NothingLost ==
  happened \cap {"crash", "delete", "unmark"} = {} =>
    \A b \in Uploads \ cut : DataKey(b[1]) \in keys \/ Stands(b, Outputs)

\* The same with every fault.
NothingEverLost ==
  \A b \in Uploads \ cut : DataKey(b[1]) \in keys \/ Stands(b, Outputs)

\* The module documentation of a failed deletion: the output holds the records,
\* the file stays in the bucket, and its marker too, so that the next run skips
\* it.
FailedDeletionsSkipped ==
  (phase = "idle" /\ deleting) =>
    \A b \in Outputs : DataKey(b[1]) \in keys => HasMarker(DataKey(b[1]))

\* Between two runs that delete their originals no batch is in the bucket twice,
\* in a file and an output, in two outputs or twice in one, unless the store
\* kept an output whose upload it reported as failed, or a run stopped among
\* its markers and deletions.
NothingDoubled ==
  (phase = "idle" /\ deleting /\ happened \cap {"put_stored", "crash", "delete"} = {}) =>
    /\ \A b \in Outputs : DataKey(b[1]) \notin keys
    /\ \A t, u \in Times : t # u => Range(compacted[t]) \cap Range(compacted[u]) = {}
    /\ \A t \in Times : IsInjective(compacted[t])

\* A file is deleted only when its batches are in outputs, whatever has failed
\* before, but for those the size limit cut off.
DeletedIsCompacted ==
  [][\A b \in Uploads \ cut :
       (DataKey(b[1]) \in keys /\ DataKey(b[1]) \notin keys') => Stands(b, Outputs)']_vars

\* The checkpoint of a run covers what it passes: the caller that lists from it
\* on leaves no file of the run's schema behind that is not in outputs.
CheckpointSound ==
  [][(checkpointing /\ phase # "idle" /\ phase' = "idle") =>
       \A b \in Uploads \ cut :
         (DataKey(b[1]) \in listed /\ b[1] <= checkpoint') => Stands(b, Outputs)']_vars

\* Together: no file is deleted, or passed for good, before it is compacted.
PassedIsCompacted == DeletedIsCompacted /\ CheckpointSound

\* Plan mode says what a run returns, of the records and files at least.
Agrees == counts.records = PlanEnd(plan).records /\ counts.files = plan.files
PlanAgrees == (Done /\ "head" \notin happened) => Agrees

\* It does when no batch of a file of the run was cut off.  That takes more than
\* files shorter than the limit: the batch that no longer fits into what the
\* files before it left of the accumulator ends the reading of its file too.
PlanAgreesUncut ==
  (Done /\ "head" \notin happened /\ \A b \in cut : DataKey(b[1]) \notin listed) => Agrees

\* The same of every count that plan mode returns.
PlanAgreesFully ==
  (Done /\ "head" \notin happened) => \A c \in DOMAIN counts : counts[c] = PlanEnd(plan)[c]
=============================================================================
