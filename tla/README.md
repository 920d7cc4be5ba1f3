# A TLA+ model of prestige

prestige writes typed Rust records to parquet files, on S3 or in Iceberg
tables, and reads, compacts and audits them. This directory models the parts
of it whose correctness depends on the order of events: event loops, background
commits, crashes, retries and other writers. Paths below are relative to
`src/prestige/src/` unless they start with `src/`.

## Inventory

| component | state it keeps | operations | hard because of |
|---|---|---|---|
| Iceberg sink, direct commit (`iceberg/sink.rs`) | record buffer, staged batches, `row_count`, `created_at`, the `CommitPipeline` | write, timer roll, commit, rollback, shutdown | background commits interleave with every handler; failed steps restore state; crashes |
| Commit manifests (`iceberg/manifest.rs`) | one JSON file per commit on local disk | record, delete, scan, recover | a crash between the append and the deletion |
| Append (`iceberg/writer.rs`) | the table's snapshots | `commit_data_files` | optimistic commits that conflict, lost replies |
| Audit branches (`iceberg/branch.rs`), sink in WAP mode | branch references | create, commit to branch, publish, drop | stale metadata; a publish may lose snapshots of main |
| WAP transaction (`iceberg/transaction.rs`) | state recomputed from the branch | write, publish, resume | repeated after a crash |
| Iceberg compactor (`iceberg/compactor.rs`) | plan, rewritten files, retry counter | plan, rewrite, commit, scheduler | other writers between plan and commit |
| Iceberg poller, scanner (`iceberg/poller.rs`, `scanner.rs`) | checkpoint, pending acknowledgement | poll, acknowledge, scan since a snapshot | compaction and branches between polls |
| Catalog client (`iceberg/catalog.rs`) | cached token, shared by clones | REST calls, retry after 401 | clones that refresh and invalidate one token |
| Tables and schemas (`iceberg/table.rs`, `schema.rs`) | the table's columns | create, reconcile, evolve | processes with different versions of a struct |
| Parquet file sink (`file_sink.rs`) | active file, staged files, local directories | write, roll, commit, rollback, recover | crash recovery from what lies on disk |
| Upload service (`file_upload.rs`, `lib.rs`) | queue of uploads | upload, retry, shutdown | uploads dropped at shutdown |
| File poller (`file_poller.rs`) | queue, cache, state table, latest timestamp | poll, receive, acknowledge, clean | files cached before they are processed |
| File compactor (`file_compactor.rs`) | markers, consolidated files | consolidate, mark, delete, clean | crash between upload, markers and deletion |
| The rest | none | stream adaptors, traits, telemetry, macros, cli | no state machine |

What makes each correct, and how they touch:

* The **sink** accepts records over a channel and answers when they are
  buffered. Its promise: a record it accepted and did not roll back reaches
  the table exactly once, unless the process dies with it in memory; what was
  rolled back never does; commit() answers when the data is durable.
* The **manifests** carry commits over a crash: a commit that was recorded is
  applied eventually, and is not lost while its manifest is gone.
* The **branches** and the **WAP transaction** promise that readers of main see
  nothing before publish, and that publish makes all of it visible, once.
* The **compactor** replaces files by an equivalent one: the set of live
  records never changes, whoever else writes.
* The **poller** hands every appended file to its consumer, and moves its
  checkpoint only over what was acknowledged.
* The **file sink** and the **upload service** promise the same as the
  Iceberg sink with files instead of snapshots: client, local directories and
  S3 are three stores that a crash may leave in disagreement.
* The **catalog client** repeats a request only when the first was refused, and
  ensure_table leaves a table that all its callers can use.
* The **file poller** hands on every file at least once, and in one process
  not twice; the **file compactor** keeps every record of the files it deletes.

## Modules

| module | models |
|---|---|
| `RecordStore` | the abstract promise: a record is fresh, pending, visible or dropped; visible and dropped are final |
| `IcebergSink` | the direct-commit sink, its manifests and pipeline, and iceberg's transactions as the sink uses them |
| `AuditBranches` | main, the branches, and the four requests of `branch.rs` as the catalog applies them |
| `WapTransaction` | `begin`, `write`, `publish`, with callers that begin again; extends `AuditBranches` |
| `WapSink` | the sink in write-audit-publish mode; extends `AuditBranches` |
| `IcebergTable` | snapshots, data files and manifests of one table, appends to it, and the scanner's incremental scan |
| `IcebergCompactor` | compaction and its scheduler; extends `IcebergTable` |
| `IcebergPoller` | the poller and its consumer; extends `IcebergTable` |
| `IcebergStream` | writers, compactors, poller and consumer on one table: the composition |
| `ParquetSink` | the file sink, its client, the local directories, the upload service and the bucket |
| `FilePoller` | the file poller, its cache and state table, writers of the prefix and the consumer |
| `FileCompactor` | runs of the file compactor beside a writer of the bucket |
| `CatalogClient` | ensure_table and the token cache of the REST endpoint, for several clients |
| `MCIcebergSink`, `MCWapSink`, `MCIcebergStream`, `MCFileCompactor` | instances for TLC: symmetries, builders, rows and their partitions |
| `IcebergSinkProofs` | the proofs about `IcebergSink`, the refinement of `RecordStore` among them |
| `WapTransactionProofs`, `WapSinkProofs` | the proofs about the two writers that use branches, each with its lemmas on the requests of `AuditBranches` |
| `CatalogClientProofs`, `ParquetSinkProofs`, `FilePollerProofs`, `FileCompactorProofs`, `IcebergStreamProofs` | the proofs about those modules, the last about the table, the compactor and the poller too |

### IcebergSink

A handler is cut where it awaits: `Write`, `Roll`, `Commit`, `Rollback` and
`Shutdown` are the entries; `Prepare`, `Reload`, `Upload`, `RecordManifest`,
`Enqueue` and `Drained` the steps of `prepare_and_enqueue` and `commit`. `pc` is
the step, `op` the handler that runs it, `batch` and `saved` the local variables
of a commit in preparation. Between any two steps a background commit
(`TxnApply`, `TxnRebase`, `TxnConflict`, `TxnFail`, `TxnPanic`) or another writer
(`Rival`) may act, and the process may crash. A completed task is collected by
`Complete` where the code polls the pipeline: in the loop, in
`ensure_capacity` and in `drain_all`.

A commit is identified with the set of records its data files hold. The
iceberg library is external: a transaction opens on the current snapshot, is
outdated when another snapshot lands, rebases `CommitRetries` times and then
reports a conflict. `record_files` is not atomic (`PartlyWritten`): an error or a crash
leaves no file, an empty one, one cut inside a line, which recovery skips, or the
lines of some or all of the data files. What was cut between two lines reads as the manifest
of a smaller commit, and recovery appends just that. A start whose scan of the directory
fails goes on without recovery (`Restart`). Size and age rotations are the
environment's choice; row counts and the flush threshold are exact.

How a sink is built, with or without `auto_commit` and a manifest directory, is a variable
(`builder`) that `Init` chooses from `Builders` and no step changes, so that one run covers
several kinds of sink.

The variables after "history" exist for the properties, with one exception:
`recorded` is also the `Option<CommitManifest>` that a pipeline task carries.

What the model leaves out: the contents of data files (a failed commit's
orphaned files are harmless), snapshot properties, metrics, and a client that
repeats a write that was answered with an error.

Properties: `NoSilentDrop`, `RecordedNotLost`,
`OnceWithoutLoss`, `RolledBackStaysOut`, `AccountsExact`, `CommittedIsDurable`,
`CommittedIsRecoverable`, `StopFlushesAll`, the liveness
properties `OwedReachesTable`, `RecordedReachesTable`, `ShutdownEnds`, and
`ImplementsStore`, the refinement of `RecordStore`. Each is stated in a comment
at its definition.

### AuditBranches

A snapshot is a count of each data file it holds, and a `wap.id`. A request is
built from a copy of the metadata (`CreateBranch`, `CommitToBranch`,
`PublishBranch`, `DeleteBranch`) and checked against the table when it arrives
(`Granted`, `Apply`). Its sender sees it `Accepted`, answered with a `Conflict`,
or `Failed`: refused, lost, applied without an answer, or still under way when
the sender gives up (`late`, `Arrive`). The catalog is external; that it may
refuse a snapshot with an old sequence number (`OldSequence`) is the check
iceberg's metadata builder makes.

### WapTransaction

One caller for each `wap_id`; the id also names the branch, its file and its
snapshot. The steps are the await points of `begin` (`Begin`, `Delete`,
`Recreate`, `Create`), `write` (`Write`, `CommitBranch`) and `publish`
(`PublishLoad`, `Publish`, `Finish`). A caller that got an error or crashed calls
`begin` again; one whose `publish` answered Ok is done. Other writers append to
main. The jobs in `EmptyJobs` may call `write` without batches.

### WapSink

The front end is `IcebergSink`'s and reduced to the preparation of one file. The
loop's copy of the table (`seen`), the clone a task gets and the reloads in
between are kept exactly, because the hazards of this mode are stale copies.
A manifest that cannot be written leaves the commit without one (`Record`, `recorded` being
the task's `Option<CommitManifest>`). Recovery is one step per manifest, after a scan that may
fail (`Restart`). With `PublishIdle` the client publishes only
when no commit is in flight, which commit() ensures when something was staged.

With `autoPublish`, fixed for a behaviour in `Init`, each task publishes its own
commit; `AutoFaults` are the faults that mode is checked with, because others
break it (see "What the model also shows").

### IcebergTable, IcebergCompactor, IcebergPoller, IcebergStream

A row is counted, so that a duplicate is seen. A data file has a partition, its
rows and the sequence number of the snapshot that added it; a fast append puts
the files of one commit into one manifest, so that `Manifest(f)` is that
sequence number. `AddSnapshot` is what appends and rewrites have in common.

A compactor (`Plan`, `Rewrite`, `Conflict`, `Reload`, `Abandon`) reads the
current snapshot, merges the files of every partition with enough of them, and
commits against the snapshot it loaded; `Survivors` is the loop of
`commit_rewrite` that keeps or drops whole manifests. After a conflict it
reloads, looks whether its files are still there, and tries again. A rewrite
may exceed the target size and be written as two files (`Written`, bounded by
`MaxSplits`).

The poller's step is `poll_once` (`PollSends`, `PollEmpty`, `PollGone`); the
stream it sent is in the hands of the consumer (`Process`, `Ack`, `Drop`,
`Close`), which saves the snapshot when it acknowledges; a new process starts at
what was saved (`Restart`). `channel_size` and `send_timeout` do not appear: with
one outstanding acknowledgement the channel is never full. `earliest_snapshot`
and `snapshot_at_timestamp` are the caller's ways to choose the first
checkpoint; the model starts at the beginning of the table.

### ParquetSink

A handler of the sink is made of parts that can fail (`Flush`, `Close`, `Open`,
`Push`, `Queue`), and a part maps an outcome to a set of outcomes: memory,
directories, upload requests, success. `Then` chains them and stops at an error,
as `?` does. A handler is one step, since the actor handles one message at a
time and only the upload service acts beside it; `Crash` cuts between handlers,
and the faults leave behind what a crash inside a file operation would. A file
is its name, its rows and whether its footer was written. `hist` holds the
histories the properties speak of.

The upload service has a task per request: `Upload` (stored, and then the local
file is removed or not), `PutFails` (with the object stored or not), `Ignore` (the
file is gone), `UploaderStops`. `Boot` is `recover_from_crash`.

### FilePoller

The steps are the await points of `run` (`Waits`, `List`, `Check`, `Download`,
`Send`, `Cleanup`, `Stop`) and of the consumer (`Receive`, `Commit`, `Rollback`). The
download and the send cannot be interrupted by a shutdown or the cleanup timer,
so that both only happen in `Waits`. Timestamps are small numbers and so is the
wall clock; a writer may upload a file whose timestamp is older than the clock
(`Upload`, `prompt` when it does so within the offset). The cleanup keeps a number
of records (`Keep`, for the hundred of the code) and the offset. The listing is
in the order of the timestamps; what is left of it is the set `listing`, from which
the oldest file is taken.

### FileCompactor

A run lists the uncompacted keys from its checkpoint and skips those with a marker
(`Start`). It takes the next in the order of their times (`IsNext`), and either opens it
(`Open`), reads its batches one by one (`Read`) and notes it as a source (`Close`), or
passes what is empty, unreadable or of another schema (`Pass`). The first file that a run can
read sets the run's schema (`Matches`); which schema a file has is fixed in `Init`. At the size limit, or when nothing remains
(`Flush`), it uploads what it has (`Put`), marks the sources (`Mark`, `Marked`), and deletes
them and their markers in any order (`Delete`, `Unmark`, `Deleted`). It ends with a result
(`Finish`), an error (`PutFails`, `GetFails`, `GetsNothing`) or its process (`Stop`). Each of
these is a call to the store or the decision after it; the concurrent calls of one
batch of markers or deletions interleave.

Keys are pairs of a timestamp and a depth, because the pattern a name is parsed with is not
anchored: a marker, `<prefix>.<time>.parquet.processed`, is listed as a file of its own. A run
takes a marker that was left over for an empty file, marks it and deletes it; when it
has removed the marker with its file before it comes to it, the download fails and ends the
run (`GetsNothing`). A batch is one row, and outputs hold the identities of batches, so that a
property can tell a row from an equal one of another file; `Row` is what deduplication
compares. `MaxSize` counts batches.

`plan` follows the dry run, `plan_compaction_schema_agnostic`, on the same files: `PlanBatch`
for each batch, `PlanEnd` at the end. `listed`, `made` and `cut` are histories: the
files the run has to read, without those it found to be of another schema; the names of its
outputs; and the batches a run left unread because one before them in their file had met the
size limit, although the file counts as processed. A file whose first batch meets the limit is
cut like one that is longer than it.

### CatalogClient

Each client ensures the table and then sends one request: `CheckTable`, `Create`,
`AlreadyExists`, `Load`, `Evolve`; `Begin`, `UseCached` or `Fetch` and `Store`, then
`Accept`, `Lose` or `Refuse`, and `Invalidate` before the repetition. The mutex of the
cache is kept over the fetch, as in `get_token`. A schema is its column names and
its identifiers. Iceberg's transaction is external: it rebases additions and drops
on the current schema and fails when a column is there, or gone, by then.

## Conditions in the properties

Some properties hold only while something has not happened, and say so with a
history variable; a run then covers all faults at once, and the condition names
what the code does not survive.

| condition | where | without it |
|---|---|---|
| `Undisturbed`: only catalog errors, panics and failed scans have happened, and with auto-commit every record serialises | `OnceWithoutLoss` | a manifest outlives its commit and is appended again |
| `ManifestDir`, and `"manifest"` not in `Happened` | `CommittedIsRecoverable` | a commit goes on without its manifest when the disk fails (sink.rs:746), and a crash loses it; the code accepts this with a warning |
| `Answered`: no catalog error, lost reply or panic so far; and commits by hand | `CommittedIsDurable` | commit() answers Ok although a background commit failed (sink.rs:672), or while an automatic one is in flight (sink.rs:667) |
| commits by hand, no fault | `StopFlushesAll` | the last flush of a sink only warns when it fails (sink.rs:490); with auto-commit one of two commits in flight may run out of rebases, and its conflict is taken for "already committed" (manifest.rs:224) |
| `LeftToNextStart`: a recorded commit that is in no transaction while the sink is idle, after a catalog error, a panic or a failed scan | `OwedReachesTable`, `RecordedReachesTable` | a background commit that failed (sink.rs:954), an append of the recovery that failed (sink.rs:539), and manifests that a start did not find (sink.rs:510) stay on disk for as long as the process lives; only the next start tries them again |
| `~delayed` | the branches | a request that arrives after its sender gave up and began again: the branch gets the data twice, or a late publish shows data nobody audited, or a conflict is met that is no duplicate |
| `~overlapped` | `MainGrows`, `DoneIsVisible` of `WapTransaction` | a publish does not keep what others put on main after the branch was created |
| `recovered` | `AuditedOrRecovered` | recovery appends to main |
| `~redone` | `DeliverySound` | a stream that was dropped, or processed before a crash, is delivered again: at least once is the promise |
| `Replaces = {}` | `WindowIsExact` | rows that were appended and compacted within the window are in no incremental scan, although scanner.rs:54 and 64 say that it returns them in the compacted file: `scan_window` |
| `Untouched` | `DeliverySound`, `CatchesUp` | rows compacted before they were polled are never delivered, for the same reason |
| no `"crash"`, `"delete"`, `"unmark"` | `NothingLost` of `FileCompactor` | a file or a marker outlives its output, and a run that compacts it again names its output after it and replaces the older one with all it held |
| no `"put_stored"`, `"crash"`, `"delete"` | `NothingDoubled` of `FileCompactor` | a file outlives its output, and its rows are in the bucket twice |
| `Uploads \ cut`, `cut` | the properties of `FileCompactor` | the batches of a file behind the one that met the limit are lost with the file, see `compact_plan` |
| `listed` | `CheckpointSound` of `FileCompactor` | a file of another schema is passed by the checkpoint (file_compactor.rs:1060-1066) and stays where it is, in the bucket and unread |
| `hist.stuck`, `hist.givenUp`, `hist.told` | `ParquetSink` | a file that could not be removed, an upload out of attempts, an error the client got |
| `dropped`, `lapsed`, `prompt` | `FilePoller` | a download or transaction that failed (nobody tries again while the file is cached), an expired cache entry, a file uploaded later than the offset |

## Runs

Bounds of the sink: three records in `sink_safe`, which make seven commits, and two, one of
which does not serialise, in `sink_live`; batches of two; one or two slots in the pipeline, so
that it is full with one commit waiting; one rival; two faults of any kind, because every
recovery path begins with one and the second hits the recovery itself. In `sink_safe` the
sink streams (auto-commit and manifests) or is committed by hand, with manifests or without,
and the constraint `FewDisturbances` takes a rival for one of the two disturbances. There a
commit may be rebased once: two commits in flight and a rival exhaust that, while a sink that
is committed by hand has one commit in flight and never does.

Bounds of the branches: two transactions, one of which may have nothing to
write, so that one resumes while the other publishes; one file of another
writer; three files of the sink, because the third commit is the first to meet a
branch that was published twice; one pending commit, because overlapping commits
are known to fail (below); two faults, because a resumed transaction may fail
again, and each further fault repeats an earlier step.

Bounds of the other runs: three commits of one row in two partitions, two of them
with one key, for two compactors, one of which deduplicates, with one retry, one
split and one fault (`stream`; a retry needs one rival commit, a second conflict
exhausts it); commits within a partition there, one that reaches across in
`compact_mixed`; one compactor and no fault in `scan_window`. Three records in batches of two, three files, two upload attempts and
two faults for the file sink: a buffer that is partly full, and a second fault in
the recovery from the first. For the file poller a clock of a few ticks,
an offset and a cache life shorter than the clock's range, so that files fall out
of every window. For the file compactor two files of up to three batches, a limit of two batches,
two schemas, two runs and two faults of any kind: the fewest with which a run makes two
outputs, works on what another left, removes a marker before it downloads it, meets a file of
another schema than its first, and is stopped by the limit inside a file, one that is longer than
the limit and one that is not. The values of rows and schemas are
interchangeable (`SameUpToNames`). `compact_plan` has two files of up to two batches and
the same limit, so that no file is longer than it. For the catalog two clients whose structs
share one column and differ in another, three tokens and one lost request.

| run | question | result |
|---|---|---|
| `sink_safe` | streaming or committed by hand, with every kind of fault: is anything dropped in silence, lost, added twice or visible after its rollback; are the counters exact, the pipeline bounded, answered commits recoverable; does a commit() by hand mean durable while the catalog answers, and does a shutdown without a fault flush | holds |
| `sink_live` | with every kind of fault: do accepted records and recorded commits reach the table, but for a commit whose append failed or that a failed scan passed over, which waits for the next start; does shutdown end; is the sink a `RecordStore` | holds |
| `wap_safe` | is a transaction hidden until it publishes and on main exactly once afterwards, is its publish a fast-forward, does every caller get through, with every fault and other writers | holds |
| `wapsink` | publishing by hand or automatically, one commit at a time: is everything on main audited or recovered, does a publish show everything, is no successful commit lost | holds |
| `stream` | does a rewrite keep what readers see, do incremental scans fit together, does the checkpoint cover only what was processed, do compactors come to rest and consumers catch up | holds |
| `compact_mixed` | does a rewrite keep what readers see when a commit reaches across partitions | violated |
| `scan_window` | does an incremental scan return what its window added, when some of it was compacted within the window | violated |
| `file_sink` | are rows only lost where the client is told, is a commit on disk or in the bucket through crashes, does it arrive, is the bucket free of anything that was neither committed nor recovered | holds |
| `file_poller` | is a file on time never passed over, never queued twice, and handled in the end; is a shutdown heeded | holds |
| `file_compactor` | through two runs and any two faults: is no row lost or doubled that the size limit did not cut off, nothing deleted or passed by the checkpoint before it is compacted; does the dry run tell what a run does when no batch was cut off | holds |
| `compact_plan` | does the dry run tell what a run does when the size limit is met inside a file | violated |
| `catalog` | after ensure_table, has the table what the callers need; is a request repeated only with a newer token and never applied twice; is every client served | holds |

The violated runs are disagreements between code and documentation;
`PROJECT.json` quotes both sides under "findings".

### What the model also shows

Each of these is a small change to a run: a property that is defined but not in
the cfg, or another constant.

* `AtMostOnce` in `sink_safe`: a failed reload in the roll timer ends run()
  with a commit in flight; the append lands, its manifest stays, and the next
  start appends the files again (manifest.rs:271, against src/prestige/README.md:498). No fault is
  needed when a record does not serialise: with `Poison` not empty the timer's
  flush fails, maybe_roll's error leaves run() (sink.rs:463), and a commit that is in
  flight then is appended twice. The attempt to prove `OnceWithoutLoss` found this; hence
  the second part of `Undisturbed`.
* `CommittedIsDurable` with catalog faults: `drain_all` only logs failed tasks, so
  commit() answers Ok for data that is not in the table (sink.rs:672). With
  nothing staged it answers at once although an automatic commit is in flight
  (sink.rs:667).
* `ConflictMeansCommitted` with more rivals than rebases: a commit that loses every
  optimistic retry is taken for already committed (manifest.rs:224).
* `FastForward` in `wap_safe`: a publish drops what another writer put on main
  after the branch was created (branch.rs:243).
* `MainKeepsOwn` in `wapsink` with `MaxPending` 2 and auto-publish: the second task
  starts the branch from nothing and its publish empties main (sink.rs:1050). A
  `publish` whose reply is lost, a reload that fails, or a task that dies after it
  created the branch lead to the same with one commit at a time. The first two
  also break `SettledSound`, and `AutoFaults` leaves them out.
* `NothingUnaudited` in `wapsink`: recovery appends an audit-branch commit straight
  to main (manifest.rs:271).
* Two commits of the sink in flight on the audit branch: the one that meets a
  conflict reports success (sink.rs:1073) and its file is nowhere:
  `SettledSound` with `MaxPending` 2.
* publish() with a commit in flight publishes the branch as the loop last saw it
  and removes the newer commit with the branch (sink.rs:811): `SettledSound`
  with `PublishIdle` off.
* `write` leaves its transaction Complete when it fails (transaction.rs:175), and
  its `publish` then answers Ok with nothing on main. The callers of
  `WapTransaction` begin again after an error instead (`Finish`).
* A write of no batches to a table that stays empty never gets past `publish`
  (transaction.rs:178); `EveryJobEnds` excepts it.
* `EveryRowDelivered` in `stream`: rows compacted before they were polled are not
  delivered, since the scan returns neither their files nor the compacted one. This is
  what the disagreement of `scan_window` means to a consumer: one that must see
  every row has to poll more often than the compactor runs.
* `IncompleteStaysOut` in `file_sink`: src/prestige/README.md:490 says that with auto-commit
  incomplete files are moved to a directory `.incomplete` on restart. There is no
  such directory in the code: recover_from_crash deposits files whose footer was never written
  in the target directory (file_sink.rs:418), and they are uploaded with the others. One failed close,
  or one crash, and a restart show it. `BucketSound` accepts these files, and no others without a footer.
* A file of another schema than the first of its run is passed for good by a caller that
  lists from its checkpoint (file_compactor.rs:1060-1066): only a warning tells that it
  is neither compacted nor will be listed again. Its rows stay in it, so that nothing is lost.
* `Settles` with unbounded splits: when the merged file exceeds the target size
  the outputs are again enough files to compact, and the scheduler rewrites them
  for ever (compactor.rs:1072).
* Two files of the file sink opened in the same millisecond get one name, and the
  second truncates the first (file_sink.rs:664); `NextNames` assumes a clock that
  advances. A shutdown closes the active file but stages nothing for upload
  (file_sink.rs:505, whose comment says "commit any remaining data"); the next
  start uploads it.
* `HandledStaysKnown` in `file_poller`: the cleanup bounds records by the offset
  before now, the window of a restart by the latest record, so that a processed
  file can lie in the window again (file_poller.rs:587).
* A file whose download failed is not tried again while it is cached
  (file_poller.rs:366-410); `dropped` excepts it.
* `FailedDeletionsSkipped` in `compact_plan` with the fault "delete": the marker of a file is
  removed even when its deletion failed (file_compactor.rs:646), although the module's
  documentation says that the marker stays and the next run skips the file (lines 129 and
  131). `NothingEverLost` in `file_compactor` shows what can follow: the next run compacts
  the file again, into an output that may have the name of the one that holds other rows
  (line 729), and replaces it.
* `PlanAgreesFully`: the dry run settles an output before the batch that meets
  the limit and a run after it, so that their numbers of outputs and duplicates
  differ.
* With two identifiers, commit_schema_update compares them in the order of a hash
  set and may refuse a table that matches (table.rs:318). With clients whose
  structs differ in version, a table returned as ensured may lack a column of the
  one or keep a column of the other, which is why `EnsuredMatches` speaks of what
  all want and what nobody wants.

Records, files and writers are symmetric in `sink_safe` and `wapsink`, row values and schemas
in `file_compactor`; runs with a liveness property or the refinement use no symmetry. Deadlock is checked in the
runs of `IcebergSink`, where a stopped or dead sink can be started again, and
not in the others, which stop when every file is written, every client served or
every bound used up.

Fairness of `WapTransaction` (`FairSpec`): a caller takes its next step, and
begins again after an error, as the resumption the documentation describes
asks of it. Faults are bounded, so that they stop; other writers need not move.

Fairness of `IcebergSink` (`Fairness`): a started handler continues and an open transaction
makes progress (weak fairness; a tokio task that can run is scheduled). `Roll`
and `Complete` get strong fairness, because the biased select of `run` polls
the pipeline and the timer before the messages, so that clients cannot starve
them. A process that died is restarted, as a supervisor would. Clients, faults
and rivals get no fairness.

Fairness of `IcebergStream`: compactors run on their scheduler's ticks, the poller
polls on its own, and the consumer processes and acknowledges what it holds.
Writers and faults get none. Fairness of `ParquetSink`: the upload service works
on its requests, and a crashed process is started again; the client gets none. Fairness
of `FilePoller`: each of the loop's, the consumer's and the clock's steps that stays
possible is taken; that the consumer does not roll back for ever is the
bound on faults. Fairness of `CatalogClient`: each client takes its next
step and starts over after an error.

## Proofs

All theorems hold for every value of the constants that satisfies the assumptions
named in the modules; `RecordsFinite` of the sink is needed because row counts
are cardinalities.

`IcebergSinkProofs` proves type correctness (`TypeCorrect`) and that a commit whose
manifest was written is in the table, or has its manifest, or was swallowed as a
conflict (`RecordedNeverLost`). `RecordedNotLost` is not inductive: `Complete` and
`RecoverEnd` delete a manifest when the transaction says "ok", so one must know
that "ok" means applied or swallowed (`OkMeansApplied`); and `Crash` and
`RecordManifest` overwrite the manifest of the commit being prepared, so one must
know that this commit was not recorded before (`RecordedApart`, which rests on
`FrontEnd`: a record is in one place only). `IInv` is the conjunction of these with
`TypeOK`; `InitIInv` and `IInvStep` are the induction, one step per action.

Its second part strengthens this to `SInv`, from which `AccountsAreExact`,
`RolledBackNeverVisible`, `NothingDropped` and `CommittedStaysRecoverable` follow. What
they need beyond themselves: that a failed prepare restores exactly what it took
(`SavedExact`), that the loop prepares a batch only in the states of `Busy`
(`Placed`), and that the records of a prepared commit - in flight, recorded or
applied - are no longer in the front end (`PreparedApart`) nor rolled back
(`RolledApart`), so that neither a rollback nor a restore touches them. The steps
are sorted into kinds (`StepKinds`), each with what it does to records, memory and
commits, and each conjunct is proved once per kind instead of once per action.
`CommittedStaysRecoverable` needs no assumption: that there is a manifest directory is a
condition of the property.

Two stronger invariants follow. `OnceInv`, for `NothingTwice`
(`OnceWithoutLoss`), adds that prepared commits share no record (`PairsApart`) and that,
while nothing has disturbed the sink, a commit which a transaction or a manifest may still
append is not in the table (`AppendedOnce`) and no process ends beside its commits
(`LoopUndisturbed`). `DInv` is about sinks without auto-commit whose transactions may be
rebased as often as others commit: there is one transaction at a time
and rivals alone make it stale (`OneTxn`), so no conflict is taken for success, and a
manifest is that of a commit in the table or on its way there (`ManifestsApplied`).
`CommitsAreDurable` (`CommittedIsDurable`) assumes of the constants only that, `MaxRivals <=
CommitRetries`; `StopLeavesNothing` (`StopFlushesAll`) assumes besides that records serialise.
That clients commit by hand and the catalog answers are conditions of the properties, and
"What the model also shows" has what happens without them.

The last part proves that the sink implements `RecordStore`. Under `SInv` the
four statuses exclude each other (`StatusIs`); a write is an `Accept`, an append is a
`Publish` of what was pending of it, and every other step leaves the table and the
fresh records alone and adds nothing to what is pending, which makes it a `Drop` or a
stutter (`OthersDrop`, `OnlyDrops`).

`WapTransactionProofs` proves, for every set of transactions and writers and
every fault, late requests included, that nothing of a transaction is on main
before it sends a publish request (`NothingEarly`). `HiddenUntilPublish` speaks
of main alone and is not inductive: main is replaced by a branch head, a head is
named by a request that was built from a copy of the metadata and may arrive
much later. `Audited` therefore says of main, of every branch, of every copy and
of every request in transit that the snapshot it names holds a job's data only
if that job published or the snapshot is meant for that job's branch. Snapshots
are only added, so that this survives (`GrowsKeeps`); `SendKeeps` and
`ApplyKeeps` treat the requests once for all callers. Assumptions:
`FaultsAssumption`, `MainAssumption`, `JobsAssumption`, and `WapIdAssumption` (no branch
has the name that stands for "no wap.id").

`WrittenAtMostOnce`, `DoneShows`, `PublishShows` and `MainOnlyGrows` follow from `WInv`, which
adds `Resumable`: unless a request arrives late, a job's place in `begin`, `write` and
`publish` agrees with what the table holds of it (`Resumes`), its snapshots are known by its
`wap.id` and its data is in them once (`Known`, `Single`); and while nobody else moved main
since, its branch continues main (`Ahead`). A resumed caller finds out where
it was from the table alone, and this is what makes the answer right after
any error, lost reply or crash.

`WapSinkProofs` proves `NothingSlipsThrough` (`AuditedOrRecovered`) for any number of tasks
in flight and a client that publishes at any time. The property speaks of main, which a
publish replaces by what some copy of the metadata says of the branch; so `AuditInv` says of
every copy, the loop's, the tasks' and the catalog's, that it leads main only to files
that were audited or recovered, and the branch only to these and to files that are on the
branch now (`Covered`). A step of the table keeps this in three ways (`GrantedAdvances`,
`AppendAdvances`, `StillAdvances`), and copies are only made of copies (`CopySteps`).

`SettledIsSound` and `PublishIsComplete` assume `OneAtATime`: max_pending_commits is 1 and the
client publishes between commits. `SettledIsSound` assumes besides that with auto_publish
no reload fails and no reply is lost (`PublishHeard`). TLC finds `SettledSound` violated
when any one of these is dropped. The invariant
(`SettledIn`) follows the one task: what it knows of its branch at each step (`TaskOk`), that
nobody else touches the branch meanwhile (`OneTask`), and that the copy the loop hands to the
next task knows the branch if there is one, and everything settled if there is none
(`Recent`). `OnTable` says of the loop's copy what the properties say of the table, because
its branch is what the next publish() makes of main.

`CatalogClientProofs` proves `RetryIsSound` and `TableIsEnsured`. A repeated request has
a token issued after its refusal because, once a client has invalidated the cache,
the cache is empty or newer than that refusal, and so is every token about to be
stored (`CacheRenewed`); this rests on the mutex, which is held from a fetch until
its token is stored (`LockHeld`). That a request is applied once needs
`NotYetApplied`: a client that has not been answered has not been applied. For the
table, `BaseHolds` says that since a client loaded the table nobody took out a column that
all want or put one in that nobody wants, and `TableHolds` is the property itself.

`ParquetSinkProofs` proves `AcceptedIsKept`, `CommittedStays`, `BucketIsSound` and
`CommitsCoverAll`, under one assumption, that the clock advances between two files
(`ClockAdvances`). A file is in one directory, is listed once, and its rows are
nobody else's (the layout, and rows apart); uploads are of files the sink staged or
found at its start; a rolled back row is only where recovery may take it from. With these
it is enough to look at one record or file at a time, and at the parts of a handler
one after the other: each part has a lemma that says what it does for any outcome
of the part before it, since the handlers are chains of `Then`.

`FilePollerProofs` proves `NoFileSkipped` and `FilesGoOnce`. That no file is passed over is
not inductive, because any file that is listed, queued or sent may soon be
`latest`, or after a crash be the maximum read from the table, and then moves the
look-back. `Ordered` says that wherever a file stands between listing and table, the
offset before it leaves out only files that are ahead of it; `Held` that a cached file
is in flight, done or one of the excepted; that a file is in one place
is a count of the places it is in.

`IcebergStreamProofs` proves `WindowsAreSound`, `CheckpointIsSound`, `CompactionPreserves` and
`DeliveryIsSound`. Rows are counted as cardinalities of sets of files, so that
sums need no induction. The invariant has three parts: the table (sequence numbers,
files that are added once, live files only shrinking by rewrites), the jobs (what a
compactor holds is live, or it will find out and reload), and the poller (what
was sent, processed and acknowledged). `CompactionPreserves` and `DeliveryIsSound` have the
hypothesis `WholeManifests`: a rewrite takes all or nothing of a manifest. The instance
`stream` has it, because its commits stay within a partition; `compact_mixed` shows
the code without it. For tables without partitions it is proved, so that
`UnpartitionedPreserves` and `UnpartitionedDelivers` need no hypothesis.

`FileCompactorProofs` proves every property that `file_compactor` checks,
for any number of files, batches, schemas, runs and faults. None is inductive. That a deleted file is in
an output speaks of the end of a run, so `HeldInv` says of every moment of it: what was read
is held, by the accumulator or by an output the run has made (`PassedHeld`), and a hash that was
seen is the hash of a row that is held (`HashesHeld`). An output would not keep what it
holds if the run replaced it; that it never does (`NewName`) is because keys are read in
the order of their times and an output is named after the latest (`InOrder`, `Fresh`), which
is what `OrderInv` is for. `DeletedFilesAreCompacted` and `CheckpointIsSound`, the two parts of `PassedIsCompacted`, follow, with every
kind of fault, since a fault ends the run or changes the bucket in ways that these
invariants do not mention.

Over several runs more is needed. `UploadsAreKept` (`NothingLost`) rests on `LostInv`: a name that
an output may get is that of a file which is still there, so an output whose file is gone
(`Loose`) is never replaced, and a file goes only when its rows are in such an output
(`Covered`). This holds only while all keys between two outputs are files (`OnlyFiles`),
hence the condition on faults. `NothingIsDoubled` rests on `DoubledInv`: what is accumulated is in
files of the bucket, and what an output holds is not, unless its sources are about to be deleted
(`Apart`). `PlanIsRight` compares the run with the dry run batch by batch: the same rows are
dropped because both keep their hashes when they settle an output (`RecordsAgree`), and the
files that remain account for the difference of the counts (`FilesAgree`); it holds while no batch
of the run's files was cut off. Each is a
conjunct per idea, proved once per kind of step (`Kinds`).

What is only model-checked is liveness, `CommitsArrive` and `Progress` among it: fairness
and ENABLED are out of the prover's reach. Nothing that would need an induction over
data is left: counts are cardinalities, and files are read batch by batch.

## Not modelled

* `iceberg/catalog.rs`: `connect`, `resolve_endpoint` and the choice of an
  authentication: configuration and one request at the start. A config request
  that fails is taken for a catalog without a prefix.
* `iceberg/schema.rs`, `table.rs`: the conversion of types, partition specs and sort
  orders, which have no state and compute on data the properties do not tell apart.
* Delete files of Iceberg: nothing in prestige writes them, the compactor reads tables
  that have them through iceberg's scan, which applies them.
* `file_source.rs`: stream adaptors. `file_meta.rs` beyond order, prefix and marker.
* `traits.rs`, `error.rs`, `serde_u8_array.rs`, telemetry, `src/macros`, `src/cli` and the
  test harness: conversions, metrics, code generation, argument parsing, test support.

## Plan

Every component with a state machine is modelled, and every safety property that a passing
run checks is proved. What is left is larger instances for the liveness properties, and
the parts under "Not modelled" should they get state.
