----------------------------- MODULE ParquetSink -----------------------------
(***************************************************************************)
(* The parquet file sink, src/prestige/src/file_sink.rs, and the upload    *)
(* service it hands its files to, src/prestige/src/file_upload.rs: records *)
(* go through a buffer to an active file in tmp/, a closed file moves to   *)
(* the target directory and is staged, a commit queues the staged files    *)
(* for upload, and the start of a process recovers both directories.       *)
(*                                                                         *)
(* A file is [name, rows, footer].  What the writer of the active file     *)
(* holds is on disk, and readable, only once it was closed.                *)
(***************************************************************************)
EXTENDS Naturals, Sequences, FiniteSets

CONSTANTS
  MaxRecords,     \* bound: the client writes the records 1..MaxRecords
  MaxFiles,       \* bound on file names
  BatchSize,      \* batch_size
  MaxRows,        \* max_rows
  UploadRetries,  \* MAX_RETRIES of an upload
  MaxFaults,      \* bound on faults
  FaultKinds      \* "open", "flush", "close", "rename", "remove", "put",
                  \* "lost_reply", "uploader", "boot", "crash",
                  \* "same_ms"

ASSUME SinkAssumption ==
  /\ {MaxRecords, MaxFiles, UploadRetries, MaxFaults} \subseteq Nat
  /\ {BatchSize, MaxRows} \subseteq Nat \ {0}

VARIABLES
  auto,     \* auto_commit
  up,       \* "down", "running" or "stopped"
  mem,      \* the sink's memory: active file and staged_files
  tmp,      \* files in tmp_path
  target,   \* files in target_path
  uploads,  \* upload requests: queued, or at work
  server,   \* the upload service takes requests
  bucket,   \* objects in the bucket
  names,    \* file names used so far
  opened,   \* the name this process used last (0: none)
  faults,   \* faults so far
  hist      \* what clients were told (see HistInit)

vars == <<auto, up, mem, tmp, target, uploads, server, bucket, names, opened, faults, hist>>

NoFile == [name |-> 0, rows |-> {}, buffer |-> {}]
Forgotten == [active |-> NoFile, staged |-> <<>>]

\* accepted: writes answered Ok.  told: records in memory, or dropped from
\* the staged list, when an error was answered or the process ended.
\* committed, rolled: files a commit and records a rollback answered Ok for.
\* stuck: files a rollback could not remove.  recovered: files a start found.
\* givenUp: uploads that ended without success.
HistInit == [accepted |-> {}, written |-> 0, told |-> {}, committed |-> {}, rolled |-> {},
             stuck |-> {}, recovered |-> {}, givenUp |-> {}]

Init ==
  /\ auto \in BOOLEAN /\ up = "running" /\ mem = Forgotten
  /\ tmp = {} /\ target = {} /\ uploads = {} /\ server = TRUE /\ bucket = {}
  /\ names = 0 /\ opened = 0 /\ faults = 0 /\ hist = HistInit

Put(dir, f) == {g \in dir : g.name # f.name} \cup {f}
RowsOf(F) == UNION {f.rows : f \in F}
Named(dir, N) == {f \in dir : f.name \in N}
Request(n) == [name |-> n, tries |-> 0, stored |-> FALSE]
StagedNames(m) == {m.staged[i] : i \in DOMAIN m.staged}
Held(m) == m.active.rows \cup m.active.buffer

-----------------------------------------------------------------------------
(* Parts of the handlers, as sets of outcomes.                             *)

\* An outcome: memory, directories, upload requests, whether the part
\* succeeded, and the fault it met.
Now == [mem |-> mem, tmp |-> tmp, target |-> target, uploads |-> uploads,
        ok |-> TRUE, fault |-> "none"]

Failed(o, kind) == [o EXCEPT !.ok = FALSE, !.fault = kind]

\* What follows a part, if that succeeded.
Then(outcomes, Part(_)) == UNION {IF o.ok THEN Part(o) ELSE {o} : o \in outcomes}

Flushed(a) == [a EXCEPT !.rows = @ \cup a.buffer, !.buffer = {}]

\* flush_buffer
Flush(o) ==
  IF o.mem.active.buffer = {} THEN {o}
  ELSE {[o EXCEPT !.mem.active = Flushed(@)], Failed(o, "flush")}

\* The active file once its writer is closed.
Closed(a) == [name |-> a.name, rows |-> a.rows, footer |-> TRUE]

Emptied(m) == [m EXCEPT !.active = NoFile]

\* After the flush: take the active file, close it, move
\* it to the target directory and stage it.
TakeActive(o) ==
  LET a == o.mem.active
      taken == [o EXCEPT !.mem = Emptied(@)]
  IN IF a = NoFile THEN {o}
     ELSE {[taken EXCEPT !.mem.staged = Append(@, a.name),
                         !.tmp = @ \ Named(@, {a.name}),
                         !.target = Put(@, Closed(a))],
           Failed(taken, "close"),
           Failed([taken EXCEPT !.tmp = Put(@, Closed(a))], "rename")}

\* Mutant: the last batch is not flushed.
CloseUnflushed(o) == TakeActive(o)

\* maybe_close_active_sink
Close(o) == Then(Flush(o), TakeActive)

\* Mutant: the staged files are queued and stay staged.
KeepStaged(o) == {[o EXCEPT !.uploads = @ \cup {Request(n) : n \in StagedNames(o.mem)}]}

\* The staged list is drained into upload requests; without a service the
\* first of them fails, and the rest is dropped with it.
Queue(o) ==
  {[o EXCEPT !.mem.staged = <<>>,
             !.uploads = IF server THEN @ \cup {Request(n) : n \in StagedNames(o.mem)} ELSE @,
             !.ok = server \/ o.mem.staged = <<>>]}

\* commit
CommitAll(o) == Then(Close(o), Queue)

\* rotate
Rotate(o) == IF auto THEN CommitAll(o) ELSE Close(o)

\* new_sink, with the name that the clock gives.
Open(o, n) ==
  IF o.mem.active # NoFile THEN {o}
  ELSE {[o EXCEPT !.mem.active = [NoFile EXCEPT !.name = n],
                  !.tmp = Put(@, [name |-> n, rows |-> {}, footer |-> FALSE])],
        Failed(o, "open")}

\* write: the record is buffered, a full batch is flushed, and a file that
\* is full, or old, is rotated.
Push(o, r, old) ==
  LET pushed == [o EXCEPT !.mem.active.buffer = @ \cup {r}]
      full(p) == IF old \/ Cardinality(p.mem.active.rows) >= MaxRows THEN Rotate(p) ELSE {p}
  IN Then(IF Cardinality(pushed.mem.active.buffer) >= BatchSize THEN Flush(pushed) ELSE {pushed},
          full)

-----------------------------------------------------------------------------
(* The event loop                                                          *)

Meets(kind) ==
  IF kind = "none" THEN UNCHANGED faults
  ELSE kind \in FaultKinds /\ faults < MaxFaults /\ faults' = faults + 1

StagedRows(o) == RowsOf(Named(o.target, StagedNames(o.mem)))

\* What a failed part took out of memory.
LostBy(o) ==
  IF o.ok \/ o.fault = "flush" THEN {}
  ELSE (Held(mem) \cup StagedRows(Now)) \ (Held(o.mem) \cup StagedRows(o))

\* The files that an outcome asked to upload.
Queued(o) == Named(o.target, {u.name : u \in o.uploads \ uploads})

\* The handler ends with the outcome o and answers it.
Answer(o) ==
  /\ mem' = o.mem /\ tmp' = o.tmp /\ target' = o.target /\ uploads' = o.uploads
  /\ Meets(o.fault)
  /\ UNCHANGED <<auto, up, server, bucket>>

Told(o) == [hist EXCEPT !.told = @ \cup LostBy(o),
                        !.committed = IF o.ok THEN @ \cup Queued(o) ELSE @]

\* A file opened in the same millisecond as the last one gets its name.
NextNames ==
  ({names + 1} \cap 1..MaxFiles) \cup (IF "same_ms" \in FaultKinds THEN {opened} \ {0} ELSE {})

Write ==
  /\ up = "running" /\ hist.written < MaxRecords
  /\ \E n \in IF mem.active = NoFile THEN NextNames ELSE {mem.active.name}, old \in BOOLEAN :
       LET r == hist.written + 1
           push(o) == Push(o, r, old)
       IN \E o \in Then(Open(Now, n), push) :
            /\ Answer(o)
            /\ opened' = IF o.fault = "open" THEN opened ELSE n
            /\ names' = IF o.fault = "open" \/ n < names THEN names ELSE n
            /\ hist' = [Told(o) EXCEPT !.written = r,
                                       !.accepted = IF o.ok THEN @ \cup {r} ELSE @]

Commit ==
  /\ up = "running" /\ mem # Forgotten
  /\ \E o \in CommitAll(Now) : Answer(o) /\ hist' = Told(o)
  /\ UNCHANGED <<names, opened>>

\* rollback: a file that cannot be removed only costs a warning.
Rollback ==
  /\ up = "running" /\ mem # Forgotten
  /\ \E o \in Close(Now) :
       \/ ~ o.ok /\ Answer(o) /\ hist' = Told(o)
       \/ /\ o.ok
          /\ \E kept \in SUBSET StagedNames(o.mem) :
               /\ Answer([o EXCEPT !.mem.staged = <<>>,
                                   !.target = @ \ Named(@, StagedNames(o.mem) \ kept),
                                   !.fault = IF kept = {} THEN "none" ELSE "remove"])
               /\ hist' = [hist EXCEPT !.rolled = @ \cup StagedRows(o), !.stuck = @ \cup kept]
  /\ UNCHANGED <<names, opened>>

\* The process ends: its memory and its upload requests are gone.
EndProcess(how, m) ==
  /\ up' = how /\ mem' = Forgotten /\ uploads' = {} /\ server' = FALSE /\ opened' = 0
  /\ hist' = [hist EXCEPT !.told = @ \cup Held(m)]
  /\ UNCHANGED <<auto, bucket, names>>

\* maybe_roll: an error ends run(), and the process with it.
Roll ==
  /\ up = "running" /\ mem.active # NoFile
  /\ \E o \in Rotate(Now) :
       \/ o.ok /\ Answer(o) /\ hist' = Told(o) /\ UNCHANGED <<names, opened>>
       \/ /\ ~ o.ok /\ Meets(o.fault)
          /\ tmp' = o.tmp /\ target' = o.target
          /\ EndProcess("down", mem)

\* The loop ends, its last file is closed, and nothing is queued.
Shutdown ==
  /\ up = "running"
  /\ \E o \in Close(Now) :
       /\ Meets(o.fault)
       /\ tmp' = o.tmp /\ target' = o.target
       /\ EndProcess("stopped", IF o.ok THEN Forgotten ELSE mem)

Crash ==
  /\ up = "running" /\ Meets("crash")
  /\ EndProcess("down", mem)
  /\ UNCHANGED <<tmp, target>>

\* Mutant: files of the target directory are left alone.
NoRequests(F) == {}

\* The upload requests of recovery.
Requests(F) == {Request(f.name) : f \in F}

\* What recovery makes of the files F it finds in tmp/.
Deposited(F) == IF auto THEN F ELSE {}

\* init and recover_from_crash: files of the target directory are queued for
\* upload, those of tmp/ are moved there and queued, or deleted.
Boot ==
  /\ up # "running"
  /\ \E skipped \in SUBSET tmp :
       /\ Meets(IF skipped = {} THEN "none" ELSE "boot")
       /\ LET found == Deposited(tmp \ skipped)
              all == {f \in target : f.name \notin {g.name : g \in found}} \cup found
          IN /\ tmp' = skipped /\ target' = all
             /\ uploads' = Requests(all)
             /\ hist' = [hist EXCEPT !.recovered = @ \cup {f.name : f \in all}]
  /\ up' = "running" /\ server' = TRUE
  /\ UNCHANGED <<auto, mem, bucket, names, opened>>

-----------------------------------------------------------------------------
(* The upload service                                                      *)

\* A request whose file is gone is ignored.
Ignore(u) ==
  /\ ~ u.stored /\ Named(target, {u.name}) = {}
  /\ uploads' = uploads \ {u}
  /\ UNCHANGED <<target, bucket, faults, hist>>

Stored(u) ==
  /\ ~ u.stored
  /\ \E f \in Named(target, {u.name}) : bucket' = Put(bucket, f)
  /\ uploads' = (uploads \ {u}) \cup {[u EXCEPT !.stored = TRUE]}
  /\ UNCHANGED <<target, faults, hist>>

\* Mutant: after the last attempt the file is taken for stored.
NextTryOrStored(u) == {[u EXCEPT !.tries = @ + 1, !.stored = (u.tries = UploadRetries)]}

\* The request after a failed attempt: another attempt, or none.
NextTry(u) == IF u.tries < UploadRetries THEN {[u EXCEPT !.tries = @ + 1]} ELSE {}

\* An attempt fails, although the object may be stored.
PutFails(u) ==
  /\ ~ u.stored
  /\ \E f \in Named(target, {u.name}), kind \in {"put", "lost_reply"} :
       /\ Meets(kind)
       /\ bucket' = IF kind = "put" THEN bucket ELSE Put(bucket, f)
  /\ uploads' = (uploads \ {u}) \cup NextTry(u)
  /\ hist' = [hist EXCEPT !.givenUp = IF NextTry(u) = {} THEN @ \cup {u.name} ELSE @]
  /\ UNCHANGED target

\* The local file of a stored object is removed, or an error logged.
RemoveLocal(u) ==
  /\ u.stored
  /\ uploads' = uploads \ {u}
  /\ \/ target' = target \ Named(target, {u.name}) /\ UNCHANGED faults
     \/ Meets("remove") /\ UNCHANGED target
  /\ UNCHANGED <<bucket, hist>>

Upload(u) ==
  /\ Ignore(u) \/ Stored(u) \/ PutFails(u) \/ RemoveLocal(u)
  /\ UNCHANGED <<auto, up, mem, tmp, server, names, opened>>

\* The service ends before the sink does.
UploaderStops ==
  /\ server /\ Meets("uploader")
  /\ server' = FALSE /\ uploads' = {}
  /\ hist' = [hist EXCEPT !.givenUp = @ \cup {u.name : u \in uploads}]
  /\ UNCHANGED <<auto, up, mem, tmp, target, bucket, names, opened>>

-----------------------------------------------------------------------------
Next ==
  \/ Write \/ Commit \/ Rollback \/ Roll \/ Shutdown \/ Crash \/ Boot
  \/ \E u \in uploads : Upload(u)
  \/ UploaderStops

Spec == Init /\ [][Next]_vars

\* The upload service keeps working, and a process that crashed is started.
FairSpec == Spec /\ WF_vars(\E u \in uploads : Upload(u)) /\ WF_vars(up = "down" /\ Boot)

-----------------------------------------------------------------------------
TypeOK ==
  /\ auto \in BOOLEAN /\ up \in {"down", "running", "stopped"} /\ server \in BOOLEAN
  /\ names \in 0..MaxFiles /\ opened \in 0..names /\ faults \in 0..MaxFaults
  /\ \A f \in tmp \cup target \cup bucket :
       f.name \in 1..names /\ f.rows \subseteq 1..MaxRecords /\ f.footer \in BOOLEAN
  /\ \A u \in uploads : u.name \in 1..names /\ u.tries \in 0..UploadRetries
  /\ Cardinality(mem.active.buffer) <= BatchSize + faults
  /\ server \/ uploads = {}

\* A record whose write was answered Ok is in memory, on disk or in the
\* bucket, was rolled back, or an error was answered (or the process ended)
\* when it was lost.
NoSilentDrop ==
  hist.accepted \subseteq
    Held(mem) \cup RowsOf(tmp \cup target \cup bucket) \cup hist.rolled \cup hist.told

\* file_sink.rs, commit: once it answered Ok its files are on disk or in the
\* bucket, whole, through failed uploads, crashes and recoveries.
CommittedKept == hist.committed \subseteq target \cup bucket

\* file_sink.rs, rollback: its records reach the bucket only through a file
\* that could not be removed, after a restart.
RolledBackStaysOut ==
  hist.rolled \cap RowsOf({f \in bucket : f.name \notin hist.stuck \cap hist.recovered}) = {}

\* Only a commit, or the recovery of a file that some process had closed,
\* puts a file into the bucket.
OnlyCommittedOrRecovered ==
  \A f \in bucket : f \in hist.committed \/ f.name \in hist.recovered

\* file_sink.rs, recover_from_crash: a file without a footer is uploaded, but in
\* auto-commit mode only, and only by recovery.
UnreadableOnlyRecovered ==
  \A f \in bucket : f.footer \/ (auto /\ f.name \in hist.recovered)

\* The stated promise of README.md, "Crash Recovery": "incomplete files are
\* moved to .incomplete", so that only readable files reach the bucket.  The
\* code deposits them beside the others instead.
IncompleteStaysOut == \A f \in bucket : f.footer

\* No record is in two objects.
UploadedOnce ==
  \A f, g \in bucket \cup target : f.name # g.name => f.rows \cap g.rows = {}

\* The directories and the bucket after any commits, rollbacks, uploads,
\* crashes and recoveries, with the footerless files that recovery uploads.
BucketSound ==
  /\ TypeOK /\ RolledBackStaysOut
  /\ OnlyCommittedOrRecovered /\ UnreadableOnlyRecovered /\ UploadedOnce

\* A commit that answers Ok covers every record accepted before it.
CommitCoversAll ==
  [][(hist'.committed # hist.committed /\ up' = "running") =>
       hist'.accepted \cap (Held(mem) \cup StagedRows(Now)) \subseteq
         RowsOf(hist'.committed)]_vars

\* An upload that was asked for ends in the bucket, unless its attempts ran
\* out, the service ended or the process was stopped.
UploadsArrive ==
  \A n \in 1..MaxFiles :
    (\E f \in hist.committed : f.name = n)
      ~> (n \in {f.name : f \in bucket} \cup hist.givenUp \/ up = "stopped")

\* From the client's commit() to the bucket: it covers what was accepted, and
\* what it covers arrives.
CommitsArrive == CommitCoversAll /\ UploadsArrive
=============================================================================
