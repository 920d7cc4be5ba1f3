----------------------------- MODULE FilePoller -----------------------------
(***************************************************************************)
(* The file poller (file_poller.rs): one task lists a bucket by the time   *)
(* in the file names, remembers what it has seen in a cache that expires   *)
(* and in the files_processed table, and sends each new file down a        *)
(* bounded channel to a consumer that records the file in the transaction  *)
(* that processes it.                                                      *)
(*                                                                         *)
(* A file is its timestamp: the name is <prefix>.<millis>.parquet, so two  *)
(* files of a prefix never share one, and the listing's order, which is    *)
(* the order of the names, is the order of the timestamps.                 *)
(***************************************************************************)
EXTENDS Integers, FiniteSets, Sequences, SequencesExt, FiniteSetsExt

CONSTANTS
  MaxTime,        \* the clock stops here
  MaxFiles,       \* files ever uploaded
  Offset,         \* offset: how far behind the latest file the listing starts
  StartAfter,     \* LookbackBehavior::StartAfter, a time
  MaxLookback,    \* LookbackBehavior::Max, a duration
  CacheTtl,       \* CACHE_TTL
  QueueSize,      \* queue_size of the channel
  Keep,           \* the 100 records that clean always leaves
  MaxFaults, MaxCleans,
  FaultKinds      \* faults the environment may inject

ASSUME PollerAssumption ==
  /\ {MaxTime, MaxFiles, Offset, CacheTtl, QueueSize} \subseteq Nat \ {0}
  /\ {StartAfter, MaxLookback, Keep, MaxFaults, MaxCleans} \subseteq Nat

Files == 1..MaxTime
None == 0

VARIABLES
  now,            \* the clock
  lookback,       \* the configured behaviour: "start" or "max"
  bucket,         \* files uploaded so far
  bad,            \* those that are no parquet file
  processed,      \* rows of files_processed: the files recorded
  latest,         \* latest_file_timestamp, None before the first
  cache,          \* file -> when it was put in the cache, None if it is not
  queue,          \* file_queue
  listing,        \* files of the listing get_next_file has yet to check
  phase,          \* where run() stands
  file,           \* the file run() is downloading or sending, or None
  channel,        \* streams sent and not yet received
  holding,        \* the file the consumer's open transaction processes
  shutdown,       \* the shutdown signal has fired
  faults, cleans,
  \* History, read by the properties only.
  prompt,         \* files uploaded less than the offset after their timestamp
  handled,        \* files whose processing was committed
  dropped,        \* files whose download or processing failed
  lapsed          \* files listed again after their cache entry expired

clock == <<now, lookback>>
store == <<bucket, bad, prompt>>
server == <<latest, cache, queue, listing, phase, file>>
consumer == <<channel, holding, processed, handled>>
vars == <<clock, store, server, consumer, shutdown, faults, cleans, dropped, lapsed>>

Phases == {"poll", "checking", "download", "sending", "ended"}

(***************************************************************************)
(* What the code computes.                                                 *)
(***************************************************************************)

\* Mutant: the offset is forgotten.
AfterWithoutOffset(last) ==
  IF last # None /\ last > StartAfter THEN last ELSE StartAfter

\* after(): exclusive lower bound of the listing.
After(last) ==
  LET floor == IF lookback = "start" THEN StartAfter ELSE now - MaxLookback
  IN  IF last # None /\ last - Offset > floor THEN last - Offset ELSE floor

\* latest_timestamp(): MAX(file_timestamp), NULL of an empty table.
LatestRecorded == IF processed = {} THEN None ELSE Max(processed)

Listed(after) == {f \in bucket : after < f /\ f <= now}

Cached(f) == cache[f] # None /\ now < cache[f] + CacheTtl

AlreadyProcessed(f) == Cached(f) \/ f \in processed

\* Mutant: the cache learns of a file only from the table.
MarkedTooLate(c, f) == c

Marked(c, f) == [c EXCEPT ![f] = now]

\* clean(): records older than both the Keep-th most recent and the window.
Cleaned ==
  LET older(t) == {f \in processed : f < t}
      newest == SetToSortSeq(processed, LAMBDA a, b : a > b)
  IN  IF Cardinality(processed) <= Keep THEN {}
      ELSE older(Min({newest[Keep + 1], After(latest)}))

InFlight == Range(queue) \cup Range(channel) \cup {file, holding}

Fault(kind) == kind \in FaultKinds /\ faults < MaxFaults /\ faults' = faults + 1

(***************************************************************************)
(* The bucket and the clock.  A writer names a file when it opens it and   *)
(* uploads it some time later; its clock may be one unit ahead.            *)
(***************************************************************************)
Tick ==
  /\ now < MaxTime
  /\ now' = now + 1
  /\ UNCHANGED <<lookback, store, server, consumer, shutdown, faults, cleans, dropped, lapsed>>

Upload(f) ==
  /\ f \notin bucket /\ f <= now + 1 /\ Cardinality(bucket) < MaxFiles
  /\ bucket' = bucket \cup {f}
  /\ prompt' = IF now < f + Offset THEN prompt \cup {f} ELSE prompt
  /\ \/ UNCHANGED <<bad, faults>>
     \/ Fault("bad_file") /\ bad' = bad \cup {f}
  /\ UNCHANGED <<clock, server, consumer, shutdown, cleans, dropped, lapsed>>

(***************************************************************************)
(* The server.                                                             *)
(***************************************************************************)
Ended ==
  /\ phase' = "ended" /\ queue' = <<>> /\ listing' = {} /\ file' = None
  /\ UNCHANGED <<latest, cache>>

\* A poller that ends takes its process with it: the streams the consumer has
\* not finished are dropped, and an open transaction rolls back.
ProcessEnds ==
  /\ Ended
  /\ channel' = <<>> /\ holding' = None
  /\ UNCHANGED <<clock, store, processed, handled, cleans, dropped, lapsed>>

\* create(): a new process reads the latest timestamp from the table.
Create ==
  /\ phase = "ended"
  /\ phase' = "poll" /\ shutdown' = FALSE
  /\ latest' = LatestRecorded
  /\ cache' = [f \in Files |-> None]
  /\ UNCHANGED <<clock, store, queue, listing, file, consumer, faults, cleans, dropped, lapsed>>

Waits == phase \in {"poll", "checking"}

\* Mutant: the branches are polled in any order.
SignalIgnored == TRUE

\* select! is biased: no branch below the shutdown runs once it has fired.
Unsignalled == ~shutdown

\* The cleanup tick wins the select: the future of get_next_file is dropped in
\* the middle of its listing, and what it already queued stays queued.
Cleanup ==
  /\ Waits /\ Unsignalled /\ cleans < MaxCleans
  /\ cleans' = cleans + 1
  /\ phase' = "poll" /\ listing' = {}
  /\ \/ processed' = processed \ Cleaned /\ UNCHANGED faults
     \/ Fault("clean") /\ UNCHANGED processed
  /\ UNCHANGED <<clock, store, latest, cache, queue, file, channel, holding, handled,
                 shutdown, dropped, lapsed>>

List ==
  /\ phase = "poll" /\ Unsignalled /\ queue = <<>>
  /\ Listed(After(latest)) # {}
  /\ phase' = "checking"
  /\ listing' = Listed(After(latest))
  /\ UNCHANGED <<clock, store, latest, cache, queue, file, consumer, shutdown, faults,
                 cleans, dropped, lapsed>>

\* is_already_processed() of the listing's next file, the oldest, and what
\* follows.
Check ==
  /\ phase = "checking" /\ Unsignalled
  /\ LET f == Min(listing) IN
       IF AlreadyProcessed(f)
       THEN /\ cache' = IF Cached(f) THEN cache ELSE Marked(cache, f)
            /\ UNCHANGED <<latest, queue, lapsed>>
       ELSE /\ latest' = f
            /\ queue' = Append(queue, f)
            /\ lapsed' = IF cache[f] = None THEN lapsed ELSE lapsed \cup {f}
            /\ UNCHANGED cache
  /\ listing' = listing \ {Min(listing)}
  /\ phase' = IF listing' = {} THEN "poll" ELSE "checking"
  /\ UNCHANGED <<clock, store, file, consumer, shutdown, faults, cleans, dropped>>

\* An error of the listing or of the table ends run().
PollFails == Waits /\ Fault("poll") /\ ProcessEnds /\ UNCHANGED shutdown

NextFile ==
  /\ phase = "poll" /\ Unsignalled /\ queue # <<>>
  /\ phase' = "download"
  /\ file' = Head(queue) /\ queue' = Tail(queue)
  /\ cache' = Marked(cache, Head(queue))
  /\ UNCHANGED <<clock, store, latest, listing, consumer, shutdown, faults, cleans,
                 dropped, lapsed>>

Download ==
  /\ phase = "download" /\ file \notin bad
  /\ phase' = "sending"
  /\ UNCHANGED <<clock, store, latest, cache, queue, listing, file, consumer, shutdown,
                 faults, cleans, dropped, lapsed>>

\* The error is logged and the file left to its cache entry.
DownloadFails ==
  /\ phase = "download"
  /\ \/ file \in bad /\ UNCHANGED faults
     \/ Fault("download")
  /\ phase' = "poll" /\ file' = None
  /\ dropped' = dropped \cup {file}
  /\ UNCHANGED <<clock, store, latest, cache, queue, listing, consumer, shutdown, cleans, lapsed>>

Room == Len(channel) < QueueSize

\* send().await: no shutdown and no cleanup interrupts it.
Send ==
  /\ phase = "sending" /\ Room
  /\ channel' = Append(channel, file)
  /\ phase' = "poll" /\ file' = None
  /\ UNCHANGED <<clock, store, latest, cache, queue, listing, holding, processed, handled,
                 shutdown, faults, cleans, dropped, lapsed>>

RequestShutdown ==
  /\ ~shutdown /\ phase # "ended" /\ Fault("shutdown")
  /\ shutdown' = TRUE
  /\ UNCHANGED <<clock, store, server, consumer, cleans, dropped, lapsed>>

Stop == Waits /\ shutdown /\ ProcessEnds /\ UNCHANGED <<shutdown, faults>>

\* The process dies, or the receiver does, which ends run() at its next send:
\* poller and consumer start over together.
Crash == phase # "ended" /\ Fault("crash") /\ ProcessEnds /\ UNCHANGED shutdown

(***************************************************************************)
(* The consumer takes the streams in order, one transaction each.          *)
(***************************************************************************)
Receive ==
  /\ holding = None /\ channel # <<>>
  /\ holding' = Head(channel) /\ channel' = Tail(channel)
  /\ UNCHANGED <<clock, store, server, processed, handled, shutdown, faults, cleans,
                 dropped, lapsed>>

\* into_stream() inserts the record, a key that is there already fails the
\* transaction; the record and the processing commit together.
Commit ==
  /\ holding # None
  /\ IF holding \in processed THEN UNCHANGED <<processed, handled>>
     ELSE processed' = processed \cup {holding} /\ handled' = handled \cup {holding}
  /\ holding' = None
  /\ UNCHANGED <<clock, store, server, channel, shutdown, faults, cleans, dropped, lapsed>>

Rollback ==
  /\ holding # None /\ Fault("rollback")
  /\ dropped' = dropped \cup {holding}
  /\ holding' = None
  /\ UNCHANGED <<clock, store, server, channel, processed, handled, shutdown, cleans, lapsed>>

Init ==
  /\ now = 1 /\ lookback \in {"start", "max"}
  /\ bucket = {} /\ bad = {} /\ prompt = {}
  /\ processed = {} /\ latest = None /\ cache = [f \in Files |-> None]
  /\ queue = <<>> /\ listing = {} /\ phase = "poll" /\ file = None
  /\ channel = <<>> /\ holding = None /\ shutdown = FALSE
  /\ faults = 0 /\ cleans = 0
  /\ handled = {} /\ dropped = {} /\ lapsed = {}

Environment == Tick \/ RequestShutdown \/ Crash \/ \E f \in Files : Upload(f)
Server ==
  \/ Create \/ Cleanup \/ List \/ Check \/ PollFails \/ NextFile
  \/ Download \/ DownloadFails \/ Send \/ Stop
Consumer == Receive \/ Commit \/ Rollback

Next == Environment \/ Server \/ Consumer

Spec == Init /\ [][Next]_vars

\* The runtime runs the task while one of its futures is ready, the supervisor
\* restarts a process that ended, the consumer keeps taking streams, and the
\* clock goes on.
FairSpec ==
  /\ Spec
  /\ WF_vars(Tick)
  /\ WF_vars(Create) /\ WF_vars(List \/ Check \/ NextFile \/ Stop)
  /\ WF_vars(Download \/ DownloadFails) /\ WF_vars(Send)
  /\ WF_vars(Receive) /\ WF_vars(Commit)

-----------------------------------------------------------------------------
TypeOK ==
  /\ now \in Files /\ lookback \in {"start", "max"}
  /\ bucket \subseteq Files /\ bad \subseteq bucket
  /\ processed \subseteq handled /\ handled \subseteq bucket
  /\ latest \in Files \cup {None}
  /\ cache \in [Files -> 0..MaxTime] /\ prompt \subseteq bucket
  /\ phase \in Phases
  /\ {file, holding} \subseteq Files \cup {None}
  /\ (file # None) = (phase \in {"download", "sending"})
  /\ (listing # {}) = (phase = "checking")
  /\ Range(queue) \cup listing \subseteq bucket
  /\ Len(channel) <= QueueSize
  /\ faults \in 0..MaxFaults /\ cleans \in 0..MaxCleans
  /\ dropped \subseteq Files /\ lapsed \subseteq Files /\ shutdown \in BOOLEAN

\* A file uploaded within the offset of its timestamp, that the configured
\* lookback covers.
OnTime(f) ==
  /\ f \in prompt
  /\ f > IF lookback = "start" THEN StartAfter ELSE now - MaxLookback

\* The offset absorbs late uploads: a file uploaded within the offset of its
\* timestamp is never passed over for good.  Until it is handled it is in
\* flight, or the next listing of this process, or of the one that follows an
\* end or a crash, still reaches it, unless its own download or transaction
\* failed.  It is about the window of list_all_files, the timestamp that
\* moves with each file queued and the one read back from the table.
NothingSkipped ==
  \A f \in bucket : OnTime(f) =>
    \/ f \in handled \/ f \in dropped \/ f \in InFlight
    \/ /\ f > After(IF phase = "ended" THEN LatestRecorded ELSE latest)
       /\ phase = "ended" \/ ~Cached(f)

\* While its cache entry lives, a file is in flight once: it is not queued,
\* sent or processed a second time although the table does not know it yet.
OneCopy ==
  \A f \in Files \ lapsed :
    LET copies(s) == Cardinality({i \in DOMAIN s : s[i] = f})
        here(x) == IF x = f THEN 1 ELSE 0
    IN  copies(queue) + copies(channel) + here(file) + here(holding) <= 1

\* The queue, the channel and the cache, together and each in its bounds.
QueueSound == TypeOK /\ OneCopy

\* What the comment in clean() says, that records within the offset window are
\* never deleted: a file that was handled and that the next listing reaches is
\* known to the table or to the cache, so it is not processed again.
HandledStaysKnown ==
  \A f \in handled : (phase # "ended" /\ f > After(latest)) => AlreadyProcessed(f)

\* In time every file that is neither late nor faulty is handled, whatever
\* crashes, errors and cleanups happen on the way.
EveryFileHandled ==
  \A f \in Files :
    <>[](OnTime(f) => f \in handled \cup dropped)

\* A shutdown is heeded although run() only looks for it between two files.
ShutdownHeeded == shutdown ~> ~shutdown

\* The loop neither passes a file over for ever nor a shutdown.
Progress == EveryFileHandled /\ ShutdownHeeded
=============================================================================
