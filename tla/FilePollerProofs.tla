--------------------------- MODULE FilePollerProofs ---------------------------
(***************************************************************************)
(* Facts about FilePoller for all its constants: no file uploaded in time  *)
(* is skipped, and a file is in flight once while its cache entry lives.   *)
(***************************************************************************)
EXTENDS FilePoller, FiniteSetTheorems, SequenceTheorems, WellFoundedInduction, TLAPS

\* Everything is typed.
PTyped == TypeOK /\ queue \in Seq(Files) /\ channel \in Seq(Files)

\* What is on its way was uploaded before, and the cache knows it from the
\* moment it leaves the queue: what the cache knows is on its way, or done.
Held ==
  /\ \A f \in (InFlight \cup listing) \ {None} : f \in bucket /\ f <= now
  /\ \A f \in processed : f <= now
  /\ latest <= now
  /\ phase = "ended" => /\ queue = <<>> /\ channel = <<>> /\ listing = {}
                        /\ file = None /\ holding = None
  /\ Range(queue) \cap listing = {}
  /\ phase # "ended" =>
       \A f \in Files :
         /\ f \in Range(channel) \cup {file, holding} => cache[f] # None
         /\ cache[f] # None => f \in InFlight \cup handled \cup dropped

\* The files that are due: uploaded in time, wanted, and not yet dealt with.
Floor == IF lookback = "start" THEN StartAfter ELSE now - MaxLookback
Due == {g \in prompt : g > Floor /\ g \notin handled /\ g \notin dropped}

\* The offset before f leaves no file out but those that are ahead of f.
Reaches(f, ahead) == \A g \in Due : g \in ahead \/ g > f - Offset

\* What is ahead of place i of the channel or of the queue.
AheadInChannel(i) == {holding} \cup {channel[j] : j \in 1..i-1}
AheadInQueue(i) == {holding, file} \cup Range(channel) \cup {queue[j] : j \in 1..i-1}

\* Wherever a file stands on its way from the listing to the table, the
\* offset before it leaves out only files that are ahead of it: each of these
\* places is one from which the next listing may be made to start.
Ordered ==
  /\ \A f \in processed : Reaches(f, {})
  /\ holding # None => Reaches(holding, {})
  /\ \A i \in DOMAIN channel : Reaches(channel[i], AheadInChannel(i))
  /\ file # None => Reaches(file, {holding} \cup Range(channel))
  /\ \A i \in DOMAIN queue : Reaches(queue[i], AheadInQueue(i))
  /\ \A f \in listing : Reaches(f, InFlight \cup {g \in listing : g < f})
  /\ (phase # "ended" /\ latest # None) => Reaches(latest, InFlight)

\* How often f is in s, or is x.
At(s, f) == {i \in DOMAIN s : s[i] = f}
Times(s, f) == Cardinality(At(s, f))
Here(x, f) == IF x = f THEN 1 ELSE 0
Places(f) == Times(queue, f) + Times(channel, f) + Here(file, f) + Here(holding, f)

Once == \A f \in Files \ lapsed : Places(f) <= 1

PollInv == PTyped /\ Held /\ Ordered /\ Once

-----------------------------------------------------------------------------
(* Sequences of files, and the least of a set of them.                     *)

LEMMA SeqFacts ==
  ASSUME NEW s \in Seq(Files)
  PROVE  /\ Len(s) \in Nat /\ DOMAIN s = 1..Len(s) /\ \A i \in 1..Len(s) : s[i] \in Files
         /\ Range(s) = {s[i] : i \in 1..Len(s)} /\ Range(s) \subseteq Files
<1>1. Len(s) \in Nat /\ DOMAIN s = 1..Len(s) /\ \A i \in 1..Len(s) : s[i] \in Files
  BY LenProperties, ElementOfSeq
<1> QED
  BY <1>1 DEF Range

LEMMA AppendFacts ==
  ASSUME NEW s \in Seq(Files), NEW x \in Files, NEW t, t = Append(s, x)
  PROVE  /\ t \in Seq(Files) /\ Len(t) = Len(s) + 1 /\ Range(t) = Range(s) \cup {x}
         /\ t[Len(s) + 1] = x /\ \A i \in 1..Len(s) : t[i] = s[i]
<1>1. /\ t \in Seq(Files) /\ Len(t) = Len(s) + 1
      /\ t[Len(s) + 1] = x /\ \A i \in 1..Len(s) : t[i] = s[i]
  BY AppendProperties
<1>2. Len(s) \in Nat
  BY SeqFacts
<1>3. 1..Len(t) = 1..Len(s) \cup {Len(s) + 1}
  BY <1>1, <1>2
<1>4. Range(t) = {t[i] : i \in 1..Len(t)} /\ Range(s) = {s[i] : i \in 1..Len(s)}
  BY <1>1, SeqFacts
<1> QED
  BY <1>1, <1>3, <1>4

LEMMA TailFacts ==
  ASSUME NEW s \in Seq(Files), s # <<>>, NEW t, t = Tail(s)
  PROVE  /\ t \in Seq(Files) /\ Len(t) \in Nat /\ Len(s) = Len(t) + 1
         /\ Head(s) \in Files /\ Head(s) = s[1]
         /\ \A i \in 1..Len(t) : t[i] = s[i+1]
         /\ Range(s) = Range(t) \cup {Head(s)}
<1>1. /\ t \in Seq(Files) /\ Len(t) = Len(s) - 1 /\ Head(s) \in Files
      /\ \A i \in 1..Len(t) : t[i] = s[i+1]
  BY HeadTailProperties
<1>2. Len(s) \in Nat /\ Len(t) \in Nat /\ Len(s) = Len(t) + 1
  BY <1>1, SeqFacts
<1>3. Head(s) = s[1]
  BY DEF Head
<1>4. Range(t) = {t[i] : i \in 1..Len(t)} /\ Range(s) = {s[i] : i \in 1..Len(s)}
  BY <1>1, SeqFacts
<1>5. Range(s) \subseteq Range(t) \cup {s[1]}
  <2> SUFFICES ASSUME NEW i \in 1..Len(s), i # 1 PROVE s[i] \in Range(t)
    BY <1>4
  <2>1. i-1 \in 1..Len(t) /\ i - 1 + 1 = i
    BY <1>2
  <2>2. t[i-1] = s[i]
    BY <1>1, <2>1
  <2> QED
    BY <1>4, <2>1, <2>2
<1>6. Range(t) \cup {s[1]} \subseteq Range(s)
  <2>1. 1 \in 1..Len(s) /\ \A i \in 1..Len(t) : i+1 \in 1..Len(s)
    BY <1>2
  <2> QED
    BY <1>1, <1>4, <2>1
<1> QED
  BY <1>1, <1>2, <1>3, <1>5, <1>6

\* How often a file is in a sequence.
LEMMA TimesType ==
  ASSUME NEW s \in Seq(Files), NEW f
  PROVE  IsFiniteSet(At(s, f)) /\ Times(s, f) \in Nat /\ (Times(s, f) = 0 <=> f \notin Range(s))
<1>1. Len(s) \in Nat /\ DOMAIN s = 1..Len(s) /\ Range(s) = {s[i] : i \in 1..Len(s)}
  BY SeqFacts
<1>2. IsFiniteSet(1..Len(s))
  BY <1>1, FS_Interval
<1>3. IsFiniteSet(At(s, f))
  BY <1>1, <1>2, FS_Subset DEF At
<1>4. At(s, f) = {} <=> f \notin Range(s)
  BY <1>1 DEF At
<1> QED
  BY <1>3, <1>4, FS_CardinalityType, FS_EmptySet DEF Times

LEMMA TimesAppend ==
  ASSUME NEW s \in Seq(Files), NEW x \in Files, NEW f, NEW t, t = Append(s, x)
  PROVE  Times(t, f) = Times(s, f) + Here(x, f)
<1>1. /\ t \in Seq(Files) /\ Len(t) = Len(s) + 1 /\ Len(s) \in Nat
      /\ t[Len(s) + 1] = x /\ \A i \in 1..Len(s) : t[i] = s[i]
  BY AppendFacts, SeqFacts
<1>2. At(t, f) = {i \in 1..Len(s)+1 : t[i] = f} /\ At(s, f) = {i \in 1..Len(s) : s[i] = f}
  BY <1>1, SeqFacts DEF At
<1>3. IsFiniteSet(At(s, f)) /\ Times(s, f) \in Nat
  BY TimesType
<1>4. CASE x = f
  <2>1. At(t, f) = At(s, f) \cup {Len(s) + 1} /\ Len(s) + 1 \notin At(s, f)
    BY <1>1, <1>2, <1>4
  <2>2. Cardinality(At(s, f) \cup {Len(s) + 1}) = Cardinality(At(s, f)) + 1
    BY <1>3, <2>1, FS_AddElement
  <2> QED
    BY <1>4, <2>1, <2>2 DEF Times, Here
<1>5. CASE x # f
  <2>1. At(t, f) = At(s, f)
    BY <1>1, <1>2, <1>5
  <2> QED
    BY <1>3, <1>5, <2>1 DEF Times, Here
<1> QED
  BY <1>4, <1>5

LEMMA TimesTail ==
  ASSUME NEW s \in Seq(Files), s # <<>>, NEW f, NEW t, t = Tail(s)
  PROVE  Times(s, f) = Times(t, f) + Here(Head(s), f)
<1>1. /\ t \in Seq(Files) /\ Len(t) \in Nat /\ Len(s) = Len(t) + 1 /\ Head(s) = s[1]
      /\ \A i \in 1..Len(t) : t[i] = s[i+1]
  BY TailFacts
<1>2. At(s, f) = {i \in 1..Len(s) : s[i] = f} /\ At(t, f) = {i \in 1..Len(t) : t[i] = f}
  BY <1>1, SeqFacts DEF At
<1> DEFINE later == {i \in 2..Len(s) : s[i] = f}
           next == [i \in At(t, f) |-> i+1]
<1>3. IsFiniteSet(At(t, f)) /\ Times(t, f) \in Nat
  BY <1>1, TimesType
<1>4. next \in Bijection(At(t, f), later)
  <2>1. next \in [At(t, f) -> later]
    BY <1>1, <1>2
  <2>2. \A i, j \in At(t, f) : next[i] = next[j] => i = j
    BY <1>2
  <2>3. ASSUME NEW j \in later
        PROVE  \E i \in At(t, f) : next[i] = j
    <3>1. j-1 \in 1..Len(t) /\ j - 1 + 1 = j
      BY <1>1
    <3>2. t[j-1] = s[j]
      BY <1>1, <3>1
    <3>3. j-1 \in At(t, f)
      BY <1>2, <3>1, <3>2
    <3>4. next[j-1] = j
      BY <3>1, <3>3
    <3> QED
      BY <3>3, <3>4
  <2> HIDE DEF next, later
  <2> QED
    BY <2>1, <2>2, <2>3 DEF Bijection, Injection, Surjection, IsInjective
<1>5. IsFiniteSet(later) /\ Cardinality(later) = Times(t, f)
  <2>1. ExistsBijection(At(t, f), later)
    BY <1>4 DEF ExistsBijection
  <2> HIDE DEF later
  <2> QED
    BY <1>3, <2>1, FS_Bijection DEF Times
<1>6. CASE s[1] = f
  <2>1. At(s, f) = later \cup {1} /\ 1 \notin later
    BY <1>1, <1>2, <1>6
  <2>2. Cardinality(later \cup {1}) = Cardinality(later) + 1
    BY <1>5, <2>1, FS_AddElement
  <2> QED
    BY <1>1, <1>5, <1>6, <2>1, <2>2 DEF Times, Here
<1>7. CASE s[1] # f
  <2>1. At(s, f) = later
    BY <1>1, <1>2, <1>7
  <2> QED
    BY <1>1, <1>3, <1>5, <1>7, <2>1 DEF Times, Here
<1> QED
  BY <1>6, <1>7

\* A set of files has a first and a last.
LEMMA FirstFile ==
  ASSUME NEW S \in SUBSET Nat, S # {}
  PROVE  Min(S) \in S /\ \A g \in S : Min(S) <= g
<1>1. PICK x \in S : \A y \in S : ~ (<<y, x>> \in OpToRel(<, Nat))
  BY NatLessThanWellFounded, WFMin
<1>2. ASSUME NEW y \in S PROVE x <= y
  <2>1. y < x => <<y, x>> \in OpToRel(<, Nat)
    BY Zenon DEF OpToRel
  <2>2. ~ (y < x)
    BY <1>1, <2>1, Zenon
  <2>3. x \in Nat /\ y \in Nat
    OBVIOUS
  <2> QED
    BY <2>2, <2>3
<1> QED
  BY <1>2 DEF Min

LEMMA LastFile ==
  ASSUME NEW S \in SUBSET Files, S # {}
  PROVE  Max(S) \in S
<1>0. MaxTime \in Nat
  BY PollerAssumption
<1>1. \A x \in S : x \in Nat /\ MaxTime - x \in Nat
  BY <1>0 DEF Files
<1>2. PICK T \in SUBSET Nat : T = {MaxTime - x : x \in S}
  BY <1>1
<1>3. T # {}
  BY <1>2
<1>4. PICK m \in T : \A y \in T : m <= y
  BY <1>3, FirstFile
<1>5. PICK x \in S : m = MaxTime - x
  BY <1>2, <1>4
<1>6. \A y \in S : m <= MaxTime - y
  BY <1>2, <1>4
<1>7. \A y \in S : x >= y
  BY <1>0, <1>1, <1>5, <1>6
<1> QED
  BY <1>7 DEF Max

-----------------------------------------------------------------------------
(* The steps, one conjunct of the invariant after the other.               *)

LEMMA InitPollInv == Init => PollInv
<1> SUFFICES ASSUME Init PROVE PollInv
  OBVIOUS
<1> USE DEF None
<1>1. /\ now = 1 /\ lookback \in {"start", "max"} /\ bucket = {} /\ bad = {} /\ prompt = {}
      /\ processed = {} /\ latest = 0 /\ cache = [f \in Files |-> 0]
      /\ queue = <<>> /\ listing = {} /\ phase = "poll" /\ file = 0
      /\ channel = <<>> /\ holding = 0 /\ shutdown = FALSE /\ faults = 0 /\ cleans = 0
      /\ handled = {} /\ dropped = {} /\ lapsed = {}
  BY DEF Init
<1>2. <<>> \in Seq(Files) /\ Range(<<>>) = {} /\ DOMAIN <<>> = {} /\ Len(<<>>) = 0
  BY DEF Range
<1>3. /\ MaxTime \in Nat \ {0} /\ QueueSize \in Nat /\ MaxFaults \in Nat /\ MaxCleans \in Nat
  BY PollerAssumption
<1>4. PTyped
  <2>1. 1 \in Files /\ [f \in Files |-> 0] \in [Files -> 0..MaxTime]
    BY <1>3 DEF Files
  <2>2. faults \in 0..MaxFaults /\ cleans \in 0..MaxCleans
    BY <1>1, <1>3
  <2>3. Len(channel) <= QueueSize
    BY <1>1, <1>2, <1>3
  <2>4. (file # None) = (phase \in {"download", "sending"}) /\ (listing # {}) = (phase = "checking")
    BY <1>1
  <2> QED
    BY <1>1, <1>2, <2>1, <2>2, <2>3, <2>4 DEF PTyped, TypeOK, Phases
<1>5. Held
  BY <1>1, <1>2, <1>3 DEF Held, InFlight, Files
<1>6. Due = {}
  BY <1>1 DEF Due
<1>7. Ordered
  BY <1>1, <1>2, <1>6 DEF Ordered, Reaches
<1>8. \A f \in Files : Times(<<>>, f) = 0
  BY <1>2, TimesType
<1>9. Once
  BY <1>1, <1>8 DEF Once, Places, Here, Files
<1> QED
  BY <1>4, <1>5, <1>7, <1>9 DEF PollInv

\* The end of a process.
LEMMA EndFacts ==
  ASSUME PTyped, Crash \/ PollFails \/ Stop
  PROVE  /\ phase' = "ended" /\ queue' = <<>> /\ listing' = {} /\ file' = None
         /\ channel' = <<>> /\ holding' = None
         /\ UNCHANGED <<clock, store, latest, cache, processed, handled, cleans, dropped, lapsed>>
         /\ faults' \in 0..MaxFaults /\ shutdown' \in BOOLEAN
<1>1. /\ ProcessEnds /\ shutdown' = shutdown
      /\ faults' = faults \/ (faults < MaxFaults /\ faults' = faults + 1)
  BY DEF Crash, PollFails, Stop, Fault
<1>2. faults' \in 0..MaxFaults
  <2>1. MaxFaults \in Nat /\ faults \in 0..MaxFaults
    BY PollerAssumption DEF PTyped, TypeOK
  <2> QED
    BY <1>1, <2>1
<1> QED
  BY <1>1, <1>2 DEF ProcessEnds, Ended, PTyped, TypeOK

LEMMA TypedStep ==
  ASSUME PTyped, Held, [Next]_vars
  PROVE  PTyped'
<1> USE DEF PTyped, TypeOK, vars, clock, store, server, consumer
<1>0. /\ MaxTime \in Nat \ {0} /\ QueueSize \in Nat \ {0} /\ MaxFaults \in Nat /\ MaxCleans \in Nat
      /\ Offset \in Nat
  BY PollerAssumption
<1>a. now \in Nat /\ \A f \in Files : f \in Nat /\ f # None /\ f \in 0..MaxTime
  BY <1>0 DEF Files, None
<1>1. ASSUME NEW kind, Fault(kind) PROVE faults' \in 0..MaxFaults
  BY <1>0, <1>1 DEF Fault
<1>2. CASE Tick
  BY <1>0, <1>2 DEF Tick, Files
<1>3. ASSUME NEW f \in Files, Upload(f) PROVE PTyped'
  <2>1. /\ bucket' = bucket \cup {f} /\ prompt' \subseteq prompt \cup {f}
        /\ bad' \subseteq bad \cup {f} /\ faults' \in 0..MaxFaults
    BY <1>1, <1>3 DEF Upload
  <2>2. UNCHANGED <<clock, server, consumer, shutdown, cleans, dropped, lapsed>>
    BY <1>3 DEF Upload
  <2> QED
    BY <2>1, <2>2
<1>4. CASE RequestShutdown
  BY <1>1, <1>4 DEF RequestShutdown
<1>5. CASE Crash \/ PollFails \/ Stop
  <2>1. <<>> \in Seq(Files) /\ Range(<<>>) = {} /\ Len(<<>>) = 0
    BY DEF Range
  <2>2. /\ phase' = "ended" /\ queue' = <<>> /\ listing' = {} /\ file' = None
        /\ channel' = <<>> /\ holding' = None
        /\ UNCHANGED <<clock, store, latest, cache, processed, handled, cleans, dropped, lapsed>>
        /\ faults' \in 0..MaxFaults /\ shutdown' \in BOOLEAN
    BY <1>5, EndFacts
  <2>3. Range(queue') = {} /\ Len(channel') <= QueueSize /\ queue' \in Seq(Files) /\ channel' \in Seq(Files)
    BY <1>0, <2>1, <2>2
  <2>4. (file' # None) = (phase' \in {"download", "sending"}) /\ (listing' # {}) = (phase' = "checking")
    BY <2>2
  <2> QED
    BY <2>2, <2>3, <2>4 DEF Phases
<1>6. CASE Create
  <2>1. LatestRecorded \in Files \cup {None}
    BY LastFile DEF LatestRecorded
  <2>2. [f \in Files |-> None] \in [Files -> 0..MaxTime]
    BY <1>0 DEF None
  <2>3. /\ phase' = "poll" /\ shutdown' = FALSE /\ latest' \in Files \cup {None}
        /\ cache' \in [Files -> 0..MaxTime] /\ phase = "ended"
        /\ UNCHANGED <<clock, store, queue, listing, file, consumer, faults, cleans, dropped, lapsed>>
    BY <1>6, <2>1, <2>2 DEF Create
  <2>4. /\ (file' # None) = (phase' \in {"download", "sending"})
        /\ (listing' # {}) = (phase' = "checking") /\ phase' \in Phases
    BY <2>3 DEF Phases
  <2>5. Range(queue') \cup listing' \subseteq bucket' /\ Len(channel') <= QueueSize
    BY <2>3
  <2> QED
    BY <2>3, <2>4, <2>5
<1>7. CASE Cleanup
  <2>1. processed' \subseteq processed /\ faults' \in 0..MaxFaults
    BY <1>1, <1>7 DEF Cleanup
  <2>2. cleans' \in 0..MaxCleans
    BY <1>0, <1>7 DEF Cleanup
  <2> QED
    BY <1>7, <2>1, <2>2 DEF Cleanup, Waits, Phases
<1>8. CASE List
  <2>1. listing' \subseteq bucket /\ listing' # {}
    BY <1>8 DEF List, Listed
  <2> QED
    BY <1>8, <2>1 DEF List, Phases
<1>9. CASE Check
  <2>1. PICK f : f = Min(listing)
    OBVIOUS
  <2>2. f \in listing /\ f \in bucket /\ f \in Files
    BY <1>9, <1>a, <2>1, FirstFile DEF Check
  <2>3. /\ listing' = listing \ {f} /\ phase' = IF listing' = {} THEN "poll" ELSE "checking"
        /\ \/ latest' = latest /\ queue' = queue /\ lapsed' = lapsed
              /\ (cache' = cache \/ cache' = Marked(cache, f))
           \/ latest' = f /\ queue' = Append(queue, f) /\ lapsed' \subseteq lapsed \cup {f}
              /\ cache' = cache
    BY <1>9, <2>1 DEF Check
  <2>4. cache' \in [Files -> 0..MaxTime]
    BY <1>a, <2>2, <2>3 DEF Marked, Files
  <2>5. queue' \in Seq(Files) /\ Range(queue') \subseteq bucket
    BY <2>2, <2>3, AppendFacts
  <2>6. (listing' # {}) = (phase' = "checking") /\ phase' \in Phases /\ (file' # None) = (phase' \in {"download", "sending"})
    BY <1>9, <2>3 DEF Check, Phases
  <2> QED
    BY <1>9, <2>2, <2>3, <2>4, <2>5, <2>6 DEF Check
<1>10. CASE NextFile
  <2>1. PICK f : f = Head(queue)
    OBVIOUS
  <2>2. /\ f \in Files /\ queue' \in Seq(Files) /\ Range(queue) = Range(queue') \cup {f}
        /\ file' = f
    BY <1>10, <2>1, TailFacts DEF NextFile
  <2>3. cache' \in [Files -> 0..MaxTime]
    BY <1>10, <1>a, <2>1, <2>2 DEF NextFile, Marked, Files
  <2> QED
    BY <1>10, <1>a, <2>2, <2>3 DEF NextFile, Phases
<1>11. CASE Download
  BY <1>11 DEF Download, Phases
<1>12. CASE DownloadFails
  BY <1>1, <1>12 DEF DownloadFails, Phases
<1>13. CASE Send
  <2>1. file \in Files /\ channel' = Append(channel, file)
    BY <1>13 DEF Send
  <2>2. channel' \in Seq(Files) /\ Len(channel') = Len(channel) + 1 /\ Len(channel) \in Nat
    BY <2>1, AppendFacts, SeqFacts
  <2>3. Len(channel') <= QueueSize
    BY <1>0, <1>13, <2>2 DEF Send, Room
  <2> QED
    BY <1>13, <2>2, <2>3 DEF Send, Phases
<1>14. CASE Receive
  <2>1. /\ Head(channel) \in Files /\ channel' \in Seq(Files) /\ Len(channel) = Len(channel') + 1
        /\ Len(channel') \in Nat
    BY <1>14, TailFacts DEF Receive
  <2>2. Len(channel') <= QueueSize
    BY <1>0, <2>1
  <2> QED
    BY <1>14, <2>1, <2>2 DEF Receive
<1>15. CASE Commit
  <2>1. holding \in bucket
    BY <1>15 DEF Held, InFlight, Commit
  <2> QED
    BY <1>15, <2>1 DEF Commit
<1>16. CASE Rollback
  BY <1>1, <1>16 DEF Rollback
<1>17. CASE UNCHANGED vars
  BY <1>17
<1> QED
  BY <1>2, <1>3, <1>4, <1>5, <1>6, <1>7, <1>8, <1>9, <1>10, <1>11, <1>12, <1>13, <1>14, <1>15,
     <1>16, <1>17 DEF Next, Environment, Server, Consumer

LEMMA HeldStep ==
  ASSUME PTyped, PTyped', Held, [Next]_vars
  PROVE  Held'
<1> USE DEF vars, clock, store, server, consumer
<1>0. /\ now \in Nat /\ now' \in Nat /\ \A f \in Files : f \in Nat /\ f # None
      /\ bucket \subseteq Files /\ processed \subseteq handled /\ handled \subseteq bucket
      /\ latest \in Nat /\ queue \in Seq(Files) /\ channel \in Seq(Files)
      /\ cache \in [Files -> 0..MaxTime] /\ (file # None) = (phase \in {"download", "sending"})
      /\ (listing # {}) = (phase = "checking") /\ listing \subseteq Files
      /\ {file, holding} \subseteq Files \cup {None}
  <2>1. MaxTime \in Nat /\ \A f \in Files : f \in Nat /\ f # None
    BY PollerAssumption DEF Files, None
  <2>2. now \in Files /\ now' \in Files /\ latest \in Files \cup {None} /\ None \in Nat
    BY DEF PTyped, TypeOK, None
  <2> QED
    BY <2>1, <2>2 DEF PTyped, TypeOK
<1>1. CASE UNCHANGED <<bucket, processed, latest, cache, queue, listing, phase, file, channel, holding>>
           /\ now <= now' /\ handled \subseteq handled' /\ dropped \subseteq dropped'
  BY <1>0, <1>1 DEF Held, InFlight
<1>2. CASE Tick
  BY <1>0, <1>1, <1>2 DEF Tick
<1>3. ASSUME NEW f \in Files, Upload(f) PROVE Held'
  BY <1>0, <1>3 DEF Upload, Held, InFlight
<1>4. CASE RequestShutdown
  BY <1>0, <1>1, <1>4 DEF RequestShutdown
<1>5. CASE Crash \/ PollFails \/ Stop
  <2>1. Range(<<>>) = {}
    BY DEF Range
  <2>2. /\ phase' = "ended" /\ queue' = <<>> /\ listing' = {} /\ file' = None
        /\ channel' = <<>> /\ holding' = None
        /\ UNCHANGED <<now, bucket, latest, processed>>
    BY <1>5, EndFacts
  <2>3. InFlight' \cup listing' = {None} /\ Range(queue') \cap listing' = {}
    BY <2>1, <2>2 DEF InFlight
  <2> QED
    BY <2>2, <2>3 DEF Held
<1>6. CASE Create
  <2>1. Range(<<>>) = {}
    BY DEF Range
  <2>2. /\ queue = <<>> /\ channel = <<>> /\ listing = {} /\ file = None /\ holding = None
        /\ phase' = "poll" /\ latest' = LatestRecorded /\ cache' = [f \in Files |-> None]
        /\ UNCHANGED <<now, bucket, processed, queue, channel, listing, file, holding>>
    BY <1>6 DEF Create, Held
  <2>3. latest' <= now'
    BY <1>0, <2>2, LastFile DEF LatestRecorded, Held, None
  <2>4. InFlight' \cup listing' = {None} /\ Range(queue') \cap listing' = {} /\ Range(channel') = {}
    BY <2>1, <2>2 DEF InFlight
  <2>5. \A f \in Files : cache'[f] = None
    BY <2>2
  <2>6. \A f \in processed' : f <= now'
    BY <2>2 DEF Held
  <2> QED
    BY <1>0, <2>2, <2>3, <2>4, <2>5, <2>6 DEF Held
<1>7. CASE Cleanup
  <2>1. /\ phase' = "poll" /\ listing' = {} /\ processed' \subseteq processed /\ phase # "ended"
        /\ UNCHANGED <<now, bucket, latest, cache, queue, file, channel, holding, handled, dropped>>
    BY <1>7 DEF Cleanup, Waits
  <2> QED
    BY <2>1 DEF Held, InFlight
<1>8. CASE List
  <2>1. Range(<<>>) = {}
    BY DEF Range
  <2>2. /\ phase = "poll" /\ queue = <<>> /\ phase' = "checking"
        /\ \A f \in listing' : f \in bucket /\ f <= now
        /\ UNCHANGED <<now, bucket, processed, latest, cache, queue, file, channel, holding, handled, dropped>>
    BY <1>8 DEF List, Listed
  <2> QED
    BY <2>1, <2>2 DEF Held, InFlight
<1>9. CASE Check
  <2>1. PICK f : f = Min(listing)
    OBVIOUS
  <2>2. f \in listing /\ f \in Files /\ f \in bucket /\ f <= now
    BY <1>9, <1>0, <2>1, FirstFile DEF Check, Held
  <2>3. /\ listing' = listing \ {f} /\ phase = "checking" /\ phase' # "ended"
        /\ UNCHANGED <<now, bucket, processed, handled, dropped, file, channel, holding>>
    BY <1>9, <2>1 DEF Check
  <2>4. CASE AlreadyProcessed(f)
    <3>1. latest' = latest /\ queue' = queue
      BY <1>9, <2>1, <2>4 DEF Check
    <3>2. cache' = cache \/ (f \in handled /\ cache' = [cache EXCEPT ![f] = now])
      BY <1>0, <1>9, <2>1, <2>4 DEF Check, Marked, AlreadyProcessed
    <3>3. now # None
      BY <1>0, <2>2 DEF None, Files
    <3>4. \A g \in Files : (g # f \/ cache' = cache) => cache'[g] = cache[g]
      BY <1>0, <2>2, <3>2
    <3>5. \A g \in Files : /\ cache[g] # None => cache'[g] # None
                           /\ cache'[g] # None => cache[g] # None \/ g \in handled
      BY <1>0, <2>2, <3>2, <3>3, <3>4
    <3> QED
      BY <2>2, <2>3, <3>1, <3>5 DEF Held, InFlight
  <2>5. CASE ~AlreadyProcessed(f)
    <3>1. latest' = f /\ queue' = Append(queue, f) /\ cache' = cache
      BY <1>9, <2>1, <2>5 DEF Check
    <3>2. Range(queue') = Range(queue) \cup {f}
      <4>1. queue \in Seq(Files)
        BY <1>0
      <4>2. PICK t : t = queue'
        OBVIOUS
      <4> QED
        BY <2>2, <3>1, <4>1, <4>2, AppendFacts
    <3> QED
      BY <2>2, <2>3, <3>1, <3>2 DEF Held, InFlight
  <2> QED
    BY <2>4, <2>5
<1>10. CASE NextFile
  <2>1. PICK f : f = Head(queue)
    OBVIOUS
  <2>2. /\ queue # <<>> /\ phase = "poll" /\ phase' = "download" /\ file' = f /\ queue' = Tail(queue)
        /\ cache' = [cache EXCEPT ![f] = now]
        /\ UNCHANGED <<now, bucket, processed, handled, dropped, latest, listing, channel, holding>>
    BY <1>10, <2>1 DEF NextFile, Marked
  <2>3. f \in Files /\ Range(queue) = Range(queue') \cup {f} /\ file = None
    BY <1>0, <2>1, <2>2, TailFacts
  <2>4. f <= now /\ now # None
    BY <1>0, <2>3 DEF Held, InFlight, Files, None
  <2>5. \A g \in Files : /\ cache[g] # None => cache'[g] # None
                         /\ cache'[g] # None => cache[g] # None \/ g = f
                         /\ cache'[f] # None
    BY <1>0, <2>2, <2>3, <2>4
  <2> QED
    BY <1>0, <2>2, <2>3, <2>5 DEF Held, InFlight
<1>11. CASE Download
  BY <1>0, <1>11 DEF Download, Held, InFlight
<1>12. CASE DownloadFails
  <2>1. /\ phase = "download" /\ phase' = "poll" /\ file' = None /\ dropped' = dropped \cup {file}
        /\ UNCHANGED <<now, bucket, processed, handled, latest, cache, queue, listing, channel, holding>>
    BY <1>12 DEF DownloadFails
  <2> QED
    BY <1>0, <2>1 DEF Held, InFlight
<1>13. CASE Send
  <2>1. /\ phase = "sending" /\ phase' = "poll" /\ file' = None /\ channel' = Append(channel, file)
        /\ UNCHANGED <<now, bucket, processed, handled, dropped, latest, cache, queue, listing, holding>>
    BY <1>13 DEF Send
  <2>2. file \in Files /\ Range(channel') = Range(channel) \cup {file}
    BY <1>0, <2>1, AppendFacts
  <2> QED
    BY <1>0, <2>1, <2>2 DEF Held, InFlight
<1>14. CASE Receive
  <2>1. /\ holding = None /\ channel # <<>> /\ holding' = Head(channel) /\ channel' = Tail(channel)
        /\ UNCHANGED <<now, bucket, processed, handled, dropped, latest, cache, queue, listing, phase, file>>
    BY <1>14 DEF Receive
  <2>2. holding' \in Files /\ Range(channel) = Range(channel') \cup {holding'}
    BY <1>0, <2>1, TailFacts
  <2> QED
    BY <1>0, <2>1, <2>2 DEF Held, InFlight
<1>15. CASE Commit
  <2>1. /\ holding # None /\ holding' = None /\ processed' \subseteq processed \cup {holding}
        /\ handled \cup {holding} = handled'
        /\ UNCHANGED <<now, bucket, dropped, latest, cache, queue, listing, phase, file, channel>>
    BY <1>0, <1>15 DEF Commit
  <2> QED
    BY <1>0, <2>1 DEF Held, InFlight
<1>16. CASE Rollback
  <2>1. /\ holding # None /\ holding' = None /\ dropped' = dropped \cup {holding}
        /\ UNCHANGED <<now, bucket, processed, handled, latest, cache, queue, listing, phase, file, channel>>
    BY <1>16 DEF Rollback
  <2> QED
    BY <1>0, <2>1 DEF Held, InFlight
<1>17. CASE UNCHANGED vars
  BY <1>0, <1>1, <1>17
<1> QED
  BY <1>2, <1>3, <1>4, <1>5, <1>6, <1>7, <1>8, <1>9, <1>10, <1>11, <1>12, <1>13, <1>14, <1>15,
     <1>16, <1>17 DEF Next, Environment, Server, Consumer

\* No file becomes due again; one that is uploaded in time is not more than
\* the offset behind the clock.
LEMMA DueShrinks ==
  ASSUME PTyped, PTyped', [Next]_vars
  PROVE  /\ Due \subseteq Files /\ Due' \subseteq Files
         /\ \A g \in Due' : g \in Due \/ g > now - Offset
         /\ prompt' = prompt => Due' \subseteq Due
<1>0. /\ now \in Nat /\ now' \in Nat /\ MaxLookback \in Nat /\ Offset \in Nat /\ StartAfter \in Nat
      /\ Files \subseteq Nat /\ prompt \subseteq Files /\ prompt' \subseteq Files
  <2>1. MaxTime \in Nat /\ MaxLookback \in Nat /\ Offset \in Nat /\ StartAfter \in Nat
    BY PollerAssumption
  <2> QED
    BY <2>1 DEF PTyped, TypeOK, Files
<1>1. Due \subseteq Files /\ Due' \subseteq Files
  BY <1>0 DEF Due
<1>2. /\ now <= now' /\ lookback' = lookback /\ handled \subseteq handled' /\ dropped \subseteq dropped'
  <2>1. ASSUME Crash \/ PollFails \/ Stop
        PROVE  now' = now /\ lookback' = lookback /\ handled' = handled /\ dropped' = dropped
    BY <2>1, EndFacts DEF clock
  <2>2. CASE Tick
    BY <1>0, <2>2 DEF Tick, consumer
  <2>3. CASE RequestShutdown \/ (\E f \in Files : Upload(f)) \/ UNCHANGED vars
    BY <1>0, <2>3 DEF RequestShutdown, Upload, clock, consumer, vars
  <2>4. CASE Create \/ Cleanup \/ List \/ Check \/ NextFile \/ Download \/ DownloadFails \/ Send
    BY <1>0, <2>4
       DEF Create, Cleanup, List, Check, NextFile, Download, DownloadFails, Send, clock, consumer
  <2>5. CASE Receive \/ Commit \/ Rollback
    BY <1>0, <2>5 DEF Receive, Commit, Rollback, clock
  <2> QED
    BY <1>0, <2>1, <2>2, <2>3, <2>4, <2>5 DEF Next, Environment, Server, Consumer
<1>3. Floor <= Floor' /\ Floor \in Int /\ Floor' \in Int
  <2>1. CASE lookback = "start"
    <3>1. Floor = StartAfter /\ Floor' = StartAfter
      BY <1>2, <2>1 DEF Floor
    <3> QED
      BY <1>0, <3>1
  <2>2. CASE lookback # "start"
    <3>1. Floor = now - MaxLookback /\ Floor' = now' - MaxLookback
      BY <1>2, <2>2 DEF Floor
    <3>2. \A a, b, c \in Nat : a <= b => a - c <= b - c /\ a - c \in Int /\ b - c \in Int
      OBVIOUS
    <3> QED
      BY <1>0, <1>2, <3>1, <3>2, Zenon
  <2> QED
    BY <2>1, <2>2
<1>4. \A g \in Due' : g \in prompt => g \in Due
  BY <1>0, <1>2, <1>3 DEF Due
<1>5. \A g \in prompt' : g \in prompt \/ g > now - Offset
  <2>1. ASSUME NEW f \in Files, Upload(f)
        PROVE  \A g \in prompt' : g \in prompt \/ g > now - Offset
    BY <1>0, <2>1 DEF Upload
  <2>2. (\E f \in Files : Upload(f)) \/ prompt' = prompt
    <3>1. Crash \/ PollFails \/ Stop => prompt' = prompt
      BY EndFacts DEF store
    <3>2. CASE Tick \/ RequestShutdown \/ UNCHANGED vars
      BY <3>2 DEF Tick, RequestShutdown, store, vars
    <3>3. CASE Create \/ Cleanup \/ List \/ Check \/ NextFile \/ Download \/ DownloadFails \/ Send
      BY <3>3 DEF Create, Cleanup, List, Check, NextFile, Download, DownloadFails, Send, store
    <3>4. CASE Receive \/ Commit \/ Rollback
      BY <3>4 DEF Receive, Commit, Rollback, store
    <3> QED
      BY <3>1, <3>2, <3>3, <3>4 DEF Next, Environment, Server, Consumer
  <2> QED
    BY <2>1, <2>2
<1> QED
  BY <1>1, <1>4, <1>5 DEF Due

\* A step that only takes files off their way, and none that is still due.
LEMMA OrderedFewer ==
  ASSUME PTyped, Held, Ordered, Due' \subseteq Files, \A g \in Due' : g \in Due \/ g > now - Offset,
         UNCHANGED <<queue, channel, latest>>, listing' = listing \/ listing' = {},
         phase' # "ended" => phase # "ended",
         file' = file \/ (file' = None /\ file \notin Due'),
         holding' = holding \/ (holding' = None /\ holding \notin Due'),
         \A f \in processed' : f \in processed \/ (f = holding /\ holding # None)
  PROVE  Ordered'
<1>0. /\ now \in Nat /\ Offset \in Nat /\ Files \subseteq Nat /\ latest \in Nat
      /\ queue \in Seq(Files) /\ channel \in Seq(Files) /\ listing \subseteq Files
      /\ {file, holding} \subseteq Files \cup {None} /\ processed \subseteq Files
  <2>1. MaxTime \in Nat /\ Offset \in Nat
    BY PollerAssumption
  <2>2. Files \subseteq Nat /\ None \in Nat
    BY <2>1 DEF Files, None
  <2>3. now \in Files /\ latest \in Files \cup {None}
    BY DEF PTyped, TypeOK
  <2> QED
    BY <2>1, <2>2, <2>3 DEF PTyped, TypeOK
<1>1. /\ \A i \in 1..Len(queue) : queue[i] \in Files /\ queue[i] \in Range(queue)
      /\ \A i \in 1..Len(channel) : channel[i] \in Files /\ channel[i] \in Range(channel)
      /\ DOMAIN queue = 1..Len(queue) /\ DOMAIN channel = 1..Len(channel)
  BY <1>0, SeqFacts
<1>2. ASSUME NEW f \in Nat, f <= now, NEW A, NEW B, Reaches(f, A),
             \A g \in Due' : g \in A => g \in B
      PROVE  \A g \in Due' : g \in B \/ g > f - Offset
  <2> SUFFICES ASSUME NEW g \in Due', g \notin B PROVE g > f - Offset
    OBVIOUS
  <2>1. CASE g \in Due
    BY <1>2, <2>1 DEF Reaches
  <2>2. CASE g > now - Offset /\ g \in Int
    BY <1>0, <1>2, <2>2
  <2>3. g \in Due \/ (g > now - Offset /\ g \in Int)
    BY <1>0
  <2> QED
    BY <2>1, <2>2, <2>3
<1>3. \A f \in processed' : Reaches(f, {})'
  <2> SUFFICES ASSUME NEW f \in processed' PROVE \A g \in Due' : g \in {} \/ g > f - Offset
    BY DEF Reaches
  <2>1. f \in Nat /\ f <= now /\ Reaches(f, {})
    BY <1>0 DEF Held, InFlight, Ordered
  <2>2. \A g \in Due' : g \in {} => g \in {}
    OBVIOUS
  <2> QED
    BY <1>2, <2>1, <2>2
<1>4. holding' # None => Reaches(holding, {})'
  <2> SUFFICES ASSUME holding' # None PROVE \A g \in Due' : g \in {} \/ g > holding' - Offset
    BY DEF Reaches
  <2>1. holding' = holding /\ holding \in Nat /\ holding <= now /\ Reaches(holding, {})
    BY <1>0 DEF Held, InFlight, Ordered
  <2>2. \A g \in Due' : g \in {} => g \in {}
    OBVIOUS
  <2> QED
    BY <1>2, <2>1, <2>2
<1>5. \A g \in Due' : (g = holding => g = holding') /\ (g = file => g = file')
  OBVIOUS
<1>6. \A i \in DOMAIN channel' : Reaches(channel[i], AheadInChannel(i))'
  <2> SUFFICES ASSUME NEW i \in 1..Len(channel)
               PROVE  \A g \in Due' : g \in AheadInChannel(i)' \/ g > channel[i] - Offset
    BY <1>1 DEF Reaches
  <2>1. channel[i] \in Nat /\ channel[i] <= now /\ Reaches(channel[i], AheadInChannel(i))
    BY <1>0, <1>1 DEF Held, InFlight, Ordered, Files, None
  <2>2. \A g \in Due' : g \in AheadInChannel(i) => g \in AheadInChannel(i)'
    BY <1>5 DEF AheadInChannel
  <2> QED
    BY <1>2, <2>1, <2>2
<1>7. file' # None => Reaches(file, {holding} \cup Range(channel))'
  <2> SUFFICES ASSUME file' # None
               PROVE  \A g \in Due' : g \in {holding'} \cup Range(channel) \/ g > file' - Offset
    BY DEF Reaches
  <2>1. /\ file' = file /\ file \in Nat /\ file <= now
        /\ Reaches(file, {holding} \cup Range(channel))
    BY <1>0 DEF Held, InFlight, Ordered
  <2>2. \A g \in Due' : g \in {holding} \cup Range(channel) => g \in {holding'} \cup Range(channel)
    BY <1>5
  <2> QED
    BY <1>2, <2>1, <2>2
<1>8. \A i \in DOMAIN queue' : Reaches(queue[i], AheadInQueue(i))'
  <2> SUFFICES ASSUME NEW i \in 1..Len(queue)
               PROVE  \A g \in Due' : g \in AheadInQueue(i)' \/ g > queue[i] - Offset
    BY <1>1 DEF Reaches
  <2>1. queue[i] \in Nat /\ queue[i] <= now /\ Reaches(queue[i], AheadInQueue(i))
    BY <1>0, <1>1 DEF Held, InFlight, Ordered, Files, None
  <2>2. \A g \in Due' : g \in AheadInQueue(i) => g \in AheadInQueue(i)'
    BY <1>5 DEF AheadInQueue
  <2> QED
    BY <1>2, <2>1, <2>2
<1>9. \A g \in Due' : g \in InFlight => g \in InFlight'
  BY <1>5 DEF InFlight
<1>10. \A f \in listing' : Reaches(f, InFlight \cup {g \in listing : g < f})'
  <2> SUFFICES ASSUME NEW f \in listing, listing' = listing
               PROVE  \A g \in Due' : g \in InFlight' \cup {h \in listing : h < f} \/ g > f - Offset
    BY DEF Reaches
  <2>1. f \in Nat /\ f <= now /\ Reaches(f, InFlight \cup {g \in listing : g < f})
    BY <1>0 DEF Held, Ordered, Files, None
  <2>2. \A g \in Due' : g \in InFlight \cup {h \in listing : h < f} => g \in InFlight' \cup {h \in listing : h < f}
    BY <1>9
  <2> QED
    BY <1>2, <2>1, <2>2
<1>11. (phase' # "ended" /\ latest' # None) => Reaches(latest, InFlight)'
  <2> SUFFICES ASSUME phase # "ended", latest # None
               PROVE  \A g \in Due' : g \in InFlight' \/ g > latest - Offset
    BY DEF Reaches
  <2>1. latest <= now /\ Reaches(latest, InFlight)
    BY DEF Held, Ordered
  <2> QED
    BY <1>0, <1>2, <1>9, <2>1
<1> QED
  BY <1>3, <1>4, <1>6, <1>7, <1>8, <1>10, <1>11 DEF Ordered

LEMMA OrderedStep ==
  ASSUME PTyped, PTyped', Held, Held', Ordered, [Next]_vars
  PROVE  Ordered'
<1> USE DEF vars, clock, store, server, consumer
<1>0. /\ now \in Nat /\ Offset \in Nat /\ Files \subseteq Nat /\ latest \in Nat /\ None \notin Files
      /\ queue \in Seq(Files) /\ channel \in Seq(Files) /\ listing \subseteq Files
      /\ {file, holding} \subseteq Files \cup {None} /\ processed \subseteq Files
      /\ (file # None) = (phase \in {"download", "sending"})
      /\ processed \subseteq handled /\ handled \subseteq bucket /\ bucket \subseteq Files
  <2>1. MaxTime \in Nat /\ Offset \in Nat
    BY PollerAssumption
  <2>2. Files \subseteq Nat /\ None \in Nat /\ None \notin Files
    BY <2>1 DEF Files, None
  <2>3. now \in Files /\ latest \in Files \cup {None}
    BY DEF PTyped, TypeOK
  <2> QED
    BY <2>1, <2>2, <2>3 DEF PTyped, TypeOK
<1>1. Due' \subseteq Files /\ Due \subseteq Files /\ \A g \in Due' : g \in Due \/ g > now - Offset
  BY DueShrinks
<1>2. prompt' = prompt => Due' \subseteq Due
  BY DueShrinks
<1>3. \A g \in Due' : g \notin handled' /\ g \notin dropped'
  BY DEF Due
<1>4. CASE Tick \/ RequestShutdown \/ UNCHANGED vars \/ Download
  BY <1>1, <1>4, OrderedFewer DEF Tick, RequestShutdown, Download
<1>5. ASSUME NEW f \in Files, Upload(f) PROVE Ordered'
  BY <1>1, <1>5, OrderedFewer DEF Upload
<1>6. CASE Cleanup
  <2>1. processed' \subseteq processed
    BY <1>6 DEF Cleanup
  <2> QED
    BY <1>1, <1>6, <2>1, OrderedFewer DEF Cleanup, Waits
<1>7. CASE DownloadFails
  BY <1>1, <1>3, <1>7, OrderedFewer DEF DownloadFails
<1>8. CASE Rollback
  BY <1>1, <1>3, <1>8, OrderedFewer DEF Rollback
<1>9. CASE Commit
  <2>1. holding \in handled'
    BY <1>0, <1>9 DEF Commit
  <2> QED
    BY <1>1, <1>3, <1>9, <2>1, OrderedFewer DEF Commit
<1>10. CASE Crash \/ PollFails \/ Stop
  <2>1. /\ phase' = "ended" /\ queue' = <<>> /\ listing' = {} /\ file' = None
        /\ channel' = <<>> /\ holding' = None
        /\ UNCHANGED <<prompt, processed>>
    BY <1>10, EndFacts
  <2>2. DOMAIN <<>> = {}
    OBVIOUS
  <2>3. \A f \in processed : Reaches(f, {})'
    BY <1>2, <2>1 DEF Ordered, Reaches
  <2> QED
    BY <2>1, <2>2, <2>3 DEF Ordered
<1>11. CASE Create
  <2>1. /\ phase = "ended" /\ latest' = LatestRecorded
        /\ UNCHANGED <<prompt, processed, queue, channel, listing, file, holding>>
    BY <1>11 DEF Create
  <2>2. queue = <<>> /\ channel = <<>> /\ listing = {} /\ file = None /\ holding = None
    BY <2>1 DEF Held
  <2>3. DOMAIN <<>> = {}
    OBVIOUS
  <2>4. \A f \in processed : \A g \in Due' : g > f - Offset
    BY <1>2, <2>1 DEF Ordered, Reaches
  <2>5. latest' # None => latest' \in processed
    BY <1>0, <2>1, LastFile DEF LatestRecorded
  <2>6. \A f \in processed : Reaches(f, {})'
    BY <2>4 DEF Reaches
  <2>7. latest' # None => Reaches(latest, InFlight)'
    BY <2>4, <2>5 DEF Reaches
  <2> QED
    BY <2>1, <2>2, <2>3, <2>6, <2>7 DEF Ordered
<1>12. CASE List
  <2>1. /\ phase = "poll" /\ listing' = Listed(After(latest))
        /\ UNCHANGED <<now, lookback, bucket, prompt, processed, handled, dropped, latest, queue, channel, file, holding>>
    BY <1>12 DEF List
  <2>2. Due' = Due
    BY <2>1 DEF Due, Floor
  <2>3. InFlight' = InFlight
    BY <2>1 DEF InFlight
  <2>4. ASSUME NEW f \in listing', NEW g \in Due, g \notin InFlight, g \notin listing' \/ ~ g < f
        PROVE  g > f - Offset
    <3>1. f \in bucket /\ f <= now /\ f \in Nat /\ g \in Nat
      BY <1>0, <1>1, <2>1, <2>4 DEF Listed
    <3>2. CASE g \in listing'
      BY <1>0, <2>4, <3>1, <3>2, PollerAssumption
    <3>3. CASE g \notin listing'
      <4>1. g > Floor /\ g \in bucket
        BY <2>4 DEF Due, PTyped, TypeOK
      <4>2. latest # None => g > latest - Offset
        BY <2>1, <2>4 DEF Ordered, Reaches
      <4>3. g > After(latest)
        BY <4>1, <4>2 DEF After, Floor
      <4>4. g > now
        BY <1>0, <2>1, <3>1, <3>3, <4>1, <4>3 DEF Listed
      <4> QED
        BY <1>0, <3>1, <4>4
    <3> QED
      BY <3>2, <3>3
  <2>5. \A f \in listing' : Reaches(f, InFlight \cup {g \in listing : g < f})'
    BY <2>2, <2>3, <2>4 DEF Reaches
  <2> QED
    BY <2>1, <2>2, <2>3, <2>5 DEF Ordered, Reaches, AheadInChannel, AheadInQueue
<1>13. CASE Check
  <2>1. PICK f : f = Min(listing)
    OBVIOUS
  <2>2. f \in listing /\ f \in Files /\ \A g \in listing : f <= g
    BY <1>13, <1>0, <2>1, FirstFile DEF Check, PTyped, TypeOK
  <2>3. /\ listing' = listing \ {f} /\ phase = "checking" /\ phase' # "ended"
        /\ UNCHANGED <<now, lookback, prompt, processed, handled, dropped, file, channel, holding>>
    BY <1>13, <2>1 DEF Check
  <2>4. Due' = Due
    BY <2>3 DEF Due, Floor
  <2>5. CASE AlreadyProcessed(f)
    <3>1. latest' = latest /\ queue' = queue
      BY <1>13, <2>1, <2>5 DEF Check
    <3>2. InFlight' = InFlight
      BY <2>3, <3>1 DEF InFlight
    <3>3. f \in Due => f \in InFlight
      BY <1>0, <2>2, <2>3, <2>5 DEF AlreadyProcessed, Cached, Held, Due
    <3>4. \A h \in listing' : Reaches(h, InFlight \cup {g \in listing : g < h})'
      BY <2>3, <2>4, <3>2, <3>3 DEF Ordered, Reaches
    <3> QED
      BY <2>3, <2>4, <3>1, <3>2, <3>4 DEF Ordered, Reaches, AheadInChannel, AheadInQueue
  <2>6. CASE ~AlreadyProcessed(f)
    <3>0. PICK q : q = queue'
      OBVIOUS
    <3>1. latest' = f /\ q = Append(queue, f)
      BY <1>13, <2>1, <2>6, <3>0 DEF Check
    <3>2. /\ q \in Seq(Files) /\ Range(q) = Range(queue) \cup {f} /\ Len(q) = Len(queue) + 1
          /\ Len(queue) \in Nat /\ q[Len(queue)+1] = f /\ \A i \in 1..Len(queue) : q[i] = queue[i]
      <4>1. queue \in Seq(Files)
        BY <1>0
      <4>2. Len(queue) \in Nat
        BY <4>1, SeqFacts
      <4>3. /\ q \in Seq(Files) /\ Len(q) = Len(queue) + 1 /\ Range(q) = Range(queue) \cup {f}
            /\ q[Len(queue)+1] = f /\ \A i \in 1..Len(queue) : q[i] = queue[i]
        <5>1. q \in Seq(Files) /\ Len(q) = Len(queue) + 1
          BY <2>2, <3>1, <4>1, AppendFacts
        <5>2. Range(q) = Range(queue) \cup {f}
          BY <2>2, <3>1, <4>1, AppendFacts
        <5>3. q[Len(queue)+1] = f
          BY <2>2, <3>1, <4>1, AppendFacts
        <5>4. \A i \in 1..Len(queue) : q[i] = queue[i]
          BY <2>2, <3>1, <4>1, AppendFacts
        <5> QED
          BY <5>1, <5>2, <5>3, <5>4
      <4> QED
        BY ONLY <4>2, <4>3
    <3>3. DOMAIN q = 1..Len(queue)+1 /\ DOMAIN queue = 1..Len(queue) /\ Range(queue) = {queue[j] : j \in 1..Len(queue)}
      BY <1>0, <3>2, SeqFacts
    <3>4. InFlight' = InFlight \cup {f}
      BY <2>3, <3>0, <3>2 DEF InFlight
    <3>5. Reaches(f, InFlight)
      <4>1. {g \in listing : g < f} = {}
        <5>1. ASSUME NEW g \in listing PROVE ~ g < f
          <6>1. f \in Nat /\ g \in Nat /\ f <= g
            BY <1>0, <2>2
          <6> QED
            BY <6>1
        <5> QED
          BY <5>1
      <4> QED
        BY <2>2, <4>1 DEF Ordered
    <3>6. \A h \in listing' : Reaches(h, InFlight \cup {g \in listing : g < h})'
      BY <2>3, <2>4, <3>4 DEF Ordered, Reaches
    <3>7. Reaches(latest, InFlight)'
      BY <2>4, <3>1, <3>4, <3>5 DEF Reaches
    <3>8. \A i \in DOMAIN queue' : Reaches(queue[i], AheadInQueue(i))'
      <4>1. ASSUME NEW i \in 1..Len(queue)
            PROVE  Reaches(queue[i], AheadInQueue(i))'
        <5>1. {q[j] : j \in 1..i-1} = {queue[j] : j \in 1..i-1}
          BY <3>2
        <5>2. AheadInQueue(i)' = AheadInQueue(i)
          BY <2>3, <3>0, <5>1 DEF AheadInQueue
        <5>3. Reaches(queue[i], AheadInQueue(i))
          BY <3>3 DEF Ordered
        <5> QED
          BY <2>4, <3>0, <3>2, <5>2, <5>3 DEF Reaches
      <4>2. PICK n : n = Len(queue) + 1
        OBVIOUS
      <4>3. Reaches(queue[n], AheadInQueue(n))'
        <5>1. {q[j] : j \in 1..n-1} = Range(queue)
          <6>1. n - 1 = Len(queue)
            BY <3>2, <4>2
          <6> QED
            BY <3>2, <3>3, <6>1
        <5>2. AheadInQueue(n)' = InFlight
          BY <2>3, <3>0, <5>1 DEF AheadInQueue, InFlight
        <5> QED
          BY <2>4, <3>0, <3>2, <3>5, <4>2, <5>2 DEF Reaches
      <4>4. \A i \in DOMAIN queue' : i \in 1..Len(queue) \/ i = n
        BY <3>0, <3>2, <3>3, <4>2
      <4> QED
        BY <4>1, <4>3, <4>4
    <3>9. /\ \A g \in processed' : Reaches(g, {})'
          /\ holding' # None => Reaches(holding, {})'
          /\ \A i \in DOMAIN channel' : Reaches(channel[i], AheadInChannel(i))'
          /\ file' # None => Reaches(file, {holding} \cup Range(channel))'
      BY <2>3, <2>4 DEF Ordered, Reaches, AheadInChannel
    <3> QED
      BY <3>6, <3>7, <3>8, <3>9 DEF Ordered
  <2> QED
    BY <2>5, <2>6
<1>14. CASE NextFile
  <2>0. PICK q : q = queue'
    OBVIOUS
  <2>1. /\ queue # <<>> /\ q = Tail(queue) /\ file' = Head(queue) /\ phase = "poll" /\ phase' = "download"
        /\ UNCHANGED <<now, lookback, prompt, processed, handled, dropped, latest, listing, channel, holding>>
    BY <1>14, <2>0 DEF NextFile
  <2>2. /\ q \in Seq(Files) /\ Len(q) \in Nat /\ Len(queue) = Len(q) + 1 /\ Head(queue) = queue[1]
        /\ \A i \in 1..Len(q) : q[i] = queue[i+1]
        /\ Range(queue) = Range(q) \cup {queue[1]} /\ file' = queue[1]
    <3>1. queue \in Seq(Files) /\ queue # <<>> /\ q = Tail(queue) /\ file' = Head(queue)
      BY <1>0, <2>1
    <3> QED
      BY ONLY <3>1, TailFacts
  <2>3. DOMAIN q = 1..Len(q) /\ DOMAIN queue = 1..Len(queue) /\ file = None
    BY <1>0, <2>1, <2>2, SeqFacts
  <2>4. Due' = Due /\ None \notin Due
    BY <1>0, <1>1, <2>1 DEF Due, Floor
  <2>5. InFlight' \cup {None} = InFlight \cup {None}
    BY <2>0, <2>1, <2>2, <2>3 DEF InFlight
  <2>6. \A f \in listing' : Reaches(f, InFlight \cup {g \in listing : g < f})'
    BY <2>1, <2>4, <2>5 DEF Ordered, Reaches
  <2>7. latest' # None => Reaches(latest, InFlight)'
    BY <2>1, <2>4, <2>5 DEF Ordered, Reaches
  <2>8. Reaches(file, {holding} \cup Range(channel))'
    <3>1. Reaches(queue[1], AheadInQueue(1))
      <4>1. 1 \in DOMAIN queue
        BY <2>2, <2>3
      <4> QED
        BY <4>1 DEF Ordered
    <3>2. AheadInQueue(1) = {holding, None} \cup Range(channel)
      <4>1. 1..1-1 = {}
        OBVIOUS
      <4> QED
        BY <2>3, <4>1 DEF AheadInQueue
    <3> QED
      BY <2>1, <2>2, <2>4, <3>1, <3>2 DEF Reaches
  <2>9. \A i \in DOMAIN queue' : Reaches(queue[i], AheadInQueue(i))'
    <3> SUFFICES ASSUME NEW i \in 1..Len(q) PROVE Reaches(queue[i], AheadInQueue(i))'
      BY <2>0, <2>3
    <3>1. i + 1 \in DOMAIN queue /\ i + 1 - 1 = i
      BY <2>2, <2>3
    <3>2. Reaches(queue[i+1], AheadInQueue(i+1))
      BY <3>1 DEF Ordered
    <3>3. \A j \in 1..i : j = 1 \/ (j-1 \in 1..i-1 /\ q[j-1] = queue[j])
      <4> SUFFICES ASSUME NEW j \in 1..i, j # 1 PROVE j-1 \in 1..i-1 /\ q[j-1] = queue[j]
        OBVIOUS
      <4>1. j-1 \in 1..i-1 /\ j-1 \in 1..Len(q) /\ j - 1 + 1 = j
        BY <2>2
      <4> QED
        BY <2>2, <4>1
    <3>4. AheadInQueue(i+1) = {holding, None} \cup Range(channel) \cup {queue[j] : j \in 1..i}
      BY <2>3, <3>1 DEF AheadInQueue
    <3>5. AheadInQueue(i)' = {holding, queue[1]} \cup Range(channel) \cup {q[j] : j \in 1..i-1}
      BY <2>0, <2>1, <2>2 DEF AheadInQueue
    <3>6. \A g \in AheadInQueue(i+1) : g # None => g \in AheadInQueue(i)'
      BY <3>3, <3>4, <3>5
    <3> QED
      BY <2>0, <2>2, <2>4, <3>2, <3>6 DEF Reaches
  <2>10. /\ \A g \in processed' : Reaches(g, {})'
         /\ holding' # None => Reaches(holding, {})'
         /\ \A i \in DOMAIN channel' : Reaches(channel[i], AheadInChannel(i))'
    BY <2>1, <2>4 DEF Ordered, Reaches, AheadInChannel
  <2> QED
    BY <2>6, <2>7, <2>8, <2>9, <2>10 DEF Ordered
<1>15. CASE Send
  <2>0. PICK c : c = channel'
    OBVIOUS
  <2>1. /\ c = Append(channel, file) /\ file' = None /\ phase = "sending" /\ phase' = "poll"
        /\ UNCHANGED <<now, lookback, prompt, processed, handled, dropped, latest, listing, queue, holding>>
    BY <1>15, <2>0 DEF Send
  <2>2. file \in Files /\ file # None
    BY <1>0, <2>1
  <2>3. /\ c \in Seq(Files) /\ Range(c) = Range(channel) \cup {file} /\ Len(c) = Len(channel) + 1
        /\ Len(channel) \in Nat /\ c[Len(channel)+1] = file
        /\ \A i \in 1..Len(channel) : c[i] = channel[i]
    <3>1. channel \in Seq(Files) /\ c = Append(channel, file)
      BY <1>0, <2>1
    <3>2. Len(channel) \in Nat
      BY <3>1, SeqFacts
    <3>3. /\ c \in Seq(Files) /\ Len(c) = Len(channel) + 1 /\ Range(c) = Range(channel) \cup {file}
          /\ c[Len(channel)+1] = file /\ \A i \in 1..Len(channel) : c[i] = channel[i]
      <4>1. c \in Seq(Files) /\ Len(c) = Len(channel) + 1
        BY <2>2, <3>1, AppendFacts
      <4>2. Range(c) = Range(channel) \cup {file}
        BY <2>2, <3>1, AppendFacts
      <4>3. c[Len(channel)+1] = file
        BY <2>2, <3>1, AppendFacts
      <4>4. \A i \in 1..Len(channel) : c[i] = channel[i]
        BY <2>2, <3>1, AppendFacts
      <4> QED
        BY <4>1, <4>2, <4>3, <4>4
    <3> QED
      BY ONLY <3>2, <3>3
  <2>4. DOMAIN c = 1..Len(channel)+1 /\ DOMAIN channel = 1..Len(channel) /\ Range(channel) = {channel[j] : j \in 1..Len(channel)}
    BY <1>0, <2>3, SeqFacts
  <2>5. Due' = Due /\ None \notin Due
    BY <1>0, <1>1, <2>1 DEF Due, Floor
  <2>6. InFlight' \cup {None} = InFlight \cup {None}
    BY <2>0, <2>1, <2>3 DEF InFlight
  <2>7. \A f \in listing' : Reaches(f, InFlight \cup {g \in listing : g < f})'
    BY <2>1, <2>5, <2>6 DEF Ordered, Reaches
  <2>8. latest' # None => Reaches(latest, InFlight)'
    BY <2>1, <2>5, <2>6 DEF Ordered, Reaches
  <2>9. \A i \in DOMAIN queue' : Reaches(queue[i], AheadInQueue(i))'
    <3>1. \A i : AheadInQueue(i)' \cup {None} = AheadInQueue(i) \cup {None}
      BY <2>0, <2>1, <2>3 DEF AheadInQueue
    <3> QED
      BY <2>1, <2>5, <3>1 DEF Ordered, Reaches
  <2>10. \A i \in DOMAIN channel' : Reaches(channel[i], AheadInChannel(i))'
    <3>1. ASSUME NEW i \in 1..Len(channel)
          PROVE  Reaches(channel[i], AheadInChannel(i))'
      <4>1. {c[j] : j \in 1..i-1} = {channel[j] : j \in 1..i-1}
        BY <2>3
      <4>2. AheadInChannel(i)' = AheadInChannel(i)
        BY <2>0, <2>1, <4>1 DEF AheadInChannel
      <4>3. Reaches(channel[i], AheadInChannel(i))
        BY <2>4 DEF Ordered
      <4> QED
        BY <2>0, <2>3, <2>5, <4>2, <4>3 DEF Reaches
    <3>2. PICK n : n = Len(channel) + 1
      OBVIOUS
    <3>3. Reaches(channel[n], AheadInChannel(n))'
      <4>1. {c[j] : j \in 1..n-1} = Range(channel)
        <5>1. n - 1 = Len(channel)
          BY <2>3, <3>2
        <5> QED
          BY <2>3, <2>4, <5>1
      <4>2. AheadInChannel(n)' = {holding} \cup Range(channel)
        BY <2>0, <2>1, <4>1 DEF AheadInChannel
      <4>3. Reaches(file, {holding} \cup Range(channel))
        BY <2>2 DEF Ordered
      <4> QED
        BY <2>0, <2>3, <2>5, <3>2, <4>2, <4>3 DEF Reaches
    <3>4. \A i \in DOMAIN channel' : i \in 1..Len(channel) \/ i = n
      BY <2>0, <2>3, <2>4, <3>2
    <3> QED
      BY <3>1, <3>3, <3>4
  <2>11. /\ \A g \in processed' : Reaches(g, {})'
         /\ holding' # None => Reaches(holding, {})'
    BY <2>1, <2>5 DEF Ordered, Reaches
  <2> QED
    BY <2>1, <2>7, <2>8, <2>9, <2>10, <2>11 DEF Ordered
<1>16. CASE Receive
  <2>0. PICK c : c = channel'
    OBVIOUS
  <2>1. /\ channel # <<>> /\ c = Tail(channel) /\ holding' = Head(channel) /\ holding = None
        /\ UNCHANGED <<now, lookback, prompt, processed, handled, dropped, latest, listing, phase, queue, file>>
    BY <1>16, <2>0 DEF Receive
  <2>2. /\ c \in Seq(Files) /\ Len(c) \in Nat /\ Len(channel) = Len(c) + 1 /\ Head(channel) = channel[1]
        /\ \A i \in 1..Len(c) : c[i] = channel[i+1]
        /\ Range(channel) = Range(c) \cup {channel[1]} /\ holding' = channel[1]
    <3>1. channel \in Seq(Files) /\ channel # <<>> /\ c = Tail(channel) /\ holding' = Head(channel)
      BY <1>0, <2>1
    <3> QED
      BY ONLY <3>1, TailFacts
  <2>3. DOMAIN c = 1..Len(c) /\ DOMAIN channel = 1..Len(channel)
    BY <1>0, <2>2, SeqFacts
  <2>4. Due' = Due /\ None \notin Due
    BY <1>0, <1>1, <2>1 DEF Due, Floor
  <2>5. InFlight' \cup {None} = InFlight \cup {None}
    BY <2>0, <2>1, <2>2 DEF InFlight
  <2>6. \A f \in listing' : Reaches(f, InFlight \cup {g \in listing : g < f})'
    BY <2>1, <2>4, <2>5 DEF Ordered, Reaches
  <2>7. (phase' # "ended" /\ latest' # None) => Reaches(latest, InFlight)'
    BY <2>1, <2>4, <2>5 DEF Ordered, Reaches
  <2>8. \A i \in DOMAIN queue' : Reaches(queue[i], AheadInQueue(i))'
    <3>1. \A i : AheadInQueue(i)' \cup {None} = AheadInQueue(i) \cup {None}
      <4>1. /\ {holding', file'} \cup Range(channel') \cup {None} = {holding, file} \cup Range(channel) \cup {None}
            /\ queue' = queue
        BY <2>0, <2>1, <2>2
      <4> QED
        BY <4>1 DEF AheadInQueue
    <3> QED
      BY <2>1, <2>4, <3>1 DEF Ordered, Reaches
  <2>9. file' # None => Reaches(file, {holding} \cup Range(channel))'
    BY <2>0, <2>1, <2>2, <2>4 DEF Ordered, Reaches
  <2>10. Reaches(holding, {})'
    <3>1. Reaches(channel[1], AheadInChannel(1))
      <4>1. 1 \in DOMAIN channel
        BY <2>2, <2>3
      <4> QED
        BY <4>1 DEF Ordered
    <3>2. AheadInChannel(1) = {None}
      <4>1. 1..1-1 = {}
        OBVIOUS
      <4> QED
        BY <2>1, <4>1 DEF AheadInChannel
    <3> QED
      BY <2>1, <2>2, <2>4, <3>1, <3>2 DEF Reaches
  <2>11. \A i \in DOMAIN channel' : Reaches(channel[i], AheadInChannel(i))'
    <3> SUFFICES ASSUME NEW i \in 1..Len(c) PROVE Reaches(channel[i], AheadInChannel(i))'
      BY <2>0, <2>3
    <3>1. i + 1 \in DOMAIN channel /\ i + 1 - 1 = i
      BY <2>2, <2>3
    <3>2. Reaches(channel[i+1], AheadInChannel(i+1))
      BY <3>1 DEF Ordered
    <3>3. \A j \in 1..i : j = 1 \/ (j-1 \in 1..i-1 /\ c[j-1] = channel[j])
      <4> SUFFICES ASSUME NEW j \in 1..i, j # 1 PROVE j-1 \in 1..i-1 /\ c[j-1] = channel[j]
        OBVIOUS
      <4>1. j-1 \in 1..i-1 /\ j-1 \in 1..Len(c) /\ j - 1 + 1 = j
        BY <2>2
      <4> QED
        BY <2>2, <4>1
    <3>4. AheadInChannel(i+1) = {None} \cup {channel[j] : j \in 1..i}
      BY <2>1, <3>1 DEF AheadInChannel
    <3>5. AheadInChannel(i)' = {channel[1]} \cup {c[j] : j \in 1..i-1}
      BY <2>0, <2>2 DEF AheadInChannel
    <3>6. \A g \in AheadInChannel(i+1) : g # None => g \in AheadInChannel(i)'
      BY <3>3, <3>4, <3>5
    <3> QED
      BY <2>0, <2>2, <2>4, <3>2, <3>6 DEF Reaches
  <2>12. \A g \in processed' : Reaches(g, {})'
    BY <2>1, <2>4 DEF Ordered, Reaches
  <2> QED
    BY <2>6, <2>7, <2>8, <2>9, <2>10, <2>11, <2>12 DEF Ordered
<1> QED
  BY <1>4, <1>5, <1>6, <1>7, <1>8, <1>9, <1>10, <1>11, <1>12, <1>13, <1>14, <1>15,
     <1>16 DEF Next, Environment, Server, Consumer

LEMMA OnceStep ==
  ASSUME PTyped, PTyped', Held, Held', Once, [Next]_vars
  PROVE  Once'
<1> USE DEF vars, clock, store, server, consumer
<1>0. /\ queue \in Seq(Files) /\ channel \in Seq(Files) /\ listing \subseteq Files /\ None \notin Files
      /\ {file, holding} \subseteq Files \cup {None} /\ Files \subseteq Nat
      /\ (file # None) = (phase \in {"download", "sending"})
  <2>1. MaxTime \in Nat
    BY PollerAssumption
  <2>2. Files \subseteq Nat /\ None \notin Files
    BY <2>1 DEF Files, None
  <2> QED
    BY <2>2 DEF PTyped, TypeOK
<1>1. \A f \in Files : /\ Times(queue, f) \in Nat /\ Times(channel, f) \in Nat
                       /\ Here(file, f) \in Nat /\ Here(holding, f) \in Nat
  BY <1>0, TimesType DEF Here
<1>2. \A f \in Files : Here(None, f) = 0
  BY <1>0 DEF Here
<1>3. ASSUME lapsed \subseteq lapsed', \A f \in Files : Places(f)' <= Places(f)
      PROVE  Once'
  <2> SUFFICES ASSUME NEW f \in Files \ lapsed' PROVE Places(f)' <= 1
    BY DEF Once
  <2>1. Places(f) <= 1 /\ Places(f)' <= Places(f) /\ Places(f) \in Nat
    BY <1>1, <1>3 DEF Once, Places
  <2>2. Places(f)' \in Int
    <3>1. queue' \in Seq(Files) /\ channel' \in Seq(Files)
      BY DEF PTyped
    <3>2. Times(queue', f) \in Nat /\ Times(channel', f) \in Nat
      BY <3>1, TimesType
    <3>3. Here(file', f) \in Nat /\ Here(holding', f) \in Nat
      BY DEF Here
    <3>4. Places(f)' = Times(queue', f) + Times(channel', f) + Here(file', f) + Here(holding', f)
      BY DEF Places, Times, At, Here
    <3> QED
      BY <3>2, <3>3, <3>4
  <2> QED
    BY <2>1, <2>2
<1>4. ASSUME lapsed' = lapsed, UNCHANGED <<queue, channel>>, file' = file \/ file' = None,
             holding' = holding \/ holding' = None
      PROVE  Once'
  <2> SUFFICES ASSUME NEW f \in Files PROVE Places(f)' <= Places(f)
    BY <1>3, <1>4
  <2>1. Times(queue, f)' = Times(queue, f) /\ Times(channel, f)' = Times(channel, f)
    BY <1>4 DEF Times, At
  <2>2. /\ Here(file, f)' = Here(file, f) \/ Here(file, f)' = 0
        /\ Here(holding, f)' = Here(holding, f) \/ Here(holding, f)' = 0
    BY <1>2, <1>4 DEF Here
  <2> QED
    BY <1>1, <2>1, <2>2 DEF Places
<1>5. CASE Tick \/ RequestShutdown \/ UNCHANGED vars \/ (\E f \in Files : Upload(f))
  BY <1>4, <1>5 DEF Tick, RequestShutdown, Upload
<1>6. CASE Create \/ Cleanup \/ List \/ Download \/ DownloadFails
  BY <1>4, <1>6 DEF Create, Cleanup, List, Download, DownloadFails
<1>7. CASE Commit \/ Rollback
  BY <1>4, <1>7 DEF Commit, Rollback
<1>8. CASE Crash \/ PollFails \/ Stop
  <2>1. /\ queue' = <<>> /\ file' = None /\ channel' = <<>> /\ holding' = None /\ lapsed' = lapsed
    BY <1>8, EndFacts
  <2> SUFFICES ASSUME NEW f \in Files PROVE Places(f)' <= Places(f)
    BY <1>3, <2>1
  <2>2. Times(<<>>, f) = 0
    <3>1. <<>> \in Seq(Files) /\ Range(<<>>) = {}
      BY DEF Range
    <3> QED
      BY <3>1, TimesType
  <2>3. Times(queue, f)' = Times(<<>>, f) /\ Times(channel, f)' = Times(<<>>, f)
    BY <2>1 DEF Times, At
  <2>4. Here(file, f)' = 0 /\ Here(holding, f)' = 0
    BY <1>2, <2>1 DEF Here
  <2> QED
    BY <1>1, <2>2, <2>3, <2>4 DEF Places
<1>9. CASE NextFile
  <2>1. PICK q, h : q = queue' /\ h = Head(queue)
    OBVIOUS
  <2>2. /\ queue # <<>> /\ q = Tail(queue) /\ file' = h /\ file = None
        /\ UNCHANGED <<channel, holding, lapsed>>
    BY <1>0, <1>9, <2>1 DEF NextFile
  <2> SUFFICES ASSUME NEW f \in Files PROVE Places(f)' <= Places(f)
    BY <1>3, <2>2
  <2>3. Times(queue, f) = Times(q, f) + Here(h, f)
    BY <1>0, <2>1, <2>2, TimesTail
  <2>4. Times(q, f) \in Nat /\ Here(h, f) \in Nat
    <3>1. q \in Seq(Files)
      BY <2>1 DEF PTyped
    <3> QED
      BY <3>1, TimesType DEF Here
  <2>5. /\ Times(queue, f)' = Times(q, f) /\ Times(channel, f)' = Times(channel, f)
        /\ Here(file, f)' = Here(h, f) /\ Here(holding, f)' = Here(holding, f) /\ Here(file, f) = 0
    BY <1>2, <2>1, <2>2 DEF Times, At, Here
  <2> QED
    BY <1>1, <2>3, <2>4, <2>5 DEF Places
<1>10. CASE Send
  <2>1. PICK c : c = channel'
    OBVIOUS
  <2>2. /\ c = Append(channel, file) /\ file' = None /\ file \in Files /\ UNCHANGED <<queue, holding, lapsed>>
    BY <1>0, <1>10, <2>1 DEF Send
  <2> SUFFICES ASSUME NEW f \in Files PROVE Places(f)' <= Places(f)
    BY <1>3, <2>2
  <2>3. Times(c, f) = Times(channel, f) + Here(file, f)
    <3>1. PICK s \in Seq(Files), x \in Files : s = channel /\ x = file
      BY <1>0, <2>2
    <3>2. c = Append(s, x)
      BY <2>2, <3>1
    <3>3. Times(c, f) = Times(s, f) + Here(x, f)
      BY ONLY <3>2, TimesAppend
    <3> QED
      BY <3>1, <3>3
  <2>4. /\ Times(queue, f)' = Times(queue, f) /\ Times(channel, f)' = Times(c, f)
        /\ Here(file, f)' = 0 /\ Here(holding, f)' = Here(holding, f)
    BY <1>2, <2>1, <2>2 DEF Times, At, Here
  <2> QED
    BY <1>1, <2>3, <2>4 DEF Places
<1>11. CASE Receive
  <2>1. PICK c, h : c = channel' /\ h = Head(channel)
    OBVIOUS
  <2>2. /\ channel # <<>> /\ c = Tail(channel) /\ holding' = h /\ holding = None
        /\ UNCHANGED <<queue, file, lapsed>>
    BY <1>11, <2>1 DEF Receive
  <2> SUFFICES ASSUME NEW f \in Files PROVE Places(f)' <= Places(f)
    BY <1>3, <2>2
  <2>3. Times(channel, f) = Times(c, f) + Here(h, f)
    BY <1>0, <2>1, <2>2, TimesTail
  <2>4. Times(c, f) \in Nat /\ Here(h, f) \in Nat
    <3>1. c \in Seq(Files)
      BY <2>1 DEF PTyped
    <3> QED
      BY <3>1, TimesType DEF Here
  <2>5. /\ Times(channel, f)' = Times(c, f) /\ Times(queue, f)' = Times(queue, f)
        /\ Here(holding, f)' = Here(h, f) /\ Here(file, f)' = Here(file, f) /\ Here(holding, f) = 0
    BY <1>2, <2>1, <2>2 DEF Times, At, Here
  <2> QED
    BY <1>1, <2>3, <2>4, <2>5 DEF Places
<1>12. CASE Check
  <2>1. PICK f, q : f = Min(listing) /\ q = queue'
    OBVIOUS
  <2>2. f \in listing /\ f \in Files
    BY <1>12, <1>0, <2>1, FirstFile DEF Check, PTyped, TypeOK
  <2>3. phase = "checking" /\ UNCHANGED <<file, channel, holding>>
    BY <1>12 DEF Check
  <2>4. CASE AlreadyProcessed(f)
    BY <1>4, <1>12, <2>1, <2>3, <2>4 DEF Check
  <2>5. CASE ~AlreadyProcessed(f)
    <3>1. q = Append(queue, f) /\ lapsed' = IF cache[f] = None THEN lapsed ELSE lapsed \cup {f}
      BY <1>12, <2>1, <2>5 DEF Check
    <3> SUFFICES ASSUME NEW g \in Files \ lapsed' PROVE Places(g)' <= 1
      BY DEF Once
    <3>2. Times(q, g) = Times(queue, g) + Here(f, g)
      <4>1. PICK s \in Seq(Files) : s = queue
        BY <1>0
      <4>2. q = Append(s, f) /\ f \in Files
        BY <2>2, <3>1, <4>1
      <4>3. Times(q, g) = Times(s, g) + Here(f, g)
        BY ONLY <4>2, TimesAppend
      <4> QED
        BY <4>1, <4>3
    <3>3. /\ Times(queue, g)' = Times(q, g) /\ Times(channel, g)' = Times(channel, g)
          /\ Here(file, g)' = Here(file, g) /\ Here(holding, g)' = Here(holding, g)
      BY <2>1, <2>3 DEF Times, At, Here
    <3>4. CASE g # f
      <4>1. Here(f, g) = 0 /\ Places(g) <= 1
        BY <3>1, <3>4 DEF Here, Once
      <4> QED
        BY <1>1, <3>2, <3>3, <4>1 DEF Places
    <3>5. CASE g = f
      <4>1. cache[f] = None
        BY <3>1, <3>5
      <4>2. f \notin Range(queue) /\ f \notin Range(channel) /\ f # file /\ f # holding
        BY <2>2, <2>3, <4>1 DEF Held
      <4>3. Times(queue, f) = 0 /\ Times(channel, f) = 0
        BY <1>0, <4>2, TimesType
      <4>4. Here(file, f) = 0 /\ Here(holding, f) = 0 /\ Here(f, f) = 1
        BY <4>2 DEF Here
      <4> QED
        BY <3>2, <3>3, <3>5, <4>3, <4>4 DEF Places
    <3> QED
      BY <3>4, <3>5
  <2> QED
    BY <2>4, <2>5
<1> QED
  BY <1>5, <1>6, <1>7, <1>8, <1>9, <1>10, <1>11, <1>12 DEF Next, Environment, Server, Consumer

-----------------------------------------------------------------------------
(* The theorems.                                                           *)

\* Whatever is uploaded, fails, times out or crashes, the types, what is cached,
\* the order of the files on their way and their single passage are kept.
THEOREM PollInvHolds == Spec => []PollInv
<1>1. Init => PollInv
  BY InitPollInv
<1>2. PollInv /\ [Next]_vars => PollInv'
  BY TypedStep, HeldStep, OrderedStep, OnceStep DEF PollInv
<1> QED
  BY <1>1, <1>2, PTL DEF Spec

\* file_poller.rs: the queue, the channel and the cache keep their bounds,
\* and while its cache entry lives no file is queued, sent or processed a
\* second time.
THEOREM FilesGoOnce == Spec => []QueueSound
<1>1. PollInv => QueueSound
  <2> SUFFICES ASSUME PollInv PROVE QueueSound
    OBVIOUS
  <2>1. TypeOK /\ Once
    BY DEF PollInv, PTyped
  <2>2. OneCopy
    BY <2>1 DEF Once, OneCopy, Places, Times, At, Here
  <2> QED
    BY <2>1, <2>2 DEF QueueSound
<1> QED
  BY <1>1, PollInvHolds, PTL

\* file_poller.rs: the offset absorbs late uploads.  A file that is uploaded
\* within the offset of its timestamp is handled, on its way, failed, or
\* within reach of the next listing, of this process or of the one after a
\* crash.
THEOREM NoFileSkipped == Spec => []NothingSkipped
<1>1. PollInv => NothingSkipped
  <2> SUFFICES ASSUME PollInv, NEW f \in bucket, OnTime(f), f \notin handled, f \notin dropped,
                      f \notin InFlight
               PROVE  /\ f > After(IF phase = "ended" THEN LatestRecorded ELSE latest)
                      /\ phase = "ended" \/ ~Cached(f)
    BY DEF NothingSkipped
  <2>1. f \in Due /\ f \in Files /\ f > Floor
    BY DEF OnTime, Due, Floor, PollInv, PTyped, TypeOK
  <2>2. \A t : (t # None => f > t - Offset) => f > After(t)
    BY <2>1 DEF After, Floor
  <2>3. CASE phase = "ended"
    <3>1. processed \in SUBSET Files
      BY DEF PollInv, PTyped, TypeOK
    <3>2. LatestRecorded # None => LatestRecorded \in processed
      BY <3>1, LastFile DEF LatestRecorded
    <3>3. LatestRecorded # None => f > LatestRecorded - Offset
      BY <2>1, <3>2 DEF PollInv, Ordered, Reaches
    <3> QED
      BY <2>2, <2>3, <3>3
  <2>4. CASE phase # "ended"
    <3>1. latest # None => f > latest - Offset
      BY <2>1, <2>4 DEF PollInv, Ordered, Reaches
    <3>2. ~Cached(f)
      BY <2>1, <2>4 DEF PollInv, Held, Cached
    <3> QED
      BY <2>2, <2>4, <3>1, <3>2
  <2> QED
    BY <2>3, <2>4
<1> QED
  BY <1>1, PollInvHolds, PTL
=============================================================================
