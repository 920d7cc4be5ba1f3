-------------------------- MODULE CatalogClientProofs --------------------------
(***************************************************************************)
(* What holds of the catalog's clients for any clients, columns and        *)
(* structs, and however many tokens are withdrawn and requests fail: the   *)
(* variables keep their types, a request refused with a 401 is repeated    *)
(* with a newer token and applied once, and a table that ensure_table      *)
(* answered Ok for has the columns everybody wants and no others.          *)
(***************************************************************************)
EXTENDS CatalogClient, TLAPS

\* Whoever is about to read the table finds one.
TableThere ==
  \A c \in Clients :
    /\ pc[c] \in {"load", "evolve"} \cup Ensured => table \in Schemas
    /\ pc[c] = "evolve" => base[c] \in Schemas

\* The mutex is held from a fetch until its token is stored.
LockHeld == \A c \in Clients : pc[c] = "store" <=> lock = c

\* While a refused call waits to be repeated, the cache is empty or newer than
\* the refusal, and so is the token that someone is about to store.
CacheRenewed ==
  \A c \in Clients : retried[c] =>
    /\ pc[c] = "token" =>
         /\ cached = 0 \/ cached > refused[c]
         /\ \A d \in Clients : pc[d] = "store" => token[d] > refused[c]
    /\ pc[c] \in {"store", "send"} => token[c] > refused[c]

\* A call that may still be sent has not been applied.
NotYetApplied ==
  \A c \in Clients :
    /\ applied[c] <= 1
    /\ pc[c] \in {"token", "store", "send", "refused"} => applied[c] = 0

\* The columns that everybody wants, and those that somebody wants.
Common == {x \in Columns : \A c \in Clients : x \in want[c]}
Wanted == {x \in Columns : \E c \in Clients : x \in want[c]}

\* Since a client loaded the table nobody took a column out that everybody
\* wants, and nobody put one in that nobody wants.
BaseHolds ==
  \A c \in Clients : pc[c] = "evolve" =>
    /\ Common \cap base[c].cols \subseteq table.cols
    /\ table.cols \ Wanted \subseteq base[c].cols

TableHolds ==
  \A c \in Clients :
    pc[c] \in Ensured => Common \subseteq table.cols /\ table.cols \subseteq Wanted

IInv ==
  /\ TypeOK /\ TableThere /\ LockHeld /\ CacheRenewed /\ NotYetApplied
  /\ BaseHolds /\ TableHolds

-----------------------------------------------------------------------------
LEMMA InitIInv == Init => IInv
<1> SUFFICES ASSUME Init PROVE IInv
  OBVIOUS
<1> USE CatalogAssumption DEF Init, Ensured
<1>0. MaxFaults \in Nat /\ {s \in Schemas : s.ids \subseteq s.cols /\ s.cols # {}} \subseteq Schemas
  OBVIOUS
<1>a. retried \in [Clients -> BOOLEAN] /\ due \in BOOLEAN
  OBVIOUS
<1>1. TypeOK
  BY <1>0, <1>a DEF TypeOK
<1>2. TableThere /\ LockHeld /\ CacheRenewed /\ NotYetApplied
  BY DEF TableThere, LockHeld, CacheRenewed, NotYetApplied
<1>3. BaseHolds /\ TableHolds
  BY DEF BaseHolds, TableHolds
<1> QED
  BY <1>1, <1>2, <1>3 DEF IInv

\* Every struct has the identifiers and its columns are columns.
LEMMA StructTypes ==
  ASSUME TypeOK, NEW c \in Clients
  PROVE  want[c] \subseteq Columns /\ Identifiers \subseteq Columns
BY CatalogAssumption DEF TypeOK

\* The schema that Evolve commits is one.
LEMMA EvolvedType ==
  ASSUME TypeOK, NEW c \in Clients, table \in Schemas, base[c] \in Schemas
  PROVE  Evolved(c) \in Schemas /\ Evolved(c).cols = (table.cols \ Dropped(c)) \cup Added(c)
BY StructTypes DEF Evolved, Added, Dropped, Schemas

-----------------------------------------------------------------------------
(* The actions, one by one.  Each lemma gives the whole invariant after    *)
(* the steps of one group.                                                 *)

\* ensure_table up to its commit.
LEMMA EnsureStep ==
  ASSUME IInv, NEW c \in Clients, Ensure(c) \/ EnsureFails(c)
  PROVE  IInv'
<1> USE DEF IInv, Goto, schema, cache, auth, call, Ensured
<1>0. TypeOK /\ TableThere /\ NoTable \notin Schemas /\ MaxFaults \in Nat
  BY CatalogAssumption DEF Schemas
<1>1. CASE CheckTable(c)
  <2>1. TypeOK' /\ TableThere'
    BY <1>0, <1>1 DEF CheckTable, TypeOK, TableThere, Schemas
  <2>2. LockHeld' /\ CacheRenewed' /\ NotYetApplied'
    BY <1>1, <1>0 DEF CheckTable, TypeOK, LockHeld, CacheRenewed, NotYetApplied
  <2>3. BaseHolds' /\ TableHolds'
    BY <1>1, <1>0 DEF CheckTable, TypeOK, BaseHolds, TableHolds, Common, Wanted
  <2> QED
    BY <2>1, <2>2, <2>3
<1>2. CASE Create(c)
  <2>0. /\ want[c] \subseteq Columns /\ Identifiers \subseteq Columns
        /\ table' \in Schemas /\ table'.cols = want[c]
    BY <1>2, StructTypes DEF Create, CreateTable, Schemas
  <2>b. retried' \in [Clients -> BOOLEAN] /\ due' \in BOOLEAN
    BY <1>2 DEF Create, TypeOK
  <2>1. TypeOK'
    BY <1>0, <1>2, <2>0, <2>b DEF Create, CreateTable, TypeOK, Fault
  <2>a. TableThere'
    BY <1>0, <1>2, <2>0 DEF Create, CreateTable, TypeOK, TableThere
  <2>2. LockHeld' /\ CacheRenewed' /\ NotYetApplied'
    BY <1>0, <1>2 DEF Create, TypeOK, LockHeld, CacheRenewed, NotYetApplied
  <2>3. \A d \in Clients \ {c} : pc'[d] \notin {"evolve"} \cup Ensured
    BY <1>0, <1>2 DEF Create, CreateTable, TypeOK, TableThere
  <2>4. Common' \subseteq want[c] /\ want[c] \subseteq Wanted'
    BY <1>2, <2>0 DEF Create, CreateTable, Common, Wanted
  <2>5. BaseHolds' /\ TableHolds'
    BY <1>0, <1>2, <2>0, <2>3, <2>4 DEF Create, TypeOK, BaseHolds, TableHolds
  <2> QED
    BY <2>1, <2>a, <2>2, <2>5
<1>3. CASE AlreadyExists(c) \/ EvolveFails(c) \/ EnsureFails(c)
  <2>0. retried' \in [Clients -> BOOLEAN] /\ due' \in BOOLEAN
    BY <1>3 DEF AlreadyExists, EvolveFails, EnsureFails, TypeOK
  <2>1. TypeOK'
    <3>1. CASE AlreadyExists(c) \/ EvolveFails(c)
      BY <2>0, <3>1 DEF AlreadyExists, EvolveFails, TypeOK
    <3>2. CASE EnsureFails(c)
      BY <1>0, <2>0, <3>2 DEF EnsureFails, TypeOK, Fault
    <3> QED
      BY <1>3, <3>1, <3>2
  <2>a. TableThere'
    BY <1>0, <1>3 DEF AlreadyExists, EvolveFails, EnsureFails, TypeOK, TableThere
  <2>2. LockHeld' /\ CacheRenewed' /\ NotYetApplied'
    BY <1>0, <1>3 DEF AlreadyExists, EvolveFails, EnsureFails, TypeOK, LockHeld,
                      CacheRenewed, NotYetApplied
  <2>3. BaseHolds' /\ TableHolds'
    BY <1>0, <1>3 DEF AlreadyExists, EvolveFails, EnsureFails, TypeOK, BaseHolds,
                      TableHolds, Common, Wanted
  <2> QED
    BY <2>1, <2>a, <2>2, <2>3
<1>4. CASE Load(c)
  <2>0. table \in Schemas /\ want[c] \subseteq Columns
    BY <1>0, <1>4, StructTypes DEF Load, TableThere
  <2>1. TypeOK' /\ TableThere'
    BY <1>0, <1>4, <2>0 DEF Load, TypeOK, TableThere
  <2>2. LockHeld' /\ CacheRenewed' /\ NotYetApplied'
    BY <1>0, <1>4 DEF Load, TypeOK, LockHeld, CacheRenewed, NotYetApplied
  <2>3. pc'[c] = "evolve" => base'[c] = table'
    BY <1>0, <1>4 DEF Load, TypeOK
  <2>4. pc'[c] \in Ensured => table'.cols = want'[c]
    BY <1>0, <1>4 DEF Load, UpToDate, TypeOK
  <2>5. BaseHolds' /\ TableHolds'
    BY <1>0, <1>4, <2>0, <2>3, <2>4
       DEF Load, TypeOK, BaseHolds, TableHolds, Common, Wanted, Schemas
  <2> QED
    BY <2>1, <2>2, <2>5
<1>5. CASE Evolve(c)
  <2>0. /\ table \in Schemas /\ base[c] \in Schemas
        /\ table' \in Schemas /\ table'.cols = (table.cols \ Dropped(c)) \cup Added(c)
    BY <1>0, <1>5, EvolvedType DEF Evolve, TableThere
  <2>1. TypeOK' /\ TableThere'
    BY <1>0, <1>5, <2>0 DEF Evolve, TypeOK, TableThere
  <2>2. LockHeld' /\ CacheRenewed' /\ NotYetApplied'
    BY <1>0, <1>5 DEF Evolve, TypeOK, LockHeld, CacheRenewed, NotYetApplied
  <2>3. /\ Common \cap base[c].cols \subseteq table.cols
        /\ table.cols \ Wanted \subseteq base[c].cols
    BY <1>5 DEF BaseHolds, Evolve
  <2>4. Common \subseteq want[c] /\ want[c] \subseteq Wanted
    BY <1>0, StructTypes DEF Common, Wanted
  <2>5. Common \subseteq table'.cols /\ table'.cols \subseteq Wanted
    BY <2>0, <2>3, <2>4 DEF Added, Dropped
  <2>6. Common' = Common /\ Wanted' = Wanted
    BY <1>5 DEF Evolve, Common, Wanted
  <2>7. BaseHolds' /\ TableHolds'
    BY <2>5, <2>6 DEF BaseHolds, TableHolds
  <2> QED
    BY <2>1, <2>2, <2>7
<1> QED
  BY <1>1, <1>2, <1>3, <1>4, <1>5 DEF Ensure

\* What follows leaves the table alone: a client that is ensured after the
\* step was so before.
LEMMA SchemaKept ==
  ASSUME IInv, UNCHANGED schema,
         \A c \in Clients : pc'[c] \in {"load", "evolve"} \cup Ensured
                              => pc'[c] = pc[c] \/ {pc[c], pc'[c]} \subseteq Ensured
  PROVE  TableThere' /\ BaseHolds' /\ TableHolds'
<1>1. TableThere'
  BY DEF IInv, schema, TableThere, Ensured
<1>2. Common' = Common /\ Wanted' = Wanted
  BY DEF schema, Common, Wanted
<1>3. BaseHolds' /\ TableHolds'
  BY <1>2 DEF IInv, schema, BaseHolds, TableHolds, Ensured
<1> QED
  BY <1>1, <1>3

\* The token and its cache.
LEMMA TokenStep ==
  ASSUME IInv, NEW c \in Clients,
         Begin(c) \/ UseCached(c) \/ Fetch(c) \/ Store(c) \/ Invalidate(c)
  PROVE  IInv'
<1> USE DEF IInv, TypeOK, Goto, cache, auth, call
<1>0. Nobody \notin Clients
  BY CatalogAssumption
<1>1. TableThere' /\ BaseHolds' /\ TableHolds'
  BY SchemaKept DEF Begin, UseCached, Fetch, NeedsToken, Store, Invalidate, schema, Ensured
<1>2. CASE Begin(c)
  BY <1>1, <1>2 DEF Begin, schema, LockHeld, CacheRenewed, NotYetApplied
<1>3. CASE UseCached(c)
  BY <1>0, <1>1, <1>3 DEF UseCached, schema, LockHeld, CacheRenewed, NotYetApplied
<1>4. CASE Fetch(c)
  <2>1. TypeOK'
    BY <1>4 DEF Fetch, NeedsToken, Held, schema
  <2>2. LockHeld' /\ NotYetApplied'
    BY <1>0, <1>4 DEF Fetch, NeedsToken, Held, LockHeld, NotYetApplied
  <2>3. CacheRenewed'
    BY <1>0, <1>4 DEF Fetch, NeedsToken, Held, LockHeld, CacheRenewed
  <2> QED
    BY <1>1, <2>1, <2>2, <2>3
<1>5. CASE Store(c)
  <2>1. TypeOK'
    BY <1>5 DEF Store, schema
  <2>2. LockHeld' /\ NotYetApplied'
    BY <1>0, <1>5 DEF Store, LockHeld, NotYetApplied
  <2>3. CacheRenewed'
    BY <1>0, <1>5 DEF Store, LockHeld, CacheRenewed
  <2> QED
    BY <1>1, <2>1, <2>2, <2>3
<1>6. CASE Invalidate(c)
  <2>0. retried' \in [Clients -> BOOLEAN] /\ due' \in BOOLEAN
    BY <1>6 DEF Invalidate
  <2>1. TypeOK'
    BY <1>0, <1>6, <2>0 DEF Invalidate, schema
  <2>2. LockHeld' /\ NotYetApplied'
    BY <1>0, <1>6 DEF Invalidate, LockHeld, NotYetApplied
  <2>3. CacheRenewed'
    BY <1>0, <1>6 DEF Invalidate, LockHeld, CacheRenewed
  <2> QED
    BY <1>1, <2>1, <2>2, <2>3
<1> QED
  BY <1>2, <1>3, <1>4, <1>5, <1>6

\* The request and its answer.
LEMMA SendStep ==
  ASSUME IInv, NEW c \in Clients,
         Accept(c) \/ Lose(c) \/ Refuse(c) \/ FetchFails(c) \/ Restart(c)
  PROVE  IInv'
<1> USE DEF IInv, TypeOK, Goto, cache, auth, call
<1>0. MaxFaults \in Nat /\ Nobody \notin Clients
  BY CatalogAssumption
<1>1. TableThere' /\ BaseHolds' /\ TableHolds'
  BY SchemaKept DEF Accept, Lose, Refuse, FetchFails, NeedsToken, Restart,
                    schema, Ensured
<1>2. CASE Accept(c)
  BY <1>1, <1>2 DEF Accept, schema, LockHeld, CacheRenewed, NotYetApplied
<1>3. CASE Lose(c)
  <2>1. TypeOK'
    BY <1>0, <1>3 DEF Lose, Fault, schema
  <2>2. LockHeld' /\ NotYetApplied'
    BY <1>0, <1>3 DEF Lose, Fault, LockHeld, NotYetApplied
  <2>3. CacheRenewed'
    BY <1>0, <1>3 DEF Lose, Fault, LockHeld, CacheRenewed
  <2> QED
    BY <1>1, <2>1, <2>2, <2>3
<1>4. CASE Refuse(c)
  BY <1>1, <1>4 DEF Refuse, schema, LockHeld, CacheRenewed, NotYetApplied
<1>5. CASE FetchFails(c) \/ Restart(c)
  <2>0. retried' \in [Clients -> BOOLEAN] /\ due' \in BOOLEAN
    BY <1>5 DEF FetchFails, NeedsToken, Fault, Restart
  <2>1. TypeOK'
    <3>1. CASE FetchFails(c)
      BY <1>0, <2>0, <3>1 DEF FetchFails, Fault, schema
    <3>2. CASE Restart(c)
      BY <2>0, <3>2 DEF Restart, schema
    <3> QED
      BY <1>5, <3>1, <3>2
  <2>2. LockHeld' /\ NotYetApplied'
    BY <1>0, <1>5 DEF FetchFails, NeedsToken, Fault, Restart, LockHeld, NotYetApplied
  <2>3. CacheRenewed'
    BY <1>0, <1>5 DEF FetchFails, NeedsToken, Fault, Restart, LockHeld, CacheRenewed
  <2> QED
    BY <1>1, <2>1, <2>2, <2>3
<1> QED
  BY <1>2, <1>3, <1>4, <1>5

LEMMA IInvStep == IInv /\ [Next]_vars => IInv'
<1> SUFFICES ASSUME IInv, [Next]_vars PROVE IInv'
  OBVIOUS
<1>1. CASE ComesDue \/ Withdraw \/ UNCHANGED vars
  <2> USE DEF IInv, vars, schema, cache, auth, call
  <2>1. TableThere' /\ BaseHolds' /\ TableHolds'
    BY <1>1, SchemaKept DEF ComesDue, Withdraw
  <2>2. TypeOK'
    BY <1>1 DEF ComesDue, Withdraw, TypeOK
  <2>3. LockHeld' /\ CacheRenewed' /\ NotYetApplied'
    BY <1>1 DEF ComesDue, Withdraw, LockHeld, CacheRenewed, NotYetApplied
  <2> QED
    BY <2>1, <2>2, <2>3
<1>2. CASE \E c \in Clients :
             Ensure(c) \/ EnsureFails(c) \/ Commit(c) \/ FetchFails(c) \/ Lose(c) \/ Restart(c)
  BY <1>2, EnsureStep, TokenStep, SendStep DEF Commit
<1> QED
  BY <1>1, <1>2 DEF Next

-----------------------------------------------------------------------------
\* The inductive invariant holds.
THEOREM IInvHolds == Spec => []IInv
  BY InitIInv, IInvStep, PTL DEF Spec

\* The repetition of a refused request, for any number of clients that share
\* one token cache (catalog.rs): it is sent with a token issued after the
\* refusal, and the server applies the call at most once.
THEOREM RetryIsSound == Spec => []RetrySound
<1>1. IInv => RetrySound
  BY DEF IInv, RetrySound, RetryIsFresh, CacheRenewed, AppliedOnce, NotYetApplied
<1> QED
  BY <1>1, IInvHolds, PTL

\* ensure_table (table.rs), for any structs with the same identifiers: while
\* others evolve the table too, one it answered Ok for has every column that
\* all of them want, and none that nobody wants.
THEOREM TableIsEnsured == Spec => []EnsuredMatches
<1>1. IInv => EnsuredMatches
  BY DEF IInv, TableHolds, EnsuredMatches, Common, Wanted
<1> QED
  BY <1>1, IInvHolds, PTL
=============================================================================
