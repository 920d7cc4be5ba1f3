---------------------------- MODULE CatalogClient ----------------------------
(***************************************************************************)
(* The iceberg catalog as prestige's processes use it: ensure_table        *)
(* (iceberg/table.rs, schema.rs) brings a table to the columns of a struct *)
(* while others do the same, and the REST endpoint (iceberg/catalog.rs)    *)
(* sends a branch request with the OAuth2 token that the clones of one     *)
(* Catalog share, and sends it once more after a 401.                      *)
(*                                                                         *)
(* Every client ensures the table and then sends one request; after an     *)
(* error it starts over.  The catalog server, its tokens and iceberg's     *)
(* transaction are external.                                               *)
(***************************************************************************)
EXTENDS Naturals, FiniteSets

CONSTANTS
  Clients,      \* users of the clones of one Catalog
  Columns,      \* names of columns
  Structs,      \* the column sets of the structs in use
  Identifiers,  \* identifier_field_names of them all
  NoTable,      \* the table does not exist
  Nobody,       \* no client
  MaxTokens,    \* bound: tokens after which the server withdraws none
  MaxFaults     \* bound: failed or lost requests

ASSUME CatalogAssumption ==
  /\ \A s \in Structs : Identifiers \subseteq s /\ s \subseteq Columns
  /\ NoTable \notin [cols : SUBSET Columns, ids : SUBSET Columns]
  /\ Nobody \notin Clients
  /\ {MaxTokens, MaxFaults} \subseteq Nat

VARIABLES
  want,     \* client -> the columns of its struct
  table,    \* the table's current schema
  pc,       \* client -> its next step
  base,     \* client -> the schema it loaded
  cached,   \* cached_token: the token, 0 for none
  due,      \* it is past its refresh_at
  lock,     \* who holds the mutex of cached_token
  token,    \* client -> the token it sends, or has fetched
  issued,   \* tokens issued so far
  valid,    \* tokens the server accepts
  retried,  \* client -> its request is the one after a 401
  faults,
  refused,  \* history: client -> tokens issued when its request was refused
  applied   \* history: client -> how often the server applied its request

schema == <<want, table, base>>
cache == <<cached, due, lock>>
auth == <<issued, valid>>
call == <<token, retried, refused, applied>>
vars == <<schema, pc, cache, auth, call, faults>>

Schemas == [cols : SUBSET Columns, ids : SUBSET Columns]
Goto(c, step) == pc' = [pc EXCEPT ![c] = step]

Init ==
  /\ want \in [Clients -> Structs]
  /\ table \in {NoTable} \cup {s \in Schemas : s.ids \subseteq s.cols /\ s.cols # {}}
  /\ pc = [c \in Clients |-> "start"] /\ base = [c \in Clients |-> NoTable]
  /\ cached = 0 /\ due = FALSE /\ lock = Nobody
  /\ token = [c \in Clients |-> 0] /\ issued = 0 /\ valid = {}
  /\ retried = [c \in Clients |-> FALSE] /\ faults = 0
  /\ refused = [c \in Clients |-> 0] /\ applied = [c \in Clients |-> 0]

Fault == faults < MaxFaults /\ faults' = faults + 1

-----------------------------------------------------------------------------
(* ensure_table *)

\* reconcile_schema: columns by name, and the identifiers as a set.
Added(c) == want[c] \ base[c].cols
Dropped(c) == base[c].cols \ want[c]
\* Mutant: a column that the struct lacks does not count.
HasColumns(c, s) == want[c] \subseteq s.cols /\ s.ids = Identifiers
UpToDate(c, s) == s.cols = want[c] /\ s.ids = Identifiers

\* commit_schema_update cannot change identifiers; a struct without any leaves
\* the table's alone.  They are compared in the order a hash set happens to
\* have, so that two of them may differ from themselves.
MayCommit(s) == Identifiers \in {{}, s.ids}
MayRefuse(s) == Identifiers # {} /\ (s.ids # Identifiers \/ Cardinality(Identifiers) > 1)

\* The namespace, which may exist, and table_exists().
CheckTable(c) ==
  /\ pc[c] = "start"
  /\ Goto(c, IF table = NoTable THEN "create" ELSE "load")
  /\ UNCHANGED <<schema, cache, auth, call, faults>>

CreateTable(c) == table = NoTable /\ table' = [cols |-> want[c], ids |-> Identifiers]

\* create_table(); its reply may be lost.
Create(c) ==
  /\ pc[c] = "create" /\ CreateTable(c)
  /\ \/ Goto(c, "ensured") /\ UNCHANGED faults
     \/ Goto(c, "failed") /\ Fault
  /\ UNCHANGED <<want, base, cache, auth, call>>

\* A table that another process has created is loaded like an old one.
AlreadyExists(c) ==
  /\ pc[c] = "create" /\ table # NoTable
  /\ Goto(c, "load")
  /\ UNCHANGED <<schema, cache, auth, call, faults>>

Load(c) ==
  /\ pc[c] = "load"
  /\ base' = [base EXCEPT ![c] = table]
  /\ \/ UpToDate(c, table) /\ Goto(c, "ensured")
     \/ ~UpToDate(c, table) /\ MayCommit(table) /\ Goto(c, "evolve")
     \/ ~UpToDate(c, table) /\ MayRefuse(table) /\ Goto(c, "failed")
  /\ UNCHANGED <<want, table, cache, auth, call, faults>>

\* iceberg's transaction rebases the additions and drops on the schema it
\* finds; a column that is there, or gone, by then is an error.
Rebases(c) == Added(c) \cap table.cols = {} /\ Dropped(c) \subseteq table.cols

Evolved(c) == [table EXCEPT !.cols = (@ \ Dropped(c)) \cup Added(c)]

Evolve(c) ==
  /\ pc[c] = "evolve" /\ Rebases(c)
  /\ table' = Evolved(c) /\ Goto(c, "ensured")
  /\ UNCHANGED <<want, base, cache, auth, call, faults>>

EvolveFails(c) ==
  /\ pc[c] = "evolve" /\ ~Rebases(c)
  /\ Goto(c, "failed")
  /\ UNCHANGED <<schema, cache, auth, call, faults>>

\* A request to the catalog fails without effect.
EnsureFails(c) ==
  /\ pc[c] \in {"start", "create", "load", "evolve"} /\ Fault
  /\ Goto(c, "failed")
  /\ UNCHANGED <<schema, cache, auth, call>>

Ensure(c) ==
  CheckTable(c) \/ Create(c) \/ AlreadyExists(c) \/ Load(c) \/ Evolve(c) \/ EvolveFails(c)

-----------------------------------------------------------------------------
(* The REST endpoint *)

\* commit_table().
Begin(c) ==
  /\ pc[c] = "ensured"
  /\ Goto(c, "token")
  /\ retried' = [retried EXCEPT ![c] = FALSE]
  /\ refused' = [refused EXCEPT ![c] = 0] /\ applied' = [applied EXCEPT ![c] = 0]
  /\ UNCHANGED <<schema, cache, auth, token, faults>>

\* get_token(): the cached token while it is not due, or else a new one.
UseCached(c) ==
  /\ pc[c] = "token" /\ lock = Nobody /\ cached # 0 /\ ~due
  /\ token' = [token EXCEPT ![c] = cached]
  /\ Goto(c, "send")
  /\ UNCHANGED <<schema, cache, auth, retried, refused, applied, faults>>

\* Mutant: the mutex is not held while a token is fetched.
Unheld(c) == Nobody

\* The mutex during fetch_token().
Held(c) == c

\* Mutant: a token that is due is not replaced.
NeedsFirstToken(c) == pc[c] = "token" /\ lock = Nobody /\ cached = 0

NeedsToken(c) == pc[c] = "token" /\ lock = Nobody /\ (cached = 0 \/ due)

Fetch(c) ==
  /\ NeedsToken(c)
  /\ issued' = issued + 1 /\ valid' = valid \cup {issued'}
  /\ token' = [token EXCEPT ![c] = issued']
  /\ lock' = Held(c) /\ Goto(c, "store")
  /\ UNCHANGED <<schema, cached, due, retried, refused, applied, faults>>

Store(c) ==
  /\ pc[c] = "store"
  /\ cached' = token[c] /\ due' = FALSE /\ lock' = Nobody
  /\ Goto(c, "send")
  /\ UNCHANGED <<schema, auth, call, faults>>

FetchFails(c) ==
  /\ NeedsToken(c) /\ Fault
  /\ Goto(c, "failed")
  /\ UNCHANGED <<schema, cache, auth, call>>

\* send_commit() with a token the server accepts: applied, or a requirement
\* does not hold; handle_commit_response() turns the latter into an error.
Accept(c) ==
  /\ pc[c] = "send" /\ token[c] \in valid
  /\ applied' \in {applied, [applied EXCEPT ![c] = @ + 1]}
  /\ Goto(c, "answered")
  /\ UNCHANGED <<schema, cache, auth, token, retried, refused, faults>>

\* No answer, or another status, whether or not the request was applied.
Lose(c) ==
  /\ pc[c] = "send" /\ Fault
  /\ \/ UNCHANGED applied
     \/ token[c] \in valid /\ applied' = [applied EXCEPT ![c] = @ + 1]
  /\ Goto(c, "failed")
  /\ UNCHANGED <<schema, cache, auth, token, retried, refused>>

\* A 401; the second one of a call is final.
Refuse(c) ==
  /\ pc[c] = "send" /\ token[c] \notin valid
  /\ Goto(c, IF retried[c] THEN "failed" ELSE "refused")
  /\ refused' = [refused EXCEPT ![c] = issued]
  /\ UNCHANGED <<schema, cache, auth, token, retried, applied, faults>>

\* invalidate(), whichever token is cached by now.
Invalidate(c) ==
  /\ pc[c] = "refused" /\ lock = Nobody
  /\ cached' = 0 /\ due' = FALSE
  /\ retried' = [retried EXCEPT ![c] = TRUE]
  /\ Goto(c, "token")
  /\ UNCHANGED <<schema, lock, auth, token, refused, applied, faults>>

Commit(c) ==
  \/ Begin(c) \/ UseCached(c) \/ Fetch(c) \/ Store(c)
  \/ Accept(c) \/ Refuse(c) \/ Invalidate(c)

-----------------------------------------------------------------------------
\* Three quarters of the cached token's lifetime are over.
ComesDue ==
  /\ cached # 0 /\ ~due /\ issued < MaxTokens
  /\ due' = TRUE
  /\ UNCHANGED <<schema, pc, cached, lock, auth, call, faults>>

\* The server no longer accepts a token: it expired or was revoked.
Withdraw ==
  /\ issued < MaxTokens
  /\ \E t \in valid : valid' = valid \ {t}
  /\ UNCHANGED <<schema, pc, cache, issued, call, faults>>

Restart(c) ==
  /\ pc[c] = "failed" /\ Goto(c, "start")
  /\ UNCHANGED <<schema, cache, auth, call, faults>>

Next ==
  \/ \E c \in Clients :
       Ensure(c) \/ EnsureFails(c) \/ Commit(c) \/ FetchFails(c) \/ Lose(c) \/ Restart(c)
  \/ ComesDue \/ Withdraw

Spec == Init /\ [][Next]_vars

\* A client is a tokio task that can run; callers try again after an error.
FairSpec == Spec /\ \A c \in Clients : WF_vars(Ensure(c) \/ Commit(c) \/ Restart(c))

-----------------------------------------------------------------------------
TypeOK ==
  /\ want \in [Clients -> Structs] /\ table \in Schemas \cup {NoTable}
  /\ pc \in [Clients -> {"start", "create", "load", "evolve", "ensured", "token", "store",
                         "send", "refused", "answered", "failed"}]
  /\ base \in [Clients -> Schemas \cup {NoTable}]
  /\ issued \in Nat /\ valid \subseteq 1..issued
  /\ cached \in 0..issued /\ token \in [Clients -> 0..issued]
  /\ due \in BOOLEAN /\ lock \in Clients \cup {Nobody}
  /\ retried \in [Clients -> BOOLEAN] /\ refused \in [Clients -> 0..issued]
  /\ applied \in [Clients -> Nat] /\ faults \in 0..MaxFaults

Ensured == {"ensured", "token", "store", "send", "refused", "answered"}

\* table.rs: "Ensure a table exists and its schema matches the struct": once
\* ensure_table returned Ok, the table has every column that all processes
\* want and none that nobody wants, whoever else evolves it at the same time;
\* if all use one struct, exactly its columns.
EnsuredMatches ==
  \A c \in Clients : pc[c] \in Ensured =>
    \A x \in Columns :
      /\ (\A d \in Clients : x \in want[d]) => x \in table.cols
      /\ x \in table.cols => \E d \in Clients : x \in want[d]

\* A request is repeated only with a token that was issued after the refusal:
\* no other client's fetch puts an older token back into the cache.  Only a
\* token withdrawn since can refuse the call for good.
RetryIsFresh == \A c \in Clients : pc[c] = "send" /\ retried[c] => token[c] > refused[c]

\* The repetition meets no earlier effect of its own: a call is applied once.
AppliedOnce == \A c \in Clients : applied[c] <= 1

\* The repetition after a 401, whatever other clients do with the cache.
RetrySound == TypeOK /\ RetryIsFresh /\ AppliedOnce

\* Fetches that fail while the mutex is held, refusals and columns that appear
\* or vanish at the wrong time end no client for ever; only a table with other
\* identifiers does, which ensure_table refuses each time.
AllServed ==
  <>[](\A c \in Clients : pc[c] = "answered" \/ (table # NoTable /\ ~MayCommit(table)))
=============================================================================
