----------------------------- MODULE CachedStore -----------------------------
(* The content stores as concurrent clients see them: PostgreSQL            *)
(* transactions as far as READ COMMITTED and row locks serialize them, the   *)
(* read cache that both stores fill after a query and invalidate after a     *)
(* commit, and the order in which the outbox rows are stamped.               *)
(*                                                                          *)
(* What a transaction does once it has locked the row of its URI is one step. *)
(* Its beginning is a step before: now(), the stamp of its outbox row, is that *)
(* of BEGIN.  The reads of rename and rollback come before the lock, too.  A  *)
(* batch locks the rows that exist, and only those, when it reads their        *)
(* versions, and is stamped then.  SQLite transactions are serial.             *)
EXTENDS Absent, Integers, FiniteSets

CONSTANTS
  StoreUris,
  StoreClients,
  MaxStored,     \* bounds the version of a URI
  MaxBegun       \* bounds how many transactions begin

ASSUME CachedStoreAssumption ==
  /\ MaxStored \in Nat /\ MaxBegun \in Nat
  /\ NULL \notin 0..MaxBegun
  /\ NULL \notin [ver : 1..MaxStored, columns : 1..MaxBegun, json : 1..MaxBegun]

VARIABLES
  backend,       \* which store it is
  current,       \* context_entries: version, l0_abstract with l1_overview, entry_json
  history,       \* context_versions: the text of each version
  points,        \* the outbox row with the latest created_at of each URI: the point it leaves
  cached,        \* the read cache: a text, "missing" or nothing
  clients,       \* the operation each client is in the middle of
  clock,         \* stamps handed out; what a transaction writes is named by its stamp
  late,          \* URIs whose last commit began before an earlier one (history variable)
  mixed,         \* URIs whose JSON a rename took before the last write (history variable)
  raced          \* URIs whose cached text was queried before a commit and stored after it

tables == <<backend, current, history, points, late, mixed>>
cachedStoreVars == <<tables, cached, clients, clock, raced>>

Numbers == 1..MaxStored
Missing == 0
Idle == [op |-> "idle"]
NoHistory == [v \in Numbers |-> NULL]
Entry(ver, columns, json) == [ver |-> ver, columns |-> columns, json |-> json]
Base(u) == IF current[u] = NULL THEN 0 ELSE current[u].ver

CachedStoreInit ==
  /\ backend \in {"sqlite", "postgres"}
  /\ current = [u \in StoreUris |-> NULL] /\ history = [u \in StoreUris |-> NoHistory]
  /\ points = [u \in StoreUris |-> [at |-> 0, text |-> NULL]]
  /\ cached = [u \in StoreUris |-> NULL]
  /\ clients = [c \in StoreClients |-> Idle]
  /\ clock = 0 /\ late = {} /\ mixed = {} /\ raced = {}

\* Rows locked by a batch that has read their versions.
Locked(c) == UNION {DOMAIN clients[d].base : d \in {e \in StoreClients : e # c /\ clients[e].op = "batch"}}

InTransaction(d) == clients[d].op \in {"begun", "rename", "rollback", "batch"}

\* c goes on with q; nothing is committed.
Turns(c, q) == clients' = [clients EXCEPT ![c] = q] /\ UNCHANGED <<tables, cached, raced>>

\* c takes the next stamp.  SQLite runs one transaction after the other.
Starts(c, q) ==
  /\ clients[c].op = "idle"
  /\ backend = "sqlite" => \A d \in StoreClients : ~InTransaction(d)
  /\ clock < MaxBegun /\ clock' = clock + 1
  /\ Turns(c, q)

PgBegin(c) == Starts(c, [op |-> "begun", at |-> clock + 1])

\* A commit that leaves the rows given and enqueues what the index is to show for
\* each URI it touches.  claim orders outbox rows by their stamps: one with an
\* earlier stamp is replayed before those that still wait.  (Its other orders, by
\* version, retries and leases are IndexOutbox's.)  Readers in between hold what is
\* old now, and the client goes on to invalidate U.
Commits(c, U, rows, hist, mutation) ==
  LET at == clients[c].at
      touched == DOMAIN mutation
  IN /\ touched \cap Locked(c) = {}
     /\ current' = rows /\ history' = hist
     /\ points' = [u \in StoreUris |-> IF u \in touched /\ points[u].at < at
                                      THEN [at |-> at, text |-> mutation[u]] ELSE points[u]]
     /\ late' = (late \ touched) \cup {u \in touched : points[u].at >= at}
     /\ clients' = [d \in StoreClients |->
          IF d = c THEN [op |-> "invalidate", uris |-> U]
          ELSE IF clients[d].op \in {"fill", "rename"} /\ clients[d].uri \in touched
               THEN [clients[d] EXCEPT !.old = TRUE]
          ELSE clients[d]]
     /\ UNCHANGED <<backend, cached, clock, raced>>

\* write_in_tx: the primary key of the history refuses a version that exists.
Stores(c, u, text) ==
  LET v == Base(u) + 1 IN
  /\ v <= MaxStored /\ history[u][v] = NULL
  /\ Commits(c, {u}, [current EXCEPT ![u] = Entry(v, text, text)], [history EXCEPT ![u][v] = text],
             [w \in {u} |-> text])
  /\ mixed' = mixed \ {u}

PgWrite(c, u) == clients[c].op = "begun" /\ Stores(c, u, clients[c].at)

PgDelete(c, u) ==
  /\ clients[c].op = "begun" /\ current[u] # NULL
  /\ Commits(c, {u}, [current EXCEPT ![u] = NULL], [history EXCEPT ![u] = NoHistory], [w \in {u} |-> NULL])
  /\ mixed' = mixed \ {u}

\* SELECT entry_json: the whole of the source, but for its columns.
PgRenameRead(c, from, to) ==
  /\ clients[c].op = "begun" /\ current[from] # NULL
  /\ Turns(c, [op |-> "rename", at |-> clients[c].at, uri |-> from, to |-> to,
               text |-> current[from].json, old |-> FALSE])
  /\ UNCHANGED clock

\* Fault: only the old name is invalidated.
RenameInvalidates(from, to) == {from}

RenamedUris(from, to) == {from, to}

\* The row moves with the version and the columns it has now and the JSON that was
\* read before; the point is made of that JSON.
PgRename(c) ==
  LET from == clients[c].uri
      to == clients[c].to
      text == clients[c].text
  IN /\ clients[c].op = "rename" /\ current[from] # NULL
     /\ to # from => current[to] = NULL
     /\ Commits(c, RenamedUris(from, to),
          [current EXCEPT ![from] = NULL, ![to] = Entry(current[from].ver, current[from].columns, text)],
          [history EXCEPT ![from] = NoHistory, ![to] = history[from]],
          [w \in {from, to} |-> IF w = to THEN text ELSE NULL])
     /\ mixed' = (mixed \ {from, to}) \cup (IF from \in mixed \/ clients[c].old THEN {to} ELSE {})

PgRollbackRead(c, u, v) ==
  /\ clients[c].op = "begun" /\ history[u][v] # NULL
  /\ Turns(c, [op |-> "rollback", at |-> clients[c].at, uri |-> u, text |-> history[u][v]])
  /\ UNCHANGED clock

PgRollback(c) ==
  /\ clients[c].op = "rollback" /\ current[clients[c].uri] # NULL
  /\ Stores(c, clients[c].uri, clients[c].text)

\* SELECT ... FOR UPDATE: locks what exists, remembers 0 for what does not.  The
\* rows are stamped by the clock of the client after that, which agrees with now().
PgBatchRead(c, U) ==
  /\ \A u \in U : current[u] # NULL => u \notin Locked(c)
  /\ Starts(c, [op |-> "batch", at |-> clock + 1, uris |-> U,
                base |-> [u \in {w \in U : current[w] # NULL} |-> Base(u)]])

\* Fault: the history insert replaces a row that exists.
HistoryTaken(u, v) == FALSE

HistoryRefuses(u, v) == history[u][v] # NULL

\* Each URI of the batch gets the version after the one that was read.
PgBatch(c) ==
  LET U == clients[c].uris
      text == clients[c].at
      v == [u \in U |-> (IF u \in DOMAIN clients[c].base THEN clients[c].base[u] ELSE 0) + 1]
  IN /\ clients[c].op = "batch"
     /\ \A u \in U : v[u] <= MaxStored /\ ~HistoryRefuses(u, v[u])
     /\ Commits(c, U, [u \in StoreUris |-> IF u \in U THEN Entry(v[u], text, text) ELSE current[u]],
          [u \in StoreUris |-> IF u \in U THEN [history[u] EXCEPT ![v[u]] = text] ELSE history[u]],
          [u \in U |-> text])
     /\ mixed' = mixed \ U

\* An error, a constraint or a deadlock rolls the transaction back.
Abandon(c) == InTransaction(c) /\ Turns(c, Idle) /\ UNCHANGED clock

\* One URI after another, after the commit.
Invalidate(c) ==
  /\ clients[c].op = "invalidate"
  /\ \E u \in clients[c].uris :
       /\ cached' = [cached EXCEPT ![u] = NULL] /\ raced' = raced \ {u}
       /\ clients' = [clients EXCEPT ![c] =
            IF clients[c].uris = {u} THEN Idle ELSE [op |-> "invalidate", uris |-> clients[c].uris \ {u}]]
  /\ UNCHANGED <<tables, clock>>

\* read of level L0 or L1: nothing in the cache, so the columns are asked for.  The
\* PostgreSQL store returns NotFound before it could cache it.
PgRead(c, u) ==
  /\ clients[c].op = "idle" /\ cached[u] = NULL
  /\ backend = "postgres" => current[u] # NULL
  /\ Turns(c, [op |-> "fill", uri |-> u, old |-> FALSE,
               text |-> IF current[u] = NULL THEN Missing ELSE current[u].columns])
  /\ UNCHANGED clock

PgFill(c) ==
  /\ clients[c].op = "fill"
  /\ LET u == clients[c].uri IN
       /\ cached' = [cached EXCEPT ![u] = clients[c].text]
       /\ raced' = IF clients[c].old THEN raced \cup {u} ELSE raced \ {u}
  /\ clients' = [clients EXCEPT ![c] = Idle]
  /\ UNCHANGED <<tables, clock>>

Expire(u) ==
  /\ cached[u] # NULL
  /\ cached' = [cached EXCEPT ![u] = NULL] /\ raced' = raced \ {u}
  /\ UNCHANGED <<tables, clients, clock>>

ClientOp(c) ==
  \/ PgBegin(c)
  \/ \E u \in StoreUris : PgWrite(c, u) \/ PgDelete(c, u) \/ PgRead(c, u) \/ \E v \in Numbers : PgRollbackRead(c, u, v)
  \/ \E from, to \in StoreUris : PgRenameRead(c, from, to)
  \/ \E U \in SUBSET StoreUris \ {{}} : PgBatchRead(c, U)
  \/ PgRename(c) \/ PgRollback(c) \/ PgBatch(c) \/ Abandon(c) \/ Invalidate(c) \/ PgFill(c)

CachedStoreNext == (\E c \in StoreClients : ClientOp(c)) \/ \E u \in StoreUris : Expire(u)

CachedStoreSpec == CachedStoreInit /\ [][CachedStoreNext]_cachedStoreVars

-----------------------------------------------------------------------------
\* Transactions that lock too little or too late still leave, for every URI, the
\* versions 1 .. mvcc_version without a gap, and none for a URI that is gone: the
\* primary key of the history refuses what the locks let through.  The columns
\* that read, ls and grep answer from are those of the newest version.  Its JSON is
\* so, too, unless a rename read it before the last write; and the outbox rows
\* replayed by their stamps leave the point of that JSON, or none, unless the last
\* commit began before an earlier one.  Neither happens where transactions are serial.
StoreKeepsBooks ==
  /\ \A u \in StoreUris :
       /\ \A v \in Numbers : history[u][v] # NULL <=> v <= Base(u)
       /\ current[u] # NULL =>
            /\ current[u].columns = history[u][current[u].ver]
            /\ u \in mixed \/ current[u].json = current[u].columns
       /\ u \in late \/ points[u].text = IF current[u] = NULL THEN NULL ELSE current[u].json
  /\ backend = "sqlite" => late = {} /\ mixed = {}

\* Once the clients that changed a URI have invalidated it, the cache shows the
\* columns, or that there is no row, except for what a reader queried before a commit
\* and stored after it: every operation invalidates every name it touches.
CacheFollowsStore ==
  \A u \in StoreUris :
    \/ cached[u] = NULL \/ u \in raced
    \/ \E c \in StoreClients : clients[c].op = "invalidate" /\ u \in clients[c].uris
    \/ cached[u] = IF current[u] = NULL THEN Missing ELSE current[u].columns
=============================================================================
