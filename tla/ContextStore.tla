---------------------------- MODULE ContextStore ----------------------------
(***************************************************************************)
(* The relational content store: SqliteContextStore in                     *)
(* crates/context-db-storage/src/sqlite.rs and the row format of the index *)
(* outbox in crates/context-db-storage/src/outbox.rs.                      *)
(*                                                                         *)
(* Every operation of ContentRepo, VersionOps and GraphStore that changes  *)
(* the database is one action, because the code runs it in one SQLite      *)
(* transaction and SQLite transactions are serializable.  An operation     *)
(* that returns an error rolls its transaction back and changes nothing,   *)
(* so an error path is the negation of a guard.  What the transactions     *)
(* share is the content of five tables:                                    *)
(*                                                                         *)
(*   entries    context_entries: the current row of each URI               *)
(*   versions   context_versions: one row per (uri, mvcc_version)          *)
(*   relations  context_relations: (from_uri, to_uri, relation_kind)       *)
(*   revision   context_graph_revisions: one counter per tenant            *)
(*   outbox     context_index_outbox, in creation order                    *)
(*                                                                         *)
(* The payload, the metadata and the embedding vector of an entry are one  *)
(* value of Bodies; what is kept of the metadata is what the outbox reads: *)
(* whether there is an embedding and which collection it goes to.          *)
(***************************************************************************)
EXTENDS Absent, Integers, Sequences, FiniteSets, SequencesExt

CONSTANTS
  Uris,         \* the URIs in use
  Tenants,      \* URI authorities, the scope of a graph revision
  TenantOf,     \* the authority of each URI
  Bodies,       \* payloads (with the vector computed from them)
  Collections,  \* values of metadata.custom.vector_collection
  Kinds,        \* relation kinds
  MaxVersion,   \* bound: no MVCC version above this one is created
  MaxBatch,     \* bound: entries in one batch_write call
  MaxOutbox,    \* bound: rows ever enqueued
  MaxRevision   \* bound: graph mutations per tenant

VARIABLES entries, versions, relations, revision, outbox

storeVars == <<entries, versions, relations, revision, outbox>>

-----------------------------------------------------------------------------
(* What a caller hands to write: the parts of a ContextEntry the store     *)
(* tells apart.                                                            *)
Input == [body : Bodies, coll : Collections, emb : BOOLEAN]

(* entry_json: the complete entry, with the URI and version it was stored  *)
(* under.                                                                  *)
Snapshot == [uri : Uris, body : Bodies, coll : Collections, emb : BOOLEAN,
             ver : 1..MaxVersion]

ASSUME ConstantsAssumption ==
  /\ TenantOf \in [Uris -> Tenants]
  /\ MaxVersion \in Nat \ {0}
  /\ MaxBatch \in Nat
  /\ MaxOutbox \in Nat
  /\ MaxRevision \in Nat
  /\ NULL \notin Bodies
  /\ NULL \notin Snapshot

(* An outbox row.  uri and ver are the ordering key (ver = 0 is SQL NULL); *)
(* target, from, coll, point and body are the mutation itself.  ready says *)
(* available_at has passed, leased that lease_until has not.               *)
Row == [op : {"upsert", "delete", "rename"},
        uri : Uris, ver : 0..MaxVersion,
        target : Uris, from : Uris, coll : Collections,
        point : BOOLEAN, body : Bodies \cup {NULL}, pver : 0..MaxVersion,
        status : {"pending", "processing", "done", "failed", "dead"},
        attempts : Nat, ready : BOOLEAN, leased : BOOLEAN]

NoRows == [v \in 1..MaxVersion |-> NULL]

StoreTypeOK ==
  /\ entries \in [Uris -> Snapshot \cup {NULL}]
  /\ versions \in [Uris -> [1..MaxVersion -> Snapshot \cup {NULL}]]
  /\ relations \in SUBSET (Uris \X Uris \X Kinds)
  /\ revision \in [Tenants -> Nat]
  /\ outbox \in Seq(Row)

-----------------------------------------------------------------------------
(* Rows of the outbox: mutation_order derives the ordering key from the    *)
(* mutation, enqueue_sqlite inserts it as pending and available now.       *)
NewRow(op, uri, ver, target, from, coll, snap) ==
  [op |-> op, uri |-> uri, ver |-> ver,
   target |-> target, from |-> from, coll |-> coll,
   point |-> snap # NULL,
   body |-> IF snap = NULL THEN NULL ELSE snap.body,
   pver |-> IF snap = NULL THEN 0 ELSE snap.ver,
   status |-> "pending", attempts |-> 0, ready |-> TRUE, leased |-> FALSE]

UpsertRow(s) == NewRow("upsert", s.uri, s.ver, s.uri, s.uri, s.coll, s)

(* A delete carries no version: its ordering key is NULL. *)
DeleteRow(u, coll) == NewRow("delete", u, 0, u, u, coll, NULL)

(* Fault: the rename carries no point to the new URI. *)
RenameRowWithoutPoint(from, s) ==
  NewRow("rename", from, 0, s.uri, from, s.coll, NULL)

(* A rename is ordered under the new URI when the entry has an embedding,  *)
(* under the old one, without a version, when it has none.                 *)
RenameRow(from, s) ==
  IF s.emb THEN NewRow("rename", s.uri, s.ver, s.uri, from, s.coll, s)
           ELSE NewRow("rename", from, 0, s.uri, from, s.coll, NULL)

(* upsert_mutation: an entry without an embedding enqueues nothing. *)
UpsertRows(s) == IF s.emb THEN <<UpsertRow(s)>> ELSE <<>>

Enqueue(rows) ==
  /\ Len(outbox) + Len(rows) <= MaxOutbox
  /\ outbox' = outbox \o rows

-----------------------------------------------------------------------------
(* INSERT ... ON CONFLICT(uri) DO UPDATE SET mvcc_version = mvcc_version+1 *)
NextVersion(u) == IF entries[u] = NULL THEN 1 ELSE entries[u].ver + 1

Stored(u, in, v) ==
  [uri |-> u, body |-> in.body, coll |-> in.coll, emb |-> in.emb, ver |-> v]

(* Fault: an existing row keeps its version and its history row is         *)
(* replaced.                                                               *)
WriteInPlace(u, in) ==
  LET v == IF entries[u] = NULL THEN 1 ELSE entries[u].ver IN
  /\ entries' = [entries EXCEPT ![u] = Stored(u, in, v)]
  /\ versions' = [versions EXCEPT ![u][v] = Stored(u, in, v)]

(* write_in_tx: the current row, its entry_json and the history row.  The  *)
(* primary key (uri, mvcc_version) makes the history insert fail, and the  *)
(* transaction with it, when the row already exists.                       *)
WriteInTx(u, in) ==
  LET v == NextVersion(u) IN
  /\ v <= MaxVersion
  /\ versions[u][v] = NULL
  /\ entries' = [entries EXCEPT ![u] = Stored(u, in, v)]
  /\ versions' = [versions EXCEPT ![u][v] = Stored(u, in, v)]

Write(u, in) ==
  /\ WriteInTx(u, in)
  /\ Enqueue(UpsertRows(Stored(u, in, NextVersion(u))))
  /\ UNCHANGED <<relations, revision>>

(* rollback: the chosen snapshot is written as a new version of the URI    *)
(* the caller named.                                                       *)
Rollback(u, v) ==
  /\ versions[u][v] # NULL
  /\ entries[u] # NULL
  /\ Write(u, versions[u][v])

-----------------------------------------------------------------------------
(* batch_write.  A batch is cut into chunks; each chunk reads the current  *)
(* versions of its URIs, then prepare_batch_chunk gives every entry its    *)
(* version (the entries of one URI are numbered on in input order) and     *)
(* marks the last entry of each URI as the current row.  A table state is  *)
(* a record so that one transaction can apply chunk after chunk.           *)
Item == [uri : Uris, in : Input]

Rank(S, i) == Cardinality({j \in S : j <= i})

Nth(S, k) == CHOOSE i \in S : Rank(S, i) = k

Places(chunk, u) == {i \in 1..Len(chunk) : chunk[i].uri = u}

CurrentVersion(t, u) == IF t.entries[u] = NULL THEN 0 ELSE t.entries[u].ver

FinalVersion(t, chunk, u) ==
  CurrentVersion(t, u) + Cardinality(Places(chunk, u))

NewVersions(t, chunk, u) ==
  (CurrentVersion(t, u) + 1)..FinalVersion(t, chunk, u)

(* Fault: duplicates of a URI are numbered from the last to the first. *)
VersionRowReversed(t, chunk, u, v) ==
  Stored(u, chunk[Nth(Places(chunk, u), FinalVersion(t, chunk, u) + 1 - v)].in, v)

(* The entry of the chunk that becomes version v of u. *)
VersionRow(t, chunk, u, v) ==
  Stored(u, chunk[Nth(Places(chunk, u), v - CurrentVersion(t, u))].in, v)

ItemStored(t, chunk, i) ==
  LET u == chunk[i].uri IN
  Stored(u, chunk[i].in, CurrentVersion(t, u) + Rank(Places(chunk, u), i))

Embedded(chunk) == {i \in 1..Len(chunk) : chunk[i].in.emb}

ChunkFits(t, chunk) ==
  \A u \in Uris :
    /\ FinalVersion(t, chunk, u) <= MaxVersion
    /\ \A v \in NewVersions(t, chunk, u) : t.versions[u][v] = NULL

WriteChunk(t, chunk) ==
  [entries |-> [u \in Uris |->
     IF NewVersions(t, chunk, u) = {} THEN t.entries[u]
     ELSE VersionRow(t, chunk, u, FinalVersion(t, chunk, u))],
   versions |-> [u \in Uris |-> [v \in 1..MaxVersion |->
     IF v \in NewVersions(t, chunk, u) THEN VersionRow(t, chunk, u, v)
     ELSE t.versions[u][v]]],
   outbox |-> t.outbox \o
     [k \in 1..Cardinality(Embedded(chunk)) |->
        UpsertRow(ItemStored(t, chunk, Nth(Embedded(chunk), k)))]]

Tables == [entries |-> entries, versions |-> versions, outbox |-> outbox]

(* The size limits cut a batch at any place: head and tail are its chunks, *)
(* tail empty when it fits into one.                                       *)
BatchWrite(head, tail) ==
  LET mid == WriteChunk(Tables, head)
      end == WriteChunk(mid, tail)
  IN  /\ Len(head) > 0 /\ Len(head) + Len(tail) <= MaxBatch
      /\ Len(outbox) + Cardinality(Embedded(head))
                     + Cardinality(Embedded(tail)) <= MaxOutbox
      /\ ChunkFits(Tables, head)
      /\ ChunkFits(mid, tail)
      /\ entries' = end.entries
      /\ versions' = end.versions
      /\ outbox' = end.outbox
      /\ UNCHANGED <<relations, revision>>

-----------------------------------------------------------------------------
(* bump_graph_revision, called only when the statement changed an edge. *)
BumpIf(changed, t) ==
  /\ changed => revision[t] < MaxRevision
  /\ revision' = IF changed THEN [revision EXCEPT ![t] = @ + 1] ELSE revision

Touching(u) == {r \in relations : r[1] = u \/ r[2] = u}

(* The collection named by the latest history row of the deleted URI. *)
LatestVersion(u) ==
  CHOOSE v \in 1..MaxVersion :
    /\ versions[u][v] # NULL
    /\ \A w \in 1..MaxVersion : versions[u][w] # NULL => w <= v

Delete(u) ==
  /\ entries[u] # NULL
  /\ entries' = [entries EXCEPT ![u] = NULL]
  /\ Enqueue(<<DeleteRow(u, versions[u][LatestVersion(u)].coll)>>)
  /\ versions' = [versions EXCEPT ![u] = NoRows]
  /\ relations' = relations \ Touching(u)
  /\ BumpIf(Touching(u) # {}, TenantOf[u])

(* Fault: the entry inside the moved row still names the old URI. *)
MovedKeepsUri(s, to) == s

Moved(s, to) == IF s = NULL THEN NULL ELSE [s EXCEPT !.uri = to]

Redirect(r, from, to) ==
  <<IF r[1] = from THEN to ELSE r[1], IF r[2] = from THEN to ELSE r[2], r[3]>>

(* rename: the row, every history row and every edge move to the new URI;  *)
(* the version is not advanced.  The primary keys refuse a target that     *)
(* exists.  A rename of a URI to itself rewrites its rows in place.        *)
Rename(from, to) ==
  /\ TenantOf[from] = TenantOf[to]
  /\ entries[from] # NULL
  /\ to # from => entries[to] = NULL /\ versions[to] = NoRows
  /\ entries' = [entries EXCEPT ![from] = NULL, ![to] = Moved(entries[from], to)]
  /\ versions' = [versions EXCEPT
                    ![from] = NoRows,
                    ![to] = [v \in 1..MaxVersion |-> Moved(versions[from][v], to)]]
  /\ relations' = (relations \ Touching(from))
                    \cup {Redirect(r, from, to) : r \in Touching(from)}
  /\ BumpIf(Touching(from) # {}, TenantOf[from])
  /\ Enqueue(<<RenameRow(from, Moved(entries[from], to))>>)

AddEdge(from, to, kind) ==
  /\ <<from, to, kind>> \notin relations
  /\ relations' = relations \cup {<<from, to, kind>>}
  /\ BumpIf(TRUE, TenantOf[from])
  /\ UNCHANGED <<entries, versions, outbox>>

(* Fault: the removed edges leave the revision as it was. *)
RemoveEdgeSilently(from, to) ==
  LET gone == {r \in relations : r[1] = from /\ r[2] = to} IN
  /\ gone # {}
  /\ relations' = relations \ gone
  /\ UNCHANGED <<entries, versions, outbox, revision>>

(* remove_edge names no kind: every edge between the two URIs goes. *)
RemoveEdge(from, to) ==
  LET gone == {r \in relations : r[1] = from /\ r[2] = to} IN
  /\ gone # {}
  /\ relations' = relations \ gone
  /\ BumpIf(TRUE, TenantOf[from])
  /\ UNCHANGED <<entries, versions, outbox>>

-----------------------------------------------------------------------------
StoreInit ==
  /\ entries = [u \in Uris |-> NULL]
  /\ versions = [u \in Uris |-> NoRows]
  /\ relations = {}
  /\ revision = [t \in Tenants |-> 0]
  /\ outbox = <<>>

Batches(n) == UNION {[1..k -> Item] : k \in 0..n}

ContentNext ==
  \/ \E u \in Uris, in \in Input : Write(u, in)
  \/ \E u \in Uris, v \in 1..MaxVersion : Rollback(u, v)
  \/ \E u \in Uris : Delete(u)
  \/ \E from, to \in Uris : Rename(from, to)

BatchNext ==
  \E head \in Batches(MaxBatch) :
    \E tail \in Batches(MaxBatch - Len(head)) : BatchWrite(head, tail)

GraphNext ==
  \/ \E from, to \in Uris, kind \in Kinds : AddEdge(from, to, kind)
  \/ \E from, to \in Uris : RemoveEdge(from, to)

StoreNext == ContentNext \/ BatchNext \/ GraphNext

StoreSpec == StoreInit /\ [][StoreNext]_storeVars

-----------------------------------------------------------------------------
(* The history of a URI is complete: the rows of context_versions are      *)
(* exactly the versions 1 .. mvcc_version of the current row, each filed   *)
(* under its own URI and version, and the newest equals the current row.   *)
(* A URI without a current row has no history.                             *)
HistoryIn(u, entry, rows) ==
  IF entry = NULL
  THEN rows = NoRows
  ELSE /\ entry.uri = u
       /\ rows[entry.ver] = entry
       /\ \A v \in 1..MaxVersion :
            /\ rows[v] # NULL <=> v <= entry.ver
            /\ rows[v] # NULL => rows[v].ver = v /\ rows[v].uri = u

HistoryOf(u) == HistoryIn(u, entries[u], versions[u])

HistoryComplete == \A u \in Uris : HistoryOf(u)

(* A transaction never edits what a history row says: a row is added,      *)
(* dropped with its entry, or carried by rename to another URI under the   *)
(* same version.  rollback and batch_write write new rows instead.         *)
SameContent(s, t) == s.body = t.body /\ s.coll = t.coll /\ s.emb = t.emb

HistoryImmutable ==
  [][\A u \in Uris, v \in 1..MaxVersion :
       versions[u][v] # NULL =>
         \/ entries'[u] = NULL
         \/ /\ versions'[u][v] # NULL
            /\ SameContent(versions[u][v], versions'[u][v])]_storeVars

(* The batch writer's closed-form numbering gives what writing the entries *)
(* one by one would give, whatever the chunk limits cut: same current      *)
(* rows, same history, same outbox rows in the same order.                 *)
BatchIsSequential ==
  \A head \in Batches(MaxBatch) \ {<<>>} : \A tail \in Batches(MaxBatch - Len(head)) :
    LET all == head \o tail
        ones == FoldLeft(LAMBDA t, item : WriteChunk(t, <<item>>), Tables, all)
    IN  ChunkFits(Tables, all)
          => WriteChunk(WriteChunk(Tables, head), tail) = ones

(* The vector index as VectorIndex's callers see it: a collection holds at *)
(* most one point per URI; upsert replaces it and delete of an absent      *)
(* point is no error.                                                      *)
NoPoints == [c \in Collections |-> [u \in Uris |-> NULL]]

Point(s) == [body |-> s.body, ver |-> s.ver]

PutPoint(index, row) ==
  [index EXCEPT ![row.coll][row.target] = [body |-> row.body, ver |-> row.pver]]

DropPoint(index, row) == [index EXCEPT ![row.coll][row.from] = NULL]

(* outbox::apply: the index calls of one row; a rename deletes the old URI *)
(* first.                                                                  *)
ApplyRow(index, row) ==
  LET dropped == IF row.op = "upsert" THEN index ELSE DropPoint(index, row)
  IN  IF row.point THEN PutPoint(dropped, row) ELSE dropped

Replay == FoldLeft(ApplyRow, NoPoints, outbox)

(* The index is a projection of the content: replaying the outbox rows in  *)
(* the order they were enqueued gives every embedded current entry its     *)
(* point and leaves no point for a URI that no longer exists.              *)
ReplayMirrorsEntries ==
  /\ \A u \in Uris :
       entries[u] # NULL /\ entries[u].emb
         => Replay[entries[u].coll][u] = Point(entries[u])
  /\ \A u \in Uris, c \in Collections : entries[u] = NULL => Replay[c][u] = NULL

(* Whatever changes the edges among the URIs of one tenant advances that   *)
(* tenant's graph revision: centrality scores are cached per revision.     *)
EdgesWithin(t, rs) ==
  {r \in rs : TenantOf[r[1]] = t /\ TenantOf[r[2]] = t}

RevisionCoversEdges ==
  [][\A t \in Tenants :
       EdgesWithin(t, relations') # EdgesWithin(t, relations)
         => revision'[t] > revision[t]]_storeVars
=============================================================================
