-------------------------- MODULE CachedStoreProofs --------------------------
(* Why clients that lock too little leave the books of a content store in    *)
(* order, and why its read cache follows it, for any number of URIs, clients, *)
(* versions and transactions.  A batch that has locked a row finds it as it   *)
(* read it; what it found missing, and what a rename or a rollback read, may  *)
(* have changed, and the primary key of the history decides.  What is out of  *)
(* step then is what mixed and late name, and serial transactions never are.  *)
EXTENDS CachedStore, TLAPS

Texts == 1..MaxBegun
Stamps == 1..MaxBegun

Row == [ver : Numbers, columns : Texts, json : Texts]
Versions == [Numbers -> Texts \cup {NULL}]
LastPoint == [at : 0..MaxBegun, text : Texts \cup {NULL}]

\* What a client is in the middle of, with what it has read.
Begun == [op : {"begun"}, at : Stamps]
Renaming == [op : {"rename"}, at : Stamps, uri : StoreUris, to : StoreUris, text : Texts, old : BOOLEAN]
RollingBack == [op : {"rollback"}, at : Stamps, uri : StoreUris, text : Texts]
Batching == [op : {"batch"}, at : Stamps, uris : SUBSET StoreUris,
             base : UNION {[D -> Numbers] : D \in SUBSET StoreUris}]
Filling == [op : {"fill"}, uri : StoreUris, old : BOOLEAN, text : Texts \cup {Missing}]
Invalidating == [op : {"invalidate"}, uris : SUBSET StoreUris]

Operation == {Idle} \cup Begun \cup Renaming \cup RollingBack \cup Batching \cup Filling \cup Invalidating

StoreTyped ==
  /\ current \in [StoreUris -> Row \cup {NULL}]
  /\ history \in [StoreUris -> Versions]
  /\ points \in [StoreUris -> LastPoint]
  /\ cached \in [StoreUris -> Texts \cup {Missing, NULL}]
  /\ clients \in [StoreClients -> Operation]
  /\ clock \in 0..MaxBegun

Ver(row) == IF row = NULL THEN 0 ELSE row.ver
Point(row) == IF row = NULL THEN NULL ELSE row.json
Shown(row) == IF row = NULL THEN Missing ELSE row.columns

\* A row and the history of its URI: no gap, and the newest version is shown.
Numbered(row, versions) ==
  /\ \A v \in Numbers : versions[v] # NULL <=> v <= Ver(row)
  /\ row # NULL => row.columns = versions[row.ver]

AllNumbered == \A u \in StoreUris : Numbered(current[u], history[u])
JsonFollows == \A u \in StoreUris : current[u] # NULL => u \in mixed \/ current[u].json = current[u].columns
PointsFollow == \A u \in StoreUris : u \in late \/ points[u].text = Point(current[u])

\* A row that a batch has locked is as the batch has read it.
LocksHold ==
  \A c \in StoreClients : clients[c].op = "batch" =>
    \A u \in DOMAIN clients[c].base : current[u] # NULL /\ clients[c].base[u] = current[u].ver

\* A reader and a rename know what the table has unless a commit came in between.
ReadersFollow ==
  \A c \in StoreClients :
    /\ clients[c].op = "fill" /\ ~clients[c].old => clients[c].text = Shown(current[clients[c].uri])
    /\ clients[c].op = "rename" /\ ~clients[c].old => clients[c].text = Point(current[clients[c].uri])

\* Stamps grow, and where transactions are serial the open one has the newest.
StampsGrow ==
  /\ \A u \in StoreUris : points[u].at <= clock
  /\ \A c \in StoreClients : InTransaction(c) => clients[c].at <= clock

Serial ==
  backend = "sqlite" =>
    /\ late = {} /\ mixed = {}
    /\ \A c, d \in StoreClients : InTransaction(c) /\ InTransaction(d) => c = d
    /\ \A c \in StoreClients : InTransaction(c) =>
         /\ \A u \in StoreUris : points[u].at < clients[c].at
         /\ clients[c].op = "rename" => ~clients[c].old

CachedStoreInv ==
  /\ StoreTyped
  /\ AllNumbered /\ JsonFollows /\ PointsFollow
  /\ LocksHold /\ ReadersFollow
  /\ StampsGrow /\ Serial
  /\ CacheFollowsStore

-----------------------------------------------------------------------------

LEMMA NullFacts == NULL \notin Texts /\ NULL # Missing /\ NULL \notin Row /\ Missing \notin Texts
BY CachedStoreAssumption DEF Texts, Row, Numbers, Missing

LEMMA EntryRow ==
  ASSUME NEW v \in Numbers, NEW columns \in Texts, NEW json \in Texts
  PROVE  /\ Entry(v, columns, json) \in Row /\ Entry(v, columns, json) # NULL
         /\ Entry(v, columns, json).ver = v
         /\ Entry(v, columns, json).columns = columns /\ Entry(v, columns, json).json = json
BY NullFacts DEF Entry, Row

\* What the operation of a client tells of its record.
LEMMA OperationIs ==
  ASSUME NEW q \in Operation
  PROVE  /\ q.op = "begun" => q \in Begun
         /\ q.op = "rename" => q \in Renaming
         /\ q.op = "rollback" => q \in RollingBack
         /\ q.op = "batch" => q \in Batching
         /\ q.op = "fill" => q \in Filling
         /\ q.op = "invalidate" => q \in Invalidating
BY DEF Operation, Idle, Begun, Renaming, RollingBack, Batching, Filling, Invalidating

LEMMA InTransactionStamp ==
  ASSUME StoreTyped, NEW c \in StoreClients, InTransaction(c)
  PROVE  clients[c].at \in Stamps /\ clients[c].op \notin {"idle", "fill", "invalidate"}
<1>1. clients[c] \in Begun \cup Renaming \cup RollingBack \cup Batching
  BY OperationIs DEF StoreTyped, InTransaction
<1> QED
  BY <1>1 DEF Begun, Renaming, RollingBack, Batching

\* No versions for no row; the version after the newest becomes the newest.
LEMMA NothingNumbered == NoHistory \in Versions /\ Numbered(NULL, NoHistory)
<1>1. NoHistory \in Versions /\ \A v \in Numbers : NoHistory[v] = NULL
  BY DEF NoHistory, Versions
<1>2. Ver(NULL) = 0 /\ \A v \in Numbers : ~(v <= 0)
  BY DEF Ver, Numbers
<1> QED
  BY <1>1, <1>2 DEF Numbered

LEMMA NextNumbered ==
  ASSUME NEW row \in Row \cup {NULL}, NEW versions \in Versions, Numbered(row, versions),
         NEW v \in Numbers, v = Ver(row) + 1, NEW text \in Texts
  PROVE  /\ [versions EXCEPT ![v] = text] \in Versions
         /\ Numbered(Entry(v, text, text), [versions EXCEPT ![v] = text])
<1>1. PICK next, after : next = Entry(v, text, text) /\ after = [versions EXCEPT ![v] = text]
  OBVIOUS
<1>2. next # NULL /\ next.ver = v /\ next.columns = text
  BY <1>1, EntryRow
<1>3. after \in Versions /\ \A x \in Numbers : after[x] = IF x = v THEN text ELSE versions[x]
  BY <1>1 DEF Versions
<1>4. Ver(next) = v /\ Ver(row) \in Int
  BY <1>2 DEF Ver, Row, Numbers
<1>5. ASSUME NEW x \in Numbers PROVE after[x] # NULL <=> x <= v
  <2>1. text # NULL /\ x \in Int /\ v \in Int
    BY NullFacts DEF Numbers
  <2>2. versions[x] # NULL <=> x <= Ver(row)
    BY DEF Numbered
  <2> QED
    BY <1>3, <1>4, <2>1, <2>2
<1> QED
  BY <1>1, <1>2, <1>3, <1>4, <1>5 DEF Numbered

LEMMA InitCached == CachedStoreInit => CachedStoreInv
<1> SUFFICES ASSUME CachedStoreInit PROVE CachedStoreInv
  OBVIOUS
<1>1. Idle \in Operation /\ Idle.op = "idle"
  BY DEF Operation, Idle
<1>2. \A c \in StoreClients : clients[c] = Idle /\ ~InTransaction(c)
  BY <1>1 DEF CachedStoreInit, InTransaction
<1>3. StoreTyped
  BY <1>1, NothingNumbered, CachedStoreAssumption DEF CachedStoreInit, StoreTyped, LastPoint
<1>4. AllNumbered /\ JsonFollows /\ PointsFollow
  BY NothingNumbered DEF CachedStoreInit, AllNumbered, JsonFollows, PointsFollow, Point
<1>5. LocksHold /\ ReadersFollow /\ CacheFollowsStore
  BY <1>1, <1>2 DEF CachedStoreInit, LocksHold, ReadersFollow, CacheFollowsStore
<1>6. StampsGrow /\ Serial
  BY <1>2 DEF CachedStoreInit, StampsGrow, Serial
<1> QED
  BY <1>3, <1>4, <1>5, <1>6 DEF CachedStoreInv

-----------------------------------------------------------------------------

\* What a commit makes of the record of another client, and of its own.
AfterCommit(d, c, U) ==
  IF d = c THEN [op |-> "invalidate", uris |-> U]
  ELSE IF clients[d].op \in {"fill", "rename"} /\ clients[d].uri \in U THEN [clients[d] EXCEPT !.old = TRUE]
  ELSE clients[d]

LEMMA CommitRecords ==
  ASSUME StoreTyped, NEW c \in StoreClients, NEW U \in SUBSET StoreUris, NEW d \in StoreClients
  PROVE  /\ AfterCommit(d, c, U) \in Operation
         /\ d = c => AfterCommit(d, c, U).op = "invalidate" /\ AfterCommit(d, c, U).uris = U
         /\ d # c => AfterCommit(d, c, U).op = clients[d].op
         /\ d # c /\ clients[d].op \notin {"fill", "rename"} => AfterCommit(d, c, U) = clients[d]
         /\ d # c /\ clients[d].op \in {"fill", "rename"} /\ ~AfterCommit(d, c, U).old =>
              AfterCommit(d, c, U) = clients[d] /\ clients[d].uri \notin U
         /\ d # c /\ InTransaction(d) => AfterCommit(d, c, U).at = clients[d].at
<1>1. clients[d] \in Operation
  BY DEF StoreTyped
<1>2. CASE d = c
  BY <1>2 DEF AfterCommit, Operation, Invalidating
<1>3. CASE d # c /\ clients[d].op = "fill" /\ clients[d].uri \in U
  <2>1. clients[d] \in Filling
    BY <1>1, <1>3, OperationIs
  <2>2. [clients[d] EXCEPT !.old = TRUE] \in Filling /\ [clients[d] EXCEPT !.old = TRUE].old
        /\ [clients[d] EXCEPT !.old = TRUE].op = "fill"
    BY <2>1 DEF Filling
  <2>3. ~InTransaction(d)
    BY <1>3 DEF InTransaction
  <2> QED
    BY <1>3, <2>2, <2>3 DEF AfterCommit, Operation
<1>4. CASE d # c /\ clients[d].op = "rename" /\ clients[d].uri \in U
  <2>1. clients[d] \in Renaming
    BY <1>1, <1>4, OperationIs
  <2>2. [clients[d] EXCEPT !.old = TRUE] \in Renaming /\ [clients[d] EXCEPT !.old = TRUE].old
        /\ [clients[d] EXCEPT !.old = TRUE].op = "rename" /\ [clients[d] EXCEPT !.old = TRUE].at = clients[d].at
    BY <2>1 DEF Renaming
  <2> QED
    BY <1>4, <2>2 DEF AfterCommit, Operation
<1>5. CASE d # c /\ ~(clients[d].op \in {"fill", "rename"} /\ clients[d].uri \in U)
  BY <1>1, <1>5 DEF AfterCommit
<1> QED
  BY <1>2, <1>3, <1>4, <1>5

\* A commit keeps the invariant when it names every row it changes, enqueues the
\* point of each, and the rows it leaves are numbered.
LEMMA CommitKeeps ==
  ASSUME CachedStoreInv, NEW c \in StoreClients, InTransaction(c), NEW U \in SUBSET StoreUris,
         NEW rows \in [StoreUris -> Row \cup {NULL}], NEW hist \in [StoreUris -> Versions],
         NEW mutation \in [U -> Texts \cup {NULL}],
         Commits(c, U, rows, hist, mutation),
         \A u \in U : Numbered(rows[u], hist[u]) /\ mutation[u] = Point(rows[u]),
         \A u \in StoreUris \ U : rows[u] = current[u] /\ hist[u] = history[u] /\ (u \in mixed => u \in mixed'),
         \A u \in U : rows[u] # NULL => u \in mixed' \/ rows[u].json = rows[u].columns,
         backend = "sqlite" => mixed' = {}
  PROVE  CachedStoreInv'
<1>1. PICK at : at = clients[c].at
  OBVIOUS
<1>2. DOMAIN mutation = U
  OBVIOUS
<1>3. /\ current' = rows /\ history' = hist /\ U \cap Locked(c) = {}
      /\ points' = [u \in StoreUris |-> IF u \in U /\ points[u].at < at
                                        THEN [at |-> at, text |-> mutation[u]] ELSE points[u]]
      /\ late' = (late \ U) \cup {u \in U : points[u].at >= at}
      /\ UNCHANGED <<backend, cached, clock, raced>>
      /\ clients' = [d \in StoreClients |-> AfterCommit(d, c, U)]
  BY <1>1, <1>2 DEF Commits, AfterCommit
<1>4. \A d \in StoreClients : clients'[d] = AfterCommit(d, c, U)
  BY <1>3
<1>5. StoreTyped
  BY DEF CachedStoreInv
<1>6. at \in Stamps /\ at <= clock /\ at \in Nat /\ clock \in Nat /\ \A u \in StoreUris : points[u].at \in Nat
  BY <1>1, <1>5, InTransactionStamp, CachedStoreAssumption
     DEF CachedStoreInv, StampsGrow, StoreTyped, Stamps, LastPoint
<1>7. ASSUME NEW d \in StoreClients, (InTransaction(d))'
      PROVE  d # c /\ InTransaction(d) /\ clients'[d].at = clients[d].at /\ clients'[d].op = clients[d].op
  BY <1>4, <1>5, <1>7, CommitRecords DEF InTransaction
<1>8. StoreTyped'
  <2>1. points' \in [StoreUris -> LastPoint]
    <3>1. \A u \in U : [at |-> at, text |-> mutation[u]] \in LastPoint
      BY <1>6, CachedStoreAssumption DEF LastPoint, Stamps
    <3> QED
      BY <1>3, <1>5, <3>1 DEF StoreTyped
  <2> QED
    BY <1>3, <1>5, <2>1, CommitRecords DEF StoreTyped
<1>9. AllNumbered' /\ JsonFollows'
  BY <1>3 DEF CachedStoreInv, AllNumbered, JsonFollows
<1>10. PointsFollow'
  <2> SUFFICES ASSUME NEW u \in StoreUris, u \notin late' PROVE points'[u].text = Point(current'[u])
    BY DEF PointsFollow
  <2>1. CASE u \in U
    <3>1. points[u].at < at
      BY <1>3, <1>6, <2>1
    <3>2. points'[u] = [at |-> at, text |-> mutation[u]]
      BY <1>3, <2>1, <3>1
    <3> QED
      BY <1>3, <2>1, <3>2
  <2>2. CASE u \notin U
    BY <1>3, <2>2 DEF CachedStoreInv, PointsFollow
  <2> QED
    BY <2>1, <2>2
<1>11. LocksHold'
  <2> SUFFICES ASSUME NEW d \in StoreClients, clients'[d].op = "batch", NEW u \in DOMAIN clients'[d].base
               PROVE  current'[u] # NULL /\ clients'[d].base[u] = current'[u].ver
    BY DEF LocksHold
  <2>1. d # c /\ clients'[d] = clients[d]
    BY <1>4, <1>5, CommitRecords
  <2>2. u \in Locked(c)
    BY <2>1 DEF Locked
  <2>3. u \in StoreUris
    <3>1. clients[d] \in Batching
      BY <1>5, <2>1, OperationIs DEF StoreTyped
    <3> QED
      BY <2>1, <3>1 DEF Batching
  <2> QED
    BY <1>3, <2>1, <2>2, <2>3 DEF CachedStoreInv, LocksHold
<1>12. ReadersFollow'
  <2> SUFFICES ASSUME NEW d \in StoreClients, clients'[d].op \in {"fill", "rename"}, ~clients'[d].old
               PROVE  /\ clients'[d].op = "fill" => clients'[d].text = Shown(current'[clients'[d].uri])
                      /\ clients'[d].op = "rename" => clients'[d].text = Point(current'[clients'[d].uri])
    BY DEF ReadersFollow
  <2>1. d # c /\ clients[d].op \in {"fill", "rename"}
    BY <1>4, <1>5, CommitRecords
  <2>2. clients'[d] = clients[d] /\ clients[d].uri \notin U
    BY <1>4, <1>5, <2>1, CommitRecords
  <2>3. clients[d].uri \in StoreUris
    <3>1. clients[d] \in Filling \cup Renaming
      BY <1>5, <2>1, OperationIs DEF StoreTyped
    <3> QED
      BY <3>1 DEF Filling, Renaming
  <2> QED
    BY <1>3, <2>1, <2>2, <2>3 DEF CachedStoreInv, ReadersFollow
<1>13. StampsGrow'
  <2>1. \A u \in StoreUris : points'[u].at <= clock
    BY <1>3, <1>6 DEF CachedStoreInv, StampsGrow
  <2>2. ASSUME NEW d \in StoreClients, (InTransaction(d))' PROVE clients'[d].at <= clock
    BY <1>7, <2>2 DEF CachedStoreInv, StampsGrow
  <2> QED
    BY <1>3, <2>1, <2>2 DEF StampsGrow
<1>14. Serial'
  <2> SUFFICES ASSUME backend = "sqlite"
               PROVE  late' = {} /\ mixed' = {} /\ \A d \in StoreClients : ~(InTransaction(d))'
    BY <1>3 DEF Serial
  <2>1. late = {} /\ \A u \in StoreUris : points[u].at < at
    BY <1>1 DEF CachedStoreInv, Serial
  <2>2. late' = {}
    BY <1>3, <1>6, <2>1
  <2>3. ASSUME NEW d \in StoreClients, (InTransaction(d))' PROVE FALSE
    BY <1>7, <2>3 DEF CachedStoreInv, Serial
  <2> QED
    BY <2>2, <2>3
<1>15. CacheFollowsStore'
  <2> SUFFICES ASSUME NEW u \in StoreUris, cached'[u] # NULL, u \notin raced',
                      \A d \in StoreClients : ~(clients'[d].op = "invalidate" /\ u \in clients'[d].uris)
               PROVE  cached'[u] = IF current'[u] = NULL THEN Missing ELSE current'[u].columns
    BY DEF CacheFollowsStore
  <2>1. u \notin U
    BY <1>4, <1>5, CommitRecords
  <2>2. ASSUME NEW d \in StoreClients PROVE ~(clients[d].op = "invalidate" /\ u \in clients[d].uris)
    <3>1. CASE d = c
      BY <1>5, <3>1, InTransactionStamp
    <3>2. CASE d # c
      BY <1>4, <1>5, <3>2, CommitRecords
    <3> QED
      BY <3>1, <3>2
  <2> QED
    BY <1>3, <2>1, <2>2 DEF CachedStoreInv, CacheFollowsStore
<1> QED
  BY <1>8, <1>9, <1>10, <1>11, <1>12, <1>13, <1>14, <1>15 DEF CachedStoreInv

\* write_in_tx under a free lock.
LEMMA StoresKeeps ==
  ASSUME CachedStoreInv, NEW c \in StoreClients, NEW u \in StoreUris, NEW text \in Texts,
         InTransaction(c), Stores(c, u, text)
  PROVE  CachedStoreInv'
<1>1. PICK v : v = Base(u) + 1
  OBVIOUS
<1>2. v \in Numbers /\ v = Ver(current[u]) + 1
  BY <1>1, CachedStoreAssumption DEF Stores, Base, Ver, CachedStoreInv, StoreTyped, Row, Numbers
<1>3. PICK rows, hist, mutation :
        /\ rows = [current EXCEPT ![u] = Entry(v, text, text)]
        /\ hist = [history EXCEPT ![u][v] = text]
        /\ mutation = [w \in {u} |-> text]
  OBVIOUS
<1>4. /\ current[u] \in Row \cup {NULL} /\ history[u] \in Versions /\ Numbered(current[u], history[u])
      /\ current \in [StoreUris -> Row \cup {NULL}] /\ history \in [StoreUris -> Versions]
  BY DEF CachedStoreInv, StoreTyped, AllNumbered
<1>5. /\ [history[u] EXCEPT ![v] = text] \in Versions
      /\ Numbered(Entry(v, text, text), [history[u] EXCEPT ![v] = text])
  BY <1>2, <1>4, NextNumbered
<1>6. /\ Entry(v, text, text) \in Row /\ Entry(v, text, text) # NULL
      /\ Entry(v, text, text).columns = text /\ Entry(v, text, text).json = text
  BY <1>2, EntryRow
<1>7. /\ rows \in [StoreUris -> Row \cup {NULL}] /\ hist \in [StoreUris -> Versions]
      /\ mutation \in [{u} -> Texts \cup {NULL}]
      /\ rows[u] = Entry(v, text, text) /\ hist[u] = [history[u] EXCEPT ![v] = text] /\ mutation[u] = text
      /\ \A w \in StoreUris \ {u} : rows[w] = current[w] /\ hist[w] = history[w]
  BY <1>3, <1>4, <1>5, <1>6
<1>8. PICK U \in SUBSET StoreUris : U = {u}
  OBVIOUS
<1>9. mutation \in [U -> Texts \cup {NULL}] /\ \A w \in StoreUris \ U : rows[w] = current[w] /\ hist[w] = history[w]
  BY <1>7, <1>8
<1>10. Commits(c, U, rows, hist, mutation)
  BY <1>1, <1>3, <1>8 DEF Stores
<1>11. /\ \A w \in U : Numbered(rows[w], hist[w]) /\ mutation[w] = Point(rows[w])
       /\ \A w \in U : rows[w] # NULL => w \in mixed' \/ rows[w].json = rows[w].columns
  BY <1>5, <1>6, <1>7, <1>8 DEF Point
<1>12. (\A w \in StoreUris \ U : w \in mixed => w \in mixed') /\ (backend = "sqlite" => mixed' = {})
  BY <1>8 DEF Stores, CachedStoreInv, Serial
<1>13. rows \in [StoreUris -> Row \cup {NULL}] /\ hist \in [StoreUris -> Versions]
  BY <1>7
<1> QED
  BY <1>9, <1>10, <1>11, <1>12, <1>13, CommitKeeps

\* write, and the second half of rollback.
LEMMA WriteStep ==
  ASSUME CachedStoreInv, NEW c \in StoreClients,
         (\E u \in StoreUris : PgWrite(c, u)) \/ PgRollback(c)
  PROVE  CachedStoreInv'
<1>1. ASSUME NEW u \in StoreUris, PgWrite(c, u) PROVE CachedStoreInv'
  <2>1. InTransaction(c) /\ clients[c].at \in Texts
    BY <1>1, InTransactionStamp DEF PgWrite, InTransaction, CachedStoreInv, Stamps, Texts
  <2> QED
    BY <1>1, <2>1, StoresKeeps DEF PgWrite
<1>2. CASE PgRollback(c)
  <2>1. clients[c] \in RollingBack /\ InTransaction(c)
    BY <1>2, OperationIs DEF PgRollback, CachedStoreInv, StoreTyped, InTransaction
  <2>2. clients[c].uri \in StoreUris /\ clients[c].text \in Texts
    BY <2>1 DEF RollingBack
  <2> QED
    BY <1>2, <2>1, <2>2, StoresKeeps DEF PgRollback
<1> QED
  BY <1>1, <1>2

LEMMA DeleteStep ==
  ASSUME CachedStoreInv, NEW c \in StoreClients, NEW u \in StoreUris, PgDelete(c, u)
  PROVE  CachedStoreInv'
<1>1. PICK rows, hist, mutation :
        /\ rows = [current EXCEPT ![u] = NULL]
        /\ hist = [history EXCEPT ![u] = NoHistory]
        /\ mutation = [w \in {u} |-> NULL]
  OBVIOUS
<1>2. /\ rows \in [StoreUris -> Row \cup {NULL}] /\ hist \in [StoreUris -> Versions]
      /\ mutation \in [{u} -> Texts \cup {NULL}]
      /\ rows[u] = NULL /\ hist[u] = NoHistory /\ mutation[u] = NULL
      /\ \A w \in StoreUris \ {u} : rows[w] = current[w] /\ hist[w] = history[w]
  BY <1>1, NothingNumbered DEF CachedStoreInv, StoreTyped
<1>3. PICK U \in SUBSET StoreUris : U = {u}
  OBVIOUS
<1>4. mutation \in [U -> Texts \cup {NULL}] /\ \A w \in StoreUris \ U : rows[w] = current[w] /\ hist[w] = history[w]
  BY <1>2, <1>3
<1>5. InTransaction(c) /\ Commits(c, U, rows, hist, mutation)
  BY <1>1, <1>3 DEF PgDelete, InTransaction
<1>6. \A w \in U : Numbered(rows[w], hist[w]) /\ mutation[w] = Point(rows[w]) /\ rows[w] = NULL
  BY <1>2, <1>3, NothingNumbered DEF Point
<1>7. (\A w \in StoreUris \ U : w \in mixed => w \in mixed') /\ (backend = "sqlite" => mixed' = {})
  BY <1>3 DEF PgDelete, CachedStoreInv, Serial
<1>8. rows \in [StoreUris -> Row \cup {NULL}] /\ hist \in [StoreUris -> Versions]
  BY <1>2
<1> QED
  BY <1>4, <1>5, <1>6, <1>7, <1>8, CommitKeeps

\* The row moves with its version, its columns and its history.  The JSON it gets
\* is that of the columns if nothing has come between the read and the update.
LEMMA RenameStep ==
  ASSUME CachedStoreInv, NEW c \in StoreClients, PgRename(c)
  PROVE  CachedStoreInv'
<1>1. clients[c] \in Renaming /\ InTransaction(c)
  BY OperationIs DEF PgRename, CachedStoreInv, StoreTyped, InTransaction
<1>2. PICK from \in StoreUris, to \in StoreUris, text \in Texts :
        from = clients[c].uri /\ to = clients[c].to /\ text = clients[c].text
  BY <1>1 DEF Renaming
<1>3. current[from] # NULL /\ current[from] \in Row
  BY <1>2 DEF PgRename, CachedStoreInv, StoreTyped
<1>4. PICK row : row = Entry(current[from].ver, current[from].columns, text)
  OBVIOUS
<1>5. /\ row \in Row /\ row # NULL /\ row.ver = current[from].ver
      /\ row.columns = current[from].columns /\ row.json = text
  <2>1. current[from].ver \in Numbers /\ current[from].columns \in Texts
    BY <1>3 DEF Row
  <2> QED
    BY <1>4, <2>1, EntryRow
<1>6. PICK rows, hist, mutation :
        /\ rows = [current EXCEPT ![from] = NULL, ![to] = row]
        /\ hist = [history EXCEPT ![from] = NoHistory, ![to] = history[from]]
        /\ mutation = [w \in {from, to} |-> IF w = to THEN text ELSE NULL]
  OBVIOUS
<1>7. /\ rows \in [StoreUris -> Row \cup {NULL}] /\ hist \in [StoreUris -> Versions]
      /\ mutation \in [{from, to} -> Texts \cup {NULL}]
  BY <1>5, <1>6, NothingNumbered DEF CachedStoreInv, StoreTyped
<1>8. /\ rows[to] = row /\ (from # to => rows[from] = NULL)
      /\ hist[to] = history[from] /\ (from # to => hist[from] = NoHistory)
      /\ mutation[to] = text /\ (from # to => mutation[from] = NULL)
      /\ \A w \in StoreUris \ {from, to} : rows[w] = current[w] /\ hist[w] = history[w]
  BY <1>6 DEF CachedStoreInv, StoreTyped
<1>9. Commits(c, {from, to}, rows, hist, mutation)
  BY <1>2, <1>4, <1>6 DEF PgRename, RenamedUris
<1>10. mixed' = (mixed \ {from, to}) \cup (IF from \in mixed \/ clients[c].old THEN {to} ELSE {})
  BY <1>2 DEF PgRename
<1>11. backend = "sqlite" => mixed' = {}
  BY <1>1, <1>10 DEF PgRename, CachedStoreInv, Serial
<1>12. Numbered(row, history[from])
  <2>1. Numbered(current[from], history[from])
    BY DEF CachedStoreInv, AllNumbered
  <2> QED
    BY <1>3, <1>5, <2>1 DEF Numbered, Ver
<1>13. to \in mixed' \/ row.json = row.columns
  <2> SUFFICES ASSUME from \notin mixed, ~clients[c].old PROVE row.json = row.columns
    BY <1>10
  <2>1. text = Point(current[from])
    BY <1>2 DEF PgRename, CachedStoreInv, ReadersFollow
  <2>2. current[from].json = current[from].columns
    BY <1>3 DEF CachedStoreInv, JsonFollows
  <2> QED
    BY <1>3, <1>5, <2>1, <2>2 DEF Point
<1>14. \A w \in {from, to} : /\ Numbered(rows[w], hist[w]) /\ mutation[w] = Point(rows[w])
                             /\ rows[w] # NULL => w \in mixed' \/ rows[w].json = rows[w].columns
  BY <1>5, <1>8, <1>12, <1>13, NothingNumbered DEF Point
<1>15. \A w \in StoreUris \ {from, to} : w \in mixed => w \in mixed'
  BY <1>10
<1> QED
  BY <1>1, <1>7, <1>8, <1>9, <1>11, <1>14, <1>15, CommitKeeps

\* A row that the batch has locked is as it read it, so the next version is
\* free; what it found missing is still missing if version 1 of it is free.
LEMMA BatchStep ==
  ASSUME CachedStoreInv, NEW c \in StoreClients, PgBatch(c)
  PROVE  CachedStoreInv'
<1>1. clients[c] \in Batching /\ InTransaction(c)
  BY OperationIs DEF PgBatch, CachedStoreInv, StoreTyped, InTransaction
<1>2. PICK U \in SUBSET StoreUris, text \in Texts : U = clients[c].uris /\ text = clients[c].at
  BY <1>1 DEF Batching, Stamps, Texts
<1>3. PICK base, v : base = clients[c].base /\ v = [u \in U |-> (IF u \in DOMAIN base THEN base[u] ELSE 0) + 1]
  OBVIOUS
<1>4. \A u \in U : v[u] <= MaxStored /\ history[u][v[u]] = NULL
  BY <1>2, <1>3 DEF PgBatch, HistoryRefuses
<1>5. \A u \in StoreUris : Ver(current[u]) \in Nat /\ Numbered(current[u], history[u])
                           /\ current[u] \in Row \cup {NULL} /\ history[u] \in Versions
  BY DEF Ver, CachedStoreInv, StoreTyped, AllNumbered, Row, Numbers
<1>6. ASSUME NEW u \in U PROVE v[u] \in Numbers /\ v[u] = Ver(current[u]) + 1
  <2>1. CASE u \in DOMAIN base
    <3>1. base[u] = Ver(current[u])
      BY <1>3, <2>1 DEF PgBatch, CachedStoreInv, LocksHold, Ver
    <3>2. v[u] = Ver(current[u]) + 1
      BY <1>3, <2>1, <3>1
    <3> QED
      BY <1>4, <1>5, <3>2, CachedStoreAssumption DEF Numbers
  <2>2. CASE u \notin DOMAIN base
    <3>1. v[u] = 1 /\ v[u] \in Numbers
      BY <1>3, <1>4, <2>2, CachedStoreAssumption DEF Numbers
    <3>2. ~(1 <= Ver(current[u]))
      BY <1>4, <1>5, <3>1 DEF Numbered
    <3> QED
      BY <1>5, <3>1, <3>2
  <2> QED
    BY <2>1, <2>2
<1>7. ASSUME NEW u \in U
      PROVE  /\ [history[u] EXCEPT ![v[u]] = text] \in Versions
             /\ Numbered(Entry(v[u], text, text), [history[u] EXCEPT ![v[u]] = text])
             /\ Entry(v[u], text, text) \in Row /\ Entry(v[u], text, text) # NULL
             /\ Entry(v[u], text, text).columns = text /\ Entry(v[u], text, text).json = text
  <2>1. v[u] \in Numbers /\ v[u] = Ver(current[u]) + 1
    BY <1>6
  <2>2. /\ current[u] \in Row \cup {NULL} /\ history[u] \in Versions /\ Numbered(current[u], history[u])
    BY <1>5
  <2> QED
    BY <2>1, <2>2, NextNumbered, EntryRow
<1>8. PICK rows, hist, mutation :
        /\ rows = [u \in StoreUris |-> IF u \in U THEN Entry(v[u], text, text) ELSE current[u]]
        /\ hist = [u \in StoreUris |-> IF u \in U THEN [history[u] EXCEPT ![v[u]] = text] ELSE history[u]]
        /\ mutation = [u \in U |-> text]
  OBVIOUS
<1>9. /\ rows \in [StoreUris -> Row \cup {NULL}] /\ hist \in [StoreUris -> Versions]
      /\ mutation \in [U -> Texts \cup {NULL}]
  BY <1>5, <1>7, <1>8
<1>10. Commits(c, U, rows, hist, mutation) /\ mixed' = mixed \ U
  BY <1>2, <1>3, <1>8 DEF PgBatch
<1>11. \A u \in U : Numbered(rows[u], hist[u]) /\ mutation[u] = Point(rows[u]) /\ rows[u].json = rows[u].columns
  BY <1>7, <1>8 DEF Point
<1>12. \A u \in StoreUris \ U : rows[u] = current[u] /\ hist[u] = history[u] /\ (u \in mixed => u \in mixed')
  BY <1>8, <1>10
<1>13. backend = "sqlite" => mixed' = {}
  BY <1>10 DEF CachedStoreInv, Serial
<1> QED
  BY <1>1, <1>9, <1>10, <1>11, <1>12, <1>13, CommitKeeps

-----------------------------------------------------------------------------

\* c takes another record; the tables and the cache stay.
LEMMA RecordMoves ==
  ASSUME CachedStoreInv, NEW c \in StoreClients, NEW q \in Operation, Turns(c, q),
         clients[c].op # "invalidate",
         clock' \in 0..MaxBegun, clock <= clock',
         q.op = "batch" => \A u \in DOMAIN q.base : current[u] # NULL /\ q.base[u] = current[u].ver,
         q.op = "fill" => q.text = Shown(current[q.uri]),
         q.op = "rename" => q.text = Point(current[q.uri]) /\ ~q.old,
         q.op \in {"begun", "rename", "rollback", "batch"} =>
           /\ q.at <= clock'
           /\ backend = "sqlite" =>
                /\ \A d \in StoreClients \ {c} : ~InTransaction(d)
                /\ \A u \in StoreUris : points[u].at < q.at
  PROVE  CachedStoreInv'
<1>1. /\ \A d \in StoreClients : clients'[d] = IF d = c THEN q ELSE clients[d]
      /\ UNCHANGED <<backend, current, history, points, late, mixed, cached, raced>>
  BY DEF CachedStoreInv, StoreTyped, Turns, tables
<1>2. StoreTyped'
  BY <1>1 DEF CachedStoreInv, StoreTyped, Turns
<1>3. AllNumbered' /\ JsonFollows' /\ PointsFollow'
  BY <1>1 DEF CachedStoreInv, AllNumbered, JsonFollows, PointsFollow
<1>4. LocksHold'
  BY <1>1 DEF CachedStoreInv, LocksHold
<1>5. ReadersFollow'
  BY <1>1 DEF CachedStoreInv, ReadersFollow
<1>6. \A d \in StoreClients : (InTransaction(d))' => IF d = c THEN q.op \in {"begun", "rename", "rollback", "batch"}
                                                      ELSE InTransaction(d)
  BY <1>1 DEF InTransaction
<1>7. StampsGrow'
  <2>1. clock \in Nat /\ clock' \in Nat /\ \A u \in StoreUris : points[u].at \in Nat
    BY CachedStoreAssumption DEF CachedStoreInv, StoreTyped, LastPoint
  <2>2. ASSUME NEW d \in StoreClients, (InTransaction(d))' PROVE clients'[d].at <= clock'
    <3>1. CASE d = c
      BY <1>1, <1>6, <2>2, <3>1
    <3>2. CASE d # c
      <4>1. InTransaction(d) /\ clients'[d] = clients[d]
        BY <1>1, <1>6, <2>2, <3>2
      <4>2. clients[d].at \in Nat /\ clients[d].at <= clock
        BY <4>1, InTransactionStamp, CachedStoreAssumption DEF CachedStoreInv, StampsGrow, Stamps
      <4> QED
        BY <2>1, <4>1, <4>2
    <3> QED
      BY <3>1, <3>2
  <2>3. \A u \in StoreUris : points'[u].at <= clock'
    BY <1>1, <2>1 DEF CachedStoreInv, StampsGrow
  <2> QED
    BY <2>2, <2>3 DEF StampsGrow
<1>8. Serial'
  BY <1>1, <1>6 DEF CachedStoreInv, Serial
<1>9. CacheFollowsStore'
  BY <1>1 DEF CachedStoreInv, CacheFollowsStore
<1> QED
  BY <1>2, <1>3, <1>4, <1>5, <1>7, <1>8, <1>9 DEF CachedStoreInv

\* What a new stamp is: no other transaction of SQLite is open, and it is the newest.
LEMMA StartsFresh ==
  ASSUME CachedStoreInv, NEW c \in StoreClients, NEW q, Starts(c, q)
  PROVE  /\ clock' = clock + 1 /\ clock' \in 0..MaxBegun /\ clock + 1 \in Stamps /\ clock <= clock'
         /\ clients[c].op # "invalidate" /\ Turns(c, q)
         /\ backend = "sqlite" => \A d \in StoreClients \ {c} : ~InTransaction(d)
         /\ \A u \in StoreUris : points[u].at < clock + 1
<1>1. clock \in Nat /\ \A u \in StoreUris : points[u].at \in Nat
  BY CachedStoreAssumption DEF CachedStoreInv, StoreTyped, LastPoint
<1> QED
  BY <1>1, CachedStoreAssumption DEF Starts, CachedStoreInv, StampsGrow, Stamps

LEMMA StartSteps ==
  ASSUME CachedStoreInv, NEW c \in StoreClients,
         PgBegin(c) \/ \E U \in SUBSET StoreUris \ {{}} : PgBatchRead(c, U)
  PROVE  CachedStoreInv'
<1>1. CASE PgBegin(c)
  <2>1. PICK q : q = [op |-> "begun", at |-> clock + 1]
    OBVIOUS
  <2>2. Starts(c, q)
    BY <1>1, <2>1 DEF PgBegin
  <2>3. q \in Operation /\ q.op = "begun" /\ q.at = clock'
    BY <2>1, <2>2, StartsFresh DEF Operation, Begun
  <2> QED
    BY <2>2, <2>3, StartsFresh, RecordMoves DEF CachedStoreInv, StampsGrow
<1>2. ASSUME NEW U \in SUBSET StoreUris, PgBatchRead(c, U) PROVE CachedStoreInv'
  <2>1. PICK base : base = [u \in {w \in U : current[w] # NULL} |-> Base(u)]
    OBVIOUS
  <2>2. /\ DOMAIN base \in SUBSET StoreUris /\ base \in [DOMAIN base -> Numbers]
        /\ \A u \in DOMAIN base : current[u] # NULL /\ base[u] = current[u].ver
    BY <2>1 DEF Base, CachedStoreInv, StoreTyped, Row
  <2>3. PICK q : q = [op |-> "batch", at |-> clock + 1, uris |-> U, base |-> base]
    OBVIOUS
  <2>4. Starts(c, q)
    BY <1>2, <2>1, <2>3 DEF PgBatchRead
  <2>5. q \in Operation /\ q.op = "batch" /\ q.base = base /\ q.at = clock'
    <3>1. base \in UNION {[D -> Numbers] : D \in SUBSET StoreUris}
      BY <2>2
    <3> QED
      BY <2>3, <2>4, <3>1, StartsFresh DEF Operation, Batching
  <2> QED
    BY <2>2, <2>4, <2>5, StartsFresh, RecordMoves
<1> QED
  BY <1>1, <1>2

\* The operations that read before they lock, and the end of a transaction that fails.
LEMMA ReadSteps ==
  ASSUME CachedStoreInv, NEW c \in StoreClients,
         \/ \E u \in StoreUris : PgRead(c, u) \/ \E v \in Numbers : PgRollbackRead(c, u, v)
         \/ \E from, to \in StoreUris : PgRenameRead(c, from, to)
         \/ Abandon(c)
  PROVE  CachedStoreInv'
<1>a. StoreTyped /\ clock \in 0..MaxBegun /\ clock <= clock
  BY CachedStoreAssumption DEF CachedStoreInv, StoreTyped
<1>b. \A u \in StoreUris : /\ Shown(current[u]) \in Texts \cup {Missing}
                           /\ current[u] # NULL => Point(current[u]) \in Texts
  BY <1>a DEF StoreTyped, Row, Shown, Point
<1>c. ASSUME clients[c].op = "begun"
      PROVE  /\ clients[c].at \in Stamps /\ clients[c].at <= clock
             /\ backend = "sqlite" => /\ \A d \in StoreClients \ {c} : ~InTransaction(d)
                                      /\ \A u \in StoreUris : points[u].at < clients[c].at
  <2>1. InTransaction(c)
    BY <1>c DEF InTransaction
  <2> QED
    BY <1>a, <2>1, InTransactionStamp DEF CachedStoreInv, StampsGrow, Serial
<1>1. ASSUME NEW u \in StoreUris, PgRead(c, u) PROVE CachedStoreInv'
  <2>1. PICK q : q = [op |-> "fill", uri |-> u, old |-> FALSE, text |-> Shown(current[u])]
    OBVIOUS
  <2>2. q \in Operation /\ q.op = "fill" /\ q.uri = u /\ q.text = Shown(current[u])
    <3>1. Shown(current[u]) \in Texts \cup {Missing}
      BY <1>b
    <3> QED
      BY <2>1, <3>1 DEF Operation, Filling
  <2>3. Turns(c, q) /\ clients[c].op # "invalidate" /\ clock' = clock
    BY <1>1, <2>1 DEF PgRead, Shown
  <2> QED
    BY <1>a, <2>2, <2>3, RecordMoves
<1>2. ASSUME NEW u \in StoreUris, NEW v \in Numbers, PgRollbackRead(c, u, v) PROVE CachedStoreInv'
  <2>1. PICK q : q = [op |-> "rollback", at |-> clients[c].at, uri |-> u, text |-> history[u][v]]
    OBVIOUS
  <2>2. Turns(c, q) /\ clients[c].op = "begun" /\ clock' = clock /\ history[u][v] \in Texts
    BY <1>2, <1>a, <2>1 DEF PgRollbackRead, StoreTyped, Versions
  <2>3. q \in Operation /\ q.op = "rollback" /\ q.at = clients[c].at
    BY <1>c, <2>1, <2>2 DEF Operation, RollingBack
  <2> QED
    BY <1>a, <1>c, <2>2, <2>3, RecordMoves
<1>3. ASSUME NEW from \in StoreUris, NEW to \in StoreUris, PgRenameRead(c, from, to) PROVE CachedStoreInv'
  <2>1. PICK q : q = [op |-> "rename", at |-> clients[c].at, uri |-> from, to |-> to,
                      text |-> Point(current[from]), old |-> FALSE]
    OBVIOUS
  <2>2. Turns(c, q) /\ clients[c].op = "begun" /\ clock' = clock /\ Point(current[from]) \in Texts
    BY <1>3, <1>b, <2>1 DEF PgRenameRead, Point
  <2>3. /\ q \in Operation /\ q.op = "rename" /\ q.at = clients[c].at
        /\ q.uri = from /\ q.text = Point(current[from]) /\ ~q.old
    BY <1>c, <2>1, <2>2 DEF Operation, Renaming
  <2> QED
    BY <1>a, <1>c, <2>2, <2>3, RecordMoves
<1>4. CASE Abandon(c)
  <2>1. Idle \in Operation /\ Idle.op = "idle"
    BY DEF Operation, Idle
  <2>2. Turns(c, Idle) /\ clients[c].op # "invalidate" /\ clock' = clock
    BY <1>4 DEF Abandon, InTransaction
  <2> QED
    BY <1>a, <2>1, <2>2, RecordMoves
<1> QED
  BY <1>1, <1>2, <1>3, <1>4

-----------------------------------------------------------------------------

\* The cache loses an entry, or gets what its reader knows.
LEMMA CacheSteps ==
  ASSUME CachedStoreInv,
         \/ \E c \in StoreClients : Invalidate(c) \/ PgFill(c)
         \/ \E u \in StoreUris : Expire(u)
  PROVE  CachedStoreInv'
<1>a. StoreTyped
  BY DEF CachedStoreInv
<1>b. Idle \in Operation /\ Idle.op = "idle"
  BY DEF Operation, Idle
<1>c. ASSUME UNCHANGED tables PROVE AllNumbered' /\ JsonFollows' /\ PointsFollow'
  BY <1>c DEF tables, CachedStoreInv, AllNumbered, JsonFollows, PointsFollow
<1>1. ASSUME NEW c \in StoreClients, NEW q \in Operation, clients' = [clients EXCEPT ![c] = q],
             q.op \in {"idle", "invalidate"}, UNCHANGED <<tables, clock>>
      PROVE  /\ LocksHold' /\ ReadersFollow' /\ StampsGrow' /\ Serial'
             /\ \A d \in StoreClients : clients'[d] = IF d = c THEN q ELSE clients[d]
  <2>1. \A d \in StoreClients : clients'[d] = IF d = c THEN q ELSE clients[d]
    BY <1>1, <1>a DEF StoreTyped
  <2>2. LocksHold' /\ ReadersFollow'
    BY <1>1, <2>1 DEF CachedStoreInv, LocksHold, ReadersFollow, tables
  <2>3. \A d \in StoreClients : (InTransaction(d))' => InTransaction(d) /\ clients'[d] = clients[d]
    BY <1>1, <2>1 DEF InTransaction
  <2> QED
    BY <1>1, <2>1, <2>2, <2>3 DEF CachedStoreInv, StampsGrow, Serial, tables
<1>2. ASSUME NEW c \in StoreClients, Invalidate(c) PROVE CachedStoreInv'
  <2>1. clients[c] \in Invalidating
    BY <1>a, <1>2, OperationIs DEF Invalidate, StoreTyped
  <2>2. PICK u \in clients[c].uris :
          /\ cached' = [cached EXCEPT ![u] = NULL] /\ raced' = raced \ {u}
          /\ clients' = [clients EXCEPT ![c] =
               IF clients[c].uris = {u} THEN Idle ELSE [op |-> "invalidate", uris |-> clients[c].uris \ {u}]]
    BY <1>2 DEF Invalidate
  <2>3. u \in StoreUris
    BY <2>1 DEF Invalidating
  <2>4. PICK q : q = IF clients[c].uris = {u} THEN Idle ELSE [op |-> "invalidate", uris |-> clients[c].uris \ {u}]
    OBVIOUS
  <2>5. /\ q \in Operation /\ q.op \in {"idle", "invalidate"}
        /\ \A w \in clients[c].uris \ {u} : q.op = "invalidate" /\ w \in q.uris
    <3>1. CASE clients[c].uris = {u}
      BY <1>b, <2>4, <3>1
    <3>2. CASE clients[c].uris # {u}
      <4>1. q = [op |-> "invalidate", uris |-> clients[c].uris \ {u}]
        BY <2>4, <3>2
      <4>2. q \in Invalidating /\ q.op = "invalidate" /\ q.uris = clients[c].uris \ {u}
        BY <2>1, <4>1 DEF Invalidating
      <4> QED
        BY <4>2 DEF Operation
    <3> QED
      BY <3>1, <3>2
  <2>6. clients' = [clients EXCEPT ![c] = q] /\ UNCHANGED <<tables, clock>>
    BY <1>2, <2>2, <2>4 DEF Invalidate
  <2>7. StoreTyped'
    BY <1>a, <2>2, <2>3, <2>5, <2>6 DEF StoreTyped, tables
  <2>8. /\ LocksHold' /\ ReadersFollow' /\ StampsGrow' /\ Serial'
        /\ \A d \in StoreClients : clients'[d] = IF d = c THEN q ELSE clients[d]
    BY <1>1, <2>5, <2>6
  <2>9. ASSUME NEW w \in StoreUris
        PROVE  \/ cached'[w] = NULL \/ w \in raced'
               \/ \E d \in StoreClients : clients'[d].op = "invalidate" /\ w \in clients'[d].uris
               \/ cached'[w] = IF current'[w] = NULL THEN Missing ELSE current'[w].columns
    <3>1. CASE w = u
      BY <1>a, <2>2, <2>3, <3>1 DEF StoreTyped
    <3>2. CASE w # u
      <4>1. cached'[w] = cached[w] /\ (w \in raced => w \in raced') /\ current'[w] = current[w]
        BY <1>a, <2>2, <2>3, <2>6, <3>2 DEF StoreTyped, tables
      <4>2. \A d \in StoreClients : clients[d].op = "invalidate" /\ w \in clients[d].uris
              => clients'[d].op = "invalidate" /\ w \in clients'[d].uris
        BY <2>5, <2>8, <3>2
      <4> QED
        BY <4>1, <4>2 DEF CachedStoreInv, CacheFollowsStore
    <3> QED
      BY <3>1, <3>2
  <2> QED
    BY <1>c, <2>6, <2>7, <2>8, <2>9 DEF CachedStoreInv, CacheFollowsStore
<1>3. ASSUME NEW c \in StoreClients, PgFill(c) PROVE CachedStoreInv'
  <2>1. clients[c] \in Filling
    BY <1>a, <1>3, OperationIs DEF PgFill, StoreTyped
  <2>2. PICK u \in StoreUris, text \in Texts \cup {Missing} : u = clients[c].uri /\ text = clients[c].text
    BY <2>1 DEF Filling
  <2>3. /\ cached' = [cached EXCEPT ![u] = text]
        /\ clients[c].old => raced' = raced \cup {u}
        /\ ~clients[c].old => raced' = raced \ {u}
        /\ clients' = [clients EXCEPT ![c] = Idle] /\ UNCHANGED <<tables, clock>>
    BY <1>3, <2>2 DEF PgFill
  <2>4. StoreTyped'
    BY <1>a, <1>b, <2>2, <2>3 DEF StoreTyped, tables
  <2>5. /\ LocksHold' /\ ReadersFollow' /\ StampsGrow' /\ Serial'
        /\ \A d \in StoreClients : clients'[d] = IF d = c THEN Idle ELSE clients[d]
    BY <1>1, <1>b, <2>3
  <2>6. ASSUME NEW w \in StoreUris
        PROVE  \/ cached'[w] = NULL \/ w \in raced'
               \/ \E d \in StoreClients : clients'[d].op = "invalidate" /\ w \in clients'[d].uris
               \/ cached'[w] = IF current'[w] = NULL THEN Missing ELSE current'[w].columns
    <3>1. CASE w = u
      <4>1. CASE clients[c].old
        BY <2>3, <3>1, <4>1
      <4>2. CASE ~clients[c].old
        <5>1. clients[c].op = "fill"
          BY <2>1 DEF Filling
        <5>2. text = Shown(current[u])
          BY <2>2, <4>2, <5>1 DEF CachedStoreInv, ReadersFollow
        <5>3. cached'[u] = text
          BY <1>a, <2>3 DEF StoreTyped
        <5> QED
          BY <2>3, <3>1, <5>2, <5>3 DEF Shown, tables
      <4> QED
        BY <4>1, <4>2
    <3>2. CASE w # u
      <4>1. cached'[w] = cached[w] /\ (w \in raced => w \in raced') /\ current'[w] = current[w]
        BY <1>a, <2>3, <3>2 DEF StoreTyped, tables
      <4>2. clients[c].op # "invalidate"
        BY <2>1 DEF Filling
      <4> QED
        BY <2>5, <4>1, <4>2 DEF CachedStoreInv, CacheFollowsStore
    <3> QED
      BY <3>1, <3>2
  <2> QED
    BY <1>c, <2>3, <2>4, <2>5, <2>6 DEF CachedStoreInv, CacheFollowsStore
<1>4. ASSUME NEW u \in StoreUris, Expire(u) PROVE CachedStoreInv'
  <2>1. cached' = [cached EXCEPT ![u] = NULL] /\ raced' = raced \ {u}
        /\ UNCHANGED <<tables, clients, clock>>
    BY <1>4 DEF Expire
  <2>2. StoreTyped' /\ \A w \in StoreUris : cached'[w] = IF w = u THEN NULL ELSE cached[w]
    BY <1>a, <2>1 DEF StoreTyped, tables
  <2>3. LocksHold' /\ ReadersFollow' /\ StampsGrow' /\ Serial'
    BY <2>1 DEF CachedStoreInv, LocksHold, ReadersFollow, StampsGrow, Serial, InTransaction, tables
  <2>4. CacheFollowsStore'
    BY <2>1, <2>2 DEF CachedStoreInv, CacheFollowsStore, tables
  <2> QED
    BY <1>c, <2>1, <2>2, <2>3, <2>4 DEF CachedStoreInv
<1> QED
  BY <1>2, <1>3, <1>4

LEMMA NextCached ==
  ASSUME CachedStoreInv, [CachedStoreNext]_cachedStoreVars
  PROVE  CachedStoreInv'
<1>1. CASE UNCHANGED cachedStoreVars
  BY <1>1 DEF cachedStoreVars, tables, CachedStoreInv, StoreTyped, AllNumbered, JsonFollows, PointsFollow,
              LocksHold, ReadersFollow, StampsGrow, Serial, InTransaction, CacheFollowsStore
<1>2. CASE CachedStoreNext
  BY <1>2, WriteStep, DeleteStep, RenameStep, BatchStep, StartSteps, ReadSteps, CacheSteps
     DEF CachedStoreNext, ClientOp
<1> QED
  BY <1>1, <1>2

LEMMA CachedStoreInvariant == CachedStoreSpec => []CachedStoreInv
BY InitCached, NextCached, PTL DEF CachedStoreSpec

\* Whatever clients interleave, every URI has the versions 1 .. mvcc_version and
\* shows the newest.  Its JSON and the point that its outbox rows leave agree with it,
\* except where PostgreSQL lets a rename go on with what it read before another
\* commit, or a transaction commit after one that began later.  For SQLite there is
\* no exception.
THEOREM BooksAreKept == CachedStoreSpec => []StoreKeepsBooks
<1>1. CachedStoreInv => StoreKeepsBooks
  <2> SUFFICES ASSUME CachedStoreInv PROVE StoreKeepsBooks
    OBVIOUS
  <2>1. ASSUME NEW u \in StoreUris PROVE Numbered(current[u], history[u]) /\ Base(u) = Ver(current[u])
    BY DEF CachedStoreInv, AllNumbered, Base, Ver
  <2> QED
    BY <2>1 DEF CachedStoreInv, Numbered, JsonFollows, PointsFollow, Point, Serial, StoreKeepsBooks
<1> QED
  BY <1>1, CachedStoreInvariant, PTL

\* The read cache shows the row once every commit has invalidated what it
\* changed, except what a reader has queried before a commit and stored after it.
THEOREM CacheIsFaithful == CachedStoreSpec => []CacheFollowsStore
BY CachedStoreInvariant, PTL DEF CachedStoreInv

=============================================================================
