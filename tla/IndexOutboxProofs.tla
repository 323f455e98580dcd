-------------------------- MODULE IndexOutboxProofs --------------------------
(***************************************************************************)
(* Proofs about IndexOutbox, for any number of workers, any batch size and *)
(* either backend.                                                         *)
(***************************************************************************)
EXTENDS IndexOutbox, ContextStoreProofs

(* What a worker remembers across its awaits is about rows that exist, and *)
(* the success it is about to record has really happened.  With it         *)
(* DoneMeansApplied is inductive.                                          *)
WorkersInv ==
  /\ jobs \in [Workers -> SUBSET Job]
  /\ working \in [Workers -> Work \cup {NULL}]
  /\ applied \subseteq Ids
  /\ \A w \in Workers : \A job \in jobs[w] : job.id \in Ids
  /\ \A w \in Workers : working[w] # NULL =>
       /\ working[w].id \in Ids
       /\ working[w].stage = "finish" /\ working[w].ok
            => working[w].id \in applied

DeliveryInv == StoreInv /\ WorkersInv /\ DoneMeansApplied

(* A writer only appends pending rows to the outbox. *)
Appends ==
  \E rows \in Seq(Row) :
    /\ outbox' = outbox \o rows
    /\ \A k \in 1..Len(rows) : rows[k].status = "pending"

LEMMA NewRowsPending ==
  ASSUME NEW s, NEW u, NEW c, NEW from
  PROVE  /\ UpsertRow(s).status = "pending"
         /\ DeleteRow(u, c).status = "pending"
         /\ RenameRow(from, s).status = "pending"
  BY DEF UpsertRow, DeleteRow, RenameRow, NewRow

LEMMA WriteAppends ==
  ASSUME StoreInv, NEW u \in Uris, NEW in, in.body \in Bodies,
         in.coll \in Collections, in.emb \in BOOLEAN, Write(u, in)
  PROVE  Appends
<1> DEFINE s == Stored(u, in, NextVersion(u))
<1>1. NextVersion(u) \in 1..MaxVersion
  BY ConstantsAssumption
     DEF StoreInv, StoreTypeOK, Write, WriteInTx, NextVersion, Snapshot
<1>2. s \in Snapshot
  BY <1>1, StoredType
<1>3. outbox' = outbox \o UpsertRows(s)
  BY DEF Write, Enqueue
<1> HIDE DEF s
<1>4. UpsertRow(s) \in Row
  BY <1>2, RowType DEF Snapshot
<1>5. UpsertRows(s) \in Seq(Row)
  BY <1>4 DEF UpsertRows
<1>6. \A k \in 1..Len(UpsertRows(s)) : UpsertRows(s)[k].status = "pending"
  BY NewRowsPending DEF UpsertRows
<1> QED
  BY <1>3, <1>5, <1>6 DEF Appends

LEMMA DeleteAppends ==
  ASSUME StoreInv, NEW u \in Uris, Delete(u)
  PROVE  Appends
<1> DEFINE r == DeleteRow(u, versions[u][LatestVersion(u)].coll)
<1>1. outbox' = outbox \o <<r>>
  BY DEF Delete, Enqueue
<1>2. r.status = "pending"
  BY NewRowsPending
<1>3. outbox' \in Seq(Row) /\ outbox \in Seq(Row)
  BY DeleteKeepsInv DEF StoreInv, StoreTypeOK
<1> HIDE DEF r
<1>4. r \in Row
  <2>1. outbox'[Len(outbox) + 1] = r /\ Len(outbox') = Len(outbox) + 1
    BY <1>1, <1>3
  <2> QED
    BY <2>1, <1>3
<1>5. <<r>> \in Seq(Row) /\ \A k \in 1..Len(<<r>>) : <<r>>[k].status = "pending"
  BY <1>2, <1>4
<1> QED
  BY <1>1, <1>5, Zenon DEF Appends

LEMMA RenameAppends ==
  ASSUME StoreInv, NEW from \in Uris, NEW to \in Uris, Rename(from, to)
  PROVE  Appends
<1> DEFINE r == RenameRow(from, Moved(entries[from], to))
<1>1. outbox' = outbox \o <<r>>
  BY DEF Rename, Enqueue
<1>2. r.status = "pending"
  BY NewRowsPending
<1>3. outbox' \in Seq(Row) /\ outbox \in Seq(Row)
  BY RenameKeepsInv DEF StoreInv, StoreTypeOK
<1> HIDE DEF r
<1>4. r \in Row
  <2>1. outbox'[Len(outbox) + 1] = r /\ Len(outbox') = Len(outbox) + 1
    BY <1>1, <1>3
  <2> QED
    BY <2>1, <1>3
<1>5. <<r>> \in Seq(Row) /\ \A k \in 1..Len(<<r>>) : <<r>>[k].status = "pending"
  BY <1>2, <1>4
<1> QED
  BY <1>1, <1>5, Zenon DEF Appends

(* Appending pending rows disturbs nothing a worker relies on. *)
LEMMA AppendKeepsDelivery ==
  ASSUME DeliveryInv, Appends, UNCHANGED <<jobs, working, applied>>
  PROVE  WorkersInv' /\ DoneMeansApplied'
<1>1. PICK rows \in Seq(Row) :
        /\ outbox' = outbox \o rows
        /\ \A k \in 1..Len(rows) : rows[k].status = "pending"
  BY DEF Appends
<1>2. outbox \in Seq(Row)
  BY DEF DeliveryInv, StoreInv, StoreTypeOK
<1>3. Ids \subseteq Ids'
  BY <1>1, <1>2 DEF Ids
<1>4. \A i \in Ids : outbox'[i] = outbox[i]
  BY <1>1, <1>2 DEF Ids
<1>5. \A i \in Ids' : i \in Ids \/ outbox'[i].status = "pending"
  <2> SUFFICES ASSUME NEW i \in Ids', i \notin Ids
               PROVE  outbox'[i].status = "pending"
    OBVIOUS
  <2>1. i - Len(outbox) \in 1..Len(rows) /\ outbox'[i] = rows[i - Len(outbox)]
    BY <1>1, <1>2 DEF Ids
  <2> QED
    BY <2>1, <1>1
<1>6. DoneMeansApplied'
  BY <1>4, <1>5 DEF DeliveryInv, DoneMeansApplied
<1>7. WorkersInv'
  BY <1>3 DEF DeliveryInv, WorkersInv
<1> QED
  BY <1>6, <1>7

-----------------------------------------------------------------------------
(* A worker's step rewrites rows of the outbox in place. *)
LEMMA StoreUntouched ==
  ASSUME StoreInv, UNCHANGED <<entries, versions, relations, revision>>,
         outbox' \in Seq(Row)
  PROVE  StoreInv'
  BY DEF StoreInv, StoreTypeOK, HistoryComplete, HistoryOf

(* The ways a row is rewritten, and that they keep it a row. *)
ClaimedRow(r) ==
  [r EXCEPT !.status = "processing", !.leased = TRUE, !.attempts = @ + 1]

FinishedRow(r, st) == [r EXCEPT !.status = st, !.ready = FALSE, !.leased = FALSE]

ExpiredRow(r) == [r EXCEPT !.leased = FALSE]

ReadyRow(r) == [r EXCEPT !.ready = TRUE]

LEMMA RowEdits ==
  ASSUME NEW r \in Row, NEW st \in {"done", "dead", "failed"}
  PROVE  /\ ClaimedRow(r) \in Row /\ ClaimedRow(r).status = "processing"
         /\ FinishedRow(r, st) \in Row /\ FinishedRow(r, st).status = st
         /\ ExpiredRow(r) \in Row /\ ExpiredRow(r).status = r.status
         /\ ReadyRow(r) \in Row /\ ReadyRow(r).status = r.status
<1>1. ClaimedRow(r) \in Row /\ ClaimedRow(r).status = "processing"
  <2> DEFINE n == r.attempts + 1
  <2>1. n \in Nat
    BY DEF Row
  <2>2. ClaimedRow(r) = [r EXCEPT !.status = "processing", !.leased = TRUE, !.attempts = n]
    BY DEF ClaimedRow
  <2> HIDE DEF n
  <2> QED
    BY <2>1, <2>2 DEF Row
<1>2. FinishedRow(r, st) \in Row /\ FinishedRow(r, st).status = st
  BY DEF Row, FinishedRow
<1>3. ExpiredRow(r) \in Row /\ ExpiredRow(r).status = r.status
  BY DEF Row, ExpiredRow
<1>4. ReadyRow(r) \in Row /\ ReadyRow(r).status = r.status
  BY DEF Row, ReadyRow
<1> QED
  BY <1>1, <1>2, <1>3, <1>4

LEMMA ClaimKeepsDelivery ==
  ASSUME DeliveryInv, NEW w \in Workers, Claim(w)
  PROVE  DeliveryInv'
<1> DEFINE able == {i \in Ids : Claimable(i)}
<1> DEFINE picked == {i \in able : Rank(able, i) <= BatchSize}
<1>1. outbox \in Seq(Row) /\ picked \subseteq Ids
  BY DEF DeliveryInv, StoreInv, StoreTypeOK
<1>2. /\ outbox' = [i \in Ids |->
           IF i \in picked
           THEN [outbox[i] EXCEPT !.status = "processing", !.leased = TRUE,
                                  !.attempts = @ + 1]
           ELSE outbox[i]]
      /\ jobs' = [jobs EXCEPT ![w] =
           {[id |-> i, attempts |-> outbox[i].attempts + 1] : i \in picked}]
      /\ UNCHANGED <<entries, versions, relations, revision, working, applied>>
  BY DEF Claim
<1> HIDE DEF able, picked
<1>3. \A i \in Ids : outbox[i] \in Row
  BY <1>1 DEF Ids
<1>4. ASSUME NEW i \in Ids
      PROVE  outbox'[i] \in Row /\ (outbox'[i].status = "done" => outbox'[i] = outbox[i])
  <2>1. CASE i \in picked
    <3>1. outbox'[i] = ClaimedRow(outbox[i])
      BY <2>1, <1>2 DEF ClaimedRow
    <3>2. outbox[i] \in Row
      BY <1>3
    <3> QED
      BY <3>1, <3>2, RowEdits
  <2>2. CASE i \notin picked
    BY <2>2, <1>2, <1>3
  <2> QED
    BY <2>1, <2>2
<1>5. outbox' \in Seq(Row) /\ Ids' = Ids
  <2> DEFINE n == Len(outbox)
  <2>1. n \in Nat /\ Ids = 1..n
    BY <1>1 DEF Ids
  <2>2. outbox' \in [1..n -> Row]
    BY <2>1, <1>2, <1>4
  <2> HIDE DEF n
  <2>3. outbox' \in Seq(Row) /\ Len(outbox') = n
    BY <2>1, <2>2
  <2> QED
    BY <2>1, <2>3 DEF Ids
<1>6. StoreInv'
  BY <1>2, <1>5, StoreUntouched DEF DeliveryInv
<1>7. DoneMeansApplied'
  BY <1>2, <1>4, <1>5 DEF DeliveryInv, DoneMeansApplied
<1>8. WorkersInv'
  <2>1. {[id |-> i, attempts |-> outbox[i].attempts + 1] : i \in picked} \subseteq Job
    BY <1>1, <1>3 DEF Job, Row, Ids
  <2>2. \A job \in jobs'[w] : job.id \in Ids
    <3>1. jobs'[w] = {[id |-> i, attempts |-> outbox[i].attempts + 1] : i \in picked}
      BY <1>2 DEF DeliveryInv, WorkersInv
    <3> QED
      BY <3>1, <1>1 DEF picked
  <2> QED
    BY <2>1, <2>2, <1>2, <1>5 DEF DeliveryInv, WorkersInv
<1> QED
  BY <1>6, <1>7, <1>8 DEF DeliveryInv

LEMMA CallKeepsDelivery ==
  ASSUME DeliveryInv, NEW w \in Workers, NEW job \in jobs[w],
         NEW outcome \in Outcomes, CallIndex(w, job, outcome)
  PROVE  DeliveryInv'
<1>1. job.id \in Ids /\ job \in Job
  BY DEF DeliveryInv, WorkersInv
<1>2. UNCHANGED storeVars /\ Ids' = Ids
  BY DEF CallIndex, storeVars, Ids
<1>3. StoreInv'
  BY <1>2 DEF DeliveryInv, StoreInv, StoreTypeOK, HistoryComplete, HistoryOf, storeVars
<1>4. applied \subseteq applied' /\ applied' \subseteq Ids
  BY <1>1 DEF CallIndex, DeliveryInv, WorkersInv
<1>5. DoneMeansApplied'
  BY <1>2, <1>4 DEF DeliveryInv, DoneMeansApplied, storeVars
<1>6. PICK stage \in {"upsert", "finish"} :
        /\ working' = [working EXCEPT ![w] =
             Stage(job.id, job.attempts, stage, outcome = "ok")]
        /\ stage = "finish" /\ outcome = "ok" => job.id \in applied'
  BY DEF CallIndex
<1>7. Stage(job.id, job.attempts, stage, outcome = "ok") \in Work
  BY <1>1 DEF Stage, Work, Job
<1>8. jobs' = [jobs EXCEPT ![w] = @ \ {job}]
  BY DEF CallIndex
<1>9. WorkersInv'
  BY <1>1, <1>2, <1>4, <1>6, <1>7, <1>8 DEF DeliveryInv, WorkersInv, Stage
<1> QED
  BY <1>3, <1>5, <1>9 DEF DeliveryInv

LEMMA RenameUpsertKeepsDelivery ==
  ASSUME DeliveryInv, NEW w \in Workers, NEW outcome \in Outcomes,
         RenameUpsert(w, outcome)
  PROVE  DeliveryInv'
<1> DEFINE k == working[w]
<1>1. k \in Work /\ k.id \in Ids
  BY DEF RenameUpsert, DeliveryInv, WorkersInv
<1>2. UNCHANGED storeVars /\ Ids' = Ids
  BY DEF RenameUpsert, storeVars, Ids
<1>3. StoreInv'
  BY <1>2 DEF DeliveryInv, StoreInv, StoreTypeOK, HistoryComplete, HistoryOf, storeVars
<1>4. applied \subseteq applied' /\ applied' \subseteq Ids
  BY <1>1 DEF RenameUpsert, DeliveryInv, WorkersInv
<1>5. DoneMeansApplied'
  BY <1>2, <1>4 DEF DeliveryInv, DoneMeansApplied, storeVars
<1>6. /\ working' = [working EXCEPT ![w] =
             Stage(k.id, k.attempts, "finish", outcome = "ok")]
      /\ outcome = "ok" => k.id \in applied'
      /\ jobs' = jobs
  BY DEF RenameUpsert
<1>7. Stage(k.id, k.attempts, "finish", outcome = "ok") \in Work
  BY <1>1 DEF Stage, Work
<1> HIDE DEF k
<1>8. WorkersInv'
  BY <1>1, <1>2, <1>4, <1>6, <1>7 DEF DeliveryInv, WorkersInv, Stage
<1> QED
  BY <1>3, <1>5, <1>8 DEF DeliveryInv

LEMMA FinishKeepsDelivery ==
  ASSUME DeliveryInv, NEW w \in Workers, Finish(w)
  PROVE  DeliveryInv'
<1> DEFINE k == working[w]
<1>1. /\ k \in Work /\ k.id \in Ids
      /\ k.ok => k.id \in applied
  BY DEF Finish, DeliveryInv, WorkersInv
<1>2. /\ outbox' = [outbox EXCEPT ![k.id] = FinishedRow(outbox[k.id], FinishStatus(k))]
      /\ working' = [working EXCEPT ![w] = NULL]
      /\ UNCHANGED <<entries, versions, relations, revision, jobs, applied>>
  BY DEF Finish, FinishedRow
<1> HIDE DEF k
<1>3. /\ FinishStatus(k) \in {"done", "dead", "failed"}
      /\ FinishStatus(k) = "done" => k.ok
  BY DEF FinishStatus
<1>4. outbox \in Seq(Row)
  BY DEF DeliveryInv, StoreInv, StoreTypeOK
<1>5. \A i \in Ids : outbox[i] \in Row
  BY <1>4 DEF Ids
<1>6. \A i \in Ids :
        /\ outbox'[i] \in Row
        /\ i # k.id => outbox'[i] = outbox[i]
        /\ i = k.id => outbox'[i].status = FinishStatus(k)
  <2> SUFFICES ASSUME NEW i \in Ids
               PROVE  /\ outbox'[i] \in Row
                      /\ i # k.id => outbox'[i] = outbox[i]
                      /\ i = k.id => outbox'[i].status = FinishStatus(k)
    OBVIOUS
  <2>1. CASE i = k.id
    <3>1. outbox'[i] = FinishedRow(outbox[i], FinishStatus(k))
      BY <2>1, <1>2, <1>4 DEF Ids
    <3>2. outbox[i] \in Row
      BY <1>5
    <3> QED
      BY <2>1, <3>1, <3>2, <1>3, RowEdits
  <2>2. CASE i # k.id
    BY <2>2, <1>2, <1>4, <1>5 DEF Ids
  <2> QED
    BY <2>1, <2>2
<1>7. outbox' \in Seq(Row) /\ Ids' = Ids
  BY <1>1, <1>2, <1>4, <1>6 DEF Ids
<1>8. StoreInv'
  BY <1>2, <1>7, StoreUntouched DEF DeliveryInv
<1>9. DoneMeansApplied'
  BY <1>1, <1>2, <1>3, <1>6, <1>7 DEF DeliveryInv, DoneMeansApplied
<1>10. WorkersInv'
  BY <1>2, <1>7 DEF DeliveryInv, WorkersInv
<1> QED
  BY <1>8, <1>9, <1>10 DEF DeliveryInv

LEMMA AbandonKeepsDelivery ==
  ASSUME DeliveryInv, NEW w \in Workers, Abandon(w)
  PROVE  DeliveryInv'
<1>1. UNCHANGED <<storeVars, applied>>
  BY DEF Abandon
<1>2. StoreInv' /\ DoneMeansApplied'
  BY <1>1 DEF DeliveryInv, StoreInv, StoreTypeOK, HistoryComplete, HistoryOf,
              storeVars, DoneMeansApplied, Ids
<1>3. WorkersInv'
  BY <1>1 DEF Abandon, DeliveryInv, WorkersInv, storeVars, Ids
<1> QED
  BY <1>2, <1>3 DEF DeliveryInv

LEMMA TimeKeepsDelivery ==
  ASSUME DeliveryInv, NEW i \in Ids, TimePasses(i)
  PROVE  DeliveryInv'
<1>1. outbox \in Seq(Row)
  BY DEF DeliveryInv, StoreInv, StoreTypeOK
<1>2. \A j \in Ids : outbox[j] \in Row
  BY <1>1 DEF Ids
<1>3. /\ \/ outbox' = [outbox EXCEPT ![i] = ExpiredRow(outbox[i])]
         \/ outbox' = [outbox EXCEPT ![i] = ReadyRow(outbox[i])]
      /\ UNCHANGED <<entries, versions, relations, revision, jobs, working, applied>>
  BY DEF TimePasses, LeaseExpires, BackoffElapses, workerVars, ExpiredRow, ReadyRow
<1>4. \A j \in Ids : outbox'[j] \in Row /\ outbox'[j].status = outbox[j].status
  <2> SUFFICES ASSUME NEW j \in Ids
               PROVE  outbox'[j] \in Row /\ outbox'[j].status = outbox[j].status
    OBVIOUS
  <2>1. outbox[j] \in Row
    BY <1>2
  <2>2. \/ outbox'[j] = outbox[j]
        \/ outbox'[j] = ExpiredRow(outbox[j])
        \/ outbox'[j] = ReadyRow(outbox[j])
    BY <1>1, <1>3 DEF Ids
  <2> QED
    BY <2>1, <2>2, RowEdits
<1>5. outbox' \in Seq(Row) /\ Ids' = Ids
  BY <1>1, <1>3, <1>4 DEF Ids
<1>6. StoreInv'
  BY <1>3, <1>5, StoreUntouched DEF DeliveryInv
<1>7. DoneMeansApplied' /\ WorkersInv'
  BY <1>3, <1>4, <1>5 DEF DeliveryInv, DoneMeansApplied, WorkersInv
<1> QED
  BY <1>6, <1>7 DEF DeliveryInv

-----------------------------------------------------------------------------
LEMMA OutboxInitInv == OutboxInit => DeliveryInv
<1> SUFFICES ASSUME OutboxInit PROVE DeliveryInv
  OBVIOUS
<1>1. StoreInv
  BY InitInv DEF OutboxInit
<1>2. Ids = {}
  BY DEF Ids, OutboxInit, StoreInit
<1>3. WorkersInv /\ DoneMeansApplied
  BY <1>2 DEF OutboxInit, WorkersInv, DoneMeansApplied
<1> QED
  BY <1>1, <1>3 DEF DeliveryInv

LEMMA OutboxStepInv == DeliveryInv /\ [OutboxNext]_vars => DeliveryInv'
<1> SUFFICES ASSUME DeliveryInv, [OutboxNext]_vars PROVE DeliveryInv'
  OBVIOUS
<1>0. StoreInv
  BY DEF DeliveryInv
<1>1. ASSUME NEW u \in Uris, NEW in \in Input, Write(u, in), UNCHANGED workerVars
      PROVE  DeliveryInv'
  BY <1>0, <1>1, WriteKeepsInv, WriteAppends, AppendKeepsDelivery
     DEF DeliveryInv, Input, workerVars
<1>2. ASSUME NEW u \in Uris, NEW v \in 1..MaxVersion, Rollback(u, v),
             UNCHANGED workerVars
      PROVE  DeliveryInv'
  <2>1. versions[u][v] \in Snapshot
    BY <1>0, <1>2 DEF Rollback, StoreInv, StoreTypeOK
  <2> QED
    BY <1>0, <1>2, <2>1, WriteKeepsInv, WriteAppends, AppendKeepsDelivery
       DEF DeliveryInv, Rollback, Snapshot, workerVars
<1>3. ASSUME NEW u \in Uris, Delete(u), UNCHANGED workerVars
      PROVE  DeliveryInv'
  BY <1>0, <1>3, DeleteKeepsInv, DeleteAppends, AppendKeepsDelivery
     DEF DeliveryInv, workerVars
<1>4. ASSUME NEW from \in Uris, NEW to \in Uris, Rename(from, to),
             UNCHANGED workerVars
      PROVE  DeliveryInv'
  BY <1>0, <1>4, RenameKeepsInv, RenameAppends, AppendKeepsDelivery
     DEF DeliveryInv, workerVars
<1>5. ASSUME NEW w \in Workers, WorkerStep(w) \/ Abandon(w)
      PROVE  DeliveryInv'
  BY <1>5, ClaimKeepsDelivery, CallKeepsDelivery, RenameUpsertKeepsDelivery,
     FinishKeepsDelivery, AbandonKeepsDelivery DEF WorkerStep
<1>6. ASSUME NEW i \in Ids, TimePasses(i)
      PROVE  DeliveryInv'
  BY <1>6, TimeKeepsDelivery
<1>7. CASE UNCHANGED vars
  BY <1>7 DEF vars, storeVars, workerVars, DeliveryInv, StoreInv, StoreTypeOK,
     HistoryComplete, HistoryOf, WorkersInv, DoneMeansApplied, Ids
<1> QED
  BY <1>1, <1>2, <1>3, <1>4, <1>5, <1>6, <1>7
     DEF OutboxNext, Writers, Movers, WorkerNext

(* Whatever the number of workers, however their leases expire and their   *)
(* batches are abandoned, the worker never records as done a row whose     *)
(* index calls have not all succeeded: delivery is at least once.          *)
THEOREM OutboxDoneMeansApplied == OutboxSpec => []DoneMeansApplied
<1>1. DeliveryInv => DoneMeansApplied
  BY DEF DeliveryInv
<1> QED
  BY <1>1, OutboxInitInv, OutboxStepInv, PTL DEF OutboxSpec

-----------------------------------------------------------------------------
(* Convergence, where one worker uses the query of SQLite and no URI is    *)
(* removed.  A row is claimed only when the earlier rows of its URI are    *)
(* closed, so the rows of a URI reach the index in the order they were     *)
(* written.                                                                *)
OneSqliteWorker ==
  Backend = "sqlite" /\ IsFiniteSet(Uris) /\ \A v, w \in Workers : v = w

Payload(i) == [body |-> outbox[i].body, ver |-> outbox[i].pver]

Newest(i) == \A j \in Ids : outbox[j].uri = outbox[i].uri => j <= i

(* Every row puts the point of its own URI. *)
UpsertsOnly ==
  \A i \in Ids : /\ outbox[i].op = "upsert" /\ outbox[i].ver # 0
                 /\ outbox[i].target = outbox[i].uri /\ outbox[i].from = outbox[i].uri

(* Rows of a URI are created in the order of its versions and closed in    *)
(* the order they were created.                                            *)
RowsInOrder ==
  \A i, j \in Ids : i < j /\ outbox[i].uri = outbox[j].uri =>
    outbox[i].ver <= outbox[j].ver /\ (Open(i) => Open(j))

(* No row is ahead of its entry, and the newest row of an embedded entry   *)
(* is the entry's.                                                         *)
RowsFollowEntries ==
  /\ \A i \in Ids : entries[outbox[i].uri] # NULL /\ outbox[i].ver <= entries[outbox[i].uri].ver
  /\ \A u \in Uris : entries[u] # NULL /\ entries[u].emb =>
       \E i \in Ids : /\ outbox[i].uri = u /\ Newest(i)
                      /\ outbox[i].coll = entries[u].coll /\ Payload(i) = Point(entries[u])

(* The worker has each row once, and in turn. *)
InHand(i) == outbox[i].status = "processing" /\ InTurn(i)

HeldInTurn ==
  \A w \in Workers :
    /\ \A i \in Ids : Holds(w, i) => InHand(i)
    /\ \A j, k \in jobs[w] : j.id = k.id => j = k
    /\ working[w] # NULL => /\ working[w].stage = "finish"
                            /\ \A job \in jobs[w] : job.id # working[w].id

(* What was called with success, or is the newest row of its URI and       *)
(* recorded as done, is what the index shows.                              *)
Shows(i) == index[outbox[i].coll][outbox[i].uri] = Payload(i)

IndexShows ==
  ~lost =>
    /\ \A w \in Workers, i \in Ids :
         working[w] # NULL /\ working[w].id = i /\ working[w].ok => Shows(i)
    /\ \A i \in Ids :
         outbox[i].status = "done" /\ Newest(i) /\ entries[outbox[i].uri].emb => Shows(i)

IndexTyped ==
  index \in [Collections -> [Uris -> [body : Bodies \cup {NULL}, ver : 0..MaxVersion] \cup {NULL}]]

ConvergeInv ==
  /\ DeliveryInv
  /\ UpsertsOnly /\ RowsInOrder /\ RowsFollowEntries
  /\ HeldInTurn /\ IndexTyped /\ IndexShows

-----------------------------------------------------------------------------
(* What the leases and the statuses leave alone: the mutation of a row. *)
SameMutation(r, s) ==
  /\ r.op = s.op /\ r.uri = s.uri /\ r.ver = s.ver /\ r.target = s.target
  /\ r.from = s.from /\ r.coll = s.coll /\ r.body = s.body /\ r.pver = s.pver

OrderInv == UpsertsOnly /\ RowsInOrder /\ RowsFollowEntries

(* A worker edits rows in place.  The order is kept when a row is closed   *)
(* only behind the rows of its URI that are closed already.                *)
LEMMA EditsKeepOrder ==
  ASSUME StoreInv, OrderInv, Ids' = Ids, entries' = entries,
         \A i \in Ids : SameMutation(outbox[i], outbox'[i]),
         \A i \in Ids : Open(i)' => Open(i),
         \A i, j \in Ids : i < j /\ outbox[i].uri = outbox[j].uri /\ Open(i)' => Open(j)'
  PROVE  /\ OrderInv'
         /\ \A i \in Ids : InTurn(i) => InTurn(i)'
         /\ \A i \in Ids : Payload(i)' = Payload(i) /\ (Newest(i)' <=> Newest(i))
<1>1. \A i \in Ids : Payload(i)' = Payload(i)
  BY DEF Payload, SameMutation
<1>2. \A i \in Ids : Newest(i)' <=> Newest(i)
  BY DEF Newest, SameMutation
<1>3. UpsertsOnly'
  BY DEF OrderInv, UpsertsOnly, SameMutation
<1>4. RowsInOrder'
  BY DEF OrderInv, RowsInOrder, SameMutation
<1>5. RowsFollowEntries'
  <2>1. \A i \in Ids : entries'[outbox'[i].uri] # NULL
                       /\ outbox'[i].ver <= entries'[outbox'[i].uri].ver
    BY DEF OrderInv, RowsFollowEntries, SameMutation
  <2>2. ASSUME NEW u \in Uris, entries[u] # NULL, entries[u].emb
        PROVE  \E i \in Ids : /\ outbox'[i].uri = u /\ Newest(i)'
                              /\ outbox'[i].coll = entries[u].coll
                              /\ Payload(i)' = Point(entries[u])
    <3>1. PICK i \in Ids : /\ outbox[i].uri = u /\ Newest(i)
                           /\ outbox[i].coll = entries[u].coll
                           /\ Payload(i) = Point(entries[u])
      BY <2>2 DEF OrderInv, RowsFollowEntries
    <3>2. outbox'[i].uri = u /\ outbox'[i].coll = entries[u].coll
      BY <3>1 DEF SameMutation
    <3> QED
      BY <3>1, <3>2, <1>1, <1>2
  <2>3. \A u \in Uris : Point(entries'[u]) = Point(entries[u])
    BY DEF Point
  <2> QED
    BY <2>1, <2>2, <2>3 DEF RowsFollowEntries
<1>6. ASSUME NEW i \in Ids, InTurn(i)
      PROVE  InTurn(i)'
  BY <1>6 DEF InTurn, Older, SameMutation
<1> QED
  BY <1>1, <1>2, <1>3, <1>4, <1>5, <1>6 DEF OrderInv

-----------------------------------------------------------------------------
LEMMA RowsTyped ==
  ASSUME StoreInv
  PROVE  /\ \A i \in Ids : outbox[i] \in Row
         /\ \A u \in Uris : entries[u] # NULL => entries[u] \in Snapshot /\ entries[u].uri = u
         /\ Ids \subseteq Nat
  BY DEF StoreInv, StoreTypeOK, HistoryComplete, HistoryOf, HistoryIn, Ids

LEMMA ClaimConverges ==
  ASSUME OneSqliteWorker, ConvergeInv, NEW w \in Workers, Claim(w)
  PROVE  ConvergeInv'
<1> DEFINE able == {i \in Ids : Claimable(i)}
<1> DEFINE picked == {i \in able : Rank(able, i) <= BatchSize}
<1>0. DeliveryInv /\ StoreInv /\ OrderInv /\ WorkersInv
  BY DEF ConvergeInv, OrderInv, DeliveryInv
<1>1. DeliveryInv'
  BY <1>0, ClaimKeepsDelivery, Zenon
<1>2. /\ outbox' = [i \in Ids |->
           IF i \in picked THEN ClaimedRow(outbox[i]) ELSE outbox[i]]
      /\ jobs' = [jobs EXCEPT ![w] =
           {[id |-> i, attempts |-> outbox[i].attempts + 1] : i \in picked}]
      /\ Idle(w)
      /\ UNCHANGED <<entries, index, working, lost>>
  BY DEF Claim, ClaimedRow
<1>3. \A i \in picked : i \in Ids /\ InTurn(i) /\ Open(i)
  BY DEF Claimable, Available, Reclaimable, OneSqliteWorker, Open
<1> HIDE DEF able, picked
<1>4. Len(outbox) \in Nat /\ Len(outbox') = Len(outbox)
  <2> DEFINE n == Len(outbox)
  <2>1. n \in Nat /\ Ids = 1..n
    BY <1>0 DEF Ids, StoreInv, StoreTypeOK
  <2>2. outbox' \in Seq(Row) /\ DOMAIN outbox' = 1..n
    BY <1>1, <1>2, <2>1 DEF DeliveryInv, StoreInv, StoreTypeOK
  <2>3. Len(outbox') \in Nat /\ DOMAIN outbox' = 1..Len(outbox')
    BY <2>2
  <2> HIDE DEF n
  <2>4. Len(outbox') = n
    BY <2>1, <2>2, <2>3
  <2> QED
    BY <2>1, <2>4 DEF n
<1>5. Ids' = Ids
  BY <1>4 DEF Ids
<1>6. \A i \in Ids : /\ SameMutation(outbox[i], outbox'[i])
                     /\ outbox'[i].status = IF i \in picked THEN "processing" ELSE outbox[i].status
  <2>1. \A i \in Ids : outbox[i] \in Row
    BY <1>0, RowsTyped
  <2>2. \A r \in Row : SameMutation(r, ClaimedRow(r)) /\ SameMutation(r, r)
                       /\ ClaimedRow(r).status = "processing"
    BY DEF Row, SameMutation, ClaimedRow
  <2> QED
    BY <1>2, <2>1, <2>2
<1>7. \A i \in Ids : Open(i)' <=> Open(i)
  BY <1>3, <1>6 DEF Open
<1>8. \A i, j \in Ids : i < j /\ outbox[i].uri = outbox[j].uri /\ Open(i)' => Open(j)'
  BY <1>0, <1>7 DEF OrderInv, RowsInOrder
<1>9. /\ OrderInv'
      /\ \A i \in Ids : InTurn(i) => InTurn(i)'
      /\ \A i \in Ids : Payload(i)' = Payload(i) /\ (Newest(i)' <=> Newest(i))
  BY <1>0, <1>2, <1>5, <1>6, <1>7, <1>8, EditsKeepOrder
<1>10. \A i \in picked : InHand(i)'
  BY <1>3, <1>6, <1>9 DEF InHand
<1>11. HeldInTurn'
  <2>1. \A v \in Workers : v = w /\ working'[v] = NULL
    BY <1>2 DEF OneSqliteWorker, Idle
  <2>2. jobs'[w] = {[id |-> i, attempts |-> outbox[i].attempts + 1] : i \in picked}
    BY <1>0, <1>2 DEF WorkersInv
  <2>3. \A i \in Ids' : Holds(w, i)' => InHand(i)'
    BY <2>1, <2>2, <1>10 DEF Holds
  <2>4. \A j, k \in jobs'[w] : j.id = k.id => j = k
    BY <2>2
  <2> QED
    BY <2>1, <2>3, <2>4 DEF HeldInTurn
<1>12. IndexShows' /\ IndexTyped'
  <2>1. \A i \in Ids : Shows(i)' <=> Shows(i)
    BY <1>2, <1>6, <1>9 DEF Shows, SameMutation
  <2>2. \A i \in Ids : outbox'[i].status = "done" => outbox[i].status = "done"
    BY <1>6
  <2>3. \A v \in Workers : working'[v] = NULL
    BY <1>2 DEF OneSqliteWorker, Idle
  <2>4. \A i \in Ids : outbox'[i].uri = outbox[i].uri
    BY <1>6 DEF SameMutation
  <2>5. \A i \in Ids : Newest(i)' <=> Newest(i)
    BY <1>9
  <2>6. entries' = entries /\ lost' = lost /\ index' = index
    BY <1>2
  <2>7. ASSUME ~lost, NEW i \in Ids, outbox'[i].status = "done", Newest(i)',
               entries'[outbox'[i].uri].emb
        PROVE  Shows(i)'
    BY <2>1, <2>2, <2>4, <2>5, <2>6, <2>7 DEF ConvergeInv, IndexShows
  <2>8. IndexShows'
    BY <2>3, <2>6, <2>7, <1>5 DEF IndexShows
  <2> QED
    BY <2>6, <2>8 DEF ConvergeInv, IndexTyped
<1> QED
  BY <1>1, <1>9, <1>11, <1>12 DEF ConvergeInv, OrderInv

LEMMA CallConverges ==
  ASSUME OneSqliteWorker, ConvergeInv, NEW w \in Workers, NEW job \in jobs[w],
         NEW outcome \in Outcomes, CallIndex(w, job, outcome)
  PROVE  ConvergeInv'
<1>0. DeliveryInv /\ StoreInv /\ OrderInv /\ WorkersInv
  BY DEF ConvergeInv, OrderInv, DeliveryInv
<1>1. DeliveryInv'
  BY <1>0, CallKeepsDelivery, Zenon
<1>2. job.id \in Ids /\ InHand(job.id)
  BY <1>0 DEF WorkersInv, ConvergeInv, HeldInTurn, Holds
<1>3. /\ outbox[job.id].op = "upsert" /\ outbox[job.id].target = outbox[job.id].uri
      /\ outbox[job.id] \in Row
  BY <1>0, <1>2, RowsTyped DEF OrderInv, UpsertsOnly
<1>4. /\ UNCHANGED <<entries, outbox, lost>> /\ Ids' = Ids
      /\ jobs' = [jobs EXCEPT ![w] = @ \ {job}]
      /\ working' = [working EXCEPT ![w] =
           Stage(job.id, job.attempts, "finish", outcome = "ok")]
      /\ index' = IF outcome = "failed" THEN index ELSE PutPoint(index, outbox[job.id])
  BY <1>3 DEF CallIndex, FirstCall, storeVars, Ids
<1>5. OrderInv'
  BY <1>0, <1>4 DEF OrderInv, UpsertsOnly, RowsInOrder, RowsFollowEntries, Open,
     Newest, Payload, Point
<1>6. \A i \in Ids : InHand(i)' <=> InHand(i)
  BY <1>4 DEF InHand, InTurn, Older, Open
<1>7. HeldInTurn'
  <2>1. /\ working'[w] = Stage(job.id, job.attempts, "finish", outcome = "ok")
        /\ jobs'[w] = jobs[w] \ {job}
    BY <1>0, <1>4 DEF WorkersInv
  <2>2. \A v \in Workers : v = w
    BY DEF OneSqliteWorker
  <2>3. ASSUME NEW i \in Ids, Holds(w, i)'
        PROVE  InHand(i)'
    <3>1. i = job.id \/ Holds(w, i)
      BY <2>1, <2>3 DEF Holds, Stage
    <3> QED
      BY <3>1, <1>2, <1>6 DEF ConvergeInv, HeldInTurn
  <2>4. \A j \in jobs'[w] : j.id # job.id
    BY <2>1 DEF ConvergeInv, HeldInTurn
  <2>5. \A j, k \in jobs'[w] : j.id = k.id => j = k
    BY <2>1 DEF ConvergeInv, HeldInTurn
  <2>6. working'[w].id = job.id /\ working'[w].stage = "finish"
    BY <2>1 DEF Stage
  <2> QED
    BY <2>2, <2>3, <2>4, <2>5, <2>6, <1>4 DEF HeldInTurn
<1>8. \A c \in Collections, u \in Uris :
        index'[c][u] = IF outcome # "failed" /\ c = outbox[job.id].coll /\ u = outbox[job.id].uri
                       THEN Payload(job.id) ELSE index[c][u]
  BY <1>3, <1>4 DEF ConvergeInv, IndexTyped, PutPoint, Payload, Row
<1>9. IndexTyped'
  BY <1>3, <1>4 DEF ConvergeInv, IndexTyped, PutPoint, Row
<1>10. IndexShows'
  <2> SUFFICES ASSUME ~lost PROVE IndexShows'
    BY <1>4 DEF IndexShows
  <2>1. \A i \in Ids : Shows(i)' <=> index'[outbox[i].coll][outbox[i].uri] = Payload(i)
    BY <1>4 DEF Shows, Payload
  <2>2. outcome = "ok" => Shows(job.id)'
    BY <2>1, <1>2, <1>3, <1>8 DEF Row
  <2>3. ASSUME NEW v \in Workers, NEW i \in Ids, working'[v].id = i, working'[v].ok
        PROVE  Shows(i)'
    <3>1. v = w /\ working'[v] = Stage(job.id, job.attempts, "finish", outcome = "ok")
      BY <1>0, <1>4 DEF OneSqliteWorker, WorkersInv
    <3>2. outcome = "ok"
      <4>1. Stage(job.id, job.attempts, "finish", outcome = "ok").ok = (outcome = "ok")
        BY Zenon DEF Stage
      <4>2. Stage(job.id, job.attempts, "finish", outcome = "ok").ok
        BY <2>3, <3>1, Zenon
      <4> QED
        BY <4>1, <4>2, Zenon
    <3>3. i = job.id
      BY <2>3, <3>1 DEF Stage
    <3> QED
      BY <3>2, <3>3, <2>2
  <2>4. ASSUME NEW i \in Ids, outbox[i].status = "done", Newest(i), entries[outbox[i].uri].emb
        PROVE  Shows(i)'
    <3>1. Shows(i) /\ outbox[i] \in Row
      BY <1>0, <2>4, RowsTyped DEF ConvergeInv, IndexShows
    <3>2. outbox[i].uri # outbox[job.id].uri
      <4>1. SUFFICES ASSUME outbox[i].uri = outbox[job.id].uri PROVE FALSE
        OBVIOUS
      <4>2. job.id <= i /\ job.id # i /\ i \in Nat /\ job.id \in Nat
        BY <4>1, <1>0, <1>2, <2>4, RowsTyped DEF Newest, InHand
      <4>3. Open(job.id) /\ ~Open(i) /\ job.id < i
        BY <4>2, <2>4, <1>2 DEF InHand, Open
      <4> QED
        BY <4>1, <4>3, <1>0, <1>2 DEF OrderInv, RowsInOrder
    <3>3. index'[outbox[i].coll][outbox[i].uri] = index[outbox[i].coll][outbox[i].uri]
      BY <3>1, <3>2, <1>8 DEF Row
    <3> QED
      BY <3>1, <3>3, <2>1 DEF Shows
  <2>5. \A i \in Ids : Newest(i)' <=> Newest(i)
    BY <1>4 DEF Newest
  <2> QED
    BY <2>3, <2>4, <2>5, <1>4 DEF IndexShows
<1> QED
  BY <1>1, <1>5, <1>7, <1>9, <1>10 DEF ConvergeInv, OrderInv

LEMMA FinishConverges ==
  ASSUME OneSqliteWorker, ConvergeInv, NEW w \in Workers, Finish(w)
  PROVE  ConvergeInv'
<1>0. DeliveryInv /\ StoreInv /\ OrderInv /\ WorkersInv
  BY DEF ConvergeInv, OrderInv, DeliveryInv
<1>1. DeliveryInv'
  BY <1>0, FinishKeepsDelivery, Zenon
<1>2. PICK k : k = working[w]
  OBVIOUS
<1>3. k \in Work /\ k.id \in Ids /\ InHand(k.id) /\ (\A job \in jobs[w] : job.id # k.id)
  BY <1>0, <1>2 DEF Finish, WorkersInv, ConvergeInv, HeldInTurn, Holds
<1>4. PICK st \in {"done", "dead", "failed"} : st = FinishStatus(k) /\ (st = "done" => k.ok)
  BY DEF FinishStatus
<1>5. /\ outbox' = [outbox EXCEPT ![k.id] = FinishedRow(outbox[k.id], st)]
      /\ working' = [working EXCEPT ![w] = NULL]
      /\ UNCHANGED <<entries, index, jobs, lost>>
  BY <1>2, <1>4 DEF Finish, FinishedRow
<1>6. Ids' = Ids
  BY <1>0, <1>5 DEF Ids, StoreInv, StoreTypeOK
<1>7. \A i \in Ids : /\ SameMutation(outbox[i], outbox'[i])
                     /\ outbox'[i].status = IF i = k.id THEN st ELSE outbox[i].status
  <2>1. \A i \in Ids : /\ outbox[i] \in Row
                       /\ outbox'[i] = IF i = k.id THEN FinishedRow(outbox[i], st) ELSE outbox[i]
    BY <1>0, <1>3, <1>5, RowsTyped DEF StoreInv, StoreTypeOK, Ids
  <2>2. \A r \in Row : SameMutation(r, FinishedRow(r, st)) /\ SameMutation(r, r)
                       /\ FinishedRow(r, st).status = st
    BY DEF Row, SameMutation, FinishedRow
  <2> QED
    BY <2>1, <2>2
<1>8. \A i \in Ids : Open(i)' => Open(i)
  BY <1>3, <1>7 DEF Open, InHand
<1>9. ASSUME NEW i \in Ids, NEW j \in Ids, i < j, outbox[i].uri = outbox[j].uri, Open(i)'
      PROVE  Open(j)'
  <2>1. Open(i) /\ Open(j) /\ outbox[i].ver <= outbox[j].ver
    BY <1>0, <1>8, <1>9 DEF OrderInv, RowsInOrder
  <2>2. j # k.id
    <3>1. ASSUME j = k.id PROVE FALSE
      <4>1. outbox[i].ver # 0 /\ outbox[j].ver # 0 /\ outbox[i].ver \in Nat /\ outbox[j].ver \in Nat
        BY <1>0, RowsTyped, ConstantsAssumption DEF OrderInv, UpsertsOnly, Row
      <4>2. Older(i, j)
        BY <1>9, <2>1, <4>1 DEF Older
      <4> QED
        BY <4>2, <3>1, <1>3 DEF InHand, InTurn
    <3> QED
      BY <3>1
  <2> QED
    BY <2>1, <2>2, <1>7 DEF Open
<1>10. /\ OrderInv'
       /\ \A i \in Ids : InTurn(i) => InTurn(i)'
       /\ \A i \in Ids : Payload(i)' = Payload(i) /\ (Newest(i)' <=> Newest(i))
  BY <1>0, <1>5, <1>6, <1>7, <1>8, <1>9, EditsKeepOrder
<1>11. HeldInTurn'
  <2>1. \A v \in Workers : v = w /\ working'[v] = NULL
    BY <1>0, <1>5 DEF OneSqliteWorker, WorkersInv
  <2>2. ASSUME NEW i \in Ids, Holds(w, i)'
        PROVE  InHand(i)'
    <3>1. Holds(w, i) /\ i # k.id
      BY <2>1, <2>2, <1>3, <1>5 DEF Holds
    <3>2. InHand(i)
      BY <3>1 DEF ConvergeInv, HeldInTurn
    <3> QED
      BY <3>1, <3>2, <1>7, <1>10 DEF InHand
  <2> QED
    BY <2>1, <2>2, <1>5, <1>6 DEF HeldInTurn, ConvergeInv
<1>12. IndexShows' /\ IndexTyped'
  <2>1. \A i \in Ids : Shows(i)' <=> Shows(i)
    BY <1>5, <1>7, <1>10 DEF Shows, SameMutation
  <2>2. \A v \in Workers : working'[v] = NULL
    BY <1>0, <1>5 DEF OneSqliteWorker, WorkersInv
  <2>3. ASSUME ~lost, NEW i \in Ids, outbox'[i].status = "done", Newest(i)',
               entries'[outbox'[i].uri].emb
        PROVE  Shows(i)'
    <3>1. Newest(i) /\ entries[outbox[i].uri].emb
      BY <2>3, <1>5, <1>7, <1>10 DEF SameMutation
    <3>2. CASE i = k.id
      BY <2>1, <2>3, <3>2, <1>2, <1>4, <1>7 DEF ConvergeInv, IndexShows, Finish
    <3>3. CASE i # k.id
      BY <2>1, <2>3, <3>1, <3>3, <1>7 DEF ConvergeInv, IndexShows
    <3> QED
      BY <3>2, <3>3
  <2>4. IndexShows'
    BY <2>2, <2>3, <1>5, <1>6 DEF IndexShows
  <2> QED
    BY <2>4, <1>5 DEF ConvergeInv, IndexTyped
<1> QED
  BY <1>1, <1>10, <1>11, <1>12 DEF ConvergeInv, OrderInv

LEMMA AbandonConverges ==
  ASSUME OneSqliteWorker, ConvergeInv, NEW w \in Workers, Abandon(w)
  PROVE  ConvergeInv'
<1>0. DeliveryInv /\ OrderInv /\ WorkersInv
  BY DEF ConvergeInv, OrderInv, DeliveryInv
<1>1. DeliveryInv'
  BY <1>0, AbandonKeepsDelivery, Zenon
<1>2. /\ UNCHANGED <<entries, outbox, index, lost>> /\ Ids' = Ids
      /\ \A v \in Workers : v = w /\ jobs'[v] = {} /\ working'[v] = NULL
  BY <1>0 DEF Abandon, storeVars, Ids, OneSqliteWorker, WorkersInv
<1>3. OrderInv'
  BY <1>0, <1>2 DEF OrderInv, UpsertsOnly, RowsInOrder, RowsFollowEntries, Open,
     Newest, Payload, Point
<1>4. HeldInTurn'
  BY <1>2 DEF HeldInTurn, Holds
<1>5. IndexShows' /\ IndexTyped'
  BY <1>2 DEF ConvergeInv, IndexShows, IndexTyped, Shows, Newest, Payload
<1> QED
  BY <1>1, <1>3, <1>4, <1>5 DEF ConvergeInv, OrderInv

LEMMA TimeConverges ==
  ASSUME ConvergeInv, NEW i \in Ids, TimePasses(i)
  PROVE  ConvergeInv'
<1>0. DeliveryInv /\ StoreInv /\ OrderInv
  BY DEF ConvergeInv, OrderInv, DeliveryInv
<1>1. DeliveryInv'
  BY <1>0, TimeKeepsDelivery, Zenon
<1>2. /\ \/ outbox' = [outbox EXCEPT ![i] = ExpiredRow(outbox[i])]
         \/ outbox' = [outbox EXCEPT ![i] = ReadyRow(outbox[i])]
      /\ UNCHANGED <<entries, index, jobs, working, lost>>
  BY DEF TimePasses, LeaseExpires, BackoffElapses, workerVars, ExpiredRow, ReadyRow
<1>3. Ids' = Ids
  BY <1>0, <1>2 DEF Ids, StoreInv, StoreTypeOK
<1>4. \A j \in Ids : SameMutation(outbox[j], outbox'[j]) /\ outbox'[j].status = outbox[j].status
  <2>1. \A j \in Ids : /\ outbox[j] \in Row
                       /\ \/ outbox'[j] = outbox[j]
                          \/ outbox'[j] = ExpiredRow(outbox[j])
                          \/ outbox'[j] = ReadyRow(outbox[j])
    BY <1>0, <1>2, RowsTyped DEF StoreInv, StoreTypeOK, Ids
  <2>2. \A r \in Row : /\ SameMutation(r, r)
                       /\ SameMutation(r, ExpiredRow(r)) /\ ExpiredRow(r).status = r.status
                       /\ SameMutation(r, ReadyRow(r)) /\ ReadyRow(r).status = r.status
    BY DEF Row, SameMutation, ExpiredRow, ReadyRow
  <2> QED
    BY <2>1, <2>2
<1>5. \A j \in Ids : Open(j)' <=> Open(j)
  BY <1>4 DEF Open
<1>6. \A j, k \in Ids : j < k /\ outbox[j].uri = outbox[k].uri /\ Open(j)' => Open(k)'
  BY <1>0, <1>5 DEF OrderInv, RowsInOrder
<1>7. /\ OrderInv'
      /\ \A j \in Ids : InTurn(j) => InTurn(j)'
      /\ \A j \in Ids : Payload(j)' = Payload(j) /\ (Newest(j)' <=> Newest(j))
  BY <1>0, <1>2, <1>3, <1>4, <1>5, <1>6, EditsKeepOrder
<1>8. HeldInTurn'
  <2>1. \A w \in Workers, j \in Ids : Holds(w, j)' <=> Holds(w, j)
    BY <1>2 DEF Holds
  <2>2. \A j \in Ids : InHand(j) => InHand(j)'
    BY <1>4, <1>7 DEF InHand
  <2> QED
    BY <2>1, <2>2, <1>2, <1>3 DEF ConvergeInv, HeldInTurn
<1>9. IndexShows' /\ IndexTyped'
  <2>1. \A j \in Ids : Shows(j)' <=> Shows(j)
    BY <1>2, <1>4, <1>7 DEF Shows, SameMutation
  <2>2. \A j \in Ids : /\ Newest(j)' <=> Newest(j)
                       /\ outbox'[j].uri = outbox[j].uri /\ outbox'[j].status = outbox[j].status
    BY <1>4, <1>7 DEF SameMutation
  <2> QED
    BY <2>1, <2>2, <1>2, <1>3 DEF ConvergeInv, IndexShows, IndexTyped
<1> QED
  BY <1>1, <1>7, <1>8, <1>9 DEF ConvergeInv, OrderInv

LEMMA ResetConverges ==
  ASSUME ConvergeInv, IndexReset
  PROVE  ConvergeInv'
<1>1. /\ UNCHANGED <<entries, versions, relations, revision, outbox, jobs, working, applied>>
      /\ Ids' = Ids /\ lost' = TRUE /\ index' = NoPoints
  BY DEF IndexReset, storeVars, Ids
<1>2. DeliveryInv'
  BY <1>1 DEF ConvergeInv, DeliveryInv, StoreInv, StoreTypeOK, HistoryComplete, HistoryOf,
     WorkersInv, DoneMeansApplied
<1>3. OrderInv'
  BY <1>1 DEF ConvergeInv, OrderInv, UpsertsOnly, RowsInOrder, RowsFollowEntries, Open,
     Newest, Payload, Point
<1>4. HeldInTurn'
  BY <1>1 DEF ConvergeInv, HeldInTurn, Holds, InHand, InTurn, Older, Open
<1>5. IndexShows' /\ IndexTyped'
  BY <1>1 DEF IndexShows, IndexTyped, NoPoints
<1> QED
  BY <1>2, <1>3, <1>4, <1>5 DEF ConvergeInv, OrderInv

-----------------------------------------------------------------------------
(* What an append has to say: pending rows, at most one for a URI, each    *)
(* with the current version of its entry, and one for every entry that     *)
(* changed.                                                                *)
AppendsCurrent(rows) ==
  /\ rows \in Seq(Row)
  /\ outbox' = outbox \o rows
  /\ \A u \in Uris : entries[u] # NULL => entries'[u] # NULL /\ entries[u].ver <= entries'[u].ver
  /\ \A k \in 1..Len(rows) :
       \E u \in Uris : entries'[u] # NULL /\ entries'[u].emb /\ rows[k] = UpsertRow(entries'[u])
  /\ \A k, m \in 1..Len(rows) : rows[k].uri = rows[m].uri => k = m
  /\ \A u \in Uris : entries'[u] # NULL /\ entries'[u].emb =>
       \/ \E k \in 1..Len(rows) : rows[k].uri = u
       \/ entries'[u] = entries[u] /\ lost' = lost

LEMMA UpsertRowSays ==
  ASSUME NEW s \in Snapshot
  PROVE  /\ UpsertRow(s).op = "upsert" /\ UpsertRow(s).uri = s.uri
         /\ UpsertRow(s).target = s.uri /\ UpsertRow(s).from = s.uri
         /\ UpsertRow(s).ver = s.ver /\ UpsertRow(s).coll = s.coll
         /\ UpsertRow(s).status = "pending"
         /\ UpsertRow(s).body = s.body /\ UpsertRow(s).pver = s.ver
  BY ConstantsAssumption DEF UpsertRow, NewRow

LEMMA AppendConverges ==
  ASSUME ConvergeInv, DeliveryInv', NEW rows, AppendsCurrent(rows),
         UNCHANGED <<index, jobs, working>>,
         lost' = lost \/ \A w \in Workers : working[w] = NULL
  PROVE  ConvergeInv'
<1>0. StoreInv /\ StoreInv' /\ OrderInv /\ WorkersInv
  BY DEF ConvergeInv, OrderInv, DeliveryInv
<1>1. PICK n \in Nat : n = Len(outbox)
  BY <1>0 DEF StoreInv, StoreTypeOK
<1>2. /\ Ids = 1..n /\ Ids \subseteq Ids' /\ Ids' \subseteq Nat
      /\ \A i \in Ids : outbox'[i] = outbox[i]
      /\ \A i \in Ids' : \/ i \in Ids
                         \/ i - n \in 1..Len(rows) /\ outbox'[i] = rows[i - n] /\ n < i
      /\ \A k \in 1..Len(rows) : n + k \in Ids' /\ outbox'[n + k] = rows[k] /\ n + k \notin Ids
  <2>1. rows \in Seq(Row) /\ outbox \in Seq(Row) /\ outbox' = outbox \o rows
    BY <1>0 DEF AppendsCurrent, StoreInv, StoreTypeOK
  <2>2. PICK m \in Nat : m = Len(rows)
    BY <2>1
  <2>3. /\ Len(outbox') = n + m
        /\ \A i \in 1..n + m : outbox'[i] = IF i <= n THEN outbox[i] ELSE rows[i - n]
    BY <2>1, <2>2, <1>1
  <2>4. Ids = 1..n /\ Ids' = 1..n + m
    BY <2>3, <1>1 DEF Ids
  <2> QED
    BY <2>2, <2>3, <2>4, <1>1
<1>3. \A i \in Ids : outbox[i] \in Row /\ outbox[i].uri \in Uris /\ outbox[i].ver \in Nat
  BY <1>0, RowsTyped, ConstantsAssumption DEF Row
<1>4. \A u \in Uris : /\ entries[u] # NULL => entries[u].ver \in Nat
                      /\ entries'[u] # NULL => entries'[u] \in Snapshot /\ entries'[u].uri = u
                                               /\ entries'[u].ver \in Nat \ {0}
  BY <1>0, ConstantsAssumption
     DEF StoreInv, StoreTypeOK, HistoryComplete, HistoryOf, HistoryIn, Snapshot
(* A new row is the current version of its entry. *)
<1>5. \A i \in Ids' : i \notin Ids =>
        \E u \in Uris : /\ entries'[u] # NULL /\ entries'[u].emb /\ entries'[u] \in Snapshot
                        /\ outbox'[i] = UpsertRow(entries'[u]) /\ entries'[u].uri = u
  <2> SUFFICES ASSUME NEW i \in Ids', i \notin Ids
               PROVE  \E u \in Uris :
                        /\ entries'[u] # NULL /\ entries'[u].emb /\ entries'[u] \in Snapshot
                        /\ outbox'[i] = UpsertRow(entries'[u]) /\ entries'[u].uri = u
    OBVIOUS
  <2>1. i - n \in 1..Len(rows) /\ outbox'[i] = rows[i - n]
    BY <1>2
  <2>2. PICK u \in Uris : /\ entries'[u] # NULL /\ entries'[u].emb
                          /\ rows[i - n] = UpsertRow(entries'[u])
    BY <2>1 DEF AppendsCurrent
  <2> QED
    BY <2>1, <2>2, <1>4
<1>6. ASSUME NEW i \in Ids', i \notin Ids
      PROVE  /\ n < i /\ outbox'[i].uri \in Uris
             /\ entries'[outbox'[i].uri] # NULL
             /\ outbox'[i].ver = entries'[outbox'[i].uri].ver
             /\ outbox'[i].op = "upsert" /\ outbox'[i].ver # 0 /\ outbox'[i].ver \in Nat
             /\ outbox'[i].target = outbox'[i].uri /\ outbox'[i].from = outbox'[i].uri
             /\ outbox'[i].status = "pending"
             /\ outbox'[i].coll = entries'[outbox'[i].uri].coll
             /\ Payload(i)' = Point(entries'[outbox'[i].uri])
  <2>1. n < i
    BY <1>2, <1>6
  <2>2. PICK u \in Uris : /\ entries'[u] # NULL /\ entries'[u] \in Snapshot
                          /\ outbox'[i] = UpsertRow(entries'[u]) /\ entries'[u].uri = u
    BY <1>5, <1>6
  <2>3. PICK s \in Snapshot : s = entries'[u]
    BY <2>2
  <2>4. /\ s.uri = u /\ s.ver \in Nat \ {0}
        /\ outbox'[i] = UpsertRow(s)
    BY <2>2, <2>3, <1>4
  <2>5. Payload(i)' = Point(entries'[u])
    BY <2>3, <2>4, UpsertRowSays DEF Payload, Point
  <2> QED
    BY <2>1, <2>2, <2>3, <2>4, <2>5, UpsertRowSays
<1>7. \A i \in Ids : /\ entries[outbox[i].uri] # NULL /\ entries'[outbox[i].uri] # NULL
                     /\ outbox[i].ver <= entries'[outbox[i].uri].ver
  BY <1>0, <1>3, <1>4 DEF OrderInv, RowsFollowEntries, AppendsCurrent
<1>8. \A i, j \in Ids' : i \notin Ids /\ j \notin Ids /\ outbox'[i].uri = outbox'[j].uri => i = j
  <2> SUFFICES ASSUME NEW i \in Ids', NEW j \in Ids', i \notin Ids, j \notin Ids,
                      outbox'[i].uri = outbox'[j].uri
               PROVE  i = j
    OBVIOUS
  <2>1. i - n \in 1..Len(rows) /\ j - n \in 1..Len(rows)
        /\ rows[i - n].uri = rows[j - n].uri
    BY <1>2
  <2>2. i - n = j - n
    BY <2>1 DEF AppendsCurrent
  <2> QED
    BY <2>2, <1>1, <1>2
<1>9. UpsertsOnly'
  BY <1>0, <1>2, <1>6 DEF OrderInv, UpsertsOnly
<1>10. RowsInOrder'
  <2> SUFFICES ASSUME NEW i \in Ids', NEW j \in Ids', i < j, outbox'[i].uri = outbox'[j].uri
               PROVE  outbox'[i].ver <= outbox'[j].ver /\ (Open(i)' => Open(j)')
    BY DEF RowsInOrder
  <2>1. CASE i \in Ids /\ j \in Ids
    BY <2>1, <1>0, <1>2 DEF OrderInv, RowsInOrder, Open
  <2>2. CASE i \in Ids /\ j \notin Ids
    BY <2>2, <1>2, <1>6, <1>7 DEF Open
  <2>3. CASE i \notin Ids /\ j \in Ids
    BY <2>3, <1>1, <1>2
  <2>4. CASE i \notin Ids /\ j \notin Ids
    BY <2>4, <1>2, <1>8
  <2> QED
    BY <2>1, <2>2, <2>3, <2>4
(* A row stays the newest of its URI exactly where no new row names it. *)
<1>11. \A i \in Ids : Newest(i)' => Newest(i)
  BY <1>2 DEF Newest
<1>12. \A i \in Ids, j \in Ids' : Newest(i)' /\ j \notin Ids => outbox'[j].uri # outbox[i].uri
  BY <1>2, <1>1 DEF Newest
<1>13. RowsFollowEntries'
  <2>1. \A i \in Ids' : entries'[outbox'[i].uri] # NULL
                        /\ outbox'[i].ver <= entries'[outbox'[i].uri].ver
    BY <1>2, <1>6, <1>7
  <2>2. ASSUME NEW u \in Uris, entries'[u] # NULL, entries'[u].emb
        PROVE  \E i \in Ids' : /\ outbox'[i].uri = u /\ Newest(i)'
                               /\ outbox'[i].coll = entries'[u].coll
                               /\ Payload(i)' = Point(entries'[u])
    <3>1. CASE \E j \in Ids' : j \notin Ids /\ outbox'[j].uri = u
      <4>1. PICK j \in Ids' : j \notin Ids /\ outbox'[j].uri = u
        BY <3>1
      <4>2. Newest(j)'
        <5> SUFFICES ASSUME NEW m \in Ids', outbox'[m].uri = outbox'[j].uri PROVE m <= j
          BY DEF Newest
        <5>1. CASE m \in Ids
          BY <5>1, <4>1, <1>1, <1>2
        <5>2. CASE m \notin Ids
          BY <5>2, <4>1, <1>2, <1>8
        <5> QED
          BY <5>1, <5>2
      <4> QED
        BY <4>1, <4>2, <1>6
    <3>2. CASE ~ \E j \in Ids' : j \notin Ids /\ outbox'[j].uri = u
      <4>1. ~ \E k \in 1..Len(rows) : rows[k].uri = u
        BY <3>2, <1>2
      <4>2. entries'[u] = entries[u]
        BY <4>1, <2>2 DEF AppendsCurrent
      <4>3. PICK i \in Ids : /\ outbox[i].uri = u /\ Newest(i)
                             /\ outbox[i].coll = entries[u].coll
                             /\ Payload(i) = Point(entries[u])
        BY <4>2, <2>2, <1>0 DEF OrderInv, RowsFollowEntries
      <4>4. Payload(i)' = Payload(i)
        BY <1>2 DEF Payload
      <4>5. Newest(i)'
        BY <4>3, <3>2, <1>2 DEF Newest
      <4> QED
        BY <4>2, <4>3, <4>4, <4>5, <1>2
    <3> QED
      BY <3>1, <3>2
  <2> QED
    BY <2>1, <2>2 DEF RowsFollowEntries
<1>14. \A i \in Ids : InHand(i) => InHand(i)'
  <2> SUFFICES ASSUME NEW i \in Ids, InHand(i), NEW j \in Ids', Older(j, i)'
               PROVE  FALSE
    BY <1>2 DEF InHand, InTurn
  <2>1. CASE j \in Ids
    BY <2>1, <1>2 DEF InHand, InTurn, Older, Open
  <2>2. CASE j \notin Ids
    <3>1. outbox'[j].uri = outbox[i].uri /\ outbox[i].ver <= outbox'[j].ver /\ i < j
      BY <2>2, <1>1, <1>2, <1>6, <1>7 DEF Older
    <3> QED
      BY <3>1, <2>2, <1>2, <1>3, <1>6 DEF Older
  <2> QED
    BY <2>1, <2>2
<1>15. HeldInTurn'
  <2>1. ASSUME NEW w \in Workers, NEW i \in Ids', Holds(w, i)'
        PROVE  InHand(i)'
    <3>1. Holds(w, i) /\ i \in Ids
      BY <2>1, <1>0 DEF Holds, WorkersInv
    <3> QED
      BY <3>1, <1>14 DEF ConvergeInv, HeldInTurn
  <2> QED
    BY <2>1 DEF ConvergeInv, HeldInTurn
<1>16. \A i \in Ids : Shows(i)' <=> Shows(i)
  BY <1>2 DEF Shows, Payload
<1>17. IndexShows'
  <2>1. ASSUME ~lost', NEW w \in Workers, NEW i \in Ids', working'[w] # NULL,
               working'[w].id = i, working'[w].ok
        PROVE  Shows(i)'
    BY <2>1, <1>0, <1>16 DEF WorkersInv, ConvergeInv, IndexShows
  <2>2. ASSUME ~lost', NEW i \in Ids', outbox'[i].status = "done", Newest(i)',
               entries'[outbox'[i].uri].emb
        PROVE  Shows(i)'
    <3>1. i \in Ids /\ outbox'[i] = outbox[i] /\ outbox[i].uri \in Uris
      BY <2>2, <1>2, <1>3, <1>6
    <3>2. ~ \E k \in 1..Len(rows) : rows[k].uri = outbox[i].uri
      BY <2>2, <3>1, <1>2, <1>12
    <3>3. entries'[outbox[i].uri] = entries[outbox[i].uri] /\ lost' = lost
      BY <2>2, <3>1, <3>2, <1>7 DEF AppendsCurrent
    <3> QED
      BY <2>2, <3>1, <3>3, <1>11, <1>16 DEF ConvergeInv, IndexShows
  <2> QED
    BY <2>1, <2>2 DEF IndexShows
<1>18. IndexTyped'
  BY DEF ConvergeInv, IndexTyped
<1> QED
  BY <1>9, <1>10, <1>13, <1>15, <1>17, <1>18 DEF ConvergeInv

(* SetToSeq lists a finite set without repetition. *)
LEMMA SetToSeqLists ==
  ASSUME NEW S, IsFiniteSet(S)
  PROVE  /\ SetToSeq(S) \in Seq(S)
         /\ \A k, m \in 1..Len(SetToSeq(S)) : SetToSeq(S)[k] = SetToSeq(S)[m] => k = m
         /\ \A x \in S : \E k \in 1..Len(SetToSeq(S)) : SetToSeq(S)[k] = x
<1> DEFINE n == Cardinality(S)
<1>1. n \in Nat /\ ExistsBijection(1..n, S)
  BY FS_CardinalityType, Zenon
<1>2. \E g \in [1..n -> S] : IsInjective(g)
  BY <1>1 DEF ExistsBijection, Bijection, Injection
<1>3. SetToSeq(S) = CHOOSE g \in [1..n -> S] : IsInjective(g)
  BY DEF SetToSeq
<1> HIDE DEF n
<1>4. SetToSeq(S) \in [1..n -> S] /\ IsInjective(SetToSeq(S))
  BY <1>2, <1>3
<1>5. PICK f : f = SetToSeq(S)
  OBVIOUS
<1>6. f \in Injection(1..n, S)
  BY <1>4, <1>5 DEF Injection
<1>7. IsFiniteSet(1..n) /\ Cardinality(1..n) = n
  <2>1. IsFiniteSet(1..n) /\ Cardinality(1..n) = IF 1 > n THEN 0 ELSE n - 1 + 1
    BY <1>1, FS_Interval
  <2> QED
    BY <2>1, <1>1
<1>8. f \in Surjection(1..n, S)
  BY <1>6, <1>7, FS_Injection, Zenon DEF n
<1>9. \A x \in S : \E k \in 1..n : f[k] = x
  BY <1>8 DEF Surjection
<1>10. f \in Seq(S) /\ Len(f) = n
  BY <1>1, <1>4, <1>5
<1>11. \A k, m \in 1..n : f[k] = f[m] => k = m
  BY <1>4, <1>5 DEF IsInjective
<1> QED
  BY <1>5, <1>9, <1>10, <1>11

LEMMA WriteConverges ==
  ASSUME ConvergeInv, NEW u \in Uris, NEW in, in.body \in Bodies,
         in.coll \in Collections, in.emb \in BOOLEAN, Write(u, in), UNCHANGED workerVars
  PROVE  ConvergeInv'
<1>0. StoreInv /\ DeliveryInv
  BY DEF ConvergeInv, DeliveryInv
<1>1. NextVersion(u) \in 1..MaxVersion /\ (entries[u] # NULL => entries[u].ver <= NextVersion(u))
  BY <1>0, ConstantsAssumption
     DEF StoreInv, StoreTypeOK, Write, WriteInTx, NextVersion, Snapshot
<1>2. PICK s \in Snapshot : s = Stored(u, in, NextVersion(u))
  BY <1>1, StoredType
<1>3. s.uri = u /\ s.ver = NextVersion(u) /\ s # NULL
  BY <1>2, ConstantsAssumption DEF Stored
<1>4. /\ outbox' = outbox \o UpsertRows(s)
      /\ entries' = [entries EXCEPT ![u] = s]
      /\ UNCHANGED <<index, jobs, working, lost>>
  BY <1>2 DEF Write, WriteInTx, Enqueue, workerVars
<1>5. DeliveryInv'
  <2>1. StoreInv' /\ Appends
    BY <1>0, WriteKeepsInv, WriteAppends
  <2>2. UNCHANGED <<jobs, working, applied>>
    BY DEF workerVars
  <2> QED
    BY <1>0, <2>1, <2>2, AppendKeepsDelivery DEF DeliveryInv
<1>6. entries'[u] = s /\ \A x \in Uris : x # u => entries'[x] = entries[x]
  BY <1>0, <1>4 DEF StoreInv, StoreTypeOK
<1>7. AppendsCurrent(UpsertRows(s))
  <2>1. UpsertRow(s) \in Row /\ UpsertRow(s).uri = u
    BY <1>3, RowType, UpsertRowSays DEF Snapshot
  <2>2. \A x \in Uris : entries[x] # NULL =>
          entries'[x] # NULL /\ entries[x].ver <= entries'[x].ver
    <3>1. \A x \in Uris : entries[x] # NULL => entries[x].ver \in Nat
      BY <1>0 DEF StoreInv, StoreTypeOK, Snapshot
    <3> QED
      BY <3>1, <1>1, <1>3, <1>6
  <2>3. CASE s.emb
    <3>1. UpsertRows(s) = <<UpsertRow(s)>>
      BY <2>3 DEF UpsertRows
    <3>2. PICK r \in Row : r = UpsertRow(s)
      BY <2>1
    <3>3. <<r>> \in Seq(Row) /\ Len(<<r>>) = 1 /\ <<r>>[1] = r
      OBVIOUS
    <3>4. \A k \in 1..Len(<<r>>) : <<r>>[k] = UpsertRow(entries'[u])
      BY <3>2, <3>3, <1>6
    <3>5. \A k, m \in 1..Len(<<r>>) : k = m
      BY <3>3
    <3>6. \A x \in Uris : \/ \E k \in 1..Len(<<r>>) : <<r>>[k].uri = x
                          \/ entries'[x] = entries[x] /\ lost' = lost
      BY <2>1, <3>2, <3>3, <1>4, <1>6
    <3> QED
      BY <2>2, <2>3, <3>1, <3>2, <3>3, <3>4, <3>5, <3>6, <1>3, <1>4, <1>6 DEF AppendsCurrent
  <2>4. CASE ~s.emb
    <3>1. UpsertRows(s) = <<>>
      BY <2>4 DEF UpsertRows
    <3>2. \A x \in Uris : entries'[x].emb => entries'[x] = entries[x]
      BY <2>4, <1>6
    <3> QED
      BY <2>2, <3>1, <3>2, <1>4 DEF AppendsCurrent
  <2> QED
    BY <2>3, <2>4
<1> QED
  BY <1>4, <1>5, <1>7, AppendConverges, Zenon

LEMMA ReconcileConverges ==
  ASSUME OneSqliteWorker, ConvergeInv, NEW w \in Workers, Reconcile(w)
  PROVE  ConvergeInv'
<1>0. StoreInv /\ DeliveryInv
  BY DEF ConvergeInv, DeliveryInv
<1> DEFINE embedded == {u \in Uris : entries[u] # NULL /\ entries[u].emb}
<1> DEFINE S == {UpsertRow(entries[u]) : u \in embedded}
<1>1. /\ outbox' = outbox \o SetToSeq(S)
      /\ UNCHANGED <<entries, versions, relations, revision, index, jobs, working, applied>>
      /\ lost' = FALSE /\ working[w] = NULL
  BY DEF Reconcile, Enqueue, Idle
<1>2. \A u \in embedded : /\ u \in Uris /\ entries[u] \in Snapshot
                          /\ UpsertRow(entries[u]) \in Row
                          /\ UpsertRow(entries[u]).uri = u
                          /\ UpsertRow(entries[u]).status = "pending"
  <2> SUFFICES ASSUME NEW u \in embedded
               PROVE  /\ u \in Uris /\ entries[u] \in Snapshot
                      /\ UpsertRow(entries[u]) \in Row
                      /\ UpsertRow(entries[u]).uri = u
                      /\ UpsertRow(entries[u]).status = "pending"
    OBVIOUS
  <2>1. u \in Uris /\ entries[u] \in Snapshot /\ entries[u].uri = u
    BY <1>0, RowsTyped
  <2>2. UpsertRow(entries[u]) \in Row
    BY <2>1, RowType DEF Snapshot
  <2> QED
    BY <2>1, <2>2, UpsertRowSays
<1>3. S \subseteq Row
  BY <1>2
<1>4. IsFiniteSet(S)
  <2>1. IsFiniteSet(embedded)
    <3>1. embedded \in SUBSET Uris /\ IsFiniteSet(Uris)
      BY DEF OneSqliteWorker
    <3> QED
      BY <3>1, FS_Subset, Zenon
  <2>2. PICK f : f = [u \in embedded |-> UpsertRow(entries[u])]
    OBVIOUS
  <2>3. f \in Surjection(embedded, S)
    BY <2>2 DEF Surjection
  <2> QED
    BY <2>1, <2>3, FS_Surjection, Zenon
<1>5. PICK rows : rows = SetToSeq(S)
  OBVIOUS
<1>6. /\ rows \in Seq(S)
      /\ \A k, m \in 1..Len(rows) : rows[k] = rows[m] => k = m
      /\ \A x \in S : \E k \in 1..Len(rows) : rows[k] = x
  BY <1>4, <1>5, SetToSeqLists, Zenon
<1>7. \A k \in 1..Len(rows) : \E u \in embedded : rows[k] = UpsertRow(entries[u])
  BY <1>6
<1>8. \A u \in embedded : \E k \in 1..Len(rows) : rows[k] = UpsertRow(entries[u])
  BY <1>6
<1>9. rows \in Seq(Row)
  BY <1>3, <1>6
<1> HIDE DEF S
<1>10. Appends
  <2>1. outbox' = outbox \o rows
    BY <1>1, <1>5
  <2>2. \A k \in 1..Len(rows) : rows[k].status = "pending"
    BY <1>2, <1>7
  <2> QED
    BY <2>1, <2>2, <1>9, Zenon DEF Appends
<1>11. DeliveryInv'
  <2>1. WorkersInv' /\ DoneMeansApplied'
    BY <1>0, <1>1, <1>10, AppendKeepsDelivery
  <2>2. outbox' \in Seq(Row)
    BY <1>0, <1>1, <1>5, <1>9 DEF StoreInv, StoreTypeOK
  <2>3. StoreInv'
    BY <1>0, <1>1, <2>2, StoreUntouched
  <2> QED
    BY <2>1, <2>3 DEF DeliveryInv
<1>12. \A k, m \in 1..Len(rows) : rows[k].uri = rows[m].uri => k = m
  <2> SUFFICES ASSUME NEW k \in 1..Len(rows), NEW m \in 1..Len(rows), rows[k].uri = rows[m].uri
               PROVE  rows[k] = rows[m]
    BY <1>6
  <2>1. PICK u \in embedded : rows[k] = UpsertRow(entries[u])
    BY <1>7
  <2>2. PICK v \in embedded : rows[m] = UpsertRow(entries[v])
    BY <1>7
  <2> QED
    BY <2>1, <2>2, <1>2
<1>13. AppendsCurrent(rows)
  <2>1. \A u \in Uris : entries[u] # NULL => entries[u].ver <= entries[u].ver
    BY <1>0 DEF StoreInv, StoreTypeOK, Snapshot
  <2>2. \A u \in Uris : entries[u] # NULL /\ entries[u].emb =>
          \E k \in 1..Len(rows) : rows[k].uri = u
    BY <1>2, <1>8
  <2> QED
    BY <2>1, <2>2, <1>1, <1>5, <1>7, <1>9, <1>12 DEF AppendsCurrent
<1>14. \A v \in Workers : working[v] = NULL
  BY <1>1 DEF OneSqliteWorker
<1> QED
  BY <1>1, <1>11, <1>13, <1>14, AppendConverges

-----------------------------------------------------------------------------
LEMMA ConvergeInit == OutboxInit => ConvergeInv
<1> SUFFICES ASSUME OutboxInit PROVE ConvergeInv
  OBVIOUS
<1>1. DeliveryInv
  BY OutboxInitInv
<1>2. Ids = {}
  BY DEF Ids, OutboxInit, StoreInit
<1>3. OrderInv
  BY <1>2 DEF OrderInv, UpsertsOnly, RowsInOrder, RowsFollowEntries, OutboxInit, StoreInit
<1>4. HeldInTurn /\ IndexTyped /\ IndexShows
  BY <1>2 DEF OutboxInit, HeldInTurn, IndexTyped, NoPoints, IndexShows
<1> QED
  BY <1>1, <1>3, <1>4 DEF ConvergeInv, OrderInv

LEMMA ConvergeStep ==
  ASSUME OneSqliteWorker
  PROVE  ConvergeInv /\ [WriteNext]_vars => ConvergeInv'
<1> SUFFICES ASSUME ConvergeInv, [WriteNext]_vars PROVE ConvergeInv'
  OBVIOUS
<1>1. ASSUME NEW u \in Uris, NEW in \in Input, Write(u, in), UNCHANGED workerVars
      PROVE  ConvergeInv'
  BY <1>1, WriteConverges DEF Input
<1>2. ASSUME NEW u \in Uris, NEW v \in 1..MaxVersion, Rollback(u, v), UNCHANGED workerVars
      PROVE  ConvergeInv'
  <2>1. versions[u][v] \in Snapshot
    BY <1>2 DEF Rollback, ConvergeInv, DeliveryInv, StoreInv, StoreTypeOK
  <2> QED
    BY <1>2, <2>1, WriteConverges DEF Rollback, Snapshot
<1>3. ASSUME NEW w \in Workers, WorkerStep(w)
      PROVE  ConvergeInv'
  <2>1. ASSUME NEW outcome \in Outcomes, RenameUpsert(w, outcome)
        PROVE  FALSE
    BY <2>1 DEF RenameUpsert, ConvergeInv, HeldInTurn
  <2> QED
    BY <1>3, <2>1, ClaimConverges, CallConverges, FinishConverges DEF WorkerStep
<1>4. ASSUME NEW w \in Workers, Abandon(w)
      PROVE  ConvergeInv'
  BY <1>4, AbandonConverges
<1>5. ASSUME NEW i \in Ids, TimePasses(i)
      PROVE  ConvergeInv'
  BY <1>5, TimeConverges
<1>6. CASE Repair
  BY <1>6, ResetConverges, ReconcileConverges DEF Repair
<1>7. CASE UNCHANGED vars
  <2>1. UNCHANGED <<entries, versions, relations, revision, outbox, index, jobs, working,
                    applied, lost>> /\ Ids' = Ids
    BY <1>7 DEF vars, storeVars, workerVars, Ids
  <2>2. DeliveryInv'
    BY <2>1 DEF ConvergeInv, DeliveryInv, StoreInv, StoreTypeOK, HistoryComplete, HistoryOf,
       WorkersInv, DoneMeansApplied
  <2>3. OrderInv'
    BY <2>1 DEF ConvergeInv, OrderInv, UpsertsOnly, RowsInOrder, RowsFollowEntries, Open,
       Newest, Payload, Point
  <2>4. HeldInTurn'
    BY <2>1 DEF ConvergeInv, HeldInTurn, Holds, InHand, InTurn, Older, Open
  <2>5. IndexShows' /\ IndexTyped'
    BY <2>1 DEF ConvergeInv, IndexShows, IndexTyped, Shows, Newest, Payload
  <2> QED
    BY <2>2, <2>3, <2>4, <2>5 DEF ConvergeInv, OrderInv
<1> QED
  BY <1>1, <1>2, <1>3, <1>4, <1>5, <1>6, <1>7 DEF WriteNext, Writers, WorkerNext

LEMMA ConvergeInvConverges == ConvergeInv => Converged
<1> SUFFICES ASSUME ConvergeInv, NEW u \in Uris, entries[u] # NULL, entries[u].emb, Delivered(u)
             PROVE  index[entries[u].coll][u] = Point(entries[u])
  BY DEF Converged
<1>1. PICK i \in Ids : /\ outbox[i].uri = u /\ Newest(i)
                       /\ outbox[i].coll = entries[u].coll /\ Payload(i) = Point(entries[u])
  BY DEF ConvergeInv, RowsFollowEntries
<1>2. i \in RowsOf(u) /\ \A j \in RowsOf(u) : j <= i
  BY <1>1 DEF ConvergeInv, UpsertsOnly, RowsOf, Newest
<1>3. ~lost /\ outbox[i].status = "done"
  BY <1>2 DEF Delivered
<1> QED
  BY <1>1, <1>3 DEF ConvergeInv, IndexShows, Shows

(* Converged, for one worker on SQLite and writers that remove no URI:     *)
(* whatever is written or rolled back, however often a call fails after it *)
(* took effect, a lease expires, a batch is abandoned or the index is lost *)
(* and reconciled, once everything enqueued for an embedded entry is       *)
(* delivered the index holds its current version.                          *)
THEOREM IndexConverges ==
  ASSUME OneSqliteWorker
  PROVE  WriteSpec => []Converged
<1>1. OutboxInit => ConvergeInv
  BY ConvergeInit
<1>2. ConvergeInv /\ [WriteNext]_vars => ConvergeInv'
  BY ConvergeStep
<1>3. ConvergeInv => Converged
  BY ConvergeInvConverges
<1> QED
  BY <1>1, <1>2, <1>3, PTL DEF WriteSpec
=============================================================================
