----------------------------- MODULE IndexOutbox -----------------------------
(***************************************************************************)
(* The worker that carries outbox rows to the vector index:                *)
(* crates/context-db-storage/src/outbox.rs, on top of the store that       *)
(* enqueues the rows.                                                      *)
(*                                                                         *)
(* A worker claims a batch of rows in one transaction, then handles them   *)
(* one by one: one or two calls to the index, each of which may fail with  *)
(* or without having taken effect, then a status update in the database.   *)
(* Writers, other workers, expiring leases and crashes interleave between  *)
(* all of these steps.  A row is named by its position in outbox, which is *)
(* its creation order.                                                     *)
(***************************************************************************)
EXTENDS ContextStore

CONSTANTS
  Backend,       \* "sqlite" or "postgres": the claim queries differ
  Workers,       \* processes that run start_worker on one database
  BatchSize,     \* OutboxConfig::batch_size
  MaxAttempts,   \* OutboxConfig::max_attempts
  MaxAbandon,    \* bound: batches abandoned half way
  MaxReconcile,  \* bound: reconciliation passes
  MaxReset       \* bound: losses of the whole index

ASSUME OutboxAssumption ==
  /\ Backend \in {"sqlite", "postgres"}
  /\ BatchSize \in Nat \ {0}
  /\ MaxAttempts \in Nat \ {0}
  /\ MaxAbandon \in Nat
  /\ MaxReconcile \in Nat
  /\ MaxReset \in Nat
  /\ NULL \notin [body : Bodies, ver : 1..MaxVersion]

VARIABLES
  index,      \* the vector index: a point or NULL per collection and URI
  jobs,       \* per worker: the claimed jobs it has not started
  working,    \* per worker: the job between apply and finish, or NULL
  applied,    \* rows whose index calls have all succeeded (history variable)
  lost,       \* the index was lost and not yet reconciled (history variable)
  abandons, reconciles, resets   \* counters for the bounds

workerVars ==
  <<index, jobs, working, applied, lost, abandons, reconciles, resets>>

vars == <<storeVars, workerVars>>

Ids == 1..Len(outbox)

Job == [id : Nat, attempts : Nat]

Work == [id : Nat, attempts : Nat, stage : {"upsert", "finish"}, ok : BOOLEAN]

Idle(w) == jobs[w] = {} /\ working[w] = NULL

-----------------------------------------------------------------------------
(* claim *)
Open(i) == outbox[i].status \notin {"done", "dead"}

Available(i) == outbox[i].status \in {"pending", "failed"} /\ outbox[i].ready

(* Fault: the row of a crashed worker is never reclaimed. *)
ReclaimableNever(i) == FALSE

Reclaimable(i) == outbox[i].status = "processing" /\ ~outbox[i].leased

(* The NOT EXISTS subquery.  A comparison with a NULL version (ver = 0) is *)
(* NULL, so a row without a version neither waits nor makes others wait.   *)
Older(j, i) ==
  /\ outbox[j].uri = outbox[i].uri
  /\ Open(j)
  /\ outbox[j].ver # 0 /\ outbox[i].ver # 0
  /\ \/ outbox[j].ver < outbox[i].ver
     \/ outbox[j].ver = outbox[i].ver /\ j < i

(* Fault: rows are claimed out of turn. *)
InTurnAlways(i) == TRUE

InTurn(i) == ~ \E j \in Ids : Older(j, i)

(* The SQLite query guards both alternatives with NOT EXISTS.  In the      *)
(* PostgreSQL query AND binds tighter than OR, so only the reclaim of an   *)
(* expired row is guarded.                                                 *)
Claimable(i) ==
  \/ Available(i) /\ (Backend = "sqlite" => InTurn(i))
  \/ Reclaimable(i) /\ InTurn(i)

Claim(w) ==
  LET able == {i \in Ids : Claimable(i)}
      picked == {i \in able : Rank(able, i) <= BatchSize}
  IN  /\ Idle(w)
      /\ picked # {}
      /\ outbox' = [i \in Ids |->
           IF i \in picked
           THEN [outbox[i] EXCEPT !.status = "processing", !.leased = TRUE,
                                  !.attempts = @ + 1]
           ELSE outbox[i]]
      /\ jobs' = [jobs EXCEPT ![w] =
           {[id |-> i, attempts |-> outbox[i].attempts + 1] : i \in picked}]
      /\ UNCHANGED <<entries, versions, relations, revision, index, working,
                     applied, lost, abandons, reconciles, resets>>

-----------------------------------------------------------------------------
(* apply: the first index call of a claimed job.  RETURNING gives the jobs *)
(* in no particular order.  The call succeeds, fails, or takes effect and  *)
(* reports a failure.                                                      *)
Outcomes == {"ok", "failed", "lost"}

Stage(id, attempts, stage, ok) ==
  [id |-> id, attempts |-> attempts, stage |-> stage, ok |-> ok]

FirstCall(row, ix) ==
  IF row.op = "upsert" THEN PutPoint(ix, row) ELSE DropPoint(ix, row)

CallIndex(w, job, outcome) ==
  LET row == outbox[job.id]
      more == row.op = "rename" /\ row.point /\ outcome = "ok"
  IN  /\ working[w] = NULL
      /\ job \in jobs[w]
      /\ jobs' = [jobs EXCEPT ![w] = @ \ {job}]
      /\ index' = IF outcome = "failed" THEN index ELSE FirstCall(row, index)
      /\ working' = [working EXCEPT ![w] =
           Stage(job.id, job.attempts, IF more THEN "upsert" ELSE "finish",
                 outcome = "ok")]
      /\ applied' = IF outcome = "ok" /\ ~more THEN applied \cup {job.id} ELSE applied
      /\ UNCHANGED <<storeVars, lost, abandons, reconciles, resets>>

(* Fault: an error of the second call is swallowed. *)
RenameUpsertUnchecked(w, outcome) ==
  /\ working[w] # NULL
  /\ working[w].stage = "upsert"
  /\ index' = IF outcome = "failed" THEN index
              ELSE PutPoint(index, outbox[working[w].id])
  /\ working' = [working EXCEPT ![w] = Stage(@.id, @.attempts, "finish", TRUE)]
  /\ applied' = IF outcome = "ok" THEN applied \cup {working[w].id} ELSE applied
  /\ UNCHANGED <<storeVars, jobs, lost, abandons, reconciles, resets>>

(* The second call of a rename. *)
RenameUpsert(w, outcome) ==
  /\ working[w] # NULL
  /\ working[w].stage = "upsert"
  /\ index' = IF outcome = "failed" THEN index
              ELSE PutPoint(index, outbox[working[w].id])
  /\ working' = [working EXCEPT ![w] =
       Stage(@.id, @.attempts, "finish", outcome = "ok")]
  /\ applied' = IF outcome = "ok" THEN applied \cup {working[w].id} ELSE applied
  /\ UNCHANGED <<storeVars, jobs, lost, abandons, reconciles, resets>>

(* finish: the update names the row by its id only, not by its lease. *)
FinishStatus(work) ==
  IF work.ok THEN "done"
  ELSE IF work.attempts >= MaxAttempts THEN "dead" ELSE "failed"

Finish(w) ==
  /\ working[w] # NULL
  /\ working[w].stage = "finish"
  /\ outbox' = [outbox EXCEPT ![working[w].id] =
       [@ EXCEPT !.status = FinishStatus(working[w]), !.ready = FALSE,
                 !.leased = FALSE]]
  /\ working' = [working EXCEPT ![w] = NULL]
  /\ UNCHANGED <<entries, versions, relations, revision, index, jobs, applied,
                 lost, abandons, reconciles, resets>>

(* The process crashes, the runtime guard is dropped and aborts the task,  *)
(* or a database error makes process_batch return early: the rest of the   *)
(* batch is forgotten and its rows stay in processing.                     *)
Abandon(w) ==
  /\ ~Idle(w)
  /\ abandons < MaxAbandon
  /\ abandons' = abandons + 1
  /\ jobs' = [jobs EXCEPT ![w] = {}]
  /\ working' = [working EXCEPT ![w] = NULL]
  /\ UNCHANGED <<storeVars, index, applied, lost, reconciles, resets>>

(* Time passes: lease_until or available_at of a row lies in the past. *)
LeaseExpires(i) ==
  /\ outbox[i].status = "processing" /\ outbox[i].leased
  /\ outbox' = [outbox EXCEPT ![i].leased = FALSE]
  /\ UNCHANGED <<entries, versions, relations, revision, workerVars>>

BackoffElapses(i) ==
  /\ outbox[i].status = "failed" /\ ~outbox[i].ready
  /\ outbox' = [outbox EXCEPT ![i].ready = TRUE]
  /\ UNCHANGED <<entries, versions, relations, revision, workerVars>>

(* reconcile_all: one upsert row for every embedded current entry.  The    *)
(* loop of start_worker runs it between batches.                           *)
Reconcile(w) ==
  LET embedded == {u \in Uris : entries[u] # NULL /\ entries[u].emb}
      rows == SetToSeq({UpsertRow(entries[u]) : u \in embedded})
  IN  /\ Idle(w)
      /\ reconciles < MaxReconcile
      /\ reconciles' = reconciles + 1
      /\ lost' = FALSE
      /\ Enqueue(rows)
      /\ UNCHANGED <<entries, versions, relations, revision, index, jobs,
                     working, applied, abandons, resets>>

(* The index loses its points (external); reconciliation repairs it.       *)
IndexReset ==
  /\ resets < MaxReset
  /\ resets' = resets + 1
  /\ lost' = TRUE
  /\ index' = NoPoints
  /\ UNCHANGED <<storeVars, jobs, working, applied, abandons, reconciles>>

-----------------------------------------------------------------------------
OutboxInit ==
  /\ StoreInit
  /\ index = NoPoints
  /\ jobs = [w \in Workers |-> {}]
  /\ working = [w \in Workers |-> NULL]
  /\ applied = {}
  /\ lost = FALSE
  /\ abandons = 0
  /\ reconciles = 0
  /\ resets = 0

WorkerStep(w) ==
  \/ Claim(w)
  \/ \E job \in jobs[w], outcome \in Outcomes : CallIndex(w, job, outcome)
  \/ \E outcome \in Outcomes : RenameUpsert(w, outcome)
  \/ Finish(w)

TimePasses(i) == LeaseExpires(i) \/ BackoffElapses(i)

WorkerNext ==
  \/ \E w \in Workers : WorkerStep(w) \/ Abandon(w)
  \/ \E i \in Ids : TimePasses(i)

(* Writers that never remove a URI. *)
Writers ==
  /\ \/ \E u \in Uris, in \in Input : Write(u, in)
     \/ \E u \in Uris, v \in 1..MaxVersion : Rollback(u, v)
  /\ UNCHANGED workerVars

(* Writers that also delete and rename. *)
Movers ==
  /\ \/ \E u \in Uris : Delete(u)
     \/ \E from, to \in Uris : Rename(from, to)
  /\ UNCHANGED workerVars

Repair == IndexReset \/ \E w \in Workers : Reconcile(w)

(* A running worker polls for ever, and time passes.  Nothing is assumed   *)
(* of the writers, of the index calls' outcomes or of reconciliation.      *)
WorkerFairness ==
  /\ \A w \in Workers : WF_vars(WorkerStep(w))
  /\ \A i \in 1..MaxOutbox : WF_vars(i \in Ids /\ TimePasses(i))

WriteNext == Writers \/ WorkerNext \/ Repair
WriteSpec == OutboxInit /\ [][WriteNext]_vars

OutboxNext == Writers \/ Movers \/ WorkerNext
OutboxSpec == OutboxInit /\ [][OutboxNext]_vars /\ WorkerFairness

-----------------------------------------------------------------------------
(* Delivery is at least once: a row is marked done only after every index  *)
(* call of its mutation has succeeded, even when leases expire and rows    *)
(* are handled twice.                                                      *)
DoneMeansApplied == \A i \in Ids : outbox[i].status = "done" => i \in applied

(* Everything enqueued for u has been delivered: no row of u is open, no   *)
(* worker holds one, the last of them is done (earlier ones may have been  *)
(* given up), and the index has not been lost since.                       *)
RowsOf(u) == {i \in Ids : outbox[i].target = u \/ outbox[i].from = u}

Holds(w, i) ==
  \/ \E job \in jobs[w] : job.id = i
  \/ working[w] # NULL /\ working[w].id = i

Delivered(u) ==
  /\ ~lost
  /\ \A i \in RowsOf(u) : ~Open(i) /\ \A w \in Workers : ~Holds(w, i)
  /\ \A i \in RowsOf(u) :
       (\A j \in RowsOf(u) : j <= i) => outbox[i].status = "done"

(* Nothing but a write or a rollback has ever enqueued a row of u. *)
OnlyWritten(u) == \A i \in RowsOf(u) : outbox[i].op = "upsert"

(* The derived layer converges: once everything enqueued for an embedded   *)
(* current entry is delivered, the index holds its current version.  A row *)
(* of a deletion has no version, so of a URI that was removed or renamed   *)
(* the query of claim does not promise it (outbox.rs:114).                 *)
Converged ==
  \A u \in Uris :
    entries[u] # NULL /\ entries[u].emb /\ OnlyWritten(u) /\ Delivered(u)
      => index[entries[u].coll][u] = Point(entries[u])

(* Every row that is enqueued is eventually delivered or given up. *)
Settled(i) == i \in Ids /\ ~Open(i)

RowsSettle == \A i \in 1..MaxOutbox : (i \in Ids) ~> Settled(i)
=============================================================================
