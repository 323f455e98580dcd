------------------------- MODULE LifecycleExecution -------------------------
(* Durable execution of destructive lifecycle decisions (lifecycle_execution *)
(* of context-db-consolidation): LifecycleActionExecutor over                *)
(* FileLifecycleJournal and FileColdStorage.  A job of the journal takes one *)
(* entry out of the live stores in five phases, manifest, vector, graph,     *)
(* content and blobs, and checkpoints each; restore puts it back in four,    *)
(* blobs, content, graph and vector.                                         *)
(*                                                                           *)
(* One entry is modelled with every job on it (entries do not interact).     *)
(* Every call of a port and every journal transaction is a step; a process   *)
(* may stop between any two of them, a lease may end under its holder, and   *)
(* the entry may be written at any time.                                     *)
EXTENDS Integers, FiniteSets

CONSTANTS
  NULL,
  Tasks,        \* callers of run_pending and restore
  Keys,         \* idempotency keys: the operations submitted for the entry
  MaxAttempts,  \* LifecycleJob.max_attempts (5 in the code)
  PortsFail,    \* whether a call of a port may return an error
  MaxWrites,    \* bound: writes of the entry, the first and restores included
  MaxCrashes,   \* bound: tasks that stop in the middle
  MaxOverruns   \* bound: leases that end while their holder is working

ASSUME LifecycleAssumption ==
  /\ MaxAttempts \in Nat \ {0}
  /\ PortsFail \in BOOLEAN
  /\ MaxWrites \in Nat \ {0}
  /\ MaxCrashes \in Nat /\ MaxOverruns \in Nat

VARIABLES
  content,    \* the live entry, NULL when it is deleted
  vector,     \* body whose point the vector index holds, 0 for none
  graph,      \* whether the entry's edges are in the graph
  blobs,      \* bodies whose blob is stored
  writes,     \* number of writes so far; stamps entries
  cold,       \* cold[k]: the manifest of key k
  journal,    \* journal[k]: the job of key k
  leased,     \* keys whose lease_until lies ahead
  delayed,    \* keys whose next_attempt_at lies ahead
  task,       \* task[t]: what t is doing
  crashes, overruns

live == <<content, vector, graph, blobs, writes>>
timers == <<leased, delayed>>
faults == <<crashes, overruns>>
lifecycleVars == <<content, vector, graph, blobs, writes, cold, journal, leased, delayed,
                   task, crashes, overruns>>

-----------------------------------------------------------------------------

\* An entry: what it says, and the write that stored it (mvcc_version and
\* updated_at make the bytes of two writes differ).
Entry == [body : 1 .. MaxWrites, stamp : 1 .. MaxWrites]

Manifest == [entry : Entry, vector : 0 .. MaxWrites, graph : BOOLEAN]

\* checkpoint and restore_checkpoint are set one phase after the other, so each
\* is the number of phases done.
Job == [state : {"Pending", "Running", "Retryable", "Succeeded", "PermanentlyFailed"},
        attempts : Nat, checkpoint : 0 .. 5, restored : 0 .. 4, revision : Nat]

ASSUME NullAssumption ==
  NULL \notin Keys /\ NULL \notin Entry /\ NULL \notin Manifest /\ NULL \notin Job

Accepted == [state |-> "Pending", attempts |-> 0, checkpoint |-> 0, restored |-> 0,
             revision |-> 0]

Terminal(job) == job.state \in {"Succeeded", "PermanentlyFailed"}

Idle == [step |-> "idle", key |-> NULL, job |-> NULL, seen |-> NULL]

Executing == {"start", "phase", "put", "save", "succeed", "fail"}
Restoring == {"restore", "resave"}

Task == [step : {"idle"} \cup Executing \cup Restoring, key : Keys \cup {NULL},
         job : Job \cup {NULL}, seen : Entry \cup {NULL}]

\* The counts of attempts that LifecycleTypeOK allows: every attempt beyond
\* max_attempts was ended by a crash or by a lost lease, not by an error.
LifecycleTypeOK ==
  /\ content \in Entry \cup {NULL}
  /\ vector \in 0 .. MaxWrites
  /\ graph \in BOOLEAN
  /\ blobs \subseteq 1 .. MaxWrites
  /\ writes \in 1 .. MaxWrites
  /\ cold \in [Keys -> Manifest \cup {NULL}]
  /\ journal \in [Keys -> Job \cup {NULL}]
  /\ \A k \in Keys : journal[k] # NULL =>
       journal[k].attempts <= MaxAttempts + MaxCrashes + MaxOverruns
  /\ leased \subseteq Keys /\ delayed \subseteq Keys
  /\ task \in [Tasks -> Task]
  /\ \A t \in Tasks : task[t].step # "idle" => task[t].key \in Keys /\ task[t].job \in Job
  /\ crashes \in 0 .. MaxCrashes /\ overruns \in 0 .. MaxOverruns

LifecycleInit ==
  /\ content = [body |-> 1, stamp |-> 1]
  /\ vector = 1 /\ graph = TRUE /\ blobs = {1} /\ writes = 1
  /\ cold = [k \in Keys |-> NULL]
  /\ journal = [k \in Keys |-> NULL]
  /\ leased = {} /\ delayed = {}
  /\ task = [t \in Tasks |-> Idle]
  /\ crashes = 0 /\ overruns = 0

-----------------------------------------------------------------------------
(* The outside world.                                                        *)

\* The entry is written again: new body, new point, new blob.
Write ==
  /\ writes < MaxWrites
  /\ writes' = writes + 1
  /\ content' = [body |-> writes + 1, stamp |-> writes + 1]
  /\ vector' = writes + 1
  /\ blobs' = blobs \cup {writes + 1}
  /\ UNCHANGED <<graph, cold, journal, timers, task, faults>>

\* submit, route_metacog: the job of a key is accepted once; a later submit
\* returns the job that is there.
Submit(k) ==
  /\ journal[k] = NULL
  /\ journal' = [journal EXCEPT ![k] = Accepted]
  /\ UNCHANGED <<live, cold, timers, task, faults>>

\* The process of t stops.
Crash(t) ==
  /\ task[t].step # "idle"
  /\ crashes < MaxCrashes
  /\ crashes' = crashes + 1
  /\ task' = [task EXCEPT ![t] = Idle]
  /\ UNCHANGED <<live, cold, journal, timers, overruns>>

Working(k) == \E t \in Tasks : task[t].step \in Executing /\ task[t].key = k

\* Thirty seconds have passed since k was claimed.
LeaseExpires(k) ==
  /\ k \in leased
  /\ Working(k) => overruns < MaxOverruns
  /\ overruns' = IF Working(k) THEN overruns + 1 ELSE overruns
  /\ leased' = leased \ {k}
  /\ UNCHANGED <<live, cold, journal, delayed, task, crashes>>

\* next_attempt_at is reached.
BackoffElapses(k) ==
  /\ k \in delayed
  /\ delayed' = delayed \ {k}
  /\ UNCHANGED <<live, cold, journal, leased, task, faults>>

-----------------------------------------------------------------------------
(* run_pending and execute.                                                  *)

\* Fault: a job that is Running is never taken over.
ClaimableIdle(k) ==
  /\ journal[k] # NULL
  /\ ~Terminal(journal[k]) /\ journal[k].state # "Running"
  /\ k \notin leased /\ k \notin delayed

\* The filter of recoverable, repeated under the lock by claim.
Claimable(k) ==
  /\ journal[k] # NULL
  /\ ~Terminal(journal[k])
  /\ k \notin leased /\ k \notin delayed

\* claim: the lease is taken and the revision moves on.
Claim(t, k) ==
  /\ task[t].step = "idle"
  /\ Claimable(k)
  /\ LET job == [journal[k] EXCEPT !.revision = @ + 1] IN
     /\ journal' = [journal EXCEPT ![k] = job]
     /\ task' = [task EXCEPT ![t] = [step |-> "start", key |-> k, job |-> job, seen |-> NULL]]
  /\ leased' = leased \cup {k}
  /\ UNCHANGED <<live, cold, delayed, faults>>

\* Fault: update does not compare revisions.
CurrentAlways(t) == TRUE

\* update: the journal still has the revision that t read.
Current(t) == journal[task[t].key].revision = task[t].job.revision

Bumped(job) == [job EXCEPT !.revision = @ + 1]

\* A transaction of update with what t has made of its copy.
Update(t, job, step) ==
  /\ journal' = [journal EXCEPT ![task[t].key] = Bumped(job)]
  /\ task' = [task EXCEPT ![t] = [@ EXCEPT !.step = step, !.job = Bumped(job)]]

\* execute: the attempt is recorded before anything is touched; a stale claim
\* ends here.
Start(t) ==
  /\ task[t].step = "start"
  /\ IF Current(t)
     THEN Update(t, [task[t].job EXCEPT !.state = "Running", !.attempts = @ + 1], "phase")
     ELSE task' = [task EXCEPT ![t] = Idle] /\ UNCHANGED journal
  /\ UNCHANGED <<live, cold, timers, faults>>

\* A call of a port returns an error.
PortFails(t) ==
  /\ PortsFail
  /\ \/ task[t].step \in {"phase", "put"} /\ task[t].job.checkpoint < 5
     \/ task[t].step = "restore" /\ task[t].job.restored < 4
  /\ task' = [task EXCEPT ![t] = IF @.step = "restore" THEN Idle ELSE [@ EXCEPT !.step = "fail"]]
  /\ UNCHANGED <<live, cold, journal, timers, faults>>

\* Manifest, first half: read_entry; without an entry the attempt fails.
ReadEntry(t) ==
  /\ task[t].step = "phase" /\ task[t].job.checkpoint = 0
  /\ task' = [task EXCEPT ![t] =
       IF content = NULL THEN [@ EXCEPT !.step = "fail"]
       ELSE [@ EXCEPT !.step = "put", !.seen = content]]
  /\ UNCHANGED <<live, cold, journal, timers, faults>>

Advanced(job) == [job EXCEPT !.checkpoint = @ + 1]

\* The phase is done in t's copy of the job; the checkpoint is saved next.
PhaseDone(t) ==
  task' = [task EXCEPT ![t] = [@ EXCEPT !.step = "save", !.job = Advanced(task[t].job)]]

\* Manifest, second half: the blobs, edges and point of now, and put_manifest.
\* A manifest carries the time of its creation, so one that is there already
\* never has the same bytes: VersionConflict.
PutManifest(t) ==
  /\ task[t].step = "put"
  /\ IF task[t].seen.body \in blobs /\ cold[task[t].key] = NULL
     THEN /\ cold' = [cold EXCEPT ![task[t].key] =
                        [entry |-> task[t].seen, vector |-> vector, graph |-> graph]]
          /\ PhaseDone(t)
     ELSE /\ task' = [task EXCEPT ![t].step = "fail"]
          /\ UNCHANGED cold
  /\ UNCHANGED <<live, journal, timers, faults>>

\* vector.delete.
DeleteVector(t) ==
  /\ task[t].step = "phase" /\ task[t].job.checkpoint = 1
  /\ vector' = 0
  /\ PhaseDone(t)
  /\ UNCHANGED <<content, graph, blobs, writes, cold, journal, timers, faults>>

\* remove_edge for every edge of the manifest.
RemoveEdges(t) ==
  /\ task[t].step = "phase" /\ task[t].job.checkpoint = 2
  /\ graph' = (graph /\ ~cold[task[t].key].graph)
  /\ PhaseDone(t)
  /\ UNCHANGED <<content, vector, blobs, writes, cold, journal, timers, faults>>

\* content.delete: the store answers NotFound when there is no entry; with the
\* entry go its edges and, through the outbox, its point.
DeleteContent(t) ==
  /\ task[t].step = "phase" /\ task[t].job.checkpoint = 3
  /\ IF content = NULL
     THEN /\ task' = [task EXCEPT ![t].step = "fail"]
          /\ UNCHANGED <<content, vector, graph>>
     ELSE /\ content' = NULL /\ vector' = 0 /\ graph' = FALSE
          /\ PhaseDone(t)
  /\ UNCHANGED <<blobs, writes, cold, journal, timers, faults>>

\* Fault: the blobs of the entry as it is now, not as it was archived.
DeleteLiveBlobs(t) ==
  LET entry == IF content = NULL THEN cold[task[t].key].entry ELSE content IN
  /\ task[t].step = "phase" /\ task[t].job.checkpoint = 4
  /\ blobs' = blobs \ {entry.body}
  /\ PhaseDone(t)
  /\ UNCHANGED <<content, vector, graph, writes, cold, journal, timers, faults>>

\* blobs.delete for every blob of the manifest.
DeleteBlobs(t) ==
  /\ task[t].step = "phase" /\ task[t].job.checkpoint = 4
  /\ blobs' = blobs \ {cold[task[t].key].entry.body}
  /\ PhaseDone(t)
  /\ UNCHANGED <<content, vector, graph, writes, cold, journal, timers, faults>>

\* journal.update after a phase.
Save(t) ==
  /\ task[t].step = "save"
  /\ IF Current(t) THEN Update(t, task[t].job, "phase")
     ELSE task' = [task EXCEPT ![t].step = "fail"] /\ UNCHANGED journal
  /\ UNCHANGED <<live, cold, timers, faults>>

\* execute_phases returns Ok.
AllPhasesDone(t) ==
  /\ task[t].step = "phase" /\ task[t].job.checkpoint = 5
  /\ task' = [task EXCEPT ![t].step = "succeed"]
  /\ UNCHANGED <<live, cold, journal, timers, faults>>

\* Fault: one attempt too many.
ExhaustedLate(job) == job.attempts > MaxAttempts

Exhausted(job) == job.attempts >= MaxAttempts

Outcome(q) ==
  IF q.step = "succeed" THEN "Succeeded"
  ELSE IF Exhausted(q.job) THEN "PermanentlyFailed" ELSE "Retryable"

\* The final transition releases the lease; when it is stale it changes
\* nothing and run_pending returns an error.
Finish(t) ==
  /\ task[t].step \in {"succeed", "fail"}
  /\ task' = [task EXCEPT ![t] = Idle]
  /\ IF Current(t)
     THEN /\ journal' = [journal EXCEPT ![task[t].key] =
                           Bumped([task[t].job EXCEPT !.state = Outcome(task[t])])]
          /\ leased' = leased \ {task[t].key}
          /\ delayed' = IF task[t].step = "fail" THEN delayed \cup {task[t].key} ELSE delayed
     ELSE UNCHANGED <<journal, timers>>
  /\ UNCHANGED <<live, cold, faults>>

-----------------------------------------------------------------------------
(* restore.                                                                  *)

Unlocked(k) == \A t \in Tasks : task[t].step \in Restoring => task[t].key # k

\* Fault: restore does not look at the state of the job.
MayRestoreEarly(k) == cold[k] # NULL /\ journal[k] # NULL

\* The manifest exists and the job has succeeded.
MayRestore(k) == cold[k] # NULL /\ journal[k] # NULL /\ journal[k].state = "Succeeded"

BeginRestore(t, k) ==
  /\ task[t].step = "idle"
  /\ Unlocked(k)
  /\ MayRestore(k)
  /\ task' = [task EXCEPT ![t] = [step |-> "restore", key |-> k, job |-> journal[k], seen |-> NULL]]
  /\ UNCHANGED <<live, cold, journal, timers, faults>>

Restored(job) == [job EXCEPT !.restored = @ + 1]

RestoreDone(t) ==
  task' = [task EXCEPT ![t] = [@ EXCEPT !.step = "resave", !.job = Restored(task[t].job)]]

InPhase(t, n) == task[t].step = "restore" /\ task[t].job.restored = n

RestoreBlobs(t) ==
  /\ InPhase(t, 0)
  /\ blobs' = blobs \cup {cold[task[t].key].entry.body}
  /\ RestoreDone(t)
  /\ UNCHANGED <<content, vector, graph, writes, cold, journal, timers, faults>>

\* The entry is written when it is missing; one with other bytes than the
\* manifest's is a VersionConflict.
RestoreContent(t) ==
  LET entry == cold[task[t].key].entry IN
  /\ InPhase(t, 1)
  /\ \/ /\ content = NULL
        /\ writes < MaxWrites
        /\ writes' = writes + 1
        /\ content' = [entry EXCEPT !.stamp = writes + 1]
        /\ RestoreDone(t)
     \/ /\ content = entry
        /\ RestoreDone(t) /\ UNCHANGED <<content, writes>>
     \/ /\ content \notin {NULL, entry}
        /\ task' = [task EXCEPT ![t] = Idle] /\ UNCHANGED <<content, writes>>
  /\ UNCHANGED <<vector, graph, blobs, cold, journal, timers, faults>>

RestoreEdges(t) ==
  /\ InPhase(t, 2)
  /\ graph' = (graph \/ cold[task[t].key].graph)
  /\ RestoreDone(t)
  /\ UNCHANGED <<content, vector, blobs, writes, cold, journal, timers, faults>>

RestoreVector(t) ==
  LET point == cold[task[t].key].vector IN
  /\ InPhase(t, 3)
  /\ vector' = IF point = 0 THEN vector ELSE point
  /\ RestoreDone(t)
  /\ UNCHANGED <<content, graph, blobs, writes, cold, journal, timers, faults>>

\* journal.update after a phase of restore.
SaveRestore(t) ==
  /\ task[t].step = "resave"
  /\ IF Current(t) THEN Update(t, task[t].job, "restore")
     ELSE task' = [task EXCEPT ![t] = Idle] /\ UNCHANGED journal
  /\ UNCHANGED <<live, cold, timers, faults>>

EndRestore(t) ==
  /\ InPhase(t, 4)
  /\ task' = [task EXCEPT ![t] = Idle]
  /\ UNCHANGED <<live, cold, journal, timers, faults>>

-----------------------------------------------------------------------------

ExecuteStep(t) ==
  \/ Start(t) \/ ReadEntry(t) \/ PutManifest(t) \/ DeleteVector(t) \/ RemoveEdges(t)
  \/ DeleteContent(t) \/ DeleteBlobs(t) \/ Save(t) \/ AllPhasesDone(t) \/ Finish(t)

RestoreStep(t) ==
  \/ RestoreBlobs(t) \/ RestoreContent(t) \/ RestoreEdges(t) \/ RestoreVector(t)
  \/ SaveRestore(t) \/ EndRestore(t)

TaskStep(t) == ExecuteStep(t) \/ RestoreStep(t) \/ PortFails(t)

LifecycleNext ==
  \/ Write
  \/ \E k \in Keys : Submit(k) \/ LeaseExpires(k) \/ BackoffElapses(k)
  \/ \E t \in Tasks :
       \/ TaskStep(t) \/ Crash(t)
       \/ \E k \in Keys : Claim(t, k) \/ BeginRestore(t, k)

\* Time passes, ports answer, and run_pending is called again and again (each
\* Sleeptime round begins with it).
LifecycleFairness ==
  /\ \A t \in Tasks : WF_lifecycleVars(TaskStep(t))
  /\ \A k \in Keys :
       /\ WF_lifecycleVars(LeaseExpires(k))
       /\ WF_lifecycleVars(BackoffElapses(k))
       /\ SF_lifecycleVars(\E t \in Tasks : Claim(t, k))

LifecycleSpec == LifecycleInit /\ [][LifecycleNext]_lifecycleVars /\ LifecycleFairness

-----------------------------------------------------------------------------
(* Properties.                                                               *)

Archived(body) == \E k \in Keys : cold[k] # NULL /\ cold[k].entry.body = body

\* What a job has removed from the live stores is in cold storage, wherever the
\* process stopped and whoever holds the lease: without an entry there is a
\* manifest, and a live entry whose blob is gone finds it in one.
NothingVanishes ==
  IF content = NULL THEN \E k \in Keys : cold[k] # NULL
  ELSE content.body \in blobs \/ Archived(content.body)

\* The journal only moves forward: checkpoints are never taken back and a job
\* that has succeeded or failed for good stays so, although two tasks may hold
\* copies of it after a lease has run out.
ProgressKept ==
  [][\A k \in Keys : journal[k] # NULL =>
       /\ journal'[k].checkpoint >= journal[k].checkpoint
       /\ journal'[k].restored >= journal[k].restored
       /\ Terminal(journal[k]) => journal'[k].state = journal[k].state]_lifecycleVars

\* Nothing is restored that a job may still be taking apart: a restore has
\* begun only on a job whose five phases are checkpointed.
RestoredAfterSuccess ==
  \A k \in Keys : journal[k] # NULL =>
    /\ journal[k].restored > 0 => journal[k].state = "Succeeded"
    /\ journal[k].state = "Succeeded" => journal[k].checkpoint = 5

\* Every accepted job succeeds or fails for good, although processes stop,
\* ports fail and leases run out.
JobsSettle ==
  \A k \in Keys : journal[k] # NULL ~> (journal[k] # NULL /\ Terminal(journal[k]))

\* The header of lifecycle_execution.rs: "a process restart resumes at the first
\* incomplete phase".  A job whose ports never fail is not given up.
RestartResumes ==
  \A k \in Keys : journal[k] # NULL => journal[k].state # "PermanentlyFailed"

=============================================================================
