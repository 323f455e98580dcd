--------------------------- MODULE LifecycleProofs --------------------------
(* Why a lifecycle job never removes what is not in cold storage, for any    *)
(* number of tasks, keys, crashes, lost leases and writes.  A checkpoint     *)
(* beyond the first phase, in the journal or in the copy of a task that may  *)
(* long have lost its lease, implies that the manifest of its key exists; a  *)
(* manifest is never replaced; and only such copies delete.                  *)
EXTENDS LifecycleExecution, TLAPS

\* The types of the live stores.
Stored ==
  /\ content \in Entry \cup {NULL}
  /\ vector \in 0 .. MaxWrites
  /\ graph \in BOOLEAN
  /\ writes \in 1 .. MaxWrites

\* The types of manifests, jobs and tasks.
Typed ==
  /\ cold \in [Keys -> Manifest \cup {NULL}]
  /\ journal \in [Keys -> Job \cup {NULL}]
  /\ task \in [Tasks -> Task]
  /\ \A t \in Tasks : task[t].step # "idle" => task[t].key \in Keys /\ task[t].job \in Job
  /\ \A t \in Tasks : task[t].step = "put" => task[t].seen \in Entry /\ task[t].job.checkpoint = 0

\* The copy of t stands beyond the manifest phase, or t restores.
Beyond(t) ==
  \/ task[t].step \in Executing /\ task[t].job.checkpoint >= 1
  \/ task[t].step \in Restoring

\* Who is beyond the manifest phase has a manifest.
Manifested ==
  /\ \A k \in Keys : journal[k] # NULL /\ journal[k].checkpoint >= 1 => cold[k] # NULL
  /\ \A t \in Tasks : Beyond(t) => cold[task[t].key] # NULL

LifecycleInv == Stored /\ Typed /\ Manifested /\ NothingVanishes

-----------------------------------------------------------------------------

LEMMA InitLifecycle == LifecycleInit => LifecycleInv
BY LifecycleAssumption, NullAssumption
   DEF LifecycleInit, LifecycleInv, Stored, Typed, Manifested, NothingVanishes, Beyond, Entry, Task,
       Idle, Executing, Restoring

\* What the tasks do to their own copies and to the journal keeps the types and
\* the manifests, as long as no manifest goes: the steps below only have to say
\* what they make of one job and one task.
LEMMA TaskMoves ==
  ASSUME LifecycleInv, NEW t \in Tasks, NEW q \in Task, task' = [task EXCEPT ![t] = q],
         q.step # "idle" => q.key \in Keys /\ q.job \in Job,
         q.step = "put" => q.seen \in Entry /\ q.job.checkpoint = 0,
         q.step \in Executing /\ q.job.checkpoint >= 1 => cold'[q.key] # NULL,
         q.step \in Restoring => cold'[q.key] # NULL,
         \A k \in Keys : cold[k] # NULL => cold'[k] # NULL,
         cold' \in [Keys -> Manifest \cup {NULL}],
         journal' = journal
  PROVE  Typed' /\ Manifested'
BY DEF LifecycleInv, Typed, Manifested, Beyond, Executing, Restoring

LEMMA JobMoves ==
  ASSUME LifecycleInv, NEW t \in Tasks, NEW q \in Task, task' = [task EXCEPT ![t] = q],
         NEW k \in Keys, NEW job \in Job, journal' = [journal EXCEPT ![k] = job],
         job.checkpoint >= 1 => cold[k] # NULL,
         q.step # "put", q.step # "idle" => q.key = k /\ q.job = job,
         q.step \in Restoring => cold[k] # NULL,
         cold' = cold
  PROVE  Typed' /\ Manifested'
BY DEF LifecycleInv, Typed, Manifested, Beyond, Executing, Restoring

\* The live stores and the manifests stay.
LEMMA StoresStay ==
  ASSUME NothingVanishes, UNCHANGED <<content, blobs, cold>>
  PROVE  NothingVanishes'
BY DEF NothingVanishes, Archived

-----------------------------------------------------------------------------

\* The steps of the outside world.
LEMMA WorldStep ==
  ASSUME LifecycleInv,
         \/ Write
         \/ \E k \in Keys : Submit(k) \/ LeaseExpires(k) \/ BackoffElapses(k)
         \/ \E t \in Tasks : Crash(t)
  PROVE  LifecycleInv'
<1> USE DEF live, timers, faults
<1>1. CASE Write
  <2>1. Stored'
    BY <1>1, LifecycleAssumption DEF Write, LifecycleInv, Stored, Entry
  <2>2. Typed' /\ Manifested'
    BY <1>1 DEF Write, LifecycleInv, Typed, Manifested, Beyond
  <2>3. NothingVanishes'
    BY <1>1, <2>1, NullAssumption DEF Write, NothingVanishes, Stored, Entry
  <2> QED
    BY <2>1, <2>2, <2>3 DEF LifecycleInv
<1>2. ASSUME NEW k \in Keys, Submit(k) PROVE LifecycleInv'
  <2>1. Accepted \in Job /\ Accepted.checkpoint = 0
    BY DEF Accepted, Job
  <2>2. Typed' /\ Manifested'
    BY <1>2, <2>1 DEF Submit, LifecycleInv, Typed, Manifested, Beyond
  <2> QED
    BY <1>2, <2>2, StoresStay DEF Submit, LifecycleInv, Stored
<1>3. ASSUME NEW k \in Keys, LeaseExpires(k) \/ BackoffElapses(k) PROVE LifecycleInv'
  BY <1>3, StoresStay DEF LeaseExpires, BackoffElapses, LifecycleInv, Stored, Typed, Manifested, Beyond
<1>4. ASSUME NEW t \in Tasks, Crash(t) PROVE LifecycleInv'
  <2>1. Idle \in Task /\ Idle.step = "idle"
    BY DEF Idle, Task
  <2>2. Typed' /\ Manifested'
    BY <1>4, <2>1, TaskMoves DEF Crash, LifecycleInv, Typed, Executing, Restoring
  <2> QED
    BY <1>4, <2>2, StoresStay DEF Crash, LifecycleInv, Stored
<1> QED
  BY <1>1, <1>2, <1>3, <1>4

\* A task that keeps its manifest, whatever becomes of its step and its copy.
LEMMA IdleTask == Idle \in Task /\ Idle.step = "idle"
BY DEF Idle, Task

\* t leaves its call.
LEMMA TaskEnds ==
  ASSUME LifecycleInv, NEW t \in Tasks, task' = [task EXCEPT ![t] = Idle],
         UNCHANGED <<cold, journal>>
  PROVE  Typed' /\ Manifested'
BY IdleTask, TaskMoves DEF LifecycleInv, Typed, Executing, Restoring

\* t goes on executing with the same copy.
LEMMA TaskGoesOn ==
  ASSUME LifecycleInv, NEW t \in Tasks, task[t].step \in Executing,
         NEW step \in Executing, NEW seen \in Entry \cup {NULL},
         step = "put" => seen \in Entry /\ task[t].job.checkpoint = 0,
         task' = [task EXCEPT ![t] = [@ EXCEPT !.step = step, !.seen = seen]],
         UNCHANGED <<cold, journal>>
  PROVE  Typed' /\ Manifested'
<1> DEFINE q == [task[t] EXCEPT !.step = step, !.seen = seen]
<1>1. q \in Task /\ q.step = step /\ q.key = task[t].key /\ q.job = task[t].job
      /\ q.seen = seen
  BY DEF LifecycleInv, Typed, Task
<1>2. task[t].key \in Keys /\ task[t].job \in Job
  BY DEF LifecycleInv, Typed, Executing
<1>3. q.job.checkpoint >= 1 => cold[q.key] # NULL
  BY <1>1 DEF LifecycleInv, Manifested, Beyond
<1>4. step \notin Restoring
  BY DEF Executing, Restoring
<1> QED
  BY <1>1, <1>2, <1>3, <1>4, TaskMoves DEF LifecycleInv, Typed

\* t finishes a phase of its copy.
LEMMA PhaseMoves ==
  ASSUME LifecycleInv, NEW t \in Tasks, task[t].step \in Executing, PhaseDone(t),
         task[t].job.checkpoint < 5,
         cold' \in [Keys -> Manifest \cup {NULL}],
         \A k \in Keys : cold[k] # NULL => cold'[k] # NULL,
         cold'[task[t].key] # NULL, journal' = journal
  PROVE  Typed' /\ Manifested'
<1> DEFINE q == [task[t] EXCEPT !.step = "save", !.job = Advanced(task[t].job)]
<1>1. task[t] \in Task /\ task[t].key \in Keys /\ task[t].job \in Job
  BY DEF LifecycleInv, Typed, Executing
<1>2. Advanced(task[t].job) \in Job
  BY <1>1 DEF Advanced, Job
<1>3. q \in Task /\ q.step = "save" /\ q.key = task[t].key /\ q.job \in Job
  BY <1>1, <1>2 DEF Task, Executing
<1>4. task' = [task EXCEPT ![t] = q]
  BY DEF PhaseDone
<1> QED
  BY <1>1, <1>3, <1>4, TaskMoves DEF Executing, Restoring

\* t stores a copy of its job.
LEMMA UpdateMoves ==
  ASSUME LifecycleInv, NEW t \in Tasks, task[t].step # "idle",
         NEW job \in Job, NEW step \in Executing \cup Restoring, step # "put",
         Update(t, job, step),
         job.checkpoint >= 1 => cold[task[t].key] # NULL,
         step \in Restoring => cold[task[t].key] # NULL,
         cold' = cold
  PROVE  Typed' /\ Manifested'
<1> DEFINE q == [task[t] EXCEPT !.step = step, !.job = Bumped(job)]
<1>1. task[t] \in Task /\ task[t].key \in Keys
  BY DEF LifecycleInv, Typed
<1>2. Bumped(job) \in Job /\ Bumped(job).checkpoint = job.checkpoint
  BY DEF Bumped, Job
<1>3. q \in Task /\ q.step = step /\ q.key = task[t].key /\ q.job = Bumped(job)
  BY <1>1, <1>2 DEF Task
<1>4. task' = [task EXCEPT ![t] = q] /\ journal' = [journal EXCEPT ![task[t].key] = Bumped(job)]
  BY DEF Update
<1> QED
  BY <1>1, <1>2, <1>3, <1>4, JobMoves

\* t finishes a phase of restore.
LEMMA RestoreMoves ==
  ASSUME LifecycleInv, NEW t \in Tasks, task[t].step = "restore", RestoreDone(t),
         task[t].job.restored < 4, UNCHANGED <<cold, journal>>
  PROVE  Typed' /\ Manifested'
<1> DEFINE q == [task[t] EXCEPT !.step = "resave", !.job = Restored(task[t].job)]
<1>1. task[t] \in Task /\ task[t].key \in Keys /\ task[t].job \in Job
  BY DEF LifecycleInv, Typed
<1>2. Restored(task[t].job) \in Job
  BY <1>1 DEF Restored, Job
<1>3. q \in Task /\ q.step = "resave" /\ q.key = task[t].key /\ q.job \in Job
  BY <1>1, <1>2 DEF Task, Restoring
<1>4. task' = [task EXCEPT ![t] = q]
  BY DEF RestoreDone
<1>5. cold[task[t].key] # NULL
  BY DEF LifecycleInv, Manifested, Beyond, Restoring
<1> QED
  BY <1>1, <1>3, <1>4, <1>5, TaskMoves DEF LifecycleInv, Typed, Executing, Restoring

-----------------------------------------------------------------------------

\* Only a task beyond the manifest phase takes anything out of the live stores.
LEMMA HasManifest ==
  ASSUME LifecycleInv, NEW t \in Tasks, Beyond(t)
  PROVE  task[t].key \in Keys /\ cold[task[t].key] # NULL /\ cold[task[t].key] \in Manifest
BY DEF LifecycleInv, Typed, Manifested, Beyond, Executing, Restoring

\* What execute makes of its copy is a job with the same checkpoint.
LEMMA JobStates ==
  ASSUME NEW job \in Job
  PROVE  /\ \A s \in {"Running", "Succeeded", "PermanentlyFailed", "Retryable"} :
              /\ [job EXCEPT !.state = s] \in Job
              /\ [job EXCEPT !.state = s].checkpoint = job.checkpoint
              /\ [job EXCEPT !.state = s, !.attempts = @ + 1] \in Job
              /\ [job EXCEPT !.state = s, !.attempts = @ + 1].checkpoint = job.checkpoint
         /\ Bumped(job) \in Job /\ Bumped(job).checkpoint = job.checkpoint
<1>1. job.attempts + 1 \in Nat /\ job.revision + 1 \in Nat
  BY DEF Job
<1> QED
  BY <1>1 DEF Job, Bumped

\* The steps of execute that call no port.
LEMMA JournalStep ==
  ASSUME LifecycleInv, NEW t \in Tasks,
         \/ Start(t) \/ ReadEntry(t) \/ Save(t) \/ AllPhasesDone(t) \/ Finish(t)
         \/ PortFails(t) \/ \E k \in Keys : Claim(t, k)
  PROVE  LifecycleInv'
<1> USE DEF live, timers, faults
<1>a. Stored' /\ NothingVanishes'
  BY StoresStay DEF LifecycleInv, Stored, Start, ReadEntry, Save, AllPhasesDone, Finish, PortFails,
       Claim
<1>b. task[t] \in Task /\ (task[t].step # "idle" => task[t].key \in Keys /\ task[t].job \in Job)
  BY DEF LifecycleInv, Typed
<1>1. CASE Start(t)
  <2> DEFINE job == [task[t].job EXCEPT !.state = "Running", !.attempts = @ + 1]
  <2>1. task[t].step \in Executing /\ task[t].step # "idle" /\ cold' = cold
    BY <1>1 DEF Start, Executing
  <2>2. CASE Current(t)
    <3>1. job \in Job /\ job.checkpoint = task[t].job.checkpoint
      BY <1>b, <2>1, JobStates
    <3>2. job.checkpoint >= 1 => cold[task[t].key] # NULL
      BY <2>1, <3>1 DEF LifecycleInv, Manifested, Beyond
    <3>3. Update(t, job, "phase")
      BY <1>1, <2>2 DEF Start
    <3> HIDE DEF job
    <3> QED
      BY <1>a, <2>1, <3>1, <3>2, <3>3, UpdateMoves DEF Executing, Restoring, LifecycleInv
  <2>3. CASE ~Current(t)
    BY <1>1, <1>a, <2>3, TaskEnds DEF Start, LifecycleInv
  <2> QED
    BY <2>2, <2>3
<1>2. CASE ReadEntry(t)
  <2>1. task[t].step \in Executing
    BY <1>2 DEF ReadEntry, Executing
  <2>2. CASE content = NULL
    <3>1. task' = [task EXCEPT ![t] = [@ EXCEPT !.step = "fail", !.seen = task[t].seen]]
      BY <1>2, <1>b, <2>2 DEF ReadEntry, LifecycleInv, Typed, Task
    <3> QED
      BY <1>2, <1>a, <1>b, <2>1, <3>1, TaskGoesOn DEF ReadEntry, Executing, Task, LifecycleInv
  <2>3. CASE content # NULL
    <3>1. task' = [task EXCEPT ![t] = [@ EXCEPT !.step = "put", !.seen = content]]
      BY <1>2, <2>3 DEF ReadEntry
    <3> QED
      BY <1>2, <1>a, <2>1, <2>3, <3>1, TaskGoesOn DEF ReadEntry, Executing, LifecycleInv, Stored
  <2> QED
    BY <2>2, <2>3
<1>3. CASE Save(t)
  <2>1. task[t].step \in Executing /\ task[t].step # "idle" /\ cold' = cold
    BY <1>3 DEF Save, Executing
  <2>2. CASE Current(t)
    <3>1. task[t].job.checkpoint >= 1 => cold[task[t].key] # NULL
      BY <2>1 DEF LifecycleInv, Manifested, Beyond
    <3>2. Update(t, task[t].job, "phase")
      BY <1>3, <2>2 DEF Save
    <3> QED
      BY <1>a, <1>b, <2>1, <3>1, <3>2, UpdateMoves DEF Executing, Restoring, LifecycleInv
  <2>3. CASE ~Current(t)
    <3>1. task' = [task EXCEPT ![t] = [@ EXCEPT !.step = "fail", !.seen = task[t].seen]]
      BY <1>3, <1>b, <2>3 DEF Save, LifecycleInv, Typed, Task
    <3> QED
      BY <1>3, <1>a, <1>b, <2>1, <2>3, <3>1, TaskGoesOn DEF Save, Executing, Task, LifecycleInv
  <2> QED
    BY <2>2, <2>3
<1>4. CASE AllPhasesDone(t)
  <2>1. task' = [task EXCEPT ![t] = [@ EXCEPT !.step = "succeed", !.seen = task[t].seen]]
    BY <1>4, <1>b DEF AllPhasesDone, LifecycleInv, Typed, Task
  <2> QED
    BY <1>4, <1>a, <1>b, <2>1, TaskGoesOn DEF AllPhasesDone, Executing, Task, LifecycleInv
<1>5. CASE Finish(t)
  <2> DEFINE ended == [task[t].job EXCEPT !.state = Outcome(task[t])]
             job == Bumped(ended)
  <2>1. task[t].step \in Executing /\ task[t].step # "idle" /\ cold' = cold
    BY <1>5 DEF Finish, Executing
  <2>2. CASE Current(t)
    <3>1. Outcome(task[t]) \in {"Succeeded", "PermanentlyFailed", "Retryable"}
      BY DEF Outcome
    <3>2. job \in Job /\ job.checkpoint = task[t].job.checkpoint
      <4>1. ended \in Job /\ ended.checkpoint = task[t].job.checkpoint
        BY <1>b, <2>1, <3>1, JobStates
      <4> HIDE DEF ended
      <4> QED
        BY <4>1, JobStates
    <3>3. job.checkpoint >= 1 => cold[task[t].key] # NULL
      BY <2>1, <3>2 DEF LifecycleInv, Manifested, Beyond
    <3>4. journal' = [journal EXCEPT ![task[t].key] = job] /\ task' = [task EXCEPT ![t] = Idle]
      BY <1>5, <2>2 DEF Finish
    <3> HIDE DEF ended, job
    <3> QED
      BY <1>a, <1>b, <2>1, <3>2, <3>3, <3>4, IdleTask, JobMoves DEF Restoring, LifecycleInv
  <2>3. CASE ~Current(t)
    BY <1>5, <1>a, <2>3, TaskEnds DEF Finish, LifecycleInv
  <2> QED
    BY <2>2, <2>3
<1>6. CASE PortFails(t)
  <2>1. CASE task[t].step = "restore"
    BY <1>6, <1>a, <2>1, TaskEnds DEF PortFails, LifecycleInv, Typed
  <2>2. CASE task[t].step # "restore"
    <3>1. task' = [task EXCEPT ![t] = [@ EXCEPT !.step = "fail", !.seen = task[t].seen]]
      BY <1>6, <1>b, <2>2 DEF PortFails, LifecycleInv, Typed, Task
    <3>2. task[t].step \in Executing
      BY <1>6, <2>2 DEF PortFails, Executing
    <3> QED
      BY <1>6, <1>a, <1>b, <3>1, <3>2, TaskGoesOn DEF PortFails, Executing, Task, LifecycleInv
  <2> QED
    BY <2>1, <2>2
<1>7. ASSUME NEW k \in Keys, Claim(t, k) PROVE LifecycleInv'
  <2> DEFINE job == [journal[k] EXCEPT !.revision = @ + 1]
             q == [step |-> "start", key |-> k, job |-> job, seen |-> NULL]
  <2>1. journal[k] \in Job
    BY <1>7 DEF Claim, Claimable, LifecycleInv, Typed
  <2>2. job \in Job /\ job.checkpoint = journal[k].checkpoint
    BY <2>1 DEF Job
  <2>3. q \in Task /\ q.step = "start" /\ q.key = k /\ q.job = job
    BY <2>2 DEF Task, Executing
  <2>4. job.checkpoint >= 1 => cold[k] # NULL
    BY <1>7, <2>2 DEF Claim, Claimable, LifecycleInv, Manifested
  <2>5. journal' = [journal EXCEPT ![k] = job] /\ task' = [task EXCEPT ![t] = q] /\ cold' = cold
    BY <1>7 DEF Claim
  <2> HIDE DEF job, q
  <2> QED
    BY <1>a, <2>2, <2>3, <2>4, <2>5, JobMoves DEF Restoring, LifecycleInv
<1> QED
  BY <1>1, <1>2, <1>3, <1>4, <1>5, <1>6, <1>7

\* The steps of execute that call a port.
LEMMA PortStep ==
  ASSUME LifecycleInv, NEW t \in Tasks,
         \/ PutManifest(t) \/ DeleteVector(t) \/ RemoveEdges(t) \/ DeleteContent(t)
         \/ DeleteBlobs(t)
  PROVE  LifecycleInv'
<1> USE DEF live, timers, faults
<1>a. task[t].step \in Executing /\ task[t].key \in Keys /\ task[t].job \in Job
  BY DEF PutManifest, DeleteVector, RemoveEdges, DeleteContent, DeleteBlobs, LifecycleInv, Typed,
       Executing
<1>b. task[t] \in Task /\ cold \in [Keys -> Manifest \cup {NULL}]
  BY DEF LifecycleInv, Typed
<1>c. ASSUME task[t].job.checkpoint >= 1
      PROVE  cold[task[t].key] # NULL /\ cold[task[t].key] \in Manifest
  BY <1>a, <1>c, HasManifest DEF Beyond
<1>d. ASSUME task' = [task EXCEPT ![t].step = "fail"], UNCHANGED <<cold, journal>>
      PROVE  Typed' /\ Manifested'
  <2>1. task' = [task EXCEPT ![t] = [@ EXCEPT !.step = "fail", !.seen = task[t].seen]]
    BY <1>b, <1>d DEF LifecycleInv, Typed, Task
  <2> QED
    BY <1>a, <1>b, <1>d, <2>1, TaskGoesOn DEF Executing, Task
<1>1. CASE PutManifest(t)
  <2> DEFINE manifest == [entry |-> task[t].seen, vector |-> vector, graph |-> graph]
             stored == task[t].seen.body \in blobs /\ cold[task[t].key] = NULL
  <2>1. CASE stored
    <3>1. manifest \in Manifest /\ manifest # NULL
      BY <1>1, NullAssumption DEF LifecycleInv, Stored, Typed, Manifest, PutManifest
    <3>2. cold' = [cold EXCEPT ![task[t].key] = manifest] /\ PhaseDone(t) /\ journal' = journal
      BY <1>1, <2>1 DEF PutManifest
    <3> HIDE DEF manifest
    <3>3. /\ cold' \in [Keys -> Manifest \cup {NULL}]
          /\ \A k \in Keys : cold[k] # NULL => cold'[k] = cold[k]
          /\ cold'[task[t].key] # NULL
      BY <1>a, <1>b, <2>1, <3>1, <3>2
    <3>4. task[t].job.checkpoint < 5
      BY <1>1 DEF PutManifest, LifecycleInv, Typed
    <3>5. Typed' /\ Manifested'
      BY <1>a, <3>2, <3>3, <3>4, PhaseMoves
    <3>6. NothingVanishes'
      BY <1>1, <3>3 DEF PutManifest, LifecycleInv, NothingVanishes, Archived
    <3> QED
      BY <1>1, <3>5, <3>6 DEF PutManifest, LifecycleInv, Stored
  <2>2. CASE ~stored
    <3>1. Typed' /\ Manifested'
      BY <1>1, <1>d, <2>2 DEF PutManifest
    <3> QED
      BY <1>1, <2>2, <3>1, StoresStay DEF PutManifest, LifecycleInv, Stored
  <2> QED
    BY <2>1, <2>2
<1>2. CASE DeleteVector(t) \/ RemoveEdges(t)
  <2>1. task[t].job.checkpoint >= 1 /\ task[t].job.checkpoint < 5 /\ PhaseDone(t)
        /\ UNCHANGED <<cold, journal, content, blobs, writes>>
    BY <1>2 DEF DeleteVector, RemoveEdges
  <2>2. Typed' /\ Manifested'
    BY <1>a, <1>b, <1>c, <2>1, PhaseMoves
  <2>3. vector' \in 0 .. MaxWrites
    BY <1>2, LifecycleAssumption DEF DeleteVector, RemoveEdges, LifecycleInv, Stored
  <2>4. graph' \in BOOLEAN
    BY <1>2 DEF DeleteVector, RemoveEdges, LifecycleInv, Stored
  <2>5. Stored'
    BY <2>1, <2>3, <2>4 DEF LifecycleInv, Stored
  <2> QED
    BY <2>1, <2>2, <2>5, StoresStay DEF LifecycleInv
<1>3. CASE DeleteContent(t)
  <2>1. task[t].job.checkpoint >= 1 /\ task[t].job.checkpoint < 5
        /\ UNCHANGED <<cold, journal, blobs, writes>>
    BY <1>3 DEF DeleteContent
  <2>2. CASE content = NULL
    <3>1. Typed' /\ Manifested'
      BY <1>3, <1>d, <2>2 DEF DeleteContent
    <3> QED
      BY <1>3, <2>1, <2>2, <3>1, StoresStay DEF DeleteContent, LifecycleInv, Stored
  <2>3. CASE content # NULL
    <3>1. Typed' /\ Manifested'
      BY <1>3, <1>a, <1>b, <1>c, <2>1, <2>3, PhaseMoves DEF DeleteContent
    <3>2. content' = NULL /\ vector' = 0 /\ graph' \in BOOLEAN
      BY <1>3, <2>3 DEF DeleteContent
    <3>a. vector' \in 0 .. MaxWrites
      BY <3>2, LifecycleAssumption
    <3>b. Stored'
      BY <2>1, <3>2, <3>a DEF LifecycleInv, Stored
    <3>3. NothingVanishes'
      BY <1>3, <1>a, <1>c, <2>1, <2>3 DEF DeleteContent, NothingVanishes
    <3> QED
      BY <3>1, <3>b, <3>3 DEF LifecycleInv
  <2> QED
    BY <2>2, <2>3
<1>4. CASE DeleteBlobs(t)
  <2>1. task[t].job.checkpoint >= 1 /\ task[t].job.checkpoint < 5 /\ PhaseDone(t)
        /\ UNCHANGED <<cold, journal, content, vector, graph, writes>>
    BY <1>4 DEF DeleteBlobs
  <2>2. Typed' /\ Manifested'
    BY <1>a, <1>b, <1>c, <2>1, PhaseMoves
  <2>3. \A body \in blobs : body \in blobs' \/ Archived(body)
    BY <1>4, <1>a, <1>c, <2>1 DEF DeleteBlobs, Archived
  <2>4. NothingVanishes'
    BY <2>1, <2>3 DEF LifecycleInv, NothingVanishes, Archived
  <2> QED
    BY <2>1, <2>2, <2>4 DEF LifecycleInv, Stored
<1> QED
  BY <1>1, <1>2, <1>3, <1>4

-----------------------------------------------------------------------------

\* The steps of restore: what comes back comes from a manifest, which stays.
LEMMA RestoreSteps ==
  ASSUME LifecycleInv, NEW t \in Tasks, RestoreStep(t) \/ \E k \in Keys : BeginRestore(t, k)
  PROVE  LifecycleInv'
<1> USE DEF live, timers, faults
<1>1. ASSUME NEW k \in Keys, BeginRestore(t, k) PROVE LifecycleInv'
  <2> DEFINE q == [step |-> "restore", key |-> k, job |-> journal[k], seen |-> NULL]
  <2>1. journal[k] \in Job /\ cold[k] # NULL
    BY <1>1 DEF BeginRestore, MayRestore, LifecycleInv, Typed
  <2>2. q \in Task /\ q.step = "restore" /\ q.key = k /\ q.job = journal[k]
    BY <2>1 DEF Task, Restoring
  <2>3. task' = [task EXCEPT ![t] = q] /\ UNCHANGED <<cold, journal>>
    BY <1>1 DEF BeginRestore
  <2> HIDE DEF q
  <2>4. Typed' /\ Manifested'
    BY <2>1, <2>2, <2>3, TaskMoves DEF LifecycleInv, Typed, Executing, Restoring
  <2> QED
    BY <1>1, <2>4, StoresStay DEF BeginRestore, LifecycleInv, Stored
<1>2. CASE SaveRestore(t)
  <2>1. task[t].step \in Restoring /\ task[t].step # "idle" /\ cold' = cold
    BY <1>2 DEF SaveRestore, Restoring
  <2>2. task[t].key \in Keys /\ task[t].job \in Job /\ cold[task[t].key] # NULL
    BY <2>1, HasManifest DEF Beyond, LifecycleInv, Typed
  <2>3. Typed' /\ Manifested'
    <3>1. CASE Current(t)
      <4>1. Update(t, task[t].job, "restore")
        BY <1>2, <3>1 DEF SaveRestore
      <4> QED
        BY <2>1, <2>2, <4>1, UpdateMoves DEF Restoring
    <3>2. CASE ~Current(t)
      BY <1>2, <3>2, TaskEnds DEF SaveRestore
    <3> QED
      BY <3>1, <3>2
  <2> QED
    BY <1>2, <2>3, StoresStay DEF SaveRestore, LifecycleInv, Stored
<1>3. CASE EndRestore(t)
  BY <1>3, TaskEnds, StoresStay DEF EndRestore, LifecycleInv, Stored
<1>4. ASSUME task[t].step = "restore"
      PROVE  task[t].key \in Keys /\ cold[task[t].key] \in Manifest
  BY <1>4, HasManifest DEF Beyond, Restoring
<1>5. CASE RestoreBlobs(t) \/ RestoreEdges(t) \/ RestoreVector(t)
  <2>1. task[t].step = "restore" /\ task[t].job.restored < 4 /\ RestoreDone(t)
        /\ UNCHANGED <<cold, journal, content, writes>> /\ blobs \subseteq blobs'
    BY <1>5 DEF RestoreBlobs, RestoreEdges, RestoreVector, InPhase
  <2>2. Typed' /\ Manifested'
    BY <2>1, RestoreMoves
  <2>3. Stored'
    BY <1>4, <1>5, <2>1 DEF RestoreBlobs, RestoreEdges, RestoreVector, LifecycleInv, Stored, Manifest
  <2>4. NothingVanishes'
    BY <2>1 DEF LifecycleInv, NothingVanishes, Archived
  <2> QED
    BY <2>2, <2>3, <2>4 DEF LifecycleInv
<1>6. CASE RestoreContent(t)
  <2> DEFINE entry == cold[task[t].key].entry
  <2>1. task[t].step = "restore" /\ task[t].job.restored < 4
        /\ UNCHANGED <<cold, journal, vector, graph, blobs>>
    BY <1>6 DEF RestoreContent, InPhase
  <2>2. task[t].key \in Keys /\ cold[task[t].key] # NULL /\ entry \in Entry
    BY <1>4, <2>1, NullAssumption DEF Manifest
  <2>3. CASE content = NULL
    <3>1. RestoreDone(t) /\ writes < MaxWrites /\ writes' = writes + 1
          /\ content' = [entry EXCEPT !.stamp = writes + 1]
      BY <1>6, <2>2, <2>3, NullAssumption DEF RestoreContent
    <3>a. writes' \in 1 .. MaxWrites
      BY <3>1, LifecycleAssumption DEF LifecycleInv, Stored
    <3>b. writes + 1 \in 1 .. MaxWrites
      BY <3>1, <3>a
    <3>2. content' \in Entry /\ content'.body = entry.body
      BY <2>2, <3>1, <3>b DEF Entry
    <3>3. Typed' /\ Manifested'
      BY <2>1, <3>1, RestoreMoves
    <3>4. Stored'
      BY <2>1, <3>a, <3>2 DEF LifecycleInv, Stored
    <3>5. NothingVanishes'
      BY <2>1, <2>2, <3>2, NullAssumption DEF NothingVanishes, Archived
    <3> QED
      BY <3>3, <3>4, <3>5 DEF LifecycleInv
  <2>4. CASE content # NULL
    <3>1. UNCHANGED <<content, writes>> /\ (RestoreDone(t) \/ task' = [task EXCEPT ![t] = Idle])
      BY <1>6, <2>4 DEF RestoreContent
    <3>2. Typed' /\ Manifested'
      BY <2>1, <3>1, RestoreMoves, TaskEnds
    <3> QED
      BY <2>1, <3>1, <3>2, StoresStay DEF LifecycleInv, Stored
  <2> QED
    BY <2>3, <2>4
<1> QED
  BY <1>1, <1>2, <1>3, <1>5, <1>6 DEF RestoreStep

LEMMA NextLifecycle ==
  ASSUME LifecycleInv, [LifecycleNext]_lifecycleVars
  PROVE  LifecycleInv'
<1>1. CASE UNCHANGED lifecycleVars
  BY <1>1 DEF lifecycleVars, LifecycleInv, Stored, Typed, Manifested, Beyond, NothingVanishes, Archived
<1>2. CASE LifecycleNext
  BY <1>2, WorldStep, JournalStep, PortStep, RestoreSteps DEF LifecycleNext, TaskStep, ExecuteStep
<1> QED
  BY <1>1, <1>2

\* A lifecycle job never removes what is not in cold storage: wherever processes
\* stop and whoever still works on a lease it has lost, the entry is live or has
\* a manifest, and so has the blob of the live entry.
THEOREM NothingIsLost == LifecycleSpec => []NothingVanishes
<1>1. LifecycleInv => NothingVanishes
  BY DEF LifecycleInv
<1> QED
  BY <1>1, InitLifecycle, NextLifecycle, PTL DEF LifecycleSpec

-----------------------------------------------------------------------------
(* What the copies of a job say.  A task that holds the current revision of  *)
(* a job knows its attempts and has not fallen behind its checkpoints; every *)
(* other copy is older and is refused by the journal.                        *)

\* The copy of one task q.
FollowsJob(q) ==
  /\ journal[q.key] # NULL
  /\ q.job.revision <= journal[q.key].revision
  /\ q.step = "succeed" => q.job.checkpoint = 5
  /\ q.step \in Restoring => q.job.state = "Succeeded" /\ journal[q.key].state = "Succeeded"
  /\ q.job.revision = journal[q.key].revision =>
       /\ q.job.checkpoint >= journal[q.key].checkpoint
       /\ q.job.restored >= journal[q.key].restored
       /\ q.job.attempts = journal[q.key].attempts
       /\ q.step \in Executing =>
            /\ ~Terminal(journal[q.key])
            /\ q.job.restored = journal[q.key].restored
            /\ q.job.state = journal[q.key].state
       /\ q.step \in Restoring => q.job.checkpoint = journal[q.key].checkpoint

\* t executes the job of k at its current revision.
Holds(t, k) == task[t].step \in Executing /\ task[t].key = k /\ task[t].job.revision = journal[k].revision

CopiesInv ==
  /\ \A t \in Tasks : task[t].step # "idle" => FollowsJob(task[t])
  /\ \A t, u \in Tasks, k \in Keys : Holds(t, k) /\ Holds(u, k) => t = u
  /\ RestoredAfterSuccess

\* What a phase makes of the copy q of a task: the same job, further on.
Further(q, r) ==
  /\ r.key = q.key /\ r.job.revision = q.job.revision
  /\ r.job.attempts = q.job.attempts /\ r.job.state = q.job.state
  /\ \/ /\ q.step \in Executing /\ r.step \in Executing /\ r.job.restored = q.job.restored
        /\ r.job.checkpoint >= q.job.checkpoint /\ (r.step = "succeed" => r.job.checkpoint = 5)
     \/ /\ q.step \in Restoring /\ r.step \in Restoring
        /\ r.job.checkpoint = q.job.checkpoint /\ r.job.restored >= q.job.restored

\* t leaves its call or goes on with its copy; the journal stays.
LEMMA CopyMoves ==
  ASSUME Typed, CopiesInv, NEW t \in Tasks, NEW q \in Task,
         task' = [task EXCEPT ![t] = q], journal' = journal,
         q.step = "idle" \/ (task[t].step # "idle" /\ q.job \in Job /\ Further(task[t], q))
  PROVE  CopiesInv'
<1>1. \A u \in Tasks : task'[u] = IF u = t THEN q ELSE task[u]
  BY DEF Typed
<1>2. q.step # "idle" => FollowsJob(q)'
  <2> SUFFICES ASSUME q.step # "idle" PROVE FollowsJob(q)'
    OBVIOUS
  <2>1. FollowsJob(task[t]) /\ Further(task[t], q) /\ q.job \in Job /\ task[t].job \in Job /\ task[t].key \in Keys
    BY DEF CopiesInv, Typed
  <2>2. journal[q.key] \in Job
    BY <2>1 DEF Typed, FollowsJob, Further
  <2> QED
    BY <2>1, <2>2 DEF FollowsJob, Further, Job, Executing, Restoring
<1>3. ASSUME NEW u \in Tasks, task'[u].step # "idle" PROVE FollowsJob(task[u])'
  <2>1. CASE u = t
    BY <1>1, <1>2, <1>3, <2>1 DEF FollowsJob
  <2>2. CASE u # t
    BY <1>1, <1>3, <2>2 DEF CopiesInv, FollowsJob
  <2> QED
    BY <2>1, <2>2
<1>4. \A u \in Tasks, k \in Keys : Holds(u, k)' => Holds(u, k)
  BY <1>1 DEF Holds, Further, Executing, Restoring
<1>5. RestoredAfterSuccess'
  BY DEF CopiesInv, RestoredAfterSuccess
<1> QED
  BY <1>3, <1>4, <1>5 DEF CopiesInv

\* The journal takes a job with a new revision, from the task that holds it.
LEMMA RevisionMoves ==
  ASSUME Typed, CopiesInv, NEW t \in Tasks, NEW q \in Task, NEW k \in Keys, NEW job \in Job,
         task' = [task EXCEPT ![t] = q], journal' = [journal EXCEPT ![k] = job],
         journal[k] # NULL, job.revision = journal[k].revision + 1,
         journal[k].state = "Succeeded" => job.state = "Succeeded",
         job.restored > 0 => job.state = "Succeeded",
         job.state = "Succeeded" => job.checkpoint = 5,
         q.step # "idle" => q.key = k /\ q.job = job /\ q.step # "succeed",
         q.step \in Executing => ~Terminal(job),
         q.step \in Restoring => job.state = "Succeeded"
  PROVE  CopiesInv'
<1>1. \A u \in Tasks : task'[u] = IF u = t THEN q ELSE task[u]
  BY DEF Typed
<1>2. \A x \in Keys : journal'[x] = IF x = k THEN job ELSE journal[x]
  BY DEF Typed
<1>3. job # NULL /\ journal[k] \in Job
  BY NullAssumption DEF Typed
<1>4. q.step # "idle" => FollowsJob(q)'
  BY <1>2, <1>3 DEF FollowsJob, Job
<1>5. ASSUME NEW u \in Tasks, u # t, task[u].step # "idle" PROVE FollowsJob(task[u])'
  <2>1. FollowsJob(task[u]) /\ task[u].key \in Keys /\ task[u].job \in Job /\ task'[u] = task[u]
    BY <1>1, <1>5 DEF CopiesInv, Typed
  <2>2. CASE task[u].key # k
    BY <1>2, <2>1, <2>2 DEF FollowsJob
  <2>3. CASE task[u].key = k
    <3>1. task[u].job.revision < job.revision
      BY <1>3, <2>1, <2>3 DEF FollowsJob, Job
    <3> QED
      BY <1>2, <1>3, <2>1, <2>3, <3>1 DEF FollowsJob, Job
  <2> QED
    BY <2>2, <2>3
<1>6. ASSUME NEW u \in Tasks, task'[u].step # "idle" PROVE FollowsJob(task[u])'
  <2>1. CASE u = t
    BY <1>1, <1>4, <1>6, <2>1 DEF FollowsJob
  <2>2. CASE u # t
    BY <1>1, <1>5, <1>6, <2>2
  <2> QED
    BY <2>1, <2>2
<1>7. ASSUME NEW u \in Tasks, NEW x \in Keys, Holds(u, x)' PROVE Holds(u, x) \/ (u = t /\ x = k)
  <2>1. CASE u = t
    BY <1>1, <1>7, <2>1 DEF Holds, Executing
  <2>2. CASE u # t /\ x = k
    <3>1. FollowsJob(task[u]) /\ task[u].job \in Job /\ task[u].key = k
      BY <1>1, <1>7, <2>2 DEF CopiesInv, Typed, Holds, Executing
    <3> QED
      BY <1>1, <1>2, <1>3, <1>7, <2>2, <3>1 DEF Holds, FollowsJob, Job
  <2>3. CASE u # t /\ x # k
    BY <1>1, <1>2, <1>7, <2>3 DEF Holds
  <2> QED
    BY <2>1, <2>2, <2>3
<1>8. \A u \in Tasks : Holds(u, k)' => u = t
  <2>1. ASSUME NEW u \in Tasks, u # t, Holds(u, k)' PROVE FALSE
    <3>1. FollowsJob(task[u]) /\ task[u].job \in Job /\ task[u].key = k
      BY <1>1, <2>1 DEF CopiesInv, Typed, Holds, Executing
    <3> QED
      BY <1>1, <1>2, <1>3, <2>1, <3>1 DEF Holds, FollowsJob, Job
  <2> QED
    BY <2>1
<1>9. RestoredAfterSuccess'
  BY <1>2 DEF CopiesInv, RestoredAfterSuccess
<1> QED
  BY <1>6, <1>7, <1>8, <1>9 DEF CopiesInv

LEMMA InitCopies == LifecycleInit => CopiesInv
BY DEF LifecycleInit, CopiesInv, RestoredAfterSuccess, Idle, Holds, Executing

LEMMA OwnCopy ==
  ASSUME Typed, CopiesInv, NEW t \in Tasks, task[t].step # "idle"
  PROVE  /\ task[t] \in Task /\ task[t].key \in Keys /\ task[t].job \in Job
         /\ journal[task[t].key] # NULL /\ journal[task[t].key] \in Job
         /\ FollowsJob(task[t])
BY DEF Typed, CopiesInv, FollowsJob

\* Neither the journal nor a task changes.
LEMMA CopiesStay ==
  ASSUME CopiesInv, UNCHANGED <<task, journal>>
  PROVE  CopiesInv'
BY DEF CopiesInv, FollowsJob, Holds, RestoredAfterSuccess, Current

LEMMA NextPhaseJob ==
  ASSUME NEW job \in Job, job.checkpoint < 5
  PROVE  /\ Advanced(job) \in Job /\ Advanced(job).checkpoint = job.checkpoint + 1
         /\ Advanced(job).restored = job.restored /\ Advanced(job).revision = job.revision
         /\ Advanced(job).attempts = job.attempts /\ Advanced(job).state = job.state
BY DEF Advanced, Job

\* t finishes a phase of its copy.
LEMMA PhaseCopies ==
  ASSUME Typed, CopiesInv, NEW t \in Tasks, task[t].step \in Executing, task[t].job.checkpoint < 5,
         PhaseDone(t), journal' = journal
  PROVE  CopiesInv'
<1> DEFINE job == Advanced(task[t].job)
           q == [task[t] EXCEPT !.step = "save", !.job = job]
<1>1. task[t].step # "idle" /\ task[t] \in Task /\ task[t].job \in Job
  BY DEF Typed, Executing
<1>2. /\ job \in Job /\ job.checkpoint = task[t].job.checkpoint + 1 /\ job.restored = task[t].job.restored
      /\ job.revision = task[t].job.revision /\ job.attempts = task[t].job.attempts /\ job.state = task[t].job.state
  BY <1>1, NextPhaseJob
<1>3. job.checkpoint >= task[t].job.checkpoint
  BY <1>1, <1>2 DEF Job
<1>4. task' = [task EXCEPT ![t] = q]
  BY DEF PhaseDone
<1> HIDE DEF job
<1>5. q \in Task /\ q.step = "save" /\ q.key = task[t].key /\ q.job = job
  BY <1>1, <1>2 DEF Task, Executing
<1>6. Further(task[t], q)
  BY <1>2, <1>3, <1>5 DEF Further, Executing
<1> QED
  BY <1>1, <1>2, <1>4, <1>5, <1>6, CopyMoves

\* t goes on executing with the same copy.
LEMMA SameCopies ==
  ASSUME Typed, CopiesInv, NEW t \in Tasks, task[t].step \in Executing,
         NEW step \in Executing, NEW seen \in Entry \cup {NULL},
         step = "succeed" => task[t].job.checkpoint = 5,
         task' = [task EXCEPT ![t] = [@ EXCEPT !.step = step, !.seen = seen]], journal' = journal
  PROVE  CopiesInv'
<1> DEFINE q == [task[t] EXCEPT !.step = step, !.seen = seen]
<1>1. task[t].step # "idle" /\ task[t] \in Task /\ task[t].job \in Job
  BY DEF Typed, Executing
<1>2. q \in Task /\ q.step = step /\ q.key = task[t].key /\ q.job = task[t].job
  BY <1>1 DEF Task
<1>3. task[t].job.checkpoint >= task[t].job.checkpoint
  BY <1>1 DEF Job
<1>4. task' = [task EXCEPT ![t] = q]
  OBVIOUS
<1> HIDE DEF q
<1>5. Further(task[t], q)
  BY <1>2, <1>3 DEF Further
<1> QED
  BY <1>1, <1>2, <1>4, <1>5, CopyMoves

LEMMA RestoreCopies ==
  ASSUME Typed, CopiesInv, NEW t \in Tasks, task[t].step = "restore", task[t].job.restored < 4,
         RestoreDone(t), journal' = journal
  PROVE  CopiesInv'
<1> DEFINE job == Restored(task[t].job)
           q == [task[t] EXCEPT !.step = "resave", !.job = job]
<1>1. task[t] \in Task /\ task[t].job \in Job
  BY DEF Typed
<1>2. /\ job \in Job /\ job.restored = task[t].job.restored + 1 /\ job.checkpoint = task[t].job.checkpoint
      /\ job.revision = task[t].job.revision /\ job.attempts = task[t].job.attempts /\ job.state = task[t].job.state
  BY <1>1 DEF Restored, Job
<1>3. task' = [task EXCEPT ![t] = q]
  BY DEF RestoreDone
<1> HIDE DEF job
<1>4. q \in Task /\ q.step = "resave" /\ q.key = task[t].key /\ q.job = job
  BY <1>1, <1>2 DEF Task, Restoring
<1>5. Further(task[t], q)
  BY <1>1, <1>2, <1>4 DEF Further, Restoring, Executing, Job
<1> QED
  BY <1>2, <1>3, <1>4, <1>5, CopyMoves

\* t leaves its call.
LEMMA EndCopies ==
  ASSUME Typed, CopiesInv, NEW t \in Tasks, task' = [task EXCEPT ![t] = Idle], journal' = journal
  PROVE  CopiesInv'
BY IdleTask, CopyMoves

\* The steps of the outside world.
LEMMA WorldCopies ==
  ASSUME Typed, CopiesInv,
         \/ Write
         \/ \E k \in Keys : Submit(k) \/ LeaseExpires(k) \/ BackoffElapses(k)
         \/ \E t \in Tasks : Crash(t)
  PROVE  CopiesInv'
<1>1. ASSUME NEW k \in Keys, Submit(k) PROVE CopiesInv'
  <2>1. journal[k] = NULL /\ task' = task /\ \A x \in Keys \ {k} : journal'[x] = journal[x]
    BY <1>1 DEF Submit, Typed
  <2>2. journal'[k] = Accepted /\ Accepted \in Job
    BY <1>1 DEF Submit, Typed, Accepted, Job
  <2>3. \A t \in Tasks : task[t].step # "idle" => task[t].key \in Keys \ {k}
    BY <2>1, OwnCopy
  <2>4. \A t \in Tasks : task[t].step # "idle" => FollowsJob(task[t])'
    BY <2>1, <2>3 DEF CopiesInv, FollowsJob
  <2>5. \A t \in Tasks, x \in Keys : Holds(t, x)' => Holds(t, x)
    BY <2>1, <2>3 DEF Holds, Executing
  <2>6. RestoredAfterSuccess'
    BY <2>1, <2>2 DEF CopiesInv, RestoredAfterSuccess, Accepted
  <2> QED
    BY <2>1, <2>4, <2>5, <2>6 DEF CopiesInv
<1> QED
  BY <1>1, CopiesStay, EndCopies DEF Write, LeaseExpires, BackoffElapses, Crash

\* What ProgressKept asks of one step.
Onward ==
  \A k \in Keys : journal[k] # NULL =>
    /\ journal'[k].checkpoint >= journal[k].checkpoint
    /\ journal'[k].restored >= journal[k].restored
    /\ Terminal(journal[k]) => journal'[k].state = journal[k].state

LEMMA JournalStays ==
  ASSUME Typed, journal' = journal
  PROVE  Onward
<1>1. \A k \in Keys : journal[k] # NULL => journal[k].checkpoint \in Int /\ journal[k].restored \in Int
  BY DEF Typed, Job
<1> QED
  BY <1>1 DEF Onward

LEMMA JobOnward ==
  ASSUME Typed, NEW k \in Keys, NEW job, journal' = [journal EXCEPT ![k] = job],
         journal[k] # NULL => /\ job.checkpoint >= journal[k].checkpoint /\ job.restored >= journal[k].restored
                              /\ Terminal(journal[k]) => job.state = journal[k].state
  PROVE  Onward
<1>1. \A x \in Keys : journal[x] # NULL => journal[x].checkpoint \in Int /\ journal[x].restored \in Int
  BY DEF Typed, Job
<1>2. \A x \in Keys : journal'[x] = IF x = k THEN job ELSE journal[x]
  BY DEF Typed
<1> QED
  BY <1>1, <1>2 DEF Onward

\* A transaction of the journal by the task that holds the current revision.
LEMMA UpdateCopies ==
  ASSUME Typed, CopiesInv, NEW t \in Tasks, task[t].step # "idle", Current(t),
         NEW job \in Job, NEW step \in {"phase", "restore"}, Update(t, job, step),
         job.revision = task[t].job.revision, job.checkpoint = task[t].job.checkpoint,
         job.restored = task[t].job.restored,
         \/ step = "phase" /\ task[t].step \in Executing /\ ~Terminal(job)
         \/ step = "restore" /\ task[t].step \in Restoring /\ job.state = task[t].job.state
  PROVE  CopiesInv' /\ Onward
<1> DEFINE next == Bumped(job)
           k == task[t].key
           q == [task[t] EXCEPT !.step = step, !.job = next]
<1>1. task[t] \in Task /\ k \in Keys /\ journal[k] # NULL /\ journal[k] \in Job /\ FollowsJob(task[t])
  BY OwnCopy
<1>2. /\ next \in Job /\ next.revision = journal[k].revision + 1 /\ next.checkpoint = job.checkpoint
      /\ next.restored = job.restored /\ next.state = job.state
  BY DEF Bumped, Job, Current
<1>3. task' = [task EXCEPT ![t] = q] /\ journal' = [journal EXCEPT ![k] = next]
  BY DEF Update
<1> HIDE DEF next
<1>4. q \in Task /\ q.step = step /\ q.key = k /\ q.job = next
  BY <1>1, <1>2 DEF Task, Executing, Restoring
<1>5. next.checkpoint >= journal[k].checkpoint /\ next.restored >= journal[k].restored
  BY <1>1, <1>2 DEF FollowsJob, Current
<1>6. Onward
  <2>1. Terminal(journal[k]) => next.state = journal[k].state
    BY <1>1, <1>2 DEF FollowsJob, Current
  <2> QED
    BY <1>1, <1>3, <1>5, <2>1, JobOnward
<1>7. next.restored > 0 => next.state = "Succeeded"
  <2>1. CASE step = "phase"
    <3>1. journal[k].restored = next.restored /\ ~Terminal(journal[k])
      BY <1>1, <1>2, <2>1 DEF FollowsJob, Current, Restoring, Executing
    <3> QED
      BY <1>1, <3>1 DEF CopiesInv, RestoredAfterSuccess, Terminal
  <2>2. CASE step = "restore"
    BY <1>1, <1>2, <2>2 DEF FollowsJob, Restoring, Executing
  <2> QED
    BY <2>1, <2>2
<1>8. next.state = "Succeeded" => next.checkpoint = 5 /\ step = "restore"
  BY <1>1, <1>2 DEF Terminal, FollowsJob, Current, CopiesInv, RestoredAfterSuccess, Restoring, Executing
<1>9. journal[k].state = "Succeeded" => next.state = "Succeeded"
  BY <1>1, <1>2 DEF FollowsJob, Current, Terminal, Restoring, Executing
<1>10. /\ q.step \in Executing => ~Terminal(next)
       /\ q.step \in Restoring => next.state = "Succeeded"
  BY <1>1, <1>2, <1>4 DEF FollowsJob, Terminal, Restoring, Executing
<1> HIDE DEF q
<1> QED
  BY <1>1, <1>2, <1>3, <1>4, <1>6, <1>7, <1>8, <1>9, <1>10, RevisionMoves

\* The steps of execute that call no port.
LEMMA JournalCopies ==
  ASSUME LifecycleInv, CopiesInv, NEW t \in Tasks,
         \/ Start(t) \/ ReadEntry(t) \/ Save(t) \/ AllPhasesDone(t) \/ Finish(t)
         \/ PortFails(t) \/ \E k \in Keys : Claim(t, k)
  PROVE  CopiesInv' /\ Onward
<1>a. Typed /\ content \in Entry \cup {NULL}
  BY DEF LifecycleInv, Stored
<1>b. ASSUME task[t].step # "idle"
      PROVE  /\ task[t] \in Task /\ task[t].key \in Keys /\ task[t].job \in Job
             /\ task[t].seen \in Entry \cup {NULL} /\ FollowsJob(task[t])
             /\ journal[task[t].key] # NULL /\ journal[task[t].key] \in Job
  BY <1>a, <1>b, OwnCopy DEF Task
<1>c. ASSUME task' = [task EXCEPT ![t] = Idle], journal' = journal PROVE CopiesInv' /\ Onward
  BY <1>a, <1>c, EndCopies, JournalStays
<1>d. ASSUME task[t].step \in Executing, NEW step \in Executing \ {"succeed"},
             task' = [task EXCEPT ![t].step = step], journal' = journal
      PROVE  CopiesInv' /\ Onward
  <2>1. task' = [task EXCEPT ![t] = [@ EXCEPT !.step = step, !.seen = task[t].seen]]
    BY <1>a, <1>d DEF Typed, Task
  <2>2. task[t].seen \in Entry \cup {NULL}
    BY <1>b, <1>d DEF Executing
  <2> QED
    BY <1>a, <1>d, <2>1, <2>2, SameCopies, JournalStays
<1>1. CASE Start(t)
  <2> DEFINE job == [task[t].job EXCEPT !.state = "Running", !.attempts = @ + 1]
  <2>1. task[t].step = "start" /\ task[t].step # "idle" /\ task[t].step \in Executing
    BY <1>1 DEF Start, Executing
  <2>2. CASE Current(t)
    <3>1. Update(t, job, "phase")
      BY <1>1, <2>2 DEF Start
    <3>2. /\ job \in Job /\ job.revision = task[t].job.revision /\ job.checkpoint = task[t].job.checkpoint
          /\ job.restored = task[t].job.restored /\ ~Terminal(job)
      <4>1. task[t].job \in Job /\ task[t].job.attempts + 1 \in Nat
        BY <1>b, <2>1 DEF Job
      <4> QED
        BY <4>1 DEF Job, Terminal
    <3> HIDE DEF job
    <3> QED
      BY <1>a, <2>1, <2>2, <3>1, <3>2, UpdateCopies
  <2>3. CASE ~Current(t)
    BY <1>1, <1>c, <2>3 DEF Start
  <2> QED
    BY <2>2, <2>3
<1>2. CASE ReadEntry(t)
  <2>1. task[t].step \in Executing /\ journal' = journal
    BY <1>2 DEF ReadEntry, Executing
  <2>2. CASE content = NULL
    BY <1>2, <1>d, <2>1, <2>2 DEF ReadEntry, Executing
  <2>3. CASE content # NULL
    <3>1. task' = [task EXCEPT ![t] = [@ EXCEPT !.step = "put", !.seen = content]]
      BY <1>2, <2>3 DEF ReadEntry
    <3> QED
      BY <1>a, <2>1, <3>1, SameCopies, JournalStays DEF Executing
  <2> QED
    BY <2>2, <2>3
<1>3. CASE Save(t)
  <2>1. task[t].step = "save" /\ task[t].step # "idle" /\ task[t].step \in Executing
    BY <1>3 DEF Save, Executing
  <2>2. CASE Current(t)
    <3>1. Update(t, task[t].job, "phase")
      BY <1>3, <2>2 DEF Save
    <3>2. task[t].job \in Job /\ ~Terminal(task[t].job)
      BY <1>b, <2>1, <2>2 DEF FollowsJob, Current, Terminal
    <3> QED
      BY <1>a, <2>1, <2>2, <3>1, <3>2, UpdateCopies
  <2>3. CASE ~Current(t)
    BY <1>3, <1>d, <2>1, <2>3 DEF Save, Executing
  <2> QED
    BY <2>2, <2>3
<1>4. CASE AllPhasesDone(t)
  <2>1. task[t].step \in Executing /\ task[t].job.checkpoint = 5 /\ journal' = journal
    BY <1>4 DEF AllPhasesDone, Executing
  <2>2. task' = [task EXCEPT ![t] = [@ EXCEPT !.step = "succeed", !.seen = task[t].seen]]
    BY <1>a, <1>4 DEF AllPhasesDone, Typed, Task
  <2> QED
    BY <1>a, <1>b, <2>1, <2>2, SameCopies, JournalStays DEF Executing
<1>5. CASE Finish(t)
  <2>1. task[t].step \in {"succeed", "fail"} /\ task[t].step # "idle" /\ task[t].step \in Executing
        /\ task' = [task EXCEPT ![t] = Idle]
    BY <1>5 DEF Finish, Executing
  <2>2. CASE Current(t)
    <3> DEFINE state == Outcome(task[t])
               ended == [task[t].job EXCEPT !.state = state]
               job == Bumped(ended)
               k == task[t].key
    <3>1. state \in {"Succeeded", "PermanentlyFailed", "Retryable"} /\ (state = "Succeeded" <=> task[t].step = "succeed")
      BY DEF Outcome
    <3>2. journal' = [journal EXCEPT ![k] = job]
      BY <1>5, <2>2 DEF Finish
    <3>3. k \in Keys /\ task[t].job \in Job /\ FollowsJob(task[t]) /\ journal[k] # NULL /\ journal[k] \in Job
      BY <1>b, <2>1
    <3> HIDE DEF state
    <3>4. /\ job \in Job /\ job.state = state /\ job.revision = journal[k].revision + 1
          /\ job.checkpoint = task[t].job.checkpoint /\ job.restored = task[t].job.restored
      <4>1. /\ ended \in Job /\ ended.state = state /\ ended.revision = task[t].job.revision
            /\ ended.checkpoint = task[t].job.checkpoint /\ ended.restored = task[t].job.restored
        BY <3>1, <3>3 DEF Job
      <4> HIDE DEF ended
      <4>2. task[t].job.revision = journal[k].revision
        BY <2>2 DEF Current
      <4> QED
        BY <4>1, <4>2 DEF Bumped, Job
    <3> HIDE DEF ended, job
    <3>5. /\ ~Terminal(journal[k]) /\ job.checkpoint >= journal[k].checkpoint /\ job.restored = journal[k].restored
          /\ job.restored >= journal[k].restored
      BY <2>1, <2>2, <3>3, <3>4 DEF FollowsJob, Current
    <3>6. job.restored > 0 => job.state = "Succeeded"
      BY <1>a, <3>3, <3>5 DEF CopiesInv, RestoredAfterSuccess, Terminal
    <3>7. job.state = "Succeeded" => job.checkpoint = 5
      BY <3>1, <3>3, <3>4 DEF FollowsJob
    <3>8. Onward
      BY <1>a, <3>2, <3>3, <3>5, JobOnward
    <3>9. journal[k].state # "Succeeded"
      BY <3>5 DEF Terminal
    <3> HIDE DEF k
    <3> QED
      BY <1>a, <2>1, <3>2, <3>3, <3>4, <3>6, <3>7, <3>8, <3>9, IdleTask, RevisionMoves DEF Executing, Restoring, k
  <2>3. CASE ~Current(t)
    BY <1>5, <1>c, <2>3 DEF Finish
  <2> QED
    BY <2>2, <2>3
<1>6. CASE PortFails(t)
  <2>1. CASE task[t].step = "restore"
    BY <1>6, <1>c, <2>1, <1>a DEF PortFails, Typed
  <2>2. CASE task[t].step # "restore"
    <3>1. task' = [task EXCEPT ![t].step = "fail"] /\ journal' = journal /\ task[t].step \in Executing
      BY <1>6, <1>a, <2>2 DEF PortFails, Executing
    <3> QED
      BY <1>d, <3>1 DEF Executing
  <2> QED
    BY <2>1, <2>2
<1>7. ASSUME NEW k \in Keys, Claim(t, k) PROVE CopiesInv' /\ Onward
  <2> DEFINE job == [journal[k] EXCEPT !.revision = @ + 1]
             q == [step |-> "start", key |-> k, job |-> job, seen |-> NULL]
  <2>1. journal[k] # NULL /\ journal[k] \in Job /\ ~Terminal(journal[k])
    BY <1>a, <1>7 DEF Claim, Claimable, Typed
  <2>2. /\ job \in Job /\ job.revision = journal[k].revision + 1 /\ job.checkpoint = journal[k].checkpoint
        /\ job.restored = journal[k].restored /\ job.state = journal[k].state
    BY <2>1 DEF Job
  <2>3. job.checkpoint >= journal[k].checkpoint /\ job.restored >= journal[k].restored
    BY <2>1, <2>2 DEF Job
  <2>4. q \in Task /\ q.step = "start" /\ q.key = k /\ q.job = job
    BY <2>2 DEF Task, Executing
  <2>5. journal' = [journal EXCEPT ![k] = job] /\ task' = [task EXCEPT ![t] = q]
    BY <1>7 DEF Claim
  <2> HIDE DEF job, q
  <2>6. Onward
    BY <1>a, <2>2, <2>3, <2>5, JobOnward
  <2>7. ~Terminal(job) /\ job.state # "Succeeded" /\ journal[k].state # "Succeeded" /\ ~(job.restored > 0)
    BY <2>1, <2>2 DEF CopiesInv, RestoredAfterSuccess, Terminal
  <2> QED
    BY <1>a, <2>1, <2>2, <2>4, <2>5, <2>6, <2>7, RevisionMoves DEF Restoring
<1> QED
  BY <1>1, <1>2, <1>3, <1>4, <1>5, <1>6, <1>7

\* The steps of execute that call a port.
LEMMA PortCopies ==
  ASSUME LifecycleInv, CopiesInv, NEW t \in Tasks,
         \/ PutManifest(t) \/ DeleteVector(t) \/ RemoveEdges(t) \/ DeleteContent(t)
         \/ DeleteBlobs(t)
  PROVE  CopiesInv' /\ Onward
<1>a. Typed
  BY DEF LifecycleInv
<1>1. task[t].step \in Executing /\ journal' = journal /\ task[t].job.checkpoint < 5
  BY <1>a DEF PutManifest, DeleteVector, RemoveEdges, DeleteContent, DeleteBlobs, Executing, Typed
<1>2. task[t].seen \in Entry \cup {NULL} /\ task[t] \in Task
  BY <1>a, <1>1, OwnCopy DEF Executing, Task
<1>3. PhaseDone(t) \/ task' = [task EXCEPT ![t].step = "fail"]
  BY DEF PutManifest, DeleteVector, RemoveEdges, DeleteContent, DeleteBlobs
<1>4. CASE PhaseDone(t)
  BY <1>a, <1>1, <1>4, PhaseCopies, JournalStays
<1>5. CASE task' = [task EXCEPT ![t].step = "fail"]
  <2>1. task' = [task EXCEPT ![t] = [@ EXCEPT !.step = "fail", !.seen = task[t].seen]]
    BY <1>a, <1>2, <1>5 DEF Typed, Task
  <2> QED
    BY <1>a, <1>1, <1>2, <2>1, SameCopies, JournalStays DEF Executing
<1> QED
  BY <1>3, <1>4, <1>5

\* A restore takes its copy from a job that has succeeded, and no execution
\* changes such a job any more.
LEMMA BeginCopies ==
  ASSUME LifecycleInv, CopiesInv, NEW t \in Tasks, NEW k \in Keys, BeginRestore(t, k)
  PROVE  CopiesInv' /\ Onward
<1>a. Typed
  BY DEF LifecycleInv
<1>q. PICK q : q = [step |-> "restore", key |-> k, job |-> journal[k], seen |-> NULL]
  OBVIOUS
<1>1. journal' = journal /\ task' = [task EXCEPT ![t] = q] /\ journal[k] # NULL /\ journal[k] \in Job
      /\ journal[k].state = "Succeeded"
  BY <1>a, <1>q DEF BeginRestore, MayRestore, Typed
<1>2. \A u \in Tasks : task'[u] = IF u = t THEN q ELSE task[u]
  BY <1>a, <1>1 DEF Typed
<1>3. q.step = "restore" /\ q.key = k /\ q.job = journal[k]
  BY <1>q
<1>4. FollowsJob(q)'
  BY <1>1, <1>3 DEF FollowsJob, Job, Executing, Restoring
<1>5. ASSUME NEW u \in Tasks, task'[u].step # "idle" PROVE FollowsJob(task[u])'
  <2>1. CASE u = t
    BY <1>2, <1>4, <2>1 DEF FollowsJob
  <2>2. CASE u # t
    BY <1>1, <1>2, <1>5, <2>2 DEF CopiesInv, FollowsJob
  <2> QED
    BY <2>1, <2>2
<1>6. \A u \in Tasks, x \in Keys : Holds(u, x)' => Holds(u, x)
  BY <1>1, <1>2, <1>3 DEF Holds, Executing
<1>7. RestoredAfterSuccess'
  BY <1>1 DEF CopiesInv, RestoredAfterSuccess
<1> QED
  BY <1>a, <1>1, <1>5, <1>6, <1>7, JournalStays DEF CopiesInv

\* The steps of restore.
LEMMA RestoreStepCopies ==
  ASSUME LifecycleInv, CopiesInv, NEW t \in Tasks, RestoreStep(t)
  PROVE  CopiesInv' /\ Onward
<1>a. Typed
  BY DEF LifecycleInv
<1>1. CASE RestoreBlobs(t) \/ RestoreContent(t) \/ RestoreEdges(t) \/ RestoreVector(t)
  <2>1. task[t].step = "restore" /\ task[t].job.restored < 4 /\ journal' = journal
    BY <1>1 DEF RestoreBlobs, RestoreContent, RestoreEdges, RestoreVector, InPhase
  <2>2. RestoreDone(t) \/ task' = [task EXCEPT ![t] = Idle]
    BY <1>1 DEF RestoreBlobs, RestoreContent, RestoreEdges, RestoreVector
  <2> QED
    BY <1>a, <2>1, <2>2, RestoreCopies, EndCopies, JournalStays
<1>2. CASE SaveRestore(t)
  <2>1. task[t].step = "resave" /\ task[t].step \in Restoring /\ task[t].step # "idle"
    BY <1>2 DEF SaveRestore, Restoring
  <2>2. CASE Current(t)
    BY <1>a, <1>2, <2>1, <2>2, OwnCopy, UpdateCopies DEF SaveRestore
  <2>3. CASE ~Current(t)
    BY <1>a, <1>2, <2>3, EndCopies, JournalStays DEF SaveRestore
  <2> QED
    BY <2>2, <2>3
<1>3. CASE EndRestore(t)
  BY <1>a, <1>3, EndCopies, JournalStays DEF EndRestore
<1> QED
  BY <1>1, <1>2, <1>3 DEF RestoreStep

\* The steps of the outside world.
LEMMA WorldOnward ==
  ASSUME Typed,
         \/ Write
         \/ \E k \in Keys : Submit(k) \/ LeaseExpires(k) \/ BackoffElapses(k)
         \/ \E t \in Tasks : Crash(t)
  PROVE  Onward
<1>1. ASSUME NEW k \in Keys, Submit(k) PROVE Onward
  BY <1>1, JobOnward DEF Submit
<1> QED
  BY <1>1, JournalStays DEF Write, LeaseExpires, BackoffElapses, Crash

LEMMA NextCopies ==
  ASSUME LifecycleInv, CopiesInv, [LifecycleNext]_lifecycleVars
  PROVE  CopiesInv' /\ Onward
<1>a. Typed
  BY DEF LifecycleInv
<1>1. CASE UNCHANGED lifecycleVars
  BY <1>a, <1>1, CopiesStay, JournalStays DEF lifecycleVars
<1>2. CASE LifecycleNext
  BY <1>a, <1>2, WorldCopies, WorldOnward, JournalCopies, PortCopies, BeginCopies, RestoreStepCopies
     DEF LifecycleNext, TaskStep, ExecuteStep
<1> QED
  BY <1>1, <1>2

LEMMA LifecycleInvariant == LifecycleSpec => [](LifecycleInv /\ CopiesInv)
BY InitLifecycle, NextLifecycle, InitCopies, NextCopies, PTL DEF LifecycleSpec

\* A restore has begun only on a job whose five phases are checkpointed,
\* however many tasks hold copies of the job: an execution whose lease has run
\* out cannot store its copy, because every transaction moves the revision on.
THEOREM NothingReturnsEarly == LifecycleSpec => []RestoredAfterSuccess
BY LifecycleInvariant, PTL DEF CopiesInv

\* The journal only moves forward: no transaction of a task takes a checkpoint
\* back or gives a job that has ended another outcome, although a task may
\* have lost its lease long before.
THEOREM JournalMovesForward == LifecycleSpec => ProgressKept
<1>1. LifecycleInv /\ CopiesInv /\ [LifecycleNext]_lifecycleVars
        => [\A k \in Keys : journal[k] # NULL =>
              /\ journal'[k].checkpoint >= journal[k].checkpoint
              /\ journal'[k].restored >= journal[k].restored
              /\ Terminal(journal[k]) => journal'[k].state = journal[k].state]_lifecycleVars
  BY NextCopies DEF Onward
<1> QED
  BY <1>1, LifecycleInvariant, PTL DEF LifecycleSpec, ProgressKept

-----------------------------------------------------------------------------
(* How often a job is tried.  An attempt that an error ends is the last one  *)
(* when max_attempts of them are counted; one that a crash or a lost lease   *)
(* ends is followed by another whatever the count.                           *)

\* The attempts that k may still begin.
Margin(k) == MaxAttempts + crashes + overruns - journal[k].attempts

\* Who holds k owes the attempt it is about to record, and another one may
\* begin beside it once the lease has run out.
Owed(t, k) == (IF task[t].step = "start" THEN 1 ELSE 0) + (IF k \in leased THEN 0 ELSE 1)

AttemptsInv ==
  \A k \in Keys : journal[k] # NULL =>
    /\ Margin(k) >= 0
    /\ ~Terminal(journal[k]) => Margin(k) >= 1 \/ \E t \in Tasks : Holds(t, k)
    /\ \A t \in Tasks : Holds(t, k) => Margin(k) >= Owed(t, k)

\* The types of the timers, the blobs and the counts of faults.
Counted ==
  /\ blobs \subseteq 1 .. MaxWrites
  /\ leased \subseteq Keys /\ delayed \subseteq Keys
  /\ crashes \in 0 .. MaxCrashes /\ overruns \in 0 .. MaxOverruns

LEMMA InitAttempts == LifecycleInit => AttemptsInv /\ Counted
BY LifecycleAssumption DEF LifecycleInit, AttemptsInv, Counted

LEMMA MarginType ==
  ASSUME Typed, Counted, NEW k \in Keys, journal[k] # NULL
  PROVE  Margin(k) \in Int /\ journal[k].attempts \in Nat
<1>1. journal[k].attempts \in Nat /\ crashes \in Nat /\ overruns \in Nat
  BY LifecycleAssumption DEF Typed, Counted, Job
<1> QED
  BY <1>1, LifecycleAssumption DEF Margin

\* t goes on with its copy or leaves a call in which it did not hold a job.
LEMMA TaskAttempts ==
  ASSUME Typed, Counted, AttemptsInv, NEW t \in Tasks, NEW q \in Task,
         task' = [task EXCEPT ![t] = q], UNCHANGED <<journal, leased, crashes, overruns>>,
         \/ /\ task[t].step \in Executing /\ q.step \in Executing /\ q.step # "start"
            /\ q.key = task[t].key /\ q.job.revision = task[t].job.revision
         \/ q.step \notin Executing /\ \A k \in Keys : ~Holds(t, k)
  PROVE  AttemptsInv'
<1>1. \A u \in Tasks : task'[u] = IF u = t THEN q ELSE task[u]
  BY DEF Typed
<1>2. \A u \in Tasks, k \in Keys : Holds(u, k)' <=> Holds(u, k)
  BY <1>1 DEF Holds
<1>3. \A k \in Keys : Margin(k)' = Margin(k)
  BY DEF Margin
<1>4. ASSUME NEW u \in Tasks, NEW k \in Keys, journal[k] # NULL, Holds(u, k)
      PROVE  Margin(k)' >= Owed(u, k)'
  <2>1. Margin(k) >= Owed(u, k) /\ Margin(k) \in Int
    BY <1>4, MarginType DEF AttemptsInv
  <2>2. Owed(u, k) \in Int /\ Owed(u, k)' \in Int /\ Owed(u, k)' <= Owed(u, k)
    BY <1>1 DEF Owed, Executing
  <2> QED
    BY <1>3, <2>1, <2>2
<1> QED
  BY <1>2, <1>3, <1>4 DEF AttemptsInv

\* The journal takes a job of k with a new revision from t; the lease of k is
\* taken, kept or released.
LEMMA JobAttempts ==
  ASSUME Typed, Counted, CopiesInv, AttemptsInv, NEW t \in Tasks, NEW q \in Task, NEW k \in Keys, NEW job \in Job,
         task' = [task EXCEPT ![t] = q], journal' = [journal EXCEPT ![k] = job],
         UNCHANGED <<crashes, overruns>>, \A x \in Keys \ {k} : x \in leased' <=> x \in leased,
         journal[k] # NULL, job.revision = journal[k].revision + 1,
         task[t].step \in Executing => task[t].key = k,
         q.step \in Executing => q.key = k /\ q.job = job,
         Margin(k)' >= 0,
         Terminal(job) \/ Margin(k)' >= 1 \/ q.step \in Executing,
         q.step \in Executing => Margin(k)' >= (IF q.step = "start" THEN 1 ELSE 0) + (IF k \in leased' THEN 0 ELSE 1)
  PROVE  AttemptsInv'
<1>1. \A u \in Tasks : task'[u] = IF u = t THEN q ELSE task[u]
  BY DEF Typed
<1>2. \A x \in Keys : journal'[x] = IF x = k THEN job ELSE journal[x]
  BY DEF Typed
<1>3. journal[k] \in Job /\ job # NULL
  BY NullAssumption DEF Typed
<1>4. ASSUME NEW u \in Tasks, Holds(u, k)' PROVE u = t
  <2>1. SUFFICES ASSUME u # t PROVE FALSE
    OBVIOUS
  <2>2. task[u].step # "idle" /\ task[u].key = k /\ task[u].job.revision = job.revision
    BY <1>1, <1>2, <1>4, <2>1 DEF Holds, Executing
  <2>3. FollowsJob(task[u]) /\ task[u].job \in Job
    BY <2>2, OwnCopy
  <2> QED
    BY <1>3, <2>2, <2>3 DEF FollowsJob, Job
<1>5. q.step \in Executing => Holds(t, k)'
  BY <1>1, <1>2 DEF Holds
<1>6. \A u \in Tasks, x \in Keys \ {k} : Holds(u, x)' <=> Holds(u, x)
  BY <1>1, <1>2 DEF Holds
<1>7. ASSUME NEW u \in Tasks, Holds(u, k)' PROVE Margin(k)' >= Owed(u, k)'
  BY <1>1, <1>4, <1>7 DEF Owed, Holds
<1>8. \A x \in Keys \ {k} : Margin(x)' = Margin(x)
  BY <1>2 DEF Margin
<1>9. \A u \in Tasks, x \in Keys \ {k} : Holds(u, x) => Owed(u, x)' = Owed(u, x)
  BY <1>1 DEF Owed, Holds
<1>10. ASSUME NEW x \in Keys \ {k}, journal[x] # NULL
       PROVE  /\ Margin(x)' >= 0
              /\ ~Terminal(journal[x]) => Margin(x)' >= 1 \/ \E u \in Tasks : Holds(u, x)'
              /\ \A u \in Tasks : Holds(u, x)' => Margin(x)' >= Owed(u, x)'
  BY <1>6, <1>8, <1>9, <1>10 DEF AttemptsInv
<1> QED
  BY <1>2, <1>3, <1>5, <1>7, <1>10 DEF AttemptsInv

\* Only these steps touch the journal, the leases or the counts of faults.
LEMMA WorldAttempts ==
  ASSUME LifecycleInv, Counted, CopiesInv, AttemptsInv,
         Write \/ \E k \in Keys : Submit(k) \/ BackoffElapses(k)
  PROVE  AttemptsInv' /\ Counted'
<1> USE DEF live, timers, faults
<1>a. Typed
  BY DEF LifecycleInv
<1>1. CASE Write
  <2>1. Counted'
    BY <1>1, LifecycleAssumption DEF Write, Counted, LifecycleInv, Stored
  <2> QED
    BY <1>1, <2>1 DEF Write, AttemptsInv, Margin, Owed, Holds
<1>2. ASSUME NEW k \in Keys, Submit(k) PROVE AttemptsInv' /\ Counted'
  <2>1. journal[k] = NULL /\ task' = task /\ \A x \in Keys : journal'[x] = IF x = k THEN Accepted ELSE journal[x]
    BY <1>a, <1>2 DEF Submit, Typed
  <2>2. UNCHANGED <<leased, delayed, blobs, crashes, overruns>>
    BY <1>2 DEF Submit
  <2>3. \A u \in Tasks : task[u].step \in Executing => task[u].key # k
    BY <1>a, <2>1, OwnCopy DEF Executing
  <2>4. \A u \in Tasks : ~Holds(u, k)'
    BY <2>1, <2>3 DEF Holds
  <2>5. Margin(k)' >= 1
    BY <2>1, <2>2, LifecycleAssumption DEF Margin, Accepted, Counted
  <2>6. Margin(k)' >= 0
    BY <2>1, <2>2, LifecycleAssumption DEF Margin, Accepted, Counted
  <2>7. \A x \in Keys \ {k} : Margin(x)' = Margin(x)
    BY <2>1, <2>2 DEF Margin
  <2>8. \A u \in Tasks, x \in Keys \ {k} : (Holds(u, x)' <=> Holds(u, x)) /\ Owed(u, x)' = Owed(u, x)
    BY <2>1, <2>2 DEF Holds, Owed
  <2>9. ASSUME NEW x \in Keys \ {k}, journal[x] # NULL
        PROVE  /\ Margin(x)' >= 0
               /\ ~Terminal(journal[x]) => Margin(x)' >= 1 \/ \E u \in Tasks : Holds(u, x)'
               /\ \A u \in Tasks : Holds(u, x)' => Margin(x)' >= Owed(u, x)'
    BY <2>7, <2>8, <2>9 DEF AttemptsInv
  <2> QED
    BY <2>1, <2>2, <2>4, <2>5, <2>6, <2>9 DEF AttemptsInv, Counted
<1>3. ASSUME NEW k \in Keys, BackoffElapses(k) PROVE AttemptsInv' /\ Counted'
  BY <1>3 DEF BackoffElapses, AttemptsInv, Margin, Owed, Holds, Counted
<1> QED
  BY <1>1, <1>2, <1>3

\* A crash or a lost lease pays for the attempt it lets begin.
LEMMA FaultAttempts ==
  ASSUME Typed, Counted, CopiesInv, AttemptsInv,
         (\E t \in Tasks : Crash(t)) \/ \E k \in Keys : LeaseExpires(k)
  PROVE  AttemptsInv' /\ Counted'
<1> USE DEF live, timers, faults
<1>1. ASSUME NEW t \in Tasks, Crash(t) PROVE AttemptsInv' /\ Counted'
  <2>1. /\ crashes' = crashes + 1 /\ crashes < MaxCrashes /\ UNCHANGED <<journal, leased, delayed, blobs, overruns>>
        /\ \A u \in Tasks : task'[u] = IF u = t THEN Idle ELSE task[u]
    BY <1>1 DEF Crash, Typed
  <2>2. Counted'
    BY <2>1, LifecycleAssumption DEF Counted
  <2>3. \A k \in Keys : journal[k] # NULL => Margin(k)' = Margin(k) + 1 /\ Margin(k) \in Int
    BY <2>1, MarginType, LifecycleAssumption DEF Margin, Counted
  <2>4. \A u \in Tasks, k \in Keys : Holds(u, k)' => Holds(u, k) /\ Owed(u, k)' = Owed(u, k)
    BY <2>1 DEF Holds, Owed, Idle, Executing
  <2>5. \A u \in Tasks, k \in Keys : Owed(u, k) \in Int
    BY DEF Owed
  <2>6. ASSUME NEW k \in Keys, journal[k] # NULL
        PROVE  Margin(k)' >= 1 /\ Margin(k)' >= 0 /\ \A u \in Tasks : Holds(u, k)' => Margin(k)' >= Owed(u, k)'
    BY <2>3, <2>4, <2>5, <2>6 DEF AttemptsInv
  <2> QED
    BY <2>1, <2>2, <2>6 DEF AttemptsInv
<1>2. ASSUME NEW k \in Keys, LeaseExpires(k) PROVE AttemptsInv' /\ Counted'
  <2>1. UNCHANGED <<journal, task, delayed, blobs, crashes>> /\ leased' = leased \ {k}
    BY <1>2 DEF LeaseExpires
  <2>2. \A u \in Tasks, x \in Keys : Holds(u, x)' <=> Holds(u, x)
    BY <2>1 DEF Holds
  <2>3. CASE Working(k)
    <3>1. overruns' = overruns + 1 /\ overruns < MaxOverruns
      BY <1>2, <2>3 DEF LeaseExpires
    <3>2. Counted'
      BY <2>1, <3>1, LifecycleAssumption DEF Counted
    <3>3. \A x \in Keys : journal[x] # NULL => Margin(x)' = Margin(x) + 1 /\ Margin(x) \in Int
      BY <2>1, <3>1, MarginType, LifecycleAssumption DEF Margin, Counted
    <3>4. \A u \in Tasks, x \in Keys : Owed(u, x) \in Int /\ Owed(u, x)' \in Int /\ Owed(u, x)' <= Owed(u, x) + 1
      BY <2>1 DEF Owed
    <3>5. ASSUME NEW x \in Keys, journal[x] # NULL
          PROVE  Margin(x)' >= 1 /\ Margin(x)' >= 0 /\ \A u \in Tasks : Holds(u, x)' => Margin(x)' >= Owed(u, x)'
      BY <2>2, <3>3, <3>4, <3>5 DEF AttemptsInv
    <3> QED
      BY <2>1, <3>2, <3>5 DEF AttemptsInv
  <2>4. CASE ~Working(k)
    <3>1. overruns' = overruns
      BY <1>2, <2>4 DEF LeaseExpires
    <3>2. \A u \in Tasks : ~Holds(u, k)
      BY <2>4 DEF Working, Holds
    <3>3. \A x \in Keys : Margin(x)' = Margin(x)
      BY <2>1, <3>1 DEF Margin
    <3>4. \A u \in Tasks, x \in Keys : Holds(u, x) => Owed(u, x)' = Owed(u, x)
      BY <2>1, <3>2 DEF Owed
    <3>5. Counted'
      BY <2>1, <3>1 DEF Counted
    <3> QED
      BY <2>1, <2>2, <3>3, <3>4, <3>5 DEF AttemptsInv
  <2> QED
    BY <2>3, <2>4
<1> QED
  BY <1>1, <1>2

\* The steps of restore hold no job, and what they store counts no attempt.
LEMMA RestoreAttempts ==
  ASSUME LifecycleInv, Counted, CopiesInv, AttemptsInv, NEW t \in Tasks,
         RestoreStep(t) \/ \E k \in Keys : BeginRestore(t, k)
  PROVE  AttemptsInv' /\ Counted'
<1> USE DEF live, timers, faults
<1>a. Typed
  BY DEF LifecycleInv
<1>b. task[t].step \notin Executing /\ \A k \in Keys : ~Holds(t, k)
  BY DEF RestoreStep, RestoreBlobs, RestoreContent, RestoreEdges, RestoreVector, SaveRestore, EndRestore,
         BeginRestore, InPhase, Executing, Holds
<1>c. UNCHANGED <<leased, delayed, crashes, overruns>>
  BY DEF RestoreStep, RestoreBlobs, RestoreContent, RestoreEdges, RestoreVector, SaveRestore, EndRestore,
         BeginRestore
<1>d. Counted'
  <2>1. CASE RestoreBlobs(t)
    <3>1. cold[task[t].key] \in Manifest
      BY <2>1, HasManifest DEF RestoreBlobs, InPhase, Beyond, Restoring
    <3> QED
      BY <1>c, <2>1, <3>1 DEF RestoreBlobs, Counted, Manifest, Entry
  <2>2. CASE ~RestoreBlobs(t)
    BY <1>c, <2>2 DEF RestoreStep, RestoreContent, RestoreEdges, RestoreVector, SaveRestore, EndRestore,
         BeginRestore, Counted
  <2> QED
    BY <2>1, <2>2
<1>1. ASSUME NEW q \in Task, task' = [task EXCEPT ![t] = q], q.step \notin Executing, journal' = journal
      PROVE  AttemptsInv'
  BY <1>a, <1>b, <1>c, <1>1, TaskAttempts
<1>e. task[t] \in Task /\ (task[t].step # "idle" => task[t].job \in Job)
  BY <1>a DEF Typed
<1>2. CASE SaveRestore(t) /\ Current(t)
  <2>1. PICK k \in Keys : k = task[t].key
    BY <1>a, <1>2, OwnCopy DEF SaveRestore
  <2>2. PICK old \in Job : old = task[t].job
    BY <1>a, <1>2, OwnCopy DEF SaveRestore
  <2>3. PICK job : job = Bumped(old)
    OBVIOUS
  <2>4. /\ task[t].step = "resave" /\ journal[k] # NULL /\ journal[k] \in Job /\ old.revision = journal[k].revision
        /\ old.attempts = journal[k].attempts /\ old.state = "Succeeded"
    BY <1>a, <1>2, <2>1, <2>2, OwnCopy DEF SaveRestore, Current, FollowsJob, Restoring
  <2>5. /\ job \in Job /\ job.revision = journal[k].revision + 1 /\ job.attempts = journal[k].attempts
        /\ Terminal(job)
    BY <2>2, <2>3, <2>4 DEF Bumped, Job, Terminal
  <2>6. PICK q : q = [task[t] EXCEPT !.step = "restore", !.job = job]
    OBVIOUS
  <2>7. q \in Task /\ q.step = "restore"
    BY <1>e, <2>5, <2>6 DEF Task, Restoring
  <2>8. task' = [task EXCEPT ![t] = q] /\ journal' = [journal EXCEPT ![k] = job]
    BY <1>2, <2>1, <2>2, <2>3, <2>6 DEF SaveRestore, Update
  <2>9. journal'[k].attempts = journal[k].attempts
    BY <1>a, <2>5, <2>8 DEF Typed
  <2>10. Margin(k)' >= 0
    BY <1>c, <2>4, <2>9 DEF Margin, AttemptsInv
  <2> QED
    BY <1>a, <1>b, <1>c, <1>d, <2>4, <2>5, <2>7, <2>8, <2>10, JobAttempts DEF Executing
<1>3. CASE ~(SaveRestore(t) /\ Current(t))
  <2>1. journal' = journal
    BY <1>3 DEF RestoreStep, RestoreBlobs, RestoreContent, RestoreEdges, RestoreVector, SaveRestore,
         EndRestore, BeginRestore
  <2>2. CASE task' = [task EXCEPT ![t] = Idle]
    <3>1. Idle.step \notin Executing
      BY DEF Idle, Executing
    <3> QED
      BY <1>1, <1>d, <2>1, <2>2, <3>1, IdleTask
  <2>3. CASE RestoreDone(t) /\ (RestoreBlobs(t) \/ RestoreContent(t) \/ RestoreEdges(t) \/ RestoreVector(t))
    <3>1. task[t].step = "restore" /\ task[t].job.restored < 4 /\ task[t].job \in Job
      BY <1>e, <2>3 DEF RestoreBlobs, RestoreContent, RestoreEdges, RestoreVector, InPhase
    <3>2. Restored(task[t].job) \in Job
      BY <3>1 DEF Restored, Job
    <3>a. PICK job \in Job : job = Restored(task[t].job)
      BY <3>2
    <3>3. PICK q : q = [task[t] EXCEPT !.step = "resave", !.job = job]
      OBVIOUS
    <3>4. q \in Task /\ q.step = "resave"
      BY <1>e, <3>3 DEF Task, Restoring
    <3>5. task' = [task EXCEPT ![t] = q] /\ q.step \notin Executing
      BY <2>3, <3>a, <3>3, <3>4 DEF RestoreDone, Executing
    <3> QED
      BY <1>1, <1>d, <2>1, <3>4, <3>5
  <2>4. ASSUME NEW k \in Keys, BeginRestore(t, k) PROVE AttemptsInv'
    <3>1. PICK q : q = [step |-> "restore", key |-> k, job |-> journal[k], seen |-> NULL]
      OBVIOUS
    <3>2. q \in Task /\ q.step = "restore"
      BY <1>a, <2>4, <3>1 DEF BeginRestore, MayRestore, Typed, Task, Restoring
    <3>3. task' = [task EXCEPT ![t] = q] /\ q.step \notin Executing
      BY <2>4, <3>1, <3>2 DEF BeginRestore, Executing
    <3> QED
      BY <1>1, <2>1, <3>2, <3>3
  <2>5. \/ task' = [task EXCEPT ![t] = Idle]
        \/ RestoreDone(t) /\ (RestoreBlobs(t) \/ RestoreContent(t) \/ RestoreEdges(t) \/ RestoreVector(t))
        \/ \E k \in Keys : BeginRestore(t, k)
    BY <1>3 DEF RestoreStep, RestoreBlobs, RestoreContent, RestoreEdges, RestoreVector, SaveRestore, EndRestore
  <2> QED
    BY <1>d, <2>2, <2>3, <2>4, <2>5
<1> QED
  BY <1>d, <1>2, <1>3

\* Who executes goes on with the same job, or a call of a port ends a restore.
LEMMA StepAttempts ==
  ASSUME LifecycleInv, Counted, CopiesInv, AttemptsInv, NEW t \in Tasks,
         \/ ReadEntry(t) \/ AllPhasesDone(t) \/ PortFails(t) \/ (Save(t) /\ ~Current(t))
         \/ PutManifest(t) \/ DeleteVector(t) \/ RemoveEdges(t) \/ DeleteContent(t) \/ DeleteBlobs(t)
  PROVE  AttemptsInv' /\ Counted'
<1> USE DEF live, timers, faults
<1>a. Typed
  BY DEF LifecycleInv
<1>b. UNCHANGED <<journal, leased, delayed, crashes, overruns>>
  BY DEF ReadEntry, AllPhasesDone, PortFails, Save, PutManifest, DeleteVector, RemoveEdges, DeleteContent,
         DeleteBlobs
<1>c. Counted'
  BY <1>b DEF ReadEntry, AllPhasesDone, PortFails, Save, PutManifest, DeleteVector, RemoveEdges, DeleteContent,
         DeleteBlobs, Counted
<1>d. ASSUME NEW q \in Task, task' = [task EXCEPT ![t] = q], task[t].step \in Executing,
             q.step \in Executing, q.step # "start", q.key = task[t].key,
             q.job.revision = task[t].job.revision
      PROVE  AttemptsInv'
  BY <1>a, <1>b, <1>d, TaskAttempts
<1>1. CASE task[t].step \in Executing
  <2>1. task[t] \in Task /\ task[t].job \in Job
    BY <1>a, <1>1 DEF Typed, Executing
  <2>2. ASSUME PhaseDone(t), task[t].job.checkpoint < 5 PROVE AttemptsInv'
    <3>1. Advanced(task[t].job) \in Job /\ Advanced(task[t].job).revision = task[t].job.revision
      BY <2>1, <2>2, NextPhaseJob
    <3>2. PICK job \in Job : job = Advanced(task[t].job)
      BY <3>1
    <3>3. PICK q : q = [task[t] EXCEPT !.step = "save", !.job = job]
      OBVIOUS
    <3>4. q \in Task /\ q.step = "save" /\ q.key = task[t].key /\ q.job = job
      BY <2>1, <3>3 DEF Task, Executing
    <3>5. task' = [task EXCEPT ![t] = q] /\ q.step \in Executing /\ q.job.revision = task[t].job.revision
      BY <2>2, <3>1, <3>2, <3>3, <3>4 DEF PhaseDone, Executing
    <3> QED
      BY <1>1, <1>d, <3>4, <3>5
  <2>3. ASSUME NEW step \in Executing \ {"start"}, NEW seen \in Entry \cup {NULL},
               task' = [task EXCEPT ![t] = [@ EXCEPT !.step = step, !.seen = seen]]
        PROVE  AttemptsInv'
    <3>1. PICK q : q = [task[t] EXCEPT !.step = step, !.seen = seen]
      OBVIOUS
    <3>2. q \in Task /\ q.step = step /\ q.key = task[t].key /\ q.job = task[t].job
      BY <2>1, <3>1 DEF Task
    <3> QED
      BY <1>1, <1>d, <2>3, <3>1, <3>2
  <2>4. ASSUME NEW step \in Executing \ {"start"}, task' = [task EXCEPT ![t].step = step]
        PROVE  AttemptsInv'
    <3>1. task[t].seen \in Entry \cup {NULL}
      BY <2>1 DEF Task
    <3>2. task' = [task EXCEPT ![t] = [@ EXCEPT !.step = step, !.seen = task[t].seen]]
      BY <1>a, <2>1, <2>4 DEF Typed, Task
    <3> QED
      BY <2>3, <3>1, <3>2
  <2>5. CASE ReadEntry(t)
    <3>1. CASE content = NULL
      <4>1. task' = [task EXCEPT ![t].step = "fail"]
        BY <2>5, <3>1 DEF ReadEntry
      <4> QED
        BY <1>c, <2>4, <4>1 DEF Executing
    <3>2. CASE content # NULL
      <4>1. task' = [task EXCEPT ![t] = [@ EXCEPT !.step = "put", !.seen = content]] /\ content \in Entry \cup {NULL}
        BY <2>5, <3>2 DEF ReadEntry, LifecycleInv, Stored
      <4> QED
        BY <1>c, <2>3, <4>1 DEF Executing
    <3> QED
      BY <3>1, <3>2
  <2>6. CASE AllPhasesDone(t)
    BY <1>c, <2>4, <2>6 DEF AllPhasesDone, Executing
  <2>7. CASE PortFails(t)
    <3>1. task' = [task EXCEPT ![t].step = "fail"]
      BY <1>a, <1>1, <2>7 DEF PortFails, Executing
    <3> QED
      BY <1>c, <2>4, <3>1 DEF Executing
  <2>8. CASE Save(t) /\ ~Current(t)
    BY <1>c, <2>4, <2>8 DEF Save, Executing
  <2>9. CASE PutManifest(t) \/ DeleteVector(t) \/ RemoveEdges(t) \/ DeleteContent(t) \/ DeleteBlobs(t)
    <3>1. task[t].job.checkpoint < 5
      BY <1>a, <2>9 DEF PutManifest, DeleteVector, RemoveEdges, DeleteContent, DeleteBlobs, Typed
    <3>2. PhaseDone(t) \/ task' = [task EXCEPT ![t].step = "fail"]
      BY <2>9 DEF PutManifest, DeleteVector, RemoveEdges, DeleteContent, DeleteBlobs
    <3> QED
      BY <1>c, <2>2, <2>4, <3>1, <3>2 DEF Executing
  <2> QED
    BY <2>5, <2>6, <2>7, <2>8, <2>9
<1>2. CASE task[t].step \notin Executing
  <2>1. task[t].step = "restore" /\ task' = [task EXCEPT ![t] = Idle]
    BY <1>a, <1>2 DEF ReadEntry, AllPhasesDone, PortFails, Save, PutManifest, DeleteVector, RemoveEdges,
         DeleteContent, DeleteBlobs, Executing, Typed
  <2>2. Idle.step \notin Executing /\ \A k \in Keys : ~Holds(t, k)
    BY <1>2 DEF Idle, Executing, Holds
  <2> QED
    BY <1>a, <1>b, <1>c, <2>1, <2>2, IdleTask, TaskAttempts
<1> QED
  BY <1>1, <1>2

\* claim: the margin was there, or the holder whose lease has run out leaves it.
LEMMA ClaimAttempts ==
  ASSUME LifecycleInv, Counted, CopiesInv, AttemptsInv, NEW t \in Tasks, NEW k \in Keys, Claim(t, k)
  PROVE  AttemptsInv' /\ Counted'
<1> USE DEF live, timers, faults
<1>a. Typed
  BY DEF LifecycleInv
<1>1. journal[k] # NULL /\ journal[k] \in Job /\ ~Terminal(journal[k]) /\ k \notin leased
      /\ task[t].step = "idle" /\ UNCHANGED <<crashes, overruns, delayed, blobs>> /\ leased' = leased \cup {k}
  BY <1>a DEF Claim, Claimable, Typed
<1>2. PICK job : job = [journal[k] EXCEPT !.revision = @ + 1]
  OBVIOUS
<1>3. job \in Job /\ job.revision = journal[k].revision + 1 /\ job.attempts = journal[k].attempts
  BY <1>1, <1>2 DEF Job
<1>4. PICK q : q = [step |-> "start", key |-> k, job |-> job, seen |-> NULL]
  OBVIOUS
<1>5. q \in Task /\ q.step = "start" /\ q.key = k /\ q.job = job
  BY <1>3, <1>4 DEF Task, Executing
<1>6. task' = [task EXCEPT ![t] = q] /\ journal' = [journal EXCEPT ![k] = job]
  BY <1>2, <1>4 DEF Claim
<1>7. Margin(k) >= 1
  <2>1. ASSUME NEW u \in Tasks, Holds(u, k) PROVE Margin(k) >= 1
    <3>1. Margin(k) >= Owed(u, k) /\ Margin(k) \in Int
      BY <1>a, <1>1, <2>1, MarginType DEF AttemptsInv
    <3>2. Owed(u, k) \in Int /\ Owed(u, k) >= 1
      BY <1>1 DEF Owed
    <3> QED
      BY <3>1, <3>2
  <2> QED
    BY <1>1, <2>1 DEF AttemptsInv
<1>8. Margin(k)' = Margin(k)
  <2>1. journal'[k].attempts = journal[k].attempts
    BY <1>a, <1>3, <1>6 DEF Typed
  <2> QED
    BY <1>1, <2>1 DEF Margin
<1>9. Margin(k)' >= 1 /\ Margin(k)' >= 0 /\ k \in leased' /\ q.step \in Executing
  BY <1>a, <1>1, <1>5, <1>7, <1>8, MarginType DEF Executing
<1>10. Counted'
  BY <1>1 DEF Counted
<1>11. /\ task[t].step \notin Executing
       /\ \A x \in Keys \ {k} : x \in leased' <=> x \in leased
       /\ Margin(k)' >= (IF q.step = "start" THEN 1 ELSE 0) + (IF k \in leased' THEN 0 ELSE 1)
  BY <1>1, <1>5, <1>9 DEF Executing
<1> QED
  BY <1>a, <1>1, <1>3, <1>5, <1>6, <1>9, <1>10, <1>11, JobAttempts

\* The transactions of the task that holds the current revision.
LEMMA UpdateAttempts ==
  ASSUME LifecycleInv, Counted, CopiesInv, AttemptsInv, NEW t \in Tasks,
         Start(t) \/ (Save(t) /\ Current(t)) \/ Finish(t)
  PROVE  AttemptsInv' /\ Counted'
<1> USE DEF live, timers, faults
<1>a. Typed
  BY DEF LifecycleInv
<1>b. task[t].step \in Executing /\ task[t].step # "idle"
  BY DEF Start, Save, Finish, Executing
<1>c. PICK k \in Keys, old \in Job : k = task[t].key /\ old = task[t].job
  BY <1>a, <1>b, OwnCopy
<1>d. task[t] \in Task /\ journal[k] # NULL /\ journal[k] \in Job /\ FollowsJob(task[t])
  BY <1>a, <1>b, <1>c, OwnCopy
<1>e. UNCHANGED <<crashes, overruns, blobs>>
  BY DEF Start, Save, Finish
<1>f. Counted'
  BY <1>c, <1>e DEF Start, Save, Finish, Counted
<1>1. CASE Current(t)
  <2>1. old.revision = journal[k].revision /\ old.attempts = journal[k].attempts /\ Holds(t, k)
    BY <1>1, <1>b, <1>c, <1>d DEF Current, FollowsJob, Holds
  <2>2. Margin(k) >= Owed(t, k) /\ Margin(k) >= 0 /\ Margin(k) \in Int
    BY <1>a, <1>d, <2>1, MarginType DEF AttemptsInv
  <2>3. CASE Start(t) \/ Save(t)
    <3>1. PICK more \in {0, 1} :
            /\ more = (IF task[t].step = "start" THEN 1 ELSE 0)
            /\ Start(t) => more = 1
            /\ Save(t) => more = 0
      <4>1. CASE task[t].step = "start"
        BY <4>1 DEF Save
      <4>2. CASE task[t].step # "start"
        BY <4>2 DEF Start
      <4> QED
        BY <4>1, <4>2
    <3>2. leased' = leased
      BY <2>3 DEF Start, Save
    <3>3. PICK job \in Job :
            /\ journal' = [journal EXCEPT ![k] = job]
            /\ job.revision = journal[k].revision + 1
            /\ job.attempts = journal[k].attempts + more
            /\ task' = [task EXCEPT ![t] = [@ EXCEPT !.step = "phase", !.job = job]]
      <4>1. CASE Start(t)
        <5> DEFINE started == [old EXCEPT !.state = "Running", !.attempts = @ + 1]
        <5>1. /\ started \in Job /\ started.revision = old.revision /\ started.attempts = old.attempts + 1
          <6>1. old.attempts + 1 \in Nat
            BY DEF Job
          <6> QED
            BY <6>1 DEF Job
        <5>2. Update(t, started, "phase")
          BY <1>1, <1>c, <4>1 DEF Start
        <5> HIDE DEF started
        <5>3. Bumped(started) \in Job /\ Bumped(started).revision = started.revision + 1
              /\ Bumped(started).attempts = started.attempts
          BY <5>1 DEF Bumped, Job
        <5>4. more = 1
          BY <3>1, <4>1
        <5>5. Bumped(started).attempts = journal[k].attempts + more
          BY <2>1, <5>1, <5>3, <5>4
        <5> QED
          BY <1>c, <2>1, <5>1, <5>2, <5>3, <5>5 DEF Update
      <4>2. CASE Save(t)
        <5>1. Update(t, old, "phase")
          BY <1>1, <1>c, <4>2 DEF Save
        <5>2. Bumped(old) \in Job /\ Bumped(old).revision = old.revision + 1
              /\ Bumped(old).attempts = old.attempts
          BY DEF Bumped, Job
        <5>3. more = 0
          BY <3>1, <4>2
        <5>4. old.attempts + more = old.attempts
          BY <5>3 DEF Job
        <5> QED
          BY <1>c, <2>1, <5>1, <5>2, <5>4 DEF Update
      <4> QED
        BY <2>3, <4>1, <4>2
    <3>4. PICK q : q = [task[t] EXCEPT !.step = "phase", !.job = job]
      OBVIOUS
    <3>5. q \in Task /\ q.step = "phase" /\ q.key = k /\ q.job = job /\ q.step \in Executing
      BY <1>c, <1>d, <3>4 DEF Task, Executing
    <3>6. Margin(k)' = Margin(k) - more
      <4>1. journal'[k].attempts = journal[k].attempts + more /\ journal[k].attempts \in Nat
        BY <1>a, <1>d, <3>3 DEF Typed, Job
      <4>2. MaxAttempts \in Int /\ crashes \in Int /\ overruns \in Int
        BY LifecycleAssumption DEF Counted
      <4> QED
        BY <1>e, <3>1, <4>1, <4>2 DEF Margin
    <3>7. Margin(k)' >= (IF k \in leased' THEN 0 ELSE 1) /\ Margin(k)' >= 0
      BY <2>2, <3>1, <3>2, <3>6 DEF Owed
    <3>8. task' = [task EXCEPT ![t] = q]
      BY <3>3, <3>4
    <3>9. Margin(k)' >= (IF q.step = "start" THEN 1 ELSE 0) + (IF k \in leased' THEN 0 ELSE 1)
      BY <3>5, <3>7
    <3> QED
      BY <1>a, <1>c, <1>d, <1>e, <1>f, <3>2, <3>3, <3>5, <3>7, <3>8, <3>9, JobAttempts
  <2>4. CASE Finish(t)
    <3>1. PICK state : state = Outcome(task[t])
      OBVIOUS
    <3>2. /\ state \in {"Succeeded", "PermanentlyFailed", "Retryable"}
          /\ state = "Retryable" => ~(old.attempts >= MaxAttempts)
      BY <1>c, <3>1 DEF Outcome, Exhausted
    <3>3. PICK job \in Job : job.state = state /\ job.attempts = old.attempts /\ job.revision = old.revision + 1
                            /\ job = Bumped([old EXCEPT !.state = state])
      <4>1. [old EXCEPT !.state = state] \in Job /\ [old EXCEPT !.state = state].attempts = old.attempts
            /\ [old EXCEPT !.state = state].revision = old.revision
            /\ [old EXCEPT !.state = state].state = state
        BY <3>2 DEF Job
      <4>2. PICK ended \in Job : ended = [old EXCEPT !.state = state]
        BY <4>1
      <4>3. Bumped(ended) \in Job /\ Bumped(ended).state = ended.state /\ Bumped(ended).attempts = ended.attempts
            /\ Bumped(ended).revision = ended.revision + 1
        BY DEF Bumped, Job
      <4> QED
        BY <4>1, <4>2, <4>3
    <3>4. task' = [task EXCEPT ![t] = Idle] /\ journal' = [journal EXCEPT ![k] = job] /\ leased' = leased \ {k}
      BY <1>1, <1>c, <2>4, <3>1, <3>3 DEF Finish
    <3>5. Margin(k)' = Margin(k)
      <4>1. journal'[k].attempts = journal[k].attempts
        BY <1>a, <1>d, <2>1, <3>3, <3>4 DEF Typed
      <4> QED
        BY <1>e, <4>1 DEF Margin
    <3>6. Terminal(job) \/ Margin(k)' >= 1
      <4>1. CASE state = "Retryable"
        <5>1. journal[k].attempts < MaxAttempts /\ journal[k].attempts \in Nat
          BY <1>d, <2>1, <3>2, <4>1, LifecycleAssumption DEF Job
        <5>2. crashes \in Nat /\ overruns \in Nat
          BY LifecycleAssumption DEF Counted
        <5> QED
          BY <3>5, <5>1, <5>2, LifecycleAssumption DEF Margin
      <4>2. CASE state # "Retryable"
        BY <3>2, <3>3, <4>2 DEF Terminal
      <4> QED
        BY <4>1, <4>2
    <3>7. Margin(k)' >= 0 /\ job.revision = journal[k].revision + 1
      BY <2>1, <2>2, <3>3, <3>5
    <3>8. Idle.step \notin Executing
      BY DEF Idle, Executing
    <3> QED
      BY <1>a, <1>c, <1>d, <1>e, <1>f, <3>4, <3>6, <3>7, <3>8, IdleTask, JobAttempts
  <2> QED
    BY <2>3, <2>4
<1>2. CASE ~Current(t)
  <2>1. task' = [task EXCEPT ![t] = Idle] /\ UNCHANGED <<journal, leased>>
    BY <1>2 DEF Start, Save, Finish
  <2>2. Idle.step \notin Executing /\ \A x \in Keys : ~Holds(t, x)
    BY <1>2 DEF Idle, Executing, Holds, Current
  <2> QED
    BY <1>a, <1>e, <1>f, <2>1, <2>2, IdleTask, TaskAttempts
<1> QED
  BY <1>1, <1>2

LEMMA NextAttempts ==
  ASSUME LifecycleInv, Counted, CopiesInv, AttemptsInv, [LifecycleNext]_lifecycleVars
  PROVE  AttemptsInv' /\ Counted'
<1>1. CASE UNCHANGED lifecycleVars
  BY <1>1 DEF lifecycleVars, AttemptsInv, Counted, Margin, Owed, Holds
<1>2. CASE LifecycleNext
  <2>1. Typed
    BY DEF LifecycleInv
  <2> QED
    BY <1>2, <2>1, WorldAttempts, FaultAttempts, RestoreAttempts, StepAttempts, ClaimAttempts, UpdateAttempts
       DEF LifecycleNext, TaskStep, ExecuteStep
<1> QED
  BY <1>1, <1>2

\* The types of the executor, and the number of attempts: a job is tried at most
\* max_attempts times, and once more for every crash and every lost lease.
\* claim looks at no count, so the end of an attempt has to stop the job, and
\* does although a second task may run beside it.
THEOREM AttemptsAreBounded == LifecycleSpec => []LifecycleTypeOK
<1>1. LifecycleInv /\ CopiesInv /\ AttemptsInv /\ Counted => LifecycleTypeOK
  <2> SUFFICES ASSUME LifecycleInv, CopiesInv, AttemptsInv, Counted PROVE LifecycleTypeOK
    OBVIOUS
  <2>1. Typed
    BY DEF LifecycleInv
  <2>2. ASSUME NEW k \in Keys, journal[k] # NULL
        PROVE  journal[k].attempts <= MaxAttempts + MaxCrashes + MaxOverruns
    <3>1. Margin(k) >= 0 /\ journal[k].attempts \in Nat
      BY <2>1, <2>2, MarginType DEF AttemptsInv
    <3> QED
      BY <3>1, LifecycleAssumption DEF Margin, Counted
  <2> QED
    BY <2>1, <2>2 DEF LifecycleInv, Stored, Typed, Counted, LifecycleTypeOK
<1> QED
  BY <1>1, LifecycleInvariant, InitAttempts, NextAttempts, PTL DEF LifecycleSpec

=============================================================================
