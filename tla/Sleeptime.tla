------------------------------ MODULE Sleeptime ------------------------------
(* SleeptimeExecutor::run_once: a sweep over the entries of an agent, a page *)
(* per run, whose position is kept in the progress store.  A run clones the  *)
(* page it scanned and takes the clones through its tasks in order; a task   *)
(* writes whole clones back, while clients write the same entries.  Any call *)
(* may fail, which ends the run before its progress is saved.                *)
EXTENDS Absent, Naturals, Sequences, FiniteSets, SequencesExt, FiniteSetsExt

CONSTANTS
  SleepNames,        \* how many URIs there are below the root
  BatchLimit,        \* batch_limit
  SleepTasks,        \* the tasks that write entries, in the order of self.tasks
  MaxSleepEdits,     \* bounds the writes and deletes of clients
  MaxSleepFailures   \* bounds the runs that fail

VARIABLES
  memory,            \* name -> entry or NULL: the newest text and the tags
  progress,          \* SleeptimeProgress in the store
  night,             \* the run under way
  sleepEdits, sleepFailures,
  \* What the properties need to know of the past.
  treated,           \* name -> the tasks it went through since the sweep began
  roster             \* the names that were there all through the sweep

sleepVars == <<memory, progress, night, sleepEdits, sleepFailures, treated, roster>>

SleepUris == 1..SleepNames
AllTasks == ToSet(SleepTasks)
FreshProgress == [cursor |-> 0, attempt |-> 0, error |-> FALSE]
Awake == [at |-> "idle", batch |-> <<>>, clones |-> [u \in SleepUris |-> NULL], task |-> 1,
          entry |-> 1, state |-> FreshProgress]

MemoryNow == {u \in SleepUris : memory[u] # NULL}

SleepInit ==
  /\ \E S \in SUBSET SleepUris :
       /\ memory = [u \in SleepUris |-> IF u \in S THEN [text |-> 0, tags |-> {}] ELSE NULL]
       /\ roster = S
  /\ progress = FreshProgress /\ night = Awake
  /\ sleepEdits = 0 /\ sleepFailures = 0
  /\ treated = [u \in SleepUris |-> {}]

\* The page after the cursor, scanned and filtered.  The watermark is never set.
PageAfter(cursor) ==
  LET after == SetToSortSeq({u \in MemoryNow : u > cursor}, <)
  IN SubSeq(after, 1, IF Len(after) > BatchLimit THEN BatchLimit ELSE Len(after))

\* Fault: the progress is saved before the tasks have run.
SavedAtOnce(state) ==
  progress' = IF PageAfter(state.cursor) = <<>> THEN state ELSE [state EXCEPT !.cursor = Last(PageAfter(state.cursor))]

\* The progress stays what it was until the run has ended.
KeptUntilDone(state) == progress' = progress

\* The start of a run: load, scan; an empty page after a cursor ends the sweep.
StartNight ==
  /\ night.at = "idle"
  /\ LET state == [progress EXCEPT !.attempt = 1]
         batch == PageAfter(progress.cursor)
         over == batch = <<>> /\ progress.cursor # 0
     IN /\ night' = [at |-> "run", batch |-> batch, task |-> 1, entry |-> 1,
                     clones |-> [u \in SleepUris |-> IF u \in ToSet(batch) THEN memory[u] ELSE NULL],
                     state |-> IF over THEN FreshProgress ELSE state]
        /\ KeptUntilDone(state)
  /\ UNCHANGED <<memory, sleepEdits, sleepFailures, treated, roster>>

\* The scan fails: only the error is recorded.
ScanFails ==
  /\ night.at = "idle" /\ sleepFailures < MaxSleepFailures
  /\ progress' = [progress EXCEPT !.error = TRUE, !.attempt = 1]
  /\ sleepFailures' = sleepFailures + 1
  /\ UNCHANGED <<memory, night, sleepEdits, treated, roster>>

\* Quality and review write the entries they chose.
PlannedWrites(chosen) == chosen

\* Cascade and health write every clone that bears a tag of theirs, from now or
\* from an earlier sweep; so do the learning, drift and curiosity tasks.
TaggedWrites(task, clone, chosen) == chosen \/ task \in clone.tags

\* The consistency guard writes those of cascade and health as well (its own tag
\* stands for the validity record that it sets too).
GuardWrites(clone, chosen) == chosen \/ clone.tags \cap {"consistency", "cascade", "health"} # {}

Rewrites(task, clone, chosen) ==
  CASE task \in {"quality", "review"} -> PlannedWrites(chosen)
    [] task = "consistency" -> GuardWrites(clone, chosen)
    [] OTHER -> TaggedWrites(task, clone, chosen)

\* A task reaches the next clone of the batch.  The tag is put on a clone of the
\* clone: the next task starts from the text and the tags of the scan again.
TakeThrough ==
  /\ night.at = "run" /\ night.batch # <<>> /\ night.task <= Len(SleepTasks)
  /\ LET u == night.batch[night.entry]
         task == SleepTasks[night.task]
         clone == night.clones[u]
     IN /\ \E chosen \in BOOLEAN :
             memory' = IF Rewrites(task, clone, chosen)
                       THEN [memory EXCEPT ![u] =
                               [text |-> clone.text,
                                tags |-> clone.tags \cup (IF chosen THEN {task} ELSE {})]]
                       ELSE memory
        /\ treated' = [treated EXCEPT ![u] = @ \cup {task}]
  /\ night' = IF night.entry < Len(night.batch) THEN [night EXCEPT !.entry = @ + 1]
              ELSE [night EXCEPT !.entry = 1, !.task = @ + 1]
  /\ UNCHANGED <<progress, sleepEdits, sleepFailures, roster>>

\* The end of a run.  A sweep that is over starts again with who is there now.
EndNight ==
  /\ night.at = "run" /\ (night.batch = <<>> \/ night.task > Len(SleepTasks))
  /\ progress' = [night.state EXCEPT !.error = FALSE,
                    !.cursor = IF night.batch = <<>> THEN @ ELSE Last(night.batch)]
  /\ IF progress.cursor # 0 /\ night.batch = <<>>
       THEN /\ treated' = [u \in SleepUris |-> {}] /\ roster' = MemoryNow
       ELSE UNCHANGED <<treated, roster>>
  /\ night' = Awake
  /\ UNCHANGED <<memory, sleepEdits, sleepFailures>>

\* A call of the run fails (`?`), or the process stops: the page comes again.
NightFails ==
  /\ night.at = "run" /\ sleepFailures < MaxSleepFailures
  /\ night' = Awake /\ sleepFailures' = sleepFailures + 1
  /\ UNCHANGED <<memory, progress, sleepEdits, treated, roster>>

\* A client writes an entry, or it is deleted (by a client, or archived by the
\* lifecycle jobs that the run itself executes).
ClientWrites(u) ==
  /\ sleepEdits < MaxSleepEdits /\ sleepEdits' = sleepEdits + 1
  /\ memory' = [memory EXCEPT ![u] =
                  [text |-> sleepEdits + 1, tags |-> IF @ = NULL THEN {} ELSE @.tags]]
  /\ UNCHANGED <<progress, night, sleepFailures, treated, roster>>

ClientDeletes(u) ==
  /\ memory[u] # NULL /\ sleepEdits < MaxSleepEdits /\ sleepEdits' = sleepEdits + 1
  /\ memory' = [memory EXCEPT ![u] = NULL] /\ roster' = roster \ {u}
  /\ UNCHANGED <<progress, night, sleepFailures, treated>>

SleepNext ==
  \/ StartNight \/ ScanFails \/ TakeThrough \/ EndNight \/ NightFails
  \/ \E u \in SleepUris : ClientWrites(u) \/ ClientDeletes(u)

(***************************************************************************)
(* Whatever fails in between, the position moves past an entry that was    *)
(* there all along only when every task has been through it in this sweep, *)
(* and a sweep ends only when that holds of all of them (the page, the     *)
(* cursor and the order of run_once).                                      *)
(***************************************************************************)
SweepComplete ==
  [][progress'.cursor # progress.cursor
       => \A u \in roster : (progress'.cursor = 0 \/ u <= progress'.cursor) => treated[u] = AllTasks]_sleepVars
=============================================================================
