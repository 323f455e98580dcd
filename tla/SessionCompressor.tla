------------------------- MODULE SessionCompressor -------------------------
(* The compression of one session (SessionCompressorImpl): a task record    *)
(* and four artifacts in the content store, and a set of active tasks that  *)
(* only one process sees.  Calls (run, retry, recover) interleave at every  *)
(* await; a store or model call may fail, and the process may stop.         *)
EXTENDS Absent, Naturals

CONSTANTS
  Clients,        \* tasks that call run, retry or recover
  MaxFailures,    \* bounds how many port calls fail
  MaxStops,       \* bounds how often the process stops
  MaxAttempt      \* bounds the attempts when calls overlap

ASSUME CompressorAssumption == MaxFailures \in Nat /\ MaxStops \in Nat /\ MaxAttempt \in Nat

VARIABLES
  overlap,        \* whether two calls may be under way at a time
  record,         \* the stored TaskRecord: status and attempt
  artifacts,      \* what has been written for the session
  active,         \* the in-memory set holds the task
  calls,          \* where each client is, its copy of the record, its last reply
  failures, stops

compressorVars == <<overlap, record, artifacts, active, calls, failures, stops>>

Artifacts == {"archive", "diff", "overview", "done"}
TaskStatus == {"pending", "processing", "done", "failed"}
TaskRecord == [status : TaskStatus, attempt : Nat]

ASSUME NoRecordAssumption == NULL \notin TaskRecord

Stages == {"idle", "lookup", "archive", "pending", "load", "enter", "processing", "pipeline",
           "diff", "overview", "done", "terminal", "failed", "leave"}
Inside == {"processing", "pipeline", "diff", "overview", "done", "terminal", "failed", "leave"}
Replies == {"none", "done", "error", "conflict"}

CompressorInit ==
  /\ overlap \in BOOLEAN
  /\ record = NULL /\ artifacts = {} /\ active = FALSE
  /\ calls = [c \in Clients |-> [at |-> "idle", mine |-> NULL, reply |-> "none"]]
  /\ failures = 0 /\ stops = 0

Goto(c, at) == calls' = [calls EXCEPT ![c].at = at]
Reply(c, reply) == calls' = [calls EXCEPT ![c] = [at |-> "idle", mine |-> NULL, reply |-> reply]]
\* Stores the client's copy with another status.
Save(c, rec, at) ==
  record' = rec /\ calls' = [calls EXCEPT ![c].mine = rec, ![c].at = at]

\* run begins with enqueue, retry and recover with process.
Call(c) ==
  /\ calls[c].at = "idle"
  /\ overlap \/ \A d \in Clients : calls[d].at = "idle"
  /\ record # NULL /\ overlap => record.attempt < MaxAttempt
  /\ \E at \in {"lookup", "load"} : calls' = [calls EXCEPT ![c] = [at |-> at, mine |-> NULL, reply |-> "none"]]
  /\ UNCHANGED <<overlap, record, artifacts, active, failures, stops>>

\* Fault: enqueue writes the archive and the record every time.
LookupNothing(c) ==
  /\ calls[c].at = "lookup"
  /\ Goto(c, "archive")
  /\ UNCHANGED <<overlap, record, artifacts, active, failures, stops>>

\* enqueue: nothing to do when a record can be read; otherwise the archive
\* first, then the record.
Lookup(c) ==
  /\ calls[c].at = "lookup"
  /\ Goto(c, IF record = NULL THEN "archive" ELSE "load")
  /\ UNCHANGED <<overlap, record, artifacts, active, failures, stops>>

SavePending(c) ==
  /\ calls[c].at = "pending"
  /\ Save(c, [status |-> "pending", attempt |-> 0], "load")
  /\ UNCHANGED <<overlap, artifacts, active, failures, stops>>

\* process: the record is read before the task is made active.
LoadRecord(c) ==
  /\ calls[c].at = "load"
  /\ IF record = NULL THEN Reply(c, "error")
     ELSE IF record.status = "done" THEN Reply(c, "done")
     ELSE calls' = [calls EXCEPT ![c].at = "enter", ![c].mine = record]
  /\ UNCHANGED <<overlap, record, artifacts, active, failures, stops>>

Enter(c) ==
  /\ calls[c].at = "enter"
  /\ IF active THEN Reply(c, "conflict") /\ UNCHANGED active
     ELSE Goto(c, "processing") /\ active' = TRUE
  /\ UNCHANGED <<overlap, record, artifacts, failures, stops>>

StartAttempt(c) ==
  /\ calls[c].at = "processing"
  /\ Save(c, [status |-> "processing", attempt |-> calls[c].mine.attempt + 1], "pipeline")
  /\ UNCHANGED <<overlap, artifacts, active, failures, stops>>

\* extract, deduplicate, the abstracts and the overview.
Extract(c) ==
  /\ calls[c].at = "pipeline"
  /\ Goto(c, "diff")
  /\ UNCHANGED <<overlap, record, artifacts, active, failures, stops>>

\* Fault: the marker is written before the overview.
AfterUnordered == [archive |-> "pending", diff |-> "done", done |-> "overview", overview |-> "terminal"]

After == [archive |-> "pending", diff |-> "overview", overview |-> "done", done |-> "terminal"]

\* The writes of enqueue and of execute_pipeline, in order.
WriteArtifact(c) ==
  /\ calls[c].at \in Artifacts
  /\ artifacts' = artifacts \cup {calls[c].at}
  /\ Goto(c, After[calls[c].at])
  /\ UNCHANGED <<overlap, record, active, failures, stops>>

Finish(c) ==
  /\ calls[c].at \in {"terminal", "failed"}
  /\ Save(c, [status |-> IF calls[c].at = "terminal" THEN "done" ELSE "failed",
              attempt |-> calls[c].mine.attempt], "leave")
  /\ UNCHANGED <<overlap, artifacts, active, failures, stops>>

Leave(c) ==
  /\ calls[c].at = "leave"
  /\ active' = FALSE
  /\ Reply(c, IF calls[c].mine.status = "done" THEN "done" ELSE "error")
  /\ UNCHANGED <<overlap, record, artifacts, failures, stops>>

\* An error of the pipeline is recorded; one of save_record leaves at once; one
\* before the task is active ends the call.
FailedTo(at) ==
  CASE at \in {"pipeline", "diff", "overview", "done"} -> "failed"
    [] at \in {"processing", "terminal", "failed"} -> "leave"
    [] OTHER -> "idle"

PortFails(c) ==
  /\ failures < MaxFailures
  /\ calls[c].at \in Stages \ {"idle", "lookup", "enter", "leave"}
  /\ LET next == FailedTo(calls[c].at)
     IN IF next = "idle" THEN Reply(c, "error")
        ELSE calls' = [calls EXCEPT ![c] = [at |-> next, mine |-> [@.mine EXCEPT !.status = "failed"], reply |-> @.reply]]
  /\ failures' = failures + 1
  /\ UNCHANGED <<overlap, record, artifacts, active, stops>>

\* The process stops: every call is gone, and the set of active tasks with it.
Stop ==
  /\ stops < MaxStops
  /\ \E c \in Clients : calls[c].at # "idle"
  /\ stops' = stops + 1
  /\ active' = FALSE
  /\ calls' = [c \in Clients |-> [at |-> "idle", mine |-> NULL, reply |-> "none"]]
  /\ UNCHANGED <<overlap, record, artifacts, failures>>

ClientStep(c) ==
  \/ Lookup(c) \/ SavePending(c) \/ LoadRecord(c) \/ Enter(c) \/ StartAttempt(c)
  \/ Extract(c) \/ WriteArtifact(c) \/ Finish(c) \/ Leave(c) \/ PortFails(c)

CompressorNext == Stop \/ \E c \in Clients : Call(c) \/ ClientStep(c)

CompressorSpec == CompressorInit /\ [][CompressorNext]_compressorVars

-----------------------------------------------------------------------------
CompressorTypeOK ==
  /\ overlap \in BOOLEAN /\ active \in BOOLEAN
  /\ record \in Opt(TaskRecord) /\ artifacts \subseteq Artifacts
  /\ calls \in [Clients -> [at : Stages, mine : Opt(TaskRecord), reply : Replies]]
  /\ failures \in 0..MaxFailures /\ stops \in 0..MaxStops

Durable == {"archive", "diff", "overview"} \subseteq artifacts

\* "All artifacts are durable before this single persisted terminal transition":
\* whatever overlaps, fails or stops, a record that says done, a marker in the
\* archive and a call that has returned Ok each mean that the diff, the overview
\* and the archive are there.
DoneIsDurable ==
  /\ record # NULL /\ record.status = "done" => Durable
  /\ "done" \in artifacts => Durable
  /\ \A c \in Clients : calls[c].reply = "done" => Durable

\* The task is in the active set exactly while one call is inside, so that a call
\* that fails, wherever it fails, locks nobody out.
ActiveIsInside ==
  /\ \A c, d \in Clients : calls[c].at \in Inside /\ calls[d].at \in Inside => c = d
  /\ active <=> \E c \in Clients : calls[c].at \in Inside

(***************************************************************************)
(* What is done is durable and what is under way is held by one call       *)
(* (archive_only, enqueue, process).                                       *)
(***************************************************************************)
ArchiveSound == CompressorTypeOK /\ DoneIsDurable /\ ActiveIsInside

\* When calls do not overlap, a finished task is never processed again, nor put
\* back by enqueue.
DoneIsFinal ==
  [][~overlap /\ record # NULL /\ record.status = "done" => record' = record]_compressorVars
=============================================================================
