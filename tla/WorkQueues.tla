----------------------------- MODULE WorkQueues -----------------------------
(* What is handed over to be worked on later: tasks in a queue, writes in a  *)
(* buffer.  The two share no state.                                          *)
EXTENDS Absent, Naturals, Sequences, FiniteSets, SequencesExt

(***************************************************************************)
(* TokioSemanticQueue: an unbounded queue whose receiver the workers take  *)
(* turns to lock, and a table of outcomes.  A worker may be aborted.         *)
(***************************************************************************)
CONSTANTS
  QueueWorkers,
  MaxTasks,        \* bounds how many tasks are enqueued
  MaxAborts        \* bounds how many workers are aborted

ASSUME QueueAssumption ==
  /\ MaxTasks \in Nat /\ MaxAborts \in Nat
  /\ NULL \notin 1..MaxTasks

VARIABLES
  queue,         \* tasks sent and not yet received; tasks are numbered as sent
  receiver,        \* the worker that holds the receiver's lock
  hands,           \* the state of each worker and the task in its hands
  outcomes,        \* task -> how often complete was called, and the last outcome
  enqueued

queueVars == <<queue, receiver, hands, outcomes, enqueued>>

Tasks == 1..MaxTasks
Hand(at, task) == [at |-> at, task |-> task]

QueueInit ==
  /\ queue = <<>> /\ receiver = NULL /\ enqueued = 0
  /\ hands = [w \in QueueWorkers |-> Hand("asking", NULL)]
  /\ outcomes = [t \in Tasks |-> [times |-> 0, last |-> NULL]]

Enqueue ==
  /\ enqueued < MaxTasks
  /\ enqueued' = enqueued + 1
  /\ queue' = Append(queue, enqueued')
  /\ UNCHANGED <<receiver, hands, outcomes>>

LockReceiver(w) ==
  /\ hands[w].at = "asking" /\ receiver = NULL
  /\ receiver' = w
  /\ hands' = [hands EXCEPT ![w] = Hand("waiting", NULL)]
  /\ UNCHANGED <<queue, outcomes, enqueued>>

\* Fault: the guard is kept across the handler.
DequeueAndHold(w) ==
  /\ hands[w].at = "waiting" /\ queue # <<>>
  /\ hands' = [hands EXCEPT ![w] = Hand("handling", Head(queue))]
  /\ queue' = Tail(queue)
  /\ UNCHANGED <<receiver, outcomes, enqueued>>

\* recv waits with the lock held.  The queue never closes: the worker itself
\* owns the queue, and so a sender.
Dequeue(w) ==
  /\ hands[w].at = "waiting" /\ queue # <<>>
  /\ hands' = [hands EXCEPT ![w] = Hand("handling", Head(queue))]
  /\ queue' = Tail(queue)
  /\ receiver' = NULL
  /\ UNCHANGED <<outcomes, enqueued>>

\* Fault: an outcome is kept only when it is a success.
CompleteSuccess(w, outcome) ==
  /\ hands[w].at = "handling"
  /\ outcomes' = IF outcome = "success"
                 THEN [outcomes EXCEPT ![hands[w].task] = [times |-> @.times + 1, last |-> outcome]]
                 ELSE outcomes
  /\ hands' = [hands EXCEPT ![w] = Hand("asking", NULL)]
  /\ UNCHANGED <<queue, receiver, enqueued>>

\* The handler has ended; complete never fails.
Complete(w, outcome) ==
  /\ hands[w].at = "handling"
  /\ outcomes' = [outcomes EXCEPT ![hands[w].task] = [times |-> @.times + 1, last |-> outcome]]
  /\ hands' = [hands EXCEPT ![w] = Hand("asking", NULL)]
  /\ UNCHANGED <<queue, receiver, enqueued>>

\* abort drops the worker's future at an await, with its guard and its task.
Abort(w) ==
  /\ hands[w].at # "aborted"
  /\ Cardinality({v \in QueueWorkers : hands[v].at = "aborted"}) < MaxAborts
  /\ hands' = [hands EXCEPT ![w].at = "aborted"]
  /\ receiver' = IF receiver = w THEN NULL ELSE receiver
  /\ UNCHANGED <<queue, outcomes, enqueued>>

WorkerStep(w) ==
  LockReceiver(w) \/ Dequeue(w) \/ \E outcome \in {"success", "failure"} : Complete(w, outcome)

QueueNext == Enqueue \/ \E w \in QueueWorkers : WorkerStep(w) \/ Abort(w)

-----------------------------------------------------------------------------
LostWith == {hands[w].task : w \in {v \in QueueWorkers : hands[v].at = "aborted"}} \ {NULL}
InHand == {hands[w].task : w \in {v \in QueueWorkers : hands[v].at = "handling"}}

\* A task that was enqueued is in the queue, in one worker's hands, completed
\* exactly once, or gone with an aborted worker: nothing is delivered twice or
\* disappears otherwise.
EveryTaskAccounted ==
  /\ \A t \in 1..enqueued :
       Cardinality({p \in {"channel", "hand", "completed", "lost"} :
         \/ p = "channel" /\ t \in Range(queue)
         \/ p = "hand" /\ t \in InHand
         \/ p = "completed" /\ outcomes[t].times = 1
         \/ p = "lost" /\ t \in LostWith}) = 1
  /\ \A t \in Tasks : outcomes[t].times \in {0, 1}
  /\ Len(queue) + Cardinality(InHand) + Cardinality(LostWith)
       + Cardinality({t \in Tasks : outcomes[t].times = 1}) = enqueued

\* As long as one worker lives, every task leaves the queue: no worker that is
\* aborted or busy keeps the receiver from the others.
TasksLeaveTheQueue ==
  \A t \in Tasks : t \in Range(queue) ~> t \notin Range(queue)

(***************************************************************************)
(* BatchWriteBuffer: writers push to a vector and wait for a reply; the      *)
(* writer that fills the batch, and a timer task, take the vector and write  *)
(* its entries one by one to the store.                                      *)
(***************************************************************************)
CONSTANTS
  MaxBuffered,     \* bounds how many writes are made
  BufferBatch,     \* batch_size
  MaxDropped       \* bounds how many writers give up

ASSUME BufferAssumption == MaxBuffered \in Nat /\ BufferBatch \in Nat /\ MaxDropped \in Nat

VARIABLES
  pending,         \* writes not taken by a flush; writes are numbered in the order of their pushes
  flushes,         \* what each flush still has to write: the timer's, and one per writer
  stored,          \* the writes in the order the store committed them
  writers,         \* the state of each write
  before           \* the writes that had been answered when this one was pushed

bufferVars == <<pending, flushes, stored, writers, before>>

Writes == 1..MaxBuffered
Timer == 0
Flushers == {Timer} \cup Writes

BufferInit ==
  /\ pending = <<>> /\ stored = <<>>
  /\ flushes = [f \in Flushers |-> <<>>]
  /\ writers = [w \in Writes |-> "new"]
  /\ before = [w \in Writes |-> {}]

\* One lock: push and look at the length.
Push(w) ==
  /\ writers[w] = "new" /\ \A v \in 1..(w - 1) : writers[v] # "new"
  /\ pending' = Append(pending, w)
  /\ before' = [before EXCEPT ![w] = {v \in Writes : writers[v] = "ok"}]
  /\ writers' = [writers EXCEPT ![w] = IF Len(pending') >= BufferBatch THEN "flush" ELSE "waiting"]
  /\ UNCHANGED <<flushes, stored>>

TakeBatch(f) ==
  /\ pending # <<>>
  /\ flushes' = [flushes EXCEPT ![f] = pending]
  /\ pending' = <<>>

Flush(w) ==
  /\ writers[w] = "flush"
  /\ IF pending = <<>>
     THEN writers' = [writers EXCEPT ![w] = "waiting"] /\ UNCHANGED <<pending, flushes>>
     ELSE TakeBatch(w) /\ writers' = [writers EXCEPT ![w] = "flushing"]
  /\ UNCHANGED <<stored, before>>

Tick ==
  /\ flushes[Timer] = <<>> /\ TakeBatch(Timer)
  /\ UNCHANGED <<stored, writers, before>>

Answered(w, reply) ==
  IF writers[w] \in {"waiting", "flush", "flushing"} THEN [writers EXCEPT ![w] = reply] ELSE writers

\* One entry of a batch.  The writer that flushes reads its own reply only
\* after the loop, which changes nothing for it.
WriteOne(f) ==
  /\ flushes[f] # <<>>
  /\ LET w == Head(flushes[f]) IN
       \/ stored' = Append(stored, w) /\ writers' = Answered(w, "ok")
       \/ UNCHANGED stored /\ writers' = Answered(w, "error")
  /\ flushes' = [flushes EXCEPT ![f] = Tail(@)]
  /\ UNCHANGED <<pending, before>>

\* The caller of write drops its future.  A flush that it was running ends with
\* it: the store may or may not have committed the entry under way, and every
\* write whose sender goes with the batch is answered "cancelled".
GiveUp(w) ==
  /\ writers[w] \in {"flush", "flushing", "waiting"} \/ flushes[w] # <<>>
  /\ Cardinality({v \in Writes : writers[v] = "dropped"}) < MaxDropped
  /\ \/ UNCHANGED stored
     \/ flushes[w] # <<>> /\ stored' = Append(stored, Head(flushes[w]))
  /\ writers' = [v \in Writes |->
       IF v = w THEN "dropped"
       ELSE IF v \in Range(flushes[w]) /\ writers[v] # "dropped" THEN "cancelled" ELSE writers[v]]
  /\ flushes' = [flushes EXCEPT ![w] = <<>>]
  /\ UNCHANGED <<pending, before>>

BufferNext ==
  \/ Tick \/ \E f \in Flushers : WriteOne(f)
  \/ \E w \in Writes : Push(w) \/ Flush(w) \/ GiveUp(w)

-----------------------------------------------------------------------------
Position(w) == CHOOSE i \in DOMAIN stored : stored[i] = w

\* Callers cannot tell the buffer from the store.  Two flushes may write at the
\* same time and out of order, but a write that was answered before another was
\* submitted precedes it in the store; no write is applied twice; Ok is said only
\* of what the store holds and an error only of what it does not, whoever flushed.
BufferIsTheStore ==
  /\ \A i, j \in DOMAIN stored : stored[i] = stored[j] => i = j
  /\ \A i \in DOMAIN stored : \A v \in before[stored[i]] : v \in Range(stored) /\ Position(v) < i
  /\ \A w \in Writes : /\ writers[w] = "ok" => w \in Range(stored)
                       /\ writers[w] = "error" => w \notin Range(stored)

\* Every writer that stays is answered: the timer takes what no writer flushes.
WritesAnswered ==
  \A w \in Writes : writers[w] \in {"waiting", "flush", "flushing"} ~> writers[w] \in {"ok", "error", "cancelled", "dropped"}
=============================================================================
