------------------------------ MODULE MCWorkers ------------------------------
(* The components whose tasks run beside the caller, each alone: a behaviour *)
(* belongs to one part and leaves the variables of the others as they are.   *)
EXTENDS WatchHub, WorkQueues

CONSTANTS t1, t2, e1, w1, q1, q2

VARIABLE part

vars == <<part, hubVars, queueVars, bufferVars>>

Only(p) ==
  /\ part = p /\ UNCHANGED part
  /\ p # "hub" => UNCHANGED hubVars
  /\ p # "queue" => UNCHANGED queueVars
  /\ p # "buffer" => UNCHANGED bufferVars

Init == part \in {"hub", "queue", "buffer"} /\ HubInit /\ QueueInit /\ BufferInit

Next ==
  \/ Only("hub") /\ HubNext
  \/ Only("queue") /\ QueueNext
  \/ Only("buffer") /\ BufferNext

\* An emit that has started runs to its end, a watcher that holds a stream keeps
\* calling recv, a worker that is not aborted keeps working, the timer ticks and
\* the store answers.
Fairness ==
  /\ \A e \in Emitters : WF_hubVars(part = "hub" /\ (Record(e) \/ Send(e)))
  /\ \A w \in Watchers : WF_hubVars(part = "hub" /\ WatcherStep(w))
  /\ \A w \in QueueWorkers : WF_queueVars(part = "queue" /\ WorkerStep(w))
  /\ WF_bufferVars(part = "buffer" /\ Tick)
  /\ \A f \in Flushers : WF_bufferVars(part = "buffer" /\ WriteOne(f))
  /\ \A w \in Writes : WF_bufferVars(part = "buffer" /\ Flush(w))

\* A stream receives what it is owed, or is told that it does not, in the order of the events.
FeedFaithful == HubTypeOK /\ NoSilentGap /\ InOrder

\* Every task is in one place of the queue, and the store has what the buffer answered for.
WorkAccounted == EveryTaskAccounted /\ BufferIsTheStore

\* What is handed to a worker or to the buffer is answered in the end.
WorkAnswered == TasksLeaveTheQueue /\ WritesAnswered

Spec == Init /\ [][Next]_vars /\ Fairness
=============================================================================
