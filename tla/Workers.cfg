\* One emitter at a time and a stream with any prefix and checkpoint, overrun by the
\* channel and recovered from the history; two workers, one of them aborted; four
\* buffered writes, one of whose callers gives up.
SPECIFICATION Spec
CONSTANTS
  t1 = t1
  t2 = t2
  e1 = e1
  w1 = w1
  q1 = q1
  q2 = q2
  NULL = NULL
  Emitters = {e1}
  Watchers = {w1}
  Topics = {t1, t2}
  Capacity = 2
  Ring = 2
  MaxEvents = 4
  MaxWatches = 1
  QueueWorkers = {q1, q2}
  MaxTasks = 3
  MaxAborts = 1
  MaxBuffered = 4
  BufferBatch = 2
  MaxDropped = 1
INVARIANTS
  FeedFaithful
  WorkAccounted
PROPERTIES
  EventuallyDelivered
  WorkAnswered
CHECK_DEADLOCK FALSE
