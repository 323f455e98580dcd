------------------------------ MODULE WatchHub ------------------------------
(* The change feed of context-db-core (watch.rs): WatchHub numbers every     *)
(* change, keeps the newest ones in a bounded history and broadcasts them;   *)
(* a WatchStream replays the history from a checkpoint, follows the          *)
(* broadcast channel, skips what it has already seen and falls back on the   *)
(* history when the channel has overrun it.                                  *)
(*                                                                           *)
(* emit is three separate steps (fetch_add, history push, broadcast send),   *)
(* each atomic on its own, and watch is two (subscribe, snapshot); emitters  *)
(* and watchers interleave between them.  The channel is tokio's broadcast:  *)
(* a receiver that is more than Ring messages behind gets Lagged and is      *)
(* moved to the oldest message retained.                                     *)
EXTENDS Absent, Integers, Sequences, FiniteSets

CONSTANTS
  Emitters,   \* tasks that change content through a WatchableStore
  Watchers,   \* tasks that hold a WatchStream
  Topics,     \* what URI prefixes tell apart
  Capacity,   \* WatchHub::new(buffer): length of the history
  Ring,       \* slots of the broadcast channel: Capacity rounded up to 2^k
  MaxEvents,  \* bound: changes in a behaviour
  MaxWatches  \* bound: calls of watch in a behaviour

ASSUME CapacityAssumption ==
  Capacity \in Nat \ {0} /\ Ring \in Nat /\ Ring >= Capacity

ASSUME BoundAssumption == MaxEvents \in Nat /\ MaxWatches \in Nat

VARIABLES
  next,       \* WatchHub.next: the next checkpoint
  history,    \* WatchHub.history, oldest first
  channel,    \* everything ever sent; the newest Ring messages are retained
  emitter,    \* emitter[e]: the emit that e is executing
  stream,     \* stream[w]: w's WatchStream
  watches     \* number of calls of watch so far

hubVars == <<next, history, channel, emitter, stream, watches>>

-----------------------------------------------------------------------------
(* Events.  A write or a delete touches one topic, a rename the topics of    *)
(* both its URIs.                                                            *)

Changes == {T \in SUBSET Topics : Cardinality(T) \in {1, 2}}

Event == [checkpoint : 1 .. MaxEvents, topics : Changes]

WatchPrefixes == {NULL} \cup Topics

\* WatchStream::matches: the URI or the rename target has the prefix.
Matches(prefix, event) == prefix = NULL \/ prefix \in event.topics

\* The events after a checkpoint, in the order in which they are kept.
Newer(events, checkpoint) ==
  LET newer == {i \in DOMAIN events : events[i].checkpoint > checkpoint}
      Place(k) == CHOOSE i \in newer : Cardinality({j \in newer : j <= i}) = k
  IN [k \in 1..Cardinality(newer) |-> events[Place(k)]]

Newest(events, n) ==
  IF Len(events) <= n THEN events ELSE SubSeq(events, Len(events) - n + 1, Len(events))

Checkpoints(events) == {events[i].checkpoint : i \in DOMAIN events}

\* A stream.  got, snapshot, origin and reported are history variables: what recv
\* has returned, the checkpoints of the backlog that watch built, the place in the
\* channel at which it subscribed, and whether recv has returned an error.
Stream ==
  [phase    : {"closed", "subscribed", "open"},
   prefix   : WatchPrefixes,
   from     : 0 .. MaxEvents,
   replay   : BOOLEAN,
   pos      : 1 .. MaxEvents + 1,       \* the receiver's place in the channel
   backlog  : Seq(Event),
   last     : 0 .. MaxEvents,           \* last_checkpoint
   got      : Seq(1 .. MaxEvents),
   snapshot : SUBSET (1 .. MaxEvents),
   origin   : 1 .. MaxEvents + 1,
   reported : BOOLEAN]

Closed ==
  [phase |-> "closed", prefix |-> NULL, from |-> 0, replay |-> FALSE, pos |-> 1,
   backlog |-> <<>>, last |-> 0, got |-> <<>>, snapshot |-> {}, origin |-> 1,
   reported |-> FALSE]

Idle == [step |-> "idle", event |-> NULL]

HubTypeOK ==
  /\ next \in 1 .. MaxEvents + 1
  /\ history \in Seq(Event) /\ Len(history) <= Capacity
  /\ channel \in Seq(Event)
  /\ \A e \in Emitters :
       \/ emitter[e] = Idle
       \/ emitter[e].step \in {"record", "send"} /\ emitter[e].event \in Event
  /\ \A w \in Watchers : stream[w] \in Stream
  /\ watches \in 0 .. MaxWatches

HubInit ==
  /\ next = 1
  /\ history = <<>>
  /\ channel = <<>>
  /\ emitter = [e \in Emitters |-> Idle]
  /\ stream = [w \in Watchers |-> Closed]
  /\ watches = 0

-----------------------------------------------------------------------------
(* WatchHub::emit, called by WatchableStore once the inner operation has     *)
(* succeeded.                                                                *)

\* next.fetch_add: the change gets its checkpoint.
Number(e, topics) ==
  /\ emitter[e].step = "idle"
  /\ next <= MaxEvents
  /\ emitter' = [emitter EXCEPT ![e] =
       [step |-> "record", event |-> [checkpoint |-> next, topics |-> topics]]]
  /\ next' = next + 1
  /\ UNCHANGED <<history, channel, stream, watches>>

\* Under the history lock: push, then drop the oldest beyond the capacity.
Record(e) ==
  /\ emitter[e].step = "record"
  /\ history' = Newest(Append(history, emitter[e].event), Capacity)
  /\ emitter' = [emitter EXCEPT ![e].step = "send"]
  /\ UNCHANGED <<next, channel, stream, watches>>

\* tx.send.
Send(e) ==
  /\ emitter[e].step = "send"
  /\ channel' = Append(channel, emitter[e].event)
  /\ emitter' = [emitter EXCEPT ![e] = Idle]
  /\ UNCHANGED <<next, history, stream, watches>>

-----------------------------------------------------------------------------
(* WatchSource::watch: subscribe first, then take the snapshot.              *)

Subscribe(w, prefix, from, replay) ==
  /\ stream[w].phase # "subscribed"
  /\ watches < MaxWatches
  /\ stream' = [stream EXCEPT ![w] =
       [Closed EXCEPT !.phase = "subscribed", !.prefix = prefix, !.from = from,
                      !.replay = replay, !.pos = Len(channel) + 1,
                      !.origin = Len(channel) + 1]]
  /\ watches' = watches + 1
  /\ UNCHANGED <<next, history, channel, emitter>>

\* Fault: subscribe only after the snapshot has been taken.
SnapshotFirst(w) ==
  /\ stream[w].phase = "subscribed"
  /\ LET backlog == IF stream[w].replay THEN Newer(history, stream[w].from) ELSE <<>>
     IN stream' = [stream EXCEPT ![w].phase = "open", ![w].backlog = backlog,
                                 ![w].last = stream[w].from,
                                 ![w].pos = Len(channel) + 1,
                                 ![w].snapshot = Checkpoints(backlog)]
  /\ UNCHANGED <<next, history, channel, emitter, watches>>

Snapshot(w) ==
  /\ stream[w].phase = "subscribed"
  /\ LET backlog == IF stream[w].replay THEN Newer(history, stream[w].from) ELSE <<>>
     IN stream' = [stream EXCEPT ![w].phase = "open", ![w].backlog = backlog,
                                 ![w].last = stream[w].from,
                                 ![w].snapshot = Checkpoints(backlog)]
  /\ UNCHANGED <<next, history, channel, emitter, watches>>

-----------------------------------------------------------------------------
(* WatchStream::recv, one turn of its loop at a time.                        *)

\* What the loop does with an event it accepts.
Accepted(s, event) ==
  [s EXCEPT !.last = event.checkpoint,
            !.got = IF Matches(s.prefix, event) THEN Append(@, event.checkpoint) ELSE @]

\* backlog.pop_front(): no check against last_checkpoint.
RecvBacklog(w) ==
  /\ stream[w].phase = "open" /\ stream[w].backlog # <<>>
  /\ stream' = [stream EXCEPT ![w] =
       Accepted([stream[w] EXCEPT !.backlog = Tail(@)], Head(stream[w].backlog))]
  /\ UNCHANGED <<next, history, channel, emitter, watches>>

Lagged(s) == Len(channel) - s.pos + 1 > Ring

Stale(s, event) == event.checkpoint <= s.last

\* rx.recv() returns the next message.
RecvLive(w) ==
  LET s == stream[w] IN
  /\ s.phase = "open" /\ s.backlog = <<>>
  /\ s.pos <= Len(channel) /\ ~Lagged(s)
  /\ LET event == channel[s.pos]
         moved == [s EXCEPT !.pos = @ + 1]
     IN stream' = [stream EXCEPT ![w] =
          IF Stale(s, event) THEN moved ELSE Accepted(moved, event)]
  /\ UNCHANGED <<next, history, channel, emitter, watches>>

\* Fault: recover_lag replays whatever is retained.
RecoverableAlways(s) == history # <<>>

\* The checks of recover_lag on the retained history.
Recoverable(s) ==
  /\ history # <<>>
  /\ s.last + 1 >= history[1].checkpoint

\* rx.recv() returns Lagged: the receiver moves to the oldest message of the
\* ring and recover_lag replays the history, or recv returns an error.
RecvLagged(w) ==
  LET s == stream[w]
      moved == [s EXCEPT !.pos = Len(channel) - Ring + 1]
  IN
  /\ s.phase = "open" /\ s.backlog = <<>>
  /\ Lagged(s)
  /\ stream' = [stream EXCEPT ![w] =
       IF Recoverable(s) THEN [moved EXCEPT !.backlog = Newer(history, s.last)]
                         ELSE [moved EXCEPT !.reported = TRUE]]
  /\ UNCHANGED <<next, history, channel, emitter, watches>>

-----------------------------------------------------------------------------

EmitterStep(e) == (\E T \in Changes : Number(e, T)) \/ Record(e) \/ Send(e)

WatcherStep(w) == Snapshot(w) \/ RecvBacklog(w) \/ RecvLive(w) \/ RecvLagged(w)

HubNext ==
  \/ \E e \in Emitters : EmitterStep(e)
  \/ \E w \in Watchers, p \in WatchPrefixes :
       \/ \E from \in 0 .. MaxEvents : Subscribe(w, p, from, TRUE)
       \/ Subscribe(w, p, 0, FALSE)
  \/ \E w \in Watchers : WatcherStep(w)

-----------------------------------------------------------------------------
(* Properties.                                                               *)

\* What s is owed: the snapshot of the history, and what has been sent since it
\* subscribed, unless the history had already dropped it when the snapshot was
\* taken (watch then starts after the gap without an error).
Owed(s) ==
  s.snapshot \cup
    {cp \in {channel[i].checkpoint : i \in s.origin .. Len(channel)} :
       \/ s.snapshot = {}
       \/ \E old \in s.snapshot : old < cp}

EventOf(cp) == CHOOSE i \in DOMAIN channel : channel[i].checkpoint = cp

\* cp can still reach s: it waits in the backlog or in the channel.
Ahead(s, cp) ==
  \/ cp \in Checkpoints(s.backlog)
  \/ \E i \in s.pos .. Len(channel) : channel[i].checkpoint = cp

Wanted(s, cp) ==
  /\ cp > s.from
  /\ \E i \in DOMAIN channel : channel[i].checkpoint = cp
  /\ Matches(s.prefix, channel[EventOf(cp)])

Delivered(s) == {s.got[i] : i \in DOMAIN s.got}

\* recv never passes over a change silently: whatever a stream owes has been
\* returned, is still on its way, or recv has returned an error.  This is what
\* recover_lag's check of the retained history is for.
NoSilentGap ==
  \A w \in Watchers : LET s == stream[w] IN
    (s.phase = "open" /\ ~s.reported) =>
      \A cp \in Owed(s) : Wanted(s, cp) => cp \in Delivered(s) \/ Ahead(s, cp)

\* recv returns changes in checkpoint order, each at most once, although the
\* snapshot, the lag recovery and the channel overlap (watch.rs, comment of
\* watch: "deduplicated by `last_checkpoint`").
InOrder ==
  \A w \in Watchers : \A i, j \in DOMAIN stream[w].got :
    i < j => stream[w].got[i] < stream[w].got[j]

\* A watcher that keeps receiving gets every change that it is owed or an
\* error: overruns of the channel do not starve it.
EventuallyDelivered ==
  \A w \in Watchers, cp \in 1 .. MaxEvents :
    LET s == stream[w] IN
    (s.phase = "open" /\ cp \in Owed(s) /\ Wanted(s, cp))
      ~> (cp \in Delivered(stream[w]) \/ stream[w].reported \/ stream[w].phase = "subscribed")

=============================================================================
