---------------------------- MODULE WorkersProofs ----------------------------
(* Why a stream of the change feed passes over nothing in silence, no task of *)
(* the semantic queue is lost or done twice, callers cannot tell the write    *)
(* buffer from the store, and a session said to be compressed is: for any     *)
(* number of streams, topics, events, workers, tasks, writes and calls, and   *)
(* whatever fails, stops or gives up in between.                              *)
EXTENDS MCWorkers, SessionCompressor, FiniteSetTheorems, TLAPS

-----------------------------------------------------------------------------
(* The change feed.  The proof is about the log of what has been recorded:    *)
(* the channel is a prefix of it, which at most the event being sent          *)
(* separates from the whole, and the history its newest part.  Changes are    *)
(* emitted one at a time and the channel is at least as long as the history.  *)
-----------------------------------------------------------------------------
(* The operators on sequences of events.                                      *)

(* push_back and pop_front keep the newest events up to the capacity. *)
LEMMA NewestIs ==
  ASSUME NEW events \in Seq(Event), NEW n \in Nat
  PROVE  /\ Newest(events, n) \in Seq(Event)
         /\ Len(events) <= n => Len(Newest(events, n)) = Len(events)
         /\ Len(events) > n => Len(Newest(events, n)) = n
         /\ \A k \in 1..Len(Newest(events, n)) :
              Newest(events, n)[k] = events[Len(events) - Len(Newest(events, n)) + k]
<1>1. CASE Len(events) <= n
  BY <1>1 DEF Newest
<1>2. CASE Len(events) > n
  <2>1. Newest(events, n) = SubSeq(events, Len(events) - n + 1, Len(events))
    BY <1>2 DEF Newest
  <2>2. /\ Len(events) - n + 1 \in Nat /\ Len(events) - n + 1 >= 1 /\ Len(events) \in Nat
        /\ Len(events) - (Len(events) - n + 1) + 1 = n
    BY <1>2
  <2>3. /\ SubSeq(events, Len(events) - n + 1, Len(events)) \in Seq(Event)
        /\ Len(SubSeq(events, Len(events) - n + 1, Len(events))) = n
        /\ \A k \in 1..n : SubSeq(events, Len(events) - n + 1, Len(events))[k] = events[Len(events) - n + k]
    BY <1>2, <2>2
  <2> QED
    BY <1>2, <2>1, <2>3
<1> QED
  BY <1>1, <1>2

(* Keeping the newest of what was kept is keeping the newest of all. *)
LEMMA NewestAgain ==
  ASSUME NEW events \in Seq(Event), NEW n \in Nat \ {0}, NEW ev \in Event
  PROVE  Newest(Append(Newest(events, n), ev), n) = Newest(Append(events, ev), n)
<1> DEFINE kept == Newest(events, n)
           all == Append(events, ev)
           new == Append(kept, ev)
<1>1. /\ kept \in Seq(Event)
      /\ Len(events) <= n => Len(kept) = Len(events)
      /\ Len(events) > n => Len(kept) = n
      /\ \A k \in 1..Len(kept) : kept[k] = events[Len(events) - Len(kept) + k]
  BY NewestIs
<1> HIDE DEF kept
<1>2. /\ all \in Seq(Event) /\ Len(all) = Len(events) + 1 /\ all[Len(events) + 1] = ev
      /\ \A k \in 1..Len(events) : all[k] = events[k]
  OBVIOUS
<1>3. /\ new \in Seq(Event) /\ Len(new) = Len(kept) + 1 /\ new[Len(kept) + 1] = ev
      /\ \A k \in 1..Len(kept) : new[k] = kept[k]
  BY <1>1
<1> HIDE DEF all, new
<1>4. /\ Newest(all, n) \in Seq(Event)
      /\ Len(all) <= n => Len(Newest(all, n)) = Len(all)
      /\ Len(all) > n => Len(Newest(all, n)) = n
      /\ \A k \in 1..Len(Newest(all, n)) : Newest(all, n)[k] = all[Len(all) - Len(Newest(all, n)) + k]
  BY <1>2, NewestIs
<1>5. /\ Newest(new, n) \in Seq(Event)
      /\ Len(new) <= n => Len(Newest(new, n)) = Len(new)
      /\ Len(new) > n => Len(Newest(new, n)) = n
      /\ \A k \in 1..Len(Newest(new, n)) : Newest(new, n)[k] = new[Len(new) - Len(Newest(new, n)) + k]
  BY <1>3, NewestIs
<1>6. Len(Newest(new, n)) = Len(Newest(all, n))
  BY <1>1, <1>2, <1>3, <1>4, <1>5
<1>7. ASSUME NEW k \in 1..Len(Newest(new, n)) PROVE Newest(new, n)[k] = Newest(all, n)[k]
  <2>0. Len(events) \in Nat /\ k \in Nat /\ k >= 1 /\ Len(Newest(new, n)) \in Nat
    BY <1>5
  <2>1. /\ Newest(new, n)[k] = new[Len(new) - Len(Newest(new, n)) + k]
        /\ Newest(all, n)[k] = all[Len(all) - Len(Newest(new, n)) + k]
    BY <1>4, <1>5, <1>6
  <2>2. CASE Len(events) < n
    <3>1. /\ Len(kept) = Len(events) /\ Len(new) = Len(events) + 1 /\ Len(all) = Len(events) + 1
          /\ Len(Newest(new, n)) = Len(events) + 1
      BY <1>1, <1>2, <1>3, <1>5, <2>0, <2>2
    <3>2. Newest(new, n)[k] = new[k] /\ Newest(all, n)[k] = all[k]
      BY <2>0, <2>1, <3>1
    <3>3. k = Len(events) + 1 \/ (k \in 1..Len(events) /\ k \in 1..Len(kept) /\ kept[k] = events[k])
      <4>1. ASSUME k \in 1..Len(events) PROVE kept[k] = events[k]
        <5>1. Len(events) - Len(kept) + k = k
          BY <2>0, <3>1
        <5> QED
          BY <1>1, <3>1, <4>1, <5>1
      <4> QED
        BY <2>0, <3>1, <4>1
    <3> QED
      BY <1>2, <1>3, <3>1, <3>2, <3>3
  <2>3. CASE Len(events) >= n
    <3>1. /\ Len(kept) = n /\ Len(new) = n + 1 /\ Len(all) = Len(events) + 1 /\ Len(Newest(new, n)) = n
      BY <1>1, <1>2, <1>3, <1>5, <2>0, <2>3
    <3>2. /\ Len(new) - Len(Newest(new, n)) + k = k + 1
          /\ Len(all) - Len(Newest(new, n)) + k = Len(events) - n + (k + 1)
      BY <2>0, <3>1
    <3>3. Newest(new, n)[k] = new[k + 1] /\ Newest(all, n)[k] = all[Len(events) - n + (k + 1)]
      BY <2>1, <3>2
    <3>4. CASE k = n
      <4>1. k + 1 = Len(kept) + 1 /\ Len(events) - n + (k + 1) = Len(events) + 1
        BY <2>0, <3>1, <3>4
      <4> QED
        BY <1>2, <1>3, <3>3, <4>1
    <3>5. CASE k # n
      <4>1. /\ k + 1 \in 1..Len(kept) /\ Len(events) - n + (k + 1) \in 1..Len(events)
            /\ Len(events) - Len(kept) + (k + 1) = Len(events) - n + (k + 1)
        BY <2>0, <2>3, <3>1, <3>5
      <4>2. new[k + 1] = kept[k + 1] /\ kept[k + 1] = events[Len(events) - n + (k + 1)]
        BY <1>1, <1>3, <4>1
      <4> QED
        BY <1>2, <3>3, <4>1, <4>2
    <3> QED
      BY <3>4, <3>5
  <2> QED
    BY <2>0, <2>2, <2>3
<1>8. Newest(new, n) = Newest(all, n)
  BY <1>4, <1>5, <1>6, <1>7
<1> QED
  BY <1>8 DEF new, all, kept

LEMMA ElementOf == ASSUME NEW S, NEW q \in Seq(S), NEW i \in 1..Len(q) PROVE q[i] \in S
OBVIOUS

LEMMA IntervalSize ==
  ASSUME NEW a \in Nat, NEW b \in Nat
  PROVE  /\ IsFiniteSet(a..b)
         /\ a <= b => Cardinality(a..b) = b - a + 1
         /\ a > b => Cardinality(a..b) = 0
<1>1. a \in Int /\ b \in Int
  OBVIOUS
<1>2. IsFiniteSet(a..b) /\ Cardinality(a..b) = IF a > b THEN 0 ELSE b - a + 1
  BY <1>1, FS_Interval, Zenon
<1> QED
  BY <1>2

NumberedFrom(events, base) == \A k \in 1..Len(events) : events[k].checkpoint = base + k

(* Of events numbered one after the other, the newer ones are the last ones. *)
LEMMA NewerIs ==
  ASSUME NEW events \in Seq(Event), NEW base \in Nat, NEW c \in Nat, NEW m \in Nat,
         NumberedFrom(events, base),
         c <= base => m = 0,
         c > base + Len(events) => m = Len(events),
         c > base /\ c <= base + Len(events) => m = c - base
  PROVE  /\ Newer(events, c) \in Seq(Event)
         /\ Len(Newer(events, c)) = Len(events) - m
         /\ \A k \in 1..Len(Newer(events, c)) : Newer(events, c)[k] = events[m + k]
<1> DEFINE newer == {i \in DOMAIN events : events[i].checkpoint > c}
           Place(k) == CHOOSE i \in newer : Cardinality({j \in newer : j <= i}) = k
<1>1. Len(events) \in Nat /\ m <= Len(events) /\ m \in Nat
  OBVIOUS
<1>2. newer = (m + 1)..Len(events)
  <2>1. \A i \in 1..Len(events) : events[i].checkpoint > c <=> i > m
    BY <1>1 DEF NumberedFrom
  <2>2. newer = {i \in 1..Len(events) : i > m}
    BY <2>1
  <2> QED
    BY <1>1, <2>2
<1>3. Cardinality(newer) = Len(events) - m
  <2>1. /\ m + 1 <= Len(events) => Cardinality((m + 1)..Len(events)) = Len(events) - (m + 1) + 1
        /\ m + 1 > Len(events) => Cardinality((m + 1)..Len(events)) = 0
    <3>1. m + 1 \in Nat
      OBVIOUS
    <3> QED
      BY <1>1, <3>1, IntervalSize
  <2>2. \/ m + 1 <= Len(events) /\ Len(events) - (m + 1) + 1 = Len(events) - m
        \/ m + 1 > Len(events) /\ Len(events) - m = 0
    BY <1>1
  <2> QED
    BY <1>2, <2>1, <2>2, Zenon
<1> HIDE DEF newer
<1>4. ASSUME NEW i \in newer PROVE Cardinality({j \in newer : j <= i}) = i - m
  <2>1. {j \in newer : j <= i} = (m + 1)..i /\ i \in Nat /\ m + 1 <= i
    BY <1>1, <1>2
  <2>2. Cardinality((m + 1)..i) = i - (m + 1) + 1
    <3>1. m + 1 \in Nat
      OBVIOUS
    <3> QED
      BY <2>1, <3>1, IntervalSize
  <2>3. i - (m + 1) + 1 = i - m
    BY <2>1
  <2> QED
    BY <2>1, <2>2, <2>3, Zenon
<1>5. ASSUME NEW k \in 1..(Len(events) - m) PROVE Place(k) = m + k
  <2>1. m + k \in newer
    BY <1>1, <1>2
  <2>2. \A i \in newer : Cardinality({j \in newer : j <= i}) = k => i = m + k
    BY <1>1, <1>2, <1>4
  <2>3. Cardinality({j \in newer : j <= m + k}) = k
    <3>1. m + k - m = k
      OBVIOUS
    <3> QED
      BY <1>4, <2>1, <3>1
  <2> QED
    BY <2>1, <2>2, <2>3
<1> HIDE DEF Place
<1>6. Newer(events, c) = [k \in 1..(Len(events) - m) |-> events[Place(k)]]
  BY <1>3 DEF Newer, newer, Place
<1>7. ASSUME NEW k \in 1..(Len(events) - m) PROVE events[m + k] \in Event
  BY <1>1
<1>8. Newer(events, c) = [k \in 1..(Len(events) - m) |-> events[m + k]]
  BY <1>5, <1>6
<1>9. Len(events) - m \in Nat
  BY <1>1
<1> QED
  BY <1>7, <1>8, <1>9

-----------------------------------------------------------------------------
(* The inductive invariant.                                                   *)

EmitterStates == [step : {"idle", "record", "send"}, event : Opt(Event)]

HubTyped ==
  /\ next \in 1..MaxEvents + 1
  /\ channel \in Seq(Event)
  /\ emitter \in [Emitters -> EmitterStates]
  /\ stream \in [Watchers -> Stream]
  /\ watches \in 0..MaxWatches

\* log is what has been recorded, and where the emit under way stands.
Recorded(log) ==
  /\ log \in Seq(Event) /\ NumberedFrom(log, 0) /\ Len(log) < next
  /\ history = Newest(log, Capacity)
  /\ Len(channel) <= Len(log) /\ \A i \in 1..Len(channel) : channel[i] = log[i]
  /\ \A e \in Emitters :
       /\ emitter[e].step = "idle" => emitter[e] = Idle /\ Len(channel) = Len(log) /\ next = Len(log) + 1
       /\ emitter[e].step = "record" => /\ emitter[e].event \in Event /\ emitter[e].event.checkpoint = Len(log) + 1
                                        /\ Len(channel) = Len(log) /\ next = Len(log) + 2
       /\ emitter[e].step = "send" => /\ emitter[e].event \in Event /\ Len(log) >= 1 /\ emitter[e].event = log[Len(log)]
                                      /\ Len(channel) = Len(log) - 1 /\ next = Len(log) + 1

\* What recv has returned is in order and not beyond last_checkpoint.
Returned(s) ==
  /\ \A i, j \in 1..Len(s.got) : i < j => s.got[i] < s.got[j]
  /\ \A i \in 1..Len(s.got) : s.got[i] <= s.last

\* What comes after b in the log is next for s: it follows what was returned, or the
\* snapshot begins with it.
ComesNext(s, b) == b = s.last \/ (s.snapshot # {} /\ \A old \in s.snapshot : old > b)

\* The backlog is a part of the log, and comes next.
Waiting(s, log) ==
  s.backlog # <<>> =>
    \E b \in Nat : /\ b >= s.last /\ b + Len(s.backlog) <= Len(log)
                   /\ \A k \in 1..Len(s.backlog) : s.backlog[k] = log[b + k]
                   /\ ComesNext(s, b)

\* Owed and Wanted, of all that was recorded.
OwedOf(s, log) ==
  s.snapshot \cup {cp \in s.origin..Len(log) : s.snapshot = {} \/ \E old \in s.snapshot : old < cp}
Asked(s, log, cp) == cp > s.from /\ cp \in 1..Len(log) /\ Matches(s.prefix, log[cp])

\* What lies behind last_checkpoint was delivered, what lies ahead is still to come.
NothingPassed(s, log) ==
  \A cp \in OwedOf(s, log) : Asked(s, log, cp) =>
    /\ cp <= s.last => \E i \in 1..Len(s.got) : s.got[i] = cp
    /\ cp > s.last => cp >= s.pos \/ \E k \in 1..Len(s.backlog) : s.backlog[k].checkpoint = cp

StreamSound(s, log, sent) ==
  /\ s.origin <= s.pos /\ s.pos <= sent + 1
  /\ s.phase = "subscribed" => s.pos = s.origin
  /\ s.phase # "open" => s.got = <<>>
  /\ Returned(s)
  /\ s.phase = "open" => /\ s.last = s.from \/ s.last <= Len(log)
                         /\ Waiting(s, log)
                         /\ ~s.reported => NothingPassed(s, log)

HubInv ==
  /\ HubTyped
  /\ \E log \in Seq(Event) : Recorded(log) /\ \A w \in Watchers : StreamSound(stream[w], log, Len(channel))

(* A log holds the numbers from 1 on, which are within the bound. *)
LEMMA LogIs ==
  ASSUME HubTyped, NEW log, Recorded(log)
  PROVE  /\ log \in Seq(Event) /\ Len(log) \in Nat /\ Len(log) <= MaxEvents
         /\ \A k \in 1..Len(log) : log[k] \in Event /\ log[k].checkpoint = k
         /\ Len(channel) \in Nat /\ Len(channel) <= Len(log)
<1>1. log \in Seq(Event) /\ Len(log) < next /\ next \in 1..MaxEvents + 1 /\ Len(channel) <= Len(log) /\ channel \in Seq(Event)
  BY DEF Recorded, HubTyped
<1>2. \A k \in 1..Len(log) : log[k].checkpoint = 0 + k
  BY DEF Recorded, NumberedFrom
<1>3. \A k \in 1..Len(log) : log[k] \in Event
  BY <1>1
<1>4. \A k \in 1..Len(log) : 0 + k = k
  BY <1>1
<1>5. Len(log) \in Nat /\ Len(log) <= MaxEvents /\ Len(channel) \in Nat
  BY <1>1, BoundAssumption
<1> QED
  BY <1>1, <1>2, <1>3, <1>4, <1>5

(* The history is the end of the log. *)
LEMMA HistoryIs ==
  ASSUME HubTyped, NEW log, Recorded(log)
  PROVE  /\ history \in Seq(Event) /\ Len(history) <= Len(log) /\ Len(history) <= Capacity
         /\ Len(log) # 0 => Len(history) # 0
         /\ \A k \in 1..Len(history) : history[k] = log[Len(log) - Len(history) + k]
         /\ NumberedFrom(history, Len(log) - Len(history))
<1>1. log \in Seq(Event) /\ Len(log) \in Nat /\ \A k \in 1..Len(log) : log[k].checkpoint = k
  BY LogIs
<1>2. history = Newest(log, Capacity) /\ Capacity \in Nat /\ Capacity # 0
  BY CapacityAssumption DEF Recorded
<1>3. /\ history \in Seq(Event)
      /\ Len(log) <= Capacity => Len(history) = Len(log)
      /\ Len(log) > Capacity => Len(history) = Capacity
      /\ \A k \in 1..Len(history) : history[k] = log[Len(log) - Len(history) + k]
  BY <1>1, <1>2, NewestIs
<1>4. Len(history) <= Len(log) /\ Len(history) <= Capacity /\ (Len(log) # 0 => Len(history) # 0) /\ Len(history) \in Nat
  BY <1>1, <1>2, <1>3
<1>5. ASSUME NEW k \in 1..Len(history) PROVE history[k].checkpoint = Len(log) - Len(history) + k
  <2>1. Len(log) - Len(history) + k \in 1..Len(log)
    BY <1>1, <1>4
  <2> QED
    BY <1>1, <1>3, <2>1
<1> QED
  BY <1>3, <1>4, <1>5 DEF NumberedFrom

-----------------------------------------------------------------------------
(* Emitters.                                                                  *)

(* A stream that is sound stays so when an event is recorded: the event is     *)
(* ahead of it.                                                               *)
LEMMA LogGrows ==
  ASSUME NEW s \in Stream, NEW log \in Seq(Event), NEW sent \in Nat, NEW ev \in Event,
         sent <= Len(log), StreamSound(s, log, sent)
  PROVE  StreamSound(s, Append(log, ev), sent)
<1> DEFINE more == Append(log, ev)
<1>1. /\ Len(log) \in Nat /\ more \in Seq(Event) /\ Len(more) = Len(log) + 1
      /\ \A k \in 1..Len(log) : more[k] = log[k]
  OBVIOUS
<1> HIDE DEF more
<1>2. s.from \in Nat /\ s.last \in Nat /\ s.pos \in Nat /\ s.backlog \in Seq(Event) /\ s.origin \in Nat
  BY BoundAssumption DEF Stream
<1>3. ASSUME s.phase = "open" PROVE Waiting(s, more)
  <2>1. SUFFICES ASSUME s.backlog # <<>>
        PROVE  \E b \in Nat : /\ b >= s.last /\ b + Len(s.backlog) <= Len(more)
                              /\ \A k \in 1..Len(s.backlog) : s.backlog[k] = more[b + k]
                              /\ ComesNext(s, b)
    BY DEF Waiting
  <2>2. PICK at \in Nat : /\ at >= s.last /\ at + Len(s.backlog) <= Len(log)
                          /\ \A k \in 1..Len(s.backlog) : s.backlog[k] = log[at + k]
                          /\ ComesNext(s, at)
    BY <1>3, <2>1 DEF StreamSound, Waiting
  <2>3. \A k \in 1..Len(s.backlog) : at + k \in 1..Len(log)
    BY <1>1, <1>2, <2>2
  <2>4. \A k \in 1..Len(s.backlog) : s.backlog[k] = more[at + k]
    BY <1>1, <2>2, <2>3
  <2>5. at + Len(s.backlog) <= Len(more)
    BY <1>1, <1>2, <2>2
  <2>6. WITNESS at \in Nat
  <2> QED
    BY <2>2, <2>4, <2>5
<1>4. ASSUME s.phase = "open", ~s.reported PROVE NothingPassed(s, more)
  <2>1. SUFFICES ASSUME NEW cp \in OwedOf(s, more), Asked(s, more, cp)
        PROVE  /\ cp <= s.last => \E i \in 1..Len(s.got) : s.got[i] = cp
               /\ cp > s.last => cp >= s.pos \/ \E k \in 1..Len(s.backlog) : s.backlog[k].checkpoint = cp
    BY DEF NothingPassed
  <2>2. CASE cp \in 1..Len(log)
    <3>1. cp \in OwedOf(s, log) /\ Asked(s, log, cp)
      BY <1>1, <1>2, <2>1, <2>2 DEF OwedOf, Asked
    <3> QED
      BY <1>4, <3>1 DEF StreamSound, NothingPassed
  <2>3. CASE cp \notin 1..Len(log)
    <3>1. cp = Len(log) + 1 /\ cp > s.from
      BY <1>1, <2>1, <2>3 DEF Asked
    <3>2. s.last = s.from \/ s.last <= Len(log)
      BY <1>4 DEF StreamSound
    <3>3. cp > s.last /\ cp >= s.pos
      BY <1>1, <1>2, <3>1, <3>2 DEF StreamSound
    <3> QED
      BY <1>1, <1>2, <3>1, <3>3
  <2> QED
    BY <2>2, <2>3
<1>5. s.phase = "open" => s.last = s.from \/ s.last <= Len(more)
  BY <1>1, <1>2 DEF StreamSound
<1> QED
  BY <1>3, <1>4, <1>5 DEF StreamSound, more

LEMMA InitHub == HubInit => HubInv
<1> SUFFICES ASSUME HubInit PROVE HubInv
  OBVIOUS
<1>1. Idle \in EmitterStates
  BY DEF Idle, EmitterStates, Opt
<1>2. Closed \in Stream
  BY BoundAssumption DEF Closed, Stream, WatchPrefixes
<1>3. HubTyped
  BY <1>1, <1>2, BoundAssumption DEF HubInit, HubTyped
<1>4. Recorded(<<>>)
  <2>1. Newest(<<>>, Capacity) = <<>>
    BY CapacityAssumption DEF Newest
  <2>2. \A e \in Emitters : emitter[e] = Idle /\ emitter[e].step = "idle"
    BY DEF HubInit, Idle
  <2> QED
    BY <2>1, <2>2 DEF HubInit, Recorded, NumberedFrom
<1>5. \A w \in Watchers : StreamSound(stream[w], <<>>, Len(channel))
  <2>1. StreamSound(Closed, <<>>, 0)
    BY DEF StreamSound, Closed, Returned
  <2> QED
    BY <2>1 DEF HubInit
<1>6. <<>> \in Seq(Event)
  OBVIOUS
<1> QED
  BY <1>3, <1>4, <1>5, <1>6 DEF HubInv

OneEmitter == \A e, f \in Emitters : e = f

LEMMA NumberHub ==
  ASSUME OneEmitter, HubInv, NEW e \in Emitters, NEW T \in Changes, Number(e, T)
  PROVE  HubInv'
<1>1. PICK log \in Seq(Event) : Recorded(log) /\ \A w \in Watchers : StreamSound(stream[w], log, Len(channel))
  BY DEF HubInv
<1>2. HubTyped
  BY DEF HubInv
<1>3. PICK n : n = [step |-> "record", event |-> [checkpoint |-> next, topics |-> T]]
  OBVIOUS
<1>4. /\ n.step = "record" /\ n.event \in Event /\ n.event.checkpoint = next /\ n \in EmitterStates
      /\ next \in Nat
  BY <1>2, <1>3 DEF Number, HubTyped, Event, EmitterStates, Opt
<1>5. /\ emitter' = [emitter EXCEPT ![e] = n] /\ next' = next + 1
      /\ UNCHANGED <<history, channel, stream, watches>>
  BY <1>3 DEF Number
<1>6. emitter'[e] = n /\ \A f \in Emitters : f = e
  BY <1>2, <1>5 DEF HubTyped, OneEmitter
<1>7. HubTyped'
  <2>1. next + 1 \in 1..MaxEvents + 1
    BY <1>2, BoundAssumption DEF HubTyped, Number
  <2> QED
    BY <1>2, <1>4, <1>5, <2>1 DEF HubTyped
<1>8. Len(channel) = Len(log) /\ next = Len(log) + 1
  BY <1>1 DEF Recorded, Number
<1>9. Recorded(log)'
  <2>1. Len(log) < next + 1
    BY <1>1, <1>4, <1>8
  <2>2. next + 1 = Len(log) + 2
    BY <1>1, <1>8
  <2> QED
    BY <1>1, <1>4, <1>5, <1>6, <1>8, <2>1, <2>2 DEF Recorded
<1> QED
  BY <1>1, <1>5, <1>7, <1>9 DEF HubInv

LEMMA RecordHub ==
  ASSUME OneEmitter, HubInv, NEW e \in Emitters, Record(e)
  PROVE  HubInv'
<1>1. PICK log \in Seq(Event) : Recorded(log) /\ \A w \in Watchers : StreamSound(stream[w], log, Len(channel))
  BY DEF HubInv
<1>2. HubTyped
  BY DEF HubInv
<1>3. PICK ev : ev = emitter[e].event
  OBVIOUS
<1>4. /\ ev \in Event /\ ev.checkpoint = Len(log) + 1 /\ Len(channel) = Len(log) /\ next = Len(log) + 2
  BY <1>1, <1>3 DEF Recorded, Record
<1>5. /\ history' = Newest(Append(history, ev), Capacity)
      /\ emitter' = [emitter EXCEPT ![e].step = "send"]
      /\ UNCHANGED <<next, channel, stream, watches>>
  BY <1>3 DEF Record
<1>6. emitter'[e] \in EmitterStates /\ emitter'[e].step = "send" /\ emitter'[e].event = ev
  BY <1>2, <1>3, <1>5 DEF HubTyped, EmitterStates
<1>7. \A f \in Emitters : f = e
  BY DEF OneEmitter
<1>8. HubTyped'
  <2>1. emitter' \in [Emitters -> EmitterStates]
    BY <1>2, <1>5, <1>6 DEF HubTyped
  <2> QED
    BY <1>2, <1>5, <2>1 DEF HubTyped
<1>9. PICK more : more = Append(log, ev)
  OBVIOUS
<1>10. /\ more \in Seq(Event) /\ Len(more) = Len(log) + 1 /\ more[Len(log) + 1] = ev /\ Len(log) \in Nat
       /\ \A k \in 1..Len(log) : more[k] = log[k]
  BY <1>1, <1>4, <1>9
<1>11. history' = Newest(more, Capacity)
  BY <1>1, <1>4, <1>5, <1>9, NewestAgain, CapacityAssumption DEF Recorded
<1>12. NumberedFrom(more, 0)
  <2>1. \A k \in 1..Len(log) : log[k].checkpoint = 0 + k
    BY <1>1 DEF Recorded, NumberedFrom
  <2>2. \A k \in 1..Len(more) : k = Len(log) + 1 \/ k \in 1..Len(log)
    BY <1>10
  <2>3. 0 + (Len(log) + 1) = Len(log) + 1
    BY <1>10
  <2> QED
    BY <1>4, <1>10, <2>1, <2>2, <2>3 DEF NumberedFrom
<1>13. Recorded(more)'
  <2>1. /\ Len(more) < next /\ Len(channel) <= Len(more) /\ Len(channel) = Len(more) - 1
        /\ next = Len(more) + 1 /\ Len(more) >= 1
    BY <1>4, <1>10
  <2>2. \A i \in 1..Len(channel) : channel[i] = more[i]
    BY <1>1, <1>4, <1>10 DEF Recorded
  <2>3. more[Len(more)] = ev
    BY <1>10
  <2> QED
    BY <1>4, <1>5, <1>6, <1>7, <1>10, <1>11, <1>12, <2>1, <2>2, <2>3 DEF Recorded
<1>14. \A w \in Watchers : StreamSound(stream[w], more, Len(channel))
  <2>1. \A w \in Watchers : stream[w] \in Stream
    BY <1>2 DEF HubTyped
  <2>2. Len(channel) \in Nat /\ Len(channel) <= Len(log)
    BY <1>4, <1>10
  <2> QED
    BY <1>1, <1>4, <1>9, <2>1, <2>2, LogGrows
<1> QED
  BY <1>5, <1>8, <1>10, <1>13, <1>14 DEF HubInv

LEMMA SendHub ==
  ASSUME OneEmitter, HubInv, NEW e \in Emitters, Send(e)
  PROVE  HubInv'
<1>1. PICK log \in Seq(Event) : Recorded(log) /\ \A w \in Watchers : StreamSound(stream[w], log, Len(channel))
  BY DEF HubInv
<1>2. HubTyped
  BY DEF HubInv
<1>3. PICK ev : ev = emitter[e].event
  OBVIOUS
<1>4. /\ ev \in Event /\ Len(log) >= 1 /\ ev = log[Len(log)] /\ Len(channel) = Len(log) - 1 /\ next = Len(log) + 1
  BY <1>1, <1>3 DEF Recorded, Send
<1>5. /\ channel' = Append(channel, ev) /\ emitter' = [emitter EXCEPT ![e] = Idle]
      /\ UNCHANGED <<next, history, stream, watches>>
  BY <1>3 DEF Send
<1>6. /\ channel' \in Seq(Event) /\ Len(channel') = Len(channel) + 1 /\ channel'[Len(channel) + 1] = ev
      /\ Len(channel) \in Nat /\ \A k \in 1..Len(channel) : channel'[k] = channel[k]
  BY <1>2, <1>4, <1>5 DEF HubTyped
<1>7. emitter'[e] = Idle /\ (\A f \in Emitters : f = e) /\ Idle \in EmitterStates /\ Idle.step = "idle"
  BY <1>2, <1>5 DEF HubTyped, OneEmitter, Idle, EmitterStates, Opt
<1>8. HubTyped'
  BY <1>2, <1>5, <1>6, <1>7 DEF HubTyped
<1>9. Recorded(log)'
  <2>1. Len(channel') = Len(log)
    BY <1>1, <1>4, <1>6
  <2>2. ASSUME NEW i \in 1..Len(channel') PROVE channel'[i] = log[i]
    <3>1. i \in 1..Len(channel) \/ (i = Len(channel) + 1 /\ i = Len(log))
      BY <1>1, <1>4, <1>6
    <3>2. \A k \in 1..Len(channel) : channel[k] = log[k]
      BY <1>1 DEF Recorded
    <3> QED
      BY <1>4, <1>6, <3>1, <3>2
  <2>3. NumberedFrom(log, 0) /\ Len(log) < next /\ history = Newest(log, Capacity) /\ Len(log) <= Len(log)
    BY <1>1 DEF Recorded
  <2> QED
    BY <1>1, <1>4, <1>5, <1>7, <2>1, <2>2, <2>3 DEF Recorded
<1>10. \A w \in Watchers : StreamSound(stream[w], log, Len(channel'))
  <2>1. ASSUME NEW w \in Watchers PROVE stream[w].pos <= Len(channel') + 1
    <3>1. stream[w].pos \in Nat
      BY <1>2, BoundAssumption DEF HubTyped, Stream
    <3> QED
      BY <1>1, <1>6, <3>1 DEF StreamSound
  <2> QED
    BY <1>1, <2>1 DEF StreamSound
<1> QED
  BY <1>1, <1>5, <1>8, <1>9, <1>10 DEF HubInv

-----------------------------------------------------------------------------
(* Watchers.                                                                  *)

(* A step that changes one stream and leaves it sound. *)
LEMMA StreamChanges ==
  ASSUME HubInv, NEW log \in Seq(Event), Recorded(log),
         \A v \in Watchers : StreamSound(stream[v], log, Len(channel)),
         NEW w \in Watchers, NEW t \in Stream, StreamSound(t, log, Len(channel)),
         stream' = [stream EXCEPT ![w] = t], UNCHANGED <<next, history, channel, emitter>>,
         watches' \in 0..MaxWatches
  PROVE  HubInv'
<1>1. HubTyped'
  BY DEF HubInv, HubTyped
<1>2. Recorded(log)'
  BY DEF Recorded
<1>3. \A v \in Watchers : stream'[v] = IF v = w THEN t ELSE stream[v]
  BY DEF HubInv, HubTyped
<1>4. \A v \in Watchers : StreamSound(stream'[v], log, Len(channel))
  BY <1>3
<1> QED
  BY <1>1, <1>2, <1>4 DEF HubInv

LEMMA SubscribeHub ==
  ASSUME HubInv, NEW w \in Watchers, NEW p \in WatchPrefixes, NEW from \in 0..MaxEvents,
         NEW replay \in BOOLEAN, Subscribe(w, p, from, replay)
  PROVE  HubInv'
<1>1. PICK log \in Seq(Event) : Recorded(log) /\ \A v \in Watchers : StreamSound(stream[v], log, Len(channel))
  BY DEF HubInv
<1>2. HubTyped /\ Len(channel) \in Nat /\ Len(channel) <= Len(log) /\ Len(log) <= MaxEvents /\ Len(log) \in Nat
  BY <1>1, LogIs DEF HubInv
<1>3. PICK t : t = [Closed EXCEPT !.phase = "subscribed", !.prefix = p, !.from = from, !.replay = replay,
                                  !.pos = Len(channel) + 1, !.origin = Len(channel) + 1]
  OBVIOUS
<1>4. Len(channel) + 1 \in 1..MaxEvents + 1
  BY <1>2, BoundAssumption
<1>5. /\ t \in Stream /\ t.phase = "subscribed" /\ t.got = <<>> /\ t.pos = Len(channel) + 1 /\ t.origin = Len(channel) + 1
  <2>1. t = [phase |-> "subscribed", prefix |-> p, from |-> from, replay |-> replay, pos |-> Len(channel) + 1,
             backlog |-> <<>>, last |-> 0, got |-> <<>>, snapshot |-> {}, origin |-> Len(channel) + 1,
             reported |-> FALSE]
    BY <1>3 DEF Closed
  <2>2. 0 \in 0..MaxEvents /\ <<>> \in Seq(Event) /\ <<>> \in Seq(1..MaxEvents)
    BY BoundAssumption
  <2> QED
    BY <1>4, <2>1, <2>2 DEF Stream
<1>6. StreamSound(t, log, Len(channel))
  BY <1>2, <1>5 DEF StreamSound, Returned
<1>7. /\ stream' = [stream EXCEPT ![w] = t] /\ watches' = watches + 1 /\ watches < MaxWatches
      /\ UNCHANGED <<next, history, channel, emitter>>
  BY <1>3 DEF Subscribe
<1>8. watches' \in 0..MaxWatches
  BY <1>2, <1>7, BoundAssumption DEF HubTyped
<1> QED
  BY <1>1, <1>5, <1>6, <1>7, <1>8, StreamChanges

(* The part of the history after a checkpoint is the end of the log, which    *)
(* begins after the checkpoint unless the history does not reach back so far. *)
LEMMA NewerInLog ==
  ASSUME HubTyped, NEW log, Recorded(log), NEW c \in Nat
  PROVE  /\ Newer(history, c) \in Seq(Event)
         /\ \E b \in Nat : /\ b >= c \/ Newer(history, c) = <<>>
                           /\ b + Len(Newer(history, c)) = Len(log)
                           /\ \A k \in 1..Len(Newer(history, c)) : Newer(history, c)[k] = log[b + k]
                           /\ Len(log) - Len(history) <= c => b = c \/ (Newer(history, c) = <<>> /\ Len(log) <= c)
<1>1. /\ log \in Seq(Event) /\ Len(log) \in Nat
      /\ \A k \in 1..Len(log) : log[k] \in Event /\ log[k].checkpoint = k
  BY LogIs
<1>2. /\ history \in Seq(Event) /\ Len(history) <= Len(log) /\ Len(history) \in Nat
      /\ \A k \in 1..Len(history) : history[k] = log[Len(log) - Len(history) + k]
      /\ NumberedFrom(history, Len(log) - Len(history))
  BY HistoryIs
<1>3. PICK base \in Nat : base = Len(log) - Len(history)
  BY <1>1, <1>2
<1>4. PICK m \in Nat : /\ c <= base => m = 0
                       /\ c > base + Len(history) => m = Len(history)
                       /\ c > base /\ c <= base + Len(history) => m = c - base
  <2>1. CASE c <= base
    <3>1. WITNESS 0 \in Nat
    <3> QED
      BY <2>1
  <2>2. CASE c > base + Len(history)
    <3>1. WITNESS Len(history) \in Nat
    <3> QED
      BY <1>2, <2>2
  <2>3. CASE c > base /\ c <= base + Len(history)
    <3>1. c - base \in Nat
      BY <2>3
    <3>2. WITNESS c - base \in Nat
    <3> QED
      BY <2>3
  <2> QED
    BY <1>2, <2>1, <2>2, <2>3
<1>5. PICK new : new = Newer(history, c)
  OBVIOUS
<1>6. NumberedFrom(history, base)
  BY <1>2, <1>3
<1>7. /\ new \in Seq(Event) /\ Len(new) = Len(history) - m
      /\ \A k \in 1..Len(new) : new[k] = history[m + k]
  <2>1. history \in Seq(Event)
    BY <1>2
  <2> QED
    BY <1>4, <1>5, <1>6, <2>1, NewerIs, Zenon
<1>8. base + m \in Nat /\ (base + m) + Len(new) = Len(log) /\ m <= Len(history) /\ Len(new) \in Nat
  BY <1>1, <1>2, <1>3, <1>4, <1>7
<1>9. ASSUME NEW k \in 1..Len(new) PROVE new[k] = log[(base + m) + k]
  <2>1. m + k \in 1..Len(history) /\ Len(log) - Len(history) + (m + k) = (base + m) + k
    BY <1>2, <1>3, <1>7, <1>8
  <2> QED
    BY <1>2, <1>7, <2>1
<1>10. base + m >= c \/ new = <<>>
  <2>1. CASE m = Len(history)
    BY <1>2, <1>7, <2>1
  <2>2. CASE m # Len(history)
    BY <1>2, <1>3, <1>4, <2>2
  <2> QED
    BY <2>1, <2>2
<1>11. base <= c => base + m = c \/ (new = <<>> /\ Len(log) <= c)
  <2>1. CASE c > base + Len(history)
    BY <1>1, <1>2, <1>3, <1>4, <1>7, <2>1
  <2>2. CASE c <= base + Len(history)
    BY <1>2, <1>3, <1>4, <2>2
  <2> QED
    BY <2>1, <2>2
<1>12. \E b \in Nat : /\ b >= c \/ new = <<>>
                      /\ b + Len(new) = Len(log)
                      /\ \A k \in 1..Len(new) : new[k] = log[b + k]
                      /\ base <= c => b = c \/ (new = <<>> /\ Len(log) <= c)
  <2>1. WITNESS base + m \in Nat
  <2> QED
    BY <1>8, <1>9, <1>10, <1>11
<1> QED
  BY <1>3, <1>5, <1>7, <1>12

\* watch: the snapshot is the end of the log after the checkpoint.
LEMMA SnapshotHub ==
  ASSUME HubInv, NEW w \in Watchers, Snapshot(w)
  PROVE  HubInv'
<1>1. PICK log \in Seq(Event) : Recorded(log) /\ \A v \in Watchers : StreamSound(stream[v], log, Len(channel))
  BY DEF HubInv
<1>2. PICK s : s = stream[w]
  OBVIOUS
<1>3. /\ HubTyped /\ s \in Stream /\ s.phase = "subscribed" /\ StreamSound(s, log, Len(channel))
      /\ s.from \in 0..MaxEvents /\ s.from \in Nat
  BY <1>1, <1>2, BoundAssumption DEF HubInv, HubTyped, Snapshot, Stream
<1>4. /\ Len(log) \in Nat /\ Len(log) <= MaxEvents
      /\ \A k \in 1..Len(log) : log[k] \in Event /\ log[k].checkpoint = k
  BY <1>1, <1>3, LogIs
<1>5. PICK backlog : backlog = IF s.replay THEN Newer(history, s.from) ELSE <<>>
  OBVIOUS
<1>6. /\ backlog \in Seq(Event)
      /\ \E b \in Nat : /\ b >= s.from \/ backlog = <<>>
                        /\ backlog = <<>> \/ b + Len(backlog) = Len(log)
                        /\ \A k \in 1..Len(backlog) : backlog[k] = log[b + k]
  <2>1. CASE s.replay
    <3>1. backlog = Newer(history, s.from)
      BY <1>5, <2>1
    <3>2. /\ backlog \in Seq(Event)
          /\ \E b \in Nat : /\ b >= s.from \/ backlog = <<>>
                            /\ b + Len(backlog) = Len(log)
                            /\ \A k \in 1..Len(backlog) : backlog[k] = log[b + k]
                            /\ Len(log) - Len(history) <= s.from => b = s.from \/ (backlog = <<>> /\ Len(log) <= s.from)
      BY <1>1, <1>3, <3>1, NewerInLog, Zenon
    <3> QED
      BY <3>2
  <2>2. CASE ~s.replay
    <3>1. backlog = <<>> /\ Len(backlog) = 0 /\ <<>> \in Seq(Event)
      BY <1>5, <2>2
    <3>2. \A k \in 1..Len(backlog) : backlog[k] = log[0 + k]
      BY <3>1
    <3> QED
      BY <3>1, <3>2
  <2> QED
    BY <2>1, <2>2
<1>7. PICK b \in Nat : /\ b >= s.from \/ backlog = <<>>
                       /\ backlog = <<>> \/ b + Len(backlog) = Len(log)
                       /\ \A k \in 1..Len(backlog) : backlog[k] = log[b + k]
  BY <1>6
<1>8. PICK shown : shown = Checkpoints(backlog)
  OBVIOUS
<1>9. \A cp \in shown : \E k \in 1..Len(backlog) : backlog[k].checkpoint = cp
  BY <1>6, <1>8 DEF Checkpoints
<1>10. shown \subseteq 1..MaxEvents
  <2>1. \A k \in 1..Len(backlog) : backlog[k] \in Event
    BY <1>6
  <2>2. \A k \in 1..Len(backlog) : backlog[k].checkpoint \in 1..MaxEvents
    BY <2>1 DEF Event
  <2> QED
    BY <1>9, <2>2
<1>11. ASSUME backlog # <<>> PROVE /\ b >= s.from /\ b + Len(backlog) = Len(log)
                                   /\ shown # {} /\ \A old \in shown : old > b
  <2>1. b >= s.from /\ b + Len(backlog) = Len(log) /\ Len(backlog) \in Nat /\ Len(backlog) >= 1
    BY <1>6, <1>7, <1>11
  <2>2. ASSUME NEW k \in 1..Len(backlog) PROVE backlog[k].checkpoint = b + k
    <3>1. b + k \in 1..Len(log)
      BY <1>4, <2>1
    <3> QED
      BY <1>4, <1>7, <3>1
  <2>3. shown # {}
    <3>1. 1 \in DOMAIN backlog
      BY <1>6, <2>1
    <3> QED
      BY <1>8, <3>1 DEF Checkpoints
  <2>4. ASSUME NEW old \in shown PROVE old > b
    <3>1. PICK k \in 1..Len(backlog) : backlog[k].checkpoint = old
      BY <1>9
    <3>2. old = b + k
      BY <2>2, <3>1
    <3> QED
      BY <2>1, <3>2
  <2> QED
    BY <2>1, <2>3, <2>4
<1>12. PICK t : t = [s EXCEPT !.phase = "open", !.backlog = backlog, !.last = s.from, !.snapshot = shown]
  OBVIOUS
<1>13. /\ t \in Stream /\ t.phase = "open" /\ t.backlog = backlog /\ t.last = s.from /\ t.snapshot = shown
       /\ t.from = s.from /\ t.got = s.got /\ t.pos = s.pos /\ t.origin = s.origin
  BY <1>3, <1>6, <1>10, <1>12 DEF Stream
<1>14. s.pos = s.origin /\ s.got = <<>> /\ s.pos <= Len(channel) + 1 /\ s.pos \in Nat
  BY <1>3, BoundAssumption DEF StreamSound, Stream
<1>15. Waiting(t, log)
  <2>1. SUFFICES ASSUME backlog # <<>> PROVE Waiting(t, log)
    BY <1>13 DEF Waiting
  <2>2. ComesNext(t, b)
    BY <1>11, <1>13, <2>1 DEF ComesNext
  <2>3. b + Len(backlog) <= Len(log)
    BY <1>4, <1>11, <2>1
  <2>4. \E c \in Nat : /\ c >= t.last /\ c + Len(t.backlog) <= Len(log)
                       /\ \A k \in 1..Len(t.backlog) : t.backlog[k] = log[c + k]
                       /\ ComesNext(t, c)
    BY <1>7, <1>11, <1>13, <2>1, <2>2, <2>3
  <2> QED
    BY <2>4 DEF Waiting
<1>16. NothingPassed(t, log)
  <2>1. SUFFICES ASSUME NEW cp \in OwedOf(t, log), Asked(t, log, cp)
        PROVE  /\ cp <= t.last => \E i \in 1..Len(t.got) : t.got[i] = cp
               /\ cp > t.last => cp >= t.pos \/ \E k \in 1..Len(t.backlog) : t.backlog[k].checkpoint = cp
    BY DEF NothingPassed
  <2>2. cp > s.from /\ cp \in 1..Len(log)
    BY <1>13, <2>1 DEF Asked
  <2>3. ~(cp <= t.last)
    BY <1>3, <1>13, <2>2
  <2>4. cp >= t.pos \/ \E k \in 1..Len(t.backlog) : t.backlog[k].checkpoint = cp
    <3>1. cp \in shown \/ cp >= s.origin
      BY <1>13, <2>1 DEF OwedOf
    <3> QED
      BY <1>9, <1>13, <1>14, <3>1
  <2> QED
    BY <2>3, <2>4
<1>17. StreamSound(t, log, Len(channel))
  <2>1. Returned(t)
    BY <1>13, <1>14 DEF Returned
  <2> QED
    BY <1>13, <1>14, <1>15, <1>16, <2>1 DEF StreamSound
<1>18. /\ stream' = [stream EXCEPT ![w] = t] /\ UNCHANGED <<next, history, channel, emitter>>
       /\ watches' \in 0..MaxWatches
  BY <1>2, <1>3, <1>5, <1>8, <1>12 DEF Snapshot, HubTyped
<1> QED
  BY <1>1, <1>13, <1>17, <1>18, StreamChanges

(* An event that recv accepts is newer than all it has returned. *)
LEMMA AcceptedIs ==
  ASSUME NEW s \in Stream, NEW ev \in Event, ev.checkpoint > s.last, Returned(s),
         NEW t, t = Accepted(s, ev)
  PROVE  /\ t \in Stream /\ t.last = ev.checkpoint /\ Returned(t)
         /\ t.phase = s.phase /\ t.prefix = s.prefix /\ t.from = s.from /\ t.pos = s.pos /\ t.backlog = s.backlog
         /\ t.snapshot = s.snapshot /\ t.origin = s.origin /\ t.reported = s.reported
         /\ Matches(s.prefix, ev) => \E i \in 1..Len(t.got) : t.got[i] = ev.checkpoint
         /\ \A i \in 1..Len(s.got) : \E j \in 1..Len(t.got) : t.got[j] = s.got[i]
<1>1. /\ ev.checkpoint \in 1..MaxEvents /\ ev.checkpoint \in Nat /\ s.last \in Nat /\ s.got \in Seq(1..MaxEvents)
      /\ ev.checkpoint \in 0..MaxEvents
  BY BoundAssumption DEF Event, Stream
<1>2. PICK got : got = IF Matches(s.prefix, ev) THEN Append(s.got, ev.checkpoint) ELSE s.got
  OBVIOUS
<1>3. got \in Seq(1..MaxEvents)
  <2>1. s.got \in Seq(1..MaxEvents) /\ ev.checkpoint \in 1..MaxEvents
    BY <1>1
  <2>2. Append(s.got, ev.checkpoint) \in Seq(1..MaxEvents)
    BY <2>1
  <2> QED
    BY <1>2, <2>1, <2>2
<1>4. t = [s EXCEPT !.last = ev.checkpoint, !.got = got]
  BY <1>2 DEF Accepted
<1>5. /\ t \in Stream /\ t.last = ev.checkpoint /\ t.got = got
      /\ t.phase = s.phase /\ t.prefix = s.prefix /\ t.from = s.from /\ t.pos = s.pos /\ t.backlog = s.backlog
      /\ t.snapshot = s.snapshot /\ t.origin = s.origin /\ t.reported = s.reported
  BY <1>1, <1>3, <1>4 DEF Stream
<1>6. \A i \in 1..Len(s.got) : s.got[i] \in Nat /\ s.got[i] < ev.checkpoint
  <2>1. \A i \in 1..Len(s.got) : s.got[i] \in 1..MaxEvents
    <3>1. s.got \in Seq(1..MaxEvents)
      BY <1>1
    <3> QED
      BY <3>1, ElementOf, Zenon
  <2> QED
    BY <1>1, <2>1, BoundAssumption DEF Returned
<1>7. CASE Matches(s.prefix, ev)
  <2>1. /\ Len(s.got) \in Nat /\ Len(got) = Len(s.got) + 1 /\ got[Len(s.got) + 1] = ev.checkpoint
        /\ \A i \in 1..Len(s.got) : got[i] = s.got[i]
    BY <1>1, <1>2, <1>7
  <2>2. \A i \in 1..Len(got) : i \in 1..Len(s.got) \/ i = Len(s.got) + 1
    BY <2>1
  <2>3. \A i \in 1..Len(got) : got[i] <= ev.checkpoint
    BY <1>1, <1>6, <2>1, <2>2
  <2>4. ASSUME NEW i \in 1..Len(got), NEW j \in 1..Len(got), i < j PROVE got[i] < got[j]
    <3>1. i \in 1..Len(s.got)
      BY <2>1, <2>4
    <3>2. CASE j \in 1..Len(s.got)
      BY <2>1, <2>4, <3>1, <3>2 DEF Returned
    <3>3. CASE j = Len(s.got) + 1
      BY <1>6, <2>1, <3>1, <3>3
    <3> QED
      BY <2>2, <3>2, <3>3
  <2>5. Len(s.got) + 1 \in 1..Len(got) /\ \A i \in 1..Len(s.got) : i \in 1..Len(got)
    BY <2>1
  <2>6. Returned(t)
    BY <1>5, <2>3, <2>4 DEF Returned
  <2> QED
    BY <1>5, <2>1, <2>5, <2>6
<1>8. CASE ~Matches(s.prefix, ev)
  <2>1. got = s.got
    BY <1>2, <1>8
  <2>2. Returned(t)
    BY <1>1, <1>5, <1>6, <2>1 DEF Returned
  <2> QED
    BY <1>5, <1>8, <2>1, <2>2
<1> QED
  BY <1>7, <1>8

(* What is left of a part of the log begins one further on. *)
LEMMA OneFewer ==
  ASSUME NEW b \in Nat, NEW l \in Nat, NEW n \in Nat, NEW m, m = l - 1, b + l <= n
  PROVE  b + 1 \in Nat /\ (b + 1) + m <= n
OBVIOUS

\* backlog.pop_front(): the first event of the backlog is next.
LEMMA BacklogHub ==
  ASSUME HubInv, NEW w \in Watchers, RecvBacklog(w)
  PROVE  HubInv'
<1>1. PICK log \in Seq(Event) : Recorded(log) /\ \A v \in Watchers : StreamSound(stream[v], log, Len(channel))
  BY DEF HubInv
<1>2. PICK s : s = stream[w]
  OBVIOUS
<1>3. /\ HubTyped /\ s \in Stream /\ s.phase = "open" /\ s.backlog # <<>> /\ StreamSound(s, log, Len(channel))
  BY <1>1, <1>2 DEF HubInv, HubTyped, RecvBacklog
<1>4. /\ Len(log) \in Nat /\ \A k \in 1..Len(log) : log[k] \in Event /\ log[k].checkpoint = k
  BY <1>1, <1>3, LogIs
<1>5. PICK b \in Nat : /\ b >= s.last /\ b + Len(s.backlog) <= Len(log)
                       /\ \A k \in 1..Len(s.backlog) : s.backlog[k] = log[b + k]
                       /\ ComesNext(s, b)
  BY <1>3 DEF StreamSound, Waiting
<1>6. /\ s.backlog \in Seq(Event) /\ s.last \in Nat /\ s.snapshot \subseteq Nat
  BY <1>3, BoundAssumption DEF Stream
<1>7. PICK rest : rest = Tail(s.backlog)
  OBVIOUS
<1>8. /\ rest \in Seq(Event) /\ Len(s.backlog) >= 1 /\ Len(s.backlog) \in Nat /\ Len(rest) = Len(s.backlog) - 1
      /\ \A k \in 1..Len(rest) : rest[k] = s.backlog[k + 1]
      /\ Head(s.backlog) = s.backlog[1]
  BY <1>3, <1>6, <1>7
<1>9. PICK ev : ev = Head(s.backlog)
  OBVIOUS
<1>10. ev \in Event /\ ev = log[b + 1] /\ ev.checkpoint = b + 1 /\ b + 1 \in 1..Len(log) /\ b + 1 > s.last
  <2>1. b + 1 \in 1..Len(log) /\ 1 \in 1..Len(s.backlog) /\ b + 1 > s.last
    BY <1>4, <1>5, <1>6, <1>8
  <2> QED
    BY <1>4, <1>5, <1>8, <1>9, <2>1
<1>11. PICK u : u = [s EXCEPT !.backlog = rest]
  OBVIOUS
<1>12. /\ u \in Stream /\ u.backlog = rest /\ u.last = s.last /\ u.got = s.got /\ u.phase = s.phase /\ u.prefix = s.prefix
       /\ u.from = s.from /\ u.pos = s.pos /\ u.snapshot = s.snapshot /\ u.origin = s.origin /\ u.reported = s.reported
  BY <1>3, <1>8, <1>11 DEF Stream
<1>13. Returned(u)
  BY <1>3, <1>12 DEF StreamSound, Returned
<1>14. PICK t : t = Accepted(u, ev)
  OBVIOUS
<1>15. /\ t \in Stream /\ t.last = b + 1 /\ Returned(t)
       /\ t.phase = "open" /\ t.prefix = s.prefix /\ t.from = s.from /\ t.pos = s.pos /\ t.backlog = rest
       /\ t.snapshot = s.snapshot /\ t.origin = s.origin /\ t.reported = s.reported
       /\ Matches(s.prefix, ev) => \E i \in 1..Len(t.got) : t.got[i] = b + 1
       /\ \A i \in 1..Len(s.got) : \E j \in 1..Len(t.got) : t.got[j] = s.got[i]
  <2>1. ev.checkpoint > u.last
    BY <1>10, <1>12
  <2>2. /\ t \in Stream /\ t.last = ev.checkpoint /\ Returned(t)
        /\ t.phase = u.phase /\ t.prefix = u.prefix /\ t.from = u.from /\ t.pos = u.pos /\ t.backlog = u.backlog
        /\ t.snapshot = u.snapshot /\ t.origin = u.origin /\ t.reported = u.reported
        /\ Matches(u.prefix, ev) => \E i \in 1..Len(t.got) : t.got[i] = ev.checkpoint
        /\ \A i \in 1..Len(u.got) : \E j \in 1..Len(t.got) : t.got[j] = u.got[i]
    BY <1>10, <1>12, <1>13, <1>14, <2>1, AcceptedIs
  <2> QED
    BY <1>3, <1>10, <1>12, <2>2
<1>16. Waiting(t, log)
  <2>1. ASSUME NEW k \in 1..Len(rest) PROVE rest[k] = log[(b + 1) + k]
    <3>1. k + 1 \in 1..Len(s.backlog) /\ b + (k + 1) = (b + 1) + k
      BY <1>8
    <3> QED
      BY <1>5, <1>8, <3>1
  <2>2. b + 1 \in Nat /\ b + 1 >= t.last /\ (b + 1) + Len(rest) <= Len(log) /\ ComesNext(t, b + 1)
    <3>1. b + 1 \in Nat /\ (b + 1) + Len(rest) <= Len(log)
      <4>1. Len(s.backlog) \in Nat /\ Len(rest) = Len(s.backlog) - 1 /\ b + Len(s.backlog) <= Len(log)
        BY <1>5, <1>8
      <4>2. Len(log) \in Nat
        BY <1>4
      <4> QED
        BY <4>1, <4>2, OneFewer, Zenon
    <3>2. t.last = b + 1
      BY <1>15
    <3> QED
      BY <3>1, <3>2 DEF ComesNext
  <2>3. \E c \in Nat : /\ c >= t.last /\ c + Len(t.backlog) <= Len(log)
                       /\ \A k \in 1..Len(t.backlog) : t.backlog[k] = log[c + k]
                       /\ ComesNext(t, c)
    <3>1. WITNESS b + 1 \in Nat
    <3> QED
      BY <1>15, <2>1, <2>2
  <2> QED
    BY <2>3 DEF Waiting
<1>17. ASSUME ~s.reported PROVE NothingPassed(t, log)
  <2>1. SUFFICES ASSUME NEW cp \in OwedOf(t, log), Asked(t, log, cp)
        PROVE  /\ cp <= t.last => \E i \in 1..Len(t.got) : t.got[i] = cp
               /\ cp > t.last => cp >= t.pos \/ \E k \in 1..Len(t.backlog) : t.backlog[k].checkpoint = cp
    BY DEF NothingPassed
  <2>2. cp \in OwedOf(s, log) /\ Asked(s, log, cp) /\ cp \in 1..Len(log) /\ Matches(s.prefix, log[cp])
    BY <1>15, <2>1 DEF OwedOf, Asked
  <2>3. /\ cp <= s.last => \E i \in 1..Len(s.got) : s.got[i] = cp
        /\ cp > s.last => cp >= s.pos \/ \E k \in 1..Len(s.backlog) : s.backlog[k].checkpoint = cp
    BY <1>3, <1>17, <2>2 DEF StreamSound, NothingPassed
  <2>4. CASE cp <= s.last
    <3>1. ~(cp > t.last)
      BY <1>6, <1>10, <1>15, <2>2, <2>4
    <3>2. \E i \in 1..Len(t.got) : t.got[i] = cp
      BY <1>15, <2>3, <2>4
    <3> QED
      BY <3>1, <3>2
  <2>5. CASE cp > s.last /\ cp <= b
    <3>1. b # s.last
      BY <1>6, <2>2, <2>5
    <3>2. s.snapshot # {} /\ \A old \in s.snapshot : old > b
      BY <1>5, <3>1 DEF ComesNext
    <3>3. cp \in s.snapshot \/ \E old \in s.snapshot : old < cp
      BY <2>2, <3>2 DEF OwedOf
    <3> QED
      BY <1>6, <2>2, <2>5, <3>2, <3>3
  <2>6. CASE cp = b + 1
    BY <1>10, <1>15, <2>2, <2>6
  <2>7. CASE cp > b + 1
    <3>1. cp > s.last /\ ~(cp <= t.last)
      BY <1>10, <1>15, <1>6, <2>2, <2>7
    <3>2. cp >= t.pos \/ \E k \in 1..Len(rest) : rest[k].checkpoint = cp
      <4>1. SUFFICES ASSUME NEW k \in 1..Len(s.backlog), s.backlog[k].checkpoint = cp
            PROVE  \E j \in 1..Len(rest) : rest[j].checkpoint = cp
        BY <1>15, <2>3, <3>1
      <4>2. k # 1
        BY <1>8, <1>9, <1>10, <2>7, <4>1
      <4>3. k - 1 \in 1..Len(rest) /\ (k - 1) + 1 = k
        BY <1>8, <4>1, <4>2
      <4>4. rest[k - 1].checkpoint = cp
        BY <1>8, <4>1, <4>3
      <4> QED
        BY <4>3, <4>4
    <3> QED
      BY <1>15, <3>1, <3>2
  <2> QED
    BY <1>6, <2>2, <2>4, <2>5, <2>6, <2>7
<1>18. StreamSound(t, log, Len(channel))
  <2>1. t.last <= Len(log)
    BY <1>4, <1>10, <1>15
  <2>2. s.origin <= s.pos /\ s.pos <= Len(channel) + 1
    BY <1>3 DEF StreamSound
  <2> QED
    BY <1>15, <1>16, <1>17, <2>1, <2>2 DEF StreamSound
<1>19. /\ stream' = [stream EXCEPT ![w] = t] /\ UNCHANGED <<next, history, channel, emitter>>
       /\ watches' \in 0..MaxWatches
  <2>1. Accepted([stream[w] EXCEPT !.backlog = Tail(@)], Head(stream[w].backlog)) = t
    BY <1>2, <1>7, <1>9, <1>11, <1>14
  <2>2. stream' = [stream EXCEPT ![w] = Accepted([stream[w] EXCEPT !.backlog = Tail(@)], Head(stream[w].backlog))]
    BY DEF RecvBacklog
  <2>3. UNCHANGED <<next, history, channel, emitter, watches>>
    BY DEF RecvBacklog
  <2>4. stream' = [stream EXCEPT ![w] = t]
    BY <2>1, <2>2
  <2> QED
    BY <1>3, <2>3, <2>4 DEF HubTyped
<1> QED
  BY <1>1, <1>15, <1>18, <1>19, StreamChanges

\* rx.recv() gives the next event: all before it was passed or is passed now.
LEMMA LiveHub ==
  ASSUME HubInv, NEW w \in Watchers, RecvLive(w)
  PROVE  HubInv'
<1>1. PICK log \in Seq(Event) : Recorded(log) /\ \A v \in Watchers : StreamSound(stream[v], log, Len(channel))
  BY DEF HubInv
<1>2. PICK s : s = stream[w]
  OBVIOUS
<1>3. /\ HubTyped /\ s \in Stream /\ s.phase = "open" /\ s.backlog = <<>> /\ StreamSound(s, log, Len(channel))
      /\ s.pos <= Len(channel)
  BY <1>1, <1>2 DEF HubInv, HubTyped, RecvLive
<1>4. /\ Len(log) \in Nat /\ Len(log) <= MaxEvents /\ Len(channel) \in Nat /\ Len(channel) <= Len(log)
      /\ \A k \in 1..Len(log) : log[k] \in Event /\ log[k].checkpoint = k
  BY <1>1, <1>3, LogIs
<1>5. s.pos \in Nat /\ s.pos >= 1 /\ s.last \in Nat /\ s.origin \in Nat
  BY <1>3, BoundAssumption DEF Stream
<1>6. PICK ev : ev = channel[s.pos]
  OBVIOUS
<1>7. s.pos \in 1..Len(log) /\ ev = log[s.pos] /\ ev \in Event /\ ev.checkpoint = s.pos
  <2>1. s.pos \in 1..Len(channel) /\ s.pos \in 1..Len(log)
    BY <1>3, <1>4, <1>5
  <2>2. channel[s.pos] = log[s.pos]
    BY <1>1, <2>1 DEF Recorded
  <2> QED
    BY <1>4, <1>6, <2>1, <2>2
<1>8. PICK u : u = [s EXCEPT !.pos = @ + 1]
  OBVIOUS
<1>9. s.pos + 1 \in 1..MaxEvents + 1
  BY <1>4, <1>5, <1>7, BoundAssumption
<1>10. /\ u \in Stream /\ u.pos = s.pos + 1 /\ u.backlog = <<>> /\ u.last = s.last /\ u.got = s.got /\ u.phase = "open"
       /\ u.prefix = s.prefix /\ u.from = s.from /\ u.snapshot = s.snapshot /\ u.origin = s.origin
       /\ u.reported = s.reported
  BY <1>3, <1>8, <1>9 DEF Stream
<1>11. Returned(u)
  BY <1>3, <1>10 DEF StreamSound, Returned
<1>12. ASSUME NEW cp \in 1..Len(log), ~s.reported, cp \in OwedOf(s, log), Asked(s, log, cp)
       PROVE  /\ cp <= s.last => \E i \in 1..Len(s.got) : s.got[i] = cp
              /\ cp > s.last => cp >= s.pos
  <2>1. Len(s.backlog) = 0
    BY <1>3
  <2>2. /\ cp <= s.last => \E i \in 1..Len(s.got) : s.got[i] = cp
        /\ cp > s.last => cp >= s.pos \/ \E k \in 1..Len(s.backlog) : s.backlog[k].checkpoint = cp
    BY <1>3, <1>12 DEF StreamSound, NothingPassed
  <2> QED
    BY <2>1, <2>2
<1>13. s.origin <= s.pos + 1 /\ s.pos + 1 <= Len(channel) + 1
  BY <1>3, <1>4, <1>5 DEF StreamSound
<1>14. PICK t : t = IF Stale(s, ev) THEN u ELSE Accepted(u, ev)
  OBVIOUS
<1>15. t \in Stream /\ StreamSound(t, log, Len(channel))
  <2>1. CASE s.pos <= s.last
    <3>1. t = u
      BY <1>7, <1>14, <2>1 DEF Stale
    <3>2. ASSUME ~s.reported PROVE NothingPassed(u, log)
      <4>1. ASSUME NEW cp \in OwedOf(u, log), Asked(u, log, cp)
            PROVE  /\ cp <= u.last => \E i \in 1..Len(u.got) : u.got[i] = cp
                   /\ cp > u.last => cp >= u.pos
        <5>1. cp \in OwedOf(s, log) /\ Asked(s, log, cp) /\ cp \in 1..Len(log)
          BY <1>10, <4>1 DEF OwedOf, Asked
        <5>2. /\ cp <= s.last => \E i \in 1..Len(s.got) : s.got[i] = cp
              /\ cp > s.last => cp >= s.pos
          BY <1>12, <3>2, <5>1
        <5>3. cp > s.last => cp >= s.pos + 1
          BY <1>5, <2>1, <5>1, <5>2
        <5> QED
          BY <1>10, <5>2, <5>3
      <4> QED
        BY <4>1 DEF NothingPassed
    <3>3. Waiting(u, log) /\ (u.last = u.from \/ u.last <= Len(log))
      BY <1>3, <1>10 DEF Waiting, StreamSound
    <3> QED
      BY <1>10, <1>11, <1>13, <3>1, <3>2, <3>3 DEF StreamSound
  <2>2. CASE s.pos > s.last
    <3>0. ev.checkpoint > u.last /\ ~Stale(s, ev)
      BY <1>5, <1>7, <1>10, <2>2 DEF Stale
    <3>1. t = Accepted(u, ev)
      BY <1>14, <3>0
    <3>2. /\ t \in Stream /\ t.last = ev.checkpoint /\ Returned(t)
          /\ t.phase = u.phase /\ t.prefix = u.prefix /\ t.from = u.from /\ t.pos = u.pos /\ t.backlog = u.backlog
          /\ t.snapshot = u.snapshot /\ t.origin = u.origin /\ t.reported = u.reported
          /\ Matches(u.prefix, ev) => \E i \in 1..Len(t.got) : t.got[i] = ev.checkpoint
          /\ \A i \in 1..Len(u.got) : \E j \in 1..Len(t.got) : t.got[j] = u.got[i]
      <4>1. u \in Stream /\ ev \in Event
        BY <1>7, <1>10
      <4> QED
        BY <1>11, <3>0, <3>1, <4>1, AcceptedIs, SMTT(60)
    <3>3. ASSUME ~s.reported PROVE NothingPassed(t, log)
      <4>1. ASSUME NEW cp \in OwedOf(t, log), Asked(t, log, cp)
            PROVE  /\ cp <= t.last => \E i \in 1..Len(t.got) : t.got[i] = cp
                   /\ cp > t.last => cp >= t.pos
        <5>1. cp \in OwedOf(s, log) /\ Asked(s, log, cp) /\ cp \in 1..Len(log) /\ Matches(s.prefix, log[cp])
          BY <1>10, <3>2, <4>1 DEF OwedOf, Asked
        <5>2. /\ cp <= s.last => \E i \in 1..Len(s.got) : s.got[i] = cp
              /\ cp > s.last => cp >= s.pos
          BY <1>12, <3>3, <5>1
        <5>3. t.last = s.pos /\ t.pos = s.pos + 1
          BY <1>7, <1>10, <3>2
        <5>4. CASE cp <= s.last
          <6>1. \E i \in 1..Len(t.got) : t.got[i] = cp
            BY <1>10, <3>2, <5>2, <5>4
          <6>2. ~(cp > t.last)
            BY <1>5, <2>2, <5>1, <5>3, <5>4
          <6> QED
            BY <6>1, <6>2
        <5>5. CASE cp = s.pos
          BY <1>5, <1>7, <1>10, <3>2, <5>1, <5>3, <5>5
        <5>6. CASE cp > s.last /\ cp # s.pos
          BY <1>5, <5>1, <5>2, <5>3, <5>6
        <5> QED
          BY <1>5, <5>1, <5>4, <5>5, <5>6
      <4> QED
        BY <4>1 DEF NothingPassed
    <3>4. Waiting(t, log) /\ t.last <= Len(log)
      BY <1>7, <1>10, <3>2 DEF Waiting
    <3> QED
      BY <1>10, <1>13, <3>2, <3>3, <3>4 DEF StreamSound
  <2> QED
    BY <1>5, <2>1, <2>2
<1>16. /\ stream' = [stream EXCEPT ![w] = t] /\ UNCHANGED <<next, history, channel, emitter>>
       /\ watches' \in 0..MaxWatches
  <2>1. stream' = [stream EXCEPT ![w] = t]
    BY <1>2, <1>6, <1>8, <1>14 DEF RecvLive
  <2>2. UNCHANGED <<next, history, channel, emitter, watches>>
    BY DEF RecvLive
  <2> QED
    BY <1>3, <2>1, <2>2 DEF HubTyped
<1> QED
  BY <1>1, <1>15, <1>16, StreamChanges

\* Lagged: the history reaches back to last_checkpoint, or recv returns an error.
LEMMA LaggedHub ==
  ASSUME HubInv, NEW w \in Watchers, RecvLagged(w)
  PROVE  HubInv'
<1>1. PICK log \in Seq(Event) : Recorded(log) /\ \A v \in Watchers : StreamSound(stream[v], log, Len(channel))
  BY DEF HubInv
<1>2. PICK s : s = stream[w]
  OBVIOUS
<1>3. /\ HubTyped /\ s \in Stream /\ s.phase = "open" /\ s.backlog = <<>> /\ StreamSound(s, log, Len(channel))
      /\ Len(channel) - s.pos + 1 > Ring
  BY <1>1, <1>2 DEF HubInv, HubTyped, RecvLagged, Lagged
<1>4. /\ Len(log) \in Nat /\ Len(log) <= MaxEvents /\ Len(channel) \in Nat /\ Len(channel) <= Len(log)
      /\ \A k \in 1..Len(log) : log[k] \in Event /\ log[k].checkpoint = k
  BY <1>1, <1>3, LogIs
<1>5. s.pos \in Nat /\ s.pos >= 1 /\ s.last \in Nat /\ s.origin \in Nat /\ s.origin <= s.pos
  BY <1>3, BoundAssumption DEF Stream, StreamSound
<1>6. PICK at : at = Len(channel) - Ring + 1
  OBVIOUS
<1>7. at \in 1..MaxEvents + 1 /\ at > s.pos /\ at <= Len(channel) + 1
  <2>1. /\ Len(channel) \in Nat /\ Len(channel) <= MaxEvents /\ s.pos \in Nat /\ s.pos >= 1
        /\ Len(channel) - s.pos + 1 > Ring
    <3>1. Len(channel) \in Nat /\ Len(channel) <= Len(log) /\ Len(log) <= MaxEvents /\ Len(log) \in Nat
      BY <1>4
    <3>2. Len(channel) <= MaxEvents
      BY <3>1, BoundAssumption
    <3> QED
      BY <1>3, <1>5, <3>1, <3>2
  <2> QED
    BY <1>6, <2>1, CapacityAssumption, BoundAssumption
<1>8. Returned(s) /\ (s.last = s.from \/ s.last <= Len(log))
  BY <1>3 DEF StreamSound
<1>9. PICK t : t = IF Recoverable(s) THEN [s EXCEPT !.pos = at, !.backlog = Newer(history, s.last)]
                   ELSE [s EXCEPT !.pos = at, !.reported = TRUE]
  OBVIOUS
<1>10. t \in Stream /\ StreamSound(t, log, Len(channel))
  <2>1. CASE ~Recoverable(s)
    <3>1. t = [s EXCEPT !.pos = at, !.reported = TRUE]
      BY <1>9, <2>1
    <3>2. /\ t \in Stream /\ t.reported = TRUE /\ t.backlog = <<>> /\ t.got = s.got /\ t.last = s.last /\ t.from = s.from
          /\ t.pos = at /\ t.origin = s.origin /\ t.phase = "open"
      BY <1>3, <1>7, <3>1 DEF Stream
    <3>3. Waiting(t, log) /\ Returned(t)
      BY <1>8, <3>2 DEF Waiting, Returned
    <3>4. t.origin <= t.pos /\ t.pos <= Len(channel) + 1
      BY <1>4, <1>5, <1>7, <3>2
    <3> QED
      BY <1>8, <3>2, <3>3, <3>4 DEF StreamSound
  <2>2. CASE Recoverable(s)
    <3>1. PICK new : new = Newer(history, s.last)
      OBVIOUS
    <3>2. t = [s EXCEPT !.pos = at, !.backlog = new]
      BY <1>9, <2>2, <3>1
    <3>3. Len(log) - Len(history) <= s.last
      <4>1. /\ history \in Seq(Event) /\ Len(history) \in Nat /\ Len(history) # 0
            /\ NumberedFrom(history, Len(log) - Len(history))
        BY <1>1, <1>3, <2>2, HistoryIs DEF Recoverable
      <4>2. history[1].checkpoint = Len(log) - Len(history) + 1
        BY <4>1 DEF NumberedFrom
      <4>3. s.last + 1 >= history[1].checkpoint
        BY <2>2 DEF Recoverable
      <4>4. s.last + 1 >= Len(log) - Len(history) + 1
        BY <4>2, <4>3
      <4>5. Len(log) \in Nat
        BY <1>4
      <4> QED
        BY <1>5, <4>1, <4>4, <4>5
    <3>4. /\ new \in Seq(Event)
          /\ \E b \in Nat : /\ b >= s.last \/ new = <<>>
                            /\ b + Len(new) = Len(log)
                            /\ \A k \in 1..Len(new) : new[k] = log[b + k]
                            /\ Len(log) - Len(history) <= s.last => b = s.last \/ (new = <<>> /\ Len(log) <= s.last)
      <4>1. HubTyped /\ Recorded(log) /\ s.last \in Nat
        BY <1>1, <1>3, <1>5
      <4> QED
        <5>1. /\ Newer(history, s.last) \in Seq(Event)
              /\ \E b \in Nat : /\ b >= s.last \/ Newer(history, s.last) = <<>>
                                /\ b + Len(Newer(history, s.last)) = Len(log)
                                /\ \A k \in 1..Len(Newer(history, s.last)) : Newer(history, s.last)[k] = log[b + k]
                                /\ Len(log) - Len(history) <= s.last => b = s.last \/ (Newer(history, s.last) = <<>> /\ Len(log) <= s.last)
          BY <4>1, NewerInLog, Zenon
        <5> QED
          BY <3>1, <5>1, Zenon
    <3>5. PICK b \in Nat : /\ b + Len(new) = Len(log)
                           /\ \A k \in 1..Len(new) : new[k] = log[b + k]
                           /\ b = s.last \/ (new = <<>> /\ Len(log) <= s.last)
      BY <3>3, <3>4
    <3>6. /\ t \in Stream /\ t.reported = s.reported /\ t.backlog = new /\ t.got = s.got /\ t.last = s.last
          /\ t.from = s.from /\ t.pos = at /\ t.origin = s.origin /\ t.phase = "open" /\ t.prefix = s.prefix
          /\ t.snapshot = s.snapshot
      BY <1>3, <1>7, <3>2, <3>4 DEF Stream
    <3>7. Returned(t)
      BY <1>8, <3>6 DEF Returned
    <3>8. t.origin <= t.pos /\ t.pos <= Len(channel) + 1
      BY <1>4, <1>5, <1>7, <3>6
    <3>9. Waiting(t, log)
      <4>1. SUFFICES ASSUME new # <<>>
            PROVE  \E c \in Nat : /\ c >= t.last /\ c + Len(t.backlog) <= Len(log)
                                  /\ \A k \in 1..Len(t.backlog) : t.backlog[k] = log[c + k]
                                  /\ ComesNext(t, c)
        BY <3>6 DEF Waiting
      <4>2. b = t.last /\ ComesNext(t, b)
        BY <3>5, <3>6, <4>1 DEF ComesNext
      <4>3. b >= t.last /\ b + Len(t.backlog) <= Len(log)
        <5>1. Len(log) \in Nat /\ b + Len(t.backlog) = Len(log)
          BY <1>4, <3>5, <3>6
        <5> QED
          BY <4>2, <5>1
      <4> QED
        BY <3>5, <3>6, <4>2, <4>3
    <3>10. ASSUME ~s.reported PROVE NothingPassed(t, log)
      <4>1. ASSUME NEW cp \in OwedOf(t, log), Asked(t, log, cp)
            PROVE  /\ cp <= t.last => \E i \in 1..Len(t.got) : t.got[i] = cp
                   /\ cp > t.last => \E k \in 1..Len(t.backlog) : t.backlog[k].checkpoint = cp
        <5>1. cp \in OwedOf(s, log) /\ Asked(s, log, cp) /\ cp \in 1..Len(log)
          <6>1. t.origin = s.origin /\ t.snapshot = s.snapshot /\ t.prefix = s.prefix /\ t.from = s.from
            BY <3>6
          <6> QED
            BY <4>1, <6>1 DEF OwedOf, Asked
        <5>2. cp <= s.last => \E i \in 1..Len(s.got) : s.got[i] = cp
          BY <1>3, <3>10, <5>1 DEF StreamSound, NothingPassed
        <5>3. ASSUME cp > s.last PROVE \E k \in 1..Len(new) : new[k].checkpoint = cp
          <6>1. b = s.last
            BY <1>4, <1>5, <3>5, <5>1, <5>3
          <6>2. Len(new) \in Nat /\ Len(log) \in Nat /\ b + Len(new) = Len(log)
            <7>1. Len(new) \in Nat
              BY <3>4
            <7>2. Len(log) \in Nat
              BY <1>4
            <7> QED
              BY <3>5, <7>1, <7>2
          <6>3. cp - b \in 1..Len(new) /\ b + (cp - b) = cp
            BY <5>1, <5>3, <6>1, <6>2
          <6>4. new[cp - b] = log[cp]
            BY <3>5, <6>3
          <6>5. new[cp - b].checkpoint = cp
            BY <1>4, <5>1, <6>4
          <6> QED
            BY <6>3, <6>5
        <5> QED
          BY <3>6, <5>2, <5>3
      <4> QED
        BY <4>1 DEF NothingPassed
    <3> QED
      BY <1>8, <3>6, <3>7, <3>8, <3>9, <3>10 DEF StreamSound
  <2> QED
    BY <2>1, <2>2
<1>11. /\ stream' = [stream EXCEPT ![w] = t] /\ UNCHANGED <<next, history, channel, emitter>>
       /\ watches' \in 0..MaxWatches
  <2>1. UNCHANGED <<next, history, channel, emitter, watches>>
    BY DEF RecvLagged
  <2>2. stream' = [stream EXCEPT ![w] = t]
    BY <1>2, <1>6, <1>9 DEF RecvLagged
  <2> QED
    BY <1>3, <2>1, <2>2 DEF HubTyped
<1> QED
  BY <1>1, <1>10, <1>11, StreamChanges

LEMMA NextHub == ASSUME OneEmitter PROVE HubInv /\ [HubNext]_hubVars => HubInv'
<1> SUFFICES ASSUME HubInv, [HubNext]_hubVars PROVE HubInv'
  OBVIOUS
<1>1. CASE UNCHANGED hubVars
  <2>1. UNCHANGED <<next, history, channel, emitter, stream, watches>>
    BY <1>1 DEF hubVars
  <2>2. PICK log \in Seq(Event) : Recorded(log) /\ \A w \in Watchers : StreamSound(stream[w], log, Len(channel))
    BY DEF HubInv
  <2>3. HubTyped'
    BY <2>1 DEF HubInv, HubTyped
  <2>4. Recorded(log)'
    BY <2>1, <2>2 DEF Recorded
  <2> QED
    BY <2>1, <2>2, <2>3, <2>4 DEF HubInv
<1>2. ASSUME NEW e \in Emitters, EmitterStep(e) PROVE HubInv'
  BY <1>2, NumberHub, RecordHub, SendHub DEF EmitterStep
<1>3. ASSUME NEW w \in Watchers, NEW p \in WatchPrefixes,
             (\E from \in 0..MaxEvents : Subscribe(w, p, from, TRUE)) \/ Subscribe(w, p, 0, FALSE)
      PROVE  HubInv'
  <2>1. 0 \in 0..MaxEvents
    BY BoundAssumption
  <2> QED
    BY <1>3, <2>1, SubscribeHub
<1>4. ASSUME NEW w \in Watchers, WatcherStep(w) PROVE HubInv'
  BY <1>4, SnapshotHub, BacklogHub, LiveHub, LaggedHub DEF WatcherStep
<1> QED
  BY <1>1, <1>2, <1>3, <1>4 DEF HubNext

LEMMA HubAnswers == HubInv => FeedFaithful
<1> SUFFICES ASSUME HubInv PROVE FeedFaithful
  OBVIOUS
<1>1. PICK log \in Seq(Event) : Recorded(log) /\ \A w \in Watchers : StreamSound(stream[w], log, Len(channel))
  BY DEF HubInv
<1>2. HubTyped
  BY DEF HubInv
<1>3. Len(channel) \in Nat /\ Len(channel) <= Len(log) /\ Len(log) \in Nat /\ channel \in Seq(Event)
  BY <1>1, <1>2, LogIs DEF HubTyped
<1>4. \A i \in 1..Len(channel) : channel[i] = log[i] /\ i \in 1..Len(log) /\ channel[i].checkpoint = i
  BY <1>1, <1>2, <1>3, LogIs DEF Recorded
<1>5. HubTypeOK
  <2>1. history \in Seq(Event) /\ Len(history) <= Capacity
    BY <1>1, <1>2, HistoryIs
  <2>2. ASSUME NEW e \in Emitters
        PROVE  emitter[e] = Idle \/ (emitter[e].step \in {"record", "send"} /\ emitter[e].event \in Event)
    <3>1. emitter[e].step \in {"idle", "record", "send"}
      BY <1>2 DEF HubTyped, EmitterStates
    <3> QED
      BY <1>1, <3>1 DEF Recorded
  <2> QED
    BY <1>2, <2>1, <2>2 DEF HubTyped, HubTypeOK
<1>6. NoSilentGap
  <2>1. SUFFICES ASSUME NEW w \in Watchers, stream[w].phase = "open", ~stream[w].reported,
                        NEW cp \in Owed(stream[w]), Wanted(stream[w], cp)
                 PROVE  cp \in Delivered(stream[w]) \/ Ahead(stream[w], cp)
    BY DEF NoSilentGap
  <2>2. PICK s : s = stream[w]
    OBVIOUS
  <2>3. /\ s.got \in Seq(1..MaxEvents) /\ s.backlog \in Seq(Event) /\ s.last \in Nat /\ s.pos \in Nat
        /\ s.origin \in Nat /\ s.origin >= 1
    BY <1>2, <2>2, BoundAssumption DEF HubTyped, Stream
  <2>4. NothingPassed(s, log)
    BY <1>1, <2>1, <2>2 DEF StreamSound
  <2>5. cp > s.from /\ cp \in 1..Len(channel) /\ Matches(s.prefix, channel[EventOf(cp)])
    BY <1>3, <1>4, <2>1, <2>2 DEF Wanted
  <2>6. EventOf(cp) = cp
    BY <1>3, <1>4, <2>5 DEF EventOf
  <2>7. Asked(s, log, cp)
    BY <1>4, <2>5, <2>6 DEF Asked
  <2>8. cp \in OwedOf(s, log)
    <3>1. cp \in s.snapshot \/ (\E i \in s.origin..Len(channel) : channel[i].checkpoint = cp)
      BY <2>1, <2>2 DEF Owed
    <3>2. cp \notin s.snapshot => s.snapshot = {} \/ \E old \in s.snapshot : old < cp
      BY <2>1, <2>2 DEF Owed
    <3>3. ASSUME NEW i \in s.origin..Len(channel), channel[i].checkpoint = cp PROVE cp \in s.origin..Len(log)
      <4>1. i \in 1..Len(channel)
        BY <1>3, <2>3
      <4>2. i = cp
        BY <1>4, <3>3, <4>1
      <4> QED
        BY <1>3, <2>3, <4>2
    <3> QED
      BY <3>1, <3>2, <3>3 DEF OwedOf
  <2>9. /\ cp <= s.last => \E i \in 1..Len(s.got) : s.got[i] = cp
        /\ cp > s.last => cp >= s.pos \/ \E k \in 1..Len(s.backlog) : s.backlog[k].checkpoint = cp
    BY <2>4, <2>7, <2>8 DEF NothingPassed
  <2>10. ASSUME NEW i \in 1..Len(s.got), s.got[i] = cp PROVE cp \in Delivered(s)
    BY <2>3, <2>10 DEF Delivered
  <2>11. ASSUME NEW k \in 1..Len(s.backlog), s.backlog[k].checkpoint = cp PROVE Ahead(s, cp)
    BY <2>3, <2>11 DEF Ahead, Checkpoints
  <2>12. ASSUME cp >= s.pos PROVE Ahead(s, cp)
    <3>1. cp \in s.pos..Len(channel) /\ channel[cp].checkpoint = cp
      BY <1>3, <1>4, <2>3, <2>5, <2>12
    <3> QED
      BY <3>1 DEF Ahead
  <2>13. cp <= s.last \/ cp > s.last
    BY <1>3, <2>3, <2>5
  <2> QED
    BY <2>2, <2>9, <2>10, <2>11, <2>12, <2>13
<1>7. InOrder
  <2>1. SUFFICES ASSUME NEW w \in Watchers
                 PROVE  \A i, j \in DOMAIN stream[w].got : i < j => stream[w].got[i] < stream[w].got[j]
    BY DEF InOrder
  <2>2. DOMAIN stream[w].got = 1..Len(stream[w].got)
    BY <1>2 DEF HubTyped, Stream
  <2> QED
    BY <1>1, <2>2 DEF StreamSound, Returned
<1> QED
  BY <1>5, <1>6, <1>7 DEF FeedFaithful

-----------------------------------------------------------------------------
\* While changes are emitted one at a time, recv passes over no change that a stream
\* is owed without an error and returns them in the order of their checkpoints,
\* however far the channel has run ahead of it (watch.rs, recv and recover_lag).
THEOREM FeedIsFaithful == ASSUME OneEmitter PROVE Spec => []FeedFaithful
<1>1. Init => HubInv
  BY InitHub DEF Init
<1>2. HubInv /\ [Next]_vars => HubInv'
  <2> SUFFICES ASSUME HubInv, [Next]_vars PROVE HubInv'
    OBVIOUS
  <2>1. [HubNext]_hubVars
    BY DEF Next, Only, vars
  <2> QED
    BY <2>1, NextHub
<1>3. HubInv => FeedFaithful
  BY HubAnswers
<1> QED
  BY <1>1, <1>2, <1>3, PTL DEF Spec

-----------------------------------------------------------------------------
(* The queue.  The channel is an interval of the tasks sent, so what has been *)
(* received is an interval too: each of it has an outcome or is in one hand.  *)
Taken == enqueued - Len(queue)

HandStates == [at : {"asking", "waiting", "handling", "aborted"}, task : Tasks \cup {NULL}]
OutcomeStates == [times : Nat, last : {NULL, "success", "failure"}]

QueueTyped ==
  /\ queue \in Seq(Tasks) /\ enqueued \in 0..MaxTasks
  /\ hands \in [QueueWorkers -> HandStates]
  /\ outcomes \in [Tasks -> OutcomeStates]

\* The channel holds the newest tasks in the order they were sent.
Fifo ==
  /\ Len(queue) <= enqueued
  /\ \A i \in 1..Len(queue) : queue[i] = Taken + i

\* A worker that asks or waits has no task, one that handles has.
HandsUsed ==
  \A v \in QueueWorkers : /\ hands[v].at \in {"asking", "waiting"} => hands[v].task = NULL
                          /\ hands[v].at = "handling" => hands[v].task # NULL

\* What is in a hand was received and has no outcome.
HandsOpen ==
  \A v \in QueueWorkers : hands[v].task # NULL =>
    hands[v].task \in 1..Taken /\ outcomes[hands[v].task].times = 0

\* No task is in two hands.
HandsApart ==
  \A u, v \in QueueWorkers : u # v /\ hands[u].task # NULL => hands[u].task # hands[v].task

\* A task that was received and is in no hand has its outcome.
OutcomesTrue ==
  \A t \in Tasks : /\ outcomes[t].times \in {0, 1}
                   /\ outcomes[t].times = 1 => t <= Taken
                   /\ outcomes[t].times = 0 /\ t <= Taken => \E w \in QueueWorkers : hands[w].task = t

QueueInv == QueueTyped /\ Fifo /\ HandsUsed /\ HandsOpen /\ HandsApart /\ OutcomesTrue

LEMMA InitQueue == QueueInit => QueueInv
BY QueueAssumption
   DEF QueueInit, QueueInv, QueueTyped, Fifo, HandsUsed, HandsOpen, HandsApart, OutcomesTrue, Taken, Hand, Tasks, HandStates, OutcomeStates

LEMMA EnqueueQueue == ASSUME QueueInv, Enqueue PROVE QueueInv'
<1> USE QueueAssumption DEF QueueInv, QueueTyped, Tasks
<1>1. /\ queue' \in Seq(Tasks) /\ Len(queue') = Len(queue) + 1 /\ enqueued' = enqueued + 1
      /\ \A i \in 1..Len(queue) : queue'[i] = queue[i]
      /\ queue'[Len(queue) + 1] = enqueued + 1
  BY DEF Enqueue
<1>2. Taken' = Taken /\ Taken \in Nat
  BY <1>1 DEF Taken, Fifo
<1>3. QueueTyped'
  BY <1>1 DEF Enqueue
<1>4. Fifo'
  <2>1. ASSUME NEW i \in 1..Len(queue') PROVE queue'[i] = Taken + i
    <3>1. CASE i \in 1..Len(queue)
      BY <1>1, <3>1 DEF Fifo
    <3>2. CASE i = Len(queue) + 1
      BY <1>1, <3>2 DEF Fifo, Taken
    <3> QED
      BY <1>1, <2>1, <3>1, <3>2
  <2> QED
    BY <1>1, <1>2, <2>1 DEF Fifo
<1>5. HandsUsed' /\ HandsOpen' /\ HandsApart' /\ OutcomesTrue'
  BY <1>2 DEF HandsUsed, HandsOpen, HandsApart, OutcomesTrue, Enqueue
<1> QED
  BY <1>3, <1>4, <1>5

LEMMA LockQueue == ASSUME QueueInv, NEW w \in QueueWorkers, LockReceiver(w) PROVE QueueInv'
<1> USE QueueAssumption DEF QueueInv, QueueTyped
<1>1. PICK h : h = Hand("waiting", NULL)
  OBVIOUS
<1>2. h \in HandStates /\ h.at = "waiting" /\ h.task = NULL
  BY <1>1 DEF Hand, HandStates
<1>3. \A v \in QueueWorkers : hands'[v] = IF v = w THEN h ELSE hands[v]
  BY <1>1 DEF LockReceiver
<1>4. Taken' = Taken
  BY DEF LockReceiver, Taken
<1>5. QueueTyped' /\ Fifo'
  BY <1>1, <1>2, <1>4 DEF LockReceiver, Fifo
<1>6. hands[w].at = "asking" /\ hands[w].task = NULL /\ outcomes' = outcomes
  BY DEF LockReceiver, HandsUsed, HandsOpen, HandsApart
<1>7. HandsUsed' /\ HandsOpen' /\ HandsApart'
  BY <1>2, <1>3, <1>4, <1>6 DEF HandsUsed, HandsOpen, HandsApart
<1>8. OutcomesTrue'
  BY <1>2, <1>3, <1>4, <1>6 DEF OutcomesTrue, Tasks
<1> QED
  BY <1>5, <1>7, <1>8

LEMMA DequeueQueue == ASSUME QueueInv, NEW w \in QueueWorkers, Dequeue(w) PROVE QueueInv'
<1> USE QueueAssumption DEF QueueInv, QueueTyped
<1>1. /\ queue # <<>> /\ queue \in Seq(Tasks) /\ queue' = Tail(queue) /\ Len(queue) > 0
      /\ Head(queue) = queue[1] /\ Head(queue) \in Tasks
      /\ queue' \in Seq(Tasks) /\ Len(queue') = Len(queue) - 1
      /\ \A i \in 1..Len(queue') : queue'[i] = queue[i + 1]
  BY DEF Dequeue
<1>2. PICK h : h = Hand("handling", Head(queue))
  OBVIOUS
<1>3. h \in HandStates /\ h.at = "handling" /\ h.task = Head(queue) /\ h.task # NULL
  BY <1>1, <1>2 DEF Hand, HandStates, Tasks
<1>4. /\ Taken' = Taken + 1 /\ Taken \in Nat /\ Head(queue) = Taken + 1 /\ enqueued' = enqueued
      /\ Taken + 1 \in Tasks
  BY <1>1 DEF Dequeue, Taken, Fifo, Tasks
<1>5. \A v \in QueueWorkers : hands'[v] = IF v = w THEN h ELSE hands[v]
  BY <1>2 DEF Dequeue
<1>6. QueueTyped'
  BY <1>1, <1>2, <1>3 DEF Dequeue
<1>7. Fifo'
  BY <1>1, <1>4 DEF Fifo, Taken
<1>8. hands[w].at = "waiting" /\ hands[w].task = NULL /\ outcomes' = outcomes
  BY DEF Dequeue, HandsUsed, HandsOpen, HandsApart
<1>9. outcomes[Taken + 1].times = 0
  BY <1>4 DEF OutcomesTrue
<1>10. HandsUsed' /\ HandsOpen' /\ HandsApart'
  <2>1. \A v \in QueueWorkers : hands[v].task # NULL => hands[v].task \in 1..Taken /\ hands[v].task \in 1..Taken'
    BY <1>4 DEF HandsUsed, HandsOpen, HandsApart
  <2>2. \A v \in QueueWorkers : hands'[v].task # NULL =>
           hands'[v].task \in 1..Taken' /\ outcomes'[hands'[v].task].times = 0
    BY <1>3, <1>4, <1>5, <1>8, <1>9, <2>1 DEF HandsUsed, HandsOpen, HandsApart
  <2>3. \A u, v \in QueueWorkers : u # v /\ hands'[u].task # NULL => hands'[u].task # hands'[v].task
    BY <1>3, <1>4, <1>5, <2>1 DEF HandsUsed, HandsOpen, HandsApart
  <2>4. \A v \in QueueWorkers : /\ hands'[v].at \in {"asking", "waiting"} => hands'[v].task = NULL
                                /\ hands'[v].at = "handling" => hands'[v].task # NULL
    BY <1>3, <1>5 DEF HandsUsed, HandsOpen, HandsApart
  <2> QED
    BY <2>2, <2>3, <2>4 DEF HandsUsed, HandsOpen, HandsApart
<1>11. OutcomesTrue'
  <2>1. ASSUME NEW t \in Tasks, outcomes[t].times = 0, t <= Taken + 1
        PROVE  \E v \in QueueWorkers : hands'[v].task = t
    <3>1. CASE t = Taken + 1
      BY <1>3, <1>4, <1>5, <3>1
    <3>2. CASE t # Taken + 1
      <4>1. PICK v \in QueueWorkers : hands[v].task = t
        BY <1>4, <2>1, <3>2 DEF OutcomesTrue, Tasks
      <4>2. v # w
        BY <1>8, <4>1 DEF Tasks
      <4> QED
        BY <1>5, <4>1, <4>2
    <3> QED
      BY <3>1, <3>2
  <2>2. \A t \in Tasks : outcomes[t].times \in {0, 1} /\ (outcomes[t].times = 1 => t <= Taken + 1)
    BY <1>4 DEF OutcomesTrue, Tasks
  <2> QED
    BY <1>4, <1>8, <2>1, <2>2 DEF OutcomesTrue
<1> QED
  BY <1>6, <1>7, <1>10, <1>11

LEMMA CompleteQueue ==
  ASSUME QueueInv, NEW w \in QueueWorkers, NEW outcome \in {"success", "failure"}, Complete(w, outcome)
  PROVE  QueueInv'
<1> USE QueueAssumption DEF QueueInv, QueueTyped
<1>1. PICK h : h = Hand("asking", NULL)
  OBVIOUS
<1>2. h \in HandStates /\ h.at = "asking" /\ h.task = NULL
  BY <1>1 DEF Hand, HandStates
<1>3. hands[w].task \in 1..Taken /\ hands[w].task # NULL /\ outcomes[hands[w].task].times = 0
  BY DEF Complete, HandsUsed, HandsOpen, HandsApart
<1>4. PICK t \in Tasks : t = hands[w].task
  BY <1>3 DEF HandStates
<1>5. PICK q : q = [times |-> outcomes[t].times + 1, last |-> outcome]
  OBVIOUS
<1>6. q \in OutcomeStates /\ q.times = 1
  BY <1>3, <1>4, <1>5 DEF OutcomeStates
<1>7. \A v \in QueueWorkers : hands'[v] = IF v = w THEN h ELSE hands[v]
  BY <1>1 DEF Complete
<1>8. outcomes' = [outcomes EXCEPT ![t] = q]
  BY <1>4, <1>5 DEF Complete
<1>9. \A s \in Tasks : outcomes'[s] = IF s = t THEN q ELSE outcomes[s]
  BY <1>8
<1>10. Taken' = Taken /\ Taken \in Nat /\ UNCHANGED <<queue, enqueued>>
  BY DEF Complete, Taken, Fifo
<1>11. QueueTyped'
  BY <1>1, <1>2, <1>6, <1>8, <1>10 DEF Complete
<1>12. Fifo'
  BY <1>10 DEF Fifo
<1>13. HandsUsed' /\ HandsOpen' /\ HandsApart'
  <2>1. \A v \in QueueWorkers : hands'[v].task # NULL => hands'[v].task = hands[v].task /\ hands[v].task # t
    BY <1>2, <1>3, <1>4, <1>7 DEF HandsUsed, HandsOpen, HandsApart
  <2>2. \A v \in QueueWorkers : hands'[v].task # NULL =>
           hands'[v].task \in 1..Taken' /\ outcomes'[hands'[v].task].times = 0
    BY <1>9, <1>10, <2>1 DEF HandsUsed, HandsOpen, HandsApart, HandStates
  <2>3. \A u, v \in QueueWorkers : u # v /\ hands'[u].task # NULL => hands'[u].task # hands'[v].task
    BY <1>2, <1>7, <2>1 DEF HandsUsed, HandsOpen, HandsApart
  <2>4. \A v \in QueueWorkers : /\ hands'[v].at \in {"asking", "waiting"} => hands'[v].task = NULL
                                /\ hands'[v].at = "handling" => hands'[v].task # NULL
    BY <1>2, <1>7 DEF HandsUsed, HandsOpen, HandsApart
  <2> QED
    BY <2>2, <2>3, <2>4 DEF HandsUsed, HandsOpen, HandsApart
<1>14. OutcomesTrue'
  <2>1. ASSUME NEW s \in Tasks, outcomes'[s].times = 0, s <= Taken
        PROVE  \E v \in QueueWorkers : hands'[v].task = s
    <3>1. s # t
      BY <1>6, <1>9, <2>1
    <3>2. PICK v \in QueueWorkers : hands[v].task = s
      BY <1>9, <2>1, <3>1 DEF OutcomesTrue
    <3> QED
      BY <1>4, <1>7, <3>1, <3>2
  <2>2. \A s \in Tasks : outcomes'[s].times \in {0, 1} /\ (outcomes'[s].times = 1 => s <= Taken)
    BY <1>3, <1>4, <1>6, <1>9, <1>10 DEF OutcomesTrue
  <2> QED
    BY <1>10, <2>1, <2>2 DEF OutcomesTrue
<1> QED
  BY <1>11, <1>12, <1>13, <1>14

LEMMA AbortQueue == ASSUME QueueInv, NEW w \in QueueWorkers, Abort(w) PROVE QueueInv'
<1> USE QueueAssumption DEF QueueInv, QueueTyped
<1>1. PICK h : h = [hands[w] EXCEPT !.at = "aborted"]
  OBVIOUS
<1>2. h \in HandStates /\ h.at = "aborted" /\ h.task = hands[w].task
  BY <1>1 DEF HandStates
<1>3. hands' = [hands EXCEPT ![w] = h]
  BY <1>1 DEF Abort
<1>4. \A v \in QueueWorkers : hands'[v] = IF v = w THEN h ELSE hands[v]
  BY <1>3
<1>5. Taken' = Taken /\ UNCHANGED <<queue, enqueued, outcomes>>
  BY DEF Abort, Taken
<1>6. QueueTyped' /\ Fifo'
  BY <1>2, <1>3, <1>5 DEF Fifo
<1>7. \A v \in QueueWorkers : hands'[v].task = hands[v].task
  BY <1>2, <1>4
<1>8. \A v \in QueueWorkers : hands'[v].at = hands[v].at \/ hands'[v].at = "aborted"
  BY <1>2, <1>4
<1>9. HandsUsed' /\ HandsOpen' /\ HandsApart' /\ OutcomesTrue'
  BY <1>5, <1>7, <1>8 DEF HandsUsed, HandsOpen, HandsApart, OutcomesTrue
<1> QED
  BY <1>6, <1>9

LEMMA NextQueue == QueueInv /\ [QueueNext]_queueVars => QueueInv'
<1> SUFFICES ASSUME QueueInv, [QueueNext]_queueVars PROVE QueueInv'
  OBVIOUS
<1>1. CASE UNCHANGED queueVars
  BY <1>1 DEF queueVars, QueueInv, QueueTyped, Fifo, HandsUsed, HandsOpen, HandsApart, OutcomesTrue, Taken
<1>2. CASE QueueNext
  BY <1>2, EnqueueQueue, LockQueue, DequeueQueue, CompleteQueue, AbortQueue DEF QueueNext, WorkerStep
<1> QED
  BY <1>1, <1>2

\* Two finite sets without a common element.
LEMMA DisjointSum ==
  ASSUME NEW S, IsFiniteSet(S), NEW T, IsFiniteSet(T), S \cap T = {}
  PROVE  IsFiniteSet(S \cup T) /\ Cardinality(S \cup T) = Cardinality(S) + Cardinality(T)
<1>1. Cardinality(S \cap T) = 0
  BY FS_EmptySet
<1>2. Cardinality(S) \in Nat /\ Cardinality(T) \in Nat
  BY FS_CardinalityType
<1>3. Cardinality(S \cup T) = Cardinality(S) + Cardinality(T) - Cardinality(S \cap T) /\ IsFiniteSet(S \cup T)
  BY FS_Union
<1> QED
  BY <1>1, <1>2, <1>3

LEMMA QueueAccounts == QueueInv => EveryTaskAccounted
<1> SUFFICES ASSUME QueueInv PROVE EveryTaskAccounted
  OBVIOUS
<1> USE QueueAssumption DEF QueueInv, QueueTyped
<1> DEFINE Done == {t \in Tasks : outcomes[t].times = 1}
<1>1. Taken \in Nat /\ Taken <= enqueued /\ enqueued <= MaxTasks /\ enqueued \in Nat /\ 1..enqueued \subseteq Tasks
  BY DEF Fifo, Taken, Tasks
<1>2. InHand \subseteq 1..Taken /\ LostWith \subseteq 1..Taken /\ Done \subseteq 1..Taken
  BY <1>1 DEF InHand, LostWith, HandsUsed, HandsOpen, HandsApart, OutcomesTrue, Tasks
<1>3. InHand \cap LostWith = {} /\ InHand \cap Done = {} /\ LostWith \cap Done = {}
  <2>1. InHand \cap LostWith = {}
    BY DEF InHand, LostWith, HandsUsed, HandsOpen, HandsApart
  <2>2. \A t \in InHand \cup LostWith : outcomes[t].times = 0
    BY DEF InHand, LostWith, HandsUsed, HandsOpen, HandsApart
  <2> QED
    BY <2>1, <2>2
<1>4. InHand \cup LostWith \cup Done = 1..Taken
  <2>1. ASSUME NEW t \in 1..Taken PROVE t \in InHand \cup LostWith \cup Done
    <3>1. t \in Tasks /\ t # NULL
      BY <1>1, <2>1 DEF Tasks
    <3>2. CASE outcomes[t].times = 1
      BY <3>1, <3>2
    <3>3. CASE outcomes[t].times = 0
      <4>1. PICK w \in QueueWorkers : hands[w].task = t
        BY <2>1, <3>1, <3>3 DEF OutcomesTrue
      <4>2. hands[w].at = "handling" \/ hands[w].at = "aborted"
        BY <3>1, <4>1 DEF HandsUsed, HandsOpen, HandsApart, HandStates
      <4> QED
        BY <3>1, <4>1, <4>2 DEF InHand, LostWith
    <3> QED
      BY <3>1, <3>2, <3>3 DEF OutcomesTrue
  <2> QED
    BY <1>2, <2>1
<1>5. \A t \in 1..enqueued : t \in Range(queue) <=> t > Taken
  <2>1. ASSUME NEW t \in 1..enqueued, t > Taken PROVE t \in Range(queue)
    <3>1. t - Taken \in 1..Len(queue)
      BY <1>1, <2>1 DEF Taken
    <3>2. queue[t - Taken] = Taken + (t - Taken)
      BY <3>1 DEF Fifo
    <3>3. queue[t - Taken] = t
      BY <1>1, <3>2
    <3> QED
      BY <3>1, <3>3 DEF Range
  <2>2. \A t \in Range(queue) : t > Taken
    BY <1>1 DEF Range, Fifo
  <2> QED
    BY <1>1, <2>1, <2>2
<1>6. ASSUME NEW t \in 1..enqueued
      PROVE  Cardinality({p \in {"channel", "hand", "completed", "lost"} :
                \/ p = "channel" /\ t \in Range(queue)
                \/ p = "hand" /\ t \in InHand
                \/ p = "completed" /\ outcomes[t].times = 1
                \/ p = "lost" /\ t \in LostWith}) = 1
  <2> DEFINE P == {p \in {"channel", "hand", "completed", "lost"} :
                     \/ p = "channel" /\ t \in Range(queue)
                     \/ p = "hand" /\ t \in InHand
                     \/ p = "completed" /\ outcomes[t].times = 1
                     \/ p = "lost" /\ t \in LostWith}
  <2>1. t \in Range(queue) <=> ~(t \in InHand \cup LostWith \cup Done)
    BY <1>1, <1>4, <1>5
  <2>2. t \in Done <=> outcomes[t].times = 1
    BY <1>1
  <2>3. \E p : P = {p}
    <3>1. CASE t \in Range(queue)
      BY <2>1, <2>2, <3>1
    <3>2. CASE t \in InHand
      BY <1>3, <2>1, <2>2, <3>2
    <3>3. CASE t \in LostWith
      BY <1>3, <2>1, <2>2, <3>3
    <3>4. CASE t \in Done
      BY <1>3, <2>1, <2>2, <3>4
    <3> QED
      BY <2>1, <3>1, <3>2, <3>3, <3>4
  <2> QED
    BY <2>3, FS_Singleton
<1>7. Len(queue) + Cardinality(InHand) + Cardinality(LostWith) + Cardinality(Done) = enqueued
  <2> HIDE DEF Done
  <2>1. IsFiniteSet(1..Taken) /\ Cardinality(1..Taken) = Taken
    BY <1>1, FS_Interval
  <2>2. IsFiniteSet(InHand) /\ IsFiniteSet(LostWith) /\ IsFiniteSet(Done)
    BY <1>2, <2>1, FS_Subset
  <2>3. /\ IsFiniteSet(InHand \cup LostWith)
        /\ Cardinality(InHand \cup LostWith) = Cardinality(InHand) + Cardinality(LostWith)
    BY <1>3, <2>2, DisjointSum
  <2>4. Cardinality(1..Taken) = Cardinality(InHand \cup LostWith) + Cardinality(Done)
    <3>1. (InHand \cup LostWith) \cap Done = {}
      BY <1>3
    <3> QED
      BY <1>4, <2>2, <2>3, <3>1, DisjointSum
  <2>5. Cardinality(InHand) \in Nat /\ Cardinality(LostWith) \in Nat /\ Cardinality(Done) \in Nat
    BY <2>2, FS_CardinalityType
  <2>6. Taken = Cardinality(InHand) + Cardinality(LostWith) + Cardinality(Done)
    BY <2>1, <2>3, <2>4
  <2>7. enqueued = Len(queue) + Taken /\ Len(queue) \in Nat
    BY <1>1 DEF Taken
  <2> QED
    BY <2>5, <2>6, <2>7
<1> QED
  BY <1>6, <1>7 DEF EveryTaskAccounted, OutcomesTrue

-----------------------------------------------------------------------------
(* The buffer.  A write is pushed once, so it is in one batch, and it leaves   *)
(* its batch when it is written.                                              *)
WriterStates == {"new", "waiting", "flush", "flushing", "ok", "error", "cancelled", "dropped"}

BufferTyped ==
  /\ pending \in Seq(Writes) /\ stored \in Seq(Writes)
  /\ flushes \in [Flushers -> Seq(Writes)]
  /\ writers \in [Writes -> WriterStates]
  /\ before \in [Writes -> SUBSET Writes]

\* A write is in one place at most, and there once.
OnePlace ==
  /\ IsInjective(pending) /\ IsInjective(stored)
  /\ Range(pending) \cap Range(stored) = {}
  /\ \A f \in Flushers : /\ IsInjective(flushes[f])
                         /\ Range(flushes[f]) \cap Range(pending) = {}
                         /\ Range(flushes[f]) \cap Range(stored) = {}
  /\ \A f, g \in Flushers : f # g => Range(flushes[f]) \cap Range(flushes[g]) = {}

\* A write that was not pushed or that failed is nowhere.
Nowhere(w) ==
  /\ w \notin Range(pending) /\ w \notin Range(stored)
  /\ \A f \in Flushers : w \notin Range(flushes[f])

AnswersTrue ==
  \A w \in Writes : /\ writers[w] = "ok" => w \in Range(stored)
                    /\ writers[w] \in {"new", "error"} => Nowhere(w)

\* What had been answered when a write was pushed is in the store, before it.
OrderKept ==
  /\ \A w \in Writes : before[w] \subseteq Range(stored)
  /\ \A i \in 1..Len(stored) : \A v \in before[stored[i]] : \E j \in 1..(i - 1) : stored[j] = v

BufferInv == BufferTyped /\ OnePlace /\ AnswersTrue /\ OrderKept

LEMMA AppendOnce ==
  ASSUME NEW s \in Seq(Writes), IsInjective(s), NEW w \in Writes, w \notin Range(s), NEW t, t = Append(s, w)
  PROVE  t \in Seq(Writes) /\ IsInjective(t) /\ Range(t) = Range(s) \cup {w}
<1>1. /\ t \in Seq(Writes) /\ Len(t) = Len(s) + 1 /\ t[Len(s) + 1] = w
      /\ \A i \in 1..Len(s) : t[i] = s[i]
  OBVIOUS
<1>2. \A i \in 1..Len(s) : s[i] \in Range(s) /\ s[i] # w
  BY DEF Range
<1>3. IsInjective(t)
  BY <1>1, <1>2 DEF IsInjective
<1>4. Range(t) = Range(s) \cup {w}
  <2>1. DOMAIN t = 1..(Len(s) + 1) /\ DOMAIN s = 1..Len(s) /\ Len(s) \in Nat
    BY <1>1
  <2> QED
    BY <1>1, <2>1 DEF Range
<1> QED
  BY <1>1, <1>3, <1>4

LEMMA TailOnce ==
  ASSUME NEW s \in Seq(Writes), IsInjective(s), s # <<>>, NEW t, t = Tail(s)
  PROVE  /\ t \in Seq(Writes) /\ IsInjective(t) /\ Range(t) = Range(s) \ {Head(s)}
         /\ Head(s) \in Writes /\ Head(s) \in Range(s)
<1>1. /\ t \in Seq(Writes) /\ Len(t) = Len(s) - 1 /\ Head(s) = s[1] /\ Len(s) \in Nat /\ Len(s) > 0
      /\ \A i \in 1..Len(t) : t[i] = s[i + 1]
  OBVIOUS
<1>2. DOMAIN t = 1..(Len(s) - 1) /\ DOMAIN s = 1..Len(s)
  BY <1>1
<1>3. IsInjective(t)
  BY <1>1, <1>2 DEF IsInjective
<1>4. Range(t) \subseteq Range(s) \ {Head(s)}
  <2>1. ASSUME NEW i \in 1..Len(t) PROVE t[i] \in Range(s) /\ t[i] # Head(s)
    BY <1>1, <1>2 DEF Range, IsInjective
  <2> QED
    BY <1>1, <1>2, <2>1 DEF Range
<1>5. Range(s) \ {Head(s)} \subseteq Range(t)
  <2>1. ASSUME NEW i \in 1..Len(s), s[i] # Head(s) PROVE s[i] \in Range(t)
    <3>1. i - 1 \in 1..Len(t) /\ t[i - 1] = s[i]
      BY <1>1, <2>1
    <3> QED
      BY <1>2, <1>1, <3>1 DEF Range
  <2> QED
    BY <1>2, <2>1 DEF Range
<1>6. Head(s) \in Writes /\ Head(s) \in Range(s)
  <2>1. 1 \in DOMAIN s /\ s[1] \in Writes
    BY <1>1
  <2> QED
    BY <1>1, <2>1 DEF Range
<1> QED
  BY <1>1, <1>3, <1>4, <1>5, <1>6

LEMMA EmptyOnce == <<>> \in Seq(Writes) /\ IsInjective(<<>>) /\ Range(<<>>) = {}
BY DEF IsInjective, Range

LEMMA InitBuffer == BufferInit => BufferInv
<1> SUFFICES ASSUME BufferInit PROVE BufferInv
  OBVIOUS
<1>1. BufferTyped
  BY EmptyOnce DEF BufferInit, BufferTyped, WriterStates
<1>2. /\ Range(pending) = {} /\ Range(stored) = {} /\ Len(stored) = 0 /\ IsInjective(pending) /\ IsInjective(stored)
      /\ \A f \in Flushers : Range(flushes[f]) = {} /\ IsInjective(flushes[f])
  BY EmptyOnce DEF BufferInit
<1>3. OnePlace
  BY <1>2 DEF OnePlace
<1>4. AnswersTrue
  BY <1>2 DEF AnswersTrue, Nowhere, BufferInit
<1>5. OrderKept
  BY <1>2 DEF OrderKept, BufferInit
<1> QED
  BY <1>1, <1>3, <1>4, <1>5 DEF BufferInv

\* A write that is added to the store comes after all that it was pushed after.
LEMMA StoredInOrder ==
  ASSUME BufferInv, NEW w \in Writes, w \notin Range(stored), stored' = Append(stored, w), before' = before
  PROVE  /\ OrderKept' /\ stored' \in Seq(Writes) /\ IsInjective(stored') /\ Range(stored') = Range(stored) \cup {w}
<1>1. stored \in Seq(Writes) /\ IsInjective(stored) /\ before \in [Writes -> SUBSET Writes]
  BY DEF BufferInv, BufferTyped, OnePlace
<1>2. PICK t : t = Append(stored, w)
  OBVIOUS
<1>3. /\ t \in Seq(Writes) /\ IsInjective(t) /\ Range(t) = Range(stored) \cup {w}
      /\ Len(t) = Len(stored) + 1 /\ t[Len(stored) + 1] = w /\ \A i \in 1..Len(stored) : t[i] = stored[i]
  <2>1. t \in Seq(Writes) /\ IsInjective(t) /\ Range(t) = Range(stored) \cup {w}
    BY <1>1, <1>2, AppendOnce, Zenon
  <2> QED
    BY <1>1, <1>2, <2>1
<1>4. stored' = t
  BY <1>2
<1>5. \A v \in Writes : before[v] \subseteq Range(t)
  BY <1>3 DEF BufferInv, OrderKept
<1>6. ASSUME NEW i \in 1..Len(t), NEW v \in before[t[i]]
      PROVE  \E j \in 1..(i - 1) : t[j] = v
  <2>1. CASE i \in 1..Len(stored)
    <3>1. v \in before[stored[i]]
      BY <1>3, <1>6, <2>1
    <3>2. PICK j \in 1..(i - 1) : stored[j] = v
      BY <2>1, <3>1 DEF BufferInv, OrderKept
    <3>3. j \in 1..Len(stored)
      BY <1>1, <2>1, <3>2
    <3> QED
      BY <1>3, <3>2, <3>3
  <2>2. CASE i = Len(stored) + 1
    <3>1. v \in Range(stored)
      BY <1>3, <1>6, <2>2 DEF BufferInv, OrderKept
    <3>2. PICK j \in 1..Len(stored) : stored[j] = v
      BY <1>1, <3>1 DEF Range
    <3> QED
      BY <1>1, <1>3, <2>2, <3>2
  <2> QED
    BY <1>1, <1>3, <1>6, <2>1, <2>2
<1>7. OrderKept'
  BY <1>4, <1>5, <1>6 DEF OrderKept
<1> QED
  BY <1>3, <1>4, <1>7

LEMMA PushBuffer == ASSUME BufferInv, NEW w \in Writes, Push(w) PROVE BufferInv'
<1>1. /\ pending \in Seq(Writes) /\ IsInjective(pending) /\ writers \in [Writes -> WriterStates]
      /\ before \in [Writes -> SUBSET Writes] /\ UNCHANGED <<flushes, stored>> /\ Nowhere(w)
  BY DEF BufferInv, BufferTyped, OnePlace, AnswersTrue, Push
<1>2. PICK q \in {"flush", "waiting"} : writers' = [writers EXCEPT ![w] = q]
  BY DEF Push
<1>3. writers' \in [Writes -> WriterStates] /\ \A v \in Writes : writers'[v] = IF v = w THEN q ELSE writers[v]
  BY <1>1, <1>2 DEF WriterStates
<1>4. PICK t : t = Append(pending, w)
  OBVIOUS
<1>5. t \in Seq(Writes) /\ IsInjective(t) /\ Range(t) = Range(pending) \cup {w} /\ pending' = t
  <2>1. w \notin Range(pending)
    BY <1>1 DEF Nowhere
  <2>2. pending' = t
    BY <1>4 DEF Push
  <2> QED
    BY <1>1, <1>4, <2>1, <2>2, AppendOnce, Zenon
<1>6. PICK b \in SUBSET Writes : b = {v \in Writes : writers[v] = "ok"}
  OBVIOUS
<1>7. before' \in [Writes -> SUBSET Writes] /\ \A v \in Writes : before'[v] = IF v = w THEN b ELSE before[v]
  BY <1>1, <1>6 DEF Push
<1>8. BufferTyped'
  BY <1>1, <1>3, <1>5, <1>7 DEF BufferInv, BufferTyped
<1>9. OnePlace'
  BY <1>1, <1>5 DEF BufferInv, OnePlace, Nowhere
<1>10. AnswersTrue'
  <2>1. ASSUME NEW v \in Writes, v # w, Nowhere(v) PROVE Nowhere(v)'
    BY <1>1, <1>5, <2>1 DEF Nowhere
  <2> QED
    BY <1>1, <1>2, <1>3, <2>1 DEF BufferInv, AnswersTrue
<1>11. OrderKept'
  <2>1. \A v \in Writes : before'[v] \subseteq Range(stored)
    BY <1>6, <1>7 DEF BufferInv, AnswersTrue, OrderKept
  <2>2. \A i \in 1..Len(stored) : stored[i] \in Writes /\ stored[i] # w
    BY <1>1 DEF BufferInv, BufferTyped, Nowhere, Range
  <2>3. \A i \in 1..Len(stored) : before'[stored[i]] = before[stored[i]]
    BY <1>7, <2>2
  <2>4. \A i \in 1..Len(stored) : \A v \in before'[stored[i]] : \E j \in 1..(i - 1) : stored[j] = v
    BY <2>3 DEF BufferInv, OrderKept
  <2>5. stored' = stored
    BY <1>1
  <2> QED
    BY <2>1, <2>4, <2>5 DEF OrderKept
<1> QED
  BY <1>8, <1>9, <1>10, <1>11 DEF BufferInv

LEMMA TakeApart ==
  ASSUME BufferInv, NEW f \in Flushers, TakeBatch(f), UNCHANGED <<stored, before>>
  PROVE  /\ OnePlace' /\ OrderKept' /\ pending' \in Seq(Writes) /\ flushes' \in [Flushers -> Seq(Writes)]
         /\ \A w \in Writes : Nowhere(w) => Nowhere(w)'
<1>1. pending \in Seq(Writes) /\ flushes \in [Flushers -> Seq(Writes)]
  BY DEF BufferInv, BufferTyped
<1>2. /\ flushes' \in [Flushers -> Seq(Writes)] /\ stored' = stored
      /\ \A g \in Flushers : flushes'[g] = IF g = f THEN pending ELSE flushes[g]
  BY <1>1 DEF TakeBatch
<1>3. pending' \in Seq(Writes) /\ IsInjective(pending') /\ Range(pending') = {}
  BY EmptyOnce DEF TakeBatch
<1>4. OnePlace'
  BY <1>2, <1>3 DEF BufferInv, OnePlace
<1>5. OrderKept'
  <2>1. stored' = stored /\ before' = before
    OBVIOUS
  <2> QED
    BY <2>1 DEF BufferInv, OrderKept
<1>6. \A w \in Writes : Nowhere(w) => Nowhere(w)'
  BY <1>2, <1>3 DEF Nowhere
<1> QED
  BY <1>2, <1>3, <1>4, <1>5, <1>6

\* The writer that filled the batch takes it, or finds that another flush has.
LEMMA FlushBuffer == ASSUME BufferInv, NEW w \in Writes, Flush(w) PROVE BufferInv'
<1>1. writers \in [Writes -> WriterStates] /\ w \in Flushers /\ UNCHANGED <<stored, before>>
  BY DEF BufferInv, BufferTyped, Flush, Flushers
<1>2. PICK q \in {"waiting", "flushing"} : writers' = [writers EXCEPT ![w] = q]
  BY DEF Flush
<1>3. writers' \in [Writes -> WriterStates] /\ \A v \in Writes : writers'[v] = IF v = w THEN q ELSE writers[v]
  BY <1>1, <1>2 DEF WriterStates
<1>4. CASE UNCHANGED <<pending, flushes>>
  <2>1. OnePlace' /\ OrderKept'
    BY <1>1, <1>4 DEF BufferInv, OnePlace, OrderKept
  <2>2. \A v \in Writes : Nowhere(v)' = Nowhere(v)
    BY <1>1, <1>4 DEF Nowhere
  <2>3. AnswersTrue'
    BY <1>1, <1>2, <1>3, <2>2 DEF BufferInv, AnswersTrue
  <2> QED
    BY <1>1, <1>3, <1>4, <2>1, <2>3 DEF BufferInv, BufferTyped
<1>5. CASE TakeBatch(w)
  <2>1. /\ OnePlace' /\ OrderKept' /\ pending' \in Seq(Writes) /\ flushes' \in [Flushers -> Seq(Writes)]
        /\ \A v \in Writes : Nowhere(v) => Nowhere(v)'
    BY <1>1, <1>5, TakeApart
  <2>2. AnswersTrue'
    BY <1>1, <1>2, <1>3, <2>1 DEF BufferInv, AnswersTrue
  <2> QED
    BY <1>1, <1>3, <2>1, <2>2 DEF BufferInv, BufferTyped
<1> QED
  BY <1>4, <1>5 DEF Flush

LEMMA TickBuffer == ASSUME BufferInv, Tick PROVE BufferInv'
<1>1. Timer \in Flushers /\ TakeBatch(Timer) /\ UNCHANGED <<stored, writers, before>>
  BY DEF Tick, Flushers
<1>2. /\ OnePlace' /\ OrderKept' /\ pending' \in Seq(Writes) /\ flushes' \in [Flushers -> Seq(Writes)]
      /\ \A v \in Writes : Nowhere(v) => Nowhere(v)'
  BY <1>1, TakeApart
<1> QED
  BY <1>1, <1>2 DEF BufferInv, BufferTyped, AnswersTrue

\* A batch loses its first write, or all: the others stay where they are.
LEMMA FlushesShrink ==
  ASSUME BufferInv, NEW f \in Flushers, NEW q \in Seq(Writes), IsInjective(q), Range(q) \subseteq Range(flushes[f]),
         flushes' = [flushes EXCEPT ![f] = q], pending' = pending
  PROVE  /\ flushes' \in [Flushers -> Seq(Writes)]
         /\ \A g \in Flushers : flushes'[g] = IF g = f THEN q ELSE flushes[g]
         /\ \A g \in Flushers : IsInjective(flushes'[g]) /\ Range(flushes'[g]) \subseteq Range(flushes[g])
<1>1. flushes \in [Flushers -> Seq(Writes)] /\ \A g \in Flushers : IsInjective(flushes[g])
  BY DEF BufferInv, BufferTyped, OnePlace
<1>2. /\ flushes' \in [Flushers -> Seq(Writes)]
      /\ \A g \in Flushers : flushes'[g] = IF g = f THEN q ELSE flushes[g]
  BY <1>1
<1> QED
  BY <1>1, <1>2

\* A batch gives up its first write, and perhaps more; the store may have taken it.
LEMMA FirstLeaves ==
  ASSUME BufferInv, NEW f \in Flushers, flushes[f] # <<>>, NEW w \in Writes, w = Head(flushes[f]),
         NEW q \in Seq(Writes), IsInjective(q), Range(q) \subseteq Range(flushes[f]) \ {w},
         flushes' = [flushes EXCEPT ![f] = q], UNCHANGED <<pending, before>>,
         stored' = stored \/ stored' = Append(stored, w)
  PROVE  /\ OnePlace' /\ OrderKept' /\ stored' \in Seq(Writes) /\ pending' \in Seq(Writes)
         /\ flushes' \in [Flushers -> Seq(Writes)]
         /\ \A v \in Writes : Nowhere(v) => Nowhere(v)'
         /\ Range(stored) \subseteq Range(stored')
         /\ stored' = stored => Nowhere(w)'
         /\ stored' # stored => w \in Range(stored')
<1>1. /\ flushes[f] \in Seq(Writes) /\ IsInjective(flushes[f]) /\ stored \in Seq(Writes) /\ IsInjective(stored)
      /\ pending \in Seq(Writes) /\ pending' = pending
  BY DEF BufferInv, BufferTyped, OnePlace
<1>2. w \in Range(flushes[f])
  BY <1>1, TailOnce
<1>3. /\ w \notin Range(stored) /\ w \notin Range(pending) /\ w \notin Range(q)
      /\ \A g \in Flushers : g # f => w \notin Range(flushes[g])
  BY <1>2 DEF BufferInv, OnePlace
<1>4. /\ flushes' \in [Flushers -> Seq(Writes)]
      /\ \A g \in Flushers : flushes'[g] = IF g = f THEN q ELSE flushes[g]
      /\ \A g \in Flushers : IsInjective(flushes'[g]) /\ Range(flushes'[g]) \subseteq Range(flushes[g])
  BY <1>1, FlushesShrink
<1>5. \A g \in Flushers : w \notin Range(flushes'[g])
  BY <1>3, <1>4
<1>6. CASE stored' = stored
  <2>1. OnePlace'
    BY <1>1, <1>4, <1>6 DEF BufferInv, OnePlace
  <2>2. OrderKept'
    <3>1. before' = before
      OBVIOUS
    <3> QED
      BY <1>6, <3>1 DEF BufferInv, OrderKept
  <2>3. \A v \in Writes : Nowhere(v) => Nowhere(v)'
    BY <1>1, <1>4, <1>6 DEF Nowhere
  <2>4. Nowhere(w)'
    BY <1>1, <1>3, <1>5, <1>6 DEF Nowhere
  <2> QED
    BY <1>1, <1>2, <1>4, <1>6, <2>1, <2>2, <2>3, <2>4
<1>7. CASE stored' = Append(stored, w)
  <2>1. before' = before
    OBVIOUS
  <2>2. /\ OrderKept' /\ stored' \in Seq(Writes) /\ IsInjective(stored') /\ Range(stored') = Range(stored) \cup {w}
    BY <1>3, <1>7, <2>1, StoredInOrder
  <2>3. \A g \in Flushers : Range(flushes'[g]) \cap Range(stored') = {}
    BY <1>4, <1>5, <2>2 DEF BufferInv, OnePlace
  <2>4. OnePlace'
    BY <1>1, <1>3, <1>4, <2>2, <2>3 DEF BufferInv, OnePlace
  <2>5. \A v \in Writes : Nowhere(v) => Nowhere(v)'
    BY <1>1, <1>2, <1>4, <2>2 DEF Nowhere
  <2>6. stored' # stored /\ w \in Range(stored') /\ Range(stored) \subseteq Range(stored')
    BY <1>3, <2>2
  <2> QED
    BY <1>1, <1>2, <1>4, <2>2, <2>4, <2>5, <2>6
<1> QED
  BY <1>2, <1>6, <1>7

LEMMA WriteBuffer == ASSUME BufferInv, NEW f \in Flushers, WriteOne(f) PROVE BufferInv'
<1>1. /\ flushes[f] # <<>> /\ flushes[f] \in Seq(Writes) /\ IsInjective(flushes[f])
      /\ UNCHANGED <<pending, before>> /\ writers \in [Writes -> WriterStates]
  BY DEF WriteOne, BufferInv, BufferTyped, OnePlace
<1>2. PICK q : q = Tail(flushes[f])
  OBVIOUS
<1>3. PICK w : w = Head(flushes[f])
  OBVIOUS
<1>4. q \in Seq(Writes) /\ IsInjective(q) /\ Range(q) = Range(flushes[f]) \ {w} /\ w \in Writes /\ w \in Range(flushes[f])
  BY <1>1, <1>2, <1>3, TailOnce, Zenon
<1>5. flushes' = [flushes EXCEPT ![f] = q]
  BY <1>2 DEF WriteOne
<1>6. \/ stored' = Append(stored, w) /\ writers' = Answered(w, "ok")
      \/ stored' = stored /\ writers' = Answered(w, "error")
  BY <1>3 DEF WriteOne
<1>7. /\ OnePlace' /\ OrderKept' /\ stored' \in Seq(Writes) /\ pending' \in Seq(Writes)
      /\ flushes' \in [Flushers -> Seq(Writes)]
      /\ \A v \in Writes : Nowhere(v) => Nowhere(v)'
      /\ Range(stored) \subseteq Range(stored')
      /\ stored' = stored => Nowhere(w)'
      /\ stored' # stored => w \in Range(stored')
  BY <1>1, <1>3, <1>4, <1>5, <1>6, FirstLeaves
<1>8. ~Nowhere(w)
  BY <1>4 DEF Nowhere
<1>9. PICK reply \in {"ok", "error"} : /\ writers' = Answered(w, reply)
                                       /\ reply = "ok" => w \in Range(stored')
                                       /\ reply = "error" => Nowhere(w)'
  <2>1. CASE stored' = stored /\ writers' = Answered(w, "error")
    BY <1>7, <2>1
  <2>2. CASE stored' = Append(stored, w) /\ writers' = Answered(w, "ok")
    <3>1. stored' # stored
      BY <2>2 DEF BufferInv, BufferTyped
    <3> QED
      BY <1>7, <2>2, <3>1
  <2> QED
    BY <1>6, <2>1, <2>2
<1>10. writers' \in [Writes -> WriterStates] /\ \A v \in Writes : writers'[v] = writers[v] \/ (v = w /\ writers'[v] = reply)
  BY <1>1, <1>4, <1>9 DEF Answered, WriterStates
<1>11. AnswersTrue'
  BY <1>4, <1>7, <1>8, <1>9, <1>10 DEF BufferInv, AnswersTrue
<1>12. BufferTyped'
  BY <1>1, <1>7, <1>10 DEF BufferInv, BufferTyped
<1> QED
  BY <1>7, <1>11, <1>12 DEF BufferInv

LEMMA GiveUpBuffer == ASSUME BufferInv, NEW w \in Writes, GiveUp(w) PROVE BufferInv'
<1>1. /\ w \in Flushers /\ flushes[w] \in Seq(Writes) /\ IsInjective(flushes[w]) /\ UNCHANGED <<pending, before>>
      /\ writers \in [Writes -> WriterStates]
  BY DEF GiveUp, BufferInv, BufferTyped, OnePlace, Flushers
<1>2. PICK q : q = <<>>
  OBVIOUS
<1>3. q \in Seq(Writes) /\ IsInjective(q) /\ Range(q) = {} /\ flushes' = [flushes EXCEPT ![w] = q]
  BY <1>2, EmptyOnce DEF GiveUp
<1>4. /\ writers' \in [Writes -> WriterStates]
      /\ \A v \in Writes : writers'[v] \in {"ok", "new", "error"} => writers'[v] = writers[v]
  BY <1>1 DEF GiveUp, WriterStates
<1>5. CASE flushes[w] = <<>>
  <2>1. flushes' = flushes /\ stored' = stored /\ pending' = pending /\ before' = before
    BY <1>1, <1>2, <1>3, <1>5 DEF GiveUp, BufferInv, BufferTyped
  <2>2. OnePlace' /\ OrderKept' /\ \A v \in Writes : Nowhere(v)' = Nowhere(v)
    BY <2>1 DEF BufferInv, OnePlace, OrderKept, Nowhere
  <2>3. AnswersTrue'
    BY <1>4, <2>1, <2>2 DEF BufferInv, AnswersTrue
  <2> QED
    BY <1>4, <2>1, <2>2, <2>3 DEF BufferInv, BufferTyped
<1>6. CASE flushes[w] # <<>>
  <2>1. PICK v : v = Head(flushes[w])
    OBVIOUS
  <2>2. v \in Writes
    BY <1>1, <1>6, <2>1
  <2>3. stored' = stored \/ stored' = Append(stored, v)
    BY <2>1 DEF GiveUp
  <2>4. /\ OnePlace' /\ OrderKept' /\ stored' \in Seq(Writes) /\ pending' \in Seq(Writes)
        /\ flushes' \in [Flushers -> Seq(Writes)]
        /\ \A u \in Writes : Nowhere(u) => Nowhere(u)'
        /\ Range(stored) \subseteq Range(stored')
    BY <1>1, <1>3, <1>6, <2>1, <2>2, <2>3, FirstLeaves
  <2>5. AnswersTrue'
    BY <1>4, <2>4 DEF BufferInv, AnswersTrue
  <2> QED
    BY <1>1, <1>4, <2>4, <2>5 DEF BufferInv, BufferTyped
<1> QED
  BY <1>5, <1>6

LEMMA NextBuffer == BufferInv /\ [BufferNext]_bufferVars => BufferInv'
<1> SUFFICES ASSUME BufferInv, [BufferNext]_bufferVars PROVE BufferInv'
  OBVIOUS
<1>1. CASE UNCHANGED bufferVars
  BY <1>1 DEF bufferVars, BufferInv, BufferTyped, OnePlace, AnswersTrue, OrderKept, Nowhere
<1>2. CASE BufferNext
  BY <1>2, TickBuffer, WriteBuffer, PushBuffer, FlushBuffer, GiveUpBuffer DEF BufferNext
<1> QED
  BY <1>1, <1>2

LEMMA BufferAnswers == BufferInv => BufferIsTheStore
<1> SUFFICES ASSUME BufferInv PROVE BufferIsTheStore
  OBVIOUS
<1>1. stored \in Seq(Writes) /\ IsInjective(stored) /\ DOMAIN stored = 1..Len(stored) /\ Len(stored) \in Nat
  BY DEF BufferInv, BufferTyped, OnePlace
<1>2. \A i, j \in DOMAIN stored : stored[i] = stored[j] => i = j
  BY <1>1 DEF IsInjective
<1>3. ASSUME NEW i \in DOMAIN stored, NEW v \in before[stored[i]]
      PROVE  v \in Range(stored) /\ Position(v) < i
  <2>1. PICK j \in 1..(i - 1) : stored[j] = v
    BY <1>1, <1>3 DEF BufferInv, OrderKept
  <2>2. j \in DOMAIN stored /\ j < i
    BY <1>1, <2>1
  <2>3. Position(v) = j
    BY <1>2, <2>1, <2>2 DEF Position
  <2> QED
    BY <2>1, <2>2, <2>3 DEF Range
<1>4. \A w \in Writes : /\ writers[w] = "ok" => w \in Range(stored)
                        /\ writers[w] = "error" => w \notin Range(stored)
  BY DEF BufferInv, AnswersTrue, Nowhere
<1> QED
  BY <1>2, <1>3, <1>4 DEF BufferIsTheStore

-----------------------------------------------------------------------------
\* However workers are aborted and callers give up, every task enqueued is in one
\* place (queue.rs) and the store has what the buffer answered for, in an order
\* in which callers may have seen it (perf.rs).
THEOREM WorkIsAccounted == Spec => []WorkAccounted
<1>1. Init => QueueInv /\ BufferInv
  BY InitQueue, InitBuffer DEF Init
<1>2. QueueInv /\ BufferInv /\ [Next]_vars => (QueueInv /\ BufferInv)'
  <2> SUFFICES ASSUME QueueInv, BufferInv, [Next]_vars PROVE QueueInv' /\ BufferInv'
    OBVIOUS
  <2>1. [QueueNext]_queueVars /\ [BufferNext]_bufferVars
    BY DEF Next, Only, vars
  <2> QED
    BY <2>1, NextQueue, NextBuffer
<1>3. QueueInv /\ BufferInv => WorkAccounted
  BY QueueAccounts, BufferAnswers DEF WorkAccounted
<1> QED
  BY <1>1, <1>2, <1>3, PTL DEF Spec

-----------------------------------------------------------------------------
(* The compressor.  How far a call has come says what it has written, and a  *)
(* copy of the record that says done was made after all of it.  When calls   *)
(* do not overlap, none is on its way to write once the record is done.      *)

\* Calls that hold a copy of the record.
Holding == Inside \cup {"enter"}

\* What a call has written, by how far it has come.
Written ==
  /\ record # NULL => "archive" \in artifacts
  /\ \A c \in Clients :
       /\ calls[c].at \in Holding => calls[c].mine \in TaskRecord /\ "archive" \in artifacts
       /\ calls[c].at = "pending" => "archive" \in artifacts
       /\ calls[c].at \in {"overview", "done", "terminal"} => "diff" \in artifacts
       /\ calls[c].at \in {"done", "terminal"} => "overview" \in artifacts
       /\ calls[c].mine # NULL /\ calls[c].mine.status = "done" => Durable

\* The stages of a call that goes on to write the record.
Writing == {"enter", "processing", "pipeline", "diff", "overview", "done", "terminal", "failed"}

\* Alone, a call that will write the record has seen that it is not done.
Alone ==
  ~overlap =>
    /\ \A c, d \in Clients : calls[c].at # "idle" /\ calls[d].at # "idle" => c = d
    /\ \A c \in Clients :
         /\ calls[c].at \in {"archive", "pending"} => record = NULL
         /\ calls[c].at \in Writing => record # NULL /\ record.status # "done"

CompressorInv == ArchiveSound /\ Written /\ Alone

-----------------------------------------------------------------------------

LEMMA InitCompressor == CompressorInit => CompressorInv
<1> SUFFICES ASSUME CompressorInit PROVE CompressorInv
  OBVIOUS
<1>1. \A c \in Clients : calls[c] = [at |-> "idle", mine |-> NULL, reply |-> "none"]
  BY DEF CompressorInit
<1>2. CompressorTypeOK
  <2>1. overlap \in BOOLEAN /\ active \in BOOLEAN
    BY DEF CompressorInit
  <2>2. calls \in [Clients -> [at : Stages, mine : Opt(TaskRecord), reply : Replies]]
    BY DEF CompressorInit, Stages, Replies, Opt
  <2>3. record \in Opt(TaskRecord) /\ artifacts \subseteq Artifacts /\ failures \in 0..MaxFailures /\ stops \in 0..MaxStops
    BY CompressorAssumption DEF CompressorInit, Opt
  <2> QED
    BY <2>1, <2>2, <2>3 DEF CompressorTypeOK
<1>3. ActiveIsInside
  <2>1. ~active
    BY DEF CompressorInit
  <2>2. \A c \in Clients : calls[c].at \notin Inside
    BY <1>1 DEF Inside
  <2> QED
    BY <2>1, <2>2 DEF ActiveIsInside
<1>4. DoneIsDurable /\ Written /\ Alone
  BY <1>1 DEF CompressorInit, DoneIsDurable, Durable, Written, Alone, Holding, Writing, Inside
<1> QED
  BY <1>2, <1>3, <1>4 DEF CompressorInv, ArchiveSound

\* Where an error leads, by the stage of the port call.
LEMMA FailedToCases ==
  /\ \A at \in {"archive", "pending", "load"} : FailedTo(at) = "idle"
  /\ \A at \in {"pipeline", "diff", "overview", "done"} : FailedTo(at) = "failed"
  /\ \A at \in {"processing", "terminal", "failed"} : FailedTo(at) = "leave"
BY DEF FailedTo

\* A port call that fails leaves the record and the artifacts as they are.
LEMMA PortFailsCompressor ==
  ASSUME CompressorInv, NEW c \in Clients, PortFails(c)
  PROVE  CompressorInv'
<1> DEFINE at == calls[c].at
           after == FailedTo(at)
           copy == [calls[c].mine EXCEPT !.status = "failed"]
<1>1. /\ failures' = failures + 1 /\ failures < MaxFailures
      /\ UNCHANGED <<overlap, record, artifacts, active, stops>>
      /\ IF after = "idle" THEN Reply(c, "error")
         ELSE calls' = [calls EXCEPT ![c] = [at |-> after, mine |-> copy, reply |-> calls[c].reply]]
  BY DEF PortFails
<1>2. \/ at \in {"archive", "pending", "load"} /\ after = "idle"
      \/ at \in {"pipeline", "diff", "overview", "done"} /\ after = "failed"
      \/ at \in {"processing", "terminal", "failed"} /\ after = "leave"
  <2>1. at \in {"archive", "pending", "load", "pipeline", "diff", "overview", "done", "processing", "terminal", "failed"}
    BY DEF PortFails, Stages
  <2> HIDE DEF at
  <2> QED
    BY <2>1, FailedToCases
<1>3. calls \in [Clients -> [at : Stages, mine : Opt(TaskRecord), reply : Replies]]
  BY DEF CompressorInv, ArchiveSound, CompressorTypeOK
<1>4. after # "idle" => calls[c].mine \in TaskRecord
  BY <1>2 DEF CompressorInv, Written, Holding, Inside
<1>6. overlap' \in BOOLEAN /\ active' \in BOOLEAN /\ failures' \in 0..MaxFailures
  BY <1>1, CompressorAssumption DEF CompressorInv, ArchiveSound, CompressorTypeOK
<1> USE NoRecordAssumption
    DEF CompressorInv, ArchiveSound, CompressorTypeOK, DoneIsDurable, ActiveIsInside,
        Durable, Written, Alone, Holding, Writing, Inside, Stages, Artifacts, Replies, Opt, TaskRecord, TaskStatus
<1>7. CASE after = "idle"
  <2>1. Reply(c, "error")
    BY <1>1, <1>7
  <2>2. CompressorTypeOK'
    BY <1>1, <1>3, <1>6, <2>1 DEF Reply
  <2>3. DoneIsDurable' /\ Written' /\ Alone'
    BY <1>1, <2>1 DEF Reply
  <2>4. at \notin Inside
    BY <1>2, <1>7
  <2>5. ActiveIsInside'
    BY <1>1, <2>1, <2>4 DEF Reply
  <2> QED
    BY <2>2, <2>3, <2>5
<1>8. CASE after # "idle"
  <2>1. copy \in TaskRecord /\ copy.status = "failed" /\ after \in {"failed", "leave"} /\ at \in Inside
    BY <1>2, <1>4, <1>8
  <2>2. calls' = [calls EXCEPT ![c] = [at |-> after, mine |-> copy, reply |-> calls[c].reply]]
    BY <1>1, <1>8
  <2>3. at \in Writing
    BY <1>2, <1>8
  <2> HIDE DEF after, copy
  <2>4. CompressorTypeOK'
    <3>1. calls' \in [Clients -> [at : Stages, mine : Opt(TaskRecord), reply : Replies]]
      BY <1>3, <2>1, <2>2
    <3> QED
      BY <1>1, <1>6, <3>1
  <2>5. Written' /\ DoneIsDurable'
    BY <1>1, <2>1, <2>2
  <2>6. ActiveIsInside' /\ Alone'
    BY <1>1, <2>1, <2>2, <2>3
  <2> QED
    BY <2>4, <2>5, <2>6
<1> QED
  BY <1>7, <1>8

\* A call and a step of one keep what it relates: the stages and the artifacts,
\* the copy of the record, and who else is inside.
LEMMA ClientCompressor ==
  ASSUME CompressorInv, NEW c \in Clients, Call(c) \/ ClientStep(c)
  PROVE  CompressorInv'
<1> USE CompressorAssumption, NoRecordAssumption
    DEF CompressorInv, ArchiveSound, CompressorTypeOK, DoneIsDurable, ActiveIsInside,
        Durable, Written, Alone, Holding, Writing, Inside, Stages, Artifacts, Replies, Opt, TaskRecord, TaskStatus
<1>1. CASE Call(c)
  BY <1>1 DEF Call
<1>2. CASE Lookup(c)
  BY <1>2 DEF Lookup, Goto
<1>3. CASE SavePending(c)
  BY <1>3 DEF SavePending, Save
<1>4. CASE LoadRecord(c)
  BY <1>4 DEF LoadRecord, Reply
<1>5. CASE Enter(c)
  <2>1. CASE active
    BY <1>5, <2>1 DEF Enter, Reply
  <2>2. CASE ~active
    <3>1. active' /\ Goto(c, "processing") /\ calls[c].at = "enter" /\ UNCHANGED <<overlap, record, artifacts, failures, stops>>
      BY <1>5, <2>2 DEF Enter
    <3>2. \A d \in Clients : calls[d].at \notin Inside
      BY <2>2
    <3> QED
      BY <3>1, <3>2 DEF Goto
  <2> QED
    BY <2>1, <2>2
<1>6. CASE StartAttempt(c)
  BY <1>6 DEF StartAttempt, Save
<1>7. CASE Extract(c)
  BY <1>7 DEF Extract, Goto
<1>8. CASE WriteArtifact(c)
  BY <1>8 DEF WriteArtifact, Goto, After
<1>9. CASE Finish(c)
  BY <1>9 DEF Finish, Save
<1>10. CASE Leave(c)
  <2>1. ~active' /\ calls[c].at = "leave" /\ UNCHANGED <<overlap, record, artifacts, failures, stops>>
    BY <1>10 DEF Leave
  <2>2. Reply(c, IF calls[c].mine.status = "done" THEN "done" ELSE "error")
    BY <1>10 DEF Leave
  <2>3. \A d \in Clients \ {c} : calls[d].at \notin Inside
    BY <2>1
  <2>4. overlap' \in BOOLEAN /\ active' \in BOOLEAN
    BY <1>10 DEF Leave
  <2>5. CompressorTypeOK'
    BY <2>1, <2>2, <2>4 DEF Reply
  <2>6. DoneIsDurable' /\ Written' /\ Alone'
    BY <2>1, <2>2 DEF Reply
  <2>7. ActiveIsInside'
    BY <2>1, <2>2, <2>3 DEF Reply
  <2> QED
    BY <2>5, <2>6, <2>7
<1>11. CASE PortFails(c)
  BY <1>11, PortFailsCompressor
<1> QED
  BY <1>1, <1>2, <1>3, <1>4, <1>5, <1>6, <1>7, <1>8, <1>9, <1>10, <1>11 DEF ClientStep

LEMMA NextCompressor == CompressorInv /\ [CompressorNext]_compressorVars => CompressorInv'
<1> SUFFICES ASSUME CompressorInv, [CompressorNext]_compressorVars PROVE CompressorInv'
  OBVIOUS
<1> USE DEF CompressorInv, ArchiveSound, CompressorTypeOK, DoneIsDurable, ActiveIsInside,
            Durable, Written, Alone, Holding, Writing, Inside, Stages, Artifacts, Replies, Opt
<1>1. CASE Stop
  <2>1. /\ \A c \in Clients : calls'[c] = [at |-> "idle", mine |-> NULL, reply |-> "none"]
        /\ active' = FALSE /\ stops' \in 0..MaxStops
        /\ UNCHANGED <<overlap, record, artifacts, failures>>
    BY <1>1, CompressorAssumption DEF Stop
  <2>2. CompressorTypeOK'
    BY <1>1, <2>1 DEF Stop
  <2> QED
    BY <2>1, <2>2
<1>2. CASE UNCHANGED compressorVars
  BY <1>2 DEF compressorVars
<1> QED
  BY <1>1, <1>2, ClientCompressor DEF CompressorNext

\* The task record, the marker of the archive and an Ok of run, retry or recover
\* (compressor.rs) each mean that the diff, the overview and the archive are
\* there, and one call at most is inside, which is what the active set says.
THEOREM DoneArchivesAreDurable == CompressorSpec => []ArchiveSound
<1>1. CompressorInv => ArchiveSound
  BY DEF CompressorInv
<1> QED
  BY <1>1, InitCompressor, NextCompressor, PTL DEF CompressorSpec

\* Without overlapping calls enqueue finds the record and process returns at once:
\* a task that is done is not written again.
THEOREM DoneStaysDone == CompressorSpec => DoneIsFinal
<1>1. ASSUME CompressorInv, [CompressorNext]_compressorVars, ~overlap, record # NULL, record.status = "done"
      PROVE  record' = record
  <2> USE <1>1 DEF CompressorInv, Alone, Writing
  <2>1. ASSUME NEW c \in Clients, ClientStep(c) PROVE record' = record
    BY <2>1 DEF ClientStep, Lookup, SavePending, LoadRecord, Enter, StartAttempt, Extract, WriteArtifact,
                Finish, Leave, PortFails
  <2> QED
    BY <2>1 DEF CompressorNext, Call, Stop, compressorVars
<1>2. CompressorInv /\ [CompressorNext]_compressorVars
      => [~overlap /\ record # NULL /\ record.status = "done" => record' = record]_compressorVars
  BY <1>1
<1> QED
  BY <1>2, InitCompressor, NextCompressor, PTL DEF CompressorSpec, DoneIsFinal

=============================================================================
