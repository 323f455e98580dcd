----------------------------- MODULE NatsIngest -----------------------------
(* The event system over NATS (context-db-nats): envelopes are published     *)
(* with their time and channel; the ingestor takes each fresh one once,      *)
(* however often and late the network delivers it, and reconnects with       *)
(* growing delays.  The bounded load harness stands beside it.               *)
EXTENDS Integers, Sequences, FiniteSets, SequencesExt, Absent

LOCAL INSTANCE TLC

CONSTANTS
  EnvelopeIds,      \* envelopes that may be published
  MaxAge,           \* an older envelope is refused
  MaxSkew,          \* an envelope from further ahead is refused
  ReplayCapacity,   \* identities the replay cache holds
  NatsRoutes,       \* a sequence of routes: a prefix of the type and a channel
  EventTypes,       \* types of the envelopes
  ReconnectInitial, ReconnectMax,
  LoadOperations, LoadConcurrency,
  MaxNatsTime,      \* bound: clock
  MaxLosses         \* bound: lost connections and failed attempts

VARIABLES
  natsTime,   \* the receiver's clock
  wire,       \* published envelopes: the network may deliver each again and again
  seen,       \* replay cache: time by identity
  ingested,   \* envelopes handed to the mesh, in order
  ingestor,   \* where the task is, its attempt, generation and history
  health,     \* the last report
  load        \* the harness: the next operation, the running ones and the records

natsVars == <<natsTime, wire, seen, ingested, ingestor, health, load>>

IdOf(route) == Len(route.prefix)
\* Longer prefixes first; routes of one length keep their order.
NormalizedRoutes == SortSeq(NatsRoutes, LAMBDA r, s : IdOf(r) > IdOf(s))
RouteChannel(type) ==
  LET fits == {k \in DOMAIN NormalizedRoutes : IsPrefix(NormalizedRoutes[k].prefix, type)}
  IN IF fits = {} THEN "consolidation" ELSE NormalizedRoutes[CHOOSE k \in fits : \A j \in fits : k <= j].channel

\* The sender's clock may differ from the receiver's.
Publish(id) ==
  /\ \A e \in wire : e.id # id
  /\ \E type \in EventTypes, ahead \in {0, MaxSkew, MaxSkew + 1} :
       wire' = wire \cup {[id |-> id, type |-> type, channel |-> RouteChannel(type), at |-> natsTime + ahead]}
  /\ UNCHANGED <<natsTime, seen, ingested, ingestor, health, load>>

Fresh(e) == natsTime - e.at <= MaxAge /\ natsTime - e.at >= -MaxSkew

\* Fault: an identity forgotten while its envelope is still fresh.
RetentionOfAge == MaxAge

Retention == MaxAge + MaxSkew

\* Forget what is past the retention, then refuse a repeat and a full cache.
StillSeen == {id \in DOMAIN seen : natsTime - seen[id] <= Retention}
Remembered(id) ==
  LET kept == StillSeen
  IN [accepted |-> id \notin kept /\ Cardinality(kept) < ReplayCapacity,
      cache |-> [i \in IF id \notin kept /\ Cardinality(kept) < ReplayCapacity THEN kept \cup {id} ELSE kept |->
                  IF i \in kept THEN seen[i] ELSE natsTime]]

Receive(e) ==
  /\ ingestor.at = "receiving" /\ e \in wire
  /\ IF Fresh(e)
     THEN /\ seen' = Remembered(e.id).cache
          /\ \E meshFails \in BOOLEAN :
               ingested' = IF Remembered(e.id).accepted /\ ~meshFails THEN Append(ingested, e.id) ELSE ingested
     ELSE UNCHANGED <<seen, ingested>>
  /\ UNCHANGED <<natsTime, wire, ingestor, health, load>>

Power2[n \in Nat] == IF n = 0 THEN 1 ELSE 2 * Power2[n - 1]
ReconnectDelay(attempt) ==
  LET delay == ReconnectInitial * Power2[IF attempt = 0 THEN 0 ELSE attempt - 1] IN IF delay < ReconnectMax THEN delay ELSE ReconnectMax

Connecting ==
  /\ ingestor.at = "start"
  /\ ingestor' = [ingestor EXCEPT !.at = "connecting"]
  /\ health' = [state |-> "connecting", attempt |-> ingestor.attempt]
  /\ UNCHANGED <<natsTime, wire, seen, ingested, load>>

\* The connection is up; its report follows without an await in between.
Connected ==
  /\ ingestor.at = "connecting"
  /\ ingestor' = [ingestor EXCEPT !.at = "up", !.attempt = 0, !.generation = @ + 1]
  /\ UNCHANGED <<natsTime, wire, seen, ingested, health, load>>

\* RestartDetected is reported and replaced by Reconnected at once.
ReportUp ==
  /\ ingestor.at = "up"
  /\ health' = IF ingestor.wasHealthy THEN [state |-> "reconnected", generation |-> ingestor.generation] ELSE [state |-> "healthy"]
  /\ ingestor' = [ingestor EXCEPT !.at = "receiving", !.wasHealthy = TRUE]
  /\ UNCHANGED <<natsTime, wire, seen, ingested, load>>

\* An attempt fails or a connection ends.
LoseConnection ==
  /\ ingestor.at \in {"connecting", "receiving"} /\ ingestor.losses < MaxLosses
  /\ ingestor' = [ingestor EXCEPT !.at = "down", !.attempt = @ + 1, !.losses = @ + 1]
  /\ UNCHANGED <<natsTime, wire, seen, ingested, health, load>>

ReportDown ==
  /\ ingestor.at = "down"
  /\ health' = [state |-> "degraded", retry |-> ReconnectDelay(ingestor.attempt)]
  /\ ingestor' = [ingestor EXCEPT !.at = "sleeping"]
  /\ UNCHANGED <<natsTime, wire, seen, ingested, load>>

Wake ==
  /\ ingestor.at = "sleeping"
  /\ ingestor' = [ingestor EXCEPT !.at = "start"]
  /\ UNCHANGED <<natsTime, wire, seen, ingested, health, load>>

\* The abort takes effect at the task's next await: a report that is due still comes.
Shutdown ==
  /\ ingestor.at # "ended" /\ ~ingestor.aborted
  /\ ingestor' = [ingestor EXCEPT !.aborted = TRUE, !.at = IF @ \in {"up", "down"} THEN @ ELSE "ended"]
  /\ health' = [state |-> "stopped"]
  /\ UNCHANGED <<natsTime, wire, seen, ingested, load>>

EndIngestor ==
  /\ ingestor.aborted /\ ingestor.at \in {"receiving", "sleeping"}
  /\ ingestor' = [ingestor EXCEPT !.at = "ended"]
  /\ UNCHANGED <<natsTime, wire, seen, ingested, health, load>>

Tick ==
  /\ natsTime < MaxNatsTime /\ natsTime' = natsTime + 1
  /\ UNCHANGED <<wire, seen, ingested, ingestor, health, load>>

(***************************************************************************)
(* The load harness: operations run at most so many at a time, and each    *)
(* ends in one record.                                                     *)
(***************************************************************************)
StartOperation ==
  /\ load.next <= LoadOperations /\ Cardinality(load.running) < LoadConcurrency
  /\ load' = [load EXCEPT !.running = @ \cup {load.next}, !.next = @ + 1]
  /\ UNCHANGED <<natsTime, wire, seen, ingested, ingestor, health>>

EndOperation ==
  /\ \E n \in load.running, outcome \in {"success", "failure", "timeout"} :
       load' = [load EXCEPT !.running = @ \ {n}, !.records = Append(@, [sequence |-> n, outcome |-> outcome])]
  /\ UNCHANGED <<natsTime, wire, seen, ingested, ingestor, health>>

Loading == load.next <= LoadOperations \/ load.running # {}

NatsInit ==
  /\ natsTime = 0 /\ wire = {} /\ seen = << >> /\ ingested = << >>
  /\ ingestor = [at |-> "start", attempt |-> 0, generation |-> 0, wasHealthy |-> FALSE, aborted |-> FALSE, losses |-> 0]
  /\ health = [state |-> "connecting", attempt |-> 0]
  /\ load = [next |-> 1, running |-> {}, records |-> << >>]

\* The connection, the envelopes and the harness share no state but the ingestor's place:
\* the envelopes come once connected, with no more losses than one, the harness while nothing else runs.
NatsNext ==
  \/ wire = {} /\ load.next = 1 /\ (Connecting \/ Connected \/ ReportUp \/ LoseConnection \/ ReportDown \/ Wake \/ Shutdown \/ EndIngestor)
  \/ ~ingestor.aborted /\ ingestor.at = "receiving" /\ ingestor.losses <= 1 /\ load.next = 1
     /\ ((\E id \in EnvelopeIds : Publish(id)) \/ (\E e \in wire : Receive(e)) \/ Tick)
  \/ ingestor.at = "start" /\ ingestor.losses = 0 /\ (StartOperation \/ EndOperation)

(***************************************************************************)
(* What must hold.                                                         *)
(***************************************************************************)
\* However often an envelope arrives and whatever the clocks say, the mesh sees it once.
IngestedOnce == \A j, k \in DOMAIN ingested : ingested[j] = ingested[k] => j = k

\* An envelope goes to the channel of the longest prefix that fits.
ChannelsFit ==
  \A e \in wire, r \in {NatsRoutes[k] : k \in DOMAIN NatsRoutes} :
    IsPrefix(r.prefix, e.type) =>
      \E s \in {NatsRoutes[k] : k \in DOMAIN NatsRoutes} : s.channel = e.channel /\ IsPrefix(s.prefix, e.type) /\ Len(s.prefix) >= Len(r.prefix)

\* Until it is stopped, the report says what the ingestor does; delays grow with the attempts up to the limit.
HealthTells ==
  ~ingestor.aborted =>
    /\ ingestor.at = "receiving" => health.state = IF ingestor.generation = 1 THEN "healthy" ELSE "reconnected"
    /\ health.state = "reconnected" => health.generation <= ingestor.generation /\ health.generation > 1
    /\ ingestor.at = "sleeping" => health.state = "degraded" /\ health.retry \in ReconnectInitial..ReconnectMax

\* Every operation of the load is recorded once, and no more run at a time than allowed.
LoadRecorded ==
  /\ \A j, k \in DOMAIN load.records : load.records[j].sequence = load.records[k].sequence => j = k
  /\ Cardinality(load.running) <= LoadConcurrency
  /\ ~Loading => Len(load.records) = LoadOperations

NatsSound == IngestedOnce /\ ChannelsFit /\ HealthTells /\ LoadRecorded
=============================================================================
