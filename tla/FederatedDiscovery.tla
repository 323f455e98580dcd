------------------------- MODULE FederatedDiscovery -------------------------
(* Discovery over the knowledge network (fabric.rs): concurrent calls of one *)
(* agent reserve privacy budget in the ledger of a window (privacy.rs), find *)
(* and plan peers, probe and fetch from them under a deadline, and commit    *)
(* the charge or give it back.  A call may be dropped at every await.        *)
(*                                                                          *)
(* Peers are numbers in the order of their route scores: what the outcomes  *)
(* teach changes that order and nothing else.  A charge is a vector over    *)
(* the orders of Renyi differential privacy, in units of one noisy answer.  *)
EXTENDS Integers, Sequences, FiniteSets, Absent

CONSTANTS
  Seekers,           \* calls under way at once
  CandidateSets,     \* bound: what the capability index finds
  UntrustedPeers,    \* peers below the router's reputation or bond
  MinAnonymity, PrivacyEnabled, RdpOrders, LogDelta, MaxEpsilon, BudgetWindow, \* privacy policy and ledger
  QuotaWindow, MaxQueries, MaxConcurrent, MaxFetchPeers, MinQueryQuality,      \* governance policy
  Grants,            \* access grants: domains, an epsilon and the time they end
  DiscoveryRequests, \* bound: queries and options that are asked
  MaxDiscoveries, MaxDiscoveryTime \* bounds: calls, time

VARIABLES
  ledger,      \* the agent's window: start, spent per order, reserved and committed receipts
  quota,       \* the agent's quota: start, accepted, in flight
  discoveries, \* per seeker: where it is and what it knows
  lateRefunds, \* receipts of dropped guards, whose refund is a task of its own
  issued,      \* receipts issued
  refunded,    \* receipts given back
  clock        \* time

discoveryVars == <<ledger, quota, discoveries, lateRefunds, issued, refunded, clock>>

(***************************************************************************)
(* The ledger.  Every query of a guard has the same cost: its policy is     *)
(* never changed.                                                          *)
(***************************************************************************)
QueryCost == [alpha \in RdpOrders |-> IF PrivacyEnabled THEN alpha + 1 ELSE 0]
NoCharge == [alpha \in RdpOrders |-> 0]
AddCharge(left, right) == [alpha \in RdpOrders |-> left[alpha] + right[alpha]]
SubCharge(left, right) == [alpha \in RdpOrders |-> IF left[alpha] > right[alpha] THEN left[alpha] - right[alpha] ELSE 0]

\* epsilon at the ledger's delta: the best bound over the orders.
WithinEpsilon(charge, max) == \E alpha \in RdpOrders : charge[alpha] + (LogDelta \div (alpha - 1)) <= max

NewWindow == [started |-> clock, spent |-> NoCharge, reserved |-> {}, committed |-> {}]
WindowNow == IF ledger = NULL \/ clock - ledger.started > BudgetWindow THEN NewWindow ELSE ledger

\* A committed charge stays; one that is not reserved, in this window, is none.
Refund(r) ==
  IF ledger # NULL /\ r \in ledger.reserved \ ledger.committed
  THEN ledger' = [ledger EXCEPT !.spent = SubCharge(@, QueryCost), !.reserved = @ \ {r}]
  ELSE UNCHANGED ledger

\* A receipt is issued when what would be spent then stays within the window's epsilon.
Affordable == WithinEpsilon(AddCharge(WindowNow.spent, QueryCost), MaxEpsilon)
IssueReceipt ==
  /\ issued' = issued + 1
  /\ ledger' = [WindowNow EXCEPT !.spent = AddCharge(@, QueryCost), !.reserved = @ \cup {issued + 1}]

(***************************************************************************)
(* What a call asks: its options are checked, tuned to its intent and       *)
(* checked again.                                                          *)
(***************************************************************************)
ValidOpts(o) ==
  /\ o.peers > 0 /\ o.probe \in 1..o.peers /\ o.fetch \in 1..o.peers
  /\ o.concurrency \in 1..o.peers

Classify(q, requested) ==
  IF requested \in {"private", "training", "corroboration", "synthesis"} THEN requested
  ELSE IF q.free /\ Cardinality(q.domains) <= 1 /\ q.quality >= 90 THEN "private"
  ELSE IF Cardinality(q.domains) >= 3 THEN "synthesis"
  ELSE IF q.quality >= 82 THEN "precise"
  ELSE requested

Raise(a, b) == IF a < b THEN b ELSE a

\* Only the wide intents raise the peers that probes and fetches are taken from.
TuneOpts(o, intent) ==
  CASE intent = "fast" -> [o EXCEPT !.probe = Raise(@, 3), !.fetch = Raise(@, 2)]
    [] intent \in {"precise", "private"} -> [o EXCEPT !.probe = Raise(@, 5), !.fetch = Raise(@, 3)]
    [] intent \in {"recall", "synthesis"} -> [o EXCEPT !.peers = Raise(@, 24), !.probe = Raise(@, 12), !.fetch = Raise(@, 8)]
    [] OTHER -> [o EXCEPT !.peers = Raise(@, 16), !.probe = Raise(@, 8), !.fetch = Raise(@, 5)]

AuthorizeQuery(q, intent) ==
  /\ q.quality >= MinQueryQuality /\ q.free
  /\ intent = "private" => MinAnonymity >= 2

AuthorizeGrant(q) ==
  q.domains # {} /\ \E g \in Grants : q.domains \subseteq g.domains /\ q.epsilon <= g.epsilon /\ g.ends > clock

(***************************************************************************)
(* A call.                                                                 *)
(***************************************************************************)
Resting == [at |-> "idle", receipt |-> 0, outcome |-> "none", opts |-> NULL, candidates |-> {},
            together |-> 0, waiting |-> {}, fetch |-> {}, responsive |-> {}, total |-> 0, counted |-> 0]
Running(c) == discoveries[c].at # "idle"
At(c, stage) == discoveries[c].at = stage
Lowest(n, set) == {p \in set : Cardinality({q \in set : q < p}) < n}

QuotaNow == IF quota = NULL \/ clock - quota.started >= QuotaWindow
            THEN [started |-> clock, accepted |-> 0, inFlight |-> IF quota = NULL THEN 0 ELSE quota.inFlight]
            ELSE quota

\* Dropping the permit.
ReleasePermit == quota' = [quota EXCEPT !.inFlight = IF @ > 0 THEN @ - 1 ELSE 0]

EndsCall(c, outcome) ==
  /\ discoveries' = [discoveries EXCEPT ![c] = [Resting EXCEPT !.outcome = outcome, !.receipt = discoveries[c].receipt]]
  /\ ReleasePermit

\* A call that is refused after it has its permit has used one of the accepted queries.
StartDiscovery(c) ==
  /\ ~Running(c) /\ issued < MaxDiscoveries
  /\ \E r \in DiscoveryRequests :
       LET intent == Classify(r.query, r.intent)
           tuned == TuneOpts(r.opts, intent)
           admitted == ValidOpts(r.opts) /\ QuotaNow.accepted < MaxQueries /\ QuotaNow.inFlight < MaxConcurrent
           allowed == ValidOpts(tuned) /\ AuthorizeQuery(r.query, intent) /\ AuthorizeGrant(r.query)
       IN IF ~admitted
          THEN UNCHANGED discoveries /\ quota' = (IF ValidOpts(r.opts) THEN QuotaNow ELSE quota)
          ELSE IF ~allowed
          THEN UNCHANGED discoveries /\ quota' = [QuotaNow EXCEPT !.accepted = @ + 1]
          ELSE /\ quota' = [QuotaNow EXCEPT !.accepted = @ + 1, !.inFlight = @ + 1]
               /\ discoveries' = [discoveries EXCEPT ![c] = [Resting EXCEPT !.at = "reserve", !.opts = tuned]]
  /\ UNCHANGED <<ledger, lateRefunds, issued, refunded, clock>>

\* protect_query: the sketch is made once the cost is reserved.
Reserve(c) ==
  /\ At(c, "reserve") /\ issued < MaxDiscoveries
  /\ IF Affordable
     THEN /\ IssueReceipt
          /\ discoveries' = [discoveries EXCEPT ![c].at = "find", ![c].receipt = issued + 1]
          /\ UNCHANGED quota
     ELSE ledger' = WindowNow /\ UNCHANGED issued /\ EndsCall(c, "refused")
  /\ UNCHANGED <<lateRefunds, refunded, clock>>

\* refund and refund_after_error.
GivesBack(c, outcome) ==
  /\ Refund(discoveries[c].receipt)
  /\ refunded' = refunded \cup {discoveries[c].receipt}
  /\ EndsCall(c, outcome)
  /\ UNCHANGED <<lateRefunds, issued, clock>>

Proceeds(c, d) ==
  discoveries' = [discoveries EXCEPT ![c] = d] /\ UNCHANGED <<ledger, quota, lateRefunds, issued, refunded, clock>>

\* An error or the deadline while the index, the planner or the store is awaited.
Fail(c) == discoveries[c].at \in {"find", "plan", "persist"} /\ GivesBack(c, "failed")

HasAnonymity(n) == ~PrivacyEnabled \/ n >= Raise(MinAnonymity, 1)

FindCandidates(c) ==
  /\ At(c, "find")
  /\ \E found \in CandidateSets :
       LET candidates == Lowest(discoveries[c].opts.peers, found)
       IN IF HasAnonymity(Cardinality(candidates))
          THEN Proceeds(c, [discoveries[c] EXCEPT !.at = "plan", !.candidates = candidates])
          ELSE GivesBack(c, "empty")

Routed(c) ==
  Lowest(Raise(discoveries[c].opts.probe, discoveries[c].opts.fetch), discoveries[c].candidates \ UntrustedPeers)
ProbePeers(c) == Lowest(discoveries[c].opts.probe, Routed(c))
FetchPeers(c) == Lowest(discoveries[c].opts.fetch, Routed(c))

AuthorizePlan(c) == Cardinality(FetchPeers(c)) <= MaxFetchPeers

MakePlan(c) ==
  /\ At(c, "plan")
  /\ IF AuthorizePlan(c)
     THEN Proceeds(c, [Resting EXCEPT !.at = "probe", !.receipt = discoveries[c].receipt, !.together = discoveries[c].opts.concurrency,
                    !.waiting = ProbePeers(c), !.fetch = FetchPeers(c), !.total = Cardinality(ProbePeers(c))])
     ELSE GivesBack(c, "failed")

\* At most so many of a round are under way.
UnderWay(c) == Lowest(discoveries[c].together, discoveries[c].waiting)

\* A peer answers with matches, or it answers with none, fails or takes longer than a peer may: each is counted.
PeerAnswers(d, p, matches) ==
  [d EXCEPT !.waiting = @ \ {p},
            !.responsive = IF matches THEN @ \cup {p} ELSE @, !.counted = @ + 1]

\* The round ends with the deadline: the rest is dropped.
CancelWaiting(d) == [d EXCEPT !.waiting = {}, !.counted = @ + Cardinality(d.waiting)]

CompleteProbe(c) ==
  /\ At(c, "probe") /\ discoveries[c].waiting # {}
  /\ \E p \in UnderWay(c), matches \in BOOLEAN, deadline \in BOOLEAN :
       LET d == PeerAnswers(discoveries[c], p, matches)
       IN Proceeds(c, IF deadline THEN CancelWaiting(d) ELSE d)

\* Without a peer that has matches the charge goes back, though probes have left.
EndProbes(c) ==
  /\ At(c, "probe") /\ discoveries[c].waiting = {}
  /\ IF discoveries[c].responsive = {}
     THEN GivesBack(c, "empty")
     ELSE LET fetch == discoveries[c].fetch \cap discoveries[c].responsive
          IN Proceeds(c, [discoveries[c] EXCEPT !.at = "fetch", !.responsive = {}, !.fetch = {}, !.waiting = fetch, !.total = @ + Cardinality(fetch)])

CompleteFetch(c) ==
  /\ At(c, "fetch") /\ discoveries[c].waiting # {}
  /\ \E p \in UnderWay(c), deadline \in BOOLEAN :
       LET d == PeerAnswers(discoveries[c], p, FALSE)
       IN Proceeds(c, IF deadline THEN CancelWaiting(d) ELSE d)

\* Hits are merged and filtered.
EndFetches(c) ==
  /\ At(c, "fetch") /\ discoveries[c].waiting = {}
  /\ Proceeds(c, [Resting EXCEPT !.at = "persist", !.receipt = discoveries[c].receipt])

\* What was learned and the receipt are stored, then the charge is made final.
\* A window that has passed holds the receipt no more: the error drops the guard.
Commit(c) ==
  LET r == discoveries[c].receipt
  IN /\ At(c, "persist")
     /\ IF r \in ledger.reserved
        THEN ledger' = [ledger EXCEPT !.committed = @ \cup {r}] /\ UNCHANGED lateRefunds /\ EndsCall(c, "answered")
        ELSE UNCHANGED ledger /\ lateRefunds' = lateRefunds \cup {r} /\ EndsCall(c, "failed")
     /\ UNCHANGED <<issued, refunded, clock>>

\* The caller drops the call: permit and guard are dropped with it.
DropCall(c) ==
  /\ discoveries[c].at \in {"find", "plan", "probe", "fetch", "persist"}
  /\ lateRefunds' = lateRefunds \cup {discoveries[c].receipt}
  /\ EndsCall(c, "dropped")
  /\ UNCHANGED <<ledger, issued, refunded, clock>>

RefundDropped(r) ==
  /\ r \in lateRefunds
  /\ lateRefunds' = lateRefunds \ {r} /\ Refund(r) /\ refunded' = refunded \cup {r}
  /\ UNCHANGED <<quota, discoveries, issued, clock>>

DiscoveryTick == clock < MaxDiscoveryTime /\ clock' = clock + 1 /\ UNCHANGED <<ledger, quota, discoveries, lateRefunds, issued, refunded>>

DiscoveryInit ==
  /\ ledger = NULL /\ quota = NULL /\ discoveries = [c \in Seekers |-> Resting]
  /\ lateRefunds = {} /\ issued = 0 /\ refunded = {} /\ clock = 0

DiscoveryNext ==
  \/ \E c \in Seekers :
       StartDiscovery(c) \/ Reserve(c) \/ Fail(c) \/ FindCandidates(c) \/ MakePlan(c) \/ CompleteProbe(c) \/ EndProbes(c)
       \/ CompleteFetch(c) \/ EndFetches(c) \/ Commit(c) \/ DropCall(c)
  \/ \E r \in lateRefunds : RefundDropped(r)
  \/ DiscoveryTick

(***************************************************************************)
(* What must hold.                                                         *)
(***************************************************************************)
\* What the window has spent is the cost of its receipts, and no more than it may.
LedgerBalanced ==
  ledger # NULL =>
    /\ \A alpha \in RdpOrders : ledger.spent[alpha] = QueryCost[alpha] * Cardinality(ledger.reserved)
    /\ ledger.reserved # {} => WithinEpsilon(ledger.spent, MaxEpsilon)

\* A charge of the window is final, or its call or its refund is under way.
NoChargeLost ==
  ledger # NULL =>
    ledger.reserved \ ledger.committed \subseteq {discoveries[c].receipt : c \in {s \in Seekers : Running(s)}} \cup lateRefunds

\* Only an answer is charged, and a charge that was given back is not.
OnlyAnswersCharged ==
  ledger # NULL =>
    /\ ledger.committed \cap (refunded \cup lateRefunds) = {}
    /\ \A c \in Seekers : discoveries[c].receipt \in ledger.committed => discoveries[c].outcome = "answered"

\* The quota knows the calls under way.
PermitsReturned == quota # NULL => quota.inFlight = Cardinality({c \in Seekers : Running(c)})

\* A peer that was asked has answered, failed, been late or been cancelled.
PeersCounted == \A c \in Seekers : discoveries[c].counted + Cardinality(discoveries[c].waiting) = discoveries[c].total

DiscoverySound == LedgerBalanced /\ NoChargeLost /\ OnlyAnswersCharged /\ PermitsReturned /\ PeersCounted
=============================================================================
