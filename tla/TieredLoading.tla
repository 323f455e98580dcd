--------------------------- MODULE TieredLoading ----------------------------
(* What stands before a retrieval and how much of an entry it loads.  The    *)
(* two share no state.                                                       *)
EXTENDS Integers, Sequences, FiniteSets, Absent, FiniteSetsExt

(***************************************************************************)
(* The cache in front of a retrieval (tiered_cache.rs): a hot tier with a    *)
(* time to live that every read renews, a warm tier of predicted entries,    *)
(* and readers that put back what they read after an await.                  *)
(***************************************************************************)
CONSTANTS
  TierReaders,           \* tasks that read
  TierUris,              \* what is cached
  HotThreshold, WarmThreshold, WarmCapacity,
  HotTtl, LongHotTtl, WarmTtl, \* times to live: of a put, of a predicted hot and of a predicted warm entry
  Predictions,           \* sequences of a URI and a probability in percent
  MaxTierTime, MaxPuts, MaxForecasts, MaxAccesses \* bounds: clock, puts, rounds of predictions, accesses of an entry

VARIABLES
  tierTime,   \* the clock
  hot, warm,  \* entries by URI
  origin,     \* per URI the payload of the last put
  readers,    \* per reader: what it reads, the entry it holds and its answer
  settled,    \* URIs whose last put no read and no warm copy overlapped
  forecast    \* the last round of predictions: what it promoted, skipped and kept

tierVars == <<tierTime, hot, warm, origin, readers, settled, forecast>>

TierEntry(payload, ttl, accesses, probability) ==
  [payload |-> payload, inserted |-> tierTime, ttl |-> ttl, accesses |-> accesses, probability |-> probability]
With(tier, u, entry) == [v \in DOMAIN tier \cup {u} |-> IF v = u THEN entry ELSE tier[v]]
Without(tier, us) == [v \in DOMAIN tier \ us |-> tier[v]]
Alive(entry) == tierTime - entry.inserted < entry.ttl

IdleReader == [at |-> "idle", uri |-> NULL, entry |-> NULL]

\* A hot entry is put back with one access more, which renews its time to live.
GetHot(r) ==
  /\ readers[r].at = "idle"
  /\ \E u \in DOMAIN hot :
       /\ Alive(hot[u]) /\ hot[u].accesses < MaxAccesses
       /\ readers' = [readers EXCEPT ![r] = [at |-> "renew", uri |-> u, entry |-> [hot[u] EXCEPT !.accesses = @ + 1]]]
  /\ UNCHANGED <<tierTime, hot, warm, origin, settled, forecast>>

\* A warm entry stays where it is and is copied to the hot tier; one that has run out is dropped.
GetWarm(r) ==
  /\ readers[r].at = "idle"
  /\ \E u \in TierUris :
       /\ ~(u \in DOMAIN hot /\ Alive(hot[u])) /\ u \in DOMAIN warm /\ warm[u].accesses < MaxAccesses
       /\ IF Alive(warm[u])
          THEN /\ warm' = [warm EXCEPT ![u].accesses = @ + 1]
               /\ readers' = [readers EXCEPT ![r] = [at |-> "promote", uri |-> u, entry |-> warm[u]]]
          ELSE /\ warm' = Without(warm, {u})
               /\ UNCHANGED readers
  /\ UNCHANGED <<tierTime, hot, origin, settled, forecast>>

\* The insert comes after an await: a put in between is overwritten.
FinishGet(r) ==
  /\ readers[r].at \in {"renew", "promote"}
  /\ LET call == readers[r]
     IN hot' = With(hot, call.uri,
                    IF call.at = "renew" THEN [call.entry EXCEPT !.inserted = tierTime]
                    ELSE TierEntry(call.entry.payload, HotTtl, 1, call.entry.probability))
  /\ readers' = [readers EXCEPT ![r] = IdleReader]
  /\ UNCHANGED <<tierTime, warm, origin, settled, forecast>>

InFlight(u) == \E r \in TierReaders : readers[r].uri = u

Put(u) ==
  /\ origin[u] < MaxPuts
  /\ origin' = [origin EXCEPT ![u] = @ + 1]
  /\ hot' = With(hot, u, TierEntry(origin[u] + 1, HotTtl, 1, 100))
  /\ settled' = IF InFlight(u) \/ u \in DOMAIN warm THEN settled \ {u} ELSE settled \cup {u}
  /\ UNCHANGED <<tierTime, warm, readers, forecast>>

(***************************************************************************)
(* Predictions fill the tiers; the warm one is cut back to its capacity.   *)
(***************************************************************************)
\* A thousandth of 0.05 * ln(1 + accesses).
AccessBonus(accesses) == CASE accesses = 0 -> 0 [] accesses = 1 -> 35 [] accesses = 2 -> 55 [] OTHER -> 69
WarmScore(entry) == 10 * entry.probability + AccessBonus(entry.accesses)

\* The lowest score first, of equals the youngest.
EvictedBefore(tier, u, v) ==
  \/ WarmScore(tier[u]) < WarmScore(tier[v])
  \/ WarmScore(tier[u]) = WarmScore(tier[v]) /\ tier[u].inserted > tier[v].inserted
Surplus(tier) == IF Cardinality(DOMAIN tier) > WarmCapacity THEN Cardinality(DOMAIN tier) - WarmCapacity ELSE 0
Evictions(tier) ==
  {gone \in SUBSET DOMAIN tier :
     Cardinality(gone) = Surplus(tier) /\ \A u \in gone : \A v \in DOMAIN tier \ gone : ~EvictedBefore(tier, v, u)}

\* The first prediction of a URI counts.
ProbabilityOf(predicted, u) == predicted[CHOOSE k \in DOMAIN predicted : predicted[k].uri = u /\ \A j \in 1..(k - 1) : predicted[j].uri # u].probability
Predicted(predicted) == {predicted[k].uri : k \in DOMAIN predicted}

PromotePredictions ==
  /\ forecast.rounds < MaxForecasts
  /\ \E predicted \in Predictions :
       LET us == Predicted(predicted)
           likely == {u \in us : ProbabilityOf(predicted, u) >= HotThreshold}
           possible == {u \in us \ likely : ProbabilityOf(predicted, u) >= WarmThreshold}
           filled == [u \in DOMAIN warm \cup possible |-> IF u \in possible THEN TierEntry(origin[u], WarmTtl, 0, ProbabilityOf(predicted, u)) ELSE warm[u]]
       IN /\ settled' = settled \ us \* what was loaded may be older than the last put
          /\ hot' = [u \in DOMAIN hot \cup likely |-> IF u \in likely THEN TierEntry(origin[u], LongHotTtl, 1, ProbabilityOf(predicted, u)) ELSE hot[u]]
          /\ \E gone \in Evictions(filled) :
               /\ warm' = Without(filled, gone)
               /\ forecast' = [rounds |-> forecast.rounds + 1, asked |-> us, hotPromoted |-> likely, warmPromoted |-> possible,
                               skipped |-> us \ (likely \cup possible),
                               lost |-> {filled[u].probability : u \in gone}, kept |-> {filled[u].probability : u \in DOMAIN filled \ gone}]
  /\ UNCHANGED <<tierTime, origin, readers>>

Rebalance ==
  /\ LET live == Without(warm, {u \in DOMAIN warm : ~Alive(warm[u])})
     IN \E gone \in Evictions(live) : warm' = Without(live, gone)
  /\ hot' = Without(hot, {u \in DOMAIN hot : ~Alive(hot[u])})
  /\ UNCHANGED <<tierTime, origin, readers, settled, forecast>>

\* The hot tier drops what it likes when it is full.
EvictHot(u) ==
  /\ u \in DOMAIN hot
  /\ hot' = Without(hot, {u})
  /\ UNCHANGED <<tierTime, warm, origin, readers, settled, forecast>>

PassTime ==
  /\ tierTime < MaxTierTime /\ tierTime' = tierTime + 1
  /\ UNCHANGED <<hot, warm, origin, readers, settled, forecast>>

TierInit ==
  /\ tierTime = 0 /\ hot = << >> /\ warm = << >>
  /\ origin = [u \in TierUris |-> 0]
  /\ readers = [r \in TierReaders |-> IdleReader]
  /\ settled = {}
  /\ forecast = [rounds |-> 0, asked |-> {}, hotPromoted |-> {}, warmPromoted |-> {}, skipped |-> {}, lost |-> {}, kept |-> {}]

TierNext ==
  \/ \E r \in TierReaders : GetHot(r) \/ GetWarm(r) \/ FinishGet(r)
  \/ \E u \in TierUris : Put(u) \/ EvictHot(u)
  \/ PromotePredictions \/ Rebalance \/ PassTime

(***************************************************************************)
(* What must hold.                                                         *)
(***************************************************************************)
\* A put that no read overlapped and no warm copy preceded is served until it is gone.
PutsAreServed == \A u \in settled \cap DOMAIN hot : hot[u].payload = origin[u]

\* The warm tier keeps to its capacity, and loses nothing likelier than what it keeps but for the bonus of accesses.
WarmIsBest ==
  /\ Cardinality(DOMAIN warm) <= WarmCapacity
  /\ \A p \in forecast.lost, q \in forecast.kept : 10 * p <= 10 * q + AccessBonus(3)

\* Every loaded prediction is promoted once or skipped.
ForecastAccounts ==
  /\ forecast.asked = forecast.hotPromoted \cup forecast.warmPromoted \cup forecast.skipped
  /\ forecast.hotPromoted \cap (forecast.warmPromoted \cup forecast.skipped) = {} /\ forecast.warmPromoted \cap forecast.skipped = {}

TiersSound == PutsAreServed /\ WarmIsBest /\ ForecastAccounts

(***************************************************************************)
(* The choice of how much of an entry to load (loader.rs): by the budget     *)
(* that is left at first, by an online bandit once there is feedback.        *)
(* Rewards and scores are in thousandths.                                    *)
(***************************************************************************)
CONSTANTS
  LoadBudget,    \* tokens
  LoadFeedbacks, \* what the callers report: useful or not and the reward downstream, in thousandths
  MaxLoads       \* bound: entries loaded

VARIABLES
  arms,    \* per level: pulls, rewards and tokens
  spent    \* tokens consumed

loaderVars == <<arms, spent>>

EstimatedTokens == <<24, 120, 2000, 4000>>
LoadLevels == DOMAIN EstimatedTokens
NoPulls == [pulls |-> 0, reward |-> 0, tokens |-> 0]

Left == IF spent > LoadBudget THEN 0 ELSE LoadBudget - spent
LoadReward(feedback) == (IF feedback.useful THEN 700 ELSE 0) + ((300 * feedback.downstream) \div 1000)

RECURSIVE RootBetween(_, _, _)
RootBetween(x, low, high) ==
  IF low = high THEN low
  ELSE LET middle == (low + high + 1) \div 2
       IN IF middle * middle <= x THEN RootBetween(x, middle, high) ELSE RootBetween(x, low, middle - 1)
SquareRoot(x) == RootBetween(x, 0, 1500)
\* Thousandths of the natural logarithm.
LogOf == <<0, 693, 1099, 1386, 1609, 1792, 1946, 2079>>

TotalPulls == MapThenSumSet(LAMBDA level : arms[level].pulls, LoadLevels)
MeanReward(level) == arms[level].reward \div arms[level].pulls
MeanCost(level) == arms[level].tokens \div arms[level].pulls

Confined(x, low, high) == IF x < low THEN low ELSE IF x > high THEN high ELSE x
BudgetPressure(level, left) == Confined((150 * EstimatedTokens[level]) \div (IF left = 0 THEN 1 ELSE left), 0, 400)

\* Exploitation is the mean reward over the root of the mean cost.
UcbScore(level, left) ==
  IF arms[level].pulls = 0 THEN 122 - BudgetPressure(level, left)
  ELSE ((10 * MeanReward(level)) \div SquareRoot(100 * MeanCost(level)))
       + ((85 * SquareRoot((1000 * LogOf[TotalPulls]) \div arms[level].pulls)) \div 100)
       - BudgetPressure(level, left)

ThresholdFallback(left) == Max({1} \cup {level \in LoadLevels : left >= EstimatedTokens[level]})

Feasible(left) == {level \in LoadLevels : EstimatedTokens[level] <= left}

\* Too little feedback falls back to the budget; of equal scores the last level wins.
Choose(left) ==
  IF Feasible(left) = {} THEN 1
  ELSE IF TotalPulls < 4 THEN ThresholdFallback(left)
  ELSE LET score == [level \in Feasible(left) |-> UcbScore(level, left)]
       IN Max({level \in Feasible(left) : \A other \in Feasible(left) : score[other] <= score[level]})

\* An entry is loaded, its tokens are consumed and its use is reported.
LoadEntry ==
  /\ TotalPulls < MaxLoads
  /\ LET level == Choose(Left)
     IN \E feedback \in LoadFeedbacks :
          /\ arms' = [arms EXCEPT ![level] = [pulls |-> @.pulls + 1, reward |-> @.reward + LoadReward(feedback), tokens |-> @.tokens + EstimatedTokens[level]]]
          /\ spent' = spent + EstimatedTokens[level]

\* A new loader takes the policy over.
NewLoader ==
  /\ spent > 0 /\ spent' = 0
  /\ UNCHANGED arms

LoaderInit ==
  /\ arms = [level \in LoadLevels |-> NoPulls] /\ spent = 0

LoaderNext == LoadEntry \/ NewLoader

(***************************************************************************)
(* What must hold.                                                         *)
(***************************************************************************)
Budgets == {0} \cup {EstimatedTokens[level] + n : level \in LoadLevels, n \in {-1, 0}}

\* What is loaded fits what is left; only the index is loaded beyond it.
BudgetKept ==
  /\ \A left \in Budgets : Choose(left) = 1 \/ EstimatedTokens[Choose(left)] <= left
  /\ spent <= LoadBudget + MaxLoads * EstimatedTokens[1]

\* Once there is feedback no level is chosen over one that was tried as seldom, costs less and was worth more.
NeverWorse ==
  TotalPulls >= 4 =>
    \A left \in Budgets : \A level \in 1..(Choose(left) - 1) :
      arms[level].pulls = arms[Choose(left)].pulls => arms[level].reward <= arms[Choose(left)].reward

LoaderSound == BudgetKept /\ NeverWorse
=============================================================================
