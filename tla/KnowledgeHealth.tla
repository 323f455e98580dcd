--------------------------- MODULE KnowledgeHealth ---------------------------
(* How good a memory is and what is done about it (quality.rs, health.rs):   *)
(* the scorer and its routes, the planner of open questions, and the checks  *)
(* that run one after the other in a sleep cycle: health, consistency,       *)
(* active learning, drift and curiosity.  Numbers are hundredths.            *)
EXTENDS Integers, FiniteSets, Sequences, SequencesExt, Absent

LOCAL INSTANCE TLC

CONSTANTS
  ScoreQuestions, \* a horizon, a prior and the signals of one reassessment
  HealthClaims,   \* the memories of a cycle, numbered by the order of the scan
  Supports,       \* pairs <<a, b>>: a cites b as evidence
  Disputes,       \* pairs <<a, b>>, a < b, whose texts contradict, with their overlap
  DriftSamples,        \* of eight embeddings, how many are positive
  MaxCycles       \* bound: cycles of maintenance

VARIABLES
  asked,   \* the reassessment asked for, or NULL
  claims,  \* quality, invalidated_by and tags of each memory
  stage,   \* the check that runs next; a score and the drift checks have behaviours of their own
  cycles,  \* cycles begun
  drift    \* the entries that hold a baseline, and the last report

healthVars == <<asked, claims, stage, cycles, drift>>

ClampTo(n, low, high) == IF n < low THEN low ELSE IF n > high THEN high ELSE n
Unit(n) == ClampTo(n, 0, 100)
Lesser(n, m) == IF n < m THEN n ELSE m
Flag(b, n) == IF b THEN n ELSE 0

(***************************************************************************)
(* Beliefs.                                                                *)
(***************************************************************************)
AllDimensions ==
  <<"intrinsic", "relevance", "utility", "factuality", "consistency", "freshness", "stability", "evidence", "trainability">>
Dimensions == {AllDimensions[k] : k \in DOMAIN AllDimensions}

PriorMass == 4
FromMean(mean) == [alpha |-> IF mean = 0 THEN 1 ELSE mean * PriorMass, beta |-> IF mean = 100 THEN 1 ELSE (100 - mean) * PriorMass]
\* mass is reliability times weight.
Updated(b, observation, mass) ==
  LET m == ClampTo(mass, 0, 800)
  IN [alpha |-> b.alpha + ((observation * m) \div 100), beta |-> b.beta + (((100 - observation) * m) \div 100)]
Mean(b) == (100 * b.alpha) \div (b.alpha + b.beta)
\* One over the root of the mass.
Doubt(b) == CHOOSE u \in 0..100 :
  /\ u = 100 \/ (u + 1) * (u + 1) * (b.alpha + b.beta) > 1000000
  /\ u * u * (b.alpha + b.beta) <= 1000000

MassOf(d) ==
  CASE d = "intrinsic" -> 180 [] d = "freshness" -> 128 [] d = "relevance" -> 120 [] d = "utility" -> 144
    [] d = "factuality" -> 170 [] d = "consistency" -> 198 [] d = "stability" -> 120 [] d = "evidence" -> 153
    [] d = "trainability" -> 105

(***************************************************************************)
(* The signals, read as observations.                                      *)
(***************************************************************************)
HalfLife(horizon) == CASE horizon = "short" -> 1 [] horizon = "mid" -> 28 [] horizon = "long" -> 180

\* exp(-x) by its series; age and half life are in half days.
Freshness(q) ==
  LET x == Lesser((100 * q.age) \div HalfLife(q.horizon), 1000)
  IN ClampTo(10000 \div (100 + x + ((x * x) \div 200) + ((x * x * x) \div 60000)), 2, 100)

RelevanceOf(q) ==
  LET base == CASE q.horizon = "short" -> 75 [] q.horizon = "mid" -> 55 [] q.horizon = "long" -> 45
  IN Unit(base + ((q.adopted * 25 - q.ignored * 25) \div 100))

\* Recall and success follow adoption, and nothing is gained.
Utility(q) == Unit((q.adopted * 35 + q.adopted * 20 + q.adopted * 30 - q.ignored * 20) \div 100)

Factuality(q) == Unit(65 + Flag(q.confirmed, 20) - Flag(q.corrected, 45) - Lesser(q.contradictions * 18, 55))

Consistency(q) == Unit(100 - Lesser(q.contradictions * 22, 75) + Lesser(q.support, 4) * 4)

Stability(q) ==
  LET base == CASE q.horizon = "short" -> 25 [] q.horizon = "mid" -> 45 [] q.horizon = "long" -> 70
  IN (base + ((Lesser(q.repeated, 6) * 100) \div 6)) \div 2

Evidence(q) == Unit(35 + Lesser(q.support, 5) * 7 + Flag(q.confirmed, 35) - Flag(q.corrected, 45))

Trainability(q) ==
  IF q.horizon = "short" THEN 0
  ELSE Unit(((Factuality(q) * 35 + Consistency(q) * 30 + Utility(q) * 20) \div 100)
            + Flag(q.horizon = "long", 15) - Flag(q.corrected, 45))

ObservedSignals(q) ==
  [d \in Dimensions |->
    CASE d = "intrinsic" -> 84 [] d = "freshness" -> Freshness(q) [] d = "relevance" -> RelevanceOf(q) [] d = "utility" -> Utility(q)
      [] d = "factuality" -> Factuality(q) [] d = "consistency" -> Consistency(q) [] d = "stability" -> Stability(q)
      [] d = "evidence" -> Evidence(q) [] d = "trainability" -> Trainability(q)]

Posterior(q) == LET seen == ObservedSignals(q) IN [d \in Dimensions |-> Updated(FromMean(q.prior), seen[d], MassOf(d))]

(***************************************************************************)
(* The verdict: quality, promotion, decay, contamination, route.           *)
(***************************************************************************)
Weighted(mean, weights) == FoldFunction(LAMBDA n, sum : n + sum, 0, [d \in DOMAIN weights |-> mean[d] * weights[d]]) \div 100

OverallWeights(horizon) ==
  CASE horizon = "short" -> [relevance |-> 30, freshness |-> 25, utility |-> 20, intrinsic |-> 10, consistency |-> 10, evidence |-> 5]
    [] horizon = "mid" -> [stability |-> 25, utility |-> 20, consistency |-> 15, evidence |-> 15, factuality |-> 15, freshness |-> 10]
    [] horizon = "long" ->
         [factuality |-> 25, evidence |-> 20, stability |-> 20, consistency |-> 15, utility |-> 10, freshness |-> 5, trainability |-> 5]

MaxDelta == 15
ClampedDelta(prior, raw) == Unit(prior + ClampTo(raw - prior, -MaxDelta, MaxDelta))

\* The uncertainty read here is still the prior's, one half.
ContaminationRisk(q, mean) ==
  Unit(15 + (((100 - mean.factuality) * 30 + (100 - mean.consistency) * 25) \div 100) + Flag(q.corrected, 25))

PromotionReadiness(q, mean) ==
  LET risk == ContaminationRisk(q, mean)
      raised == Flag(q.confirmed, 10)
  IN CASE q.horizon = "short" ->
            Unit(Weighted(mean, [relevance |-> 25, utility |-> 25, consistency |-> 20, stability |-> 20]) + raised - ((risk * 35) \div 100))
       [] q.horizon = "mid" ->
            Unit(Weighted(mean, [evidence |-> 25, stability |-> 25, utility |-> 20, factuality |-> 20]) + raised - ((risk * 40) \div 100))
       [] q.horizon = "long" -> 100

\* The quality read here is the prior.
DecayPressure(q) ==
  LET factor == CASE q.horizon = "short" -> 100 [] q.horizon = "mid" -> 65 [] q.horizon = "long" -> 35
  IN (((100 - Freshness(q)) * 45 + (100 - Utility(q)) * 35 + (100 - q.prior) * 20) * factor) \div 10000

ConfidenceOf(mean, risk) ==
  (Weighted(mean, [factuality |-> 30, consistency |-> 25, evidence |-> 20, stability |-> 15]) + ((100 - risk) \div 10))

Uncertainty(beliefs) ==
  (Doubt(beliefs.intrinsic) + Doubt(beliefs.utility) + Doubt(beliefs.factuality) + Doubt(beliefs.consistency)
   + Doubt(beliefs.evidence) + Doubt(beliefs.stability)) \div 6

Route(q, s) ==
  IF q.corrected /\ q.horizon # "short" THEN "exclude"
  ELSE IF s.mean.consistency < 45 \/ s.mean.factuality < 45 THEN "revalidate"
  ELSE CASE q.horizon = "short" ->
              IF s.decay > 70 /\ s.readiness < 35 THEN "forget_short"
              ELSE IF s.readiness >= 70 THEN "compress"
              ELSE IF s.mean.relevance >= 70 THEN "boost" ELSE "keep_short"
         [] q.horizon = "mid" ->
              IF s.readiness >= 78 /\ s.risk <= 35 THEN "promote"
              ELSE IF s.decay > 65 /\ s.mean.utility < 35 THEN "archive" ELSE "rehearse"
         [] q.horizon = "long" ->
              IF s.overall >= 78 /\ s.confidence >= 70 /\ s.uncertainty <= 45 THEN "include"
              ELSE IF s.decay > 70 /\ s.mean.utility < 25 THEN "forget"
              ELSE IF s.uncertainty > 55 THEN "revalidate" ELSE "keep_long"

Reassess(q) ==
  LET beliefs == Posterior(q)
      mean == [d \in Dimensions |-> Mean(beliefs[d])]
      risk == ContaminationRisk(q, mean)
      s == [beliefs |-> beliefs, mean |-> mean, risk |-> risk,
            readiness |-> PromotionReadiness(q, mean), decay |-> DecayPressure(q),
            overall |-> ClampedDelta(q.prior, Weighted(mean, OverallWeights(q.horizon))),
            confidence |-> ConfidenceOf(mean, risk), uncertainty |-> Uncertainty(beliefs)]
  IN s @@ [route |-> Route(q, s)]

(***************************************************************************)
(* The questions left open: the planner of active learning.                *)
(***************************************************************************)
Curiosity(d) ==
  CASE d = "factuality" -> 115 [] d = "consistency" -> 110 [] d = "evidence" -> 112 [] d = "stability" -> 92
    [] d = "trainability" -> 88 [] d = "utility" -> 82 [] d = "relevance" -> 74 [] d = "freshness" -> 68 [] d = "intrinsic" -> 55

LearningScore(d, b) == Unit(((Doubt(b) * Curiosity(d)) + (100 - Mean(b)) * 20) \div 100)

MinDoubt == 42
MaxTasks == 3

LearningAction(d, risk) ==
  CASE d \in {"factuality", "evidence", "consistency"} -> "federated"
    [] d \in {"utility", "relevance"} -> "local"
    [] d = "trainability" -> (IF risk > 35 THEN "federated" ELSE "rehearsal")
    [] d \in {"freshness", "stability"} -> "rehearsal"
    [] d = "intrinsic" -> "user"

OpenDimensions(s) == {d \in Dimensions : Doubt(s.beliefs[d]) >= MinDoubt /\ LearningScore(d, s.beliefs[d]) >= 25}

LearningTasks(s) ==
  LET all == SelectSeq(AllDimensions, LAMBDA d : d \in OpenDimensions(s))
      ranked == SortSeq(all, LAMBDA d, e : LearningScore(d, s.beliefs[d]) > LearningScore(e, s.beliefs[e]))
  IN [k \in 1..Lesser(Len(ranked), MaxTasks) |-> [dimension |-> ranked[k], action |-> LearningAction(ranked[k], s.risk)]]

\* An answer: the belief moves by twice the reliability, the quality is the mean of all beliefs.
Learned(s, d, observation, reliability) == [s.beliefs EXCEPT ![d] = Updated(@, observation, reliability * 2)]
LearnedQuality(beliefs) == FoldFunction(LAMBDA n, sum : n + sum, 0, [d \in Dimensions |-> Mean(beliefs[d])]) \div 9

AskScore ==
  /\ stage = "score" /\ asked = NULL
  /\ asked' \in {[question |-> q, answer |-> Reassess(q)] : q \in ScoreQuestions}
  /\ UNCHANGED <<claims, stage, cycles, drift>>

(***************************************************************************)
(* Health: central, weak or outdated memories, the worst first.            *)
(***************************************************************************)
Dependents(c) ==
  Cardinality({a \in HealthClaims : <<a, c>> \in Supports}) + Cardinality({a \in HealthClaims : claims[a].by = c})
MostDependents == LET n == CHOOSE n \in 0..(2 * Cardinality(HealthClaims)) :
                             /\ \E c \in HealthClaims : Dependents(c) = n
                             /\ \A c \in HealthClaims : Dependents(c) <= n
                  IN IF n = 0 THEN 1 ELSE n
\* Without a graph store only the local share of the centrality counts.
Centrality(c) == (55 * Dependents(c)) \div MostDependents
Valid(c) == claims[c].by = NULL
Cites(c) == {b \in HealthClaims : <<c, b>> \in Supports}

IssuesOf(c) ==
  LET q == claims[c].quality
      bridge == (Centrality(c) * (100 - q)) \div 100
      issue(action, priority) == [claim |-> c, action |-> action, priority |-> Unit(priority)]
  IN {i \in {issue("revalidate", bridge)} : Dependents(c) >= 2 /\ q <= 55 /\ bridge >= 32}
     \cup {i \in {issue("strengthen", 72 - q + (Centrality(c) \div 4))} : Cites(c) = {} /\ q < 72}
     \cup {i \in {issue("cascade", 55 + ((Centrality(c) * 45) \div 100))} : ~Valid(c) /\ Dependents(c) > 0}

\* Of several issues of one memory the map keeps the last, the least urgent.
RepairOf(c) == CHOOSE i \in IssuesOf(c) : \A o \in IssuesOf(c) : i.priority <= o.priority

Diagnose ==
  /\ stage = "health" /\ stage' = "guard"
  /\ claims' = [c \in HealthClaims |->
                 IF IssuesOf(c) = {} THEN claims[c]
                 ELSE [claims[c] EXCEPT !.tags = @ \cup {"diagnosed", RepairOf(c).action}]]
  /\ UNCHANGED <<asked, cycles, drift>>

(***************************************************************************)
(* Consistency: of two valid claims that contradict, the weaker goes.      *)
(***************************************************************************)
StrongDelta == 18
Gap(a, b) == IF claims[a].quality > claims[b].quality THEN claims[a].quality - claims[b].quality ELSE claims[b].quality - claims[a].quality

MayBeJudged(c) == Valid(c)

GuardAction(a, b) ==
  IF Gap(a, b) >= StrongDelta THEN "invalidate" ELSE IF Cites(a) \cap Cites(b) # {} THEN "revalidate" ELSE "contextual"

GuardPlan ==
  LET pairs == {d \in Disputes : MayBeJudged(d.a) /\ MayBeJudged(d.b)}
      priority(d) == (d.overlap * 60 + Gap(d.a, d.b) * 40) \div 100
  IN SortSeq(SetToSeq(pairs), LAMBDA d, e : priority(d) > priority(e))

\* The claim that stays is the better one; of two equal ones, the second.
Judged(d, known) ==
  LET weaker == IF claims[d.a].quality <= claims[d.b].quality THEN d.a ELSE d.b
      stronger == IF weaker = d.a THEN d.b ELSE d.a
      action == GuardAction(d.a, d.b)
  IN IF action = "invalidate" THEN [known EXCEPT ![weaker] = [@ EXCEPT !.by = stronger, !.tags = @ \cup {"auto-invalidated"}]]
     ELSE [c \in HealthClaims |-> IF c \in {d.a, d.b} THEN [known[c] EXCEPT !.tags = @ \cup {action}] ELSE known[c]]

Guard ==
  /\ stage = "guard" /\ stage' = "learn"
  /\ claims' = FoldLeft(LAMBDA known, d : Judged(d, known), claims, GuardPlan)
  /\ UNCHANGED <<asked, cycles, drift>>

(***************************************************************************)
(* Active learning and curiosity over what is left, and drift.             *)
(***************************************************************************)
MayLearn(c) == Valid(c) /\ claims[c].quality >= 20

Plan ==
  /\ stage = "learn" /\ stage' = "explore"
  /\ claims' = [c \in HealthClaims |-> IF MayLearn(c) THEN [claims[c] EXCEPT !.tags = @ \cup {"learning", "federated"}] ELSE claims[c]]
  /\ UNCHANGED <<asked, cycles, drift>>

\* PSI and centroid of eight one-dimensional embeddings of length one, in two bins.
Edge(k) == k \in {0, 8}
Moved(from, to) ==
  \/ from - to \notin -1..1
  \/ from # to /\ (Edge(from) \/ Edge(to))
  \/ (from - 4) * (to - 4) < 0

FirstRow(set) == CHOOSE c \in set : \A o \in set : c <= o
\* The baseline is found in the first entry that has one and written to the first entry.
BaselineAt == FirstRow(DOMAIN drift.baselines)
WrittenAt(rows) == FirstRow(rows)

\* A memory may come to be scanned before the others.
AnalyzeDrift ==
  /\ stage = "drift" /\ cycles <= MaxCycles
  /\ cycles' = cycles + 1 /\ stage' = stage
  /\ \E sample \in DriftSamples, c \in HealthClaims :
       drift' = [rows |-> drift.rows \cup {c},
                 before |-> drift.sample, sample |-> sample,
                 advice |-> IF drift.baselines # << >> /\ Moved(drift.baselines[BaselineAt], sample) THEN "rebuild" ELSE "observe",
                 baselines |-> [r \in {WrittenAt(drift.rows \cup {c})} |-> sample] @@ drift.baselines]
  /\ UNCHANGED <<asked, claims>>

MayExplore(c) == Valid(c) /\ (100 - claims[c].quality >= 45 \/ "federated" \in claims[c].tags)

Explore ==
  /\ stage = "explore" /\ stage' = "rest"
  /\ claims' = [c \in HealthClaims |-> IF MayExplore(c) THEN [claims[c] EXCEPT !.tags = @ \cup {"curious"}] ELSE claims[c]]
  /\ UNCHANGED <<asked, cycles, drift>>

\* Between two cycles an observation moves a quality.
ObserveAnswer ==
  /\ stage = "rest" /\ cycles < MaxCycles
  /\ cycles' = cycles + 1 /\ stage' = "health"
  /\ \E c \in HealthClaims, quality \in {30, 60, 90} : claims' = [claims EXCEPT ![c].quality = quality, ![c].tags = {}]
  /\ UNCHANGED <<asked, drift>>

HealthInit ==
  /\ asked = NULL
  /\ claims = [c \in HealthClaims |-> [quality |-> 30 * c, by |-> NULL, tags |-> {}]]
  /\ stage \in {"score", "health", "drift"} /\ cycles = 1
  /\ drift = [rows |-> {CHOOSE c \in HealthClaims : \A o \in HealthClaims : c >= o},
              before |-> NULL, sample |-> NULL, advice |-> "observe", baselines |-> << >>]

HealthNext == AskScore \/ Diagnose \/ Guard \/ Plan \/ Explore \/ ObserveAnswer \/ AnalyzeDrift

(***************************************************************************)
(* What must hold.                                                         *)
(***************************************************************************)
Innocent(q) == [q EXCEPT !.contradictions = 0, !.corrected = FALSE]

\* A contradiction or a correction never helps a memory, one run moves a quality by at most fifteen hundredths, and a corrected memory that nobody confirmed is neither kept longer nor trained on.
ScoreSound ==
  asked # NULL =>
    LET q == asked.question
        s == asked.answer
        clean == Reassess(Innocent(q))
    IN /\ s.overall <= clean.overall /\ s.readiness <= clean.readiness /\ s.confidence <= clean.confidence
       /\ s.overall - q.prior \in -MaxDelta..MaxDelta
       /\ q.corrected /\ ~q.confirmed => s.route \notin {"compress", "promote", "include"}

\* What is asked about is what is least known, and two answers teach the same in either order.
LearningSoundly ==
  asked # NULL =>
    LET s == asked.answer
        tasks == LearningTasks(s)
        planned == {tasks[k].dimension : k \in DOMAIN tasks}
        one == [s EXCEPT !.beliefs = Learned(s, "evidence", 100, 50)]
        two == [s EXCEPT !.beliefs = Learned(s, "evidence", 0, 100)]
        both == Learned(one, "evidence", 0, 100)
    IN /\ \A d \in OpenDimensions(s) \ planned, e \in planned : LearningScore(d, s.beliefs[d]) <= LearningScore(e, s.beliefs[e])
       /\ both = Learned(two, "evidence", 100, 50)
       /\ \A d \in Dimensions : Doubt(both[d]) <= Doubt(s.beliefs[d])
       /\ LearnedQuality(one.beliefs) >= LearnedQuality(both)

Chain[n \in 0..Cardinality(HealthClaims)] ==
  [c \in HealthClaims |-> IF n = 0 THEN c ELSE LET d == Chain[n - 1][c] IN IF claims[d].by = NULL THEN d ELSE claims[d].by]

\* However qualities move between cycles, the claims that overrule one another end in a valid one.
JudgementsEnd == \A c \in HealthClaims : Valid(Chain[Cardinality(HealthClaims)][c])

\* The drift report compares with the distribution of the run before it.
DriftFollows == drift.before # NULL => (drift.advice = "rebuild" <=> Moved(drift.before, drift.sample))

HealthSound == ScoreSound /\ LearningSoundly /\ JudgementsEnd /\ DriftFollows
=============================================================================
