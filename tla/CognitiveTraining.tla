-------------------------- MODULE CognitiveTraining --------------------------
(* The training loop over trajectories (context-db-cdt): epochs that         *)
(* consolidate, gate by lifecycle, extract gradients, ask the curriculum,    *)
(* accept or reject each gradient and deposit skills.  Any port may fail in  *)
(* between, and what was deposited stays.  Shares are percents, weights      *)
(* products of two percents.                                                 *)
EXTENDS Integers, Sequences, FiniteSets, Absent
LOCAL INSTANCE TLC

CONSTANTS
  TrainingConfigs,  \* configurations: epochs, batch, min, aware
  TrainingRuns,     \* sequences of trajectories: success, errors, steps
  DemoLimit,
  ProductBatches,   \* what consolidation may answer: sequences of products
  LifecycleSignals, \* what graph and signals may answer: centrality, priority
  MinSurplus,       \* contradictions that outweigh the preference loss: 2 with the default weights
  CourseEdges, CourseCentrality, FirstTargets, \* the curriculum's graph and its bootstrap targets
  OwnedSkills,      \* URIs inside the library's scope
  MinSuccessRate, GateThreshold, Baseline, TrialCounts

VARIABLES
  training, \* the call: where it is, its configuration and its epoch
  skills,   \* the library: success rate by URI
  results,  \* the epochs of the report
  verdict   \* the gate's decision on it

trainingVars == <<training, skills, results, verdict>>

LowerOf(a, b) == IF a < b THEN a ELSE b
HigherOf(a, b) == IF a > b THEN a ELSE b
TotalOf(f) == LET sum[n \in 0..Len(f)] == IF n = 0 THEN 0 ELSE sum[n - 1] + f[n] IN sum[Len(f)]

(***************************************************************************)
(* Metrics, demos and the optimizers they feed.                            *)
(***************************************************************************)
\* 1 / max(1, ln steps), as far as the instances go.
Efficiency(steps) == IF steps = 0 THEN 0 ELSE <<100, 100, 91, 72, 62>>[steps]

CompositeMetric(contradictions, confidence, succeeded, steps) ==
  (35 * (100 \div (1 + contradictions)) + 25 * confidence + (IF succeeded THEN 2500 ELSE 0) + 15 * Efficiency(steps)) \div 100

\* A success counts 85 percent, a failure 35 and gives no demo.
DemosOf(run, min) ==
  LET good == SelectSeq(run, LAMBDA t : t.success /\ 85 >= min)
      ranked == SortSeq([k \in DOMAIN good |-> CompositeMetric(good[k].errors, 85, TRUE, good[k].steps)], LAMBDA a, b : a > b)
  IN SubSeq(ranked, 1, LowerOf(DemoLimit, Len(ranked)))

LoweredMin(min, demos) ==
  IF demos # << >> /\ TotalOf(demos) > 70 * Len(demos) THEN HigherOf((min * 8) \div 10, 15) ELSE min

ScaledBatch(config) ==
  IF ~config.aware THEN config.batch
  ELSE IF config.min > 50 THEN (config.batch * 3) \div 2 ELSE HigherOf(config.batch, 20)

\* The demos come first: the batch is scaled by the minimum they have lowered.
Optimized(config, run) ==
  LET lowered == [config EXCEPT !.min = LoweredMin(@, DemosOf(run, config.min))]
  IN [lowered EXCEPT !.batch = ScaledBatch(lowered)]

(***************************************************************************)
(* The lifecycle of a product, judged without any record of its use.       *)
(***************************************************************************)
Importance(product, signals) == (15 * signals.centrality + 25 * product.quality + 10 * signals.priority) \div 100

\* The default rules by priority; recency and frequency of an empty log are zero.
LifecycleAction(product, signals) ==
  IF signals.priority > 90 THEN "freeze"
  ELSE IF Importance(product, signals) < 20 THEN "consolidate" ELSE "archive"

BlocksTraining(action) == action \in {"archive", "delete", "freeze"}
BadSignal(signals) == signals.priority = NULL \/ signals.centrality \notin 0..100

(***************************************************************************)
(* Gradients of products.                                                  *)
(***************************************************************************)
BaseWeight ==
  [fact |-> 100, error |-> 90, skill |-> 85, procedure |-> 70, preference |-> 60, heuristic |-> 50, reflection |-> 40, belief |-> 30, hypothesis |-> 15]
EffectiveConfidence(product) == LowerOf(product.quality, product.confidence)
GradientWeight(product) == BaseWeight[product.type] * EffectiveConfidence(product)

EvidenceGiven(product) == product.type \in {"fact", "hypothesis"} => product.evidence > 0

Trainable(product, min) ==
  /\ product.converged /\ product.valid /\ product.traceable
  /\ product.confidence >= min /\ EvidenceGiven(product)
  /\ GradientWeight(product) >= 100 * min
  /\ product.type \notin {"heuristic", "belief"}
  /\ product.type = "hypothesis" => product.outcome \in {"confirmed", "falsified"}

\* Only facts keep what contradicts them.
GradientOf(product) ==
  [uri |-> product.uri, type |-> product.type, confidence |-> EffectiveConfidence(product), weight |-> GradientWeight(product), outcome |-> product.outcome,
   evidence |-> IF product.type \in {"error", "preference", "reflection"} THEN 0 ELSE product.evidence,
   contradictions |-> IF product.type = "fact" THEN product.contradictions ELSE 0]

ExtractGradients(products, min) ==
  LET usable == SelectSeq(products, LAMBDA p : Trainable(p, min))
      ranks == SortSeq([k \in DOMAIN usable |-> k], LAMBDA a, b : GradientWeight(usable[a]) > GradientWeight(usable[b]) \/ (GradientWeight(usable[a]) = GradientWeight(usable[b]) /\ a < b))
  IN [k \in DOMAIN usable |-> GradientOf(usable[ranks[k]])]

\* Of equal weights the last is the best and the first is the worst.
BestGradient(gradients) == CHOOSE k \in DOMAIN gradients : \A j \in DOMAIN gradients : gradients[j].weight < gradients[k].weight \/ (gradients[j].weight = gradients[k].weight /\ j <= k)
WorstGradient(gradients) == CHOOSE k \in DOMAIN gradients : \A j \in DOMAIN gradients : gradients[j].weight > gradients[k].weight \/ (gradients[j].weight = gradients[k].weight /\ j >= k)

\* The loss is negative only where the better one contradicts so much more.
LossIsNegative(gradients) ==
  gradients[BestGradient(gradients)].contradictions - gradients[WorstGradient(gradients)].contradictions >= MinSurplus

\* What an accepted gradient becomes in the long-term memory.
ProductOfGradient(gradient) ==
  [uri |-> gradient.uri, type |-> IF gradient.type = "procedure" THEN "skill" ELSE gradient.type,
   quality |-> gradient.weight \div 100, confidence |-> gradient.confidence, converged |-> FALSE, valid |-> TRUE, traceable |-> TRUE,
   evidence |-> gradient.evidence, contradictions |-> gradient.contradictions, outcome |-> gradient.outcome]

(***************************************************************************)
(* The curriculum: unknown neighbours of what is known, the nearest to the *)
(* learner's reach first.                                                  *)
(***************************************************************************)
Prerequisites(u, known) == {k \in known : <<k, u>> \in CourseEdges}
Frontier(known) == {u \in {e[2] : e \in CourseEdges} \ known : Prerequisites(u, known) # {}}

\* With the confidence that bootstrap gives to all that is known.
Difficulty(u, known) == 30 + LowerOf(8 * Cardinality(Prerequisites(u, known)), 30) + CourseCentrality[u] \div 4
FromReach(u, known) == LET d == Difficulty(u, known) - 60 IN IF d < 0 THEN -d ELSE d

\* Ties are broken by a hash map's order.
NextGoals(known) ==
  IF known # {} /\ Frontier(known) # {}
  THEN {u \in Frontier(known) : \A v \in Frontier(known) :
          \/ FromReach(u, known) < FromReach(v, known)
          \/ FromReach(u, known) = FromReach(v, known) /\ Cardinality(Prerequisites(u, known)) >= Cardinality(Prerequisites(v, known))}
  ELSE IF FirstTargets = << >> THEN {} ELSE {Head(FirstTargets)}

-----------------------------------------------------------------------------
Epoch0 == [products |-> << >>, checked |-> 0, kept |-> << >>, blocked |-> 0, gradients |-> << >>, goal |-> NULL, tried |-> 0, applied |-> 0, rejected |-> 0, accepted |-> << >>]
NoConfig == [epochs |-> 0, batch |-> 0, min |-> 0, aware |-> FALSE]

StartTraining ==
  /\ training.at = "idle"
  /\ \E config \in TrainingConfigs, run \in TrainingRuns :
       training' = [at |-> IF config.epochs = 0 THEN "done" ELSE "consolidate", config |-> Optimized(config, run), epoch |-> Epoch0]
  /\ UNCHANGED <<skills, results, verdict>>

ConsolidateBatch ==
  /\ training.at = "consolidate"
  /\ \E batch \in ProductBatches : training' = [training EXCEPT !.at = "gate", !.epoch = [Epoch0 EXCEPT !.products = batch]]
  /\ UNCHANGED <<skills, results, verdict>>

\* A missing or impossible signal ends the training.
GateProduct ==
  /\ training.at = "gate" /\ training.epoch.checked < Len(training.epoch.products)
  /\ \E signals \in LifecycleSignals :
       LET product == training.epoch.products[training.epoch.checked + 1]
           blocks == BlocksTraining(LifecycleAction(product, signals))
       IN training' = IF BadSignal(signals) THEN [training EXCEPT !.at = "failed"]
                      ELSE [training EXCEPT !.epoch =
                        [@ EXCEPT !.checked = @ + 1, !.blocked = IF blocks THEN @ + 1 ELSE @, !.kept = IF blocks THEN @ ELSE Append(@, product)]]
  /\ UNCHANGED <<skills, results, verdict>>

ExtractAll ==
  /\ training.at = "gate" /\ training.epoch.checked = Len(training.epoch.products)
  /\ training' = [training EXCEPT !.at = "goal", !.epoch =
       [@ EXCEPT !.gradients = ExtractGradients(@, training.config.min), !.rejected = training.epoch.blocked]]
  /\ UNCHANGED <<skills, results, verdict>>

Known == {training.epoch.kept[k].uri : k \in DOMAIN training.epoch.kept}

\* A curriculum or an embedding that fails is passed over; a library that fails is not.
SeekGoal ==
  /\ training.at = "goal"
  /\ \/ training' = [training EXCEPT !.at = "learn"]
     \/ \E u \in NextGoals(Known) : training' = [training EXCEPT !.at = "learn", !.epoch.goal = u]
  /\ UNCHANGED <<skills, results, verdict>>

Batch == LowerOf(training.config.batch, Len(training.epoch.gradients))
Deposits(gradient) == gradient.uri \in OwnedSkills /\ gradient.confidence >= MinSuccessRate

LearnGradient ==
  /\ training.at = "learn" /\ training.epoch.tried < Batch
  /\ LET gradient == training.epoch.gradients[training.epoch.tried + 1]
         takes == LossIsNegative(training.epoch.gradients)
         next == [training.epoch EXCEPT !.tried = @ + 1]
         deposit == takes /\ gradient.type = "skill"
     IN /\ training' =
             IF deposit /\ ~Deposits(gradient) THEN [training EXCEPT !.at = "failed"]
             ELSE [training EXCEPT !.epoch = IF takes THEN [next EXCEPT !.applied = @ + 1, !.accepted = Append(@, gradient)] ELSE [next EXCEPT !.rejected = @ + 1]]
        /\ skills' = IF deposit /\ Deposits(gradient)
                     THEN [u \in DOMAIN skills \cup {gradient.uri} |-> IF u = gradient.uri THEN gradient.confidence ELSE skills[u]]
                     ELSE skills
  /\ UNCHANGED <<results, verdict>>

AverageConfidence(gradients) == IF gradients = << >> THEN 0 ELSE TotalOf([k \in DOMAIN gradients |-> gradients[k].confidence]) \div Len(gradients)

FinishEpoch ==
  /\ training.at = "learn" /\ training.epoch.tried = Batch
  /\ LET epoch == training.epoch
         accuracy == CompositeMetric(0, AverageConfidence(epoch.gradients), epoch.applied > 0, Len(epoch.gradients))
     IN results' = Append(results, [epoch |-> epoch, accuracy |-> accuracy, extracted |-> Len(epoch.gradients) + Len(epoch.accepted)])
  /\ training' = [training EXCEPT !.at = IF Len(results') < training.config.epochs THEN "consolidate" ELSE "done"]
  /\ UNCHANGED <<skills, verdict>>

\* Consolidation, a signal, an embedding or the library fails: the report is lost, the skills stay.
FailTraining ==
  /\ training.at \in {"consolidate", "gate", "goal", "learn"}
  /\ training.at = "gate" => training.epoch.checked < Len(training.epoch.products)
  /\ training.at = "goal" => NextGoals(Known) # {}
  /\ training.at = "learn" =>
       /\ training.epoch.tried < Batch
       /\ training.epoch.gradients[training.epoch.tried + 1].type = "skill" /\ LossIsNegative(training.epoch.gradients)
  /\ training' = [training EXCEPT !.at = "failed"]
  /\ UNCHANGED <<skills, results, verdict>>

Accuracies == {0} \cup {results[k].accuracy : k \in DOMAIN results}
AccuracyDelta == (CHOOSE a \in Accuracies : \A b \in Accuracies : b <= a) - Baseline

Wins == Cardinality({k \in DOMAIN results : results[k].accuracy > Baseline})

ShouldReplace(trials) == trials > 0 /\ 100 * Wins >= GateThreshold * trials /\ AccuracyDelta > 0

EvaluateGate ==
  /\ training.at = "done" /\ verdict = NULL
  /\ \E trials \in TrialCounts : verdict' = [replaces |-> ShouldReplace(trials), trials |-> trials]
  /\ UNCHANGED <<training, skills, results>>

TrainingInit ==
  /\ training = [at |-> "idle", config |-> NoConfig, epoch |-> Epoch0]
  /\ skills = << >> /\ results = << >> /\ verdict = NULL

TrainingNext ==
  \/ StartTraining \/ ConsolidateBatch \/ GateProduct \/ ExtractAll \/ SeekGoal
  \/ LearnGradient \/ FinishEpoch \/ FailTraining \/ EvaluateGate

(***************************************************************************)
(* What must hold.                                                         *)
(***************************************************************************)
\* Every product and every gradient of the batch is counted, and an epoch takes all of its gradients or none.
EpochsAddUp ==
  \A k \in DOMAIN results :
    LET e == results[k].epoch
    IN /\ e.applied + e.rejected = e.blocked + LowerOf(training.config.batch, Len(e.gradients))
       /\ e.applied = 0 \/ e.rejected = e.blocked
       /\ Len(e.accepted) = e.applied /\ results[k].extracted = Len(e.gradients) + e.applied

\* What is learnt rests on a completed product and on evidence; under the default rules
\* a product whose quality alone makes it important is never learnt from.
LearntIsVetted ==
  \A k \in DOMAIN training.epoch.accepted :
    LET g == training.epoch.accepted[k]
    IN \E j \in DOMAIN training.epoch.products :
         LET p == training.epoch.products[j]
         IN /\ p.uri = g.uri /\ p.converged /\ p.valid /\ p.traceable
            /\ 25 * p.quality < 2000
            /\ g.weight >= 100 * training.config.min
            /\ g.type = "fact" \/ g.type = "hypothesis" => p.evidence > 0

\* A skill is deposited inside the scope, with the confidence of a gradient that some epoch accepted.
SkillsAreAccepted ==
  \A u \in DOMAIN skills :
    /\ u \in OwnedSkills /\ skills[u] >= MinSuccessRate
    /\ \E e \in {results[k].epoch : k \in DOMAIN results} \cup {training.epoch} :
         \E k \in DOMAIN e.accepted : e.accepted[k].uri = u /\ e.accepted[k].confidence = skills[u]

\* A goal is not known, and something known leads to it, unless it is a bootstrap target.
GoalsAreNew ==
  training.epoch.goal # NULL =>
    \/ training.epoch.goal \in Frontier(Known)
    \/ Frontier(Known) = {} /\ training.epoch.goal = Head(FirstTargets)

\* What training writes does not train again before it is consolidated; then it keeps its kind and outcome and never gains weight.
RoundTripKeeps ==
  \A k \in DOMAIN training.epoch.accepted :
    LET g == training.epoch.accepted[k]
        p == ProductOfGradient(g)
        again == ExtractGradients(<<[p EXCEPT !.converged = TRUE]>>, training.config.min)
    IN /\ ExtractGradients(<<p>>, training.config.min) = << >>
       /\ again # << >> => again[1].type = p.type /\ again[1].outcome = g.outcome /\ (p.type = g.type => again[1].weight <= g.weight)

\* The policy is replaced only after an epoch above the baseline, and as often as the threshold asks.
ReplacementIsEarned ==
  verdict # NULL /\ verdict.replaces =>
    /\ \E k \in DOMAIN results : results[k].accuracy > Baseline
    /\ 100 * Wins >= GateThreshold * verdict.trials

TrainingSound == EpochsAddUp /\ LearntIsVetted /\ SkillsAreAccepted /\ GoalsAreNew /\ RoundTripKeeps /\ ReplacementIsEarned
=============================================================================
