--------------------------- MODULE Consolidation ----------------------------
(* How one memory is consolidated and how it wears out.  The two share no    *)
(* state.                                                                    *)
EXTENDS Absent, Naturals, Sequences, FiniteSets, SequencesExt, FiniteSetsExt

(***************************************************************************)
(* What consolidates one memory: the generate, critique, revise loop over an *)
(* LLM, the decision what to do with its product, and the check of a batch   *)
(* of facts for contradictions.  Scores are counted in twentieths.           *)
(***************************************************************************)
CONSTANTS
  MaxIterations,     \* ConsolidationConfig::max_iterations
  MaxEngineBatch,          \* entries of a call of consolidate_batch
  Scores,            \* the scores that a critic gives
  MaxFacts           \* facts that the contradiction check sees at once

ASSUME IterationsAssumption == MaxIterations \in Nat \ {0} /\ Scores \subseteq 0..20

VARIABLES
  draft,             \* the product under way and where the loop stands
  products,          \* what consolidate_batch has so far
  judged,            \* the texts the critic scored, with their scores
  answer             \* a call of the resolver or of the checker, with its result

consolidationVars == <<draft, products, judged, answer>>

Threshold == 1       \* convergence_threshold 0.05

NoDraft == [pc |-> "rest", text |-> 0, score |-> 0, status |-> "InProgress", generation |-> 0,
            iteration |-> 0, prev |-> 0, critique |-> NULL]

ConsolidationInit == draft = NoDraft /\ products = <<>> /\ judged = {} /\ answer = NULL

\* generate: a text of the model's; the score is the entry's own or the declared one.
Generate ==
  /\ draft.pc = "rest" /\ answer = NULL /\ Len(products) < MaxEngineBatch
  /\ \E s \in Scores :
       draft' = [NoDraft EXCEPT !.pc = "critique", !.text = 1, !.score = s, !.generation = 1, !.iteration = 1]
  /\ judged' = {} /\ UNCHANGED <<products, answer>>

\* validate_probability and validate_llm_content refuse what the schema let pass,
\* like a call that fails: the batch fails with it and its products are dropped.
LlmFails ==
  /\ draft.pc \in {"critique", "revise"}
  /\ draft' = [NoDraft EXCEPT !.pc = "failed"] /\ products' = <<>>
  /\ UNCHANGED <<judged, answer>>

Delta(a, b) == IF a > b THEN a - b ELSE b - a
Settled(d, score, suggestions) ==
  \/ Delta(score, d.prev) < Threshold /\ d.iteration > 1
  \/ suggestions = 0

Converge(d, score) == [d EXCEPT !.pc = "finish", !.score = score, !.status = "Converged", !.generation = d.iteration]

\* critique, and the two ways to converge on it.
Critique ==
  /\ draft.pc = "critique"
  /\ \E score \in Scores, suggestions \in 0..1 :
       /\ judged' = judged \cup {<<draft.text, score>>}
       /\ draft' = IF Settled(draft, score, suggestions) THEN Converge(draft, score)
                   ELSE [draft EXCEPT !.pc = "revise", !.prev = score, !.critique = score]
  /\ UNCHANGED <<products, answer>>

\* Fault: convergence is declared on the text that the critique has led to.
ReviseThenConverge ==
  /\ draft.pc = "revise"
  /\ draft' = [draft EXCEPT !.text = @ + 1, !.score = draft.critique, !.generation = draft.iteration,
                 !.status = "Converged", !.pc = "finish"]
  /\ UNCHANGED <<products, judged, answer>>

\* revise: a new text with the score of the old one; the loop ends at the limit.
Revise ==
  /\ draft.pc = "revise"
  /\ draft' = [draft EXCEPT !.text = @ + 1, !.score = draft.critique, !.generation = draft.iteration,
                 !.iteration = @ + 1,
                 !.pc = IF draft.iteration = MaxIterations THEN "finish" ELSE "critique"]
  /\ UNCHANGED <<products, judged, answer>>

\* The end of consolidate: what has not converged is stale; patch_count is the generation.
FinishDraft ==
  /\ draft.pc = "finish"
  /\ products' = Append(products, [text |-> draft.text, score |-> draft.score, generation |-> draft.generation,
                                   status |-> IF draft.status = "Converged" THEN "Converged" ELSE "Stale",
                                   judged |-> judged])
  /\ draft' = NoDraft /\ UNCHANGED <<judged, answer>>

(***************************************************************************)
(* MemoryResolver::resolve.                                                *)
(***************************************************************************)
Saturation == 50     \* domain_saturation_threshold

Worth == [quality : {0, 2, 3, 4, 6, 7, 10, 14, 15, 20}, confidence : {0, 5, 10, 14, 20}, fact : BOOLEAN,
          evidence : BOOLEAN, existing : BOOLEAN, similar : 0..4, contradiction : BOOLEAN]

\* info_gain > 0.1
GainOver(p) == IF p.quality > p.confidence + 2 THEN "Update" ELSE "Noop"

Resolve(p) ==
  CASE p.quality < 3 -> "Noop"
    [] p.quality >= 3 /\ p.contradiction -> "Invalidate"
    [] p.quality >= 3 /\ ~p.contradiction /\ (p.similar >= 3 \/ p.similar * 20 > Saturation * p.quality) -> "Noop"
    [] OTHER ->
         IF p.quality > 14 /\ p.similar = 0
           THEN IF p.fact /\ ~p.evidence THEN "Noop" ELSE "Add"
           ELSE IF p.quality <= 6 THEN "Noop" ELSE IF p.existing THEN GainOver(p) ELSE "Add"

(***************************************************************************)
(* ConsistencyChecker::check: the model's answer to a batch of facts.      *)
(***************************************************************************)
PairsOf(n) == {p \in (0..(n - 1)) \X (0..(n - 1)) : p[1] < p[2]}

\* The count, the order of the indices, their bound and the duplicates.
Accepts(n, reply) ==
  /\ 2 * Len(reply) = n * (n - 1)
  /\ \A i \in 1..Len(reply) : reply[i][1] < reply[i][2] /\ reply[i][2] < n
  /\ IsInjective(reply)

PairReplies(n) == UNION {[1..k -> (0..2) \X (0..2)] : k \in 0..(IF n = 1 THEN 1 ELSE 3)}

EngineIdle == draft.pc = "rest" /\ products = <<>> /\ answer = NULL

AskResolver ==
  /\ EngineIdle /\ \E p \in Worth : answer' = [of |-> "resolve", asked |-> p, got |-> Resolve(p)]
  /\ UNCHANGED <<draft, products, judged>>

\* Two facts at least are put to the model.
AskChecker ==
  /\ EngineIdle /\ \E n \in 2..MaxFacts : \E reply \in PairReplies(n) :
       answer' = [of |-> "check", asked |-> [facts |-> n, reply |-> reply],
                  got |-> IF Accepts(n, reply) THEN "accepted" ELSE "refused"]
  /\ UNCHANGED <<draft, products, judged>>

ConsolidationNext == Generate \/ LlmFails \/ Critique \/ Revise \/ FinishDraft \/ AskResolver \/ AskChecker

\* A product that has converged carries the score that the critic gave to the
\* very text it holds; a stale one went through every iteration.
ConvergedIsJudged ==
  \A i \in 1..Len(products) :
    LET p == products[i] IN
    IF p.status = "Converged" THEN <<p.text, p.score>> \in p.judged
    ELSE p.generation = MaxIterations /\ p.text = MaxIterations + 1

\* All else equal, a better product is never refused where a worse one was taken,
\* but for facts without evidence; a contradiction never ends in Add or Update.
BetterIsTaken ==
  answer # NULL /\ answer.of = "resolve" =>
    /\ answer.got \in {"Add", "Update"} /\ (answer.asked.fact => answer.asked.evidence) =>
         \A q \in {14, 15, 20} : q >= answer.asked.quality => Resolve([answer.asked EXCEPT !.quality = q]) # "Noop"
    /\ answer.asked.contradiction => answer.got \in {"Noop", "Invalidate"}

\* An accepted answer judges every pair of facts, each once.
EveryPairJudged ==
  answer # NULL /\ answer.of = "check" =>
    (answer.got = "accepted" <=> /\ Len(answer.asked.reply) = Cardinality(PairsOf(answer.asked.facts))
                                 /\ ToSet(answer.asked.reply) = PairsOf(answer.asked.facts))

(***************************************************************************)
(* What consolidation decides, it decides on what it was told: scores of   *)
(* the text at hand, each pair of facts judged, better products preferred  *)
(* (consolidate, resolve, check).                                          *)
(***************************************************************************)
ConsolidationSound == ConvergedIsJudged /\ BetterIsTaken /\ EveryPairJudged

(***************************************************************************)
(* How memories wear out: the half-life predicted for a text, the review a   *)
(* memory is due for and what adopting it changes, and the cascade from an   *)
(* invalidated memory to the ones entangled with it.  Each question is asked *)
(* of every input of a small set, through an action of its own.              *)
(***************************************************************************)
CONSTANTS
  CascadeDepth,      \* CascadeInvalidationConfig::max_depth
  CascadeNodes,      \* max_nodes
  ReviewTasks        \* SpacedRepetitionConfig::max_tasks

VARIABLE question    \* what was asked, and the answer

forgettingVars == <<question>>

ForgettingInit == question = NULL

Least(a, b) == IF a < b THEN a ELSE b
Most(a, b) == IF a > b THEN a ELSE b

(***************************************************************************)
(* HalfLifePredictor.  Days; a negative number of days is written 0.       *)
(***************************************************************************)
MaxFiniteDays == 1000   \* stands for HalfLife::MAX_FINITE_DAYS
Infinite == MaxFiniteDays + 1

Signals == {"api", "version", "fast", "temporal", "principle", "stable"}
\* The factor of a signal in hundredths.
Factor == [api |-> 55, version |-> 45, fast |-> 70, temporal |-> 50, principle |-> 170, stable |-> 145]
Order == <<"api", "version", "fast", "temporal", "principle", "stable">>

Clamped(days) == Most(14, Least(730, days))
Wear(signals) == FoldSeq(LAMBDA s, d : IF s \in signals THEN (d * Factor[s]) \div 100 ELSE d, 18000, Order)
LocalProfile(signals) == Clamped(Wear(signals) \div 100)

\* HalfLife::finite: positive, and at most the longest.
Finite(days) == IF days = 0 THEN NULL ELSE Least(days, MaxFiniteDays)

Predict(reply, signals) ==
  CASE reply[1] \in {"error", "garbage"} -> LocalProfile(signals)
    [] reply[1] = "infinite" -> Infinite
    [] OTHER -> IF Finite(reply[2]) = NULL THEN LocalProfile(signals) ELSE Finite(reply[2])

AskHalfLife ==
  \E reply \in {<<"error">>, <<"garbage">>, <<"infinite">>, <<"finite", 0>>, <<"finite", 5>>, <<"finite", 2000>>},
     signals \in SUBSET Signals :
    question' = [of |-> "half-life", reply |-> reply, signals |-> signals,
                 got |-> Predict(reply, signals)]

Expired(age, halfLife) == halfLife # Infinite /\ (Finite(halfLife) = NULL \/ age > Finite(halfLife))

(***************************************************************************)
(* SpacedRepetitionScheduler.  Quality in twentieths, due score in         *)
(* hundredths, days.                                                       *)
(***************************************************************************)
Memories == [scope : {"short", "mid", "long"}, infinite : BOOLEAN, age : {0, 20, 26, 32, 40, 53, 90},
             halfLife : {0, 30, 60}, stability : {0, 14, 30}, reinforcements : 0..2, quality : {4, 6, 7, 8, 9, 14}]

Due(m) == (m.age * 100) \div Most(m.halfLife, 1)

Severity(m) ==
  CASE Due(m) >= 175 /\ m.quality < 6 -> "forget"
    [] ~(Due(m) >= 175 /\ m.quality < 6) /\ (Due(m) >= 105 \/ m.quality < 9) -> "revalidate"
    [] OTHER -> "rehearse"

TaskFor(m) ==
  IF m.scope = "short" \/ m.infinite \/ (Due(m) < 82 /\ m.quality >= 7) THEN "none" ELSE Severity(m)

\* reinforce_on_adoption: by half per reinforcement, at least by 15 %.
Reinforced(stability, n) == (Most(stability, 1) * Most(100 + 50 * n, 115)) \div 100

Adopted(m) ==
  [m EXCEPT !.stability = Reinforced(@, m.reinforcements), !.reinforcements = @ + 1, !.age = 0,
            !.halfLife = Most(Most(@, 1), Reinforced(m.stability, m.reinforcements))]

\* plan: the most overdue first, ties by URI, at most max_tasks.
ReviewPlan(due) ==
  LET order == SetToSortSeq(DOMAIN due, LAMBDA i, j : due[i] > due[j] \/ (due[i] = due[j] /\ i < j))
  IN SubSeq(order, 1, Least(ReviewTasks, Len(order)))

AskReview == \E m \in Memories : question' = [of |-> "review", memory |-> m, got |-> TaskFor(m)]
AskPlan == \E due \in [1..3 -> {82, 110, 180}] : question' = [of |-> "plan", due |-> due, got |-> ReviewPlan(due)]

(***************************************************************************)
(* EntanglementDetector and CascadeInvalidator over four memories.         *)
(***************************************************************************)
Memory4 == 1..4
Pairs4 == {p \in Memory4 \X Memory4 : p[1] < p[2]}

\* record_co_patch after n co-patches, in hundredths, and decay.
CoOccurrence[n \in Nat] == IF n = 0 THEN 0 ELSE IF n = 1 THEN 20 ELSE (CoOccurrence[n - 1] * 80) \div 100 + 20
Decayed(strength, rate) == LET d == (strength * (100 - rate)) \div 100 IN IF d > 5 THEN d ELSE 0

Copatched(n) == Decayed(CoOccurrence[n], 5)

\* Partners at 0.35 or more, in the order they were recorded.
Strength(web, a, b) == IF a < b THEN web[<<a, b>>] ELSE web[<<b, a>>]
Partners(web, a) == SetToSortSeq({b \in Memory4 \ {a} : Strength(web, a, b) >= 35}, <)
Linked(edges, a) == SetToSortSeq({b \in Memory4 : <<a, b>> \in edges}, <)

Step(node, depth, act) == [uri |-> node, depth |-> depth, action |-> act]

CascadeAction(depth, strength) == IF depth = 1 /\ strength >= 80 THEN "invalidate" ELSE "revalidate"

\* One partner of the node at the head: unseen, and below the limit of nodes.
Meet(web, head, s, b) ==
  IF b \in s.seen \/ s.full THEN s
  ELSE [queue |-> Append(s.queue, <<b, head[2] + 1>>), seen |-> s.seen \cup {b},
        tasks |-> Append(s.tasks, Step(b, head[2] + 1, CascadeAction(head[2] + 1, Strength(web, head[1], b)))),
        full |-> Len(s.tasks) + 1 >= CascadeNodes]
\* expand_graph: a task, but no place in the queue.
Expand(head, s, b) ==
  IF b \in s.seen \/ Len(s.tasks) >= CascadeNodes THEN s
  ELSE [s EXCEPT !.seen = @ \cup {b}, !.tasks = Append(@, Step(b, head[2] + 1, "revalidate"))]

RECURSIVE Cascade(_, _, _)
Cascade(web, edges, s) ==
  IF s.queue = <<>> THEN s.tasks
  ELSE LET head == Head(s.queue)
           rest == [s EXCEPT !.queue = Tail(@), !.full = FALSE]
           met == FoldSeq(LAMBDA b, t : Meet(web, head, t, b), rest, Partners(web, head[1]))
       IN IF head[2] >= CascadeDepth \/ Len(s.tasks) >= CascadeNodes THEN Cascade(web, edges, rest)
          ELSE Cascade(web, edges, FoldSeq(LAMBDA b, t : Expand(head, t, b), met, Linked(edges, head[1])))

PlanFrom(trigger, web, edges) ==
  Cascade(web, edges, [queue |-> <<<<trigger, 0>>>>, seen |-> {trigger}, tasks |-> <<>>, full |-> FALSE])

AskCascade ==
  \E web \in [Pairs4 -> {Copatched(n) : n \in {0, 3, 10}}], edges \in {{}} \cup {{e} : e \in {<<1, 2>>, <<1, 4>>, <<2, 3>>, <<3, 1>>}} :
    question' = [of |-> "cascade", web |-> web, edges |-> edges, got |-> PlanFrom(1, web, edges)]

ForgettingNext ==
  /\ question = NULL
  /\ AskHalfLife \/ AskReview \/ AskPlan \/ AskCascade

\* A text that wears faster is never predicted to last longer; a model's answer is
\* either valid or replaced.
HalfLifeSane ==
  question # NULL /\ question.of = "half-life" =>
    \/ question.got = Infinite /\ question.reply = <<"infinite">>
    \/ /\ question.got \in 1..MaxFiniteDays
       /\ question.reply[1] # "finite" \/ question.reply[2] = 0 =>
            \A s \in {"api", "version", "fast", "temporal"} :
              LocalProfile(question.signals \cup {s}) <= question.got

Grade == [none |-> 0, rehearse |-> 1, revalidate |-> 2, forget |-> 3]

\* A memory that is worse, or more overdue, is never treated more gently; what was
\* adopted is not due again at once, unless its quality alone makes it so.
ReviewsConsistent ==
  question # NULL /\ question.of = "review" =>
    LET m == question.memory IN
    /\ \A q \in {4, 6, 7, 8, 9, 14} : q <= m.quality => Grade[TaskFor([m EXCEPT !.quality = q])] >= Grade[question.got]
    /\ \A a \in {0, 20, 26, 32, 40, 53, 90} : a >= m.age => Grade[TaskFor([m EXCEPT !.age = a])] >= Grade[question.got]
    /\ m.quality >= 7 => TaskFor(Adopted(m)) = "none"
    /\ Adopted(m).halfLife >= m.halfLife /\ Adopted(m).stability >= m.stability
    /\ m.halfLife > 0 /\ Expired(m.age, m.halfLife) /\ ~m.infinite /\ m.scope # "short" => question.got # "none"

PlanTakesTheMostDue ==
  question # NULL /\ question.of = "plan" =>
    \A i \in DOMAIN question.due \ ToSet(question.got), j \in ToSet(question.got) : question.due[j] >= question.due[i]

\* The memories at each distance from the trigger, along entanglements.
RECURSIVE Ring4(_, _)
Ring4(web, d) ==
  IF d = 0 THEN {1}
  ELSE LET before == UNION {Ring4(web, k) : k \in 0..(d - 1)}
       IN {b \in Memory4 \ before : \E a \in Ring4(web, d - 1) : Strength(web, a, b) >= 35}

\* Every task of a cascade is reached by a task one nearer; only a strong direct
\* partner is invalidated; without relations and short of the limit the plan is
\* exactly what lies within the depth, at its distance.
CascadeExact ==
  question # NULL /\ question.of = "cascade" =>
    LET tasks == ToSet(question.got)
        Reach(a, b) == Strength(question.web, a, b) >= 35 \/ <<a, b>> \in question.edges
    IN /\ Len(question.got) = Cardinality({t.uri : t \in tasks}) /\ Len(question.got) <= CascadeNodes
       /\ \A t \in tasks :
            /\ t.uri # 1 /\ t.depth \in 1..CascadeDepth
            /\ IF t.depth = 1 THEN Reach(1, t.uri)
               ELSE \E p \in tasks : p.depth = t.depth - 1 /\ p.uri # t.uri /\ Reach(p.uri, t.uri)
            /\ t.action = "invalidate" => t.depth = 1 /\ Strength(question.web, 1, t.uri) >= 80
       /\ question.edges = {} /\ Len(question.got) < CascadeNodes =>
            {<<t.uri, t.depth>> : t \in tasks} = UNION {{<<b, d>> : b \in Ring4(question.web, d)} : d \in 1..CascadeDepth}

(***************************************************************************)
(* What wears out does so consistently: half-lives, reviews and cascades   *)
(* (predict, task_for_entry, apply_adoption, plan, plan_from_invalidated). *)
(***************************************************************************)
ForgettingConsistent == HalfLifeSane /\ ReviewsConsistent /\ PlanTakesTheMostDue /\ CascadeExact
=============================================================================
