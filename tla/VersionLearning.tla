-------------------------- MODULE VersionLearning ---------------------------
(* What is learnt from the histories of versions: causes, dreams and beliefs. *)
(* The parts share no state.                                                 *)
EXTENDS Absent, Integers, FiniteSets, FiniteSetsExt, Sequences, SequencesExt

(***************************************************************************)
(* CausalInference: which changes of the past bring about which, as a graph  *)
(* to which edges are added one by one, and what changing one URI affects.   *)
(***************************************************************************)
CONSTANTS
  CausalUris,             \* how many URIs the commits touch
  CausalCommits,          \* the commits of the logs, as sets of changes
  CausalLength,           \* commits of a log
  MaxVariables, MinSupport, MaxParents,
  IndependencePercent     \* independence_threshold

VARIABLES
  causalSamples,          \* CausalSamples: the variables, and which of them each commit touched
  effectAt,               \* the place of the effect whose parents are being chosen
  chosenCauses,           \* its parents so far
  causalEdges,            \* [cause, effect, ate]
  intervention            \* the last intervention and what it affects

causalVars == <<causalSamples, effectAt, chosenCauses, causalEdges, intervention>>

CausalInit == causalSamples = NULL /\ effectAt = 0 /\ chosenCauses = {} /\ causalEdges = {} /\ intervention = NULL

\* touched_uris: both ends of a rename.
TouchedBy(commit) == UNION {IF x.kind = "rename" THEN {x.uri, x.to} ELSE {x.uri} : x \in commit}

\* build_causal_samples: the most frequent URIs first, and of equals by name.
Samples(log) ==
  LET touched == [t \in DOMAIN log |-> TouchedBy(log[t])]
      times == [u \in 1..CausalUris |-> Cardinality({t \in DOMAIN log : u \in touched[t]})]
      Before(u, v) == times[u] > times[v] \/ (times[u] = times[v] /\ u < v)
      byFrequency == SetToSortSeq({u \in 1..CausalUris : times[u] > 0}, Before)
      kept == SubSeq(byFrequency, 1, IF Len(byFrequency) < MaxVariables THEN Len(byFrequency) ELSE MaxVariables)
  IN [variables |-> kept, rows |-> [t \in DOMAIN log |-> touched[t] \cap Range(kept)]]

Variables == causalSamples.variables
Observed(t) == causalSamples.rows[t]
Steps == 1..(Len(causalSamples.rows) - 1)

\* Of a bucket of conditional_risk_difference: 12 times its weight times how much
\* more often the effect follows with the cause than without it.
Bucket(controls, shown) == {t \in Steps : Observed(t) \cap controls = shown}
With(cause, bucket) == {t \in bucket : cause \in Observed(t)}
Hits(effect, bucket) == Cardinality({t \in bucket : effect \in Observed(t + 1)})
Compared(cause, bucket) == With(cause, bucket) # {} /\ With(cause, bucket) # bucket
Lift(cause, effect, bucket) ==
  LET treated == With(cause, bucket)
      others == bucket \ treated
  IN (12 * Cardinality(bucket)
      * (Hits(effect, treated) * Cardinality(others) - Hits(effect, others) * Cardinality(treated)))
     \div (Cardinality(treated) * Cardinality(others))

RiskDifference(cause, effect, controls) ==
  LET compared == {shown \in SUBSET controls : Compared(cause, Bucket(controls, shown))}
  IN [sum |-> MapThenSumSet(LAMBDA shown : Lift(cause, effect, Bucket(controls, shown)), compared),
      weight |-> MapThenSumSet(LAMBDA shown : Cardinality(Bucket(controls, shown)), compared)]

Size(n) == IF n < 0 THEN -n ELSE n
Independent(d) == d.weight = 0 \/ 100 * Size(d.sum) < IndependencePercent * 12 * d.weight
\* marginal_association, to compare.
Association(cause, effect) ==
  LET d == RiskDifference(cause, effect, {}) IN IF d.weight = 0 THEN 0 ELSE (12 * Size(d.sum)) \div d.weight

Support(cause) == Cardinality({t \in Steps : cause \in Observed(t)})     \* exposure_support
Controls(cause, effect) == Range(Variables) \ {cause, effect}
\* conditioning_sets
ConditioningSets(controls) == {s \in SUBSET controls : Cardinality(s) <= 2}

\* pc_candidates: the causes that no set of others explains away.
Candidates(effect) ==
  {cause \in Range(Variables) \ {effect} :
     /\ Support(cause) >= MinSupport
     /\ \A s \in ConditioningSets(Controls(cause, effect)) : ~Independent(RiskDifference(cause, effect, s))}

\* The first set of controls tried: the one that goes most with the effect.
Adjustment(cause, effect) ==
  LET cs == {i \in DOMAIN Variables : Variables[i] \in Controls(cause, effect)}
      goes(i) == Association(Variables[i], effect)
  IN IF cs = {} THEN {}
     ELSE {Variables[CHOOSE i \in cs : \A j \in cs : goes(i) > goes(j) \/ (goes(i) = goes(j) /\ i <= j)]}

Downstream(edges, u) ==
  LET Step(us) == us \cup {e.effect : e \in {x \in edges : x.cause \in us}}
  IN FoldSeq(LAMBDA i, us : Step(us), {u}, [i \in 1..CausalUris |-> i])
HasPath(from, to) == to \in Downstream(causalEdges, from)

DiscoverCausalGraph ==
  /\ causalSamples = NULL
  /\ \E log \in [1..CausalLength -> CausalCommits] : causalSamples' = Samples(log)
  /\ effectAt' = 1 /\ UNCHANGED <<chosenCauses, causalEdges, intervention>>

Learning == causalSamples # NULL /\ effectAt \in DOMAIN Variables /\ Len(Variables) >= 2

\* ges_parents_for_effect: which of the candidates lowers the BIC most, if any, is
\* left open.  learn_causal_graph then takes or skips it.
ChooseParent ==
  /\ Learning
  /\ LET effect == Variables[effectAt]
     IN \E cause \in Candidates(effect) \ chosenCauses :
          LET d == RiskDifference(cause, effect, Adjustment(cause, effect))
          IN /\ Cardinality(chosenCauses) < MaxParents
             /\ chosenCauses' = chosenCauses \cup {cause}
             /\ causalEdges' = IF Support(cause) < MinSupport \/ d.sum <= 0 \/ HasPath(effect, cause) THEN causalEdges
                               ELSE causalEdges \cup {[cause |-> cause, effect |-> effect, ate |-> (12 * d.sum) \div d.weight]}
  /\ UNCHANGED <<causalSamples, effectAt, intervention>>

NextEffect ==
  /\ Learning
  /\ effectAt' = effectAt + 1 /\ chosenCauses' = {}
  /\ UNCHANGED <<causalSamples, causalEdges, intervention>>

\* apply_intervention: the paths from the target along the edges; which of those
\* to a URI weighs most depends on the confidences and is left open.
PathsFrom(target) ==
  LET Longer(paths) ==
        paths \cup {Append(p, e.effect) : <<p, e>> \in {x \in paths \X causalEdges :
                                                    Last(x[1]) = x[2].cause /\ x[2].effect \notin Range(x[1])}}
  IN FoldSeq(LAMBDA i, paths : Longer(paths), {<<target>>}, [i \in 1..CausalUris |-> i]) \ {<<target>>}

Intervene ==
  /\ causalSamples # NULL /\ ~Learning /\ intervention = NULL
  /\ \E target \in 1..CausalUris :
       LET paths == PathsFrom(target)
       IN \E best \in [{Last(p) : p \in paths} -> paths] :
            /\ \A u \in DOMAIN best : Last(best[u]) = u
            /\ intervention' = [target |-> target, affected |-> best]
  /\ UNCHANGED <<causalSamples, effectAt, chosenCauses, causalEdges>>

CausalNext == DiscoverCausalGraph \/ ChooseParent \/ NextEffect \/ Intervene

(***************************************************************************)
(* Nothing brings itself about, whatever parents the scores choose and in  *)
(* whatever order; a cause has been followed by its effect, and as often   *)
(* as the support asks; an intervention affects what lies downstream of    *)
(* its target and nothing else, and every URI along a path of the graph    *)
(* (learn_causal_graph, descendants, apply_intervention).                  *)
(***************************************************************************)
CausalSound ==
  /\ \A e \in causalEdges :
       /\ e.cause \notin Downstream(causalEdges, e.effect)
       /\ e.ate \in 1..144 /\ Hits(e.effect, With(e.cause, Steps)) > 0 /\ Support(e.cause) >= MinSupport
       /\ Cardinality({x \in causalEdges : x.effect = e.effect}) <= MaxParents
  /\ intervention # NULL =>
       /\ DOMAIN intervention.affected = Downstream(causalEdges, intervention.target) \ {intervention.target}
       /\ \A u \in DOMAIN intervention.affected :
            LET p == intervention.affected[u]
            IN /\ p[1] = intervention.target /\ Len(p) = Cardinality(Range(p))
               /\ \A i \in 1..(Len(p) - 1) : \E e \in causalEdges : e.cause = p[i] /\ e.effect = p[i + 1]

(***************************************************************************)
(* DreamConsolidator::sleep_replay_cycle: the last commits of a scope turned *)
(* into insights and crystals, and these into entries, with a model, reads   *)
(* and a store that fail and clients that commit meanwhile.  SelfHealer,     *)
(* which looks at the same log, is asked about every short log.              *)
(***************************************************************************)
CONSTANTS
  DreamCommits,       \* [adds: sequence of URIs, updates: sequence of URIs]
  ClusterOf,          \* URI -> the first three segments of its path
  MinCluster,         \* ReplaySleepConfig::min_cluster_size
  CandidateFloor,     \* min_crystal_confidence, in tenths
  WriterFloor,        \* CrystalWritebackConfig::min_confidence, in tenths
  MaxDreamCommits

VARIABLES
  dreamAt,            \* the step that comes next
  dreamLog,           \* the log of the scope, newest first
  replayed,           \* replayed_uris, replayed_commits and the writer: has it a store, and keeps it insights
  insights,           \* [cluster, count, by]
  crystals,           \* their confidences
  dreamStored,        \* the entries of this cycle that are in the store
  dreamReport,
  diagnosis           \* what SelfHealer was shown and what it proposes

dreamVars == <<dreamAt, dreamLog, replayed, insights, crystals, dreamStored, dreamReport, diagnosis>>

DreamInit ==
  /\ dreamAt = "log" /\ dreamLog = <<>> /\ replayed = [uris |-> <<>>, commits |-> 0, writer |-> NULL] /\ insights = {} /\ crystals = <<>>
  /\ dreamStored = {} /\ dreamReport = NULL /\ diagnosis = NULL

Awakens == {"failed", "done"}

\* A client commits while the cycle runs.
ClientCommits ==
  /\ dreamAt \notin Awakens /\ Len(dreamLog) < MaxDreamCommits /\ diagnosis = NULL
  /\ \E c \in DreamCommits : dreamLog' = <<c>> \o dreamLog
  /\ UNCHANGED <<dreamAt, replayed, insights, crystals, dreamStored, dreamReport, diagnosis>>

\* replay_uris_from_log: what was added or updated, each once, in order.
ReplayUris(log) ==
  FoldSeq(LAMBDA u, us : IF u \in Range(us) THEN us ELSE Append(us, u), <<>>,
          FlattenSeq([i \in DOMAIN log |-> log[i].adds \o log[i].updates]))

Writers == {w \in [stores : BOOLEAN, tells : BOOLEAN] : w.stores \/ w.tells}

ReadLog ==
  /\ dreamAt = "log" /\ diagnosis = NULL
  /\ \/ dreamAt' = "failed" /\ UNCHANGED replayed
     \/ /\ dreamAt' = "consolidate"
        /\ \E w \in Writers : replayed' = [uris |-> ReplayUris(dreamLog), commits |-> Len(dreamLog), writer |-> w]
  /\ UNCHANGED <<dreamLog, insights, crystals, dreamStored, dreamReport, diagnosis>>

\* consolidate: clusters of the additions, an addition for each time.
Added(log) == FlattenSeq([i \in DOMAIN log |-> log[i].adds])
Members(log, k) == {i \in DOMAIN Added(log) : ClusterOf[Added(log)[i]] = k}
Clusters(log) == {ClusterOf[u] : u \in Range(Added(log))}

\* A large cluster is described by the model, unless nothing of it can be read or
\* the model fails or says nothing; a small one counts, one change says nothing.
Insight(log, k, readable, answered) ==
  [cluster |-> k, count |-> Cardinality(Members(log, k)),
   by |-> IF Cardinality(Members(log, k)) >= MinCluster /\ k \in readable /\ k \in answered THEN "model" ELSE "count"]
Telling(log) == {k \in Clusters(log) : Cardinality(Members(log, k)) >= (IF MinCluster < 2 THEN MinCluster ELSE 2)}

\* It reads the log again, which may have grown.
Consolidate ==
  /\ dreamAt = "consolidate"
  /\ \/ dreamAt' = "failed" /\ UNCHANGED insights
     \/ /\ dreamAt' = "distill"
        /\ \E readable, answered \in SUBSET Clusters(dreamLog) :
             insights' = {Insight(dreamLog, k, readable, answered) : k \in Telling(dreamLog)}
  /\ UNCHANGED <<dreamLog, replayed, crystals, dreamStored, dreamReport, diagnosis>>

\* distill: nothing to read gives no crystals, and asks no model; an error of the
\* model, or an answer that is no list, ends the cycle.
Distill ==
  /\ dreamAt = "distill"
  /\ \/ dreamAt' = "crystals" /\ crystals' = <<>>
     \/ /\ replayed.uris # <<>>
        /\ \/ dreamAt' = "failed" /\ crystals' = <<>>
           \/ dreamAt' = "crystals" /\ \E n \in 1..2 : crystals' \in [1..n -> {2, 4, 12}]
  /\ UNCHANGED <<dreamLog, replayed, insights, dreamStored, dreamReport, diagnosis>>

\* entries_from_crystals: the index among all of them is part of the URI.
EntriesFromCrystals == {[kind |-> "crystal", at |-> i] : i \in {j \in DOMAIN crystals : crystals[j] >= WriterFloor}}
EntriesFromInsights ==
  IF replayed.writer.tells THEN {[kind |-> "insight", at |-> x.cluster] : x \in insights} ELSE {}

\* One batch_write.  A writer without a store has nothing that can fail.
WriteEntries(entries, after) ==
  \/ dreamAt' = "failed" /\ replayed.writer.stores /\ UNCHANGED dreamStored
  \/ dreamAt' = after /\ dreamStored' = dreamStored \cup (IF replayed.writer.stores THEN entries ELSE {})
Written(entries) == IF replayed.writer.stores THEN Cardinality(entries) ELSE 0

WriteCrystals ==
  /\ dreamAt = "crystals" /\ WriteEntries(EntriesFromCrystals, "insights")
  /\ UNCHANGED <<dreamLog, replayed, insights, crystals, dreamReport, diagnosis>>

\* The candidates for skills take their success rate from the confidence, but at
\* least 55 percent and at most 100.
SkillCandidates(floor) == {[at |-> i, rate |-> LET c == 10 * crystals[i] IN IF c < 55 THEN 55 ELSE IF c > 100 THEN 100 ELSE c]
                        : i \in {j \in DOMAIN crystals : crystals[j] >= floor}}

WriteInsights ==
  /\ dreamAt = "insights" /\ WriteEntries(EntriesFromInsights, "done")
  /\ dreamReport' = IF dreamAt' = "failed" THEN NULL
                    ELSE [written |-> Written(EntriesFromCrystals) + Written(EntriesFromInsights),
                          skipped |-> Len(crystals) - Cardinality(EntriesFromCrystals),
                          candidates |-> SkillCandidates(CandidateFloor)]
  /\ UNCHANGED <<dreamLog, replayed, insights, crystals, diagnosis>>

(***************************************************************************)
(* SelfHealer::diagnose, of the messages of a log and which of its commits *)
(* are empty.  Rolling back past the end of the log panics.                *)
(***************************************************************************)
Thrash(messages) ==
  Cardinality({i \in 2..(IF Len(messages) < 10 THEN Len(messages) ELSE 10) : messages[i] = messages[i - 1]})
Panic == 0
Rollback(messages) ==
  IF Len(messages) < 4 \/ Thrash(messages) < 3 THEN NULL
  ELSE IF Thrash(messages) + 2 > Len(messages) THEN Panic ELSE Thrash(messages) + 2

Diagnose ==
  /\ dreamAt = "log" /\ dreamLog = <<>> /\ diagnosis = NULL
  /\ \E n \in 0..6 : \E messages \in [1..n -> {"redo", "undo"}], empties \in SUBSET (1..n) :
       diagnosis' = [messages |-> messages, rollback |-> Rollback(messages), supplement |-> Cardinality(empties) >= 3]
  /\ UNCHANGED <<dreamAt, dreamLog, replayed, insights, crystals, dreamStored, dreamReport>>

(***************************************************************************)
(* TemporalReasoner, which reads the last commits up to a limit and keeps  *)
(* the ones of a window; a commit's time is its distance from the oldest.  *)
(***************************************************************************)
TimeOf(log, i) == Len(log) - i
Changed(commit) == commit.adds \o commit.updates
Timeline(log, from, to, limit) ==
  [i \in {j \in DOMAIN log : j <= limit /\ TimeOf(log, j) \in from..to} |-> Range(Changed(log[i]))]
\* detect_periodicity
Occurrences(log, u, limit) ==
  Len(SelectSeq(FlattenSeq([i \in 1..Min({limit, Len(log)}) |-> Changed(log[i])]), LAMBDA v : v = u))
Periodic(log, limit, least) == {u \in DOMAIN ClusterOf : Occurrences(log, u, limit) >= least}

Remember ==
  /\ dreamAt = "log" /\ dreamLog # <<>> /\ diagnosis = NULL
  /\ \E from, to \in 0..2, limit \in 1..2 :
       diagnosis' = [messages |-> <<>>, rollback |-> NULL, supplement |-> FALSE, from |-> from, to |-> to, limit |-> limit,
                     events |-> Timeline(dreamLog, from, to, limit), repeated |-> Periodic(dreamLog, limit, 2)]
  /\ UNCHANGED <<dreamAt, dreamLog, replayed, insights, crystals, dreamStored, dreamReport>>

DreamNext ==
  \/ ClientCommits \/ ReadLog \/ Consolidate \/ Distill \/ WriteCrystals \/ WriteInsights \/ Diagnose
  \/ Remember

(***************************************************************************)
(* A cycle stores everything it reports and reports everything it stores;  *)
(* one that fails stores all of its crystals or nothing; every group of    *)
(* URIs that changed together is told of once, even when the model fails;  *)
(* a candidate is remembered too unless the writer asks for more; a thrash *)
(* that begins the log and does not fill it is rolled back to the commit   *)
(* before it; what a window shows is a part of what a wider one shows, and *)
(* a URI that repeats in it is in its events (sleep_replay_cycle,          *)
(* consolidate, write_crystals, diagnose, evolution_timeline).             *)
(***************************************************************************)
DreamsSound ==
  /\ dreamReport # NULL =>
       /\ dreamReport.written = Cardinality(dreamStored)
       /\ replayed.writer.stores =>
            /\ dreamReport.written + dreamReport.skipped = Len(crystals) + Cardinality(EntriesFromInsights)
            /\ \A c \in dreamReport.candidates : crystals[c.at] >= WriterFloor => [kind |-> "crystal", at |-> c.at] \in dreamStored
  /\ dreamAt = "failed" => dreamStored \in {{}, EntriesFromCrystals}
  /\ dreamAt = "distill" =>
       \E since \in 0..(Len(dreamLog) - replayed.commits) :
         LET log == SubSeq(dreamLog, since + 1, Len(dreamLog))
         IN \A k \in Clusters(log) : Cardinality(Members(log, k)) > 1 => Cardinality({x \in insights : x.cluster = k}) = 1
  /\ \A i, j \in DOMAIN replayed.uris : replayed.uris[i] = replayed.uris[j] => i = j
  /\ diagnosis # NULL =>
       LET ms == diagnosis.messages
       IN \A n \in 4..(Len(ms) - 1) :
            (\A i \in DOMAIN ms : (ms[i] = ms[1]) <=> i <= n) /\ Thrash(ms) = n - 1 => diagnosis.rollback = n + 1
  /\ diagnosis # NULL /\ "events" \in DOMAIN diagnosis =>
       /\ \A i \in DOMAIN diagnosis.events : i \in DOMAIN Timeline(dreamLog, 0, diagnosis.to, diagnosis.limit + 1)
       /\ (diagnosis.from = 0 /\ diagnosis.to >= Len(dreamLog)) =>
            diagnosis.repeated \subseteq UNION Range(diagnosis.events)

(***************************************************************************)
(* How contradictory knowledge is settled: AgmBeliefReviser, which decides   *)
(* whether a new belief is taken, and CrdtMerger, which merges two versions  *)
(* of an entry.  Each is asked about every input of a small set.             *)
(***************************************************************************)
CONSTANTS
  Predicates,
  Entrenchments,      \* in hundredths
  MergeKeys           \* keys and items of the entries to merge

VARIABLE judged       \* what was asked, and the decision

beliefVars == <<judged>>

BeliefsInit == judged = NULL

\* AgmRevisionConfig, in hundredths.
RejectMargin == 18
DeferMargin == 6
MinExtraction == 45
Penalty(n) == IF n = 0 THEN 0 ELSE IF n = 1 THEN 12 ELSE 17     \* 0.12 * sqrt(n)

Literal(p, affirmed) == [predicate |-> p, affirmed |-> affirmed]
Contradicts(l, m) == l.predicate = m.predicate /\ l.affirmed # m.affirmed

\* A sentence that says something of its subject, or denies it with "not", the
\* first marker of negation that is tried.  A subject that begins with a marker is
\* cut and its claim taken as denied: with "not" ("notes") whatever the sentence
\* says, with a later one ("node") when it holds no "not".
Subjects == [name : Predicates, begins : {"plain", "no", "not"}]
ParseLiteral(sentence) ==
  LET cut == sentence.of.begins = "not" \/ (sentence.of.begins = "no" /\ sentence.says)
  IN Literal([of |-> sentence.of, cut |-> cut, denial |-> cut /\ ~sentence.says], sentence.says /\ ~cut)

FromText(literals, entrenchment) ==
  [literals |-> literals, entrenchment |-> entrenchment, confidence |-> IF literals = {} THEN 0 ELSE 55]

\* parse_neural_extraction: a claim without a subject or an object is dropped, and
\* without a claim nothing was read.
NeuralReading(answer) ==
  LET read == {Literal(c.predicate, c.polarity \notin {"negated", "negative", "false", "not"})
                 : c \in {x \in answer.claims : x.complete}}
  IN IF read = {} THEN NULL ELSE [literals |-> read, confidence |-> Min({answer.confidence, 100})]

\* sentence_from_text: what a model read is added when it is sure enough.
Sentence(literals, entrenchment, answer) ==
  LET read == IF answer = NULL THEN NULL ELSE NeuralReading(answer)
      text == FromText(literals, entrenchment)
  IN IF read # NULL /\ read.confidence >= MinExtraction
     THEN [text EXCEPT !.literals = @ \cup read.literals, !.confidence = read.confidence]
     ELSE text

\* detect_conflicts: the beliefs of the base against which a literal speaks.
Conflicts(base, incoming) ==
  {[at |-> i, on |-> l.predicate] : <<i, l>> \in
     {x \in (DOMAIN base) \X incoming.literals : \E m \in base[x[1]].literals : Contradicts(x[2], m)}}

SentenceCost(b) == b.entrenchment + Penalty(Cardinality(b.literals))

\* minimal_contraction_set: of each predicate the cheapest beliefs, until none of
\* its conflicts is left or the width is reached.
Cheapest(base, at, width) ==
  {i \in at : Cardinality({j \in at : SentenceCost(base[j]) < SentenceCost(base[i])
                                        \/ (SentenceCost(base[j]) = SentenceCost(base[i]) /\ j < i)}) < width}
\* Fault: one belief is contracted, however many there are.
ContractOne(base, conflicts, width) == Cheapest(base, {c.at : c \in conflicts}, 1)
ContractionSet(base, conflicts, width) ==
  UNION {Cheapest(base, {c.at : c \in {x \in conflicts : x.on = p}}, width) : p \in {c.on : c \in conflicts}}

RetainedAfter(base, contracted) == DOMAIN base \ contracted

Decision(action, contracted, retained) == [action |-> action, contracted |-> contracted, retained |-> retained]

Revise(base, incoming, width) ==
  LET conflicts == Conflicts(base, incoming)
      strongest == Max({0} \cup {base[c.at].entrenchment : c \in conflicts})
      contracted == ContractionSet(base, conflicts, width)
      n == Cardinality(contracted)
      advantage == n * incoming.entrenchment - MapThenSumSet(LAMBDA i : base[i].entrenchment, contracted)
  IN IF conflicts = {} THEN Decision("accept", {}, DOMAIN base)
     ELSE IF incoming.confidence < MinExtraction THEN Decision("defer", {}, DOMAIN base)
     ELSE IF strongest - incoming.entrenchment >= RejectMargin THEN Decision("reject", {}, DOMAIN base)
     ELSE IF advantage \in (-DeferMargin * n)..(DeferMargin * n) THEN Decision("defer", contracted, RetainedAfter(base, {}))
     ELSE Decision("contract", contracted, RetainedAfter(base, contracted))

LiteralSets == {{}} \cup {{Literal(p, a)} : p \in Predicates, a \in BOOLEAN}
               \cup {{Literal(p, a) : p \in Predicates} : a \in BOOLEAN}
BaseBeliefs == {FromText(ls, e) : ls \in LiteralSets \ {{}}, e \in Entrenchments}
Claims == [predicate : Predicates, polarity : {"not"}, complete : BOOLEAN]

AskRevision ==
  \E one, other \in BaseBeliefs, ls \in LiteralSets, e \in Entrenchments, width \in 1..2,
     answer \in {NULL} \cup [claims : {{c} : c \in Claims}, confidence : {40, 120}] :
    LET incoming == Sentence(ls, e, answer)
    IN judged' = [of |-> "revision", base |-> <<one, other>>, incoming |-> incoming, width |-> width,
                  got |-> Revise(<<one, other>>, incoming, width)]

\* resolve_conflict, revision_to_resolution: both texts are believed alike.
Resolution(a, b) ==
  LET d == Revise(<<FromText({ParseLiteral(a)}, 55)>>, FromText({ParseLiteral(b)}, 55), 2)
  IN CASE d.action \in {"accept", "contract"} -> "prefer b"
       [] d.action = "reject" -> "prefer a"
       [] OTHER -> "human"

AskResolution ==
  \E a, b \in [of : Subjects, says : BOOLEAN] :
    judged' = [of |-> "conflict", a |-> a, b |-> b, got |-> Resolution(a, b)]

(***************************************************************************)
(* CrdtMerger.  LwwMap keeps for a key the value of the later clock.       *)
(***************************************************************************)
LwwSet(old, new, oldClock, newClock) == IF new # NULL /\ (old = NULL \/ newClock >= oldClock) THEN new ELSE old
MergeLww(a, b) ==
  [version |-> Max({a.version, b.version}) + 1,
   pairs |-> [k \in MergeKeys |-> LwwSet(a.pairs[k], b.pairs[k], a.version, b.version)]]

\* merge_set_union: what the second adds comes after, and once.
MergeUnion(a, b) == FoldLeft(LAMBDA all, x : IF x \in Range(all) THEN all ELSE Append(all, x), a, b)

AskMerge ==
  \/ \E a, b \in [version : 1..2, pairs : [MergeKeys -> {NULL, 1, 2}]] :
       judged' = [of |-> "lww", a |-> a, b |-> b, got |-> MergeLww(a, b)]
  \/ \E n, o \in 0..2 : \E a \in [1..n -> MergeKeys], b \in [1..o -> MergeKeys] :
       judged' = [of |-> "union", a |-> a, b |-> b, got |-> MergeUnion(a, b)]

BeliefsNext == judged = NULL /\ (AskRevision \/ AskResolution \/ AskMerge)

(***************************************************************************)
(* A revision keeps every belief that does not speak against the new one,  *)
(* drops none that is much more entrenched, and leaves a consistent base   *)
(* consistent when it takes the new belief; two texts go to a human only   *)
(* if they contradict each other, and then unless their subject begins     *)
(* like a negation; a merge of entries of different versions does not     *)
(* depend on the order, loses no key and repeats into                      *)
(* itself (revise, resolve_conflict, merge_lww, merge_set_union).          *)
(***************************************************************************)
RevisionSound ==
  judged # NULL /\ judged.of = "revision" =>
    LET base == judged.base
        taken == judged.got.action \in {"accept", "contract"}
        rest == {base[i] : i \in judged.got.retained}
    IN /\ \A i \in DOMAIN base \ judged.got.retained :
            /\ (\E l \in base[i].literals, m \in judged.incoming.literals : Contradicts(l, m))
            /\ base[i].entrenchment < judged.incoming.entrenchment + RejectMargin
       /\ taken /\ judged.width >= Len(base) => \A s \in rest : \A l \in s.literals, m \in judged.incoming.literals : ~Contradicts(l, m)
       /\ ~taken => rest = Range(base)

MergeSound ==
  judged # NULL =>
    CASE judged.of = "conflict" ->
           /\ judged.a.of = judged.b.of /\ judged.a.says # judged.b.says /\ judged.a.of.begins = "plain" => judged.got = "human"
           /\ judged.a.of # judged.b.of \/ judged.a.says = judged.b.says => judged.got = "prefer b"
      [] judged.of = "lww" ->
           /\ judged.a.version # judged.b.version => MergeLww(judged.b, judged.a) = judged.got
           /\ \A k \in MergeKeys : judged.got.pairs[k] = NULL => judged.a.pairs[k] = NULL /\ judged.b.pairs[k] = NULL
           /\ \A k \in MergeKeys : judged.a.pairs[k] # NULL /\ judged.a.version > judged.b.version => judged.got.pairs[k] = judged.a.pairs[k]
           /\ MergeLww(judged.got, judged.b).pairs = judged.got.pairs
      [] judged.of = "union" ->
           /\ Range(judged.got) = Range(MergeUnion(judged.b, judged.a)) /\ Range(judged.got) = Range(judged.a) \cup Range(judged.b)
           /\ MergeUnion(judged.got, judged.b) = judged.got
      [] OTHER -> TRUE

BeliefsSound == RevisionSound /\ MergeSound
=============================================================================
