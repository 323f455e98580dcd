----------------------------- MODULE MCServices -----------------------------
(* The components whose concurrent callers share state, and the algorithms   *)
(* that answer one question at a time, each alone: a behaviour belongs to    *)
(* one part and leaves the variables of the others.                          *)
EXTENDS ConflictBindings, SessionCompressor, StoreReads, VersionStates, Sleeptime, Consolidation,
  KnowledgeHealth, TieredLoading, CognitiveTraining, InsightSearch, IntentPolicy, QueryPlan, RetrievalData,
  Marketplace, LlmChain, NatsIngest, EmbeddingMigration, WriteDedup, FederatedDiscovery, TLC

CONSTANTS n1, n2, s1, s2, s3, c1, c2, g1, g2, g3

\* Of the tasks of a sweep, one that writes what it chose and the guard.
TwoTasks == <<"quality", "consistency">>

(***************************************************************************)
(* What the retrieval modules are asked.                                   *)
(***************************************************************************)
Rule(id, kind, route, priority, words, negative, patterns) ==
  [id |-> id, kind |-> kind, route |-> route, priority |-> priority, words |-> words, negative |-> negative, patterns |-> patterns,
   plan |-> [exact |-> route # "vector", vector |-> TRUE, federation |-> FALSE, depth |-> 0]]
Layer(version, rules, maxRules, regex, maxBias, signed) ==
  [version |-> version, rules |-> rules, maxRules |-> maxRules, maxLayers |-> 2, allowRegex |-> regex, maxBias |-> maxBias, signed |-> signed]
BaseLayer == Layer(1, <<Rule("event", "event", "temporal", 90, {"when"}, {}, {"date"}), Rule("default", "semantic", "vector", 10, {}, {}, {})>>, 2, TRUE, 500, "no")
NarrowLayer == Layer(2, <<Rule("event", "event", "hybrid", 90, {"when"}, {"never"}, {})>>, 3, FALSE, 300, "good")
LongLayer == Layer(2, <<Rule("more", "event", "network", 90, {"date"}, {}, {})>>, 3, TRUE, 500, "no")
\* A valid file, one error of each kind, and layers whose merge loses the patterns.
FivePolicies ==
  {NULL, <<BaseLayer>>, <<BaseLayer, NarrowLayer>>, <<BaseLayer, LongLayer>>, <<[BaseLayer EXCEPT !.signed = "bad"]>>}
TwoIntents == {[words |-> {"when"}, caller |-> "retrieve"], [words |-> {"date", "never"}, caller |-> "api"]}

PlanRow(uri, type, quality, valid, updated) == [uri |-> uri, type |-> type, quality |-> quality, valid |-> valid, updated |-> updated]
FourRows ==
  {PlanRow(<<1>>, "fact", 5, TRUE, 1), PlanRow(<<1, 1>>, "error", 9, TRUE, 2), PlanRow(<<1, 2>>, "fact", 7, FALSE, 3), PlanRow(<<2>>, "fact", 7, TRUE, 2)}
\* One of the indexed entries is gone.
StaleIndex == {[uri |-> <<1, 1>>, score |-> 7, type |-> "error"], [uri |-> <<2>>, score |-> 9, type |-> "fact"], [uri |-> <<3>>, score |-> 8, type |-> "fact"]}
TwoEdges == {<<<<1>>, <<2>>>>, <<<<2>>, <<1, 2>>>>}
OfType(type) == [kind |-> "type", arg |-> type]
FourPredicates ==
  {<<>>, <<OfType("fact")>>, <<[kind |-> "quality", arg |-> 7], [kind |-> "valid"]>>, <<OfType("fact"), [kind |-> "since", arg |-> 2]>>}
FindIn(within, pred, budget, sorted, expand) ==
  [kind |-> "find", scope |-> within, pred |-> pred, budget |-> budget, order |-> sorted, expand |-> expand]
SimilarTo(pred) == [kind |-> "similar", pred |-> pred, budget |-> 1, expand |-> 0]
ManyQueries ==
  {FindIn(<<1>>, p, b, o, 0) : p \in FourPredicates, b \in {1, 4}, o \in {"natural", "quality"}}
  \cup {FindIn(<<>>, <<>>, 1, "relevance", 1)} \cup {SimilarTo(p) : p \in FourPredicates}
  \cup {[kind |-> "asof", uri |-> <<1>>], [kind |-> "traverse", start |-> <<1>>, hops |-> 2, pred |-> <<>>]}
  \cup {[kind |-> "composite", merge |-> m,
         queries |-> <<FindIn(<<>>, <<>>, 4, "recency", 0), SimilarTo(<<>>), FindIn(<<>>, <<OfType("fact")>>, 2, "recency", 0)>>] : m \in {"union", "dedup", "intersect", "first"}}
ThreeTexts == {[fact |-> TRUE, error |-> FALSE], [fact |-> FALSE, error |-> FALSE], [fact |-> TRUE, error |-> TRUE]}
TwoScopes == {<<1>>, <<2>>}
ThreeHints == {{}, {"vector"}, {"graph"}}

As(level, cost) == [level |-> level, cost |-> cost]
LongText == [texts |-> {As(1, 1), As(2, 2), As(3, 4)}, whole |-> {As(1, 4)}]
ShortText == [texts |-> {As(1, 2), As(3, 3)}, whole |-> {As(1, 4)}]
Structured == [texts |-> {}, whole |-> {As(2, 2)}]
SixHits == {[relevance |-> r, quality |-> 75, texts |-> h.texts, whole |-> h.whole] : r \in {2, 90}, h \in {LongText, ShortText, Structured}}
TenHits == [relevance : {3, 5}, audit : {"good", "irrelevant", "invented", "garbled", "fails"}]
ThreeViews == {<<"p">>, <<"p", "r">>, <<"q">>}
ThreeBatches == {<<"a">>, <<"a", "b", "a">>, <<"c", "b">>}
ShortSamples == UNION {[1..n -> {0, 6, 18}] : n \in 1..3}

AllGraphs == SUBSET {<<1, 2>>, <<2, 3>>, <<3, 1>>, <<4, 3>>}
TwelveCitations ==
  {[relevance |-> r, quality |-> 50, words |-> w, claims |-> c] : r \in {40, 90}, w \in {{"a"}, {"a", "b"}}, c \in {{}, {"must"}, {"must not"}}}
ThreeQuestions == {{}, {"a"}, {"b", "c", "d", "e"}}
Seen(kind, key, value, confidences) == {[kind |-> kind, key |-> key, value |-> value, confidence |-> c, at |-> t] : c \in confidences, t \in {1, 2}}
ManyObservations ==
  Seen("stated", "k", "v", {300, 900}) \cup Seen("shown", "k", "w", {300, 900}) \cup Seen("summary", "k", "v", {300, 900})
  \cup Seen("trust", "k", "negative", {300, 900}) \cup Seen("trust", "k", "unclear", {900})
  \cup UNION {Seen(kind, "k", "v", {900}) \cup Seen(kind, "l", "v", {300}) : kind \in {"knows", "gap"}}
TwoCentralities == {[n \in 1..4 |-> 50], [n \in 1..4 |-> IF n = 4 THEN 90 ELSE 10 * n]}
AskedNodes == {{}, {1}, {4}}
FourLists == {<<>>, <<1, 2, 3>>, <<3, 3, 2>>, <<4, 1>>}
TwoUris == {<<"d", 1>>, <<"e", 1>>}

(***************************************************************************)
(* What the marketplace is asked.                                          *)
(***************************************************************************)
Ballot(voter, op, at, id) == [voter |-> voter, op |-> op, at |-> at, id |-> id]
FourBallots == {Ballot("a", "up", 0, 1), Ballot("a", "down", 2, 2), Ballot("b", "down", 1, 3), Ballot("b", "flag", 1, 4)}
Offer(id, domain, quality) == [id |-> id, domain |-> domain, quality |-> quality]
TwoOffers == {Offer(1, "d", 3), Offer(2, "d", 1)}
PeerOffers == {Offer(3, "d", 2), Offer(4, "e", 4)}
ManyParents == {<<>>, <<1>>, <<2, 3>>, <<3, 1>>}
Claim(id, by, words, denies, cites, sources, quality, free, merit, harm) ==
  [id |-> id, by |-> by, domain |-> "d", words |-> words, denies |-> denies, cites |-> cites, sources |-> sources,
   quality |-> quality, free |-> free, merit |-> merit, harm |-> harm]
FourClaims ==
  {Claim(1, "x", {1, 2, 3}, FALSE, {1}, 5, 95, TRUE, 90, 0), Claim(2, "y", {1, 2}, TRUE, {2}, 2, 60, TRUE, 90, 0),
   Claim(3, "y", {1, 2, 3}, FALSE, {1}, 1, 90, FALSE, 95, 0), Claim(4, "z", {1, 2, 3, 4}, TRUE, {1}, 0, 20, TRUE, 20, 4)}
ManyPatches ==
  {[patcher |-> p, clock |-> c, principle |-> r, items |-> i, quality |-> 40 * c] :
     p \in 1..2, c \in 0..2, r \in {NULL, "P", "Q"}, i \in {<<>>, <<1, 2>>, <<2, 3>>}}
ManyVerdicts == {NULL} \cup [says : {"keep_a", "keep_b", "fuse", "keep_both", "nonsense"}, sure : {50, 90}]
FourAntibodies ==
  {[id |-> 1, near |-> 90, severity |-> 1, confidence |-> 90], [id |-> 2, near |-> 85, severity |-> 3, confidence |-> 90],
   [id |-> 3, near |-> 84, severity |-> 4, confidence |-> 90], [id |-> 4, near |-> 99, severity |-> 2, confidence |-> 50]}
ManyContributions == [by : {"x", "y"}, entry : {1, 2}, value : {0, 2}, shares : {"all", "lost", "changed"}, intact : BOOLEAN]

(***************************************************************************)
(* What the maintenance of memories is asked.                              *)
(***************************************************************************)
ManySignals ==
  {[horizon |-> h, prior |-> p, adopted |-> a, ignored |-> 100 - a, contradictions |-> c, corrected |-> x, confirmed |-> y,
    support |-> n, repeated |-> n + 1, age |-> g] :
     h \in {"short", "mid", "long"}, p \in {20, 90}, a \in {0, 100}, c \in {0, 2}, x \in BOOLEAN, y \in BOOLEAN, n \in {0, 4}, g \in {0, 60}}
BothCiteTheSecond == {<<1, 2>>, <<3, 2>>}
Forecast(uri, probability) == [uri |-> uri, probability |-> probability]
TwoForecasts == {<<Forecast("u", 30), Forecast("v", 40)>>, <<Forecast("v", 90), Forecast("u", 10)>>}
LoadFeedback(useful, downstream) == [useful |-> useful, downstream |-> downstream]
ThreeFeedbacks == {LoadFeedback(TRUE, 1000), LoadFeedback(TRUE, 0), LoadFeedback(FALSE, 0)}
ThreeDisputes == {[a |-> 1, b |-> 2, overlap |-> 60], [a |-> 2, b |-> 3, overlap |-> 40], [a |-> 1, b |-> 3, overlap |-> 50]}

(***************************************************************************)
(* What the ports are asked.                                               *)
(***************************************************************************)
SomeTexts == {<<"x">>, <<"x", "y", "x">>, <<"y", "z", "x">>}
TwoRoutes == <<[prefix |-> <<"context">>, channel |-> "main"], [prefix |-> <<"context", "market">>, channel |-> "monitoring"]>>
TwoTypes == {<<"context", "market">>, <<"other">>}
OneItem == <<[name |-> 1, modality |-> "text"]>>
DedupEntry(uri, type, full) == [uri |-> uri, type |-> type, full |-> full, dense |-> <<1, 2, 3>>]
FourBatches ==
  {<<DedupEntry(1, "fact", <<1, 2, 3>>)>>, <<DedupEntry(2, "fact", <<>>), DedupEntry(3, "fact", <<1, 2, 3, 4>>)>>,
   <<DedupEntry(3, "note", <<1, 2, 3>>), DedupEntry(1, "fact", <<2, 3, 4>>)>>, <<DedupEntry(2, "fact", <<7>>)>>}
\* The text of the scope of 1 and 2 begins that of 3.
BesideOrUnder == [u \in 1..3 |-> IF u = 3 THEN {3} ELSE {1, 2, 3}]

Request(intent, peers, quality, free, domains) ==
  [intent |-> intent, query |-> [domains |-> domains, quality |-> quality, free |-> free, epsilon |-> 1],
   opts |-> [peers |-> peers, probe |-> 1, fetch |-> 1, concurrency |-> 2]]
\* One call that is tuned beyond its peers and one that no grant covers.
FourRequests ==
  {Request("fast", 3, 50, TRUE, {"d"}), Request("training", 3, 50, TRUE, {"d"}), Request("fast", 2, 50, TRUE, {"d"}), Request("fast", 5, 95, TRUE, {"e"})}
OneGrant == {[domains |-> {"d"}, epsilon |-> 1, ends |-> 3]}
\* Too few, one of whom the router takes one alone, and all.
ThreeFindings == {{1}, {1, 4}, {1, 2}}

(***************************************************************************)
(* What a training run meets.                                              *)
(***************************************************************************)
Learnt(uri, type, quality, confidence, evidence, contradictions) ==
  [uri |-> uri, type |-> type, quality |-> quality, confidence |-> confidence, converged |-> TRUE, valid |-> TRUE, traceable |-> TRUE,
   evidence |-> evidence, contradictions |-> contradictions, outcome |-> "none"]
AFact == Learnt("f", "fact", 70, 80, 1, 2)
AGuess == [Learnt("h", "hypothesis", 75, 90, 1, 0) EXCEPT !.outcome = "falsified"]
\* A contradicted fact makes its epoch accept; a skill inside the scope and one outside; products that never train.
SixProductBatches ==
  {<<>>, <<Learnt("g", "fact", 90, 80, 1, 2), [AFact EXCEPT !.quality = 60]>>,
   <<Learnt("s", "skill", 70, 60, 0, 0), AFact, [AGuess EXCEPT !.outcome = "none"]>>,
   <<AFact, AGuess, Learnt("o", "skill", 60, 60, 0, 0)>>,
   <<Learnt("p", "procedure", 75, 50, 0, 0), Learnt("e", "error", 70, 90, 0, 1)>>, <<[AFact EXCEPT !.converged = FALSE]>>}
ThreeConfigs ==
  {[epochs |-> 2, batch |-> 2, min |-> 30, aware |-> FALSE], [epochs |-> 1, batch |-> 1, min |-> 60, aware |-> TRUE],
   [epochs |-> 1, batch |-> 3, min |-> 10, aware |-> TRUE]}
Attempt(success, errors, steps) == [success |-> success, errors |-> errors, steps |-> steps]
TwoRuns == {<<Attempt(TRUE, 0, 2), Attempt(FALSE, 1, 3)>>, <<Attempt(TRUE, 1, 5)>>}
FourLifecycleSignals ==
  {[centrality |-> 0, priority |-> 10], [centrality |-> 90, priority |-> 50], [centrality |-> 10, priority |-> 95], [centrality |-> 10, priority |-> NULL]}
FourCourseEdges == {<<"f", "x">>, <<"s", "x">>, <<"f", "y">>, <<"s", "f">>}
YIsCentral == [u \in {"x", "y", "f"} |-> IF u = "y" THEN 90 ELSE 10]
TwoTargets == <<"b", "c">>

SearchFrom(density, errors, hypotheses, confidence) == [density |-> density, errors |-> errors, hypotheses |-> hypotheses, confidence |-> confidence]
\* A sparse graph, one at the limit, and one with more hypotheses than evidence.
ThreeSearches == {SearchFrom(2000, 1, 1, 40), SearchFrom(9990, 0, 0, 90), SearchFrom(5000, 0, 30, 10)}
TwoProposals == {NULL, <<Act(25, 50, FALSE), Act(70, 100, TRUE), Act(25, 50, FALSE)>>}
Reflection(type, text, weight) == [type |-> type, text |-> text, weight |-> weight]
\* The same key under two types, texts that contain one another, and one without weight.
FourReflections ==
  {<<Reflection("error", <<"a", "b", "c">>, 50), Reflection("skill", <<"a", "b", "c">>, 30)>>,
   <<Reflection("error", <<"a", "b", "c", "d">>, 20), Reflection("error", <<"x">>, 0)>>, <<Reflection("error", <<"b", "c", "a">>, 20)>>, <<>>}
TwoEdits == {<<"a", "b", "c">>, <<"x">>}

VARIABLE part

vars == <<part, bindVars, compressorVars, browsingVars, graphVars, snapVars, diffVars,
          sleepVars, consolidationVars, forgettingVars, policyVars, planVars, recallVars, answerVars,
          marketVars, marketDataVars, healthVars, llmVars, natsVars, migrationVars, dedupVars, tierVars, loaderVars, discoveryVars, trainingVars, searchVars, votingVars>>

Symmetry == Permutations(Clients)

Only(p) ==
  /\ part = p /\ UNCHANGED part
  /\ p # "bindings" => UNCHANGED bindVars
  /\ p # "compressor" => UNCHANGED compressorVars
  /\ p # "browse" => UNCHANGED browsingVars
  /\ p # "graph" => UNCHANGED graphVars
  /\ p # "snapshots" => UNCHANGED snapVars
  /\ p # "diff" => UNCHANGED diffVars
  /\ p # "sleep" => UNCHANGED sleepVars
  /\ p # "consolidation" => UNCHANGED consolidationVars
  /\ p # "forgetting" => UNCHANGED forgettingVars
  /\ p # "policy" => UNCHANGED policyVars
  /\ p # "plan" => UNCHANGED planVars
  /\ p # "recall" => UNCHANGED recallVars
  /\ p # "answer" => UNCHANGED answerVars
  /\ p # "market" => UNCHANGED marketVars
  /\ p # "appraisal" => UNCHANGED marketDataVars
  /\ p # "health" => UNCHANGED healthVars
  /\ p # "llm" => UNCHANGED llmVars
  /\ p # "nats" => UNCHANGED natsVars
  /\ p # "migration" => UNCHANGED migrationVars
  /\ p # "dedup" => UNCHANGED dedupVars
  /\ p # "tiers" => UNCHANGED tierVars
  /\ p # "loader" => UNCHANGED loaderVars
  /\ p # "discovery" => UNCHANGED discoveryVars
  /\ p # "training" => UNCHANGED trainingVars
  /\ p # "search" => UNCHANGED searchVars
  /\ p # "voting" => UNCHANGED votingVars

Init ==
  /\ part \in {"bindings", "compressor", "browse", "graph", "snapshots", "diff",
              "sleep", "consolidation", "forgetting", "policy", "plan", "recall", "answer", "market", "appraisal", "health", "llm", "nats", "migration", "dedup", "tiers", "loader", "discovery", "training", "search", "voting"}
  /\ part # "compressor" => overlap = FALSE
  /\ part # "graph" => engine = "sqlite"
  /\ part # "snapshots" => snapEngine = "sqlite"
  /\ part # "diff" => older = Atom(1)
  /\ part # "sleep" => roster = {}
  /\ part # "market" => topic = "voting"
  /\ part # "health" => stage = "score"
  /\ BindingsInit /\ CompressorInit /\ BrowsingInit /\ GraphInit
  /\ SnapInit /\ DiffInit /\ SleepInit /\ ConsolidationInit /\ ForgettingInit
  /\ PolicyInit /\ PlanInit /\ RecallInit /\ AnswerInit /\ MarketInit /\ MarketDataInit /\ HealthInit /\ LlmInit /\ NatsInit /\ MigrationInit /\ DedupInit /\ TierInit /\ LoaderInit /\ DiscoveryInit /\ TrainingInit /\ SearchInit /\ VotingInit
  /\ part # "policy" => policySource.layers = <<BaseLayer>>
  /\ part # "llm" => models.cheap = "own"

Next ==
  \/ Only("bindings") /\ BindingsNext
  \/ Only("compressor") /\ CompressorNext
  \/ Only("browse") /\ BrowsingNext
  \/ Only("graph") /\ GraphNext
  \/ Only("snapshots") /\ SnapNext
  \/ Only("diff") /\ DiffNext
  \/ Only("sleep") /\ SleepNext
  \/ Only("consolidation") /\ ConsolidationNext
  \/ Only("forgetting") /\ ForgettingNext
  \/ Only("policy") /\ PolicyNext
  \/ Only("plan") /\ PlanNext
  \/ Only("recall") /\ RecallNext
  \/ Only("answer") /\ AnswerNext
  \/ Only("market") /\ MarketNext
  \/ Only("appraisal") /\ MarketDataNext
  \/ Only("health") /\ HealthNext
  \/ Only("llm") /\ LlmNext
  \/ Only("nats") /\ NatsNext
  \/ Only("migration") /\ MigrationNext
  \/ Only("dedup") /\ DedupNext
  \/ Only("tiers") /\ TierNext
  \/ Only("loader") /\ LoaderNext
  \/ Only("discovery") /\ DiscoveryNext
  \/ Only("training") /\ TrainingNext
  \/ Only("search") /\ SearchNext
  \/ Only("voting") /\ VotingNext

\* Page by page or from a cache, a read agrees with the rows it reads from.
ReadsAgree == (part = "browse" => WalksAreComplete) /\ (part = "graph" => GraphReadsAgree)

\* A snapshot and a delta rebuild the state they stand for.
StatesRebuild == (part = "snapshots" => SnapshotsTrue) /\ (part = "diff" => DiffsRebuild)

\* What the consolidation of memories decides agrees with what it is to decide.
KnowledgeSound ==
  /\ part = "consolidation" => ConsolidationSound
  /\ part = "forgetting" => ForgettingConsistent
  /\ part = "health" => HealthSound
  /\ part = "tiers" => TiersSound
  /\ part = "loader" => LoaderSound
  /\ part = "training" => TrainingSound
  /\ part = "search" => SearchSound
  /\ part = "voting" => VotingSound

\* A retrieval plans, loads and answers what was asked.
RetrievalSound ==
  /\ part = "policy" => PolicySound
  /\ part = "plan" => PlansSound
  /\ part = "recall" => RecallSound
  /\ part = "answer" => AnswersSound

\* The marketplace counts, finds and appraises what was published.
MarketSound == (part = "market" => MarketStateSound) /\ (part = "appraisal" => MarketDataSound)

\* What leaves the process and comes back is taken once and means what was asked.
PortsSound ==
  /\ part = "llm" => LlmSound
  /\ part = "nats" => NatsSound
  /\ part = "migration" => MigrationSound
  /\ part = "dedup" => DedupSound
  /\ part = "discovery" => DiscoverySound

Spec == Init /\ [][Next]_vars

\* One caller of the bindings, for their liveness.
EvictionSpec == Init /\ part = "bindings" /\ [][Only("bindings") /\ BindingsNext]_vars /\ BindingsFairness
=============================================================================
