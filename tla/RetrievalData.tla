--------------------------- MODULE RetrievalData ----------------------------
(* What a retrieval does with what it found: what is loaded and kept, and what *)
(* is answered.  The two share no state.                                     *)
EXTENDS Absent, Integers, FiniteSets, FiniteSetsExt, Sequences, SequencesExt, Functions
LOCAL INSTANCE TLC

(***************************************************************************)
(* What a retrieval does with its hits: load them within a budget of tokens,  *)
(* pass them through the quality gate, embed texts through a cache, keep      *)
(* lists of results for a while and code vectors.                             *)
(***************************************************************************)
CONSTANTS
  TokenBudgets,
  BudgetHits,                \* [relevance, quality, in hundredths; texts, whole: what it may be loaded as]
  WindowTotal,               \* tokens of the context window
  GateHits,                  \* [relevance, audit: "good", "irrelevant", "invented", "garbled" or "fails"]
  GateMin,
  EmbedBatches, EmbedCapacity,
  ViewQueries,               \* sequences: a scope is a prefix of a query
  ViewCapacity, ViewTtl, MaxClock,
  Samples                    \* sequences of numbers whose means are whole

VARIABLES
  recall,            \* the last question and its answer
  windowUsed,        \* CompressionAwareLoader
  embedCache,        \* the embedding cache: text |-> vector
  views,             \* MaterializedView: query |-> [made, expires]
  viewClock

recallVars == <<recall, windowUsed, embedCache, views, viewClock>>

\* value_for, in ten-thousandths: the gain of the level less a hundredth of the logarithm of one plus the cost.
LevelGain == <<100, 145, 185>>
CostPenalty == <<69, 110, 139, 161, 179>>
ValueFor(hit, choice) == (hit.relevance * hit.quality * LevelGain[choice.level]) \div 100 - CostPenalty[Max({choice.cost, 1})]
\* choices_for_hit: the levels of a text that fit, else what the hit holds as a whole.
LoadChoices(hit, budget) ==
  LET fit == {c \in hit.texts : c.cost <= budget} IN IF fit # {} THEN fit ELSE {c \in hit.whole : c.cost <= budget}

\* select_choices: one layer per hit; a cell holds the best value and the choices that
\* lead to it (the code follows its predecessors back), the first that is found best.
NextLayer(cells, hit, budget) ==
  [t \in 0..budget |->
     LET value(c) == cells[t - c.cost].value + ValueFor(hit, c)
         better == {c \in LoadChoices(hit, budget) : c.cost \in 1..t /\ value(c) > cells[t].value}
         first(c, d) == \/ value(c) > value(d)
                        \/ value(c) = value(d) /\ (c.cost > d.cost \/ (c.cost = d.cost /\ c.level <= d.level))
         best == CHOOSE c \in better : \A d \in better : first(c, d)
     IN IF better = {} THEN [value |-> cells[t].value, picks |-> Append(cells[t].picks, NULL)]
        ELSE [value |-> value(best), picks |-> Append(cells[t - best.cost].picks, best)]]
SelectChoices(hits, budget) ==
  LET empty == [t \in 0..budget |-> [value |-> 0, picks |-> <<>>]]
      cells == FoldLeft(LAMBDA c, h : NextLayer(c, h, budget), empty, hits)
      last == Max({t \in 0..budget : \A u \in 0..budget : cells[u].value <= cells[t].value})
  IN cells[last].picks

Chosen(picks) == {i \in DOMAIN picks : picks[i] # NULL}
TokensOf(picks) == MapThenSumSet(LAMBDA i : picks[i].cost, Chosen(picks))
WorthOf(hits, picks) == MapThenSumSet(LAMBDA i : ValueFor(hits[i], picks[i]), Chosen(picks))

\* load_hits_within_budget: the most relevant first, equals by their place (their URI).
LoadWithin ==
  /\ \E hits \in UNION {[1..n -> BudgetHits] : n \in 0..2}, budget \in TokenBudgets :
       LET picks == SelectChoices(hits, budget)
       IN recall' = [ask |-> "load", hits |-> hits, budget |-> budget, picks |-> picks, tokens |-> TokensOf(picks),
                     loaded |-> SetToSortSeq(Chosen(picks), LAMBDA i, j : hits[i].relevance > hits[j].relevance \/ (hits[i].relevance = hits[j].relevance /\ i < j))]
  /\ UNCHANGED <<windowUsed, embedCache, views, viewClock>>

\* CompressionAwareLoader: what is left of the window is the budget.
Remaining == Max({0, WindowTotal - windowUsed})
\* PressureLevel::from_ratio and default_level.
LevelUnder(used) == IF 10 * used < 3 * WindowTotal THEN 3 ELSE IF 10 * used < 6 * WindowTotal THEN 2 ELSE 1
AllocateLevels ==
  /\ \E hits \in [1..2 -> BudgetHits] :
       recall' = [ask |-> "allocate", left |-> Remaining, picks |-> SelectChoices(hits, Remaining), level |-> LevelUnder(windowUsed)]
  /\ UNCHANGED <<windowUsed, embedCache, views, viewClock>>
\* The caller loads what was allocated and reports the tokens, perhaps more than it was given.
Consume ==
  /\ recall # NULL /\ recall.ask = "allocate"
  /\ \E more \in {0, WindowTotal} : windowUsed' = windowUsed + TokensOf(recall.picks) + more
  /\ recall' = NULL /\ UNCHANGED <<embedCache, views, viewClock>>

\* HallucinationDetector::evaluate: a model that fails passes the hit, one that
\* answers nonsense leaves it to the threshold.
Passes(hit) == hit.audit = "fails" \/ (hit.audit \in {"good", "garbled"} /\ hit.relevance >= GateMin)
ConsistencyScore(hit) == CASE hit.audit = "fails" -> 5 [] hit.audit = "invented" -> 2 [] OTHER -> 9
PassGate ==
  /\ \E hits \in UNION {[1..n -> GateHits] : n \in 0..2} :
       LET rejected == {i \in DOMAIN hits : ~Passes(hits[i])}
           verified == Len(hits) - Cardinality(rejected)
       IN recall' = [ask |-> "gate", hits |-> hits, scores |-> [i \in DOMAIN hits |-> [consistency |-> ConsistencyScore(hits[i]), passed |-> Passes(hits[i])]],
                     rejected |-> rejected, confidence |-> IF hits = <<>> THEN 100 ELSE (100 * verified) \div Len(hits)]
  /\ UNCHANGED <<windowUsed, embedCache, views, viewClock>>

\* batch_embed: what the cache has not is asked for once and handed out by position.  The
\* provider fails, answers too few vectors, or one of the wrong size: that is found after
\* the vectors before it were kept.  What a full cache drops is up to the cache.
NotEmbedded(texts) == SelectSeq([i \in DOMAIN texts |-> IF \E j \in 1..(i - 1) : texts[j] = texts[i] THEN NULL ELSE texts[i]],
                                LAMBDA t : t # NULL /\ t \notin DOMAIN embedCache)
KeptVectors(missing, loaded, n) ==
  LET known == [t \in DOMAIN embedCache \cup Range(SubSeq(missing, 1, n)) |->
                  IF t \in DOMAIN embedCache THEN embedCache[t] ELSE loaded[CHOOSE i \in 1..n : missing[i] = t]]
  IN {Restrict(known, kept) : kept \in {s \in SUBSET DOMAIN known : Cardinality(s) <= EmbedCapacity}}
BatchEmbed ==
  /\ \E texts \in EmbedBatches :
       LET missing == NotEmbedded(texts)
           loaded == [i \in DOMAIN missing |-> <<"vector", missing[i]>>]
           vectorOf(t) == IF t \in DOMAIN embedCache THEN embedCache[t] ELSE loaded[CHOOSE i \in DOMAIN missing : missing[i] = t]
       IN \/ /\ missing # <<>> /\ UNCHANGED embedCache
             /\ recall' = [ask |-> "embed", texts |-> texts, vectors |-> NULL]
          \/ \E bad \in DOMAIN missing :
               embedCache' \in KeptVectors(missing, loaded, bad - 1) /\ recall' = [ask |-> "embed", texts |-> texts, vectors |-> NULL]
          \/ /\ embedCache' \in KeptVectors(missing, loaded, Len(missing))
             /\ recall' = [ask |-> "embed", texts |-> texts, vectors |-> [i \in DOMAIN texts |-> vectorOf(texts[i])]]
  /\ UNCHANGED <<windowUsed, views, viewClock>>

\* MaterializedView: set makes room first, also when it replaces a query's list.
Oldest(n) == CHOOSE old \in SUBSET DOMAIN views :
  Cardinality(old) = n /\ \A q \in old, r \in DOMAIN views \ old : views[q].expires <= views[r].expires
Room == IF Cardinality(DOMAIN views) < ViewCapacity THEN {} ELSE Oldest(Cardinality(DOMAIN views) - ViewCapacity + 1)
SetView ==
  /\ \E q \in ViewQueries :
       /\ views' = [r \in (DOMAIN views \ Room) \cup {q} |-> IF r = q THEN [made |-> viewClock, expires |-> viewClock + ViewTtl] ELSE views[r]]
       /\ recall' = [ask |-> "set", query |-> q]
  /\ UNCHANGED <<windowUsed, embedCache, viewClock>>
GetView ==
  /\ \E q \in ViewQueries :
       recall' = [ask |-> "get", query |-> q, at |-> viewClock,
                  list |-> IF q \in DOMAIN views /\ views[q].expires > viewClock THEN views[q] ELSE NULL]
  /\ UNCHANGED <<windowUsed, embedCache, views, viewClock>>
InvalidateViews ==
  /\ \E scope \in ViewQueries \cup {<<>>} :
       /\ views' = [q \in {r \in DOMAIN views : ~IsPrefix(scope, r)} |-> views[q]]
       /\ recall' = [ask |-> "invalidate", scope |-> scope]
  /\ UNCHANGED <<windowUsed, embedCache, viewClock>>
ViewTick == viewClock < MaxClock /\ viewClock' = viewClock + 1 /\ UNCHANGED <<recall, windowUsed, embedCache, views>>

\* VectorQuantizer, one subvector of one dimension.
Distance(a, b) == (a - b) * (a - b)
ToNearest(x, centroids) == Min({Distance(x, centroids[i]) : i \in DOMAIN centroids})
\* nearest_centroid and encode take the first of the nearest, initialize_centroids the last of the farthest.
Nearest(x, centroids) == Min({i \in DOMAIN centroids : Distance(x, centroids[i]) = ToNearest(x, centroids)})
FarthestOf(samples, centroids) ==
  samples[Max({i \in DOMAIN samples : \A j \in DOMAIN samples : ToNearest(samples[j], centroids) <= ToNearest(samples[i], centroids)})]
RECURSIVE Seeds(_, _, _)
Seeds(samples, k, centroids) == IF Len(centroids) >= k THEN centroids ELSE Seeds(samples, k, Append(centroids, FarthestOf(samples, centroids)))
Recentre(samples, centroids, assigned) ==
  [c \in DOMAIN centroids |->
     LET own == {i \in DOMAIN samples : assigned[i] = c}
     IN IF own = {} THEN samples[((c - 1) % Len(samples)) + 1] ELSE MapThenSumSet(LAMBDA i : samples[i], own) \div Cardinality(own)]
RECURSIVE KMeans(_, _, _, _)
KMeans(samples, centroids, assigned, rounds) ==
  LET now == [i \in DOMAIN samples |-> Nearest(samples[i], centroids)]
      moved == Recentre(samples, centroids, now)
  IN IF rounds = 1 \/ now = assigned THEN moved ELSE KMeans(samples, moved, now, rounds - 1)
Codebook(samples, size) ==
  LET k == Min({size, Len(samples), 256})
  IN IF k = 0 THEN <<>> ELSE KMeans(samples, Seeds(samples, k, <<samples[1]>>), [i \in DOMAIN samples |-> 1], 24)
TrainQuantizer ==
  /\ \E samples \in Samples, size \in 0..3 :
       LET book == Codebook(samples, size)
       IN recall' = [ask |-> "train", samples |-> samples, size |-> size, book |-> book,
                     encoded |-> [i \in DOMAIN samples |-> IF book = <<>> THEN NULL ELSE Nearest(samples[i], book)]]
  /\ UNCHANGED <<windowUsed, embedCache, views, viewClock>>

RecallInit == recall = NULL /\ windowUsed = 0 /\ embedCache = <<>> /\ views = <<>> /\ viewClock = 0
\* The objects are independent: a behaviour uses one of them.
RecallNext ==
  \/ recall = NULL /\ windowUsed = 0 /\ (LoadWithin \/ PassGate \/ TrainQuantizer)
  \/ windowUsed <= 2 * WindowTotal /\ (recall = NULL /\ AllocateLevels)
  \/ Consume
  \/ views = <<>> /\ viewClock = 0 /\ windowUsed = 0 /\ BatchEmbed
  \/ embedCache = <<>> /\ windowUsed = 0 /\ (SetView \/ GetView \/ InvalidateViews \/ ViewTick)

(***************************************************************************)
(* The loader never exceeds the budget, no other choice of levels is worth *)
(* more, and the hits that no choice holds are left out; an allocation     *)
(* stays within what is left of the window; a hit that did not pass is     *)
(* rejected and only then does the confidence fall; a text gets its own    *)
(* vector, also when the batch repeats it, the cache has some, or an       *)
(* earlier batch broke off; the views stay within their capacity, hold     *)
(* nothing that was invalidated and return nothing that has expired; a     *)
(* codebook as large as the set of its samples codes each without loss     *)
(* (select_choices, allocate_levels, evaluate, batch_embed,                *)
(* MaterializedView, VectorQuantizer).                                     *)
(***************************************************************************)
RecallSound ==
  /\ Cardinality(DOMAIN views) <= ViewCapacity /\ Cardinality(DOMAIN embedCache) <= EmbedCapacity
  /\ \A t \in DOMAIN embedCache : embedCache[t] = <<"vector", t>>
  /\ recall # NULL =>
       CASE recall.ask = "load" ->
              /\ recall.tokens <= recall.budget /\ Len(recall.loaded) = Cardinality(Chosen(recall.picks))
              /\ \A i \in 1..(Len(recall.loaded) - 1) : recall.hits[recall.loaded[i]].relevance >= recall.hits[recall.loaded[i + 1]].relevance
              /\ LET options(i) == {NULL} \cup LoadChoices(recall.hits[i], recall.budget)
                     plans == {p \in [DOMAIN recall.hits -> UNION {options(i) : i \in DOMAIN recall.hits}] : \A i \in DOMAIN p : p[i] \in options(i)}
                 IN \A other \in plans : TokensOf(other) <= recall.budget => WorthOf(recall.hits, other) <= WorthOf(recall.hits, recall.picks)
         [] recall.ask = "allocate" -> TokensOf(recall.picks) <= recall.left /\ recall.left \in 0..WindowTotal
         [] recall.ask = "gate" ->
              /\ recall.confidence = 100 <=> recall.rejected = {}
              /\ \A i \in DOMAIN recall.hits : recall.hits[i].audit \in {"irrelevant", "invented"} => i \in recall.rejected
         [] recall.ask = "embed" -> recall.vectors # NULL => \A i \in DOMAIN recall.texts : recall.vectors[i] = <<"vector", recall.texts[i]>>
         [] recall.ask = "get" -> recall.list # NULL => recall.list.made <= recall.at /\ recall.at < recall.list.made + ViewTtl
         [] recall.ask = "set" -> recall.query \in DOMAIN views
         [] recall.ask = "invalidate" -> \A q \in DOMAIN views : ~IsPrefix(recall.scope, q)
         [] recall.ask = "train" ->
              /\ Len(recall.book) <= recall.size
              /\ Cardinality(Range(recall.samples)) <= recall.size =>
                   \A i \in DOMAIN recall.samples : recall.book[recall.encoded[i]] = recall.samples[i]

(***************************************************************************)
(* What stands between a retrieval and an answer: communities of the graph,   *)
(* neighbours of the hits, an answer that may abstain, a model of whom is     *)
(* answered, what feedback teaches and what is fetched ahead.  Scores are     *)
(* whole numbers, thousandths unless a comment says otherwise.                *)
(***************************************************************************)
CONSTANTS
  RagNodes, RagGraphs, RagHops, MaxCommunities, MaxRagNodes, MaxSummaryNodes,
  Centralities,      \* functions from nodes to hundredths
  AskedOf,           \* sets of nodes: those whose URI has the words of the question
  NeighbourLists,    \* what the graph lists as the neighbours of a hit
  Citations,         \* [relevance, quality, in hundredths; words, claims]
  Questions,         \* sets of words
  MaxCitations,
  Observations,      \* [kind, key, value, confidence, at]
  MaxObservations, HintTerms,
  LearnerUris,       \* sequences: their head is their directory
  LearnerQueries, MaxDirs, MaxMissing, MaxLearned, PrefetchSize

VARIABLES
  answered,          \* the last question and its answer
  person,            \* TheoryOfMindModel
  observed,          \* observations so far
  learner,           \* IncrementalRetrievalLearner
  prefetcher         \* PredictivePrefetcher

answerVars == <<answered, person, observed, learner, prefetcher>>
AtMost(a, b) == Min({a, b})
Bounded(x, lo, hi) == Max({lo, Min({x, hi})})
WithKey(f, k, v) == [x \in DOMAIN f \cup {k} |-> IF x = k THEN v ELSE f[x]]
ValueAt(f, k, default) == IF k \in DOMAIN f THEN f[k] ELSE default
Leading(s, n) == SubSeq(s, 1, AtMost(n, Len(s)))
\* A sort by falling weight that keeps the order of equals.
ByWeight(s, Weight(_)) ==
  LET order == SortSeq([i \in DOMAIN s |-> i], LAMBDA i, j : Weight(s[i]) > Weight(s[j]) \/ (Weight(s[i]) = Weight(s[j]) /\ i < j))
  IN [i \in DOMAIN s |-> s[order[i]]]

\* expand_graph: outgoing edges from each node nearer to a seed than the hops.
RECURSIVE Expansion(_, _, _)
Expansion(graph, nodes, hops) ==
  IF hops = 0 THEN nodes ELSE Expansion(graph, nodes \cup {e[2] : e \in {d \in graph : d[1] \in nodes}}, hops - 1)
Adjacency(graph, seeds) ==
  LET edges == {e \in graph : e[1] \in Expansion(graph, seeds, RagHops - 1)}
  IN [n \in Expansion(graph, seeds, RagHops) |-> {e[2] : e \in {d \in edges : d[1] = n}} \cup {e[1] : e \in {d \in edges : d[2] = n}}]
\* detect_communities
RECURSIVE Reach(_, _)
Reach(adjacent, nodes) == LET more == nodes \cup UNION {adjacent[n] : n \in nodes} IN IF more = nodes THEN nodes ELSE Reach(adjacent, more)
Communities(adjacent) == {Reach(adjacent, {n}) : n \in DOMAIN adjacent}
\* node_rank, average_node_rank and node_score, in ten-thousandths.
DegreeShare(adjacent, n) == AtMost(100, (100 * Cardinality(adjacent[n])) \div 12)
NodeRank(adjacent, central, n) == 72 * central[n] + 28 * DegreeShare(adjacent, n)
NodeScore(adjacent, central, n) == 75 * central[n] + 25 * DegreeShare(adjacent, n)
CommunityScore(adjacent, central, c) == MapThenSumSet(LAMBDA n : NodeRank(adjacent, central, n), c) \div Cardinality(c)
\* The nodes of a community by rank, equals by their URI.
ByRank(rank) == SetToSortSeq(DOMAIN rank, LAMBDA m, n : rank[m] > rank[n] \/ (rank[m] = rank[n] /\ m < n))
\* summarize_community: has the summary the words of the question?  Without a model it
\* quotes the first nodes; a model (says) may write anything.
Mentions(adjacent, central, c, asked, says) ==
  IF says # NULL THEN says
  ELSE Range(Leading(ByRank([n \in c |-> NodeRank(adjacent, central, n)]), MaxSummaryNodes)) \cap asked # {}
\* build_index and build_hierarchy: a root over the communities when they are more than one.
Hierarchy(adjacent, central, asked, says) ==
  LET leaf(c) == [nodes |-> c, root |-> FALSE, score |-> CommunityScore(adjacent, central, c), mentions |-> Mentions(adjacent, central, c, asked, says)]
      leaves == SetToSortSeq({leaf(c) : c \in Communities(adjacent)}, LAMBDA c, d : c.score > d.score \/ (c.score = d.score /\ Min(c.nodes) < Min(d.nodes)))
  IN IF Len(leaves) <= 1 THEN [i \in DOMAIN leaves |-> [leaves[i] EXCEPT !.root = TRUE]]
     ELSE <<[nodes |-> DOMAIN adjacent, root |-> TRUE, score |-> leaves[1].score, mentions |-> FALSE]>> \o leaves
\* rank_communities
RankOf(c) == AtMost(10000, (IF c.mentions THEN 7200 ELSE 0) + c.score \div 5 + IF c.root THEN 800 ELSE 0)
RankedCommunities(tree) == Leading(ByWeight([i \in DOMAIN tree |-> i], LAMBDA i : RankOf(tree[i])), Max({1, MaxCommunities}))
\* rank_nodes_in_community
RagNodesOf(adjacent, central, asked, c) ==
  Leading(ByRank([n \in c.nodes |-> NodeScore(adjacent, central, n) + IF n \in asked THEN 2000 ELSE 0]), MaxRagNodes)
RagHits(adjacent, central, asked, tree) ==
  LET ranked == RankedCommunities(tree)
      of(i) == <<[node |-> NULL, parent |-> i, relevance |-> AtMost(10000, Max({RankOf(tree[i]), tree[i].score}))]>>
               \o [j \in DOMAIN RagNodesOf(adjacent, central, asked, tree[i]) |->
                     LET n == RagNodesOf(adjacent, central, asked, tree[i])[j] IN
                     [node |-> n, parent |-> i, relevance |-> Bounded((88 * RankOf(tree[i]) + 12 * NodeScore(adjacent, central, n)) \div 100, 500, 10000)]]
  IN FlattenSeq([k \in DOMAIN ranked |-> of(ranked[k])])

\* The edges are those of the relations that the index follows; a node whose content
\* cannot be read is a hit with none, a graph that fails fails the retrieval.
AskGraphRag ==
  /\ \/ answered' = [ask |-> "failed"]
     \/ \E graph \in RagGraphs, seeds \in SUBSET RagNodes, central \in Centralities, asked \in AskedOf, says \in {NULL} \cup BOOLEAN :
          LET adjacent == Adjacency(graph, seeds)
              tree == Hierarchy(adjacent, central, asked, says)
          IN answered' = [ask |-> "graph", graph |-> graph, seeds |-> seeds, tree |-> tree, ranked |-> RankedCommunities(tree),
                          hits |-> RagHits(adjacent, central, asked, tree)]
  /\ UNCHANGED <<person, observed, learner, prefetcher>>

\* AssociativeExpander::expand with its defaults: the first two neighbours of each hit, but
\* for those seen before; what the code calls a hop is the place in the list.
AddNeighbour(state, hit, list, hop) ==
  IF list[hop] \in state.seen THEN state
  ELSE [seen |-> state.seen \cup {list[hop]},
        extra |-> Append(state.extra, [node |-> list[hop], from |-> hit.node, relevance |-> hit.relevance \div (2 ^ (hop - 1))])]
AssociatedWith(hits, lists) ==
  LET of(state, i) == IF lists[i] = NULL THEN state
                      ELSE FoldLeft(LAMBDA s, hop : AddNeighbour(s, hits[i], lists[i], hop), state, [hop \in 1..AtMost(2, Len(lists[i])) |-> hop])
  IN FoldLeft(of, [seen |-> {hits[i].node : i \in DOMAIN hits}, extra |-> <<>>], [i \in DOMAIN hits |-> i]).extra
\* maybe_expand_associative; the neighbours of a hit may be out of reach.
AskAssociative ==
  /\ \E first, second \in [node : RagNodes, relevance : {400, 900}], lists \in [1..2 -> NeighbourLists \cup {NULL}] :
       LET hits == IF first.node = second.node THEN <<first>> ELSE <<first, second>>
       IN answered' = [ask |-> "associate", hits |-> hits \o AssociatedWith(hits, lists), first |-> Len(hits)]
  /\ UNCHANGED <<person, observed, learner, prefetcher>>

\* select_citations and confidence_for, in ten-thousandths.
CitationScore(c) == 65 * c.relevance + 35 * c.quality
\* has_contradiction_marker looks for words: who says "must not" has also said "must".
Says(c) == c.claims \cup IF "must not" \in c.claims THEN {"must"} ELSE {}
Opposed(c, d) == ("must" \in Says(c) /\ "must not" \in Says(d)) \/ ("must not" \in Says(c) /\ "must" \in Says(d))
Clashes(cs) == {p \in (DOMAIN cs) \X (DOMAIN cs) : p[1] < p[2] /\ Opposed(cs[p[1]], cs[p[2]])}
Confidence(question, cs) ==
  LET evidence == IF cs = <<>> THEN 0 ELSE MapThenSumSet(LAMBDA i : CitationScore(cs[i]), DOMAIN cs) \div Len(cs)
      covered == question \cap UNION {cs[i].words : i \in DOMAIN cs}
      coverage == IF question = {} THEN 5000 ELSE (10000 * Cardinality(covered)) \div Cardinality(question)
      consistency == 10000 - AtMost(5000 * Cardinality(Clashes(cs)), 8500)
  IN [evidence |-> evidence, coverage |-> coverage, consistency |-> consistency,
      final |-> AtMost(10000, (45 * evidence + 30 * coverage + 25 * consistency) \div 100)]
\* abstention_reason
Abstains(cs, c) == cs = <<>> \/ c.evidence < 4500 \/ c.coverage < 3200 \/ c.consistency < 5500 \/ c.final < 4800
Selected(hits) == Leading(ByWeight(hits, CitationScore), MaxCitations)
\* synthesize: without a model, or with one that fails, the answer is the first three excerpts.
Synthesize ==
  /\ \E question \in Questions, hits \in UNION {[1..n -> Citations] : n \in 0..3}, model \in BOOLEAN :
       LET cs == Selected(hits)
           c == Confidence(question, cs)
       IN answered' = [ask |-> "answer", question |-> question, hits |-> hits, citations |-> cs, confidence |-> c,
                       answer |-> IF Abstains(cs, c) THEN NULL ELSE IF model THEN <<"model">> ELSE Leading(cs, 3)]
  /\ UNCHANGED <<person, observed, learner, prefetcher>>

\* TheoryOfMindModel: merge_confidence, and decay_to in whole days (decayed counts them).
MergeConfidence(old, new) == 1000 - ((1000 - Bounded(old, 0, 1000)) * (1000 - Bounded(new, 0, 1000))) \div 1000
RECURSIVE Retained(_, _, _)
Retained(x, days, rate) == IF days <= 0 THEN x ELSE Retained((x * rate) \div 1000, days - 1, rate)
DecayTo(p, at) ==
  IF at <= p.updated THEN p
  ELSE LET days == at - p.updated
           fade(f) == [k \in DOMAIN f |-> Retained(f[k], days, 985)]
       IN [p EXCEPT !.known = fade(@), !.unknown = fade(@),
                    !.preferences = [k \in DOMAIN @ |-> [@[k] EXCEPT !.confidence = Retained(@, days, 985)]],
                    !.strength = Retained(@, days, 992), !.trust = 500 + Retained(@ - 500, days, 992), !.updated = at, !.decayed = @ + days]
\* The arms of apply_observation_with_reaction.
Prefers(p, o, confidence) ==
  LET old == IF o.key \in DOMAIN p.preferences THEN p.preferences[o.key].confidence ELSE 0
  IN [p EXCEPT !.preferences = WithKey(@, o.key, [value |-> o.value, confidence |-> MergeConfidence(old, confidence)])]
MoreSure(f, o) == WithKey(f, o.key, MergeConfidence(ValueAt(f, o.key, 0), o.confidence))
Softened(f, o) == [k \in DOMAIN f |-> IF k # o.key THEN f[k] ELSE (f[k] * (1000 - AtMost(800, o.confidence \div 2))) \div 1000]
\* A trust signal says how much, or else its confidence does.
Signed(o) == CASE o.value = "positive" -> 1000 [] o.value = "negative" -> -1000 [] OTHER -> o.confidence - 500
ApplyObservation(p, o) ==
  CASE o.kind = "stated" -> Prefers(p, o, o.confidence)
    [] o.kind = "shown" -> Prefers(p, o, o.confidence + 100)
    [] o.kind = "knows" -> [p EXCEPT !.known = MoreSure(@, o), !.unknown = [k \in DOMAIN @ \ {o.key} |-> @[k]]]
    [] o.kind = "gap" -> [p EXCEPT !.unknown = MoreSure(@, o), !.known = Softened(@, o)]
    [] o.kind = "trust" -> [p EXCEPT !.trust = Bounded(@ + (Signed(o) * o.confidence) \div 4000, 0, 1000), !.strength = MergeConfidence(@, (o.confidence * 8) \div 10)]
    [] o.kind = "summary" -> [p EXCEPT !.strength = MergeConfidence(@, (o.confidence * 6) \div 10)]
\* The clock of the model is set to the observation, back as well as forth.
Observe ==
  /\ observed < MaxObservations /\ observed' = observed + 1
  /\ \E o \in Observations :
       person' = [ApplyObservation(DecayTo(person, o.at), o) EXCEPT !.updated = o.at, !.backwards = @ \/ o.at < person.updated, !.latest = Max({@, o.at})]
  /\ UNCHANGED <<answered, learner, prefetcher>>

\* retrieval_hint: what is known comes first, and gaps have the room that is left.
TopKeys(f, n) ==
  Leading(SetToSortSeq({k \in DOMAIN f : f[k] >= 250}, LAMBDA j, k : f[j] > f[k] \/ (f[j] = f[k] /\ j < k)), n)
AskHint ==
  /\ LET sure == {k \in DOMAIN person.preferences : person.preferences[k].confidence >= 350}
         gaps == TopKeys(person.unknown, HintTerms)
     IN \E order \in {s \in SetToSeqs(sure) : \A i, j \in DOMAIN s : i < j => person.preferences[s[i]].confidence >= person.preferences[s[j]].confidence} :
          answered' = [ask |-> "hint",
                       preferences |-> [i \in 1..AtMost(HintTerms, Len(order)) |-> <<order[i], person.preferences[order[i]].value>>],
                       knowledge |-> Leading([i \in DOMAIN TopKeys(person.known, HintTerms) |-> <<"knows", TopKeys(person.known, HintTerms)[i]>>]
                                             \o [i \in DOMAIN gaps |-> <<"gap", gaps[i]>>], HintTerms)]
  /\ UNCHANGED <<person, observed, learner, prefetcher>>

\* rebalance_weights: what is missing most moves weight to exploration.
Weights(missing) ==
  LET pressure == AtMost(1000, Max({0} \cup {missing[i].weight : i \in DOMAIN missing}))
      exploration == 40 + (pressure * 40) \div 1000
      rest == 1000 - exploration
  IN [exploration |-> exploration, semantic |-> (580 * rest) \div 960, uri |-> (240 * rest) \div 960, type |-> (140 * rest) \div 960]
Towards(w, reward) == w + (Bounded(reward, 0, 1000) - w) \div 10
\* reinforce_dir
ReinforceDir(list, dir, reward) ==
  LET at == {i \in DOMAIN list : list[i].dir = dir}
      next == IF at # {} THEN [i \in DOMAIN list |-> IF i \in at THEN [list[i] EXCEPT !.weight = Bounded(Towards(@, reward), 50, 1400)] ELSE list[i]]
              ELSE Append(list, [dir |-> dir, weight |-> Bounded(500 + reward \div 2, 50, 1400)])
  IN Leading(ByWeight(next, LAMBDA d : d.weight), MaxDirs)
DirsAfter(q, u, reward) == WithKey(learner.dirs, q, ReinforceDir(ValueAt(learner.dirs, q, <<>>), u[1], reward))
\* apply_feedback, of one item: Relevant, NotRelevant and Missing.
Relevant(l, q, u, score) == [l EXCEPT !.scores = WithKey(@, u, Bounded(Towards(ValueAt(@, u, 500), score), 0, 1000)), !.dirs = DirsAfter(q, u, score)]
NotRelevant(l, q, u) == [l EXCEPT !.scores = WithKey(@, u, Max({50, (9 * ValueAt(@, u, 500)) \div 10})), !.dirs = DirsAfter(q, u, 100)]
\* record_missing: a full list keeps what it has, for what is new comes last.
RecordMissing(missing, q, what) ==
  LET at == {i \in DOMAIN missing : missing[i].query = q /\ missing[i].what = what}
  IN IF at # {} THEN [missing EXCEPT ![Min(at)].weight = AtMost(1000, @ + 100)]
     ELSE Leading(ByWeight(Append(missing, [query |-> q, what |-> what, weight |-> 500]), LAMBDA m : m.weight), MaxMissing)
WeakenLast(list) == IF list = <<>> THEN list ELSE [list EXCEPT ![Len(list)].weight = Max({100, (8 * @) \div 10})]
Missing(l, q, what) ==
  [l EXCEPT !.missing = RecordMissing(@, q, what), !.dirs = WithKey(@, q, WeakenLast(ValueAt(@, q, <<>>))), !.reports = @ \cup {<<q, what>>}]
Rebalanced(l) == [l EXCEPT !.weights = Weights(l.missing), !.learned = @ + 1]

Learn ==
  /\ learner.learned < MaxLearned
  /\ \E q \in LearnerQueries :
       \/ \E u \in LearnerUris, score \in {0, 1000} : learner' = Rebalanced(Relevant(learner, q, u, score))
       \/ \E u \in LearnerUris : learner' = Rebalanced(NotRelevant(learner, q, u))
       \/ \E what \in {"x", "y"} : learner' = Rebalanced(Missing(learner, q, what))
  /\ UNCHANGED <<answered, person, observed, prefetcher>>
\* signal_reward and apply_learning_signals, of one signal.
RewardOf(base, clicked, adopted) == (35 * base) \div 100 + (IF clicked THEN 200 ELSE 0) + IF adopted THEN 350 ELSE 0
LearnFromSignal ==
  /\ learner.learned < MaxLearned
  /\ \E q \in LearnerQueries, u \in LearnerUris, typed, clicked, adopted \in BOOLEAN :
       LET reward == RewardOf(1000, clicked, adopted)
           told == [learner EXCEPT !.types = IF typed THEN WithKey(@, q, Bounded(Towards(ValueAt(@, q, 500), reward), 0, 1000)) ELSE @]
       IN learner' = Rebalanced(IF reward >= 500 THEN Relevant(told, q, u, reward) ELSE NotRelevant(told, q, u))
  /\ UNCHANGED <<answered, person, observed, prefetcher>>

\* PredictivePrefetcher: learn_association strengthens one link, then all of them fade.
LearnAssociation ==
  /\ prefetcher.steps < MaxLearned
  /\ \E from, to \in LearnerUris :
       LET list == ValueAt(prefetcher.links, from, <<>>)
           next == IF \E i \in DOMAIN list : list[i].to = to THEN [i \in DOMAIN list |-> IF list[i].to = to THEN [list[i] EXCEPT !.strength = @ + 100] ELSE list[i]]
                   ELSE Append(list, [to |-> to, strength |-> 300])
       IN prefetcher' = [prefetcher EXCEPT !.steps = @ + 1,
                           !.links = WithKey(@, from, [i \in DOMAIN next |-> [next[i] EXCEPT !.strength = (99 * @) \div 100]])]
  /\ UNCHANGED <<answered, person, observed, learner>>
RecordAccess ==
  /\ prefetcher.steps < MaxLearned
  /\ \E u \in LearnerUris : prefetcher' = [prefetcher EXCEPT !.steps = @ + 1, !.accesses = WithKey(@, u, ValueAt(@, u, 0) + 1)]
  /\ UNCHANGED <<answered, person, observed, learner>>
\* predict: the links in the order they were learnt, else the most accessed: the current
\* one takes a place and is left out.  prefetch: some of them cannot be read.
AskPredict ==
  /\ \E current \in LearnerUris, unread \in SUBSET LearnerUris :
       LET links == Leading(ValueAt(prefetcher.links, current, <<>>), PrefetchSize)
       IN \E order \in {s \in SetToSeqs(DOMAIN prefetcher.accesses) : \A i, j \in DOMAIN s : i < j => prefetcher.accesses[s[i]] >= prefetcher.accesses[s[j]]} :
            LET predicted == IF links # <<>> THEN [i \in DOMAIN links |-> links[i].to] ELSE SelectSeq(Leading(order, PrefetchSize), LAMBDA u : u # current)
            IN answered' = [ask |-> "predict", current |-> current, predicted |-> predicted, loaded |-> SelectSeq(predicted, LAMBDA u : u \notin unread)]
  /\ UNCHANGED <<person, observed, learner, prefetcher>>

AnswerInit ==
  /\ answered = NULL /\ observed = 0
  /\ person = [known |-> <<>>, unknown |-> <<>>, preferences |-> <<>>, strength |-> 0, trust |-> 500, updated |-> 0,
               decayed |-> 0, backwards |-> FALSE, latest |-> 0]
  /\ learner = [learned |-> 0, scores |-> <<>>, dirs |-> <<>>, types |-> <<>>, missing |-> <<>>, reports |-> {}, weights |-> Weights(<<>>)]
  /\ prefetcher = [steps |-> 0, links |-> <<>>, accesses |-> <<>>]
\* The objects are independent: a behaviour uses one of them.
AnswerNext ==
  \/ answered = NULL /\ observed = 0 /\ learner.learned = 0 /\ prefetcher.steps = 0 /\ (AskGraphRag \/ AskAssociative \/ Synthesize)
  \/ answered = NULL /\ learner.learned = 0 /\ prefetcher.steps = 0 /\ (Observe \/ (observed > 0 /\ AskHint))
  \/ answered = NULL /\ observed = 0 /\ prefetcher.steps = 0 /\ (Learn \/ LearnFromSignal)
  \/ answered = NULL /\ observed = 0 /\ learner.learned = 0 /\ (LearnAssociation \/ RecordAccess \/ AskPredict)

(***************************************************************************)
(* The leaves of the community tree split what the seeds reach and joined  *)
(* nodes share one; what speaks of the question is ranked before what does *)
(* not, a node comes under a community it is in, and no more hits come     *)
(* than were asked for; an expansion never repeats a hit, and what it adds *)
(* does not outrank the hit it came from; an answer is given only for      *)
(* citations that cover the question and do not clash, and the best hits   *)
(* are cited; the scores about a person stay scores and, while the         *)
(* observations come in order, a day is taken off once; a hint names only  *)
(* what is believed; the learnt weights share one whole and follow what is *)
(* missing, which is remembered while there is room; a prediction is a     *)
(* link of the current one or another that was accessed (expand_graph,     *)
(* rank_communities, expand, synthesize, apply_observation,                *)
(* retrieval_hint, apply_feedback, predict).                               *)
(***************************************************************************)
AnswersSound ==
  /\ answered # NULL =>
       CASE answered.ask = "failed" -> TRUE
         [] answered.ask = "graph" ->
              LET leaves == {c \in Range(answered.tree) : ~c.root \/ Len(answered.tree) = 1}
                  hits == answered.hits
                  ranked == answered.ranked
              IN
              /\ UNION {c.nodes : c \in leaves} = Expansion(answered.graph, answered.seeds, RagHops)
              /\ \A c, d \in leaves : c.nodes = d.nodes \/ c.nodes \cap d.nodes = {}
              /\ \A e \in answered.graph : e[1] \in Expansion(answered.graph, answered.seeds, RagHops - 1) => \E c \in leaves : {e[1], e[2]} \subseteq c.nodes
              /\ \A i \in DOMAIN answered.tree : answered.tree[i].mentions =>
                   \A k \in DOMAIN ranked : ~answered.tree[ranked[k]].mentions => \E j \in 1..(k - 1) : ranked[j] = i
              /\ \A i \in DOMAIN hits : hits[i].relevance \in 0..10000 /\ (hits[i].node # NULL => hits[i].node \in answered.tree[hits[i].parent].nodes)
              /\ Len(hits) <= MaxCommunities * (1 + MaxRagNodes)
         [] answered.ask = "associate" ->
              \A i \in (answered.first + 1)..Len(answered.hits) :
                /\ \A j \in 1..(i - 1) : answered.hits[j].node # answered.hits[i].node
                /\ \E j \in 1..answered.first : answered.hits[j].node = answered.hits[i].from /\ answered.hits[i].relevance <= answered.hits[j].relevance
         [] answered.ask = "answer" ->
              /\ answered.answer # NULL =>
                   /\ answered.citations # <<>> /\ Clashes(answered.citations) = {}
                   /\ answered.question # {} => answered.question \cap UNION {c.words : c \in Range(answered.citations)} # {}
              /\ \A h \in Range(answered.hits) \ Range(answered.citations) : \A c \in Range(answered.citations) : CitationScore(h) <= CitationScore(c)
         [] answered.ask = "hint" ->
              /\ \A i \in DOMAIN answered.preferences : person.preferences[answered.preferences[i][1]].value = answered.preferences[i][2]
              /\ \A i \in DOMAIN answered.knowledge : LET k == answered.knowledge[i] IN k[2] \in DOMAIN IF k[1] = "gap" THEN person.unknown ELSE person.known
              /\ Len(answered.knowledge) <= HintTerms
              /\ (\E i \in DOMAIN answered.knowledge : answered.knowledge[i][1] = "gap") =>
                   \A k \in DOMAIN person.known : person.known[k] >= 250 => <<"knows", k>> \in Range(answered.knowledge)
         [] answered.ask = "predict" ->
              /\ Len(answered.predicted) <= PrefetchSize
              /\ \A u \in Range(answered.predicted) :
                   IF answered.current \in DOMAIN prefetcher.links THEN \E i \in DOMAIN prefetcher.links[answered.current] : prefetcher.links[answered.current][i].to = u
                   ELSE u # answered.current /\ u \in DOMAIN prefetcher.accesses
  /\ \A x \in Range(person.known) \cup Range(person.unknown) \cup {f.confidence : f \in Range(person.preferences)} \cup {person.strength, person.trust} : x \in 0..1000
  /\ ~person.backwards => person.decayed = person.latest /\ person.updated = person.latest
  /\ \A x \in Range(learner.scores) \cup Range(learner.types) : x \in 0..1000
  /\ \A q \in DOMAIN learner.dirs : Len(learner.dirs[q]) <= MaxDirs /\ \A i, j \in DOMAIN learner.dirs[q] :
       learner.dirs[q][i].weight \in 50..1400 /\ (i # j => learner.dirs[q][i].dir # learner.dirs[q][j].dir)
  /\ LET w == learner.weights
         kept == {<<m.query, m.what>> : m \in Range(learner.missing)} IN
     /\ w = Weights(learner.missing) /\ w.exploration + w.semantic + w.uri + w.type \in 997..1000 /\ w.exploration <= 80
     /\ kept \subseteq learner.reports /\ Cardinality(kept) = Len(learner.missing)
     /\ Len(learner.missing) = AtMost(Cardinality(learner.reports), MaxMissing)
=============================================================================
