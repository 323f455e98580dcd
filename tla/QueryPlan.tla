------------------------------ MODULE QueryPlan ------------------------------
(* A retrieval: a query becomes a logical plan, the optimizer makes it a      *)
(* physical one, which its cache keeps, and the operators run it over the    *)
(* entries, an index of vectors that may be stale, and the graph.            *)
EXTENDS Absent, Integers, FiniteSets, FiniteSetsExt, Sequences, SequencesExt
LOCAL INSTANCE TLC

CONSTANTS
  PlanRows,          \* entries: [uri: a sequence of numbers, type, quality, valid, updated]
  VectorRows,        \* what the index has: [uri, score, type]
  PlanEdges,         \* pairs of URIs
  PlanQueries,       \* structured queries
  TextQueries,       \* [fact, error]: the words that a text has
  PlanCallers,       \* the scope each caller reads
  PlanHints,         \* what intent analysis prefers: sets of "vector", "graph"
  TypeStatistics, PlanDepth, CacheCapacity

VARIABLES
  planCache,         \* least recently used first: [key, plan]
  retrieved          \* the last retrieval

planVars == <<planCache, retrieved>>

Fewer(a, b) == Min({a, b})
Clamp(x, lo, hi) == Max({lo, Min({x, hi})})
FirstOf(s, n) == SubSeq(s, 1, Fewer(n, Len(s)))

\* A stable sort: higher keys first.
SortedBy(s, keys) ==
  LET ahead(i, j) == keys[i] > keys[j] \/ (keys[i] = keys[j] /\ i < j)
      order == SortSeq([i \in DOMAIN s |-> i], ahead)
  IN [i \in DOMAIN s |-> s[order[i]]]

\* The store lists by URI.
RECURSIVE Before(_, _)
Before(a, b) == b # <<>> /\ (a = <<>> \/ Head(a) < Head(b) \/ (Head(a) = Head(b) /\ Before(Tail(a), Tail(b))))
Scanned(prefix, wanted, limit) ==
  FirstOf(SetToSortSeq({r \in wanted : IsPrefix(prefix, r.uri)}, LAMBDA r, s : Before(r.uri, s.uri)), limit)
HitOf(r, relevance) == [uri |-> r.uri, type |-> r.type, quality |-> r.quality, valid |-> r.valid, updated |-> r.updated, relevance |-> relevance]
SparseHit(uri, relevance) == [uri |-> uri, type |-> "none", quality |-> -1, valid |-> TRUE, updated |-> -1, relevance |-> relevance]
Hits(rows, relevance) == [i \in DOMAIN rows |-> HitOf(rows[i], relevance)]

\* predicate_matches
Holds(c, h) ==
  CASE c.kind = "type" -> h.type = c.arg
    [] c.kind = "scope" -> IsPrefix(c.arg, h.uri)
    [] c.kind = "quality" -> h.quality >= c.arg
    [] c.kind = "since" -> h.updated >= c.arg
    [] c.kind = "valid" -> h.valid
Matches(pred, h) == \A i \in DOMAIN pred : Holds(pred[i], h)

\* query_to_logical
Selective(pred) == \E i \in DOMAIN pred : pred[i].kind \in {"quality", "since", "valid"}
ScanBudget(pred, budget) == Clamp(budget * (IF Selective(pred) THEN 4 ELSE 2), 1, 4096)
VectorBudget(pred, budget) == Clamp(budget * (IF pred = <<>> THEN 2 ELSE 5), 10, 512)
Filtered(plan, pred) == IF pred = <<>> THEN plan ELSE [op |-> "filter", input |-> plan, pred |-> pred]
Expanded(plan, hops) == IF hops = 0 THEN plan ELSE [op |-> "traverse", input |-> plan, hops |-> hops]
Ordered(plan, order) == IF order = "natural" THEN plan ELSE [op |-> "sort", input |-> plan, key |-> order]
RECURSIVE ToLogical(_)
ToLogical(q) ==
  CASE q.kind = "find" ->
         Expanded([op |-> "limit", budget |-> q.budget,
                   input |-> Ordered(Filtered([op |-> "scan", scope |-> q.scope, limit |-> ScanBudget(q.pred, q.budget)], q.pred), q.order)], q.expand)
    [] q.kind = "similar" ->
         Expanded([op |-> "limit", budget |-> q.budget, input |-> Filtered([op |-> "vector", topK |-> VectorBudget(q.pred, q.budget)], q.pred)], q.expand)
    [] q.kind = "asof" -> [op |-> "temporal", uri |-> q.uri]
    [] q.kind = "traverse" -> [op |-> "traverse", hops |-> q.hops, input |-> Filtered([op |-> "scan", scope |-> q.start, limit |-> 1], q.pred)]
    [] q.kind = "composite" -> [op |-> "parallel", merge |-> q.merge, plans |-> [i \in DOMAIN q.queries |-> ToLogical(q.queries[i])]]

\* RuleBasedPlanner::parse
ParsedText(t, caller) ==
  [op |-> "filter", input |-> [op |-> "scan", scope |-> caller, limit |-> 10],
   pred |-> (IF t.fact THEN <<[kind |-> "type", arg |-> "fact"]>> ELSE <<>>) \o (IF t.error THEN <<[kind |-> "type", arg |-> "error"]>> ELSE <<>>)
            \o <<[kind |-> "valid"]>>]

\* optimize_with_budget
TypeOnly(pred) == Len(pred) = 1 /\ pred[1].kind = "type"
Pushable(c) == c.kind \in {"type", "valid", "scope"}
RECURSIVE ExtractLimit(_)
ExtractLimit(p) ==
  CASE p.op = "scan" -> p.limit [] p.op = "limit" -> p.budget [] p.op \in {"filter", "sort", "traverse"} -> ExtractLimit(p.input) [] OTHER -> Clamp(TypeStatistics, 1, 4096)
ExtractScope(p) == IF p.op = "scan" THEN p.scope ELSE <<>>
Leaf(p) == p.op \in {"typescan", "prefix", "vector"}
TopK(topK, hint) == IF "vector" \in hint THEN topK * 2 ELSE topK
RECURSIVE Optimize(_, _, _)
Optimize(p, budget, hint) ==
  CASE p.op = "scan" -> [op |-> "prefix", prefix |-> p.scope, limit |-> Fewer(p.limit, budget)]
    [] p.op = "parallel" -> [p EXCEPT !.plans = [i \in DOMAIN p.plans |-> Optimize(p.plans[i], budget, hint)]]
    [] p.op = "vector" -> [op |-> "vector", filter |-> <<>>, limit |-> TopK(p.topK, hint)]
    [] p.op = "filter" /\ TypeOnly(p.pred) ->
         [op |-> "typescan", type |-> p.pred[1].arg, prefix |-> ExtractScope(p.input), limit |-> ExtractLimit(p.input)]
    [] p.op = "filter" /\ ~TypeOnly(p.pred) /\ p.input.op = "vector" ->
         Filtered([op |-> "vector", filter |-> SelectSeq(p.pred, Pushable), limit |-> p.input.topK], SelectSeq(p.pred, LAMBDA c : ~Pushable(c)))
    [] p.op = "filter" /\ ~TypeOnly(p.pred) /\ p.input.op # "vector" -> [p EXCEPT !.input = Optimize(p.input, budget, hint)]
    [] p.op = "sort" -> [p EXCEPT !.input = Optimize(p.input, budget, hint)]
    [] p.op = "limit" -> LET inner == Optimize(p.input, p.budget, hint) IN IF Leaf(inner) THEN inner ELSE [p EXCEPT !.input = inner]
    [] p.op = "traverse" ->
         [p EXCEPT !.input = Optimize(p.input, budget, hint), !.hops = Fewer(Fewer(p.hops, PlanDepth), IF "graph" \in hint THEN 1 ELSE p.hops)]
    [] p.op = "temporal" -> [op |-> "prefix", prefix |-> p.uri, limit |-> IF "temporal" \in hint THEN 25 ELSE 10]
Unbounded == 1000000

\* estimate_cost_with_intent, in thousandths of a thousandth.
RECURSIVE Cost(_, _), PowerOfTwo(_)
PowerOfTwo(n) == IF n = 0 THEN 1 ELSE 2 * PowerOfTwo(n - 1)
Cost(p, hint) ==
  CASE p.op = "typescan" -> Fewer(p.limit, TypeStatistics) * (IF "temporal" \in hint THEN 75 ELSE 100)
    [] p.op = "prefix" -> 2 * p.limit * (IF "temporal" \in hint THEN 75 ELSE 100)
    [] p.op = "vector" -> 10 * p.limit * (IF hint = {} THEN 100 ELSE IF "vector" \in hint THEN 80 ELSE 110)
    [] p.op = "filter" -> (Cost(p.input, hint) * 11) \div 10
    [] p.op = "sort" -> (Cost(p.input, hint) * 3) \div 2
    [] p.op = "limit" -> Cost(p.input, hint)
    [] p.op = "traverse" -> ((Cost(p.input, hint) + 1000000 * PowerOfTwo(p.hops)) * (IF hint = {} THEN 100 ELSE IF "graph" \in hint THEN 70 ELSE 125)) \div 100
    [] p.op = "parallel" -> Max({0} \cup {Cost(p.plans[i], hint) : i \in DOMAIN p.plans})

\* The operators.  VectorSearchOp looks an indexed URI up by prefix; the index
\* applies the pushed conditions to what it has.
Loaded(v) == LET found == Scanned(v.uri, PlanRows, 1) IN IF found = <<>> THEN SparseHit(v.uri, v.score) ELSE HitOf(found[1], v.score)
IndexMatches(filter, v) == \A i \in DOMAIN filter : filter[i].kind \in {"type", "scope"} => Holds(filter[i], v)
VectorSearch(p) ==
  LET found == FirstOf(SetToSortSeq({v \in VectorRows : IndexMatches(p.filter, v)}, LAMBDA v, w : v.score > w.score), p.limit)
      valid(h) == (\E i \in DOMAIN p.filter : p.filter[i].kind = "valid") => h.valid
  IN SelectSeq([i \in DOMAIN found |-> Loaded(found[i])], valid)

RECURSIVE Within2(_, _)
Within2(uris, hops) == IF hops = 0 THEN uris ELSE Within2(uris \cup {e[2] : e \in {d \in PlanEdges : d[1] \in uris}}, hops - 1)
GraphTraverse(seeds, hops) ==
  LET has == {seeds[i].uri : i \in DOMAIN seeds}
      reached == SetToSortSeq(Within2(has, hops) \ has, Before)
      load(u) == LET h == Loaded([uri |-> u, score |-> 6]) IN [h EXCEPT !.relevance = Max({h.relevance, 6})]
  IN seeds \o [i \in DOMAIN reached |-> load(reached[i])]

RECURSIVE DropRepeats(_)
DropRepeats(s) == IF Len(s) < 2 THEN s ELSE IF s[1].uri = s[2].uri THEN DropRepeats(<<s[1]>> \o SubSeq(s, 3, Len(s))) ELSE <<s[1]>> \o DropRepeats(Tail(s))
ByRelevance(hits) == SortedBy(hits, [i \in DOMAIN hits |-> hits[i].relevance])
BestOf(hits, uri) == CHOOSE h \in {hits[i] : i \in DOMAIN hits} : h.uri = uri /\ \A i \in DOMAIN hits : hits[i].uri = uri => hits[i].relevance <= h.relevance
InAll(hits, n) ==
  LET uris == {u \in {hits[i].uri : i \in DOMAIN hits} : Cardinality({i \in DOMAIN hits : hits[i].uri = u}) = n}
  IN ByRelevance(LET order == SetToSortSeq(uris, Before) IN [i \in DOMAIN order |-> BestOf(hits, order[i])])
MergedHits(all, merge, n) ==
  CASE merge = "union" -> ByRelevance(all)
    [] merge = "dedup" -> DropRepeats(ByRelevance(all))
    [] merge = "intersect" -> InAll(all, n)
    [] merge = "first" -> all

SortedHits(s, key) ==
  CASE key = "relevance" -> ByRelevance(s)
    [] key = "recency" -> SortedBy(s, [i \in DOMAIN s |-> 100 * s[i].updated + s[i].relevance])
    [] key = "quality" -> SortedBy(s, [i \in DOMAIN s |-> s[i].quality])

RECURSIVE Execute(_)
Execute(p) ==
  CASE p.op = "typescan" -> Hits(Scanned(p.prefix, {r \in PlanRows : r.type = p.type}, p.limit), 9)
    [] p.op = "prefix" -> Hits(Scanned(p.prefix, PlanRows, p.limit), IF p.prefix = <<>> THEN 5 ELSE 8)
    [] p.op = "vector" -> VectorSearch(p)
    [] p.op = "filter" -> SelectSeq(Execute(p.input), LAMBDA h : Matches(p.pred, h))
    [] p.op = "sort" -> SortedHits(Execute(p.input), p.key)
    [] p.op = "limit" -> FirstOf(Execute(p.input), p.budget)
    [] p.op = "traverse" -> GraphTraverse(Execute(p.input), p.hops)
    [] p.op = "parallel" -> MergedHits(FlattenSeq([i \in DOMAIN p.plans |-> Execute(p.plans[i])]), p.merge, Len(p.plans))

\* BoundedLruCache
Cached(key) == SelectSeq(planCache, LAMBDA e : e.key = key)
Touched(key, plan) ==
  LET others == SelectSeq(planCache, LAMBDA e : e.key # key)
  IN (IF Cached(key) = <<>> /\ Len(others) = CacheCapacity THEN Tail(others) ELSE others) \o <<[key |-> key, plan |-> plan]>>

\* Fault: the key has the query only.
KeyOfText(t, caller) == <<"nl", t>>
TextKey(t, caller) == <<"nl", t, caller>>

PlanInit == planCache = <<>> /\ retrieved = NULL

\* Run a plan from the cache, or the one that the optimizer makes.
RunPlan(key, logical, query, hint) ==
  LET kept == Cached(key)
      plan == IF kept = <<>> THEN Optimize(logical, Unbounded, hint) ELSE kept[1].plan
  IN /\ planCache' = Touched(key, plan)
     /\ retrieved' = [query |-> query, hits |-> Execute(plan), plan |-> plan, hint |-> hint]

Retrieve ==
  \E t \in TextQueries, c \in PlanCallers, hint \in PlanHints :
    RunPlan(TextKey(t, c), ParsedText(t, c), [kind |-> "text", text |-> t, caller |-> c], hint)
RetrieveQuery == \E q \in PlanQueries : RunPlan(<<"query", q>>, ToLogical(q), q, {})

PlanNext == Retrieve \/ RetrieveQuery

\* Reference: what a query asks for.
Asked(q) ==
  CASE q.kind = "find" -> {r.uri : r \in {s \in PlanRows : IsPrefix(q.scope, s.uri) /\ Matches(q.pred, s)}}
    [] q.kind = "text" -> {r.uri : r \in {s \in PlanRows : IsPrefix(q.caller, s.uri) /\ Matches(ParsedText(q.text, q.caller).pred, s)}}
UrisOf(hits) == {hits[i].uri : i \in DOMAIN hits}

(***************************************************************************)
(* A retrieval answers its own query for its own caller, also from a plan  *)
(* the cache kept: what find and a text return is what was asked, all of   *)
(* it when the store has no more rows than the budget, ordered as asked;   *)
(* an expansion keeps its seeds and adds neighbours only; an intersection  *)
(* is in every part; and the budget is kept, except that a scan by type    *)
(* may return twice as much and a vector search what it asked the index    *)
(* for (ContextRetriever, optimize_with_budget, the operators).            *)
(***************************************************************************)
Answers(r) ==
  LET q == r.query hits == r.hits IN
  /\ q.kind \in {"text", "find"} /\ (q.kind = "find" => q.expand = 0) =>
       /\ UrisOf(hits) \subseteq Asked(q)
       /\ Cardinality(PlanRows) <= (IF q.kind = "find" THEN q.budget ELSE 10) => UrisOf(hits) = Asked(q)
  /\ q.kind = "find" /\ q.expand = 0 =>
       /\ Len(hits) <= (IF TypeOnly(q.pred) /\ q.order = "natural" THEN 2 * q.budget ELSE q.budget)
       /\ q.order = "quality" => \A i \in 2..Len(hits) : hits[i - 1].quality >= hits[i].quality
  /\ q.kind = "similar" /\ q.expand = 0 => Len(hits) <= VectorBudget(q.pred, q.budget)
  /\ r.plan.op = "traverse" =>
       /\ UrisOf(Execute(r.plan.input)) \subseteq UrisOf(hits)
       /\ UrisOf(hits) \subseteq Within2(UrisOf(Execute(r.plan.input)), r.plan.hops)
  /\ q.kind = "composite" /\ q.merge = "intersect" => \A i \in DOMAIN r.plan.plans : UrisOf(hits) \subseteq UrisOf(Execute(r.plan.plans[i]))
  /\ Cost(r.plan, {"vector", "graph", "temporal"}) <= Cost(r.plan, {})

PlansSound ==
  /\ Len(planCache) <= CacheCapacity
  /\ \A i, j \in DOMAIN planCache : planCache[i].key = planCache[j].key => i = j
  /\ retrieved # NULL => Answers(retrieved)
=============================================================================
