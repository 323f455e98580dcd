----------------------------- MODULE IntentPolicy -----------------------------
(* RuleBasedIntentAnalyzer: a policy of rules that is merged from layers and *)
(* reloaded by several threads while queries are decided with it, and a bias *)
(* per kind of intent that is learnt from feedback.                          *)
EXTENDS Absent, Integers, FiniteSets, FiniteSetsExt, Sequences, SequencesExt

CONSTANTS
  Reloaders,
  PolicySources,     \* what the provider may load: sequences of layers, or NULL for an error
  IntentQueries,     \* [words, caller]
  IntentKinds,
  MaxSourceEdits, MaxReloads, MaxFeedbacks

VARIABLES
  policySource,      \* [layers, changed]: what the provider would load, and when it changed
  activePolicy,      \* the compiled policy and the source it is from
  lastSignature,     \* last_policy_signature
  reload,            \* per thread: the reload under way
  reloads,           \* how many began
  overlapping,       \* whether two reloads were ever under way at the same time
  reports,           \* the last report
  bias,              \* IntentFeedbackLearning, in ten-thousandths
  feedbacks,
  decision           \* the last decision

policyVars == <<policySource, activePolicy, lastSignature, reload, reloads, overlapping, reports, bias, feedbacks, decision>>

\* validate
ValidPack(pack) ==
  /\ Len(pack.rules) <= pack.maxRules
  /\ \A i \in DOMAIN pack.rules : pack.rules[i].patterns # {} => pack.allowRegex

\* merge_layers: a rule takes the place of the one with its id, others follow.
PlaceRule(rules, rule) ==
  LET at == {i \in DOMAIN rules : rules[i].id = rule.id}
  IN IF at = {} THEN Append(rules, rule) ELSE [rules EXCEPT ![Min(at)] = rule]
MergeLayer(base, layer) ==
  [version |-> layer.version,
   rules |-> FoldLeft(PlaceRule, base.rules, layer.rules),
   maxRules |-> Min({base.maxRules, layer.maxRules}), maxLayers |-> Min({base.maxLayers, layer.maxLayers}),
   allowRegex |-> (base.allowRegex /\ layer.allowRegex), maxBias |-> Min({base.maxBias, layer.maxBias}),
   signed |-> "no"]

MergedPack(layers) == FoldLeft(MergeLayer, layers[1], Tail(layers))
Mergeable(layers) ==
  /\ \A i \in DOMAIN layers : layers[i].signed # "bad"              \* verify_layer
  /\ Len(layers) <= Min({layers[i].maxLayers : i \in DOMAIN layers})
  /\ ValidPack(MergedPack(layers))

\* policy_signature: the version and the number of rules, not what they say, and
\* when the layers changed.
PolicySignature(pack, changed) == [version |-> pack.version, rules |-> Len(pack.rules), changed |-> changed]

PolicyInit ==
  /\ policySource \in {[layers |-> s, changed |-> 0] : s \in PolicySources \ {NULL}}
  /\ Mergeable(policySource.layers)
  /\ activePolicy = [pack |-> MergedPack(policySource.layers), changed |-> 0]
  /\ lastSignature = PolicySignature(MergedPack(policySource.layers), 0)
  /\ reload = [r \in Reloaders |-> NULL] /\ reloads = 0 /\ overlapping = FALSE /\ reports = NULL
  /\ bias = [k \in IntentKinds |-> 0] /\ feedbacks = 0 /\ decision = NULL

\* The files change; their times tell.
EditSource ==
  /\ policySource.changed < MaxSourceEdits
  /\ \E s \in PolicySources : policySource' = [layers |-> s, changed |-> policySource.changed + 1]
  /\ UNCHANGED <<activePolicy, lastSignature, reload, reloads, overlapping, reports, bias, feedbacks, decision>>

Begins(r) ==
  /\ reload[r] = NULL /\ reloads < MaxReloads /\ reloads' = reloads + 1
  /\ overlapping' = (overlapping \/ \E q \in Reloaders : reload[q] # NULL)
  /\ UNCHANGED <<policySource, bias, feedbacks, decision>>

EndReload(r, status) == reload' = [reload EXCEPT ![r] = NULL] /\ reports' = [status |-> status, changed |-> activePolicy'.changed]

\* reload_from_provider: load, verify and merge.
LoadSource(r) ==
  /\ Begins(r) /\ UNCHANGED <<activePolicy, lastSignature>>
  /\ IF policySource.layers = NULL \/ ~Mergeable(policySource.layers) THEN EndReload(r, "rejected")
     ELSE /\ reload' = [reload EXCEPT ![r] = [at |-> "check", pack |-> MergedPack(policySource.layers), changed |-> policySource.changed]]
          /\ UNCHANGED reports

CheckSignature(r) ==
  /\ reload[r] # NULL /\ reload[r].at = "check"
  /\ UNCHANGED <<policySource, activePolicy, lastSignature, reloads, overlapping, bias, feedbacks, decision>>
  /\ IF lastSignature = PolicySignature(reload[r].pack, reload[r].changed) THEN EndReload(r, "unchanged")
     ELSE reload' = [reload EXCEPT ![r].at = "store"] /\ UNCHANGED reports

\* The policy and its signature are stored one after the other.
StorePolicy(r) ==
  /\ reload[r] # NULL /\ reload[r].at = "store"
  /\ activePolicy' = [pack |-> reload[r].pack, changed |-> reload[r].changed]
  /\ reload' = [reload EXCEPT ![r].at = "sign"]
  /\ UNCHANGED <<policySource, lastSignature, reloads, overlapping, reports, bias, feedbacks, decision>>

SignPolicy(r) ==
  /\ reload[r] # NULL /\ reload[r].at = "sign"
  /\ lastSignature' = PolicySignature(reload[r].pack, reload[r].changed)
  /\ UNCHANGED <<policySource, activePolicy, reloads, overlapping, bias, feedbacks, decision>>
  /\ EndReload(r, "reloaded")

\* IntentFeedbackLearning::record: every bias fades, the one of the intent moves by
\* at most 0.03 and stays within the limit of the policy in use.
Fade(b) == IF b < 0 THEN -((-b * 995) \div 1000) ELSE (b * 995) \div 1000
Limited(b, limit) == Max({-limit, Min({limit, b})})
RecordFeedback ==
  /\ feedbacks < MaxFeedbacks /\ feedbacks' = feedbacks + 1
  /\ \E k \in IntentKinds, delta \in {-300, 300} :
       bias' = [j \in IntentKinds |-> IF j = k THEN Limited(Fade(bias[j]) + delta, activePolicy.pack.maxBias) ELSE Fade(bias[j])]
  /\ UNCHANGED <<policySource, activePolicy, lastSignature, reload, reloads, overlapping, reports, decision>>

\* decide_with_feedback, scores in ten-thousandths.
Hit(rule, q) == (rule.words \cup rule.negative \cup rule.patterns) \cap q.words # {}
Fallback(rules) == {i \in DOMAIN rules : rules[i].kind = "semantic" /\ \A j \in 1..(i - 1) : rules[j].kind # "semantic"}
CandidateRules(rules, q) ==
  LET hit == {i \in DOMAIN rules : Hit(rules[i], q)} IN IF hit = {} THEN Fallback(rules) ELSE hit
ScoreOf(rule, q) ==
  Limited(800 + 2800 * Cardinality(rule.words \cap q.words) + 3200 * Cardinality(rule.patterns \cap q.words)
         + (IF Hit(rule, q) THEN 0 ELSE 2000) + (IF q.caller = "retrieve" THEN 400 ELSE 0)
         + bias[rule.kind] - 3500 * Cardinality(rule.negative \cap q.words), 10000)
FinalScore(rule, q) == Max({0, ScoreOf(rule, q)})
Ranked(rules, q) ==
  LET better(i, j) == \/ FinalScore(rules[i], q) > FinalScore(rules[j], q)
                      \/ /\ FinalScore(rules[i], q) = FinalScore(rules[j], q)
                         /\ rules[i].priority > rules[j].priority \/ (rules[i].priority = rules[j].priority /\ i < j)
  IN SetToSortSeq(CandidateRules(rules, q), better)

\* build_execution_graph
ExecutionNodes(route, plan) ==
  CASE route = "exact" -> IF plan.vector THEN <<"exact", "vector">> ELSE <<"exact">>
    [] route \in {"vector", "hybrid"} -> IF plan.exact THEN <<"exact", "vector">> ELSE <<"vector">>
    [] route = "graph" -> <<"graph">>
    [] route = "temporal" -> <<"temporal">>
    [] route = "network" -> <<"probe", "fetch">>
    [] OTHER -> <<"vector", "graph">>
ExecutionGraph(route, plan) ==
  [nodes |-> ExecutionNodes(route, plan),
   edges |-> {<<ExecutionNodes(route, plan)[i], ExecutionNodes(route, plan)[i + 1]>> : i \in 1..(Len(ExecutionNodes(route, plan)) - 1)},
   peers |-> IF plan.federation THEN 8 ELSE 0, depth |-> Max({1, plan.depth})]

NoPlan == [exact |-> FALSE, vector |-> FALSE, federation |-> FALSE, depth |-> 0]
Decide ==
  /\ \E q \in IntentQueries :
       LET rules == activePolicy.pack.rules
           ranked == Ranked(rules, q)
           first == IF ranked = <<>> THEN [kind |-> "semantic", route |-> "vector"] ELSE rules[ranked[1]]
           same == {i \in DOMAIN rules : rules[i].kind = first.kind /\ rules[i].route = first.route}
       IN decision' = [query |-> q, ranked |-> [i \in DOMAIN ranked |-> rules[ranked[i]]],
                       scores |-> [i \in DOMAIN ranked |-> FinalScore(rules[ranked[i]], q)],
                       graph |-> ExecutionGraph(first.route, IF same = {} THEN NoPlan ELSE rules[Min(same)].plan)]
  /\ UNCHANGED <<policySource, activePolicy, lastSignature, reload, reloads, overlapping, reports, bias, feedbacks>>

PolicyNext ==
  \/ EditSource \/ RecordFeedback \/ Decide
  \/ \E r \in Reloaders : LoadSource(r) \/ CheckSignature(r) \/ StorePolicy(r) \/ SignPolicy(r)

(***************************************************************************)
(* The policy in use always obeys every layer it was merged from, also     *)
(* after a load that fails; unless two reloads overlapped, its signature   *)
(* is its own, so that a later reload that finds nothing new is right; the *)
(* biases stay within the widest limit; a decision ranks by score, always  *)
(* has a node to run, and each of its edges joins two nodes                *)
(* (reload_from_provider, merge_layers, record, decide_with_feedback).     *)
(***************************************************************************)
PolicySound ==
  /\ ValidPack(activePolicy.pack)
  /\ \A s \in PolicySources \ {NULL} :
       Mergeable(s) => \A i \in DOMAIN s :
         /\ Len(MergedPack(s).rules) <= s[i].maxRules /\ MergedPack(s).maxBias <= s[i].maxBias
         /\ ~s[i].allowRegex => \A j \in DOMAIN MergedPack(s).rules : MergedPack(s).rules[j].patterns = {}
  /\ ~overlapping =>
       /\ (\A r \in Reloaders : reload[r] = NULL) => lastSignature = PolicySignature(activePolicy.pack, activePolicy.changed)
       /\ reports # NULL /\ reports.status = "reloaded" => reports.changed <= activePolicy.changed
  /\ \A k \in IntentKinds : bias[k] \in (-Max({s[i].maxBias : <<s, i>> \in {x \in (PolicySources \ {NULL}) \X (1..2) : x[2] <= Len(x[1])}}))
                                       ..Max({s[i].maxBias : <<s, i>> \in {x \in (PolicySources \ {NULL}) \X (1..2) : x[2] <= Len(x[1])}})
  /\ decision # NULL =>
       /\ \A i \in 2..Len(decision.scores) : decision.scores[i - 1] >= decision.scores[i]
       /\ decision.graph.nodes # <<>> /\ decision.graph.depth >= 1
       /\ \A e \in decision.graph.edges : {e[1], e[2]} \subseteq Range(decision.graph.nodes)
=============================================================================
