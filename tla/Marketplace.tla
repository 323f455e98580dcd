---------------------------- MODULE Marketplace -----------------------------
(* The marketplace: what it keeps and what it computes about entries.  The two *)
(* share no state.                                                           *)
EXTENDS Absent, Integers, FiniteSets, FiniteSetsExt, Sequences, SequencesExt, Functions

(***************************************************************************)
(* The marketplace between agents: votes and feedback that may come late,     *)
(* twice or out of order, a registry whose index is written before it, the    *)
(* three tiers of discovery, antibodies and forks that several threads check  *)
(* before they add, and the lineage of what was published.                    *)
(***************************************************************************)
CONSTANTS
  Ballots,           \* signed votes: [voter, op, at, id]
  MaxVoteTime, VoteAge, VoteSkew, DownvoteMargin, FlagThreshold,
  MaxAdopted, MaxRefused, MaxOthers,   \* feedback of each outcome; immune contributions
  Offers,            \* entries to publish: [id, domain, quality]
  RemoteOffers,      \* what the federation has
  MarketThreads,
  SpeciationHits, MaxHits,
  LineageNodes, LineageParents

VARIABLES
  topic,             \* which object a behaviour is about
  voting,            \* [now, ballots: voter |-> ballot, replayIds, accepted]
  reputation,        \* one publisher: [published, adoption, refused, contradicted, immune, bond, ...]
  registry,          \* [publications, index, publishing, cache, found]
  adding,            \* per thread: what check-then-add has read
  added,             \* antibodies or forks: a sequence of keys
  crowded,           \* whether two threads were ever between check and add
  hits,              \* per agent, of one entry
  lineage            \* node |-> its parents

marketVars == <<topic, voting, reputation, registry, adding, added, crowded, hits, lineage>>

About(t) == topic = t /\ UNCHANGED topic

(***************************************************************************)
(* SocialVoter::submit: the checks, then the replay id and the vote under  *)
(* one lock; a later request replaces the vote, also when it is older.     *)
(***************************************************************************)
\* Fault: a replayed request counts again.
AnyId(b) == TRUE
FreshId(b) == b.id \notin voting.replayIds
OnTime(b) == b.at >= voting.now - VoteAge /\ b.at <= voting.now + VoteSkew
Submit(b) ==
  /\ OnTime(b) /\ FreshId(b)
  /\ \E weight \in 0..2 :
       voting' = [voting EXCEPT !.replayIds = @ \cup {b.id}, !.accepted = Append(@, b),
                    !.ballots = [v \in DOMAIN @ \cup {b.voter} |-> IF v = b.voter THEN [op |-> b.op, weight |-> weight] ELSE @[v]]]
VoteLater == voting.now < MaxVoteTime /\ voting' = [voting EXCEPT !.now = @ + 1]
VotingStep ==
  /\ About("voting") /\ (VoteLater \/ \E b \in Ballots : Submit(b))
  /\ UNCHANGED <<reputation, registry, adding, added, crowded, hits, lineage>>

\* tally, consensus_factor in thousandths, should_delist, private_vote_contributions.
VotersFor(op) == {v \in DOMAIN voting.ballots : voting.ballots[v].op = op}
WeightOf(voters) == MapThenSumSet(LAMBDA v : voting.ballots[v].weight, voters)
Tally == [up |-> Cardinality(VotersFor("up")), down |-> Cardinality(VotersFor("down")), flags |-> Cardinality(VotersFor("flag")),
          score |-> WeightOf(VotersFor("up")) - WeightOf(VotersFor("down"))]
Distance1000(n, total) == IF 2000 * n >= 1000 * total THEN (2000 * n - 1000 * total) \div total ELSE (1000 * total - 2000 * n) \div total
ConsensusFactor(t) == IF t.up + t.down = 0 THEN 0 ELSE Distance1000(t.up, t.up + t.down)
ShouldDelist(t) == t.down > t.up + DownvoteMargin \/ t.flags >= FlagThreshold

(***************************************************************************)
(* ReputationEngine, in thousandths.  Feedback that is stale, early, badly *)
(* signed or of an entry nobody consumed changes nothing; the rest counts  *)
(* once per replay id: an adoption moves the rate a tenth of the way, and  *)
(* a contradiction sets the bond, also of an observer.  Nothing here ever  *)
(* sets the average quality or the corroboration of a publisher.           *)
(***************************************************************************)
Share(n) == Min({1000, 100 * n})
Composite(r) == (250 * r.adoption + 150 * (1000 - Share(r.contradicted)) + 100 * (1000 - Share(r.refused)) + 50 * Share(r.immune)) \div 1000
BondFor(r) ==
  IF Composite(r) >= 900 /\ r.published >= 50 THEN 3
  ELSE IF r.published >= 10 /\ r.adoption >= 800 THEN 2
  ELSE IF r.published >= 3 /\ r.adoption >= 600 THEN 1 ELSE 0
Rated(r, outcome) ==
  CASE outcome = "adopted" -> [r EXCEPT !.published = @ + 1, !.adopted = @ + 1, !.adoption = Min({1000, (@ * 9 + 1000) \div 10})]
    [] outcome = "rejected" -> [r EXCEPT !.refused = @ + 1, !.declined = @ + 1, !.adoption = (@ * 9) \div 10]
    [] outcome = "contradicted" -> [r EXCEPT !.refused = @ + 1, !.declined = @ + 1, !.contradicted = @ + 1, !.adoption = (@ * 9) \div 10, !.bond = 1]
    [] outcome = "outdated" -> [r EXCEPT !.outdated = @ + 1]
SubmitFeedback ==
  \E id \in 1..(Cardinality(reputation.replayIds) + 1), outcome \in {"adopted", "rejected", "contradicted", "outdated"} :
    LET rated == Rated(reputation, outcome) IN
    /\ id \notin reputation.replayIds
    /\ rated.adopted <= MaxAdopted /\ rated.declined <= MaxRefused /\ rated.outdated <= MaxOthers
    /\ reputation' = [rated EXCEPT !.replayIds = @ \cup {id}]
RecordImmuneContribution == reputation.immune < MaxOthers /\ reputation' = [reputation EXCEPT !.immune = @ + 1]
RecalcBonds == reputation' = [reputation EXCEPT !.bond = BondFor(reputation), !.earned = @ \/ BondFor(reputation) > 0]
ReputationStep ==
  /\ About("reputation") /\ (SubmitFeedback \/ RecordImmuneContribution \/ RecalcBonds)
  /\ UNCHANGED <<voting, registry, adding, added, crowded, hits, lineage>>

(***************************************************************************)
(* FederatedRegistry::publish: the index, the publications, the broadcast, *)
(* which may fail.  DiscoveryEngine::search: local, cache by domains only, *)
(* federation.                                                             *)
(***************************************************************************)
PublishIndex(o) ==
  /\ o \notin registry.index
  /\ registry' = [registry EXCEPT !.index = @ \cup {o}, !.publishing = @ \cup {o}]
PublishEntry(o) ==
  /\ o \in registry.publishing \ registry.publications
  /\ registry' = [registry EXCEPT !.publications = @ \cup {o}]
\* The broadcast, whether it fails or not, ends the call.
Broadcast(o) ==
  /\ o \in registry.publishing \cap registry.publications
  /\ registry' = [registry EXCEPT !.publishing = @ \ {o}]

Admits(query, o) == (query.domains = {} \/ o.domain \in query.domains) /\ o.quality >= query.minQuality
RankOffers(offers, query, limit) ==
  LET admitted == SetToSortSeq({o \in offers : Admits(query, o)}, LAMBDA o, p : o.quality > p.quality)
  IN SubSeq(admitted, 1, Min({limit, Len(admitted)}))
Outcome(tier, query, limit, found) == [tier |-> tier, query |-> query, limit |-> limit, hits |-> found]
Discover ==
  \E domains \in {{}, {"d"}}, minQuality \in {0, 2}, limit \in 1..2 :
    LET query == [domains |-> domains, minQuality |-> minQuality] IN
    \* search_local: the index returns what is nearest, twice the limit at most.
    \E local \in {s \in SUBSET registry.index : Cardinality(s) = Min({2 * limit, Cardinality(registry.index)})} :
      IF ~(local \subseteq registry.publications)
      THEN registry' = [registry EXCEPT !.found = Outcome("error", query, limit, <<>>)]
      ELSE IF Cardinality(local) >= limit
      THEN registry' = [registry EXCEPT !.found = Outcome("local", query, limit, RankOffers(local, query, limit))]
      ELSE LET cached == IF registry.cache[domains] = NULL THEN <<>> ELSE RankOffers(registry.cache[domains], query, limit) IN
        \/ /\ registry.cache[domains] # NULL /\ Len(cached) >= limit \div 2
           /\ registry' = [registry EXCEPT !.found = Outcome("cache", query, limit, cached)]
        \/ /\ (registry.cache[domains] # NULL => Len(cached) < limit \div 2)
           /\ \E remote \in {{}, RemoteOffers} :
                registry' = [registry EXCEPT !.found = Outcome("federation", query, limit, RankOffers(local \cup remote, query, limit)),
                                             !.cache[domains] = IF local \cup remote = {} THEN @ ELSE local \cup remote]
RegistryStep ==
  /\ About("registry")
  /\ (Discover \/ \E o \in Offers : PublishIndex(o) \/ PublishEntry(o) \/ Broadcast(o))
  /\ UNCHANGED <<voting, reputation, adding, added, crowded, hits, lineage>>

(***************************************************************************)
(* load_antibody and check_and_fork read under one lock and add under      *)
(* another; publish_antibody adds what has a fresh id.  The entry that     *)
(* forks is registered, and its licence allows it: of others no fork is    *)
(* ever made.                                                              *)
(***************************************************************************)
AddedKeys == Range(added)
\* dominant_agent: four fifths of the hits, when there are enough.
Dominant == {a \in DOMAIN hits : MapThenSumSet(LAMBDA b : hits[b], DOMAIN hits) >= SpeciationHits
                                 /\ 5 * hits[a] >= 4 * MapThenSumSet(LAMBDA b : hits[b], DOMAIN hits)}
MayAdd(k) == topic = "antibodies" \/ k \in Dominant
CheckAbsent(t) ==
  /\ adding[t] = NULL
  /\ \E k \in DOMAIN hits : MayAdd(k) /\ k \notin AddedKeys /\ adding' = [adding EXCEPT ![t] = k]
  /\ crowded' = (crowded \/ \E u \in MarketThreads : adding[u] # NULL)
  /\ UNCHANGED <<added, hits>>
AddChecked(t) ==
  /\ adding[t] # NULL /\ added' = Append(added, adding[t]) /\ adding' = [adding EXCEPT ![t] = NULL]
  /\ UNCHANGED <<crowded, hits>>
PublishAntibody ==
  /\ topic = "antibodies"
  /\ \E k \in DOMAIN hits \ (AddedKeys \cup Range(adding)) : added' = Append(added, k)
  /\ UNCHANGED <<adding, crowded, hits>>
RecordHit ==
  /\ topic = "forks" /\ MapThenSumSet(LAMBDA b : hits[b], DOMAIN hits) < MaxHits
  /\ \E a \in DOMAIN hits : hits' = [hits EXCEPT ![a] = @ + 1]
  /\ UNCHANGED <<adding, added, crowded>>
AddingStep ==
  /\ topic \in {"antibodies", "forks"} /\ UNCHANGED <<topic, voting, reputation, registry, lineage>>
  /\ (RecordHit \/ PublishAntibody \/ \E t \in MarketThreads : CheckAbsent(t) \/ AddChecked(t))

(***************************************************************************)
(* record_lineage replaces; trace_lineage visits every node once; a        *)
(* phylogeny starts at the origin that the first known parents lead to.    *)
(***************************************************************************)
Recorded == {n \in LineageNodes : lineage[n] # NULL}
RecordLineage ==
  /\ About("lineage") /\ \E n \in LineageNodes, ps \in LineageParents : lineage[n] = NULL /\ lineage' = [lineage EXCEPT ![n] = ps]
  /\ UNCHANGED <<voting, reputation, registry, adding, added, crowded, hits>>
\* memetic evolve: a culled entry becomes its own parent.
Cull ==
  /\ About("lineage") /\ \E n \in Recorded : lineage' = [lineage EXCEPT ![n] = <<n>>]
  /\ UNCHANGED <<voting, reputation, registry, adding, added, crowded, hits>>
RECURSIVE Trace(_, _)
Trace(stack, visited) ==
  IF stack = <<>> THEN visited
  ELSE LET n == Last(stack) IN
       IF n \in visited \/ n \notin Recorded THEN Trace(Front(stack), visited)
       ELSE Trace(Front(stack) \o lineage[n], visited \cup {n})
ParentOf(n) == SelectSeq(lineage[n], LAMBDA p : p \in Recorded)
Acyclic == \A n \in Recorded : n \notin UNION {Trace(<<lineage[n][i]>>, {}) : i \in DOMAIN lineage[n]}
RECURSIVE FindOrigin(_), TreeNodes(_)
FindOrigin(n) == IF ParentOf(n) = <<>> THEN n ELSE IF lineage[ParentOf(n)[1]] = <<>> THEN ParentOf(n)[1] ELSE FindOrigin(ParentOf(n)[1])
\* build_tree
TreeNodes(n) == {n} \cup UNION {TreeNodes(m) : m \in {k \in Recorded : Contains(lineage[k], n)}}

NoVotes == [now |-> 0, ballots |-> <<>>, replayIds |-> {}, accepted |-> <<>>]
Newcomer == [published |-> 0, adopted |-> 0, declined |-> 0, adoption |-> 0, refused |-> 0, contradicted |-> 0,
             outdated |-> 0, immune |-> 0, replayIds |-> {}, bond |-> 0, earned |-> FALSE]
MarketInit ==
  /\ topic \in {"voting", "reputation", "registry", "antibodies", "forks", "lineage"}
  /\ voting = NoVotes /\ reputation = Newcomer
  /\ registry = [publications |-> {}, index |-> {}, publishing |-> {}, cache |-> [d \in {{}, {"d"}} |-> NULL], found |-> NULL]
  /\ adding = [t \in MarketThreads |-> NULL] /\ added = <<>> /\ crowded = FALSE
  /\ hits = [a \in {"x", "y"} |-> 0] /\ lineage = [n \in LineageNodes |-> NULL]

MarketNext == VotingStep \/ ReputationStep \/ RegistryStep \/ AddingStep \/ RecordLineage \/ Cull

(***************************************************************************)
(* No request counts twice and every voter has the vote accepted last; a   *)
(* bond that was not earned follows a contradiction; a search fails only   *)
(* while a publication is between its index entry and its row, and what it *)
(* returns was asked for and published here or by a peer, best first; an   *)
(* antibody and a fork are added once unless two threads were at it; a     *)
(* trace has every known ancestor once, and the tree of an origin contains *)
(* the leaf it was asked for (submit, submit_feedback, publish, search,    *)
(* load_antibody, check_and_fork, trace_lineage, phylogeny).               *)
(***************************************************************************)
VotesCountOnce ==
  /\ Cardinality({voting.accepted[i].id : i \in DOMAIN voting.accepted}) = Len(voting.accepted)
  /\ \A v \in DOMAIN voting.ballots :
       voting.ballots[v].op = voting.accepted[Max({i \in DOMAIN voting.accepted : voting.accepted[i].voter = v})].op
  /\ Tally.up + Tally.down + Tally.flags = Cardinality({voting.accepted[i].voter : i \in DOMAIN voting.accepted})
  /\ ConsensusFactor(Tally) \in 0..1000 /\ (ConsensusFactor(Tally) = 1000 => Tally.up = 0 \/ Tally.down = 0)
  /\ ShouldDelist(Tally) => Tally.down + Tally.flags > 0
BondsEarned ==
  /\ reputation.adoption \in 0..1000 /\ reputation.published = reputation.adopted
  /\ reputation.bond > 0 /\ ~reputation.earned => reputation.contradicted > 0
  /\ reputation.bond > 1 => reputation.published >= 10
  /\ Cardinality(reputation.replayIds) = reputation.adopted + reputation.declined + reputation.outdated
RegistryAnswers ==
  /\ registry.publications \subseteq registry.index
  /\ registry.index \ registry.publications \subseteq registry.publishing
  /\ registry.found # NULL =>
       LET f == registry.found IN
       /\ Len(f.hits) <= f.limit /\ \A i \in DOMAIN f.hits : Admits(f.query, f.hits[i])
       /\ \A i \in 2..Len(f.hits) : f.hits[i - 1].quality >= f.hits[i].quality
       /\ Range(f.hits) \subseteq registry.publications \cup RemoteOffers
       /\ f.tier = "local" => Range(f.hits) \subseteq registry.publications
AddedOnce == crowded \/ Cardinality(AddedKeys) = Len(added)
LineageKnown ==
  \A n \in Recorded :
    /\ \A m \in Trace(<<n>>, {}) : \A i \in DOMAIN lineage[m] : lineage[m][i] \in Recorded => lineage[m][i] \in Trace(<<n>>, {})
    /\ Acyclic => n \in TreeNodes(FindOrigin(n))
MarketStateSound == VotesCountOnce /\ BondsEarned /\ RegistryAnswers /\ AddedOnce /\ LineageKnown

(***************************************************************************)
(* What the marketplace computes about its entries: which of two contradict   *)
(* each other and who settles it, when independent sources agree, how two     *)
(* patches merge, how a population evolves, which agents form a community,    *)
(* what is influential, and the sum of private contributions.                 *)
(***************************************************************************)
CONSTANTS
  Claims,            \* entries: [id, by, domain, words, denies, cites, sources, quality, free, merit, harm]
  Patches,           \* [patcher, clock, principle, items, quality]
  Verdicts,          \* what a judge may answer: [says, sure], or NULL when it cannot be read
  Contributions,     \* [by, entry, value, shares, intact]
  MarketAgents, MarketDomains,
  Antibodies         \* [id, near, severity, confidence]: near is to the content asked about

VARIABLE appraisal   \* what was asked, and the answer

marketDataVars == <<appraisal>>

(***************************************************************************)
(* ConflictResolver, similarities in tenths, and the judge's confidence in *)
(* hundredths.                                                             *)
(***************************************************************************)
DuplicateAt == 8
ConflictAt == 4
DirectAt == 6
Advantage == 2
Margin == 20
MinSure == 62
Overlap(a, b) ==
  IF a.words \cup b.words = {} THEN 0
  ELSE (10 * Cardinality(a.words \cap b.words)) \div Cardinality(a.words \cup b.words)
Detect(a, b) ==
  IF a.domain # b.domain \/ Overlap(a, b) > DuplicateAt \/ Overlap(a, b) <= ConflictAt \/ a.denies = b.denies THEN NULL
  ELSE [a |-> a, b |-> b, kind |-> IF a.cites \cap b.cites # {} THEN "same evidence" ELSE IF Overlap(a, b) > DirectAt THEN "direct" ELSE "overlapping"]
Outweighs(a, b) == a.sources > b.sources * Advantage /\ a.quality > b.quality + Margin
\* arbitrate: strong evidence, else a debate, if there is a model; a verdict that
\* is not sure, not readable or not known is deferred.
Verdict(v) == IF v = NULL \/ v.sure < MinSure \/ v.says \notin {"keep_a", "keep_b", "fuse", "keep_both"} THEN "defer" ELSE v.says
Arbitrate(c, model, v) ==
  IF Outweighs(c.a, c.b) THEN "keep_a" ELSE IF Outweighs(c.b, c.a) THEN "keep_b"
  ELSE IF model THEN Verdict(v) ELSE "defer"
AskConflict ==
  /\ appraisal = NULL
  /\ \E a, b \in Claims, model \in BOOLEAN, v \in Verdicts :
       appraisal' = [topic |-> "conflict", a |-> a, b |-> b, v |-> v, found |-> Detect(a, b),
                     decided |-> IF Detect(a, b) = NULL THEN NULL ELSE Arbitrate(Detect(a, b), model, v)]

(***************************************************************************)
(* ConsensusTracker::check_convergence: entries of other publishers among  *)
(* what the index returned, or among all when it returned nothing.         *)
(***************************************************************************)
SimilarAt == 7
Established == 3
Agreeing(new, candidates) == {e \in candidates : e.by # new.by /\ e.domain = new.domain /\ Overlap(new, e) >= SimilarAt}
Convergence(new, existing, indexed) ==
  LET found == existing \cap indexed
      agreeing == Agreeing(new, IF found = {} THEN existing ELSE found)
  IN [sources |-> agreeing, corroboration |-> 1 + Cardinality(agreeing),
      status |-> IF Cardinality(agreeing) + 1 >= Established THEN "established" ELSE IF agreeing = {} THEN "single" ELSE "corroborated"]
FindEstablished(entries, n) == SetToSortSeq({e \in entries : e.sources >= n}, LAMBDA e, f : e.sources > f.sources \/ (e.sources = f.sources /\ e.id < f.id))
AskConsensus ==
  /\ appraisal = NULL
  /\ \E new \in Claims, existing, indexed \in SUBSET Claims :
       appraisal' = [topic |-> "consensus", new |-> new, existing |-> existing, report |-> Convergence(new, existing, indexed),
                     top |-> FindEstablished(existing, 2)]

(***************************************************************************)
(* SemanticCrdtMerger::merge: sets unite, the quality is weighted by the   *)
(* clocks.  Of two principles the model's answer stays, or the later one;  *)
(* a tie compares the local "node:patcher" with the remote "patcher", and  *)
(* so, as names are numbers here in their order, the node's name.          *)
(***************************************************************************)
LwwPrinciple(node, local, remote) ==
  IF local.clock # remote.clock THEN (IF local.clock > remote.clock THEN local.principle ELSE remote.principle)
  ELSE IF node >= remote.patcher THEN local.principle ELSE remote.principle
MergePatches(node, local, remote, said) ==
  [items |-> local.items \o SelectSeq(remote.items, LAMBDA x : ~Contains(local.items, x)),
   quality |-> IF local.clock + remote.clock = 0 THEN (local.quality + remote.quality) \div 2
               ELSE (local.quality * local.clock + remote.quality * remote.clock) \div (local.clock + remote.clock),
   principle |-> IF local.principle = NULL THEN remote.principle ELSE IF remote.principle \in {NULL, local.principle} THEN local.principle
                 ELSE IF said # NULL THEN said ELSE LwwPrinciple(node, local, remote)]
AskPatches ==
  /\ appraisal = NULL
  /\ \E p, q \in Patches, n, m \in {0, 2}, said \in {NULL, "merged"} :
       appraisal' = [topic |-> "patches", p |-> p, q |-> q, said |-> said, here |-> MergePatches(n, p, q, said), there |-> MergePatches(m, q, p, said)]

(***************************************************************************)
(* MemeticEvolutionEngine::evolve, scores in hundredths: merit stands for  *)
(* the weighted signals, harm for contradictions and downvotes.            *)
(***************************************************************************)
MutateAt == 68
CrossAt == 76
CullAt == 22
MaxPenalty == 55
Novelty(e, population) == <<100, 71, 58, 50>>[Cardinality({f \in population : f.domain = e.domain})]
Fitness(e, population) ==
  Max({0, Min({100, (30 * e.quality + 63 * e.merit + 7 * Novelty(e, population)) \div 100 - Min({MaxPenalty, 12 * e.harm})})})
RankedBy(population) ==
  SetToSortSeq(population, LAMBDA e, f : Fitness(e, population) > Fitness(f, population)
                                         \/ (Fitness(e, population) = Fitness(f, population) /\ e.id < f.id))
Elites(population) == LET n == Cardinality(population) IN SubSeq(RankedBy(population), 1, Max({1, (35 * n + 99) \div 100}))
Culled(population) == {e \in population : Fitness(e, population) <= CullAt}
\* Until there are enough: one child of each good elite, then of each good pair.
Child(parents, score) == [parents |-> parents, fitness |-> score, quality |-> 0, sources |-> 0, cites |-> {}]
Grow(children, parents, score, bar, most) ==
  IF Len(children) >= most \/ score < bar \/ \E p \in parents : ~p.free THEN children
  ELSE Append(children, Child(parents, score))
Evolve(population, most) ==
  LET elites == Elites(population)
      Score(i) == Fitness(elites[i], population)
      mutants == FoldLeftDomain(LAMBDA cs, i : Grow(cs, {elites[i]}, Score(i), MutateAt, most), <<>>, elites)
  IN FoldLeftDomain(LAMBDA cs, i : IF i = 1 THEN cs
                                   ELSE Grow(cs, {elites[i - 1], elites[i]}, (Score(i - 1) + Score(i)) \div 2, CrossAt, most), mutants, elites)
AskEvolution ==
  /\ appraisal = NULL
  /\ \E population \in SUBSET Claims \ {{}}, most \in 1..2 :
       appraisal' = [topic |-> "evolution", population |-> population, most |-> most, culled |-> Culled(population), children |-> Evolve(population, most)]

(***************************************************************************)
(* CommunityDetector::detect.  posted[a][d] is how many entries agent a    *)
(* has in domain d; weights are in sixtieths.                              *)
(***************************************************************************)
Posts(posted, a) == MapThenSumSet(LAMBDA d : posted[a][d], MarketDomains)
Weight(posted, a, b) ==
  (120 * MapThenSumSet(LAMBDA d : Min({posted[a][d], posted[b][d]}), MarketDomains)) \div Max({1, Posts(posted, a) + Posts(posted, b)})
Members(posted) == {a \in MarketAgents : Posts(posted, a) > 0}
Neighbours(posted, a) == {b \in Members(posted) \ {a} : Weight(posted, a, b) > 0}
\* An agent takes the label that weighs most among its neighbours, of equals the first.
Relabel(posted, labels, a) ==
  LET near == Neighbours(posted, a)
      Pull(l) == MapThenSumSet(LAMBDA b : Weight(posted, a, b), {b \in near : labels[b] = l})
      candidates == {labels[b] : b \in near}
  IN IF near = {} THEN labels
     ELSE [labels EXCEPT ![a] = Min({l \in candidates : \A m \in candidates : Pull(l) >= Pull(m)})]
Round(posted, labels) ==
  FoldLeft(LAMBDA ls, a : Relabel(posted, ls, a), labels, SetToSortSeq(Members(posted), <))
RECURSIVE Settle(_, _, _)
Settle(posted, labels, rounds) ==
  IF rounds = 0 \/ Round(posted, labels) = labels THEN labels ELSE Settle(posted, Round(posted, labels), rounds - 1)
LabelsOf(posted) == Settle(posted, [a \in Members(posted) |-> a], 16)
CommunitiesOf(posted) ==
  LET labels == LabelsOf(posted) IN
  {c \in {{a \in Members(posted) : labels[a] = l} : l \in Range(labels)} : Cardinality(c) >= 2}
DomainsOf(posted, c) == {d \in MarketDomains : \E a \in c : posted[a][d] > 0}
BridgeDomains(posted, c) == {d \in DomainsOf(posted, c) : \E o \in CommunitiesOf(posted) \ {c} : d \in DomainsOf(posted, o)}
\* Out of sixty.
Density(posted, c) ==
  MapThenSumSet(LAMBDA p : Weight(posted, Min(p), Max(p)), kSubset(2, c)) \div ((Cardinality(c) * (Cardinality(c) - 1)) \div 2)
AskCommunities ==
  /\ appraisal = NULL
  /\ \E posted \in [MarketAgents -> [MarketDomains -> 0..1]] :
       appraisal' = [topic |-> "communities", posted |-> posted,
                     found |-> {[agents |-> c, bridges |-> BridgeDomains(posted, c), density |-> Density(posted, c)] : c \in CommunitiesOf(posted)}]

(***************************************************************************)
(* InfluenceAnalyzer::analyze, in millionths, for as many rounds as MaxRounds*)
(* (or until the ranks settle): a citation recorded twice counts twice, what *)
(* cites nothing gives to all, and of too many entries the first are ranked; *)
(* what the others would pass on is lost.  top_influential: of equal ranks   *)
(* the more cited first.                                                     *)
(***************************************************************************)
Mass == 1000000
MaxRounds == 4
CitedBy(cites, e) == Cardinality({i \in DOMAIN cites : cites[i].cited = e})
OutOf(cites, e) == Cardinality({i \in DOMAIN cites : cites[i].citing = e})
RankedNodes(cites, adoptedOnes, most) ==
  LET nodes == {cites[i].citing : i \in DOMAIN cites} \cup {cites[i].cited : i \in DOMAIN cites} \cup adoptedOnes
  IN {e \in nodes : Cardinality({f \in nodes : f < e}) < most}
Spread(nodes, cites, rank) ==
  LET n == Cardinality(nodes)
      dangling == MapThenSumSet(LAMBDA e : rank[e], {e \in nodes : OutOf(cites, e) = 0})
      Into(e) == MapThenSumSet(LAMBDA i : rank[cites[i].citing] \div OutOf(cites, cites[i].citing),
                               {i \in DOMAIN cites : cites[i].cited = e /\ cites[i].citing \in nodes})
  IN [e \in nodes |-> (15 * Mass) \div (100 * n) + (85 * (dangling \div n + Into(e))) \div 100]
RECURSIVE Ranks(_, _, _, _)
Ranks(nodes, cites, rank, rounds) ==
  IF rounds = 0 \/ Spread(nodes, cites, rank) = rank THEN rank ELSE Ranks(nodes, cites, Spread(nodes, cites, rank), rounds - 1)
Analyze(cites, nodes) == Ranks(nodes, cites, [e \in nodes |-> Mass \div Cardinality(nodes)], MaxRounds)
TopInfluential(cites, ranks, n) ==
  LET Key(e) == <<ranks[e], CitedBy(cites, e), -e>>
      Before(k, l) == k[1] > l[1] \/ (k[1] = l[1] /\ (k[2] > l[2] \/ (k[2] = l[2] /\ k[3] > l[3])))
      order == SetToSortSeq(DOMAIN ranks, LAMBDA e, f : Before(Key(e), Key(f)))
  IN SubSeq(order, 1, Min({n, Len(order)}))
AskInfluence ==
  /\ appraisal = NULL
  /\ \E n \in 1..3, most \in 2..3, adoptedOnes \in {{}, {3}} : \E cites \in [1..n -> [citing : 1..3, cited : 1..3]] :
       LET ranks == Analyze(cites, RankedNodes(cites, adoptedOnes, most))
       IN appraisal' = [topic |-> "influence", cites |-> cites, whole |-> Cardinality(RankedNodes(cites, adoptedOnes, 3)) <= most,
                        ranks |-> ranks, top |-> TopInfluential(cites, ranks, 2)]

(***************************************************************************)
(* SecureAggregationEngine: a clipped and noised value is split into       *)
(* shares, the last of which makes up the sum; the first contribution says *)
(* which entry is summed, and a second valid one of a contributor fails.   *)
(***************************************************************************)
ClipNorm == 1
Noises == {0, 1}
SplitSecret(secret, masks) == Append(masks, secret - FoldLeft(LAMBDA s, x : s + x, 0, masks))
Shared(c, noise, masks) ==
  LET noised == Max({-ClipNorm, Min({ClipNorm, c.value})}) + noise
  IN [by |-> c.by, entry |-> c.entry, noised |-> noised,
      shares |-> LET s == SplitSecret(noised, masks) IN IF c.shares = "all" THEN s ELSE IF c.shares = "lost" THEN Front(s) ELSE [s EXCEPT ![1] = @ + 1],
      intact |-> c.intact]
Reconstructed(s) == FoldLeft(LAMBDA t, x : t + x, 0, s.shares)
ValidShared(s, entry, receivers) == s.entry = entry /\ Len(s.shares) = receivers /\ s.intact /\ Reconstructed(s) = s.noised
Aggregate(list, receivers) ==
  LET valid == {i \in DOMAIN list : ValidShared(list[i], list[1].entry, receivers)} IN
  IF list = <<>> THEN [error |-> "mismatch"]
  ELSE IF \E i, j \in valid : i # j /\ list[i].by = list[j].by THEN [error |-> "duplicate"]
  ELSE IF valid = {} THEN [error |-> "none"]
  ELSE [error |-> NULL, sum |-> MapThenSumSet(LAMBDA i : Reconstructed(list[i]), valid), accepted |-> {list[i].by : i \in valid},
        rejected |-> Cardinality(DOMAIN list \ valid), spent |-> Cardinality(valid)]
AskAggregate ==
  /\ appraisal = NULL
  /\ \E n \in 0..2 : \E cs \in [1..n -> Contributions], noise \in Noises, masks \in [1..1 -> -1..1] :
       LET list == [i \in 1..n |-> Shared(cs[i], noise, masks)]
       IN appraisal' = [topic |-> "aggregate", given |-> cs, list |-> list, report |-> Aggregate(list, 2)]

(***************************************************************************)
(* ImmuneProtocol::check: what is like no known signature is clean, what   *)
(* is like a severe one is blocked.  Similarities are in hundredths.       *)
(***************************************************************************)
SimilarityThreshold == 85
Severities == <<"low", "medium", "high", "critical">>
Check(antibodies) ==
  LET matched == {b \in antibodies : b.near >= SimilarityThreshold}
      worst == Max({b.severity : b \in matched})
      risk == MapThenSumSet(LAMBDA b : (b.near * b.confidence) \div 100, matched) \div Cardinality(matched)
  IN IF matched = {} THEN [answer |-> "clean", matched |-> {}]
     ELSE IF Severities[worst] \in {"high", "critical"} THEN [answer |-> "blocked", matched |-> matched, severity |-> worst]
     ELSE [answer |-> "suspicious", matched |-> matched, risk |-> Min({100, risk})]
AskThreat ==
  /\ appraisal = NULL
  /\ \E known \in SUBSET Antibodies, learned \in Antibodies :
       appraisal' = [topic |-> "threat", before |-> Check(known), after |-> Check(known \cup {learned})]

MarketDataInit == appraisal = NULL
MarketDataNext ==
  \/ AskConflict \/ AskConsensus \/ AskPatches \/ AskEvolution
  \/ AskCommunities \/ AskInfluence \/ AskAggregate \/ AskThreat

(***************************************************************************)
(* Which of two entries is put first changes neither whether they conflict *)
(* nor who wins on evidence, and the model decides only what evidence does *)
(* not; a convergence reads no entry twice, and one the index narrows      *)
(* never finds a source the full comparison does not; two nodes that merge *)
(* the same patches agree unless their clocks tie; no offspring has a      *)
(* culled or a protected parent, or the parents' evidence; communities are *)
(* disjoint, dense and everyone in one shares a domain with another of it; *)
(* PageRank makes no weight and, when it ranks all, loses none, and its    *)
(* top is what ranks highest; a sum is the sum of the noised values of the *)
(* accepted, and tampering never changes it; an antibody learned never     *)
(* makes an answer milder.                                                 *)
(***************************************************************************)
ConflictsFair(d) ==
  /\ (d.found = NULL) = (Detect(d.b, d.a) = NULL)
  /\ d.found # NULL =>
       /\ d.found.kind = Detect(d.b, d.a).kind
       /\ d.decided \notin {"defer"} /\ Arbitrate(d.found, FALSE, NULL) = "defer" => d.v # NULL /\ d.v.says = d.decided
       /\ ~(Outweighs(d.a, d.b) /\ Outweighs(d.b, d.a))
       /\ Arbitrate(d.found, FALSE, NULL) = "keep_a" => d.a.sources > d.b.sources
ConvergenceHonest(d) ==
  LET all == Convergence(d.new, d.existing, {}) IN
  /\ d.report.sources \subseteq all.sources
  /\ d.report.status = "established" => Cardinality({e.by : e \in d.report.sources} \cup {d.new.by}) >= 2
  /\ \A i \in 2..Len(d.top) : d.top[i - 1].sources >= d.top[i].sources
PatchesAgree(d) ==
  /\ ToSet(d.here.items) = ToSet(d.there.items) /\ d.here.quality = d.there.quality
  /\ d.p.clock # d.q.clock \/ d.said # NULL => d.here.principle = d.there.principle
  /\ IsInjective(d.p.items) /\ IsInjective(d.q.items) => IsInjective(d.here.items)
OffspringEarnTheirs(d) ==
  /\ Len(d.children) <= d.most
  /\ \A i \in DOMAIN d.children :
       /\ d.children[i].parents \cap d.culled = {} /\ \A p \in d.children[i].parents : p.free
       /\ d.children[i].quality = 0 /\ d.children[i].sources = 0
CommunitiesHold(d) ==
  \A c \in d.found :
    /\ \A o \in d.found \ {c} : c.agents \cap o.agents = {} /\ c.bridges \cap DomainsOf(d.posted, o.agents) # {} => o.bridges # {}
    /\ c.density \in 1..60
    /\ \A a \in c.agents : \E b \in c.agents \ {a} : \E x \in MarketDomains : d.posted[a][x] > 0 /\ d.posted[b][x] > 0
InfluenceKept(d) ==
  LET total == MapThenSumSet(LAMBDA e : d.ranks[e], DOMAIN d.ranks) IN
  /\ total <= Mass /\ (d.whole => total >= Mass - 200)
  /\ \A e \in DOMAIN d.ranks \ Range(d.top) : \A i \in DOMAIN d.top : d.ranks[d.top[i]] >= d.ranks[e]
SumsTrue(d) ==
  d.report.error = NULL =>
    LET counted == {i \in DOMAIN d.list : d.given[i].intact /\ d.given[i].shares = "all" /\ d.given[i].entry = d.given[1].entry} IN
    /\ d.report.sum = MapThenSumSet(LAMBDA i : d.list[i].noised, counted)
    /\ d.report.accepted = {d.given[i].by : i \in counted}
    /\ Cardinality(d.report.accepted) + d.report.rejected = Len(d.list)
ImmunityGrows(d) ==
  LET Rank(a) == CASE a = "clean" -> 0 [] a = "suspicious" -> 1 [] a = "blocked" -> 2 IN
  /\ Rank(d.before.answer) <= Rank(d.after.answer) /\ d.before.matched \subseteq d.after.matched
  /\ d.after.answer = "blocked" <=> \E b \in d.after.matched : b.severity >= 3
MarketDataSound ==
  appraisal # NULL =>
    /\ appraisal.topic = "conflict" => ConflictsFair(appraisal)
    /\ appraisal.topic = "consensus" => ConvergenceHonest(appraisal)
    /\ appraisal.topic = "patches" => PatchesAgree(appraisal)
    /\ appraisal.topic = "evolution" => OffspringEarnTheirs(appraisal)
    /\ appraisal.topic = "communities" => CommunitiesHold(appraisal)
    /\ appraisal.topic = "influence" => InfluenceKept(appraisal)
    /\ appraisal.topic = "aggregate" => SumsTrue(appraisal)
    /\ appraisal.topic = "threat" => ImmunityGrows(appraisal)
=============================================================================
