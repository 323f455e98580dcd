--------------------------- MODULE InsightSearch ----------------------------
(* Two ways in which context-db-cdt looks for insights: a tree search and a  *)
(* vote.  They share no state.                                               *)
EXTENDS Integers, Sequences, FiniteSets, Absent
LOCAL INSTANCE TLC
LOCAL INSTANCE SequencesExt

(***************************************************************************)
(* The tree search over reasoning actions (context-db-cdt, tree_search.rs    *)
(* and policy_value.rs): simulations that select by PUCT, expand, roll out   *)
(* and back the value up, and the preference pair read off the tree.         *)
(* Densities are in ten-thousandths, shares in percent, values in            *)
(* hundred-thousandths; the language model's proposals are inputs.           *)
(***************************************************************************)
CONSTANTS
  SearchStates,  \* what is searched from: density, errors, hypotheses, confidence
  LlmProposals,  \* what the language model may propose: sequences of actions, or NULL
  Branching, MaxSearchDepth, Simulations

VARIABLES
  searchTree,      \* the nodes, by the sequence of choices that leads to each
  simulated, \* simulations run
  preference       \* the preference pair: NULL, then the two paths and whether they make one

searchVars == <<searchTree, simulated, preference>>

Smaller(a, b) == IF a < b THEN a ELSE b
ValueWithin(a, low, high) == IF a < low THEN low ELSE Smaller(a, high)

(***************************************************************************)
(* What a state is worth, and what may be done in it.                      *)
(***************************************************************************)
ValueOf(state) ==
  LET coverage == IF state.hypotheses = 0 THEN 25000
                  ELSE ValueWithin(13750 + ((25 * state.density) \div 40) - 500 * state.hypotheses, 0, 25000)
  IN ValueWithin(4 * state.density + 350 * state.confidence + coverage - Smaller(3000 * state.errors, 25000), 0, 100000)

Act(prior, confidence, links) == [prior |-> prior, confidence |-> confidence, links |-> links]

\* Stable: of equal priors the first proposed stays first.
Prioritize(actions) ==
  LET total[n \in 0..Len(actions)] == IF n = 0 THEN 0 ELSE total[n - 1] + actions[n].prior
      share == [k \in DOMAIN actions |-> IF total[Len(actions)] > 0 THEN (100 * actions[k].prior) \div total[Len(actions)] ELSE 100 \div Len(actions)]
      ranks == SortSeq([k \in DOMAIN actions |-> k], LAMBDA i, j : share[i] > share[j] \/ (share[i] = share[j] /\ i < j))
  IN [k \in DOMAIN actions |-> [actions[ranks[k]] EXCEPT !.prior = share[ranks[k]]]]

PolicyActions(state) ==
  Prioritize(
    (IF state.errors > 0 THEN <<Act(42 + Smaller(4 * state.errors, 18), 72, FALSE)>> ELSE << >>)
    \o (IF state.hypotheses > 0 THEN <<Act(34 + Smaller(3 * state.hypotheses, 16), 64, FALSE)>> ELSE << >>)
    \o (IF state.density < 5500 THEN <<Act(28 + ((5500 - state.density) \div 100), 58, TRUE)>> ELSE << >>)
    \o <<Act(25 + (state.confidence \div 5), 52, TRUE)>>)

\* A projection raises the density of the graph a little and claims nothing else.
Projected(state, action) ==
  IF action.links THEN [state EXCEPT !.density = ValueWithin(@ + 2 * action.confidence, 0, 10000)] ELSE state

\* A failed or empty answer of the language model falls back to the policy.
ExpandActions(state, proposed) == IF proposed = NULL \/ proposed = << >> THEN PolicyActions(state) ELSE Prioritize(proposed)
Expansions(state) == {ExpandActions(state, p) : p \in LlmProposals}

\* Follows the most likely action twice, each step counting 0.72 of the one before.
FirstLikely(actions) == actions[CHOOSE k \in DOMAIN actions : \A j \in DOMAIN actions : actions[j].prior < actions[k].prior \/ (actions[j].prior = actions[k].prior /\ j <= k)]
RolloutValue(state, first, second) ==
  LET one == Projected(state, FirstLikely(first))
      two == Projected(one, FirstLikely(second))
  IN (1000 * ValueOf(state) + 720 * ValueOf(one) + 518 * ValueOf(two)) \div 2238

(***************************************************************************)
(* The tree.                                                               *)
(***************************************************************************)
NoTree == << >>
NewNode(state, prior) == [state |-> state, prior |-> prior, visits |-> 0, sum |-> 0]
MeanValue(path) == IF searchTree[path].visits = 0 THEN ValueOf(searchTree[path].state) ELSE searchTree[path].sum \div searchTree[path].visits
ChildrenAt(path) == {k \in 1..Branching : Append(path, k) \in DOMAIN searchTree}

\* Square roots of the visits of a parent, times 1000.
Root1000 == <<1000, 1414, 1732, 2000, 2236, 2449>>

PuctScore(path, parentVisits) ==
  MeanValue(path) + (14 * searchTree[path].prior * Root1000[IF parentVisits = 0 THEN 1 ELSE parentVisits]) \div (10 * (1 + searchTree[path].visits))
ScoreForPath(path) == MeanValue(path) + 100 * searchTree[path].visits + 50 * Len(path)

\* The last of the best, the first of the worst.
LastBest(keys, score(_)) == CHOOSE k \in keys : \A j \in keys : score(j) < score(k) \/ (score(j) = score(k) /\ j <= k)
FirstWorst(keys, score(_)) == CHOOSE k \in keys : \A j \in keys : score(j) > score(k) \/ (score(j) = score(k) /\ j >= k)

RECURSIVE SelectedLeaf(_)
SelectedLeaf(path) ==
  IF Len(path) >= MaxSearchDepth \/ ChildrenAt(path) = {} THEN path
  ELSE SelectedLeaf(Append(path, LastBest(ChildrenAt(path), LAMBDA k : PuctScore(Append(path, k), searchTree[path].visits))))

RECURSIVE BestPath(_)
BestPath(path) ==
  IF ChildrenAt(path) = {} THEN path ELSE BestPath(Append(path, LastBest(ChildrenAt(path), LAMBDA k : ScoreForPath(Append(path, k)))))

RECURSIVE WorstPath(_)
WorstPath(path) ==
  IF ChildrenAt(path) = {} THEN path ELSE WorstPath(Append(path, FirstWorst(ChildrenAt(path), LAMBDA k : ScoreForPath(Append(path, k)))))

\* The value goes to the leaf and to everything above it.
BackedUp(nodes, leaf, value) ==
  [p \in DOMAIN nodes |->
     IF Len(p) <= Len(leaf) /\ p = SubSeq(leaf, 1, Len(p)) THEN [nodes[p] EXCEPT !.visits = @ + 1, !.sum = @ + value] ELSE nodes[p]]

WithChildren(leaf, actions) ==
  LET state == searchTree[leaf].state
      wide == Smaller(Branching, Len(actions))
  IN [p \in DOMAIN searchTree \cup {Append(leaf, k) : k \in 1..wide} |->
        IF p \in DOMAIN searchTree THEN searchTree[p] ELSE NewNode(Projected(state, actions[p[Len(p)]]), actions[p[Len(p)]].prior)]

Simulate ==
  /\ searchTree # NoTree /\ simulated < Simulations
  /\ simulated' = simulated + 1
  /\ LET leaf == SelectedLeaf(<< >>)
         state == searchTree[leaf].state
     IN IF Len(leaf) >= MaxSearchDepth
        THEN searchTree' = BackedUp(searchTree, leaf, ValueOf(state))
        ELSE \E actions, first, second \in Expansions(state) :
               searchTree' = BackedUp(WithChildren(leaf, actions), leaf, RolloutValue(state, first, second))
  /\ UNCHANGED preference

ExtractPair ==
  /\ simulated = Simulations /\ preference = NULL
  /\ LET best == BestPath(<< >>)
         worst == WorstPath(<< >>)
     IN preference' = [found |-> ~(Len(best) = Len(worst) /\ MeanValue(best) = MeanValue(worst)), best |-> best, worst |-> worst]
  /\ UNCHANGED <<searchTree, simulated>>

\* A search begins at the root.
StartSearch ==
  /\ searchTree = NoTree
  /\ \E state \in SearchStates : searchTree' = [p \in {<< >>} |-> NewNode(state, 100)]
  /\ UNCHANGED <<simulated, preference>>

SearchInit == searchTree = NoTree /\ simulated = 0 /\ preference = NULL

SearchNext == StartSearch \/ Simulate \/ ExtractPair

(***************************************************************************)
(* What must hold.                                                         *)
(***************************************************************************)
\* Every simulation is counted once at every node it passed: what went through a node ended there once, or in a child.
VisitsAddUp ==
  searchTree # NoTree =>
  /\ searchTree[<< >>].visits = simulated
  /\ \A p \in DOMAIN searchTree :
       LET below[k \in 0..Branching] == IF k = 0 THEN 0 ELSE below[k - 1] + (IF k \in ChildrenAt(p) THEN searchTree[Append(p, k)].visits ELSE 0)
       IN ChildrenAt(p) # {} => searchTree[p].visits = 1 + below[Branching]

\* A search is a projection: it changes no error, hypothesis or confidence, and no value it backs up is below that of where it started.
SearchClaimsNothing ==
  \A p \in DOMAIN searchTree :
    LET from == searchTree[<< >>].state
    IN /\ [searchTree[p].state EXCEPT !.density = 0] = [from EXCEPT !.density = 0]
       /\ Len(p) <= MaxSearchDepth
       /\ MeanValue(p) >= ValueOf(from) /\ MeanValue(p) <= 100000

\* Where the two paths of a pair part, the chosen step scores at least as high; equal ends give no pair.
PairIsOrdered ==
  preference # NULL =>
    LET common == {n \in 0..Smaller(Len(preference.best), Len(preference.worst)) : SubSeq(preference.best, 1, n) = SubSeq(preference.worst, 1, n)}
        n == CHOOSE m \in common : \A k \in common : k <= m
    IN /\ preference.best = preference.worst => ~preference.found
       /\ n < Smaller(Len(preference.best), Len(preference.worst)) => ScoreForPath(SubSeq(preference.best, 1, n + 1)) >= ScoreForPath(SubSeq(preference.worst, 1, n + 1))
       /\ ChildrenAt(preference.best) = {} /\ ChildrenAt(preference.worst) = {}

SearchSound == VisitsAddUp /\ SearchClaimsNothing /\ PairIsOrdered

(***************************************************************************)
(* Insights that evolve by votes (context-db-cdt, voting.rs): a batch of     *)
(* reflections is merged into the insights that resemble them or added, and  *)
(* what has no support is dropped.  A text is a sequence of words, weights   *)
(* and shares are percents.                                                  *)
(***************************************************************************)
CONSTANTS
  ReflectionBatches, \* sequences of reflections: type, text, weight
  EditedTexts,
  VoteWeights,
  DeprecateThreshold, MergeThreshold, PrefixTokens,
  MaxBallotsCast, MaxEdits, MaxEvolutions

VARIABLES
  voted,      \* the insights, in order: type, text, votes up and down, score, generation
  evolved,    \* the last evolution: what there was, what the batch made of it, its report
  ballotsCast, edited, evolutions

votingVars == <<voted, evolved, ballotsCast, edited, evolutions>>

SumOf(weights) == LET sum[n \in 0..Len(weights)] == IF n = 0 THEN 0 ELSE sum[n - 1] + weights[n] IN sum[Len(weights)]

\* The score is recomputed when a vote changes and only then.
Rescored(insight) == [insight EXCEPT !.score = SumOf(insight.up) - SumOf(insight.down)]

FromGradient(gradient) ==
  Rescored([type |-> gradient.type, text |-> gradient.text, up |-> <<gradient.weight>>, down |-> << >>, score |-> 0, generation |-> 0])

WordsOf(text) == {text[k] : k \in DOMAIN text}
JaccardReaches(a, b, threshold) ==
  IF a \cup b = {} THEN TRUE ELSE 100 * Cardinality(a \cap b) >= threshold * Cardinality(a \cup b)
\* Compares two shares without dividing.
JaccardAtMost(a, b, c) ==
  Cardinality(a \cap c) * Cardinality(b \cup c) <= Cardinality(b \cap c) * Cardinality(a \cup c)

NormalizedKey(text) == SubSeq(text, 1, IF Len(text) < PrefixTokens THEN Len(text) ELSE PrefixTokens)

\* The most similar of the same type, the last of equals; NULL if none reaches the threshold.
FindSimilar(list, candidate) ==
  LET near == {k \in DOMAIN list : list[k].type = candidate.type /\ JaccardReaches(WordsOf(list[k].text), WordsOf(candidate.text), MergeThreshold)}
  IN IF near = {} THEN NULL
     ELSE CHOOSE k \in near : \A j \in near :
            /\ JaccardAtMost(WordsOf(list[j].text), WordsOf(list[k].text), WordsOf(candidate.text))
            /\ JaccardAtMost(WordsOf(list[k].text), WordsOf(list[j].text), WordsOf(candidate.text)) => j <= k

HoldsText(text, other) == \E k \in 0..(Len(text) - Len(other)) : SubSeq(text, k + 1, k + Len(other)) = other

MergeContent(existing, candidate) ==
  IF HoldsText(existing, candidate) THEN existing
  ELSE IF HoldsText(candidate, existing) THEN candidate
  ELSE existing \o <<"EVOLVED">> \o candidate

\* The index of keys was taken at the start and is added to, never corrected; it does not look at the type.
MergeTarget(grown, keys, candidate) ==
  LET similar == FindSimilar(grown, candidate)
      key == NormalizedKey(candidate.text)
  IN IF similar # NULL THEN similar ELSE IF key \in DOMAIN keys THEN keys[key] ELSE NULL

MergedInsight(insight, candidate) ==
  Rescored([insight EXCEPT !.text = MergeContent(@, candidate.text), !.up = @ \o candidate.up, !.generation = @ + 1])

\* One reflection after the other.
Grown(batch) ==
  LET start == [list |-> voted, added |-> {}, merged |-> 0,
                keys |-> [key \in {NormalizedKey(voted[k].text) : k \in DOMAIN voted} |->
                            CHOOSE k \in DOMAIN voted : NormalizedKey(voted[k].text) = key /\ \A j \in DOMAIN voted : NormalizedKey(voted[j].text) = key => j <= k]]
      Step(g, gradient) ==
        LET candidate == FromGradient(gradient)
            target == MergeTarget(g.list, g.keys, candidate)
            key == NormalizedKey(candidate.text)
            n == Len(g.list) + 1
        IN IF target # NULL THEN [g EXCEPT !.list[target] = MergedInsight(@, candidate), !.merged = @ + 1]
           ELSE [g EXCEPT !.list = Append(@, candidate), !.added = @ \cup {n},
                          !.keys = [x \in DOMAIN @ \cup {key} |-> IF x = key THEN n ELSE @[x]]]
  IN FoldLeft(Step, start, batch)

EvolveFromGradients ==
  /\ evolutions < MaxEvolutions
  /\ \E batch \in ReflectionBatches :
       LET grown == Grown(batch)
           rest == SelectSeq(grown.list, LAMBDA i : i.score > DeprecateThreshold)
       IN /\ voted' = rest
          /\ evolved' = [before |-> voted, batch |-> batch, grown |-> grown.list, added |-> grown.added, merged |-> grown.merged,
                         deprecated |-> Len(grown.list) - Len(rest),
                         surviving |-> IF voted = << >> /\ grown.added = {} THEN 0 ELSE Len(rest)]
  /\ evolutions' = evolutions + 1
  /\ UNCHANGED <<ballotsCast, edited>>

Upvote(k, w) == voted' = [voted EXCEPT ![k] = Rescored([@ EXCEPT !.up = Append(@, w)])]
Downvote(k, w) == voted' = [voted EXCEPT ![k] = Rescored([@ EXCEPT !.down = Append(@, w)])]

CastVote ==
  /\ ballotsCast < MaxBallotsCast
  /\ \E k \in DOMAIN voted, w \in VoteWeights : Upvote(k, w) \/ Downvote(k, w)
  /\ ballotsCast' = ballotsCast + 1
  /\ UNCHANGED <<evolved, edited, evolutions>>

EditInsight ==
  /\ edited < MaxEdits
  /\ \E k \in DOMAIN voted, text \in EditedTexts : voted' = [voted EXCEPT ![k] = [@ EXCEPT !.text = text, !.generation = @ + 1]]
  /\ edited' = edited + 1
  /\ UNCHANGED <<evolved, ballotsCast, evolutions>>

\* Drops what has no positive score.
DropUnsupported ==
  /\ \E k \in DOMAIN voted : voted[k].score <= 0
  /\ voted' = SelectSeq(voted, LAMBDA i : i.score > 0)
  /\ UNCHANGED <<evolved, ballotsCast, edited, evolutions>>

VotingInit == voted = << >> /\ evolved = NULL /\ ballotsCast = 0 /\ edited = 0 /\ evolutions = 0

VotingNext == EvolveFromGradients \/ CastVote \/ EditInsight \/ DropUnsupported

(***************************************************************************)
(* What must hold.                                                         *)
(***************************************************************************)
\* The score of an insight is that of all the votes it ever took over, merged ones included.
ScoresFollowVotes == \A k \in DOMAIN voted : voted[k].score = SumOf(voted[k].up) - SumOf(voted[k].down)

UpvotesOf(list) == FoldLeft(LAMBDA n, i : n + Len(i.up), 0, list)
TwinsOf(list, k) == {j \in DOMAIN list \ {k} : list[j].type = list[k].type /\ list[j].text = list[k].text}

\* Every reflection of a batch is added or merged, and its vote goes to one insight; the report adds up;
\* what is added has no twin of its type.
EvolutionAddsUp ==
  evolved # NULL =>
    /\ Cardinality(evolved.added) + evolved.merged = Len(evolved.batch)
    /\ UpvotesOf(evolved.grown) = UpvotesOf(evolved.before) + Len(evolved.batch)
    /\ Len(evolved.before) + Cardinality(evolved.added) = evolved.surviving + evolved.deprecated
    /\ \A k \in evolved.added : TwinsOf(evolved.grown, k) = {}

VotingSound == ScoresFollowVotes /\ EvolutionAddsUp
=============================================================================
