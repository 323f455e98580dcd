------------------------- MODULE VersionStoreProofs --------------------------
(* Proofs about VersionStore, in this order: commits and their graph (what a   *)
(* history reaches, what a snapshot is, under insertion and collection); the   *)
(* tables refer to commits that were made; the snapshot of a commit stays what *)
(* it is; a branch moves to descendants; calls, sessions and HEAD refer to     *)
(* what exists; the store implements VersionViews; a merge is a three-way      *)
(* merge over a nearest common ancestor.                                       *)
EXTENDS VersionStore, WellFoundedInduction, SequenceTheorems, TLAPS

(* The order of the naturals as a set of pairs, the form WFMin needs. *)
LessThan == {p \in Nat \X Nat : p[1] < p[2]}

LEMMA LessThanWellFounded == IsWellFoundedOn(LessThan, Nat)
  BY Zenon, NatLessThanWellFounded DEF OpToRel, LessThan

(* Every non-empty set of naturals has a least element: the principle that *)
(* replaces induction in the proofs below.                                 *)
LEMMA LeastElement ==
  ASSUME NEW T \in SUBSET Nat, T # {}
  PROVE  \E x \in T : \A y \in T : x <= y
<1>1. PICK x \in T : \A y \in T : ~(<<y, x>> \in LessThan)
  BY LessThanWellFounded, WFMin, Zenon
<1>2. \A y \in T : ~(y < x)
  BY <1>1 DEF LessThan
<1> QED
  BY <1>2

-----------------------------------------------------------------------------
(* Recursion over the commits.                                               *)

Agree(f, g, k) == \A j \in 1..(k - 1) : f[j] = g[j]

\* What F says of k depends on what is below k only.
Local(F, V) ==
  \A k \in Commits : \A f, g \in [Commits -> V] : Agree(f, g, k) => F[<<k, f>>] = F[<<k, g>>]

(* What is defined from older commits alone exists. *)
LEMMA Recursion ==
  ASSUME NEW V, V # {}, NEW F \in [Commits \X [Commits -> V] -> V], Local(F, V)
  PROVE  \E T \in [Commits -> V] : \A k \in Commits : T[k] = F[<<k, T>>]
<1> DEFINE Upto(f, m) == \A k \in 1..m : f[k] = F[<<k, f>>]
           Bad == {m \in 0..MaxCommits : ~\E f \in [Commits -> V] : Upto(f, m)}
<1>0. MaxCommits \in Nat /\ Commits = 1..MaxCommits
  BY GraphAssumption DEF Commits
<1>1. ASSUME Bad # {} PROVE FALSE
  <2>1. Bad \in SUBSET Nat
    OBVIOUS
  <2>2. PICK m \in Bad : \A x \in Bad : m <= x
    <3> HIDE DEF Bad
    <3> QED
      BY <1>1, <2>1, LeastElement
  <2>3. m # 0
    <3>1. PICK v \in V : TRUE
      OBVIOUS
    <3>2. [k \in Commits |-> v] \in [Commits -> V]
      OBVIOUS
    <3>3. Upto([k \in Commits |-> v], 0)
      OBVIOUS
    <3> QED
      BY <3>2, <3>3
  <2>4. m - 1 \in 0..MaxCommits /\ m - 1 \notin Bad /\ m \in Commits
    <3>1. m \in 0..MaxCommits
      OBVIOUS
    <3> HIDE DEF Bad
    <3>2. m - 1 \notin Bad
      BY <2>2, <3>1
    <3> QED
      BY <1>0, <2>3, <3>1, <3>2
  <2>5. PICK f \in [Commits -> V] : Upto(f, m - 1)
    BY <2>4
  <2>6. PICK g : g = [f EXCEPT ![m] = F[<<m, f>>]]
    OBVIOUS
  <2>7. g \in [Commits -> V] /\ g[m] = F[<<m, f>>] /\ \A k \in Commits : k # m => g[k] = f[k]
    BY <2>4, <2>6
  <2>8. ASSUME NEW k \in 1..m PROVE g[k] = F[<<k, g>>]
    <3>1. k \in Commits /\ Agree(f, g, k)
      BY <1>0, <2>4, <2>7 DEF Agree
    <3>2. F[<<k, f>>] = F[<<k, g>>]
      BY <2>7, <3>1 DEF Local
    <3>3. k # m => k \in 1..(m - 1)
      BY <1>0, <2>4
    <3> QED
      BY <2>5, <2>7, <3>1, <3>2, <3>3
  <2> QED
    BY <2>2, <2>7, <2>8
<1>2. MaxCommits \in 0..MaxCommits /\ MaxCommits \notin Bad
  <2>1. MaxCommits \in 0..MaxCommits
    BY <1>0
  <2> HIDE DEF Bad
  <2> QED
    BY <1>1, <2>1
<1> QED
  BY <1>0, <1>2

-----------------------------------------------------------------------------
(* Graphs.                                                                   *)

Graphs == [Commits -> Opt(Row)]

\* Parents are older than the commit.
Older(G) == \A c \in Commits : \A i \in 1..Len(Parents(G, c)) : Parents(G, c)[i] < c

LEMMA ParentsAre ==
  ASSUME NEW G \in Graphs, NEW c \in Commits
  PROVE  /\ Parents(G, c) \in Seq(Commits) /\ Delta(G, c) \in DeltaSets
         /\ FirstParent(G, c) # NULL => FirstParent(G, c) \in Commits /\ Len(Parents(G, c)) >= 1
                                        /\ FirstParent(G, c) = Parents(G, c)[1]
<1>1. G[c] = NULL \/ G[c] \in Row
  BY DEF Graphs, Opt
<1>2. Parents(G, c) \in Seq(Commits)
  BY <1>1 DEF Parents, Row
<1>3. Delta(G, c) \in DeltaSets
  <2>1. CASE G[c] \in Row
    BY <2>1, AbsentAssumption DEF Delta, Row
  <2>2. CASE G[c] = NULL
    BY <2>2 DEF Delta, DeltaSets, DeltaOps, Orderless, Keep, RenameFrom
  <2> QED
    BY <1>1, <2>1, <2>2
<1>4. ASSUME FirstParent(G, c) # NULL
      PROVE  FirstParent(G, c) \in Commits /\ Len(Parents(G, c)) >= 1 /\ FirstParent(G, c) = Parents(G, c)[1]
  <2>1. Parents(G, c) # <<>> /\ FirstParent(G, c) = Parents(G, c)[1]
    BY <1>4 DEF FirstParent
  <2> HIDE DEF Commits
  <2>2. Len(Parents(G, c)) >= 1 /\ Parents(G, c)[1] \in Commits
    BY <1>2, <2>1
  <2> QED
    BY <2>1, <2>2
<1> QED
  BY <1>2, <1>3, <1>4

LEMMA OlderParents ==
  ASSUME NEW G \in Graphs, Older(G), NEW c \in Commits
  PROVE  /\ \A q \in Range(Parents(G, c)) : q \in Commits /\ q < c
         /\ FirstParent(G, c) # NULL => FirstParent(G, c) \in Commits /\ FirstParent(G, c) < c
                                        /\ FirstParent(G, c) \in Range(Parents(G, c))
<1>1. Parents(G, c) \in Seq(Commits)
  BY ParentsAre
<1>2. DOMAIN Parents(G, c) = 1..Len(Parents(G, c)) /\ \A i \in 1..Len(Parents(G, c)) : Parents(G, c)[i] \in Commits
  <2> HIDE DEF Commits
  <2> QED
    BY <1>1
<1>3. \A q \in Range(Parents(G, c)) : q \in Commits /\ q < c
  BY <1>2 DEF Range, Older
<1>4. ASSUME FirstParent(G, c) # NULL PROVE FirstParent(G, c) \in Range(Parents(G, c))
  <2>1. Len(Parents(G, c)) >= 1 /\ FirstParent(G, c) = Parents(G, c)[1] /\ Len(Parents(G, c)) \in Nat
    BY <1>1, <1>4, ParentsAre
  <2> QED
    BY <1>2, <2>1 DEF Range
<1> QED
  BY <1>3, <1>4

(* Deltas take trees to trees. *)
LEMMA ApplyIs ==
  ASSUME NEW tree \in Trees, NEW d \in DeltaSets
  PROVE  Apply(tree, d) \in Trees
<1>1. ASSUME NEW u \in Uris
      PROVE  (CASE d[u].op = "put" -> d[u].arg
                [] d[u].op = "delete" -> NULL
                [] d[u].op = "rename" -> IF tree[d[u].arg] # NULL THEN tree[d[u].arg] ELSE tree[u]
                [] OTHER -> IF \E w \in Uris : d[w] = RenameFrom(u) THEN NULL ELSE tree[u]) \in Opt(Values)
  <2>1. d[u] \in DeltaOps /\ tree[u] \in Opt(Values)
    BY DEF DeltaSets, Trees
  <2>2. /\ d[u].op = "put" => d[u].arg \in Values
        /\ d[u].op = "rename" => d[u].arg \in Uris
    BY <2>1 DEF DeltaOps, Keep, Erase, Put, RenameFrom
  <2>3. d[u].op = "rename" => tree[d[u].arg] \in Opt(Values)
    BY <2>2 DEF Trees
  <2> QED
    BY <2>1, <2>2, <2>3 DEF Opt
<1> QED
  BY <1>1 DEF Apply, Trees

LEMMA EmptyTreeIs == EmptyTree \in Trees
BY DEF EmptyTree, Trees, Opt

(* reconstruct_snapshot: a commit's tree is its delta applied to the tree of its *)
(* first parent, whatever the shape of the history.                             *)
LEMMA TreeIs ==
  ASSUME NEW G \in Graphs, Older(G), NEW c \in Commits
  PROVE  Tree(G, c) = Apply(IF FirstParent(G, c) = NULL THEN EmptyTree ELSE Tree(G, FirstParent(G, c)), Delta(G, c))
<1> DEFINE On(f, k) == IF FirstParent(G, k) = NULL THEN EmptyTree ELSE f[FirstParent(G, k)]
           F == [p \in Commits \X [Commits -> Trees] |-> Apply(On(p[2], p[1]), Delta(G, p[1]))]
<1>1. ASSUME NEW k \in Commits, NEW f \in [Commits -> Trees] PROVE On(f, k) \in Trees
  BY ParentsAre, EmptyTreeIs
<1>2. F \in [Commits \X [Commits -> Trees] -> Trees]
  <2> HIDE DEF On
  <2>1. \A k \in Commits, f \in [Commits -> Trees] : Apply(On(f, k), Delta(G, k)) \in Trees
    BY <1>1, ParentsAre, ApplyIs
  <2> QED
    BY <2>1
<1>3. Local(F, Trees)
  <2>1. SUFFICES ASSUME NEW k \in Commits, NEW f \in [Commits -> Trees], NEW g \in [Commits -> Trees], Agree(f, g, k)
                 PROVE  F[<<k, f>>] = F[<<k, g>>]
    BY DEF Local
  <2>2. On(f, k) = On(g, k)
    BY <2>1, OlderParents DEF Agree, Commits
  <2> HIDE DEF On
  <2> QED
    BY <2>2
<1>4. PICK T \in [Commits -> Trees] : \A k \in Commits : T[k] = F[<<k, T>>]
  <2>1. Trees # {}
    BY EmptyTreeIs
  <2> HIDE DEF F
  <2> QED
    BY <1>2, <1>3, <2>1, Recursion
<1>5. \A k \in Commits : T[k] = Apply(On(T, k), Delta(G, k))
  <2> HIDE DEF On
  <2> QED
    BY <1>4
<1>6. DOMAIN G = Commits
  BY DEF Graphs
<1>7. T = [k \in DOMAIN G |-> Apply(IF FirstParent(G, k) = NULL THEN EmptyTree ELSE T[FirstParent(G, k)], Delta(G, k))]
  BY <1>5, <1>6
<1>8. FirstParent(G, c) # NULL => FirstParent(G, c) \in DOMAIN G
  BY <1>6, ParentsAre
<1> QED
  BY <1>6, <1>7, <1>8 DEF Tree

LEMMA OldestOf ==
  ASSUME NEW S \in SUBSET Commits, S # {}
  PROVE  \E x \in S : \A y \in S : x <= y
<1>1. S \in SUBSET Nat
  BY DEF Commits
<1> QED
  BY <1>1, LeastElement

LEMMA TreeTyped ==
  ASSUME NEW G \in Graphs, Older(G), NEW c \in Commits
  PROVE  Tree(G, c) \in Trees
<1> DEFINE Bad == {k \in Commits : Tree(G, k) \notin Trees}
<1>1. ASSUME Bad # {} PROVE FALSE
  <2>1. PICK k \in Bad : \A j \in Bad : k <= j
    <3>1. Bad \in SUBSET Commits
      OBVIOUS
    <3> HIDE DEF Bad
    <3> QED
      BY <1>1, <3>1, OldestOf
  <2>2. k \in Commits /\ Tree(G, k) \notin Trees
    OBVIOUS
  <2>3. PICK q : q = FirstParent(G, k)
    OBVIOUS
  <2>4. q # NULL => q \in Commits /\ q < k
    BY <2>2, <2>3, OlderParents
  <2>5. q # NULL => Tree(G, q) \in Trees
    <3>1. q # NULL => q \notin Bad
      <4> HIDE DEF Bad
      <4> QED
        BY <2>1, <2>2, <2>4 DEF Commits
    <3> QED
      BY <2>4, <3>1
  <2>6. PICK from : from = IF q = NULL THEN EmptyTree ELSE Tree(G, q)
    OBVIOUS
  <2>7. from \in Trees
    BY <2>5, <2>6, EmptyTreeIs
  <2>8. Tree(G, k) = Apply(from, Delta(G, k))
    BY <2>2, <2>3, <2>6, TreeIs
  <2> QED
    BY <2>2, <2>7, <2>8, ApplyIs, ParentsAre
<1> QED
  BY <1>1

(* What was inserted or collected elsewhere leaves a commit as it was, with all *)
(* it descends from.                                                           *)
Undisturbed(G, H, S) ==
  \A c \in S : /\ Parents(H, c) = Parents(G, c) /\ Delta(H, c) = Delta(G, c)
               /\ \A q \in Range(Parents(G, c)) : q \in S

LEMMA TreeKept ==
  ASSUME NEW G \in Graphs, NEW H \in Graphs, Older(G), Older(H),
         NEW S \in SUBSET Commits, Undisturbed(G, H, S), NEW c \in S
  PROVE  Tree(H, c) = Tree(G, c)
<1> DEFINE Bad == {k \in S : Tree(H, k) # Tree(G, k)}
<1>1. ASSUME Bad # {} PROVE FALSE
  <2>1. PICK k \in Bad : \A j \in Bad : k <= j
    <3>1. Bad \in SUBSET Commits
      OBVIOUS
    <3> HIDE DEF Bad
    <3> QED
      BY <1>1, <3>1, OldestOf
  <2>2. k \in Commits /\ k \in S /\ Tree(H, k) # Tree(G, k)
    OBVIOUS
  <2>3. PICK q : q = FirstParent(G, k)
    OBVIOUS
  <2>4. FirstParent(H, k) = q /\ Delta(H, k) = Delta(G, k)
    BY <2>2, <2>3 DEF Undisturbed, FirstParent
  <2>5. q # NULL => q \in Commits /\ q < k /\ q \in S
    BY <2>2, <2>3, OlderParents DEF Undisturbed
  <2>6. q # NULL => Tree(H, q) = Tree(G, q)
    <3>1. q # NULL => q \notin Bad
      <4> HIDE DEF Bad
      <4> QED
        BY <2>1, <2>2, <2>5 DEF Commits
    <3> QED
      BY <2>5, <3>1
  <2>7. PICK from : from = IF q = NULL THEN EmptyTree ELSE Tree(G, q)
    OBVIOUS
  <2>8. Tree(G, k) = Apply(from, Delta(G, k))
    BY <2>2, <2>3, <2>7, TreeIs
  <2>9. Tree(H, k) = Apply(from, Delta(G, k))
    <3>1. from = IF q = NULL THEN EmptyTree ELSE Tree(H, q)
      BY <2>6, <2>7
    <3> QED
      BY <2>2, <2>4, <3>1, TreeIs
  <2> QED
    BY <2>2, <2>8, <2>9
<1> QED
  BY <1>1

-----------------------------------------------------------------------------
(* Ancestry.                                                                 *)

LEMMA ReachIs ==
  ASSUME NEW G \in Graphs, Older(G), NEW c \in Commits
  PROVE  Reach(G, c) = {c} \cup UNION {Reach(G, q) : q \in Range(Parents(G, c))}
<1> DEFINE On(f, k) == {k} \cup UNION {f[q] : q \in Range(Parents(G, k))}
           F == [p \in Commits \X [Commits -> SUBSET Commits] |-> On(p[2], p[1])]
<1>1. ASSUME NEW k \in Commits, NEW f \in [Commits -> SUBSET Commits] PROVE On(f, k) \in SUBSET Commits
  BY OlderParents
<1>2. F \in [Commits \X [Commits -> SUBSET Commits] -> SUBSET Commits]
  <2> HIDE DEF On
  <2>1. \A k \in Commits, f \in [Commits -> SUBSET Commits] : On(f, k) \in SUBSET Commits
    BY <1>1
  <2> QED
    BY <2>1
<1>3. Local(F, SUBSET Commits)
  <2>1. SUFFICES ASSUME NEW k \in Commits, NEW f \in [Commits -> SUBSET Commits],
                        NEW g \in [Commits -> SUBSET Commits], Agree(f, g, k)
                 PROVE  F[<<k, f>>] = F[<<k, g>>]
    BY DEF Local
  <2>2. \A q \in Range(Parents(G, k)) : f[q] = g[q]
    BY <2>1, OlderParents DEF Agree, Commits
  <2>3. On(f, k) = On(g, k)
    BY <2>2
  <2> HIDE DEF On
  <2> QED
    BY <2>3
<1>4. PICK R \in [Commits -> SUBSET Commits] : \A k \in Commits : R[k] = F[<<k, R>>]
  <2>1. SUBSET Commits # {}
    OBVIOUS
  <2> HIDE DEF F
  <2> QED
    BY <1>2, <1>3, <2>1, Recursion
<1>5. \A k \in Commits : R[k] = On(R, k)
  <2> HIDE DEF On
  <2> QED
    BY <1>4
<1>6. DOMAIN G = Commits
  BY DEF Graphs
<1>7. R = [k \in DOMAIN G |-> {k} \cup UNION {R[p] : p \in Range(Parents(G, k))}]
  BY <1>5, <1>6
<1>8. \A q \in Range(Parents(G, c)) : q \in DOMAIN G
  BY <1>6, OlderParents
<1> QED
  BY <1>6, <1>7, <1>8 DEF Reach

LEMMA ReachKept ==
  ASSUME NEW G \in Graphs, NEW H \in Graphs, Older(G), Older(H),
         NEW S \in SUBSET Commits, Undisturbed(G, H, S), NEW c \in S
  PROVE  Reach(H, c) = Reach(G, c)
<1> DEFINE Bad == {k \in S : Reach(H, k) # Reach(G, k)}
<1>1. ASSUME Bad # {} PROVE FALSE
  <2>1. PICK k \in Bad : \A j \in Bad : k <= j
    <3>1. Bad \in SUBSET Commits
      OBVIOUS
    <3> HIDE DEF Bad
    <3> QED
      BY <1>1, <3>1, OldestOf
  <2>2. k \in Commits /\ k \in S /\ Reach(H, k) # Reach(G, k)
    OBVIOUS
  <2>3. Parents(H, k) = Parents(G, k)
    BY <2>2 DEF Undisturbed
  <2>4. \A q \in Range(Parents(G, k)) : q \in Commits /\ q < k /\ q \in S
    BY <2>2, OlderParents DEF Undisturbed
  <2>5. \A q \in Range(Parents(G, k)) : Reach(H, q) = Reach(G, q)
    <3>1. \A q \in Range(Parents(G, k)) : q \notin Bad
      <4> HIDE DEF Bad
      <4> QED
        BY <2>1, <2>2, <2>4 DEF Commits
    <3> QED
      BY <2>4, <3>1
  <2>6. {Reach(H, q) : q \in Range(Parents(G, k))} = {Reach(G, q) : q \in Range(Parents(G, k))}
    BY <2>5
  <2> QED
    BY <2>2, <2>3, <2>6, ReachIs
<1> QED
  BY <1>1

\* What a commit names as a parent it descends from.
LEMMA ParentReached ==
  ASSUME NEW G \in Graphs, Older(G), NEW c \in Commits, NEW q \in Range(Parents(G, c))
  PROVE  IsAncestor(G, q, c)
<1>1. q \in Commits
  BY OlderParents
<1>2. q \in Reach(G, q)
  BY <1>1, ReachIs
<1> QED
  BY <1>2, ReachIs DEF IsAncestor

-----------------------------------------------------------------------------
(* The commits of a rebase.                                                  *)

LEMMA RebaseIs ==
  ASSUME NEW G \in Graphs, Older(G), NEW c \in Commits, NEW onto
  PROVE  CommitsToRebase(G, c, onto) =
           IF IsAncestor(G, c, onto) THEN <<>>
           ELSE (IF FirstParent(G, c) = NULL THEN <<>> ELSE CommitsToRebase(G, FirstParent(G, c), onto)) \o <<c>>
<1> DEFINE On(f, k) == IF IsAncestor(G, k, onto) THEN <<>>
                       ELSE (IF FirstParent(G, k) = NULL THEN <<>> ELSE f[FirstParent(G, k)]) \o <<k>>
           F == [p \in Commits \X [Commits -> Seq(Commits)] |-> On(p[2], p[1])]
<1>1. ASSUME NEW k \in Commits, NEW f \in [Commits -> Seq(Commits)] PROVE On(f, k) \in Seq(Commits)
  <2>1. PICK q \in Seq(Commits) : q = IF FirstParent(G, k) = NULL THEN <<>> ELSE f[FirstParent(G, k)]
    <3>1. FirstParent(G, k) # NULL => FirstParent(G, k) \in Commits
      BY ParentsAre
    <3>2. <<>> \in Seq(Commits)
      OBVIOUS
    <3>3. FirstParent(G, k) # NULL => f[FirstParent(G, k)] \in Seq(Commits)
      BY <3>1
    <3> QED
      BY <3>2, <3>3
  <2>2. q \o <<k>> \in Seq(Commits)
    <3> HIDE DEF Commits
    <3> QED
      OBVIOUS
  <2> QED
    BY <2>1, <2>2
<1>2. F \in [Commits \X [Commits -> Seq(Commits)] -> Seq(Commits)]
  <2> HIDE DEF On
  <2>1. \A k \in Commits, f \in [Commits -> Seq(Commits)] : On(f, k) \in Seq(Commits)
    BY <1>1
  <2> QED
    BY <2>1
<1>3. Local(F, Seq(Commits))
  <2>1. SUFFICES ASSUME NEW k \in Commits, NEW f \in [Commits -> Seq(Commits)],
                        NEW g \in [Commits -> Seq(Commits)], Agree(f, g, k)
                 PROVE  F[<<k, f>>] = F[<<k, g>>]
    BY DEF Local
  <2>2. FirstParent(G, k) # NULL => f[FirstParent(G, k)] = g[FirstParent(G, k)]
    BY <2>1, OlderParents DEF Agree, Commits
  <2>3. On(f, k) = On(g, k)
    BY <2>2
  <2> HIDE DEF On
  <2> QED
    BY <2>3
<1>4. PICK T \in [Commits -> Seq(Commits)] : \A k \in Commits : T[k] = F[<<k, T>>]
  <2>1. Seq(Commits) # {}
    <3>1. <<>> \in Seq(Commits)
      OBVIOUS
    <3> QED
      BY <3>1
  <2> HIDE DEF F
  <2> QED
    BY <1>2, <1>3, <2>1, Recursion
<1>5. \A k \in Commits : T[k] = On(T, k)
  <2> HIDE DEF On
  <2> QED
    BY <1>4
<1>6. DOMAIN G = Commits
  BY DEF Graphs
<1>7. T = [k \in DOMAIN G |-> IF IsAncestor(G, k, onto) THEN <<>>
                              ELSE (IF FirstParent(G, k) = NULL THEN <<>> ELSE T[FirstParent(G, k)]) \o <<k>>]
  BY <1>5, <1>6
<1>8. FirstParent(G, c) # NULL => FirstParent(G, c) \in DOMAIN G
  BY <1>6, ParentsAre
<1> QED
  BY <1>6, <1>7, <1>8 DEF CommitsToRebase

\* They are not younger than the head of the branch.
LEMMA RebaseTyped ==
  ASSUME NEW G \in Graphs, Older(G), NEW n \in 0..MaxCommits, NEW c \in 1..n, NEW onto
  PROVE  CommitsToRebase(G, c, onto) \in Seq(1..n)
<1> DEFINE Bad == {k \in 1..n : CommitsToRebase(G, k, onto) \notin Seq(1..n)}
<1>0. \A k \in 1..n : k \in Commits
  BY GraphAssumption DEF Commits
<1>1. ASSUME Bad # {} PROVE FALSE
  <2>1. PICK k \in Bad : \A j \in Bad : k <= j
    <3>1. Bad \in SUBSET Commits
      BY <1>0
    <3> HIDE DEF Bad
    <3> QED
      BY <1>1, <3>1, OldestOf
  <2>2. k \in 1..n /\ k \in Commits /\ CommitsToRebase(G, k, onto) \notin Seq(1..n)
    BY <1>0
  <2>3. PICK q : q = FirstParent(G, k)
    OBVIOUS
  <2>4. q # NULL => q \in 1..n /\ q < k
    BY <2>2, <2>3, OlderParents, GraphAssumption DEF Commits
  <2>5. q # NULL => CommitsToRebase(G, q, onto) \in Seq(1..n)
    <3>1. q # NULL => q \notin Bad
      <4> HIDE DEF Bad
      <4> QED
        BY <2>1, <2>2, <2>4
    <3> QED
      BY <2>4, <3>1
  <2>6. PICK older : older = IF q = NULL THEN <<>> ELSE CommitsToRebase(G, q, onto)
    OBVIOUS
  <2>7. older \in Seq(1..n) /\ <<>> \in Seq(1..n)
    <3>1. <<>> \in Seq(1..n)
      OBVIOUS
    <3> QED
      BY <2>5, <2>6, <3>1
  <2>8. CommitsToRebase(G, k, onto) = IF IsAncestor(G, k, onto) THEN <<>> ELSE older \o <<k>>
    BY <2>2, <2>3, <2>6, RebaseIs
  <2>9. older \o <<k>> \in Seq(1..n)
    <3>1. k \in 1..n
      BY <2>2
    <3> QED
      BY <2>7, <3>1
  <2> QED
    BY <2>2, <2>7, <2>8, <2>9
<1> QED
  BY <1>1

-----------------------------------------------------------------------------
(* What an operation computes.                                               *)

LEMMA RowIs ==
  ASSUME NEW parents \in Seq(Commits), NEW delta \in DeltaSets,
         NEW kind \in {"commit", "merge", "knowledge", "pick", "squash"}, NEW picked \in Opt(Commits)
  PROVE  /\ NewRow(parents, delta, kind, picked) \in Row
         /\ NewRow(parents, delta, kind, picked).parents = parents
         /\ NewRow(parents, delta, kind, picked).delta = delta
BY DEF NewRow, Row

(* The deltas of a diff turn one tree into the other. *)
LEMMA DiffIs ==
  ASSUME NEW src \in Trees, NEW dst \in Trees
  PROVE  Diff(src, dst) \in DeltaSets /\ Apply(src, Diff(src, dst)) = dst
<1> DEFINE d == Diff(src, dst)
<1>1. ASSUME NEW u \in Uris
      PROVE  /\ d[u] \in DeltaOps /\ d[u].op # "rename"
             /\ src[u] = dst[u] => d[u].op = "keep"
             /\ src[u] # dst[u] /\ dst[u] = NULL => d[u].op = "delete"
             /\ src[u] # dst[u] /\ dst[u] # NULL => d[u].op = "put" /\ d[u].arg = dst[u]
  <2>1. src[u] \in Opt(Values) /\ dst[u] \in Opt(Values)
    BY DEF Trees
  <2>2. CASE src[u] = dst[u]
    <3>1. d[u] = Keep
      BY <2>2 DEF Diff
    <3> QED
      BY <2>2, <3>1 DEF DeltaOps, Keep
  <2>3. CASE src[u] # dst[u] /\ dst[u] = NULL
    <3>1. d[u] = Erase
      BY <2>3 DEF Diff
    <3> QED
      BY <2>3, <3>1 DEF DeltaOps, Erase
  <2>4. CASE src[u] # dst[u] /\ dst[u] # NULL
    <3>1. d[u] = Put(dst[u]) /\ dst[u] \in Values
      BY <2>1, <2>4 DEF Diff, Opt
    <3> QED
      BY <2>4, <3>1 DEF DeltaOps, Put
  <2> QED
    BY <2>2, <2>3, <2>4
<1>2. d \in DeltaSets
  <2>1. d = [u \in Uris |-> d[u]]
    BY DEF Diff
  <2> HIDE DEF d
  <2>2. Orderless(d)
    BY <1>1 DEF Orderless, RenameFrom
  <2> QED
    BY <1>1, <2>1, <2>2 DEF DeltaSets
<1> HIDE DEF d
<1>3. ASSUME NEW u \in Uris PROVE Apply(src, d)[u] = dst[u]
  <2>1. ~\E w \in Uris : d[w] = RenameFrom(u)
    BY <1>1 DEF RenameFrom
  <2> QED
    BY <1>1, <2>1 DEF Apply
<1>4. Apply(src, d) \in Trees
  BY <1>2, ApplyIs
<1>5. Apply(src, d) = dst
  BY <1>3, <1>4 DEF Trees
<1> QED
  BY <1>2, <1>5 DEF d

SessionStates == [conflicts : SUBSET Uris, ours : Trees, theirs : Trees, clean : Trees]

LEMMA PayloadsAre == ASSUME NEW tree \in Trees PROVE SnapshotToPayloads(tree) \in Trees
BY DEF SnapshotToPayloads, RawToPayload, Trees, Opt

LEMMA SessionIs ==
  ASSUME NEW G \in Graphs, Older(G), NEW c \in Commits, NEW target \in Commits
  PROVE  PickSession(G, c, target) \in SessionStates
<1>1. PICK base \in Trees : base = TreeOrEmpty(G, FirstParent(G, c))
  BY ParentsAre, TreeTyped, EmptyTreeIs DEF TreeOrEmpty
<1>2. PICK picked \in Trees : picked = Tree(G, c)
  BY TreeTyped
<1>3. PICK mine \in Trees : mine = Tree(G, target)
  BY TreeTyped
<1>4. PICK changed \in SUBSET Uris : changed = {u \in Uris : base[u] # picked[u]}
  OBVIOUS
<1>5. PICK clash \in SUBSET Uris : clash = {u \in changed : mine[u] \notin {base[u], picked[u]}}
  OBVIOUS
<1>6. [u \in Uris |-> IF u \in changed \ clash THEN picked[u] ELSE mine[u]] \in Trees
  BY DEF Trees
<1>7. PickSession(G, c, target) =
        [conflicts |-> clash, ours |-> SnapshotToPayloads(mine), theirs |-> SnapshotToPayloads(picked),
         clean |-> SnapshotToPayloads([u \in Uris |-> IF u \in changed \ clash THEN picked[u] ELSE mine[u]])]
  BY <1>1, <1>2, <1>3, <1>4, <1>5 DEF PickSession
<1> QED
  BY <1>6, <1>7, PayloadsAre DEF SessionStates

LEMMA ResolvedIs ==
  ASSUME NEW s \in SessionStates, NEW how, \A u \in s.conflicts : how[u] \in Resolutions
  PROVE  Resolved(s, how) \in Trees
<1>1. ManualPayload \in Values
  BY GraphAssumption DEF ManualPayload, Values
<1>2. s.clean \in Trees /\ s.ours \in Trees /\ s.theirs \in Trees
  BY DEF SessionStates
<1>3. ASSUME NEW u \in Uris
      PROVE  (IF u \notin s.conflicts THEN s.clean[u]
              ELSE CASE how[u] = "ours" -> s.ours[u]
                     [] how[u] = "theirs" -> s.theirs[u]
                     [] how[u] = "delete" -> NULL
                     [] how[u] = "manual" -> ManualPayload) \in Opt(Values)
  BY <1>1, <1>2 DEF Trees, Opt, Resolutions
<1> QED
  BY <1>3 DEF Resolved, Trees

LEMMA PickRowIs ==
  ASSUME NEW G \in Graphs, Older(G), NEW c \in Commits, NEW target \in Commits, NEW final \in Trees
  PROVE  PickRow(G, c, target, final) \in Row /\ PickRow(G, c, target, final).parents = <<target>>
<1>1. Diff(Tree(G, target), final) \in DeltaSets
  BY TreeTyped, DiffIs
<1>2. <<target>> \in Seq(Commits) /\ c \in Opt(Commits)
  <2> HIDE DEF Commits
  <2> QED
    BY DEF Opt
<1> QED
  BY <1>1, <1>2, RowIs DEF PickRow

\* Every URI shows what one of the two sides shows.
Mixes(tree, ours, theirs) == \A u \in Uris : tree[u] \in {ours[u], theirs[u]}

(* Whatever the merge base is, a merge takes each URI from one side. *)
LEMMA MergeRowIs ==
  ASSUME NEW G \in Graphs, Older(G), NEW ours \in Commits, NEW theirs \in Commits, NEW strategy
  PROVE  /\ MergeRow(G, theirs, ours, strategy) \in Row
         /\ MergeRow(G, theirs, ours, strategy).parents = <<ours, theirs>>
         /\ Mixes(Apply(Tree(G, ours), MergeRow(G, theirs, ours, strategy).delta), Tree(G, ours), Tree(G, theirs))
<1>1. PICK into \in Trees : into = Tree(G, ours)
  BY TreeTyped
<1>2. PICK from \in Trees : from = Tree(G, theirs)
  BY TreeTyped
<1>3. PICK base : base = TreeOrEmpty(G, MergeBase(G, theirs, ours))
  OBVIOUS
<1>4. PICK both : both = Merged(base, into, from, strategy)
  OBVIOUS
<1>5. ASSUME NEW u \in Uris PROVE both[u] \in {into[u], from[u]}
  BY <1>4 DEF Merged
<1>6. both \in Trees
  <2>1. both = [u \in Uris |-> both[u]]
    BY <1>4 DEF Merged
  <2>2. \A u \in Uris : into[u] \in Opt(Values) /\ from[u] \in Opt(Values)
    BY DEF Trees
  <2>3. \A u \in Uris : both[u] \in Opt(Values)
    BY <1>5, <2>2
  <2> QED
    BY <2>1, <2>3 DEF Trees
<1>7. Diff(into, both) \in DeltaSets /\ Apply(into, Diff(into, both)) = both
  BY <1>6, DiffIs
<1>8. MergeRow(G, theirs, ours, strategy) = NewRow(<<ours, theirs>>, Diff(into, both), "merge", NULL)
  BY <1>1, <1>2, <1>3, <1>4 DEF MergeRow
<1>9. <<ours, theirs>> \in Seq(Commits) /\ NULL \in Opt(Commits)
  <2> HIDE DEF Commits
  <2> QED
    BY DEF Opt
<1>10. PICK row : row = NewRow(<<ours, theirs>>, Diff(into, both), "merge", NULL)
  OBVIOUS
<1>11. row \in Row /\ row.parents = <<ours, theirs>> /\ row.delta = Diff(into, both)
  <2>1. PICK parents \in Seq(Commits) : parents = <<ours, theirs>>
    BY <1>9
  <2>2. PICK delta \in DeltaSets : delta = Diff(into, both)
    BY <1>7
  <2>3. row = NewRow(parents, delta, "merge", NULL)
    BY <1>10, <2>1, <2>2
  <2>4. row \in Row /\ row.parents = parents /\ row.delta = delta
    BY <1>9, <2>3, RowIs
  <2> QED
    BY <2>1, <2>2, <2>4
<1>12. Mixes(Apply(into, row.delta), into, from)
  BY <1>7, <1>5, <1>11 DEF Mixes
<1> QED
  BY <1>1, <1>2, <1>8, <1>10, <1>11, <1>12

LEMMA KnowledgeRowIs ==
  ASSUME NEW G \in Graphs, Older(G), NEW ours \in Commits, NEW theirs \in Commits, NEW theirsWin
  PROVE  /\ KnowledgeRow(G, theirs, ours, theirsWin) \in Row
         /\ KnowledgeRow(G, theirs, ours, theirsWin).parents = <<ours, theirs>>
         /\ Mixes(Apply(Tree(G, ours), KnowledgeRow(G, theirs, ours, theirsWin).delta), Tree(G, ours), Tree(G, theirs))
<1>1. PICK into \in Trees : into = Tree(G, ours)
  BY TreeTyped
<1>2. PICK from \in Trees : from = Tree(G, theirs)
  BY TreeTyped
<1>3. PICK union : union = [u \in Uris |-> IF into[u] = NULL \/ (from[u] # NULL /\ theirsWin) THEN from[u] ELSE into[u]]
  OBVIOUS
<1>4. ASSUME NEW u \in Uris PROVE union[u] \in {into[u], from[u]}
  BY <1>3
<1>5. union \in Trees
  BY <1>3 DEF Trees
<1>6. Diff(into, union) \in DeltaSets /\ Apply(into, Diff(into, union)) = union
  BY <1>5, DiffIs
<1>7. KnowledgeRow(G, theirs, ours, theirsWin) = NewRow(<<ours, theirs>>, Diff(into, union), "knowledge", NULL)
  BY <1>1, <1>2, <1>3 DEF KnowledgeRow
<1>8. <<ours, theirs>> \in Seq(Commits) /\ NULL \in Opt(Commits)
  <2> HIDE DEF Commits
  <2> QED
    BY DEF Opt
<1>9. PICK row : row = NewRow(<<ours, theirs>>, Diff(into, union), "knowledge", NULL)
  OBVIOUS
<1>10. row \in Row /\ row.parents = <<ours, theirs>> /\ row.delta = Diff(into, union)
  <2>1. PICK parents \in Seq(Commits) : parents = <<ours, theirs>>
    BY <1>8
  <2>2. PICK delta \in DeltaSets : delta = Diff(into, union)
    BY <1>6
  <2>3. row = NewRow(parents, delta, "knowledge", NULL)
    BY <1>9, <2>1, <2>2
  <2>4. row \in Row /\ row.parents = parents /\ row.delta = delta
    BY <1>8, <2>3, RowIs
  <2> QED
    BY <2>1, <2>2, <2>4
<1>11. Mixes(Apply(into, row.delta), into, from)
  BY <1>6, <1>4, <1>10 DEF Mixes
<1> QED
  BY <1>1, <1>2, <1>7, <1>9, <1>10, <1>11

(* squash: the one step from the oldest commit's parent shows what the tip shows. *)
LEMMA SquashRowIs ==
  ASSUME NEW G \in Graphs, Older(G), NEW oldest \in Commits, NEW newest \in Commits
  PROVE  /\ SquashRow(G, oldest, newest) \in Row
         /\ SquashRow(G, oldest, newest).parents
              = IF FirstParent(G, oldest) = NULL THEN <<>> ELSE <<FirstParent(G, oldest)>>
         /\ Apply(TreeOrEmpty(G, FirstParent(G, oldest)), SquashRow(G, oldest, newest).delta) = Tree(G, newest)
<1>1. PICK q \in Opt(Commits) : q = FirstParent(G, oldest)
  BY ParentsAre DEF Opt
<1>2. PICK base \in Trees : base = TreeOrEmpty(G, q)
  BY TreeTyped, EmptyTreeIs DEF TreeOrEmpty, Opt
<1>3. Diff(base, Tree(G, newest)) \in DeltaSets /\ Apply(base, Diff(base, Tree(G, newest))) = Tree(G, newest)
  BY TreeTyped, DiffIs
<1>4. PICK parents : parents = IF q = NULL THEN <<>> ELSE <<q>>
  OBVIOUS
<1>5. parents \in Seq(Commits) /\ NULL \in Opt(Commits)
  <2> HIDE DEF Commits
  <2> QED
    BY <1>4 DEF Opt
<1>6. SquashRow(G, oldest, newest) = NewRow(parents, Diff(base, Tree(G, newest)), "squash", NULL)
  BY <1>1, <1>2, <1>4 DEF SquashRow
<1>7. PICK row : row = NewRow(parents, Diff(base, Tree(G, newest)), "squash", NULL)
  OBVIOUS
<1>8. row \in Row /\ row.parents = parents /\ row.delta = Diff(base, Tree(G, newest))
  BY <1>3, <1>5, <1>7, RowIs
<1> QED
  BY <1>1, <1>2, <1>3, <1>4, <1>6, <1>7, <1>8

-----------------------------------------------------------------------------
(* The invariant: what the tables and the calls refer to was made.           *)

CommitCalls == [op : {"commit"}, parent : Opt(Commits), row : Row]
BranchCalls == [op : {"branch"}, name : Branches, at : Commits]
SwitchCalls == [op : {"switch"}, name : Branches, to : Commits]
TagCalls    == [op : {"tag"}, name : Tags, at : Commits]
MergeCalls  == [op : {"merge"}, into : Branches, ours : Commits, theirs : Commits, row : Opt(Row)]
PickCalls   == [op : {"pick"}, branch : Branches, target : Commits, session : Nat, row : Row]
RebaseCalls == [op : {"rebase"}, branch : Branches, expect : Commits, target : Commits, todo : Seq(Commits),
                strategy : {"fail", "ours", "theirs"}, first : Opt(Trees), session : Nat]
SquashCalls == [op : {"squash"}, tip : Commits, row : Row]
GcCalls     == [op : {"gc"}, victims : SUBSET Commits]
MarkCalls   == [op : {"mark"}, session : Nat]

Calls == {Idle} \cup CommitCalls \cup BranchCalls \cup SwitchCalls \cup TagCalls \cup MergeCalls \cup PickCalls
           \cup RebaseCalls \cup SquashCalls \cup GcCalls \cup MarkCalls

LEMMA CallKinds ==
  ASSUME NEW c \in Calls
  PROVE  /\ c.op = "commit" => c \in CommitCalls
         /\ c.op = "branch" => c \in BranchCalls
         /\ c.op = "switch" => c \in SwitchCalls
         /\ c.op = "tag" => c \in TagCalls
         /\ c.op = "merge" => c \in MergeCalls
         /\ c.op = "pick" => c \in PickCalls
         /\ c.op = "rebase" => c \in RebaseCalls
         /\ c.op = "squash" => c \in SquashCalls
         /\ c.op = "gc" => c \in GcCalls
         /\ c.op = "mark" => c \in MarkCalls
         /\ c.op = "idle" => c = Idle
BY DEF Calls, Idle, CommitCalls, BranchCalls, SwitchCalls, TagCalls, MergeCalls, PickCalls, RebaseCalls, SquashCalls,
       GcCalls, MarkCalls

Sessions == [kind : {"pick", "rebase"}, branch : Branches, target : Commits, commits : Seq(Commits),
             state : SessionStates, status : {"open", "completed", "aborted"}]

RowMade(row, n) == \A i \in 1..Len(row.parents) : row.parents[i] \in 1..n

\* c refers to the first n commits.
CallMade(c, n) ==
  /\ c.op = "commit" => RowMade(c.row, n) /\ (c.parent # NULL => c.row.parents = <<c.parent>>)
                                          /\ (c.parent = NULL => c.row.parents = <<>>)
  /\ c.op = "branch" => c.at \in 1..n
  /\ c.op = "switch" => c.to \in 1..n
  /\ c.op = "tag" => c.at \in 1..n
  /\ c.op = "merge" => c.ours \in 1..n /\ c.theirs \in 1..n
                       /\ (c.row # NULL => RowMade(c.row, n) /\ c.row.parents = <<c.ours, c.theirs>>)
  /\ c.op = "pick" => RowMade(c.row, n) /\ c.row.parents = <<c.target>>
  /\ c.op = "rebase" => c.target \in 1..n /\ c.expect \in 1..n /\ \A i \in 1..Len(c.todo) : c.todo[i] \in 1..n
  /\ c.op = "squash" => RowMade(c.row, n) /\ c.tip \in 1..n

SessionMade(s, n) == s.target \in 1..n /\ s.commits # <<>> /\ \A i \in 1..Len(s.commits) : s.commits[i] \in 1..n

GraphMade(G, n) == G \in Graphs /\ Older(G) /\ \A c \in Commits : G[c] # NULL => c <= n

VersionTyped ==
  /\ scene \in Scenes
  /\ made \in 0..MaxCommits
  /\ GraphMade(rows, made)
  /\ head \in Opt(1..made)
  /\ attached \in Opt(Branches)
  /\ branches \in [Branches -> Opt(1..made)]
  /\ tags \in [Tags -> Opt(1..made)]
  /\ sessions \in Seq(Sessions) /\ \A i \in 1..Len(sessions) : SessionMade(sessions[i], made)
  /\ call \in [Callers -> Calls] /\ \A p \in Callers : CallMade(call[p], made)

LEMMA SceneIs ==
  ASSUME VersionTyped
  PROVE  /\ scene.store \in {"sqlite", "postgres"} /\ scene.commits \in Commits
         /\ scene.first \in DeltaSets /\ scene.changes \in SUBSET DeltaSets
BY ScenesAssumption DEF VersionTyped, Scene

LEMMA MadeMore ==
  ASSUME NEW n \in Nat, NEW m \in Nat, n <= m
  PROVE  /\ \A x \in 1..n : x \in 1..m
         /\ \A row : RowMade(row, n) => RowMade(row, m)
         /\ \A c : CallMade(c, n) => CallMade(c, m)
         /\ \A s : SessionMade(s, n) => SessionMade(s, m)
<1>1. \A x \in 1..n : x \in 1..m
  OBVIOUS
<1>2. \A row : RowMade(row, n) => RowMade(row, m)
  BY <1>1 DEF RowMade
<1>3. ASSUME NEW c, CallMade(c, n) PROVE CallMade(c, m)
  BY <1>1, <1>2, <1>3 DEF CallMade
<1>4. \A s : SessionMade(s, n) => SessionMade(s, m)
  BY <1>1 DEF SessionMade
<1> QED
  BY <1>1, <1>2, <1>3, <1>4

(* insert_commit_row: the next commit is younger than what it names. *)
LEMMA InsertIs ==
  ASSUME NEW G, NEW n \in Nat, GraphMade(G, n), n + 1 \in Commits, NEW row \in Row, RowMade(row, n),
         NEW H, H = [G EXCEPT ![n + 1] = row]
  PROVE  /\ GraphMade(H, n + 1) /\ H[n + 1] = row /\ Parents(H, n + 1) = row.parents /\ Delta(H, n + 1) = row.delta
         /\ \A c \in Commits : c # n + 1 => H[c] = G[c]
         /\ Undisturbed(G, H, 1..n)
<1>1. G \in Graphs /\ Older(G) /\ \A c \in Commits : G[c] # NULL => c <= n
  BY DEF GraphMade
<1>2. H \in Graphs /\ H[n + 1] = row /\ \A c \in Commits : c # n + 1 => H[c] = G[c]
  BY <1>1 DEF Graphs, Opt
<1>3. Parents(H, n + 1) = row.parents /\ Delta(H, n + 1) = row.delta /\ row # NULL
  BY <1>2, AbsentAssumption DEF Parents, Delta
<1>4. \A c \in Commits : c # n + 1 => Parents(H, c) = Parents(G, c) /\ Delta(H, c) = Delta(G, c)
  BY <1>2 DEF Parents, Delta
<1>5. \A i \in 1..Len(row.parents) : row.parents[i] < n + 1
  BY DEF RowMade
<1>6. Older(H)
  BY <1>1, <1>3, <1>4, <1>5 DEF Older
<1>7. \A c \in Commits : H[c] # NULL => c <= n + 1
  BY <1>1, <1>2 DEF Commits
<1>8. ASSUME NEW c \in 1..n
      PROVE  /\ Parents(H, c) = Parents(G, c) /\ Delta(H, c) = Delta(G, c)
             /\ \A q \in Range(Parents(G, c)) : q \in 1..n
  <2>1. c \in Commits /\ c # n + 1
    BY GraphAssumption DEF Commits
  <2>2. \A q \in Range(Parents(G, c)) : q \in Commits /\ q < c
    BY <1>1, <2>1, OlderParents
  <2>3. \A q \in Range(Parents(G, c)) : q \in 1..n
    BY <2>2 DEF Commits
  <2> QED
    BY <1>4, <2>1, <2>3
<1> QED
  BY <1>2, <1>3, <1>6, <1>7, <1>8 DEF GraphMade, Undisturbed

(* gc: what is left still names older commits only. *)
LEMMA CollectIs ==
  ASSUME NEW G, NEW n \in Nat, GraphMade(G, n), NEW V,
         NEW H, H = [c \in Commits |-> IF c \in V THEN NULL ELSE G[c]]
  PROVE  GraphMade(H, n)
<1>1. G \in Graphs /\ Older(G) /\ \A c \in Commits : G[c] # NULL => c <= n
  BY DEF GraphMade
<1>2. H \in Graphs
  BY <1>1 DEF Graphs, Opt
<1>3. \A c \in Commits : H[c] = NULL \/ H[c] = G[c]
  OBVIOUS
<1>4. \A c \in Commits : Parents(H, c) = <<>> \/ Parents(H, c) = Parents(G, c)
  BY <1>3 DEF Parents
<1>5. Older(H)
  <2>1. SUFFICES ASSUME NEW c \in Commits PROVE \A i \in 1..Len(Parents(H, c)) : Parents(H, c)[i] < c
    BY DEF Older
  <2>2. CASE Parents(H, c) = <<>>
    BY <2>2
  <2>3. CASE Parents(H, c) = Parents(G, c)
    BY <1>1, <2>3 DEF Older
  <2> QED
    BY <1>4, <2>2, <2>3
<1> QED
  BY <1>1, <1>2, <1>3, <1>5 DEF GraphMade

\* A call that is in no operation, or in a new one, while all else stays.
LEMMA CallChanges ==
  ASSUME VersionTyped, NEW p \in Callers, NEW c \in Calls, CallMade(c, made),
         call' = [call EXCEPT ![p] = c], UNCHANGED <<scene, rows, made, refs, sessions>>
  PROVE  VersionTyped'
<1>1. call' \in [Callers -> Calls] /\ \A q \in Callers : CallMade(call'[q], made)
  BY DEF VersionTyped
<1> QED
  BY <1>1 DEF VersionTyped, refs

LEMMA IdleMade == Idle \in Calls /\ \A n : CallMade(Idle, n)
BY DEF Idle, Calls, CallMade

LEMMA RefusedTyped == ASSUME VersionTyped, NEW p \in Callers, Refused(p), UNCHANGED scene PROVE VersionTyped'
BY CallChanges, IdleMade DEF Refused, End

\* The transaction that inserts the next commit and moves references to it.
LEMMA InsertTyped ==
  ASSUME VersionTyped, Room, NEW row \in Row, RowMade(row, made), InsertCommit(row),
         NEW p \in Callers, NEW c \in Calls, CallMade(c, made + 1), call' = [call EXCEPT ![p] = c],
         UNCHANGED <<scene, attached, tags, sessions>>,
         head' \in {head, Next1}, branches' \in [Branches -> Opt(1..made + 1)]
  PROVE  VersionTyped'
<1>1. made \in Nat /\ made + 1 \in Commits /\ made + 1 \in 0..MaxCommits /\ made' = made + 1 /\ GraphMade(rows, made)
  BY SceneIs, GraphAssumption DEF VersionTyped, Room, Commits, InsertCommit, Next1
<1>2. rows' = [rows EXCEPT ![made + 1] = row]
  BY DEF InsertCommit, Next1
<1>3. GraphMade(rows', made + 1)
  BY <1>1, <1>2, InsertIs
<1>4. made + 1 \in Nat /\ made <= made + 1
  BY <1>1
<1>5. /\ \A x \in 1..made : x \in 1..made + 1
      /\ \A d : CallMade(d, made) => CallMade(d, made + 1)
      /\ \A s : SessionMade(s, made) => SessionMade(s, made + 1)
  BY <1>1, <1>4, MadeMore
<1>6. call' \in [Callers -> Calls] /\ \A q \in Callers : CallMade(call'[q], made + 1)
  BY <1>5 DEF VersionTyped
<1>7. head' \in Opt(1..made + 1)
  BY <1>1, <1>5 DEF VersionTyped, Next1, Opt
<1>8. tags \in [Tags -> Opt(1..made + 1)]
  BY <1>5 DEF VersionTyped, Opt
<1>9. \A i \in 1..Len(sessions) : SessionMade(sessions[i], made + 1)
  BY <1>5 DEF VersionTyped
<1> QED
  BY <1>1, <1>3, <1>6, <1>7, <1>8, <1>9 DEF VersionTyped

LEMMA MoreBranches ==
  ASSUME VersionTyped
  PROVE  /\ branches \in [Branches -> Opt(1..made + 1)] /\ made + 1 \in 1..made + 1
         /\ \A b \in Branches : [branches EXCEPT ![b] = made + 1] \in [Branches -> Opt(1..made + 1)]
<1>1. made \in Nat
  BY GraphAssumption DEF VersionTyped
<1>2. made + 1 \in 1..made + 1 /\ \A x \in 1..made : x \in 1..made + 1
  BY <1>1
<1>3. branches \in [Branches -> Opt(1..made + 1)]
  BY <1>2 DEF VersionTyped, Opt
<1> QED
  BY <1>2, <1>3 DEF Opt

LEMMA CallOf ==
  ASSUME VersionTyped, NEW p \in Callers
  PROVE  call[p] \in Calls /\ CallMade(call[p], made)
BY DEF VersionTyped

(* commit *)
LEMMA StartCommitTyped == ASSUME VersionTyped, NEW p \in Callers, StartCommit(p) PROVE VersionTyped'
<1>1. PICK d \in scene.changes :
        call' = [call EXCEPT ![p] = [op |-> "commit", parent |-> head,
                                     row |-> NewRow(IF head = NULL THEN <<>> ELSE <<head>>, d, "commit", NULL)]]
  BY DEF StartCommit, Begin
<1>2. d \in DeltaSets
  BY <1>1, SceneIs
<1>3. PICK parents : parents = IF head = NULL THEN <<>> ELSE <<head>>
  OBVIOUS
<1>4. /\ parents \in Seq(Commits) /\ \A i \in 1..Len(parents) : parents[i] \in 1..made
      /\ head # NULL => parents = <<head>>
      /\ head = NULL => parents = <<>>
  <2>1. head = NULL \/ (head \in 1..made /\ head \in Commits)
    BY GraphAssumption DEF VersionTyped, Opt, Commits
  <2>2. CASE head = NULL
    BY <1>3, <2>2
  <2>3. CASE head # NULL
    <3>1. head \in 1..made /\ head \in Commits /\ parents = <<head>>
      BY <1>3, <2>1, <2>3
    <3> HIDE DEF Commits
    <3> QED
      BY <2>3, <3>1
  <2> QED
    BY <2>2, <2>3
<1>5. PICK row : row = NewRow(parents, d, "commit", NULL)
  OBVIOUS
<1>6. row \in Row /\ row.parents = parents
  <2>1. NULL \in Opt(Commits)
    BY DEF Opt
  <2> QED
    BY <1>2, <1>4, <1>5, <2>1, RowIs
<1>7. PICK c : c = [op |-> "commit", parent |-> head, row |-> row]
  OBVIOUS
<1>8. c \in CommitCalls
  <2>1. head \in Opt(Commits)
    BY GraphAssumption DEF VersionTyped, Opt, Commits
  <2> QED
    BY <1>6, <1>7, <2>1 DEF CommitCalls
<1>9. CallMade(c, made)
  BY <1>4, <1>6, <1>7 DEF CallMade, RowMade
<1>10. call' = [call EXCEPT ![p] = c] /\ c \in Calls /\ UNCHANGED <<scene, rows, made, refs, sessions>>
  BY <1>1, <1>3, <1>5, <1>7, <1>8 DEF StartCommit, Starts, Calls
<1> QED
  BY <1>9, <1>10, CallChanges

LEMMA SqliteCommitTyped == ASSUME VersionTyped, NEW p \in Callers, SqliteCommit(p) PROVE VersionTyped'
<1>1. CASE Refused(p)
  BY <1>1, RefusedTyped DEF SqliteCommit, Finishes
<1>2. CASE ~Refused(p)
  <2>1. call[p] \in CommitCalls /\ RowMade(call[p].row, made)
    BY CallOf, CallKinds DEF SqliteCommit, Finishes, CallMade
  <2>2. /\ Room /\ InsertCommit(call[p].row) /\ head' = Next1
        /\ branches' = branches \/ (branches' = [branches EXCEPT ![attached] = Next1] /\ attached # NULL)
        /\ call' = [call EXCEPT ![p] = Idle] /\ UNCHANGED <<scene, attached, tags, sessions>>
    BY <1>2 DEF SqliteCommit, Finishes, MoveBranch, End
  <2>3. branches' \in [Branches -> Opt(1..made + 1)]
    BY <2>2, MoreBranches DEF Next1, VersionTyped, Opt
  <2>4. call[p].row \in Row
    BY <2>1 DEF CommitCalls
  <2> QED
    BY <2>1, <2>2, <2>3, <2>4, IdleMade, InsertTyped
<1> QED
  BY <1>1, <1>2

LEMMA PgCommitTyped == ASSUME VersionTyped, NEW p \in Callers, PgCommit(p) PROVE VersionTyped'
<1>1. CASE Refused(p)
  BY <1>1, RefusedTyped DEF PgCommit, Finishes
<1>2. CASE ~Refused(p)
  <2>1. call[p] \in CommitCalls /\ RowMade(call[p].row, made)
    BY CallOf, CallKinds DEF PgCommit, Finishes, CallMade
  <2>2. /\ Room /\ InsertCommit(call[p].row) /\ head' = Next1 /\ branches' = branches
        /\ call' = [call EXCEPT ![p] = Idle] /\ UNCHANGED <<scene, attached, tags, sessions>>
    BY <1>2 DEF PgCommit, Finishes, End
  <2>3. branches' \in [Branches -> Opt(1..made + 1)]
    BY <2>2, MoreBranches
  <2>4. call[p].row \in Row
    BY <2>1 DEF CommitCalls
  <2> QED
    BY <2>1, <2>2, <2>3, <2>4, IdleMade, InsertTyped
<1> QED
  BY <1>1, <1>2

\* References move among the commits that were made.
LEMMA MoveTyped ==
  ASSUME VersionTyped, UNCHANGED <<scene, rows, made, sessions>>,
         head' \in Opt(1..made), attached' \in Opt(Branches), branches' \in [Branches -> Opt(1..made)],
         tags' \in [Tags -> Opt(1..made)],
         NEW p \in Callers, NEW c \in Calls, CallMade(c, made), call' = [call EXCEPT ![p] = c] \/ call' = call
  PROVE  VersionTyped'
<1>1. call' \in [Callers -> Calls] /\ \A q \in Callers : CallMade(call'[q], made)
  BY DEF VersionTyped
<1> QED
  BY <1>1 DEF VersionTyped

LEMMA RefsAre ==
  ASSUME VersionTyped
  PROVE  /\ made \in Nat /\ made \in 0..MaxCommits /\ rows \in Graphs /\ Older(rows)
         /\ \A c \in 1..made : c \in Commits
         /\ \A b \in Branches : branches[b] # NULL => branches[b] \in 1..made /\ branches[b] \in Commits
         /\ head # NULL => head \in 1..made /\ head \in Commits
         /\ \A c \in Alive(rows) : c \in 1..made
<1>1. made \in Nat /\ made \in 0..MaxCommits /\ GraphMade(rows, made) /\ \A c \in 1..made : c \in Commits
  BY GraphAssumption DEF VersionTyped, Commits
<1>2. rows \in Graphs /\ Older(rows) /\ \A c \in Alive(rows) : c \in 1..made
  BY <1>1 DEF GraphMade, Graphs, Alive, Commits
<1>3. \A b \in Branches : branches[b] # NULL => branches[b] \in 1..made
  BY DEF VersionTyped, Opt
<1>4. head # NULL => head \in 1..made
  BY DEF VersionTyped, Opt
<1> QED
  BY <1>1, <1>2, <1>3, <1>4

(* create_branch, delete_branch *)
LEMMA StartCreateBranchTyped == ASSUME VersionTyped, NEW p \in Callers, StartCreateBranch(p) PROVE VersionTyped'
<1>1. PICK b \in Branches, k \in 1..made : call' = [call EXCEPT ![p] = [op |-> "branch", name |-> b, at |-> k]]
  BY DEF StartCreateBranch, Begin
<1>2. PICK c : c = [op |-> "branch", name |-> b, at |-> k]
  OBVIOUS
<1>3. c \in BranchCalls /\ CallMade(c, made)
  BY <1>2, RefsAre DEF BranchCalls, CallMade
<1>4. c \in Calls
  BY <1>3, Zenon DEF Calls
<1> QED
  BY <1>1, <1>2, <1>3, <1>4, CallChanges DEF StartCreateBranch, Starts

LEMMA CreateBranchTyped == ASSUME VersionTyped, NEW p \in Callers, CreateBranch(p) PROVE VersionTyped'
<1>1. CASE Refused(p)
  BY <1>1, RefusedTyped DEF CreateBranch, Finishes
<1>2. CASE ~Refused(p)
  <2>1. call[p] \in BranchCalls /\ call[p].at \in 1..made
    BY CallOf, CallKinds DEF CreateBranch, Finishes, CallMade
  <2>2. /\ branches' = [branches EXCEPT ![call[p].name] = call[p].at]
        /\ call' = [call EXCEPT ![p] = Idle] /\ UNCHANGED <<scene, rows, made, head, attached, tags, sessions>>
    BY <1>2 DEF CreateBranch, Finishes, MoveBranch, End
  <2>3. branches' \in [Branches -> Opt(1..made)]
    BY <2>1, <2>2 DEF VersionTyped, Opt
  <2> QED
    BY <2>2, <2>3, IdleMade, MoveTyped DEF VersionTyped
<1> QED
  BY <1>1, <1>2

LEMMA DeleteBranchTyped == ASSUME VersionTyped, NEW p \in Callers, DeleteBranch(p) PROVE VersionTyped'
<1>1. PICK b \in Branches : branches' = [branches EXCEPT ![b] = NULL]
  BY DEF DeleteBranch, MoveBranch
<1>2. branches' \in [Branches -> Opt(1..made)]
  BY <1>1 DEF VersionTyped, Opt
<1>3. UNCHANGED <<scene, rows, made, sessions, head, attached, tags, call>>
  BY DEF DeleteBranch, Starts
<1> QED
  BY <1>2, <1>3, IdleMade, MoveTyped DEF VersionTyped

(* switch_head *)
LEMMA StartSwitchHeadTyped == ASSUME VersionTyped, NEW p \in Callers, StartSwitchHead(p) PROVE VersionTyped'
<1>1. PICK b \in Branches : /\ branches[b] # NULL
                            /\ call' = [call EXCEPT ![p] = [op |-> "switch", name |-> b, to |-> branches[b]]]
  BY DEF StartSwitchHead, Begin
<1>2. PICK c : c = [op |-> "switch", name |-> b, to |-> branches[b]]
  OBVIOUS
<1>3. c \in SwitchCalls /\ CallMade(c, made)
  BY <1>1, <1>2, RefsAre DEF SwitchCalls, CallMade
<1>4. c \in Calls
  BY <1>3, Zenon DEF Calls
<1> QED
  BY <1>1, <1>2, <1>3, <1>4, CallChanges DEF StartSwitchHead, Starts

LEMMA SqliteSwitchHeadTyped == ASSUME VersionTyped, NEW p \in Callers, SqliteSwitchHead(p) PROVE VersionTyped'
<1>1. CASE Refused(p)
  BY <1>1, RefusedTyped DEF SqliteSwitchHead, Finishes
<1>2. CASE ~Refused(p)
  <2>1. call[p] \in SwitchCalls /\ call[p].to \in 1..made
    BY CallOf, CallKinds DEF SqliteSwitchHead, Finishes, CallMade
  <2>2. /\ head' = call[p].to /\ attached' = call[p].name
        /\ call' = [call EXCEPT ![p] = Idle] /\ UNCHANGED <<scene, rows, made, branches, tags, sessions>>
    BY <1>2 DEF SqliteSwitchHead, Finishes, End
  <2>3. head' \in Opt(1..made) /\ attached' \in Opt(Branches)
    BY <2>1, <2>2 DEF SwitchCalls, Opt
  <2> QED
    BY <2>2, <2>3, IdleMade, MoveTyped DEF VersionTyped
<1> QED
  BY <1>1, <1>2

LEMMA PgSwitchHeadTyped == ASSUME VersionTyped, NEW p \in Callers, PgSwitchHead(p) PROVE VersionTyped'
<1>1. call[p] \in SwitchCalls /\ call[p].to \in 1..made
  BY CallOf, CallKinds DEF PgSwitchHead, Finishes, CallMade
<1>2. /\ head' = call[p].to
      /\ call' = [call EXCEPT ![p] = Idle] /\ UNCHANGED <<scene, rows, made, attached, branches, tags, sessions>>
  BY DEF PgSwitchHead, Finishes, End
<1>3. head' \in Opt(1..made)
  BY <1>1, <1>2 DEF Opt
<1> QED
  BY <1>2, <1>3, IdleMade, MoveTyped DEF VersionTyped

(* create_tag *)
LEMMA StartCreateTagTyped == ASSUME VersionTyped, NEW p \in Callers, StartCreateTag(p) PROVE VersionTyped'
<1>1. PICK g \in Tags, k \in 1..made : call' = [call EXCEPT ![p] = [op |-> "tag", name |-> g, at |-> k]]
  BY DEF StartCreateTag, Begin
<1>2. PICK c : c = [op |-> "tag", name |-> g, at |-> k]
  OBVIOUS
<1>3. c \in TagCalls /\ CallMade(c, made)
  BY <1>2, RefsAre DEF TagCalls, CallMade
<1>4. c \in Calls
  BY <1>3, Zenon DEF Calls
<1> QED
  BY <1>1, <1>2, <1>3, <1>4, CallChanges DEF StartCreateTag, Starts

LEMMA CreateTagTyped == ASSUME VersionTyped, NEW p \in Callers, CreateTag(p) PROVE VersionTyped'
<1>1. call[p] \in TagCalls /\ call[p].at \in 1..made
  BY CallOf, CallKinds DEF CreateTag, Finishes, CallMade
<1>2. /\ tags' = [tags EXCEPT ![call[p].name] = call[p].at]
      /\ call' = [call EXCEPT ![p] = Idle] /\ UNCHANGED <<scene, rows, made, head, attached, branches, sessions>>
  BY DEF CreateTag, Finishes, End
<1>3. tags' \in [Tags -> Opt(1..made)]
  BY <1>1, <1>2 DEF VersionTyped, Opt
<1> QED
  BY <1>2, <1>3, IdleMade, MoveTyped DEF VersionTyped


(* merge and knowledge_merge *)
LEMMA PairMade == ASSUME NEW a, NEW b, NEW n, a \in 1..n, b \in 1..n, NEW row, row.parents = <<a, b>> PROVE RowMade(row, n)
BY DEF RowMade

LEMMA BeginMergeTyped ==
  ASSUME VersionTyped, NEW p \in Callers, NEW into \in Branches, NEW ours \in 1..made, NEW theirs \in 1..made,
         NEW row \in Opt(Row), row # NULL => row.parents = <<ours, theirs>>,
         call' = [call EXCEPT ![p] = [op |-> "merge", into |-> into, ours |-> ours, theirs |-> theirs, row |-> row]],
         UNCHANGED <<scene, rows, made, refs, sessions>>
  PROVE  VersionTyped'
<1>1. PICK c : c = [op |-> "merge", into |-> into, ours |-> ours, theirs |-> theirs, row |-> row]
  OBVIOUS
<1>2. c \in MergeCalls
  BY <1>1, RefsAre DEF MergeCalls
<1>3. row # NULL => RowMade(row, made)
  BY PairMade
<1>4. CallMade(c, made)
  BY <1>1, <1>3 DEF CallMade
<1>5. c \in Calls
  BY <1>2, Zenon DEF Calls
<1> QED
  BY <1>1, <1>4, <1>5, CallChanges

LEMMA StartMergeTyped == ASSUME VersionTyped, NEW p \in Callers, StartMerge(p) PROVE VersionTyped'
<1>1. PICK from \in Branches, into \in Branches, strategy \in {"ours", "theirs"} :
        /\ branches[from] # NULL /\ branches[into] # NULL
        /\ call' = [call EXCEPT ![p] =
                      [op |-> "merge", into |-> into, ours |-> branches[into], theirs |-> branches[from],
                       row |-> IF IsAncestor(rows, branches[into], branches[from]) THEN NULL
                               ELSE MergeRow(rows, branches[from], branches[into], strategy)]]
  BY DEF StartMerge, Begin
<1>2. PICK row : row = IF IsAncestor(rows, branches[into], branches[from]) THEN NULL
                       ELSE MergeRow(rows, branches[from], branches[into], strategy)
  OBVIOUS
<1>3. row \in Opt(Row) /\ (row # NULL => row.parents = <<branches[into], branches[from]>>)
  BY <1>1, <1>2, RefsAre, MergeRowIs DEF Opt
<1> QED
  BY <1>1, <1>2, <1>3, RefsAre, BeginMergeTyped DEF StartMerge, Starts

LEMMA StartKnowledgeMergeTyped == ASSUME VersionTyped, NEW p \in Callers, StartKnowledgeMerge(p) PROVE VersionTyped'
<1>1. PICK from \in Branches, into \in Branches, theirsWin \in BOOLEAN :
        /\ branches[from] # NULL /\ branches[into] # NULL
        /\ call' = [call EXCEPT ![p] =
                      [op |-> "merge", into |-> into, ours |-> branches[into], theirs |-> branches[from],
                       row |-> IF IsAncestor(rows, branches[into], branches[from]) THEN NULL
                               ELSE KnowledgeRow(rows, branches[from], branches[into], theirsWin)]]
  BY DEF StartKnowledgeMerge, Begin
<1>2. PICK row : row = IF IsAncestor(rows, branches[into], branches[from]) THEN NULL
                       ELSE KnowledgeRow(rows, branches[from], branches[into], theirsWin)
  OBVIOUS
<1>3. row \in Opt(Row) /\ (row # NULL => row.parents = <<branches[into], branches[from]>>)
  BY <1>1, <1>2, RefsAre, KnowledgeRowIs DEF Opt
<1> QED
  BY <1>1, <1>2, <1>3, RefsAre, BeginMergeTyped DEF StartKnowledgeMerge, Starts

LEMMA FastForwardTyped == ASSUME VersionTyped, NEW p \in Callers, FastForward(p) PROVE VersionTyped'
<1>1. CASE Refused(p)
  BY <1>1, RefusedTyped DEF FastForward, Finishes
<1>2. CASE ~Refused(p)
  <2>1. call[p] \in MergeCalls /\ call[p].theirs \in 1..made
    BY CallOf, CallKinds DEF FastForward, Finishes, CallMade
  <2>2. /\ branches' = [branches EXCEPT ![call[p].into] = call[p].theirs] /\ head' = call[p].theirs
        /\ call' = [call EXCEPT ![p] = Idle] /\ UNCHANGED <<scene, rows, made, attached, tags, sessions>>
    BY <1>2 DEF FastForward, Finishes, MoveBranch, End
  <2>3. branches' \in [Branches -> Opt(1..made)] /\ head' \in Opt(1..made)
    BY <2>1, <2>2 DEF VersionTyped, Opt
  <2> QED
    BY <2>2, <2>3, IdleMade, MoveTyped DEF VersionTyped
<1> QED
  BY <1>1, <1>2

LEMMA MergeTyped == ASSUME VersionTyped, NEW p \in Callers, Merge(p) PROVE VersionTyped'
<1>1. CASE Refused(p)
  BY <1>1, RefusedTyped DEF Merge, Finishes
<1>2. CASE ~Refused(p)
  <2>1. call[p] \in MergeCalls /\ call[p].row # NULL /\ RowMade(call[p].row, made)
    BY CallOf, CallKinds DEF Merge, Finishes, CallMade
  <2>2. /\ Room /\ InsertCommit(call[p].row) /\ head' = Next1
        /\ branches' = [branches EXCEPT ![call[p].into] = Next1]
        /\ call' = [call EXCEPT ![p] = Idle] /\ UNCHANGED <<scene, attached, tags, sessions>>
    BY <1>2 DEF Merge, Finishes, MoveBranch, End
  <2>3. call[p].row \in Row /\ call[p].into \in Branches
    BY <2>1 DEF MergeCalls, Opt
  <2>4. branches' \in [Branches -> Opt(1..made + 1)]
    BY <2>2, <2>3, MoreBranches DEF Next1
  <2> QED
    BY <2>1, <2>2, <2>3, <2>4, IdleMade, InsertTyped
<1> QED
  BY <1>1, <1>2

(* cherry_pick *)
LEMMA BeginPickTyped ==
  ASSUME VersionTyped, NEW p \in Callers, NEW b \in Branches, NEW target \in 1..made, NEW i \in Nat,
         NEW row \in Row, row.parents = <<target>>,
         call' = [call EXCEPT ![p] = [op |-> "pick", branch |-> b, target |-> target, session |-> i, row |-> row]],
         UNCHANGED <<scene, rows, made, refs, sessions>>
  PROVE  VersionTyped'
<1>1. PICK c : c = [op |-> "pick", branch |-> b, target |-> target, session |-> i, row |-> row]
  OBVIOUS
<1>2. c \in PickCalls
  BY <1>1, RefsAre DEF PickCalls
<1>3. RowMade(row, made)
  BY DEF RowMade
<1>4. CallMade(c, made)
  BY <1>1, <1>3 DEF CallMade
<1>5. c \in Calls
  BY <1>2, Zenon DEF Calls
<1> QED
  BY <1>1, <1>4, <1>5, CallChanges

LEMMA StrategyIs == ASSUME NEW s, NEW strategy PROVE \A u \in s.conflicts : ByStrategy(s, strategy)[u] \in Resolutions
BY DEF ByStrategy, Resolutions

LEMMA StartCherryPickTyped == ASSUME VersionTyped, NEW p \in Callers, StartCherryPick(p) PROVE VersionTyped'
<1>1. PICK k \in Alive(rows), b \in Branches, strategy \in {"fail", "ours", "theirs"} :
        /\ branches[b] # NULL
        /\ call' = [call EXCEPT ![p] =
                      [op |-> "pick", branch |-> b, target |-> branches[b], session |-> 0,
                       row |-> PickRow(rows, k, branches[b],
                                       Resolved(PickSession(rows, k, branches[b]),
                                                ByStrategy(PickSession(rows, k, branches[b]), strategy)))]]
  BY DEF StartCherryPick, Begin
<1>2. k \in Commits /\ branches[b] \in Commits /\ branches[b] \in 1..made
  BY <1>1, RefsAre
<1>3. PICK s \in SessionStates : s = PickSession(rows, k, branches[b])
  BY <1>2, RefsAre, SessionIs
<1>4. PICK final \in Trees : final = Resolved(s, ByStrategy(s, strategy))
  BY StrategyIs, ResolvedIs
<1>5. PICK row : row = PickRow(rows, k, branches[b], final)
  OBVIOUS
<1>6. row \in Row /\ row.parents = <<branches[b]>>
  BY <1>2, <1>5, RefsAre, PickRowIs
<1>7. call' = [call EXCEPT ![p] = [op |-> "pick", branch |-> b, target |-> branches[b], session |-> 0, row |-> row]]
  BY <1>1, <1>3, <1>4, <1>5
<1> QED
  BY <1>2, <1>6, <1>7, BeginPickTyped DEF StartCherryPick, Starts

\* The call an operation ends in.
LEMMA EndsIn ==
  ASSUME VersionTyped, NEW p \in Callers, call[p].op \in {"pick", "rebase"}, EndOrMark(p)
  PROVE  \E c \in Calls : (\A n : CallMade(c, n)) /\ call' = [call EXCEPT ![p] = c] /\ c.op \in {"idle", "mark"}
<1>1. call[p].session \in Nat
  BY CallOf, CallKinds DEF PickCalls, RebaseCalls
<1>2. PICK c : c = IF call[p].session = 0 THEN Idle ELSE [op |-> "mark", session |-> call[p].session]
  OBVIOUS
<1>3. c = Idle \/ c \in MarkCalls
  BY <1>1, <1>2 DEF MarkCalls
<1>4. c \in Calls
  BY <1>3, Zenon DEF Calls
<1>5. c.op \in {"idle", "mark"}
  BY <1>3 DEF Idle, MarkCalls
<1>6. \A n : CallMade(c, n)
  BY <1>5 DEF CallMade
<1>7. call' = [call EXCEPT ![p] = c]
  BY <1>2 DEF EndOrMark, Begin, End
<1> QED
  BY <1>4, <1>5, <1>6, <1>7

LEMMA CherryPickTyped == ASSUME VersionTyped, NEW p \in Callers, CherryPick(p) PROVE VersionTyped'
<1>1. CASE Refused(p)
  BY <1>1, RefusedTyped DEF CherryPick, Finishes
<1>2. CASE ~Refused(p)
  <2>1. call[p] \in PickCalls /\ RowMade(call[p].row, made) /\ call[p].op = "pick"
    BY CallOf, CallKinds DEF CherryPick, Finishes, CallMade
  <2>2. /\ Room /\ InsertCommit(call[p].row) /\ head' \in {head, Next1}
        /\ branches' = [branches EXCEPT ![call[p].branch] = Next1]
        /\ EndOrMark(p) /\ UNCHANGED <<scene, attached, tags, sessions>>
    BY <1>2 DEF CherryPick, Finishes, MoveBranch
  <2>3. PICK c \in Calls : CallMade(c, made + 1) /\ call' = [call EXCEPT ![p] = c]
    BY <2>1, <2>2, EndsIn
  <2>4. call[p].row \in Row /\ call[p].branch \in Branches
    BY <2>1 DEF PickCalls
  <2>5. branches' \in [Branches -> Opt(1..made + 1)]
    BY <2>2, <2>4, MoreBranches DEF Next1
  <2> QED
    BY <2>1, <2>2, <2>3, <2>4, <2>5, InsertTyped
<1> QED
  BY <1>1, <1>2


(* rebase *)
LEMMA BeginRebaseTyped ==
  ASSUME VersionTyped, NEW p \in Callers, NEW b \in Branches, NEW expect \in 1..made, NEW target \in 1..made,
         NEW todo \in Seq(1..made), NEW strategy \in {"fail", "ours", "theirs"}, NEW first \in Opt(Trees), NEW i \in Nat,
         call' = [call EXCEPT ![p] = [op |-> "rebase", branch |-> b, expect |-> expect, target |-> target,
                                      todo |-> todo, strategy |-> strategy, first |-> first, session |-> i]],
         UNCHANGED <<scene, rows, made, refs, sessions>>
  PROVE  VersionTyped'
<1>1. PICK c : c = [op |-> "rebase", branch |-> b, expect |-> expect, target |-> target, todo |-> todo,
                    strategy |-> strategy, first |-> first, session |-> i]
  OBVIOUS
<1>2. todo \in Seq(Commits) /\ \A k \in 1..Len(todo) : todo[k] \in 1..made
  <2>1. PICK M : M = 1..made
    OBVIOUS
  <2>2. todo \in Seq(M) /\ \A x \in M : x \in Commits
    BY <2>1, RefsAre
  <2> HIDE DEF Commits
  <2>3. todo \in Seq(Commits) /\ \A k \in 1..Len(todo) : todo[k] \in M
    BY <2>2
  <2> QED
    BY <2>1, <2>3
<1>3. c \in RebaseCalls
  BY <1>1, <1>2, RefsAre DEF RebaseCalls
<1>4. CallMade(c, made)
  BY <1>1, <1>2 DEF CallMade
<1>5. c \in Calls
  BY <1>3, Zenon DEF Calls
<1> QED
  BY <1>1, <1>4, <1>5, CallChanges

LEMMA StartRebaseTyped == ASSUME VersionTyped, NEW p \in Callers, StartRebase(p) PROVE VersionTyped'
<1>1. PICK b \in Branches, onto \in Branches, strategy \in {"fail", "ours", "theirs"} :
        /\ branches[b] # NULL /\ branches[onto] # NULL
        /\ call' = [call EXCEPT ![p] =
                      [op |-> "rebase", branch |-> b, expect |-> branches[b], target |-> branches[onto],
                       todo |-> CommitsToRebase(rows, branches[b], branches[onto]),
                       strategy |-> strategy, first |-> NULL, session |-> 0]]
  BY DEF StartRebase, Begin
<1>2. CommitsToRebase(rows, branches[b], branches[onto]) \in Seq(1..made)
  BY <1>1, RefsAre, RebaseTyped
<1>3. NULL \in Opt(Trees) /\ 0 \in Nat
  BY DEF Opt
<1>4. branches[b] \in 1..made /\ branches[onto] \in 1..made
  BY <1>1, RefsAre
<1> QED
  BY <1>1, <1>2, <1>3, <1>4, BeginRebaseTyped DEF StartRebase, Starts

\* What the next step of the rebase c would insert.
Final(c) == LET s == PickSession(rows, Head(c.todo), c.target)
            IN IF c.first # NULL THEN c.first ELSE Resolved(s, ByStrategy(s, c.strategy))
NextRow(c) == PickRow(rows, Head(c.todo), c.target, Final(c))

LEMMA NextRowIs ==
  ASSUME VersionTyped, NEW p \in Callers, call[p].op = "rebase", call[p].todo # <<>>
  PROVE  /\ NextRow(call[p]) \in Row /\ NextRow(call[p]).parents = <<call[p].target>>
         /\ Final(call[p]) \in Trees /\ call[p].target \in 1..made /\ call[p].target \in Commits
         /\ Head(call[p].todo) \in Commits
         /\ NextRow(call[p]).delta = Diff(Tree(rows, call[p].target), Final(call[p]))
<1>1. call[p] \in RebaseCalls /\ call[p].target \in 1..made
  BY CallOf, CallKinds DEF CallMade
<1>2. PICK c \in RebaseCalls : c = call[p]
  BY <1>1
<1>3. c.target \in Commits /\ c.todo \in Seq(Commits) /\ c.first \in Opt(Trees)
  BY <1>2 DEF RebaseCalls
<1>4. PICK h : h = Head(c.todo)
  OBVIOUS
<1>5. h \in Commits
  <2> HIDE DEF Commits
  <2> QED
    BY <1>2, <1>3, <1>4
<1>6. PICK s \in SessionStates : s = PickSession(rows, h, c.target)
  BY <1>3, <1>5, RefsAre, SessionIs
<1>7. Resolved(s, ByStrategy(s, c.strategy)) \in Trees
  BY StrategyIs, ResolvedIs
<1>8. PICK final \in Trees : final = Final(c)
  BY <1>3, <1>4, <1>6, <1>7 DEF Final, Opt
<1>9. PICK row : row = PickRow(rows, h, c.target, final)
  OBVIOUS
<1>10. row \in Row /\ row.parents = <<c.target>>
  BY <1>3, <1>5, <1>9, RefsAre, PickRowIs
<1>11. row.delta = Diff(Tree(rows, c.target), final)
  BY <1>9 DEF PickRow, NewRow
<1>12. NextRow(c) = row
  BY <1>4, <1>8, <1>9 DEF NextRow
<1> QED
  BY <1>1, <1>2, <1>3, <1>4, <1>5, <1>8, <1>10, <1>11, <1>12

LEMMA RebaseStepIs ==
  ASSUME VersionTyped, NEW p \in Callers, RebaseStep(p), ~Refused(p)
  PROVE  /\ call[p].op = "rebase" /\ call[p].todo # <<>> /\ Room /\ ParentsExist(NextRow(call[p]))
         /\ InsertCommit(NextRow(call[p]))
         /\ call' = [call EXCEPT ![p] = [call[p] EXCEPT !.target = Next1, !.todo = Tail(call[p].todo), !.first = NULL]]
         /\ UNCHANGED <<scene, refs, sessions>>
BY Zenon DEF RebaseStep, Finishes, NextRow, Final, Begin

LEMMA RebaseStepTyped == ASSUME VersionTyped, NEW p \in Callers, RebaseStep(p) PROVE VersionTyped'
<1>1. CASE Refused(p)
  BY <1>1, RefusedTyped DEF RebaseStep, Finishes
<1>2. CASE ~Refused(p)
  <2>1. /\ call[p].op = "rebase" /\ call[p].todo # <<>> /\ Room /\ InsertCommit(NextRow(call[p]))
        /\ call' = [call EXCEPT ![p] = [call[p] EXCEPT !.target = Next1, !.todo = Tail(call[p].todo), !.first = NULL]]
        /\ UNCHANGED <<scene, refs, sessions>>
    BY <1>2, RebaseStepIs
  <2>2. PICK c \in RebaseCalls : c = call[p]
    BY <2>1, CallOf, CallKinds
  <2>3. /\ c.expect \in 1..made /\ \A k \in 1..Len(c.todo) : c.todo[k] \in 1..made
    BY <2>1, <2>2, CallOf DEF CallMade
  <2>4. NextRow(c) \in Row /\ NextRow(c).parents = <<c.target>> /\ c.target \in 1..made
    BY <2>1, <2>2, NextRowIs
  <2>5. RowMade(NextRow(c), made)
    BY <2>4 DEF RowMade
  <2>6. made \in Nat /\ Next1 \in Commits /\ Next1 \in 1..made + 1 /\ Next1 = made + 1
    BY <2>1, RefsAre, SceneIs, GraphAssumption DEF Next1, Room, Commits
  <2>7. PICK rest : rest = Tail(c.todo)
    OBVIOUS
  <2>8. rest \in Seq(Commits) /\ \A k \in 1..Len(rest) : rest[k] \in 1..made
    <3>1. c.todo \in Seq(Commits) /\ c.todo # <<>>
      BY <2>1, <2>2 DEF RebaseCalls
    <3> HIDE DEF Commits
    <3>2. rest \in Seq(Commits) /\ Len(rest) = Len(c.todo) - 1 /\ \A k \in 1..Len(rest) : rest[k] = c.todo[k + 1]
      BY <2>7, <3>1
    <3>3. \A k \in 1..Len(rest) : k + 1 \in 1..Len(c.todo)
      BY <3>1, <3>2
    <3> QED
      BY <2>3, <3>2, <3>3
  <2>9. PICK d : d = [c EXCEPT !.target = Next1, !.todo = rest, !.first = NULL]
    OBVIOUS
  <2>10. d \in RebaseCalls /\ d.op = "rebase" /\ d.target = Next1 /\ d.expect = c.expect /\ d.todo = rest
    BY <2>6, <2>8, <2>9 DEF RebaseCalls, Opt
  <2>11. CallMade(d, made + 1)
    BY <2>3, <2>6, <2>8, <2>10 DEF CallMade
  <2>12. d \in Calls
    BY <2>10, Zenon DEF Calls
  <2>13. head' \in {head, Next1} /\ branches' \in [Branches -> Opt(1..made + 1)] /\ UNCHANGED <<attached, tags>>
    BY <2>1, MoreBranches DEF refs
  <2>14. call' = [call EXCEPT ![p] = d]
    BY <2>1, <2>2, <2>7, <2>9
  <2> QED
    BY <2>1, <2>2, <2>4, <2>5, <2>11, <2>12, <2>13, <2>14, InsertTyped
<1> QED
  BY <1>1, <1>2

LEMMA RebaseEndTyped == ASSUME VersionTyped, NEW p \in Callers, Rebase(p) PROVE VersionTyped'
<1>1. CASE Refused(p)
  BY <1>1, RefusedTyped DEF Rebase, Finishes
<1>2. CASE ~Refused(p)
  <2>1. call[p].op = "rebase" /\ call[p].target \in 1..made
    BY CallOf DEF Rebase, Finishes, CallMade
  <2>2. /\ branches' = [branches EXCEPT ![call[p].branch] = call[p].target]
        /\ EndOrMark(p) /\ UNCHANGED <<scene, rows, made, head, attached, tags, sessions>>
    BY <1>2 DEF Rebase, Finishes, MoveBranch
  <2>3. PICK c \in Calls : CallMade(c, made) /\ call' = [call EXCEPT ![p] = c]
    BY <2>1, <2>2, EndsIn
  <2>4. branches' \in [Branches -> Opt(1..made)]
    BY <2>1, <2>2 DEF VersionTyped, Opt
  <2> QED
    BY <2>2, <2>3, <2>4, MoveTyped DEF VersionTyped
<1> QED
  BY <1>1, <1>2

(* squash *)
LEMMA StartSquashTyped == ASSUME VersionTyped, NEW p \in Callers, StartSquash(p) PROVE VersionTyped'
<1>1. PICK oldest \in 1..made, newest \in 1..made :
        call' = [call EXCEPT ![p] = [op |-> "squash", tip |-> newest, row |-> SquashRow(rows, oldest, newest)]]
  BY DEF StartSquash, Begin
<1>2. PICK row : row = SquashRow(rows, oldest, newest)
  OBVIOUS
<1>3. oldest \in Commits /\ newest \in Commits
  BY RefsAre
<1>4. row \in Row /\ row.parents = IF FirstParent(rows, oldest) = NULL THEN <<>> ELSE <<FirstParent(rows, oldest)>>
  BY <1>2, <1>3, RefsAre, SquashRowIs
<1>5. FirstParent(rows, oldest) # NULL => FirstParent(rows, oldest) \in 1..made
  BY <1>3, RefsAre, OlderParents DEF Commits
<1>6. RowMade(row, made)
  <2>1. CASE FirstParent(rows, oldest) = NULL
    BY <1>4, <2>1 DEF RowMade
  <2>2. CASE FirstParent(rows, oldest) # NULL
    BY <1>4, <1>5, <2>2 DEF RowMade
  <2> QED
    BY <2>1, <2>2
<1>7. PICK c : c = [op |-> "squash", tip |-> newest, row |-> row]
  OBVIOUS
<1>8. c \in SquashCalls /\ CallMade(c, made)
  BY <1>3, <1>4, <1>6, <1>7 DEF SquashCalls, CallMade
<1>9. c \in Calls
  BY <1>8, Zenon DEF Calls
<1> QED
  BY <1>1, <1>2, <1>7, <1>8, <1>9, CallChanges DEF StartSquash, Starts

LEMMA SqliteSquashTyped == ASSUME VersionTyped, NEW p \in Callers, SqliteSquash(p) PROVE VersionTyped'
<1>1. CASE Refused(p)
  BY <1>1, RefusedTyped DEF SqliteSquash, Finishes
<1>2. CASE ~Refused(p)
  <2>1. call[p] \in SquashCalls /\ RowMade(call[p].row, made)
    BY CallOf, CallKinds DEF SqliteSquash, Finishes, CallMade
  <2>2. /\ Room /\ InsertCommit(call[p].row) /\ head' \in {head, Next1}
        /\ branches' = [b \in Branches |-> IF branches[b] = call[p].tip THEN Next1 ELSE branches[b]]
        /\ call' = [call EXCEPT ![p] = Idle] /\ UNCHANGED <<scene, attached, tags, sessions>>
    BY <1>2 DEF SqliteSquash, Finishes, End
  <2>3. call[p].row \in Row
    BY <2>1 DEF SquashCalls
  <2>4. branches' \in [Branches -> Opt(1..made + 1)]
    BY <2>2, MoreBranches DEF Next1, Opt
  <2> QED
    BY <2>1, <2>2, <2>3, <2>4, IdleMade, InsertTyped
<1> QED
  BY <1>1, <1>2

LEMMA PgSquashTyped == ASSUME VersionTyped, NEW p \in Callers, PgSquash(p) PROVE VersionTyped'
<1>1. call[p] \in SquashCalls /\ RowMade(call[p].row, made)
  BY CallOf, CallKinds DEF PgSquash, Finishes, CallMade
<1>2. /\ Room /\ InsertCommit(call[p].row) /\ head' \in {head, Next1} /\ branches' = branches
      /\ call' = [call EXCEPT ![p] = Idle] /\ UNCHANGED <<scene, attached, tags, sessions>>
  BY DEF PgSquash, Finishes, End, refs
<1>3. call[p].row \in Row /\ branches' \in [Branches -> Opt(1..made + 1)]
  BY <1>1, <1>2, MoreBranches DEF SquashCalls
<1> QED
  BY <1>1, <1>2, <1>3, IdleMade, InsertTyped


(* gc *)
LEMMA StartGcTyped == ASSUME VersionTyped, NEW p \in Callers, StartGc(p) PROVE VersionTyped'
<1>1. PICK victims \in SUBSET Commits : call' = [call EXCEPT ![p] = [op |-> "gc", victims |-> victims]]
  <2>1. PICK cutoff \in 1..made, keepRecent \in 0..1 :
          LET recent == IF keepRecent = 0 \/ Alive(rows) = {} THEN {}
                        ELSE {CHOOSE c \in Alive(rows) : \A d \in Alive(rows) : d <= c}
              victims == {c \in Alive(rows) : c <= cutoff} \ (Protected \cup recent)
          IN call' = [call EXCEPT ![p] = [op |-> "gc", victims |-> victims]]
    BY DEF StartGc, Begin
  <2>2. Alive(rows) \subseteq Commits
    BY RefsAre
  <2> HIDE DEF Commits
  <2> QED
    BY <2>1, <2>2
<1>2. PICK c : c = [op |-> "gc", victims |-> victims]
  OBVIOUS
<1>3. c \in GcCalls /\ CallMade(c, made)
  BY <1>2 DEF GcCalls, CallMade
<1>4. c \in Calls
  BY <1>3, Zenon DEF Calls
<1> QED
  BY <1>1, <1>2, <1>3, <1>4, CallChanges DEF StartGc, Starts

LEMMA CollectTyped ==
  ASSUME VersionTyped, NEW V, rows' = [c \in Commits |-> IF c \in V THEN NULL ELSE rows[c]],
         UNCHANGED <<scene, made, refs, sessions>>,
         NEW p \in Callers, NEW c \in Calls, CallMade(c, made), call' = [call EXCEPT ![p] = c]
  PROVE  VersionTyped'
<1>1. GraphMade(rows', made)
  BY RefsAre, CollectIs DEF VersionTyped
<1>2. call' \in [Callers -> Calls] /\ \A q \in Callers : CallMade(call'[q], made)
  BY DEF VersionTyped
<1> QED
  BY <1>1, <1>2 DEF VersionTyped, refs

LEMMA SqliteGcTyped == ASSUME VersionTyped, NEW p \in Callers, SqliteGc(p) PROVE VersionTyped'
<1>1. CASE Refused(p)
  BY <1>1, RefusedTyped DEF SqliteGc, Finishes
<1>2. CASE ~Refused(p)
  <2>1. PICK V : rows' = [c \in Commits |-> IF c \in V THEN NULL ELSE rows[c]]
    BY <1>2 DEF SqliteGc
  <2>2. UNCHANGED <<scene, made, refs, sessions>> /\ call' = [call EXCEPT ![p] = Idle]
    BY <1>2 DEF SqliteGc, Finishes, End
  <2> QED
    BY <2>1, <2>2, IdleMade, CollectTyped
<1> QED
  BY <1>1, <1>2

LEMMA PgGcTyped == ASSUME VersionTyped, NEW p \in Callers, PgGc(p) PROVE VersionTyped'
<1>1. PICK V : V = call[p].victims
  OBVIOUS
<1>2. V \in SUBSET Commits
  BY <1>1, CallOf, CallKinds DEF PgGc, Finishes, GcCalls
<1>3. PICK k : k = CHOOSE x \in V : \A y \in V : x <= y
  OBVIOUS
<1>4. rows' = [rows EXCEPT ![k] = NULL] /\ UNCHANGED <<scene, made, refs, sessions>>
  BY <1>1, <1>3 DEF PgGc, Finishes
<1>5. rows' = [c \in Commits |-> IF c \in {k} THEN NULL ELSE rows[c]]
  BY <1>4, RefsAre DEF Graphs
<1>6. PICK c \in Calls : CallMade(c, made) /\ call' = [call EXCEPT ![p] = c]
  <2>1. CASE V = {k}
    BY <1>1, <1>3, <2>1, IdleMade DEF PgGc, End
  <2>2. CASE V # {k}
    <3>1. PICK c : c = [op |-> "gc", victims |-> V \ {k}]
      OBVIOUS
    <3>2. c \in GcCalls /\ CallMade(c, made)
      BY <1>2, <3>1 DEF GcCalls, CallMade
    <3>3. c \in Calls
      BY <3>2, Zenon DEF Calls
    <3> QED
      BY <1>1, <1>3, <2>2, <3>1, <3>2, <3>3 DEF PgGc, Begin
  <2> QED
    BY <2>1, <2>2
<1> QED
  BY <1>4, <1>5, <1>6, CollectTyped

(* The conflict sessions *)
LEMMA SessionsTyped ==
  ASSUME VersionTyped, UNCHANGED <<scene, rows, made, refs>>,
         sessions' \in Seq(Sessions), \A i \in 1..Len(sessions') : SessionMade(sessions'[i], made),
         NEW p \in Callers, call' = [call EXCEPT ![p] = Idle] \/ call' = call
  PROVE  VersionTyped'
<1>1. call' \in [Callers -> Calls] /\ \A q \in Callers : CallMade(call'[q], made)
  BY IdleMade DEF VersionTyped
<1> QED
  BY <1>1 DEF VersionTyped, refs

LEMMA BeginSessionTyped == ASSUME VersionTyped, NEW p \in Callers, BeginSession(p) PROVE VersionTyped'
<1>1. ASSUME NEW s \in Sessions, SessionMade(s, made), sessions' = Append(sessions, s)
      PROVE  VersionTyped'
  <2>1. sessions \in Seq(Sessions) /\ \A i \in 1..Len(sessions) : SessionMade(sessions[i], made)
    BY DEF VersionTyped
  <2> HIDE DEF Sessions
  <2>2. /\ sessions' \in Seq(Sessions) /\ Len(sessions') = Len(sessions) + 1
        /\ \A i \in 1..Len(sessions) : sessions'[i] = sessions[i]
        /\ sessions'[Len(sessions) + 1] = s
    BY <1>1, <2>1
  <2>3. \A i \in 1..Len(sessions') : i \in 1..Len(sessions) \/ i = Len(sessions) + 1
    BY <2>1, <2>2
  <2>4. \A i \in 1..Len(sessions') : SessionMade(sessions'[i], made)
    BY <1>1, <2>1, <2>2, <2>3
  <2>5. UNCHANGED <<scene, rows, made, refs, call>>
    BY DEF BeginSession
  <2> QED
    BY <2>2, <2>4, <2>5, SessionsTyped
<1>2. ASSUME NEW c \in Alive(rows), NEW b \in Branches, branches[b] # NULL,
             sessions' = Append(sessions,
               [kind |-> "pick", branch |-> b, target |-> branches[b], commits |-> <<c>>,
                state |-> PickSession(rows, c, branches[b]), status |-> "open"])
      PROVE  VersionTyped'
  <2>1. c \in 1..made /\ c \in Commits /\ branches[b] \in 1..made /\ branches[b] \in Commits
    BY <1>2, RefsAre
  <2>2. PickSession(rows, c, branches[b]) \in SessionStates
    BY <2>1, RefsAre, SessionIs
  <2>3. PICK s : s = [kind |-> "pick", branch |-> b, target |-> branches[b], commits |-> <<c>>,
                      state |-> PickSession(rows, c, branches[b]), status |-> "open"]
    OBVIOUS
  <2>4. <<c>> \in Seq(Commits) /\ <<c>> # <<>> /\ \A i \in 1..Len(<<c>>) : <<c>>[i] = c
    <3>1. PICK C : C = Commits
      OBVIOUS
    <3> HIDE DEF Commits
    <3>2. <<c>> \in Seq(C)
      BY <2>1, <3>1
    <3> QED
      BY <3>1, <3>2
  <2>5. s \in Sessions
    BY <2>1, <2>2, <2>3, <2>4 DEF Sessions
  <2>6. SessionMade(s, made)
    BY <2>1, <2>3, <2>4 DEF SessionMade
  <2> QED
    BY <1>1, <1>2, <2>3, <2>5, <2>6
<1>3. ASSUME NEW b \in Branches, NEW onto \in Branches, branches[b] # NULL, branches[onto] # NULL,
             NEW todo, todo = CommitsToRebase(rows, branches[b], branches[onto]), todo # <<>>,
             sessions' = Append(sessions,
               [kind |-> "rebase", branch |-> b, target |-> branches[onto], commits |-> todo,
                state |-> PickSession(rows, Head(todo), branches[onto]), status |-> "open"])
      PROVE  VersionTyped'
  <2>1. branches[b] \in 1..made /\ branches[onto] \in 1..made /\ branches[onto] \in Commits
    BY <1>3, RefsAre
  <2>2. PICK M : M = 1..made
    OBVIOUS
  <2>3. todo \in Seq(M) /\ \A x \in M : x \in Commits
    BY <1>3, <2>1, <2>2, RefsAre, RebaseTyped
  <2>4. todo \in Seq(Commits) /\ Head(todo) \in Commits /\ \A i \in 1..Len(todo) : todo[i] \in M
    <3> HIDE DEF Commits
    <3> QED
      BY <1>3, <2>3
  <2>5. PickSession(rows, Head(todo), branches[onto]) \in SessionStates
    BY <2>1, <2>4, RefsAre, SessionIs
  <2>6. PICK s : s = [kind |-> "rebase", branch |-> b, target |-> branches[onto], commits |-> todo,
                      state |-> PickSession(rows, Head(todo), branches[onto]), status |-> "open"]
    OBVIOUS
  <2>7. s \in Sessions
    BY <2>1, <2>4, <2>5, <2>6 DEF Sessions
  <2>8. SessionMade(s, made)
    BY <1>3, <2>1, <2>2, <2>4, <2>6 DEF SessionMade
  <2> QED
    BY <1>1, <1>3, <2>6, <2>7, <2>8
<1> QED
  BY <1>2, <1>3, Zenon DEF BeginSession

LEMMA SessionOf ==
  ASSUME VersionTyped, NEW i \in DOMAIN sessions
  PROVE  sessions[i] \in Sessions /\ SessionMade(sessions[i], made) /\ i \in Nat
<1>1. sessions \in Seq(Sessions) /\ \A k \in 1..Len(sessions) : SessionMade(sessions[k], made)
  BY DEF VersionTyped
<1> HIDE DEF Sessions
<1> QED
  BY <1>1

LEMMA ContinueSessionTyped == ASSUME VersionTyped, NEW p \in Callers, ContinueSession(p) PROVE VersionTyped'
<1>0. PICK i \in DOMAIN sessions :
        \E how \in [sessions[i].state.conflicts -> Resolutions] :
          LET s == sessions[i] IN
          IF s.kind = "pick"
          THEN Begin(p, [op |-> "pick", branch |-> s.branch, target |-> s.target, session |-> i,
                         row |-> PickRow(rows, s.commits[1], s.target, Resolved(s.state, how))])
          ELSE Begin(p, [op |-> "rebase", branch |-> s.branch, expect |-> s.target, target |-> s.target,
                         todo |-> s.commits, strategy |-> "fail", first |-> Resolved(s.state, how), session |-> i])
  BY Zenon DEF ContinueSession
<1>1. PICK how \in [sessions[i].state.conflicts -> Resolutions] :
        LET s == sessions[i] IN
        IF s.kind = "pick"
        THEN Begin(p, [op |-> "pick", branch |-> s.branch, target |-> s.target, session |-> i,
                       row |-> PickRow(rows, s.commits[1], s.target, Resolved(s.state, how))])
        ELSE Begin(p, [op |-> "rebase", branch |-> s.branch, expect |-> s.target, target |-> s.target,
                       todo |-> s.commits, strategy |-> "fail", first |-> Resolved(s.state, how), session |-> i])
  BY <1>0
<1>2. PICK s : s = sessions[i]
  OBVIOUS
<1>3. s \in Sessions /\ SessionMade(s, made) /\ i \in Nat
  BY <1>2, SessionOf
<1>4. s.branch \in Branches /\ s.target \in 1..made /\ s.target \in Commits /\ s.state \in SessionStates
  BY <1>3, RefsAre DEF Sessions, SessionMade
<1>5. s.commits \in Seq(1..made) /\ s.commits[1] \in Commits
  <2>1. s.commits \in Seq(Commits) /\ s.commits # <<>> /\ \A k \in 1..Len(s.commits) : s.commits[k] \in 1..made
    BY <1>3 DEF Sessions, SessionMade
  <2>2. PICK M : M = 1..made
    OBVIOUS
  <2>3. PICK f : f = s.commits
    OBVIOUS
  <2>4. f \in Seq(Commits) /\ f # <<>> /\ \A k \in 1..Len(f) : f[k] \in M
    BY <2>1, <2>2, <2>3
  <2> HIDE DEF Commits
  <2>5. f \in Seq(M) /\ f[1] \in Commits
    BY <2>4
  <2> QED
    BY <2>2, <2>3, <2>5
<1>6. PICK final \in Trees : final = Resolved(s.state, how)
  <2>1. \A u \in s.state.conflicts : how[u] \in Resolutions
    BY <1>2
  <2> QED
    BY <1>4, <2>1, ResolvedIs
<1>7. UNCHANGED <<scene, rows, made, refs, sessions>>
  BY DEF ContinueSession, Starts
<1>8. CASE s.kind = "pick"
  <2>1. PICK row : row = PickRow(rows, s.commits[1], s.target, final)
    OBVIOUS
  <2>2. row \in Row /\ row.parents = <<s.target>>
    BY <1>4, <1>5, <2>1, RefsAre, PickRowIs
  <2>3. call' = [call EXCEPT ![p] = [op |-> "pick", branch |-> s.branch, target |-> s.target, session |-> i, row |-> row]]
    BY <1>1, <1>2, <1>6, <1>8, <2>1 DEF Begin
  <2> QED
    BY <1>3, <1>4, <1>7, <2>2, <2>3, BeginPickTyped
<1>9. CASE s.kind # "pick"
  <2>1. call' = [call EXCEPT ![p] = [op |-> "rebase", branch |-> s.branch, expect |-> s.target, target |-> s.target,
                                     todo |-> s.commits, strategy |-> "fail", first |-> final, session |-> i]]
    BY <1>1, <1>2, <1>6, <1>9 DEF Begin
  <2>2. final \in Opt(Trees) /\ "fail" \in {"fail", "ours", "theirs"}
    BY <1>6 DEF Opt
  <2> QED
    BY <1>3, <1>4, <1>5, <1>7, <2>1, <2>2, BeginRebaseTyped
<1> QED
  BY <1>8, <1>9

LEMMA StatusTyped ==
  ASSUME VersionTyped, NEW i, NEW status \in {"open", "completed", "aborted"}, NEW ss,
         ss = [sessions EXCEPT ![i].status = status]
  PROVE  ss \in Seq(Sessions) /\ \A k \in 1..Len(ss) : SessionMade(ss[k], made)
<1>1. sessions \in Seq(Sessions) /\ \A k \in 1..Len(sessions) : SessionMade(sessions[k], made)
  BY DEF VersionTyped
<1>2. PICK n \in Nat : n = Len(sessions)
  BY <1>1
<1>3. sessions \in [1..n -> Sessions]
  <2> HIDE DEF Sessions
  <2> QED
    BY <1>1, <1>2
<1>4. ss \in [1..n -> Sessions]
  BY <1>3 DEF Sessions
<1>5. \A k \in 1..n : ss[k].target = sessions[k].target /\ ss[k].commits = sessions[k].commits
  BY <1>3 DEF Sessions
<1>6. ss \in Seq(Sessions) /\ Len(ss) = n
  <2>1. CASE i \notin 1..n
    <3>1. \A k \in 1..n : ss[k] = sessions[k]
      BY <1>3, <2>1
    <3>2. ss = sessions
      BY <1>3, <1>4, <3>1
    <3> QED
      BY <1>1, <1>2, <3>2
  <2>2. CASE i \in 1..n
    <3>1. PICK x \in Sessions : x = [sessions[i] EXCEPT !.status = status]
      BY <1>3, <2>2 DEF Sessions
    <3>2. ss = [sessions EXCEPT ![i] = x]
      BY <3>1
    <3> HIDE DEF Sessions
    <3> QED
      BY <1>1, <1>2, <2>2, <3>2, ExceptSeq
  <2> QED
    BY <2>1, <2>2
<1> QED
  BY <1>1, <1>2, <1>5, <1>6 DEF SessionMade

LEMMA MarkCompletedTyped == ASSUME VersionTyped, NEW p \in Callers, MarkCompleted(p) PROVE VersionTyped'
<1>1. sessions' = sessions \/ \E i : sessions' = [sessions EXCEPT ![i].status = "completed"]
  BY DEF MarkCompleted
<1>2. sessions' \in Seq(Sessions) /\ \A k \in 1..Len(sessions') : SessionMade(sessions'[k], made)
  BY <1>1, StatusTyped DEF VersionTyped
<1> QED
  BY <1>2, SessionsTyped DEF MarkCompleted, End, Finishes

LEMMA AbortSessionTyped == ASSUME VersionTyped, NEW p \in Callers, AbortSession(p) PROVE VersionTyped'
<1>1. PICK i : sessions' = [sessions EXCEPT ![i].status = "aborted"]
  BY DEF AbortSession
<1>2. sessions' \in Seq(Sessions) /\ \A k \in 1..Len(sessions') : SessionMade(sessions'[k], made)
  BY <1>1, StatusTyped
<1> QED
  BY <1>2, SessionsTyped DEF AbortSession

LEMMA StepTyped == ASSUME VersionTyped, NEW p \in Callers, VersionStep(p) PROVE VersionTyped'
<1>1. CASE Stop(p)
  BY <1>1, RefusedTyped DEF Stop
<1> QED
  BY <1>1, StartCommitTyped, SqliteCommitTyped, PgCommitTyped, StartCreateBranchTyped, CreateBranchTyped,
     DeleteBranchTyped, StartSwitchHeadTyped, SqliteSwitchHeadTyped, PgSwitchHeadTyped, StartCreateTagTyped,
     CreateTagTyped, StartMergeTyped, StartKnowledgeMergeTyped, FastForwardTyped, MergeTyped, StartCherryPickTyped,
     CherryPickTyped, StartRebaseTyped, RebaseStepTyped, RebaseEndTyped, StartSquashTyped, SqliteSquashTyped,
     PgSquashTyped, StartGcTyped, SqliteGcTyped, PgGcTyped, BeginSessionTyped, ContinueSessionTyped,
     MarkCompletedTyped, AbortSessionTyped, Zenon DEF VersionStep

LEMMA InitTyped == ASSUME VersionInit PROVE VersionTyped
<1>1. scene \in Scenes /\ MaxCommits \in Nat \ {0} /\ scene.first \in DeltaSets
  BY ScenesAssumption, GraphAssumption DEF VersionInit, Scene
<1>2. tags \in [Tags -> Opt(1..made)] /\ sessions = <<>> /\ call = [p \in Callers |-> Idle]
  BY DEF VersionInit, Opt
<1>3. call \in [Callers -> Calls] /\ \A p \in Callers : CallMade(call[p], made)
  BY <1>2, IdleMade
<1>4. sessions \in Seq(Sessions) /\ \A i \in 1..Len(sessions) : SessionMade(sessions[i], made)
  <2>1. sessions \in Seq(Sessions)
    <3> HIDE DEF Sessions
    <3> QED
      BY <1>2
  <2> QED
    BY <1>2, <2>1
<1>5. CASE Empty
  <2>1. rows \in Graphs /\ \A c \in Commits : rows[c] = NULL
    BY <1>5 DEF Empty, Graphs, Opt
  <2>2. \A c \in Commits : Parents(rows, c) = <<>>
    BY <2>1 DEF Parents
  <2>3. GraphMade(rows, made)
    BY <2>1, <2>2 DEF GraphMade, Older
  <2>4. made = 0 /\ head \in Opt(1..made) /\ attached \in Opt(Branches) /\ branches \in [Branches -> Opt(1..made)]
    BY <1>5 DEF Empty, Opt
  <2> QED
    BY <1>1, <1>2, <1>3, <1>4, <2>3, <2>4 DEF VersionTyped
<1>6. CASE Forked
  <2>1. PICK row : row = NewRow(<<>>, scene.first, "commit", NULL)
    OBVIOUS
  <2>2. row \in Row /\ row.parents = <<>>
    <3>1. <<>> \in Seq(Commits) /\ NULL \in Opt(Commits)
      <4> HIDE DEF Commits
      <4> QED
        BY DEF Opt
    <3> QED
      BY <1>1, <2>1, <3>1, RowIs
  <2>3. rows = [c \in Commits |-> IF c = 1 THEN row ELSE NULL] /\ made = 1
    BY <1>6, <2>1 DEF Forked
  <2>4. rows \in Graphs /\ \A c \in Commits : rows[c] # NULL => c <= 1
    BY <2>2, <2>3 DEF Graphs, Opt, Commits
  <2>5. \A c \in Commits : Parents(rows, c) = <<>>
    BY <2>2, <2>3 DEF Parents
  <2>6. GraphMade(rows, made)
    <3>1. Older(rows)
      BY <2>5 DEF Older
    <3> QED
      BY <2>3, <2>4, <3>1 DEF GraphMade
  <2>7. head = 1 /\ attached \in Opt(Branches) /\ branches = [b \in Branches |-> 1]
    BY <1>6 DEF Forked, Opt
  <2>8. head \in Opt(1..made) /\ branches \in [Branches -> Opt(1..made)] /\ made \in 0..MaxCommits
    BY <1>1, <2>3, <2>7 DEF Opt
  <2> QED
    BY <1>1, <1>2, <1>3, <1>4, <2>6, <2>7, <2>8 DEF VersionTyped
<1> QED
  BY <1>5, <1>6 DEF VersionInit


-----------------------------------------------------------------------------
(* What a step changes.                                                      *)

\* The steps that change a commit or a reference; a refusal changes neither.
Moving(p) ==
  \/ SqliteCommit(p) \/ PgCommit(p) \/ CreateBranch(p) \/ DeleteBranch(p) \/ SqliteSwitchHead(p) \/ PgSwitchHead(p)
  \/ CreateTag(p) \/ FastForward(p) \/ Merge(p) \/ CherryPick(p) \/ RebaseStep(p) \/ Rebase(p)
  \/ SqliteSquash(p) \/ PgSquash(p) \/ SqliteGc(p) \/ PgGc(p)

Still == UNCHANGED <<scene, rows, made, refs>>

LEMMA StillSteps == ASSUME NEW p \in Callers, VersionStep(p) PROVE Still \/ (Moving(p) /\ ~Refused(p) /\ scene' = scene)
<1>1. CASE Moving(p) /\ ~Refused(p)
  BY <1>1, Zenon DEF Moving, SqliteCommit, PgCommit, CreateBranch, DeleteBranch, SqliteSwitchHead, PgSwitchHead,
     CreateTag, FastForward, Merge, CherryPick, RebaseStep, Rebase, SqliteSquash, PgSquash, SqliteGc, PgGc,
     Finishes, Starts
<1>2. CASE Moving(p) /\ Refused(p)
  <2>1. scene' = scene
    BY <1>2, Zenon DEF Moving, SqliteCommit, PgCommit, CreateBranch, DeleteBranch, SqliteSwitchHead, PgSwitchHead,
       CreateTag, FastForward, Merge, CherryPick, RebaseStep, Rebase, SqliteSquash, PgSquash, SqliteGc, PgGc,
       Finishes, Starts
  <2> QED
    BY <1>2, <2>1 DEF Refused, Still
<1>3. CASE StartCommit(p) \/ StartCreateBranch(p) \/ StartSwitchHead(p) \/ StartCreateTag(p) \/ StartMerge(p)
           \/ StartKnowledgeMerge(p) \/ StartCherryPick(p) \/ StartRebase(p) \/ StartSquash(p) \/ StartGc(p)
           \/ ContinueSession(p)
  BY <1>3 DEF StartCommit, StartCreateBranch, StartSwitchHead, StartCreateTag, StartMerge,
     StartKnowledgeMerge, StartCherryPick, StartRebase, StartSquash, StartGc, ContinueSession, Starts, Still
<1>4. CASE BeginSession(p) \/ MarkCompleted(p) \/ AbortSession(p) \/ Stop(p)
  BY <1>4 DEF BeginSession, MarkCompleted, AbortSession, Stop, Refused, Finishes, Still
<1> QED
  BY <1>1, <1>2, <1>3, <1>4, Zenon DEF VersionStep, Moving

\* Nobody else's call changes.
LEMMA OtherCalls ==
  ASSUME VersionTyped, NEW p \in Callers, VersionStep(p), NEW q \in Callers, q # p
  PROVE  call'[q] = call[q]
<1>1. call' = call \/ \E c : call' = [call EXCEPT ![p] = c]
  <2>1. CASE Moving(p)
    BY <2>1 DEF Moving, SqliteCommit, PgCommit, CreateBranch, DeleteBranch, SqliteSwitchHead, PgSwitchHead,
       CreateTag, FastForward, Merge, CherryPick, RebaseStep, Rebase, SqliteSquash, PgSquash, SqliteGc, PgGc,
       Begin, End, EndOrMark, Refused
  <2>2. CASE StartCommit(p) \/ StartCreateBranch(p) \/ StartSwitchHead(p) \/ StartCreateTag(p) \/ StartMerge(p)
             \/ StartKnowledgeMerge(p) \/ StartCherryPick(p) \/ StartRebase(p) \/ StartSquash(p) \/ StartGc(p)
             \/ ContinueSession(p)
    BY <2>2 DEF StartCommit, StartCreateBranch, StartSwitchHead, StartCreateTag, StartMerge,
       StartKnowledgeMerge, StartCherryPick, StartRebase, StartSquash, StartGc, ContinueSession, Begin
  <2>3. CASE BeginSession(p) \/ MarkCompleted(p) \/ AbortSession(p) \/ Stop(p)
    BY <2>3 DEF BeginSession, MarkCompleted, AbortSession, Stop, Refused, End
  <2> QED
    BY <2>1, <2>2, <2>3, Zenon DEF VersionStep, Moving
<1> QED
  BY <1>1 DEF VersionTyped


(* The rows: nothing, the next commit, or a gc. *)
Inserted(row) ==
  /\ row \in Row /\ RowMade(row, made) /\ ParentsExist(row)
  /\ made + 1 \in Commits
  /\ rows' = [rows EXCEPT ![made + 1] = row]
  /\ made' = made + 1

Collected(V) ==
  /\ rows' = [c \in Commits |-> IF c \in V THEN NULL ELSE rows[c]]
  /\ head \notin V
  /\ \A c \in V \cap Alive(rows) : ~HasChild(c)
  /\ UNCHANGED <<made, refs>>

\* The row that a call would insert.
CallRow(c) == IF c.op = "rebase" THEN NextRow(c) ELSE c.row

LEMMA InsertsRow ==
  ASSUME VersionTyped, NEW p \in Callers, VersionStep(p), ~Refused(p),
         SqliteCommit(p) \/ PgCommit(p) \/ Merge(p) \/ CherryPick(p) \/ RebaseStep(p) \/ SqliteSquash(p) \/ PgSquash(p)
  PROVE  Inserted(CallRow(call[p])) /\ Next1 = made + 1
<1>1. made + 1 \in Commits /\ Room
  <2>1. Room
    BY Zenon DEF SqliteCommit, PgCommit, Merge, CherryPick, RebaseStep, SqliteSquash, PgSquash
  <2> QED
    BY <2>1, RefsAre, SceneIs, GraphAssumption DEF Room, Commits
<1>2. CASE RebaseStep(p)
  <2>1. call[p].op = "rebase" /\ call[p].todo # <<>> /\ ParentsExist(NextRow(call[p])) /\ InsertCommit(NextRow(call[p]))
    BY <1>2, RebaseStepIs
  <2>2. PICK row : row = NextRow(call[p])
    OBVIOUS
  <2>3. row \in Row /\ row.parents = <<call[p].target>> /\ call[p].target \in 1..made
    BY <2>1, <2>2, NextRowIs
  <2>4. RowMade(row, made)
    BY <2>3 DEF RowMade
  <2> QED
    BY <1>1, <2>1, <2>2, <2>3, <2>4 DEF Inserted, CallRow, InsertCommit, Next1
<1>3. CASE ~RebaseStep(p)
  <2>1. /\ call[p].op \in {"commit", "merge", "pick", "squash"} /\ InsertCommit(call[p].row)
        /\ call[p].op = "merge" => call[p].row # NULL
    BY <1>3, Zenon DEF SqliteCommit, PgCommit, Merge, CherryPick, RebaseStep, SqliteSquash, PgSquash, Finishes
  <2>2. call[p].row \in Row /\ RowMade(call[p].row, made)
    BY <2>1, CallOf, CallKinds DEF CommitCalls, MergeCalls, PickCalls, SquashCalls, CallMade, Opt
  <2>3. ParentsExist(call[p].row)
    <3>1. CASE PgCommit(p) \/ PgSquash(p)
      BY <3>1 DEF PgCommit, PgSquash, ParentsExist
    <3>2. CASE SqliteCommit(p) \/ CherryPick(p) \/ SqliteSquash(p)
      BY <3>2, Zenon DEF SqliteCommit, CherryPick, SqliteSquash
    <3>3. CASE Merge(p)
      BY <3>3, Zenon DEF Merge, MergeHolds
    <3> QED
      BY <1>3, <3>1, <3>2, <3>3
  <2> QED
    BY <1>1, <2>1, <2>2, <2>3 DEF Inserted, CallRow, InsertCommit, Next1
<1> QED
  BY <1>2, <1>3 DEF Next1

LEMMA RowsChange ==
  ASSUME VersionTyped, NEW p \in Callers, VersionStep(p)
  PROVE  /\ scene' = scene
         /\ \/ UNCHANGED <<rows, made>>
            \/ Inserted(CallRow(call[p]))
            \/ Sqlite /\ call[p].op = "gc" /\ Collected(call[p].victims)
            \/ ~Sqlite /\ call[p].op = "gc" /\ UNCHANGED <<made, refs>>
<1>1. CASE Still
  BY <1>1 DEF Still
<1>2. CASE ~Refused(p) /\ (SqliteCommit(p) \/ PgCommit(p) \/ Merge(p) \/ CherryPick(p) \/ RebaseStep(p)
                           \/ SqliteSquash(p) \/ PgSquash(p))
  BY <1>2, StillSteps, InsertsRow DEF Still
<1>3. CASE ~Refused(p) /\ SqliteGc(p)
  BY <1>3, Zenon DEF SqliteGc, Finishes, Collected
<1>4. CASE PgGc(p)
  BY <1>4, Zenon DEF PgGc, Finishes
<1>5. CASE ~Refused(p) /\ (CreateBranch(p) \/ DeleteBranch(p) \/ SqliteSwitchHead(p) \/ PgSwitchHead(p) \/ CreateTag(p)
                           \/ FastForward(p) \/ Rebase(p))
  <2>1. UNCHANGED <<rows, made>>
    BY <1>5 DEF CreateBranch, DeleteBranch, SqliteSwitchHead, PgSwitchHead, CreateTag, FastForward, Rebase,
       Starts
  <2> QED
    BY <1>5, <2>1, StillSteps DEF Still
<1> QED
  BY <1>1, <1>2, <1>3, <1>4, <1>5, StillSteps, Zenon DEF Moving

(* What is left of the store after a gc is closed under parents. *)
LEMMA CollectKeeps ==
  ASSUME VersionTyped, NEW V, Collected(V)
  PROVE  /\ rows' \in Graphs /\ Older(rows')
         /\ Undisturbed(rows, rows', {c \in Commits : rows'[c] # NULL \/ rows[c] = NULL})
         /\ \A c \in Commits : rows'[c] # NULL => rows'[c] = rows[c]
<1>1. rows \in Graphs /\ Older(rows) /\ GraphMade(rows, made) /\ made \in Nat
  BY RefsAre DEF VersionTyped
<1>2. rows' = [c \in Commits |-> IF c \in V THEN NULL ELSE rows[c]]
  BY DEF Collected
<1>3. rows' \in Graphs /\ Older(rows')
  BY <1>1, <1>2, CollectIs DEF GraphMade
<1>4. ASSUME NEW c \in Commits, rows'[c] # NULL \/ rows[c] = NULL
      PROVE  /\ rows'[c] = rows[c]
             /\ Parents(rows', c) = Parents(rows, c) /\ Delta(rows', c) = Delta(rows, c)
             /\ \A q \in Range(Parents(rows, c)) : q \in Commits /\ (rows'[q] # NULL \/ rows[q] = NULL)
  <2>1. rows'[c] = rows[c]
    BY <1>2, <1>4
  <2>2. Parents(rows', c) = Parents(rows, c) /\ Delta(rows', c) = Delta(rows, c)
    BY <2>1 DEF Parents, Delta
  <2>3. ASSUME NEW q \in Range(Parents(rows, c)) PROVE q \in Commits /\ (rows'[q] # NULL \/ rows[q] = NULL)
    <3>1. q \in Commits
      BY <1>1, OlderParents
    <3>2. rows[c] # NULL /\ Parents(rows, c) = rows[c].parents
      BY <2>3 DEF Parents, Range
    <3>3. c \in Alive(rows) /\ (rows[q] # NULL => q \in Alive(rows))
      BY <1>1, <3>1, <3>2 DEF Alive, Graphs
    <3>4. HasChild(q)
      BY <2>3, <3>2, <3>3 DEF HasChild
    <3>5. rows[q] # NULL => q \notin V
      BY <3>3, <3>4 DEF Collected
    <3> QED
      BY <1>2, <3>1, <3>5
  <2> QED
    BY <2>1, <2>2, <2>3
<1>5. \A c \in Commits : rows'[c] # NULL => rows'[c] = rows[c]
  BY <1>2
<1>6. PICK S : S = {c \in Commits : rows'[c] # NULL \/ rows[c] = NULL}
  OBVIOUS
<1>7. Undisturbed(rows, rows', S)
  BY <1>4, <1>6 DEF Undisturbed
<1> QED
  BY <1>3, <1>5, <1>6, <1>7

(* A step inserts the next commit or changes nothing of what stays. *)
LEMMA InsertedKeeps ==
  ASSUME VersionTyped, NEW row, Inserted(row)
  PROVE  /\ rows' \in Graphs /\ Older(rows') /\ rows'[made + 1] = row /\ row # NULL
         /\ Parents(rows', made + 1) = row.parents /\ Delta(rows', made + 1) = row.delta
         /\ \A c \in Commits : c # made + 1 => rows'[c] = rows[c]
         /\ Undisturbed(rows, rows', 1..made)
         /\ rows[made + 1] = NULL
<1>1. GraphMade(rows, made) /\ made \in Nat
  BY RefsAre DEF VersionTyped
<1>2. /\ GraphMade(rows', made + 1) /\ rows'[made + 1] = row
      /\ Parents(rows', made + 1) = row.parents /\ Delta(rows', made + 1) = row.delta
      /\ \A c \in Commits : c # made + 1 => rows'[c] = rows[c]
      /\ Undisturbed(rows, rows', 1..made)
  <2>1. PICK H : H = rows'
    OBVIOUS
  <2>2. row \in Row /\ RowMade(row, made) /\ made + 1 \in Commits /\ H = [rows EXCEPT ![made + 1] = row]
    BY <2>1 DEF Inserted
  <2> HIDE DEF Row, Commits
  <2>3. GraphMade(H, made + 1)
    BY <1>1, <2>2, InsertIs
  <2>4. H[made + 1] = row
    BY <1>1, <2>2 DEF GraphMade, Graphs
  <2>5. Parents(H, made + 1) = row.parents /\ Delta(H, made + 1) = row.delta
    BY <2>2, <2>4, AbsentAssumption DEF Parents, Delta
  <2>6. \A c \in Commits : c # made + 1 => H[c] = rows[c]
    BY <1>1, <2>2, InsertIs
  <2>7. Undisturbed(rows, H, 1..made)
    BY <1>1, <2>2, InsertIs
  <2> QED
    BY <2>1, <2>3, <2>4, <2>5, <2>6, <2>7
<1>3. ~(made + 1 <= made)
  BY <1>1
<1>4. rows[made + 1] = NULL
  BY <1>1, <1>3 DEF GraphMade, Inserted
<1> QED
  BY <1>2, <1>4, AbsentAssumption DEF GraphMade, Inserted


LEMMA SnapshotKept ==
  ASSUME VersionTyped, NEW p \in Callers, VersionStep(p), Sqlite,
         NEW c \in Commits, rows[c] # NULL, rows'[c] # NULL
  PROVE  Tree(rows', c) = Tree(rows, c)
<1>1. rows \in Graphs /\ Older(rows) /\ made \in Nat /\ c \in 1..made
  BY RefsAre DEF Alive, Graphs
<1>2. CASE rows' = rows
  BY <1>2
<1>3. CASE Inserted(CallRow(call[p]))
  <2>1. rows' \in Graphs /\ Older(rows') /\ Undisturbed(rows, rows', 1..made)
    BY <1>3, InsertedKeeps
  <2>2. 1..made \in SUBSET Commits
    BY RefsAre
  <2> QED
    BY <1>1, <2>1, <2>2, TreeKept
<1>4. CASE Collected(call[p].victims)
  <2>1. PICK S \in SUBSET Commits : S = {k \in Commits : rows'[k] # NULL \/ rows[k] = NULL}
    OBVIOUS
  <2>2. rows' \in Graphs /\ Older(rows') /\ Undisturbed(rows, rows', S)
    BY <1>4, <2>1, CollectKeeps
  <2>3. c \in S
    BY <2>1
  <2> QED
    BY <1>1, <2>2, <2>3, TreeKept
<1> QED
  BY <1>2, <1>3, <1>4, RowsChange

LEMMA NextTyped == VersionTyped /\ [VersionNext]_versionVars => VersionTyped'
<1>1. ASSUME VersionTyped, NEW p \in Callers, VersionStep(p) PROVE VersionTyped'
  BY <1>1, StepTyped
<1>2. ASSUME VersionTyped, UNCHANGED versionVars PROVE VersionTyped'
  BY <1>2 DEF versionVars, VersionTyped
<1> QED
  BY <1>1, <1>2 DEF VersionNext

LEMMA VersionSpecTyped == VersionSpec => []VersionTyped
<1> QED
  BY InitTyped, NextTyped, PTL DEF VersionSpec

(* gc takes no commit from the history of one that stays, and a commit's deltas *)
(* and parents never change: the snapshot of a SQLite commit is the same for as *)
(* long as the commit exists.                                                   *)
THEOREM SnapshotsNeverChange == VersionSpec => SnapshotsImmutable
<1>1. VersionTyped /\ [VersionNext]_versionVars
        => [Sqlite => \A c \in Commits : rows[c] # NULL /\ rows'[c] # NULL => Tree(rows', c) = Tree(rows, c)]_versionVars
  BY SnapshotKept DEF VersionNext
<1> QED
  BY <1>1, VersionSpecTyped, PTL DEF VersionSpec, SnapshotsImmutable

-----------------------------------------------------------------------------
(* Branches.                                                                 *)

\* A fast-forward that was decided on: theirs descends from ours, unless a gc
\* has taken theirs, which refuses the fast-forward.
MergesKnown ==
  \A p \in Callers : call[p].op = "merge" /\ call[p].row = NULL =>
    IsAncestor(rows, call[p].ours, call[p].theirs) \/ (Sqlite /\ rows[call[p].theirs] = NULL)

\* gc keeps the other callers out while it collects.
GcExclusive ==
  GcAlone => \A p, q \in Callers : call[p].op = "gc" /\ q # p => call[q] = Idle

\* An operation starts, goes on, or is one step.
LEMMA StepPhases ==
  ASSUME NEW p \in Callers, VersionStep(p)
  PROVE  (\E op : Starts(p, op)) \/ call[p] # Idle \/ BeginSession(p) \/ AbortSession(p)
<1>1. CASE StartCommit(p) \/ StartCreateBranch(p) \/ DeleteBranch(p) \/ StartSwitchHead(p) \/ StartCreateTag(p)
           \/ StartMerge(p) \/ StartKnowledgeMerge(p) \/ StartCherryPick(p) \/ StartRebase(p) \/ StartSquash(p)
           \/ StartGc(p) \/ ContinueSession(p)
  BY <1>1, Zenon DEF StartCommit, StartCreateBranch, DeleteBranch, StartSwitchHead, StartCreateTag, StartMerge,
     StartKnowledgeMerge, StartCherryPick, StartRebase, StartSquash, StartGc, ContinueSession
<1>2. CASE SqliteCommit(p) \/ PgCommit(p) \/ CreateBranch(p) \/ SqliteSwitchHead(p) \/ PgSwitchHead(p) \/ CreateTag(p)
           \/ FastForward(p) \/ Merge(p) \/ CherryPick(p) \/ RebaseStep(p) \/ Rebase(p) \/ SqliteSquash(p)
           \/ PgSquash(p) \/ SqliteGc(p) \/ PgGc(p) \/ MarkCompleted(p) \/ Stop(p)
  <2>1. call[p] # Idle \/ \E op \in {"commit", "branch", "switch", "tag", "merge", "pick", "rebase", "squash", "gc", "mark"} :
                            Finishes(p, op)
    BY <1>2 DEF SqliteCommit, PgCommit, CreateBranch, SqliteSwitchHead, PgSwitchHead, CreateTag, FastForward,
       Merge, CherryPick, RebaseStep, Rebase, SqliteSquash, PgSquash, SqliteGc, PgGc, MarkCompleted, Stop
  <2> QED
    BY <2>1 DEF Finishes, Idle
<1> QED
  BY <1>1, <1>2, Zenon DEF VersionStep

\* A call is the one of an operation that starts or goes on, or it stays.
LEMMA CallsStart ==
  ASSUME VersionTyped, NEW p \in Callers, VersionStep(p)
  PROVE  \/ call'[p] = call[p] \/ call'[p] = Idle \/ call'[p].op = "mark"
         \/ /\ call'[p].op = "gc" => StartGc(p) \/ (PgGc(p) /\ call[p].op = "gc")
            /\ call'[p].op = "merge" => StartMerge(p) \/ StartKnowledgeMerge(p)
            /\ call'[p].op = "branch" => StartCreateBranch(p)
            /\ call'[p].op = "squash" => StartSquash(p)
            /\ call'[p].op = "rebase" => StartRebase(p) \/ ContinueSession(p) \/ (RebaseStep(p) /\ ~Refused(p))
<1>0. call \in [Callers -> Calls]
  BY DEF VersionTyped
<1>1. CASE SqliteCommit(p) \/ PgCommit(p) \/ CreateBranch(p) \/ SqliteSwitchHead(p) \/ PgSwitchHead(p) \/ CreateTag(p)
           \/ FastForward(p) \/ Merge(p) \/ SqliteSquash(p) \/ PgSquash(p) \/ SqliteGc(p) \/ MarkCompleted(p) \/ Stop(p)
  <2>1. End(p)
    BY <1>1, Zenon DEF SqliteCommit, PgCommit, CreateBranch, SqliteSwitchHead, PgSwitchHead, CreateTag,
       FastForward, Merge, SqliteSquash, PgSquash, SqliteGc, MarkCompleted, Stop, Refused
  <2> QED
    BY <1>0, <2>1 DEF End
<1>2. CASE CherryPick(p) \/ RebaseStep(p) \/ Rebase(p)
  <2>1. End(p) \/ EndOrMark(p) \/ (call[p].op = "rebase" /\ RebaseStep(p) /\ ~Refused(p))
    BY <1>2, Zenon DEF CherryPick, RebaseStep, Rebase, Refused, Finishes
  <2>2. CASE End(p) \/ EndOrMark(p)
    BY <1>0, <2>2 DEF End, EndOrMark, Begin
  <2>3. CASE call[p].op = "rebase" /\ RebaseStep(p) /\ ~Refused(p)
    <3>1. PICK c \in RebaseCalls : c = call[p]
      BY <2>3, CallOf, CallKinds
    <3>2. call'[p] = [c EXCEPT !.target = Next1, !.todo = Tail(c.todo), !.first = NULL]
      BY <1>0, <2>3, <3>1, RebaseStepIs
    <3>3. call'[p].op = "rebase"
      BY <3>1, <3>2 DEF RebaseCalls
    <3> QED
      BY <2>3, <3>3
  <2> QED
    BY <2>1, <2>2, <2>3
<1>3. CASE StartCommit(p) \/ StartSwitchHead(p) \/ StartCreateTag(p) \/ StartCherryPick(p) \/ ContinueSession(p)
  <2>1. call'[p].op \in {"commit", "switch", "tag", "pick"} \/ (ContinueSession(p) /\ call'[p].op = "rebase")
    BY <1>0, <1>3 DEF StartCommit, StartSwitchHead, StartCreateTag, StartCherryPick, ContinueSession, Begin
  <2> QED
    BY <2>1
<1>4. CASE StartCreateBranch(p) \/ StartMerge(p) \/ StartKnowledgeMerge(p) \/ StartRebase(p) \/ StartSquash(p) \/ StartGc(p)
  <2>1. /\ StartCreateBranch(p) => call'[p].op = "branch"
        /\ StartMerge(p) \/ StartKnowledgeMerge(p) => call'[p].op = "merge"
        /\ StartRebase(p) => call'[p].op = "rebase"
        /\ StartSquash(p) => call'[p].op = "squash"
        /\ StartGc(p) => call'[p].op = "gc"
    BY <1>0 DEF StartCreateBranch, StartMerge, StartKnowledgeMerge, StartRebase, StartSquash, StartGc, Begin
  <2> QED
    BY <1>4, <2>1
<1>5. CASE DeleteBranch(p) \/ BeginSession(p) \/ AbortSession(p)
  BY <1>5 DEF DeleteBranch, BeginSession, AbortSession
<1>6. CASE PgGc(p)
  <2>1. call'[p] = Idle \/ call'[p].op = "gc"
    BY <1>0, <1>6 DEF PgGc, Begin, End
  <2> QED
    BY <1>6, <2>1 DEF PgGc, Finishes
<1> QED
  BY <1>1, <1>2, <1>3, <1>4, <1>5, <1>6, Zenon DEF VersionStep

LEMMA StepExclusive ==
  ASSUME VersionTyped, GcExclusive, NEW p \in Callers, VersionStep(p)
  PROVE  GcExclusive'
<1> SUFFICES ASSUME GcAlone, NEW a \in Callers, NEW b \in Callers, call'[a].op = "gc", b # a
             PROVE  call'[b] = Idle
  BY DEF GcExclusive
<1>1. \A q \in Callers : q # p => call'[q] = call[q]
  BY OtherCalls
<1>2. CASE StartGc(p)
  <2>1. \A q \in Callers : call[q] = Idle
    BY <1>2 DEF StartGc
  <2> QED
    BY <1>1, <2>1 DEF Idle
<1>3. CASE Collecting /\ ~StartGc(p) /\ call[p] = Idle
  <2>1. \A op : ~Starts(p, op)
    BY <1>3 DEF Starts
  <2>2. BeginSession(p) \/ AbortSession(p)
    BY <1>3, <2>1, StepPhases
  <2>3. call' = call
    BY <2>2 DEF BeginSession, AbortSession
  <2> QED
    BY <2>3 DEF GcExclusive
<1>4. CASE ~Collecting /\ ~StartGc(p)
  <2>1. call'[p].op = "gc" => call[p].op = "gc"
    BY <1>4, CallsStart DEF Idle
  <2> QED
    BY <1>1, <1>4, <2>1 DEF Collecting
<1>5. CASE Collecting /\ ~StartGc(p) /\ call[p] # Idle
  <2>1. call[p].op = "gc"
    BY <1>5 DEF Collecting, GcExclusive
  <2>2. call'[p].op = "gc" \/ call'[p] = Idle
    <3>1. ~(\E op : Starts(p, op)) /\ ~BeginSession(p) /\ ~AbortSession(p)
      BY <1>5 DEF Starts, BeginSession, AbortSession
    <3>2. ~(\E op \in {"commit", "branch", "switch", "tag", "merge", "pick", "rebase", "squash", "mark"} : Finishes(p, op))
      BY <2>1 DEF Finishes
    <3>3. PgGc(p) \/ SqliteGc(p) \/ Stop(p)
      BY <3>1, <3>2 DEF VersionStep, StartCommit, StartCreateBranch, DeleteBranch, StartSwitchHead, StartCreateTag,
         StartMerge, StartKnowledgeMerge, StartCherryPick, StartRebase, StartSquash, StartGc, ContinueSession,
         SqliteCommit, PgCommit, CreateBranch, SqliteSwitchHead, PgSwitchHead, CreateTag, FastForward,
         Merge, CherryPick, RebaseStep, Rebase, SqliteSquash, PgSquash, MarkCompleted
    <3> QED
      BY <3>3 DEF PgGc, SqliteGc, Stop, Refused, Begin, End, VersionTyped
  <2> QED
    BY <1>1, <2>1, <2>2 DEF GcExclusive, Idle
<1> QED
  BY <1>2, <1>3, <1>4, <1>5


\* Where gc may run beside other callers it is restricted by foreign keys.
GcSafe == GcAlone \/ \A s \in Scenes : s.store = "sqlite"

LEMMA StepMergesKnown ==
  ASSUME VersionTyped, GcExclusive, MergesKnown, GcSafe, NEW p \in Callers, VersionStep(p)
  PROVE  MergesKnown'
<1>0. Sqlite' = Sqlite /\ scene \in Scenes
  BY RowsChange DEF Sqlite, VersionTyped
<1>1. ASSUME NEW ours \in 1..made, NEW theirs \in 1..made, ~(~Sqlite /\ call[p].op = "gc"),
             IsAncestor(rows, ours, theirs) \/ (Sqlite /\ rows[theirs] = NULL)
      PROVE  IsAncestor(rows', ours, theirs) \/ (Sqlite /\ rows'[theirs] = NULL)
  <2>1. rows \in Graphs /\ Older(rows) /\ made \in Nat /\ theirs \in Commits
    BY RefsAre
  <2>2. CASE rows' = rows
    BY <1>1, <2>2
  <2>3. CASE Inserted(CallRow(call[p]))
    <3>1. rows' \in Graphs /\ Older(rows') /\ Undisturbed(rows, rows', 1..made)
      BY <2>3, InsertedKeeps
    <3>2. 1..made \in SUBSET Commits
      BY RefsAre
    <3>3. Reach(rows', theirs) = Reach(rows, theirs)
      BY <2>1, <3>1, <3>2, ReachKept
    <3>4. rows'[theirs] = rows[theirs]
      BY <2>1, <2>3, InsertedKeeps
    <3> QED
      BY <1>1, <3>3, <3>4 DEF IsAncestor
  <2>4. CASE Sqlite /\ Collected(call[p].victims) /\ rows'[theirs] # NULL
    <3>1. PICK S \in SUBSET Commits : S = {k \in Commits : rows'[k] # NULL \/ rows[k] = NULL}
      OBVIOUS
    <3>2. rows' \in Graphs /\ Older(rows') /\ Undisturbed(rows, rows', S) /\ rows'[theirs] = rows[theirs]
      BY <2>1, <2>4, <3>1, CollectKeeps
    <3>3. theirs \in S
      BY <2>1, <2>4, <3>1
    <3>4. Reach(rows', theirs) = Reach(rows, theirs)
      BY <2>1, <3>2, <3>3, ReachKept
    <3> QED
      BY <1>1, <2>4, <3>2, <3>4 DEF IsAncestor
  <2> QED
    BY <1>1, <2>2, <2>3, <2>4, RowsChange
<1>2. SUFFICES ASSUME NEW q \in Callers, call'[q].op = "merge", call'[q].row = NULL
               PROVE  \/ IsAncestor(rows', call'[q].ours, call'[q].theirs)
                      \/ Sqlite /\ rows'[call'[q].theirs] = NULL
  BY <1>0 DEF MergesKnown
<1>3. CASE call'[q] = call[q]
  <2>1. call[q].ours \in 1..made /\ call[q].theirs \in 1..made
    BY <1>2, <1>3, CallOf DEF CallMade
  <2>2. ~(~Sqlite /\ call[p].op = "gc")
    BY <1>0, <1>2, <1>3 DEF GcSafe, GcExclusive, Sqlite, Idle
  <2> QED
    BY <1>1, <1>2, <1>3, <2>1, <2>2 DEF MergesKnown
<1>4. CASE q = p /\ call'[p] # call[p]
  <2>1. StartMerge(p) \/ StartKnowledgeMerge(p)
    BY <1>2, <1>4, CallsStart DEF Idle
  <2>2. rows' = rows
    BY <2>1 DEF StartMerge, StartKnowledgeMerge, Starts
  <2>3. call'[p].row = NULL => IsAncestor(rows, call'[p].ours, call'[p].theirs)
    <3>1. call \in [Callers -> Calls]
      BY DEF VersionTyped
    <3>2. CASE StartMerge(p)
      <4>1. PICK from \in Branches, into \in Branches, strategy \in {"ours", "theirs"} :
              /\ branches[from] # NULL /\ branches[into] # NULL
              /\ call' = [call EXCEPT ![p] =
                      [op |-> "merge", into |-> into, ours |-> branches[into], theirs |-> branches[from],
                       row |-> IF IsAncestor(rows, branches[into], branches[from]) THEN NULL
                               ELSE MergeRow(rows, branches[from], branches[into], strategy)]]
        BY <3>2 DEF StartMerge, Begin
      <4>2. MergeRow(rows, branches[from], branches[into], strategy) # NULL
        BY <4>1, RefsAre, MergeRowIs, AbsentAssumption
      <4> QED
        BY <3>1, <4>1, <4>2
    <3>3. CASE StartKnowledgeMerge(p)
      <4>1. PICK from \in Branches, into \in Branches, theirsWin \in BOOLEAN :
              /\ branches[from] # NULL /\ branches[into] # NULL
              /\ call' = [call EXCEPT ![p] =
                      [op |-> "merge", into |-> into, ours |-> branches[into], theirs |-> branches[from],
                       row |-> IF IsAncestor(rows, branches[into], branches[from]) THEN NULL
                               ELSE KnowledgeRow(rows, branches[from], branches[into], theirsWin)]]
        BY <3>3 DEF StartKnowledgeMerge, Begin
      <4>2. KnowledgeRow(rows, branches[from], branches[into], theirsWin) # NULL
        BY <4>1, RefsAre, KnowledgeRowIs, AbsentAssumption
      <4> QED
        BY <3>1, <4>1, <4>2
    <3> QED
      BY <2>1, <3>2, <3>3
  <2> QED
    BY <1>2, <1>4, <2>2, <2>3
<1> QED
  BY <1>3, <1>4, OtherCalls

\* A new commit descends from what it names.
LEMMA NewDescends ==
  ASSUME VersionTyped, NEW row, Inserted(row), NEW q, row.parents = <<q>> \/ (\E r : row.parents = <<q, r>>)
  PROVE  IsAncestor(rows', q, made + 1)
<1>1. /\ rows' \in Graphs /\ Older(rows') /\ Parents(rows', made + 1) = row.parents /\ made + 1 \in Commits
  BY InsertedKeeps DEF Inserted
<1>2. q \in Range(row.parents)
  BY DEF Range
<1> QED
  BY <1>1, <1>2, ParentReached

LEMMA BranchGrows ==
  ASSUME VersionTyped, MergesKnown, NEW p \in Callers, VersionStep(p), NEW b \in Branches
  PROVE  \/ branches'[b] \in {NULL, branches[b]}
         \/ branches[b] = NULL
         \/ IsAncestor(rows', branches[b], branches'[b])
         \/ \E q \in Callers : call[q].op \in {"rebase", "squash"} /\ call'[q].op \in {"idle", "mark"}
<1>0. branches \in [Branches -> Opt(1..made)] /\ call \in [Callers -> Calls]
  BY DEF VersionTyped
<1>1. CASE Still \/ PgCommit(p) \/ SqliteSwitchHead(p) \/ PgSwitchHead(p) \/ CreateTag(p) \/ RebaseStep(p) \/ PgSquash(p)
           \/ SqliteGc(p) \/ PgGc(p)
  <2>1. branches' = branches
    BY <1>1 DEF Still, PgCommit, SqliteSwitchHead, PgSwitchHead, CreateTag, RebaseStep, PgSquash, SqliteGc, PgGc,
       refs, Refused
  <2> QED
    BY <2>1
<1>2. CASE SqliteCommit(p) /\ ~Refused(p)
  <2>1. /\ branches' = branches \/ (branches' = [branches EXCEPT ![attached] = Next1] /\ branches[attached] = call[p].parent
                                    /\ call[p].parent # NULL)
        /\ call[p].op = "commit"
    BY <1>2 DEF SqliteCommit, BranchIs, MoveBranch, Finishes
  <2>2. Inserted(call[p].row) /\ Next1 = made + 1
    BY <1>2, <2>1, InsertsRow DEF CallRow
  <2>3. call[p].parent # NULL => call[p].row.parents = <<call[p].parent>>
    BY <2>1, CallOf DEF CallMade
  <2>4. call[p].parent # NULL => IsAncestor(rows', call[p].parent, Next1)
    BY <2>2, <2>3, NewDescends
  <2> QED
    BY <1>0, <2>1, <2>4
<1>3. CASE CreateBranch(p) /\ ~Refused(p)
  BY <1>0, <1>3 DEF CreateBranch, BranchIs, MoveBranch
<1>4. CASE DeleteBranch(p)
  BY <1>0, <1>4 DEF DeleteBranch, MoveBranch
<1>5. CASE FastForward(p) /\ ~Refused(p)
  <2>1. /\ branches' = [branches EXCEPT ![call[p].into] = call[p].theirs] /\ branches[call[p].into] = call[p].ours
        /\ call[p].op = "merge" /\ call[p].row = NULL /\ (Sqlite => rows[call[p].theirs] # NULL) /\ rows' = rows
    BY <1>5 DEF FastForward, MergeHolds, BranchIs, MoveBranch, Finishes
  <2>2. IsAncestor(rows', call[p].ours, call[p].theirs)
    BY <2>1 DEF MergesKnown
  <2> QED
    BY <1>0, <2>1, <2>2
<1>6. CASE Merge(p) /\ ~Refused(p)
  <2>1. /\ branches' = [branches EXCEPT ![call[p].into] = Next1] /\ branches[call[p].into] = call[p].ours
        /\ call[p].op = "merge" /\ call[p].row # NULL
    BY <1>6 DEF Merge, MergeHolds, BranchIs, MoveBranch, Finishes
  <2>2. Inserted(call[p].row) /\ Next1 = made + 1 /\ call[p].row.parents = <<call[p].ours, call[p].theirs>>
    BY <1>6, <2>1, InsertsRow, CallOf DEF CallRow, CallMade
  <2>3. IsAncestor(rows', call[p].ours, Next1)
    BY <2>2, NewDescends
  <2> QED
    BY <1>0, <2>1, <2>3
<1>7. CASE CherryPick(p) /\ ~Refused(p)
  <2>1. /\ branches' = [branches EXCEPT ![call[p].branch] = Next1] /\ branches[call[p].branch] = call[p].target
        /\ call[p].op = "pick"
    BY <1>7 DEF CherryPick, BranchIs, MoveBranch, Finishes
  <2>2. Inserted(call[p].row) /\ Next1 = made + 1 /\ call[p].row.parents = <<call[p].target>>
    BY <1>7, <2>1, InsertsRow, CallOf DEF CallRow, CallMade
  <2>3. IsAncestor(rows', call[p].target, Next1)
    BY <2>2, NewDescends
  <2> QED
    BY <1>0, <2>1, <2>3
<1>8. CASE Rebase(p) /\ ~Refused(p)
  <2>1. call[p].op = "rebase" /\ EndOrMark(p)
    BY <1>8 DEF Rebase, Finishes
  <2>2. call'[p].op \in {"idle", "mark"}
    BY <1>0, <2>1 DEF EndOrMark, End, Begin, Idle
  <2> QED
    BY <2>1, <2>2
<1>9. CASE SqliteSquash(p) /\ ~Refused(p)
  <2>1. call[p].op = "squash" /\ End(p)
    BY <1>9 DEF SqliteSquash, Finishes
  <2>2. call'[p].op = "idle"
    BY <1>0, <2>1 DEF End, Idle
  <2> QED
    BY <2>1, <2>2
<1> QED
  BY <1>1, <1>2, <1>3, <1>4, <1>5, <1>6, <1>7, <1>8, <1>9, StillSteps, Zenon DEF Moving

LEMMA StutterKnown ==
  ASSUME UNCHANGED versionVars
  PROVE  (MergesKnown => MergesKnown') /\ (GcExclusive => GcExclusive')
BY DEF versionVars, MergesKnown, GcExclusive, Sqlite

(* A branch moves to a descendant of where it was unless it is rebased or squashed, *)
(* whatever interleaves with the move: update_branch_head compares the head that    *)
(* the operation started from, the new commit names it as a parent, and what a      *)
(* merge found to be an ancestor stays one.  With PostgreSQL, whose gc no foreign   *)
(* key restricts, that needs gc to run while no other caller is in the store.       *)
THEOREM BranchesOnlyGrow ==
  ASSUME GcAlone \/ \A s \in Scenes : s.store = "sqlite"
  PROVE  VersionSpec => BranchesGrow
<1> DEFINE Inv == VersionTyped /\ MergesKnown /\ GcExclusive
<1>1. VersionInit => Inv
  BY InitTyped DEF VersionInit, MergesKnown, GcExclusive, Idle
<1>2. Inv /\ [VersionNext]_versionVars => Inv'
  BY NextTyped, StepMergesKnown, StepExclusive, StutterKnown DEF VersionNext, GcSafe
<1>3. Inv /\ [VersionNext]_versionVars
        => [\A b \in Branches :
              \/ branches'[b] \in {NULL, branches[b]}
              \/ branches[b] = NULL
              \/ IsAncestor(rows', branches[b], branches'[b])
              \/ \E p \in Callers : call[p].op \in {"rebase", "squash"} /\ call'[p].op \in {"idle", "mark"}]_versionVars
  BY BranchGrows DEF VersionNext
<1> QED
  BY <1>1, <1>2, <1>3, PTL DEF VersionSpec, BranchesGrow


-----------------------------------------------------------------------------
(* What the calls and HEAD refer to.                                         *)

SessionsFit ==
  /\ Len(sessions) <= MaxSessions
  /\ \A p \in Callers : call[p].op \in {"pick", "rebase", "mark"} => call[p].session \in 0..Len(sessions)
  /\ \A p \in Callers : call[p].op = "gc" => call[p].victims \subseteq 1..made

\* The foreign keys of version_heads; attached to nothing as long as there is no HEAD.
HeadExists ==
  Sqlite => /\ head = NULL \/ rows[head] # NULL
            /\ attached = NULL \/ branches[attached] # NULL
            /\ head = NULL => attached = NULL

LEMMA StepHead ==
  ASSUME VersionTyped, HeadExists, NEW p \in Callers, VersionStep(p)
  PROVE  HeadExists'
<1>0. /\ Sqlite' = Sqlite /\ branches \in [Branches -> Opt(1..made)] /\ attached \in Opt(Branches)
      /\ head \in Opt(1..made) /\ NULL \notin 1..made
  BY RowsChange, RefsAre, AbsentAssumption DEF Sqlite, VersionTyped
<1> SUFFICES ASSUME Sqlite PROVE HeadExists'
  BY <1>0 DEF HeadExists
<1>1. CASE Still \/ CreateTag(p) \/ PgCommit(p) \/ PgSwitchHead(p) \/ PgSquash(p) \/ PgGc(p)
  <2>1. UNCHANGED <<rows, head, attached, branches>>
    BY <1>1 DEF Still, CreateTag, PgCommit, PgSwitchHead, PgSquash, PgGc, refs
  <2> QED
    BY <1>0, <2>1 DEF HeadExists
<1>2. ASSUME ~Refused(p), SqliteCommit(p) \/ Merge(p) \/ CherryPick(p) \/ RebaseStep(p) \/ SqliteSquash(p)
      PROVE  HeadExists'
  <2>1. Inserted(CallRow(call[p])) /\ Next1 = made + 1
    BY <1>2, InsertsRow
  <2>2. rows'[made + 1] # NULL /\ rows[made + 1] = NULL /\ \A c \in Commits : c # made + 1 => rows'[c] = rows[c]
    BY <2>1, InsertedKeeps
  <2>3. Next1 # NULL /\ (head # NULL => head \in Commits)
    BY <2>1, RefsAre, AbsentAssumption DEF Inserted
  <2>4. head # NULL => rows'[head] # NULL
    BY <2>2, <2>3 DEF HeadExists
  <2>5. head' \in {head, Next1} /\ attached' = attached
    BY <1>2 DEF SqliteCommit, Merge, CherryPick, RebaseStep, SqliteSquash, refs
  <2>6. \A b \in Branches : branches'[b] \in {branches[b], Next1}
    BY <1>0, <1>2 DEF SqliteCommit, Merge, CherryPick, RebaseStep, SqliteSquash, refs, MoveBranch
  <2> QED
    BY <1>0, <2>1, <2>2, <2>3, <2>4, <2>5, <2>6 DEF HeadExists, Opt
<1>3. CASE (CreateBranch(p) \/ Rebase(p) \/ FastForward(p)) /\ ~Refused(p)
  <2>1. /\ rows' = rows /\ attached' = attached
        /\ \E b, c : branches' = [branches EXCEPT ![b] = c] /\ c \in 1..made
                     /\ (head' = head \/ (head' = c /\ rows[c] # NULL))
    <3>1. CASE CreateBranch(p) /\ ~Refused(p)
      BY <3>1, CallOf DEF CreateBranch, MoveBranch, Finishes, CallMade
    <3>2. CASE Rebase(p) /\ ~Refused(p)
      BY <3>2, CallOf DEF Rebase, MoveBranch, Finishes, CallMade
    <3>3. CASE FastForward(p) /\ ~Refused(p)
      BY <3>3, CallOf DEF FastForward, MoveBranch, Finishes, CallMade
    <3> QED
      BY <1>3, <3>1, <3>2, <3>3
  <2> QED
    BY <1>0, <2>1 DEF HeadExists, Opt
<1>4. CASE DeleteBranch(p)
  <2>1. UNCHANGED <<rows, head, attached>> /\ \E b \in Branches : attached # b /\ branches' = [branches EXCEPT ![b] = NULL]
    BY <1>4 DEF DeleteBranch, MoveBranch, Starts
  <2> QED
    BY <1>0, <2>1 DEF HeadExists, Opt
<1>5. CASE SqliteSwitchHead(p) /\ ~Refused(p)
  <2>1. /\ head' = call[p].to /\ attached' = call[p].name /\ UNCHANGED <<rows, branches>>
        /\ branches[call[p].name] # NULL /\ rows[call[p].to] # NULL /\ call[p].to \in 1..made
    BY <1>5, CallOf DEF SqliteSwitchHead, Finishes, CallMade
  <2> QED
    BY <1>0, <2>1 DEF HeadExists
<1>6. CASE SqliteGc(p) /\ ~Refused(p)
  <2>1. UNCHANGED refs /\ \E v : head \notin v /\ rows' = [c \in Commits |-> IF c \in v THEN NULL ELSE rows[c]]
    BY <1>6 DEF SqliteGc
  <2> QED
    BY <1>0, <2>1, RefsAre DEF HeadExists, refs
<1> QED
  BY <1>1, <1>2, <1>3, <1>4, <1>5, <1>6, StillSteps, Zenon DEF Moving

LEMMA StepSessions ==
  ASSUME VersionTyped, SessionsFit, NEW p \in Callers, VersionStep(p)
  PROVE  SessionsFit'
<1>1. /\ sessions \in Seq(Sessions) /\ Len(sessions) \in Nat /\ DOMAIN sessions = 1..Len(sessions)
      /\ call \in [Callers -> Calls] /\ made \in Nat
  BY RefsAre DEF VersionTyped
<1>2. Len(sessions') \in Nat /\ Len(sessions) <= Len(sessions') /\ Len(sessions') <= MaxSessions
  <2>1. CASE BeginSession(p)
    <3>1. Len(sessions) < MaxSessions /\ \E s : sessions' = Append(sessions, s)
      BY <2>1, Zenon DEF BeginSession
    <3> QED
      BY <1>1, <3>1, SessionsAssumption
  <2>2. CASE MarkCompleted(p) \/ AbortSession(p)
    <3>1. sessions' = sessions \/ \E i, s : sessions' = [sessions EXCEPT ![i] = s]
      BY <2>2 DEF MarkCompleted, AbortSession
    <3>2. Len(sessions') = Len(sessions)
      BY <1>1, <3>1
    <3> QED
      BY <1>1, <3>2 DEF SessionsFit
  <2>3. CASE ~BeginSession(p) /\ ~MarkCompleted(p) /\ ~AbortSession(p)
    <3>1. (\E op : Starts(p, op)) => sessions' = sessions
      BY DEF Starts
    <3>2. ASSUME SqliteCommit(p) \/ PgCommit(p) \/ CreateBranch(p) \/ SqliteSwitchHead(p) \/ PgSwitchHead(p) \/ CreateTag(p)
               \/ FastForward(p) \/ Merge(p) \/ CherryPick(p) \/ RebaseStep(p) \/ Rebase(p) \/ SqliteSquash(p)
               \/ PgSquash(p) \/ SqliteGc(p) \/ PgGc(p) \/ Stop(p)
          PROVE sessions' = sessions
      BY <3>2 DEF SqliteCommit, PgCommit, CreateBranch, SqliteSwitchHead, PgSwitchHead, CreateTag, FastForward,
         Merge, CherryPick, RebaseStep, Rebase, SqliteSquash, PgSquash, SqliteGc, PgGc, Stop, Refused
    <3>3. sessions' = sessions
      BY <2>3, <3>1, <3>2 DEF VersionStep, StartCommit, StartCreateBranch, DeleteBranch, StartSwitchHead, StartCreateTag,
         StartMerge, StartKnowledgeMerge, StartCherryPick, StartRebase, StartSquash, StartGc, ContinueSession
    <3> QED
      BY <1>1, <3>3 DEF SessionsFit
  <2> QED
    BY <2>1, <2>2, <2>3
<1>3. made' \in Nat /\ made <= made'
  BY <1>1, RowsChange DEF Inserted, Collected
<1>4. call'[p].op \in {"pick", "rebase", "mark"} => call'[p].session \in 0..Len(sessions)
  <2>1. CASE StartCommit(p) \/ StartCreateBranch(p) \/ StartSwitchHead(p) \/ StartCreateTag(p) \/ StartMerge(p)
             \/ StartKnowledgeMerge(p) \/ StartCherryPick(p) \/ StartRebase(p) \/ StartSquash(p) \/ StartGc(p)
    BY <1>1, <2>1 DEF StartCommit, StartCreateBranch, StartSwitchHead, StartCreateTag, StartMerge, StartKnowledgeMerge,
       StartCherryPick, StartRebase, StartSquash, StartGc, Begin
  <2>2. CASE ContinueSession(p)
    <3>1. PICK i \in DOMAIN sessions : \E c : call' = [call EXCEPT ![p] = c] /\ c.session = i
      BY <2>2 DEF ContinueSession, Begin
    <3> QED
      BY <1>1, <3>1
  <2>3. CASE CherryPick(p) \/ RebaseStep(p) \/ Rebase(p)
    <3>1. call[p].op \in {"pick", "rebase"} /\ call[p].session \in 0..Len(sessions)
      BY <2>3 DEF CherryPick, RebaseStep, Rebase, Finishes, SessionsFit
    <3>2. End(p) \/ EndOrMark(p) \/ (call[p].op = "rebase" /\ RebaseStep(p) /\ ~Refused(p))
      BY <2>3, Zenon DEF CherryPick, RebaseStep, Rebase, Refused, Finishes
    <3>3. CASE End(p) \/ EndOrMark(p)
      BY <1>1, <3>1, <3>3 DEF End, EndOrMark, Begin, Idle
    <3>4. CASE call[p].op = "rebase" /\ RebaseStep(p) /\ ~Refused(p)
      <4>1. PICK c \in RebaseCalls : c = call[p]
        BY <3>4, CallOf, CallKinds
      <4>2. call'[p] = [c EXCEPT !.target = Next1, !.todo = Tail(c.todo), !.first = NULL]
        BY <1>1, <3>4, <4>1, RebaseStepIs
      <4>3. call'[p].session = c.session
        BY <4>2 DEF RebaseCalls
      <4> QED
        BY <3>1, <4>1, <4>3
    <3> QED
      BY <3>2, <3>3, <3>4
  <2>4. CASE SqliteCommit(p) \/ PgCommit(p) \/ CreateBranch(p) \/ SqliteSwitchHead(p) \/ PgSwitchHead(p) \/ CreateTag(p)
             \/ FastForward(p) \/ Merge(p) \/ SqliteSquash(p) \/ PgSquash(p) \/ SqliteGc(p) \/ MarkCompleted(p) \/ Stop(p)
    <3>1. End(p)
      BY <2>4, Zenon DEF SqliteCommit, PgCommit, CreateBranch, SqliteSwitchHead, PgSwitchHead, CreateTag,
         FastForward, Merge, SqliteSquash, PgSquash, SqliteGc, MarkCompleted, Stop, Refused
    <3> QED
      BY <1>1, <3>1 DEF End, Idle
  <2>5. CASE DeleteBranch(p) \/ BeginSession(p) \/ AbortSession(p)
    BY <2>5 DEF DeleteBranch, BeginSession, AbortSession, SessionsFit
  <2>6. CASE PgGc(p)
    BY <1>1, <2>6 DEF PgGc, End, Begin, Idle
  <2> QED
    BY <2>1, <2>2, <2>3, <2>4, <2>5, <2>6, Zenon DEF VersionStep
<1>5. call'[p].op = "gc" => call'[p].victims \subseteq 1..made
  <2>1. SUFFICES ASSUME call'[p].op = "gc", call'[p] # call[p] PROVE call'[p].victims \subseteq 1..made
    BY DEF SessionsFit
  <2>2. CASE StartGc(p)
    <3>1. PICK victims : victims \subseteq Alive(rows) /\ call' = [call EXCEPT ![p] = [op |-> "gc", victims |-> victims]]
      BY <2>2 DEF StartGc, Begin
    <3> QED
      BY <1>1, <3>1, RefsAre
  <2>3. CASE PgGc(p) /\ call[p].op = "gc"
    <3>1. PICK k : call' = [call EXCEPT ![p] = Idle]
                   \/ call' = [call EXCEPT ![p] = [op |-> "gc", victims |-> call[p].victims \ {k}]]
      BY <2>3 DEF PgGc, End, Begin
    <3> QED
      BY <1>1, <2>1, <2>3, <3>1 DEF SessionsFit, Idle
  <2> QED
    BY <2>1, <2>2, <2>3, CallsStart DEF Idle
<1> QED
  BY <1>1, <1>2, <1>3, <1>4, <1>5, OtherCalls DEF SessionsFit


LEMMA CallFits ==
  ASSUME VersionTyped, SessionsFit, NEW p \in Callers
  PROVE  CallOK(call[p])
<1>1. call[p] \in Calls /\ CallMade(call[p], made)
  BY CallOf
<1>2. call[p].op \in {"idle", "commit", "branch", "switch", "tag", "merge", "pick", "rebase", "squash", "gc", "mark"}
  BY <1>1 DEF Calls, Idle, CommitCalls, BranchCalls, SwitchCalls, TagCalls, MergeCalls, PickCalls, RebaseCalls,
     SquashCalls, GcCalls, MarkCalls
<1>3. call[p].op \in {"commit", "pick", "squash"} => call[p].row \in Row
  BY <1>1, CallKinds DEF CommitCalls, PickCalls, SquashCalls
<1>4. call[p].op = "merge" => call[p].row \in Opt(Row) /\ call[p].ours \in 1..made
  BY <1>1, CallKinds DEF MergeCalls, CallMade
<1>5. call[p].op = "rebase" => Range(call[p].todo) \cup {call[p].target, call[p].expect} \subseteq 1..made
  <2>1. SUFFICES ASSUME call[p].op = "rebase"
                 PROVE  Range(call[p].todo) \cup {call[p].target, call[p].expect} \subseteq 1..made
    OBVIOUS
  <2>2. PICK todo : todo = call[p].todo
    OBVIOUS
  <2>3. /\ todo \in Seq(Commits) /\ \A k \in 1..Len(todo) : todo[k] \in 1..made
        /\ call[p].target \in 1..made /\ call[p].expect \in 1..made
    BY <1>1, <2>1, <2>2, CallKinds DEF RebaseCalls, CallMade
  <2>4. DOMAIN todo = 1..Len(todo)
    <3> HIDE DEF Commits
    <3> QED
      BY <2>3
  <2> QED
    BY <2>2, <2>3, <2>4 DEF Range
<1> QED
  BY <1>2, <1>3, <1>4, <1>5 DEF SessionsFit, CallOK

LEMMA TypeFollows == VersionTyped /\ SessionsFit /\ HeadExists => VersionTypeOK
<1> SUFFICES ASSUME VersionTyped, SessionsFit, HeadExists PROVE VersionTypeOK
  OBVIOUS
<1>1. rows \in [Commits -> Opt(Row)] /\ made \in 0..MaxCommits
  BY DEF VersionTyped, GraphMade, Graphs
<1>2. ASSUME NEW c \in Alive(rows) PROVE c <= made /\ \A q \in Range(rows[c].parents) : q < c
  <2>1. c \in 1..made /\ c \in Commits /\ rows[c] # NULL
    BY RefsAre DEF Alive
  <2>2. Parents(rows, c) = rows[c].parents
    BY <2>1 DEF Parents
  <2> QED
    BY <2>1, <2>2, RefsAre, OlderParents
<1>3. \A p \in Callers : CallOK(call[p])
  BY CallFits
<1>4. scene \in Scenes /\ head \in Opt(1..made) /\ attached \in Opt(Branches) /\ branches \in [Branches -> Opt(1..made)]
      /\ tags \in [Tags -> Opt(1..made)]
  BY DEF VersionTyped
<1>5. Len(sessions) <= MaxSessions
  BY DEF SessionsFit
<1>6. Sqlite => (head = NULL \/ rows[head] # NULL) /\ (attached = NULL \/ branches[attached] # NULL)
  BY DEF HeadExists
<1> QED
  BY <1>1, <1>2, <1>3, <1>4, <1>5, <1>6 DEF VersionTypeOK

LEMMA InitLinked == ASSUME VersionInit PROVE SessionsFit /\ HeadExists
<1>1. SessionsFit
  BY SessionsAssumption DEF VersionInit, SessionsFit, Idle
<1>2. CASE Empty
  BY <1>1, <1>2 DEF Empty, HeadExists
<1>3. CASE Forked
  <2>1. 1 # NULL /\ 1 \in Commits
    BY GraphAssumption, AbsentAssumption DEF Commits
  <2>2. NewRow(<<>>, scene.first, "commit", NULL) # NULL
    <3>1. <<>> \in Seq(Commits) /\ NULL \in Opt(Commits)
      <4> HIDE DEF Commits
      <4> QED
        BY DEF Opt
    <3>2. scene.first \in DeltaSets
      BY ScenesAssumption DEF VersionInit, Scene
    <3>3. PICK parents \in Seq(Commits) : parents = <<>>
      BY <3>1
    <3>4. NewRow(parents, scene.first, "commit", NULL) \in Row
      BY <3>1, <3>2, RowIs
    <3> QED
      BY <3>3, <3>4, AbsentAssumption
  <2>3. head = 1 /\ rows[1] # NULL /\ (attached = NULL \/ attached \in Branches) /\ \A b \in Branches : branches[b] = 1
    BY <1>3, <2>1, <2>2 DEF Forked
  <2> QED
    BY <1>1, <2>1, <2>3 DEF HeadExists
<1> QED
  BY <1>2, <1>3 DEF VersionInit

LEMMA StutterLinked == ASSUME UNCHANGED versionVars PROVE (SessionsFit => SessionsFit') /\ (HeadExists => HeadExists')
BY DEF versionVars, SessionsFit, HeadExists, Sqlite

LEMMA VersionSpecLinked == VersionSpec => [](VersionTyped /\ SessionsFit /\ HeadExists)
<1> DEFINE Inv == VersionTyped /\ SessionsFit /\ HeadExists
<1>1. VersionInit => Inv
  BY InitTyped, InitLinked
<1>2. Inv /\ [VersionNext]_versionVars => Inv'
  BY NextTyped, StepSessions, StepHead, StutterLinked DEF VersionNext
<1> QED
  BY <1>1, <1>2, PTL DEF VersionSpec

(* Rows, references and calls refer to commits that were made, a commit's parents are *)
(* older than it, and with SQLite HEAD and the branch it is attached to exist,        *)
(* whatever gc, delete_branch and switch_head do in between.                          *)
THEOREM TablesReferToWhatExists == VersionSpec => []VersionTypeOK
<1> QED
  BY VersionSpecLinked, TypeFollows, PTL


-----------------------------------------------------------------------------
(* What names show.  The operators are about a graph and what refers to it.  *)

BranchesShow(G, br) == [b \in Branches |-> IF br[b] = NULL THEN NULL ELSE Tree(G, br[b])]
HeadShows(G, h) == IF h = NULL THEN NULL ELSE Tree(G, h)
AliveShow(G) == {Tree(G, c) : c \in Alive(G)}
RowTree(G, row) == Apply(IF row.parents = <<>> THEN EmptyTree ELSE Tree(G, row.parents[1]), row.delta)

LEMMA AliveTrees ==
  ASSUME NEW G \in Graphs, Older(G)
  PROVE  /\ Alive(G) \subseteq Commits /\ AliveShow(G) \subseteq Trees /\ NULL \notin AliveShow(G)
         /\ \A c \in Commits : Tree(G, c) \in Trees /\ Tree(G, c) # NULL
<1>1. Alive(G) \subseteq Commits
  BY DEF Alive, Graphs
<1>2. \A c \in Commits : Tree(G, c) \in Trees /\ Tree(G, c) # NULL
  BY TreeTyped, AbsentAssumption
<1> QED
  BY <1>1, <1>2 DEF AliveShow

LEMMA ViewsNow ==
  ASSUME VersionTyped, Sqlite
  PROVE  /\ BranchViews = BranchesShow(rows, branches) /\ HeadView = HeadShows(rows, head)
         /\ KeptViews = AliveShow(rows) /\ Attachment = attached
<1>1. \A c \in Alive(rows) : Tree(rows, c) # NULL /\ c # NULL
  BY RefsAre, AliveTrees, AbsentAssumption
<1>2. KeptViews = AliveShow(rows)
  BY <1>1 DEF KeptViews, AliveShow, Shown
<1> QED
  BY <1>2 DEF BranchViews, HeadView, Attachment, BranchesShow, HeadShows, Shown

LEMMA ViewsThen ==
  ASSUME VersionTyped, NEW p \in Callers, VersionStep(p), Sqlite
  PROVE  /\ BranchViews' = BranchesShow(rows', branches') /\ HeadView' = HeadShows(rows', head')
         /\ KeptViews' = AliveShow(rows') /\ Attachment' = attached'
         /\ rows' \in Graphs /\ Older(rows') /\ made' \in Nat
<1>1. Sqlite'
  BY RowsChange DEF Sqlite
<1>2. rows' \in Graphs /\ Older(rows') /\ made' \in Nat
  <2>1. GraphMade(rows', made') /\ made' \in 0..MaxCommits
    BY StepTyped DEF VersionTyped
  <2> QED
    BY <2>1, GraphAssumption DEF GraphMade
<1>3. \A c \in Alive(rows') : Tree(rows', c) # NULL /\ c # NULL
  BY <1>2, AliveTrees, AbsentAssumption
<1>4. KeptViews' = AliveShow(rows')
  BY <1>1, <1>3 DEF KeptViews, AliveShow, Shown
<1> QED
  BY <1>1, <1>2, <1>4 DEF BranchViews, HeadView, Attachment, BranchesShow, HeadShows, Shown

(* An insertion shows one more tree and leaves the others as they were. *)
LEMMA InsertShows ==
  ASSUME VersionTyped, NEW row, Inserted(row)
  PROVE  /\ \A c \in 1..made : Tree(rows', c) = Tree(rows, c)
         /\ Tree(rows', made + 1) = RowTree(rows, row)
         /\ AliveShow(rows') = AliveShow(rows) \cup {Tree(rows', made + 1)}
<1>1. /\ rows \in Graphs /\ Older(rows) /\ made \in Nat /\ 1..made \in SUBSET Commits /\ Alive(rows) \subseteq 1..made
      /\ DOMAIN rows = Commits
  BY RefsAre DEF Graphs
<1>2. /\ rows' \in Graphs /\ Older(rows') /\ rows'[made + 1] = row /\ row # NULL
      /\ Parents(rows', made + 1) = row.parents /\ Delta(rows', made + 1) = row.delta
      /\ \A c \in Commits : c # made + 1 => rows'[c] = rows[c]
      /\ Undisturbed(rows, rows', 1..made)
      /\ made + 1 \in Commits /\ DOMAIN rows' = Commits
  BY <1>1, InsertedKeeps DEF Inserted
<1>3. \A c \in 1..made : Tree(rows', c) = Tree(rows, c)
  BY <1>1, <1>2, TreeKept
<1>4. Tree(rows', made + 1) = RowTree(rows, row)
  <2>1. row.parents \in Seq(Commits) /\ \A i \in 1..Len(row.parents) : row.parents[i] \in 1..made
    BY DEF Inserted, Row, RowMade
  <2>2. row.parents # <<>> => row.parents[1] \in 1..made
    <3>1. PICK f : f = row.parents
      OBVIOUS
    <3>2. f \in Seq(Commits) /\ \A i \in 1..Len(f) : f[i] \in 1..made
      BY <2>1, <3>1
    <3> HIDE DEF Commits
    <3>3. f # <<>> => 1 \in 1..Len(f)
      BY <3>2
    <3> QED
      BY <3>1, <3>2, <3>3
  <2>3. FirstParent(rows', made + 1) = IF row.parents = <<>> THEN NULL ELSE row.parents[1]
    BY <1>2 DEF FirstParent
  <2>4. row.parents # <<>> => row.parents[1] # NULL /\ Tree(rows', row.parents[1]) = Tree(rows, row.parents[1])
    BY <1>1, <1>3, <2>2, AbsentAssumption
  <2>5. Tree(rows', made + 1) = Apply(IF FirstParent(rows', made + 1) = NULL THEN EmptyTree
                                      ELSE Tree(rows', FirstParent(rows', made + 1)), row.delta)
    BY <1>2, TreeIs
  <2>6. CASE row.parents = <<>>
    BY <2>3, <2>5, <2>6 DEF RowTree
  <2>7. CASE row.parents # <<>>
    BY <2>3, <2>4, <2>5, <2>7 DEF RowTree
  <2> QED
    BY <2>6, <2>7
<1>5. Alive(rows') = Alive(rows) \cup {made + 1}
  <2>1. made + 1 \notin Alive(rows)
    BY <1>1
  <2> QED
    BY <1>1, <1>2, <2>1 DEF Alive
<1>6. \A c \in Alive(rows) : Tree(rows', c) = Tree(rows, c)
  BY <1>1, <1>3
<1> QED
  BY <1>3, <1>4, <1>5, <1>6 DEF AliveShow

LEMMA BranchesShowOn ==
  ASSUME VersionTyped, rows' = rows \/ \E row : Inserted(row)
  PROVE  /\ BranchesShow(rows', branches) = BranchesShow(rows, branches)
         /\ HeadShows(rows', head) = HeadShows(rows, head)
         /\ \A b \in Branches, c \in Commits :
              BranchesShow(rows', [branches EXCEPT ![b] = c]) = [BranchesShow(rows, branches) EXCEPT ![b] = Tree(rows', c)]
         /\ \A b \in Branches :
              BranchesShow(rows', [branches EXCEPT ![b] = NULL]) = [BranchesShow(rows, branches) EXCEPT ![b] = NULL]
<1>1. \A c \in 1..made : Tree(rows', c) = Tree(rows, c)
  BY InsertShows
<1>2. branches \in [Branches -> Opt(1..made)] /\ head \in Opt(1..made) /\ NULL \notin Commits
  BY AbsentAssumption DEF VersionTyped
<1>3. \A b \in Branches : branches[b] # NULL => Tree(rows', branches[b]) = Tree(rows, branches[b])
  BY <1>1, <1>2 DEF Opt
<1>4. head # NULL => Tree(rows', head) = Tree(rows, head)
  BY <1>1, <1>2 DEF Opt
<1>5. ASSUME NEW b \in Branches, NEW c \in Commits
      PROVE  BranchesShow(rows', [branches EXCEPT ![b] = c]) = [BranchesShow(rows, branches) EXCEPT ![b] = Tree(rows', c)]
  <2>1. c # NULL
    BY <1>2
  <2> HIDE DEF Commits
  <2> QED
    BY <1>2, <1>3, <2>1 DEF BranchesShow
<1>6. ASSUME NEW b \in Branches
      PROVE  BranchesShow(rows', [branches EXCEPT ![b] = NULL]) = [BranchesShow(rows, branches) EXCEPT ![b] = NULL]
  BY <1>2, <1>3 DEF BranchesShow
<1> QED
  BY <1>3, <1>4, <1>5, <1>6 DEF BranchesShow, HeadShows


-----------------------------------------------------------------------------
(* What the calls hold on to: commits that gc cannot take while they last, and *)
(* rows whose snapshot is the one the operation stands for.                    *)

CallLinked(G, c) ==
  /\ c.op = "branch" => G[c.at] # NULL
  /\ c.op = "merge" => /\ G[c.theirs] # NULL
                       /\ c.row # NULL => Mixes(RowTree(G, c.row), Tree(G, c.ours), Tree(G, c.theirs))
  /\ c.op = "rebase" => c.todo # <<>> \/ G[c.target] # NULL
  /\ c.op = "squash" => G[c.tip] # NULL /\ RowTree(G, c.row) = Tree(G, c.tip)

Linked ==
  Sqlite => /\ \A b \in Branches : branches[b] # NULL => rows[branches[b]] # NULL
            /\ \A p \in Callers : CallLinked(rows, call[p])
            /\ \A p \in Callers, b \in Branches : call[p].op = "gc" => branches[b] \notin call[p].victims

LEMMA GcSteps ==
  ASSUME VersionTyped, NEW p \in Callers, VersionStep(p), call[p].op = "gc"
  PROVE  PgGc(p) \/ SqliteGc(p) \/ Stop(p)
<1>0. call[p] # Idle
  BY DEF Idle
<1>1. ~(\E op : Starts(p, op)) /\ ~BeginSession(p) /\ ~AbortSession(p)
  BY <1>0 DEF Starts, BeginSession, AbortSession
<1>2. ~(\E op \in {"commit", "branch", "switch", "tag", "merge", "pick", "rebase", "squash", "mark"} : Finishes(p, op))
  BY DEF Finishes
<1> QED
  BY <1>1, <1>2 DEF VersionStep, StartCommit, StartCreateBranch, DeleteBranch, StartSwitchHead, StartCreateTag,
     StartMerge, StartKnowledgeMerge, StartCherryPick, StartRebase, StartSquash, StartGc, ContinueSession,
     SqliteCommit, PgCommit, CreateBranch, SqliteSwitchHead, PgSwitchHead, CreateTag, FastForward,
     Merge, CherryPick, RebaseStep, Rebase, SqliteSquash, PgSquash, MarkCompleted

LEMMA WhileCollecting ==
  ASSUME VersionTyped, GcExclusive, GcAlone, NEW p \in Callers, VersionStep(p),
         NEW q \in Callers, q # p, call[q].op = "gc"
  PROVE  BeginSession(p) \/ AbortSession(p)
<1>1. call[p] = Idle /\ Collecting
  BY DEF GcExclusive, Collecting
<1>2. \A op : ~Starts(p, op)
  BY <1>1 DEF Starts
<1> QED
  BY <1>1, <1>2, StepPhases

LEMMA RowTreeKept ==
  ASSUME VersionTyped, NEW row \in Row, RowMade(row, made), rows' = rows \/ \E r : Inserted(r)
  PROVE  RowTree(rows', row) = RowTree(rows, row)
<1>1. PICK f \in Seq(Commits) : f = row.parents
  BY DEF Row
<1>2. \A i \in 1..Len(f) : f[i] \in 1..made
  BY <1>1 DEF RowMade
<1>3. f # <<>> => f[1] \in 1..made
  <2> HIDE DEF Commits
  <2>1. f # <<>> => 1 \in 1..Len(f)
    OBVIOUS
  <2> QED
    BY <1>2, <2>1
<1>4. \A c \in 1..made : Tree(rows', c) = Tree(rows, c)
  BY InsertShows
<1> QED
  BY <1>1, <1>3, <1>4 DEF RowTree

\* Whatever is not a gc keeps a call's links.
LEMMA LinksKept ==
  ASSUME VersionTyped, NEW p \in Callers, CallLinked(rows, call[p]), rows' = rows \/ \E r : Inserted(r)
  PROVE  CallLinked(rows', call[p])
<1>1. call[p] \in Calls /\ CallMade(call[p], made)
  BY CallOf
<1>2. \A c \in 1..made : Tree(rows', c) = Tree(rows, c)
  BY InsertShows
<1>3. \A c \in 1..made : rows'[c] = rows[c]
  <2>1. CASE rows' = rows
    BY <2>1
  <2>2. CASE \E r : Inserted(r)
    <3>1. made \in Nat /\ \A c \in 1..made : c \in Commits
      BY RefsAre
    <3>2. \A c \in Commits : c # made + 1 => rows'[c] = rows[c]
      BY <2>2, InsertedKeeps
    <3> QED
      BY <3>1, <3>2
  <2> QED
    BY <2>1, <2>2
<1>4. CASE call[p].op = "branch"
  BY <1>1, <1>3, <1>4 DEF CallLinked, CallMade
<1>5. CASE call[p].op = "merge"
  <2>1. call[p].row \in Opt(Row) /\ call[p].ours \in 1..made /\ call[p].theirs \in 1..made
        /\ (call[p].row # NULL => RowMade(call[p].row, made))
    BY <1>1, <1>5, CallKinds DEF MergeCalls, CallMade
  <2>2. call[p].row # NULL => RowTree(rows', call[p].row) = RowTree(rows, call[p].row)
    BY <2>1, RowTreeKept DEF Opt
  <2> QED
    BY <1>2, <1>3, <1>5, <2>1, <2>2 DEF CallLinked
<1>6. CASE call[p].op = "rebase"
  BY <1>1, <1>3, <1>6 DEF CallLinked, CallMade
<1>7. CASE call[p].op = "squash"
  <2>1. call[p].row \in Row /\ call[p].tip \in 1..made /\ RowMade(call[p].row, made)
    BY <1>1, <1>7, CallKinds DEF SquashCalls, CallMade
  <2>2. RowTree(rows', call[p].row) = RowTree(rows, call[p].row)
    BY <2>1, RowTreeKept
  <2> QED
    BY <1>2, <1>3, <1>7, <2>1, <2>2 DEF CallLinked
<1> QED
  BY <1>4, <1>5, <1>6, <1>7 DEF CallLinked

\* The links a new call starts with.
LEMMA StartMergeLinks ==
  ASSUME VersionTyped, Linked, Sqlite, NEW p \in Callers, StartMerge(p) \/ StartKnowledgeMerge(p)
  PROVE  CallLinked(rows, call'[p])
<1>0. call \in [Callers -> Calls]
  BY DEF VersionTyped
<1> DEFINE RowOf(from, into, row) ==
              \/ row = NULL
              \/ \E strategy : row = MergeRow(rows, branches[from], branches[into], strategy)
              \/ \E theirsWin : row = KnowledgeRow(rows, branches[from], branches[into], theirsWin)
<1>heads. PICK from \in Branches, into \in Branches :
        /\ branches[from] # NULL /\ branches[into] # NULL
        /\ \E row : RowOf(from, into, row) /\
                    call' = [call EXCEPT ![p] = [op |-> "merge", into |-> into, ours |-> branches[into],
                                                 theirs |-> branches[from], row |-> row]]
  BY DEF StartMerge, StartKnowledgeMerge, Begin
<1>1. PICK row : RowOf(from, into, row) /\
                 call' = [call EXCEPT ![p] = [op |-> "merge", into |-> into, ours |-> branches[into],
                                              theirs |-> branches[from], row |-> row]]
  BY <1>heads
<1>2. PICK ours \in Commits, theirs \in Commits : ours = branches[into] /\ theirs = branches[from]
  BY <1>heads, RefsAre
<1>3. row # NULL => row.parents = <<ours, theirs>> /\ Mixes(Apply(Tree(rows, ours), row.delta), Tree(rows, ours), Tree(rows, theirs))
  BY <1>1, <1>2, RefsAre, MergeRowIs, KnowledgeRowIs
<1>4. row # NULL => Mixes(RowTree(rows, row), Tree(rows, ours), Tree(rows, theirs))
  <2>1. row # NULL => row.parents # <<>> /\ row.parents[1] = ours
    <3>1. PICK pair : pair = <<ours, theirs>>
      OBVIOUS
    <3>2. pair # <<>> /\ pair[1] = ours
      BY <3>1
    <3> QED
      BY <1>3, <3>1, <3>2
  <2>2. PICK mine : mine = Tree(rows, ours)
    OBVIOUS
  <2>3. row # NULL => RowTree(rows, row) = Apply(mine, row.delta)
    BY <2>1, <2>2 DEF RowTree
  <2> QED
    BY <1>3, <2>2, <2>3
<1>5. rows[theirs] # NULL
  BY <1>heads, <1>2 DEF Linked
<1> QED
  BY <1>0, <1>1, <1>2, <1>4, <1>5 DEF CallLinked

LEMMA StartSquashLinks ==
  ASSUME VersionTyped, Sqlite, NEW p \in Callers, StartSquash(p)
  PROVE  CallLinked(rows, call'[p])
<1>0. call \in [Callers -> Calls]
  BY DEF VersionTyped
<1>1. PICK oldest \in 1..made, newest \in 1..made :
        /\ rows[newest] # NULL
        /\ call' = [call EXCEPT ![p] = [op |-> "squash", tip |-> newest, row |-> SquashRow(rows, oldest, newest)]]
  BY DEF StartSquash, Begin
<1>2. PICK row : row = SquashRow(rows, oldest, newest)
  OBVIOUS
<1>3. oldest \in Commits /\ newest \in Commits
  BY RefsAre
<1>4. /\ row.parents = IF FirstParent(rows, oldest) = NULL THEN <<>> ELSE <<FirstParent(rows, oldest)>>
      /\ Apply(TreeOrEmpty(rows, FirstParent(rows, oldest)), row.delta) = Tree(rows, newest)
  BY <1>2, <1>3, RefsAre, SquashRowIs
<1>5. RowTree(rows, row) = Tree(rows, newest)
  <2>1. CASE FirstParent(rows, oldest) = NULL
    BY <1>4, <2>1 DEF RowTree, TreeOrEmpty
  <2>2. CASE FirstParent(rows, oldest) # NULL
    BY <1>4, <2>2 DEF RowTree, TreeOrEmpty
  <2> QED
    BY <2>1, <2>2
<1> QED
  BY <1>0, <1>1, <1>2, <1>5 DEF CallLinked

LEMMA RebaseLinks ==
  ASSUME VersionTyped, Linked, Sqlite, NEW p \in Callers, VersionStep(p),
         StartRebase(p) \/ (RebaseStep(p) /\ ~Refused(p)) \/ (ContinueSession(p) /\ call'[p].op = "rebase")
  PROVE  CallLinked(rows', call'[p])
<1>0. call \in [Callers -> Calls]
  BY DEF VersionTyped
<1>1. CASE StartRebase(p)
  <2>1. PICK onto \in Branches :
          /\ branches[onto] # NULL
          /\ \E c : c.op = "rebase" /\ c.target = branches[onto] /\ call' = [call EXCEPT ![p] = c]
    BY <1>1 DEF StartRebase, Begin
  <2>2. rows[branches[onto]] # NULL /\ rows' = rows
    BY <1>1, <2>1 DEF Linked, StartRebase, Starts
  <2> QED
    BY <1>0, <2>1, <2>2 DEF CallLinked
<1>2. CASE RebaseStep(p) /\ ~Refused(p)
  <2>1. PICK c \in RebaseCalls : c = call[p]
    BY <1>2, CallOf, CallKinds DEF RebaseStep, Finishes
  <2>2. PICK d : d = [c EXCEPT !.target = Next1, !.todo = Tail(c.todo), !.first = NULL]
    OBVIOUS
  <2>3. call'[p] = d /\ d.op = "rebase" /\ d.target = Next1
    BY <1>0, <1>2, <2>1, <2>2, RebaseStepIs DEF RebaseCalls
  <2>4. rows'[Next1] # NULL
    BY <1>2, InsertsRow, InsertedKeeps
  <2> QED
    BY <2>3, <2>4 DEF CallLinked
<1>3. CASE ContinueSession(p) /\ call'[p].op = "rebase"
  <2>1. PICK i \in DOMAIN sessions : call'[p].op = "rebase" => call'[p].todo = sessions[i].commits
    BY <1>0, <1>3 DEF ContinueSession, Begin
  <2>2. sessions[i].commits # <<>>
    BY SessionOf DEF SessionMade
  <2> QED
    BY <1>3, <2>1, <2>2 DEF CallLinked
<1> QED
  BY <1>1, <1>2, <1>3


LEMMA StepLinked ==
  ASSUME VersionTyped, GcExclusive, GcAlone, Linked, NEW p \in Callers, VersionStep(p)
  PROVE  Linked'
<1>0. /\ Sqlite' = Sqlite /\ branches \in [Branches -> Opt(1..made)] /\ call \in [Callers -> Calls]
      /\ \A b \in Branches : branches[b] # NULL => branches[b] \in Commits
  BY RowsChange, RefsAre DEF Sqlite, VersionTyped
<1> SUFFICES ASSUME Sqlite PROVE Linked'
  BY <1>0 DEF Linked
<1>1. CASE SqliteGc(p) /\ ~Refused(p)
  <2>1. PICK v : v = call[p].victims
    OBVIOUS
  <2>2. /\ call[p].op = "gc" /\ call' = [call EXCEPT ![p] = Idle] /\ branches' = branches
        /\ rows' = [c \in Commits |-> IF c \in v THEN NULL ELSE rows[c]]
    BY <1>1, <2>1 DEF SqliteGc, Finishes, End, refs
  <2>3. \A q \in Callers : call'[q] = Idle
    BY <1>0, <2>2 DEF GcExclusive
  <2>4. \A q \in Callers : CallLinked(rows', call'[q]) /\ call'[q].op # "gc"
    BY <2>3 DEF CallLinked, Idle
  <2>5. \A b \in Branches : branches[b] # NULL => rows'[branches[b]] # NULL
    BY <1>0, <2>1, <2>2 DEF Linked
  <2> QED
    BY <1>0, <2>2, <2>4, <2>5 DEF Linked
<1>2. CASE ~(SqliteGc(p) /\ ~Refused(p))
  <2>1. rows' = rows \/ \E r : Inserted(r)
    <3>1. CASE Still
      BY <3>1 DEF Still
    <3>2. CASE ~Refused(p) /\ (SqliteCommit(p) \/ PgCommit(p) \/ Merge(p) \/ CherryPick(p) \/ RebaseStep(p)
                               \/ SqliteSquash(p) \/ PgSquash(p))
      BY <3>2, InsertsRow
    <3>3. CASE ~Refused(p) /\ (CreateBranch(p) \/ DeleteBranch(p) \/ SqliteSwitchHead(p) \/ PgSwitchHead(p) \/ CreateTag(p)
                               \/ FastForward(p) \/ Rebase(p))
      BY <3>3 DEF CreateBranch, DeleteBranch, SqliteSwitchHead, PgSwitchHead, CreateTag, FastForward, Rebase, Starts
    <3>4. ~PgGc(p)
      BY DEF PgGc
    <3> QED
      BY <1>2, <3>1, <3>2, <3>3, <3>4, StillSteps, Zenon DEF Moving
  <2>2. \A c \in Commits : rows[c] # NULL => rows'[c] # NULL
    BY <2>1, InsertedKeeps
  <2>3. \A b \in Branches : branches'[b] # NULL => rows'[branches'[b]] # NULL
    <3>1. CASE Still \/ SqliteSwitchHead(p) \/ CreateTag(p) \/ (PgCommit(p) \/ PgSwitchHead(p) \/ PgSquash(p) \/ PgGc(p))
      <4>1. branches' = branches
        BY <3>1 DEF Still, refs, SqliteSwitchHead, CreateTag, PgCommit, PgSwitchHead, PgSquash, PgGc, Refused
      <4> QED
        BY <1>0, <2>2, <4>1 DEF Linked
    <3>2. ASSUME ~Refused(p), SqliteCommit(p) \/ Merge(p) \/ CherryPick(p) \/ RebaseStep(p) \/ SqliteSquash(p)
          PROVE  \A b \in Branches : branches'[b] # NULL => rows'[branches'[b]] # NULL
      <4>1. \A b \in Branches : branches'[b] \in {branches[b], Next1}
        BY <1>0, <3>2 DEF SqliteCommit, Merge, CherryPick, RebaseStep, SqliteSquash, refs, MoveBranch
      <4>2. rows'[Next1] # NULL
        BY <3>2, InsertsRow, InsertedKeeps
      <4> QED
        BY <1>0, <2>2, <4>1, <4>2 DEF Linked
    <3>3. CASE DeleteBranch(p)
      <4>1. PICK b \in Branches : branches' = [branches EXCEPT ![b] = NULL]
        BY <3>3 DEF DeleteBranch, MoveBranch
      <4> QED
        BY <1>0, <2>2, <4>1 DEF Linked
    <3>4. CASE (CreateBranch(p) \/ Rebase(p) \/ FastForward(p)) /\ ~Refused(p)
      <4>1. PICK b, c : branches' = [branches EXCEPT ![b] = c] /\ rows[c] # NULL /\ rows' = rows
        <5>1. CASE CreateBranch(p) /\ ~Refused(p)
          BY <5>1 DEF CreateBranch, MoveBranch, Finishes, Linked, CallLinked
        <5>2. CASE Rebase(p) /\ ~Refused(p)
          BY <5>2 DEF Rebase, MoveBranch, Finishes, Linked, CallLinked
        <5>3. CASE FastForward(p) /\ ~Refused(p)
          BY <5>3 DEF FastForward, MoveBranch, Finishes, Linked, CallLinked
        <5> QED
          BY <3>4, <5>1, <5>2, <5>3
      <4> QED
        BY <1>0, <2>2, <4>1 DEF Linked
    <3> QED
      BY <1>2, <3>1, <3>2, <3>3, <3>4, StillSteps, Zenon DEF Moving
  <2>4. ASSUME NEW q \in Callers, call'[q] = call[q] PROVE CallLinked(rows', call'[q])
    BY <2>1, <2>4, LinksKept DEF Linked
  <2>5. CallLinked(rows', call'[p])
    <3>1. CASE call'[p] = call[p]
      BY <2>4, <3>1
    <3>2. CASE call'[p] = Idle \/ call'[p].op = "mark"
      BY <3>2 DEF CallLinked, Idle
    <3>3. CASE StartMerge(p) \/ StartKnowledgeMerge(p) \/ StartSquash(p)
      <4>1. rows' = rows
        BY <3>3 DEF StartMerge, StartKnowledgeMerge, StartSquash, Starts
      <4> QED
        BY <3>3, <4>1, StartMergeLinks, StartSquashLinks
    <3>4. CASE StartRebase(p) \/ (RebaseStep(p) /\ ~Refused(p)) \/ (ContinueSession(p) /\ call'[p].op = "rebase")
      BY <3>4, RebaseLinks
    <3>5. CASE StartCreateBranch(p)
      <4>1. PICK b \in Branches, c \in 1..made :
              rows[c] # NULL /\ call' = [call EXCEPT ![p] = [op |-> "branch", name |-> b, at |-> c]]
        BY <3>5 DEF StartCreateBranch, Begin
      <4>2. rows' = rows
        BY <3>5 DEF StartCreateBranch, Starts
      <4> QED
        BY <1>0, <4>1, <4>2 DEF CallLinked
    <3> QED
      BY <3>1, <3>2, <3>3, <3>4, <3>5, CallsStart DEF CallLinked
  <2>6. ASSUME NEW q \in Callers, NEW b \in Branches, call'[q].op = "gc" PROVE branches'[b] \notin call'[q].victims
    <3>1. CASE q = p
      <4>1. CASE StartGc(p)
        <5>1. PICK victims : /\ victims \subseteq Alive(rows) \ Protected
                             /\ call' = [call EXCEPT ![p] = [op |-> "gc", victims |-> victims]] /\ branches' = branches
          <6>1. PICK cutoff \in 1..made, keepRecent \in 0..1 :
                  LET recent == IF keepRecent = 0 \/ Alive(rows) = {} THEN {}
                                ELSE {CHOOSE c \in Alive(rows) : \A d \in Alive(rows) : d <= c}
                      victims == {c \in Alive(rows) : c <= cutoff} \ (Protected \cup recent)
                  IN call' = [call EXCEPT ![p] = [op |-> "gc", victims |-> victims]]
            BY <4>1 DEF StartGc, Begin
          <6>2. PICK recent : recent = IF keepRecent = 0 \/ Alive(rows) = {} THEN {}
                                       ELSE {CHOOSE c \in Alive(rows) : \A d \in Alive(rows) : d <= c}
            OBVIOUS
          <6>3. PICK victims : victims = {c \in Alive(rows) : c <= cutoff} \ (Protected \cup recent)
            OBVIOUS
          <6>4. victims \subseteq Alive(rows) \ Protected
            BY <6>3
          <6>5. call' = [call EXCEPT ![p] = [op |-> "gc", victims |-> victims]]
            BY <6>1, <6>2, <6>3
          <6>6. branches' = branches
            BY <4>1 DEF StartGc, refs
          <6> QED
            BY <6>4, <6>5, <6>6
        <5>2. branches[b] # NULL => branches[b] \in Protected
          <6>1. SUFFICES ASSUME branches[b] # NULL PROVE branches[b] \in Protected
            OBVIOUS
          <6>2. branches[b] \in Targets
            BY <1>0, <6>1 DEF Targets, Range
          <6>3. branches[b] \in Reach(rows, branches[b])
            BY <1>0, <6>1, RefsAre, ReachIs
          <6> QED
            BY <6>2, <6>3 DEF Protected
        <5>3. NULL \notin Alive(rows)
          BY RefsAre, AliveTrees, AbsentAssumption
        <5> QED
          BY <1>0, <3>1, <5>1, <5>2, <5>3
      <4>2. CASE ~StartGc(p)
        <5>1. call[p].op = "gc"
          BY <2>6, <3>1, <4>2, CallsStart DEF Idle
        <5>2. Stop(p) \/ SqliteGc(p)
          BY <5>1, GcSteps DEF PgGc
        <5>3. call'[p] = Idle
          BY <1>0, <5>2 DEF Stop, SqliteGc, Refused, End
        <5> QED
          BY <2>6, <3>1, <5>3 DEF Idle
      <4> QED
        BY <4>1, <4>2
    <3>2. CASE q # p
      <4>1. call'[q] = call[q] /\ call[q].op = "gc"
        BY <2>6, <3>2, OtherCalls
      <4>2. BeginSession(p) \/ AbortSession(p)
        BY <3>2, <4>1, WhileCollecting
      <4>3. branches' = branches
        BY <4>2 DEF BeginSession, AbortSession, refs
      <4> QED
        BY <4>1, <4>3 DEF Linked
    <3> QED
      BY <3>1, <3>2
  <2>7. \A q \in Callers : CallLinked(rows', call'[q])
    BY <2>4, <2>5, OtherCalls
  <2> QED
    BY <1>0, <2>3, <2>6, <2>7 DEF Linked
<1> QED
  BY <1>1, <1>2


-----------------------------------------------------------------------------
(* Each step is a step of the store of named snapshots.                      *)

LEMMA BranchMoves ==
  ASSUME VersionTyped, Sqlite, NEW p \in Callers, VersionStep(p), rows' = rows \/ \E row : Inserted(row),
         NEW b \in Branches, NEW c \in Commits, branches' = [branches EXCEPT ![b] = c]
  PROVE  BranchViews' = [BranchViews EXCEPT ![b] = Tree(rows', c)]
<1>1. BranchesShow(rows', [branches EXCEPT ![b] = c]) = [BranchesShow(rows, branches) EXCEPT ![b] = Tree(rows', c)]
  BY BranchesShowOn
<1>2. BranchViews' = BranchesShow(rows', branches') /\ BranchViews = BranchesShow(rows, branches)
  BY ViewsNow, ViewsThen
<1> QED
  BY <1>1, <1>2

LEMMA SaveStep ==
  ASSUME VersionTyped, HeadExists, Sqlite, NEW p \in Callers, VersionStep(p), SqliteCommit(p), ~Refused(p)
  PROVE  Views!Save
<1>1. /\ head = call[p].parent /\ (call[p].parent # NULL /\ attached # NULL => branches[attached] = call[p].parent)
      /\ head' = Next1 /\ attached' = attached
      /\ branches' = IF call[p].parent # NULL /\ attached # NULL THEN [branches EXCEPT ![attached] = Next1] ELSE branches
  BY DEF SqliteCommit, BranchIs, MoveBranch
<1>2. attached # NULL => head # NULL /\ branches[attached] = head /\ attached \in Branches
  BY <1>1 DEF HeadExists, VersionTyped, Opt
<1>3. Inserted(CallRow(call[p])) /\ Next1 = made + 1 /\ made + 1 \in Commits /\ made + 1 # NULL
  BY InsertsRow, AbsentAssumption DEF Inserted
<1>4. PICK t : t = Tree(rows', made + 1)
  OBVIOUS
<1>5. HeadView' = t
  BY <1>1, <1>3, <1>4, ViewsThen DEF HeadShows
<1>6. KeptViews' = KeptViews \cup {t}
  BY <1>3, <1>4, ViewsNow, ViewsThen, InsertShows
<1>7. BranchViews' = IF attached = NULL THEN BranchViews ELSE [BranchViews EXCEPT ![attached] = t]
  <2>1. CASE attached = NULL
    <3>1. branches' = branches
      BY <1>1, <2>1
    <3> QED
      BY <1>3, <2>1, <3>1, ViewsNow, ViewsThen, BranchesShowOn
  <2>2. CASE attached # NULL
    <3>1. branches' = [branches EXCEPT ![attached] = made + 1]
      BY <1>1, <1>2, <1>3, <2>2
    <3> QED
      BY <1>2, <1>3, <1>4, <2>2, <3>1, ViewsNow, ViewsThen, BranchesShowOn
  <2> QED
    BY <2>1, <2>2
<1>8. t \in Trees
  BY <1>3, <1>4, ViewsThen, AliveTrees
<1>9. attached # NULL => BranchViews[attached] = HeadView
  BY <1>2, ViewsNow DEF BranchesShow, HeadShows
<1>10. Attachment = attached /\ Attachment' = attached
  BY <1>1, ViewsNow, ViewsThen
<1> QED
  BY <1>5, <1>6, <1>7, <1>8, <1>9, <1>10 DEF Views!Save

\* The trees of the names, when no commit comes or goes.
LEMMA SameRows ==
  ASSUME VersionTyped, Sqlite, NEW p \in Callers, VersionStep(p), rows' = rows
  PROVE  /\ KeptViews' = KeptViews /\ BranchViews' = BranchesShow(rows, branches') /\ HeadView' = HeadShows(rows, head')
         /\ Attachment' = attached' /\ Attachment = attached
BY ViewsNow, ViewsThen

LEMMA NameStep ==
  ASSUME VersionTyped, Linked, Sqlite, NEW p \in Callers, VersionStep(p), CreateBranch(p), ~Refused(p)
  PROVE  Views!Name(call[p].name) /\ call[p].name \in Branches
<1>1. PICK b \in Branches, c \in Commits : b = call[p].name /\ c = call[p].at
  BY CallOf, CallKinds DEF CreateBranch, Finishes, BranchCalls
<1>2. /\ branches[b] = NULL /\ branches' = [branches EXCEPT ![b] = c]
      /\ UNCHANGED <<rows, head, attached>> /\ call[p].op = "branch"
  BY <1>1 DEF CreateBranch, BranchIs, MoveBranch, Finishes
<1>3. rows[c] # NULL
  BY <1>1, <1>2 DEF Linked, CallLinked
<1>4. PICK t : t = Tree(rows, c)
  OBVIOUS
<1>5. t \in KeptViews
  BY <1>3, <1>4, ViewsNow, RefsAre DEF AliveShow, Alive, Graphs
<1>6. BranchViews[b] = NULL
  BY <1>2, ViewsNow DEF BranchesShow
<1>7. BranchViews' = [BranchViews EXCEPT ![b] = t]
  BY <1>2, <1>4, BranchMoves
<1>8. UNCHANGED <<HeadView, Attachment, KeptViews>>
  BY <1>2, SameRows, ViewsNow
<1> QED
  BY <1>1, <1>5, <1>6, <1>7, <1>8 DEF Views!Name

LEMMA DropStep ==
  ASSUME VersionTyped, Sqlite, NEW p \in Callers, VersionStep(p), DeleteBranch(p)
  PROVE  \E b \in Branches : Views!Drop(b)
<1>1. PICK b \in Branches : attached # b /\ branches' = [branches EXCEPT ![b] = NULL]
  BY DEF DeleteBranch, MoveBranch
<1>2. UNCHANGED <<rows, head, attached>>
  BY DEF DeleteBranch, Starts
<1>3. BranchViews' = [BranchViews EXCEPT ![b] = NULL]
  BY <1>1, <1>2, ViewsNow, ViewsThen, BranchesShowOn
<1>4. UNCHANGED <<HeadView, Attachment, KeptViews>> /\ Attachment # b
  BY <1>1, <1>2, SameRows, ViewsNow
<1> QED
  BY <1>3, <1>4 DEF Views!Drop

LEMMA SelectStep ==
  ASSUME VersionTyped, Sqlite, NEW p \in Callers, VersionStep(p), SqliteSwitchHead(p), ~Refused(p)
  PROVE  \E b \in Branches : Views!Select(b)
<1>1. PICK b \in Branches, c \in Commits : b = call[p].name /\ c = call[p].to
  BY CallOf, CallKinds DEF SqliteSwitchHead, Finishes, SwitchCalls
<1>2. /\ branches[b] # NULL /\ rows[c] # NULL /\ head' = c /\ attached' = b /\ UNCHANGED <<rows, branches>>
  BY <1>1 DEF SqliteSwitchHead
<1>3. c # NULL /\ Tree(rows, c) \in KeptViews
  BY <1>2, ViewsNow, RefsAre, AbsentAssumption DEF AliveShow, Alive, Graphs
<1>4. HeadView' \in KeptViews
  BY <1>2, <1>3, SameRows DEF HeadShows
<1>5. BranchViews[b] # NULL
  <2>1. branches[b] \in Commits
    BY <1>2, RefsAre
  <2> QED
    BY <1>2, <2>1, ViewsNow, RefsAre, AliveTrees DEF BranchesShow
<1>6. Attachment' = b /\ UNCHANGED <<BranchViews, KeptViews>>
  BY <1>2, SameRows, ViewsNow
<1> QED
  BY <1>4, <1>5, <1>6 DEF Views!Select

LEMMA CombineStep ==
  ASSUME VersionTyped, Linked, Sqlite, NEW p \in Callers, VersionStep(p), FastForward(p) \/ Merge(p), ~Refused(p)
  PROVE  \E b \in Branches : Views!Combine(b)
<1>1. PICK b \in Branches, ours \in Commits, theirs \in Commits :
        b = call[p].into /\ ours = call[p].ours /\ theirs = call[p].theirs /\ call[p].op = "merge"
  BY CallOf, CallKinds DEF FastForward, Merge, Finishes, MergeCalls
<1>2. branches[b] = ours /\ head = ours /\ attached' = attached
  BY <1>1 DEF FastForward, Merge, MergeHolds, BranchIs
<1>3. rows \in Graphs /\ Older(rows) /\ NULL \notin Commits
  BY RefsAre, AbsentAssumption
<1>4. PICK mine \in Trees, other \in Trees : mine = Tree(rows, ours) /\ other = Tree(rows, theirs) /\ mine # NULL
  BY <1>3, AliveTrees
<1>5. BranchViews[b] = mine /\ HeadView = mine
  BY <1>2, <1>3, <1>4, ViewsNow DEF BranchesShow, HeadShows
<1>6. other \in KeptViews
  <2>1. rows[theirs] # NULL
    BY <1>1 DEF Linked, CallLinked
  <2> QED
    BY <1>3, <1>4, <2>1, ViewsNow DEF AliveShow, Alive, Graphs
<1>7. PICK t \in Trees : /\ HeadView' = t /\ BranchViews' = [BranchViews EXCEPT ![b] = t] /\ KeptViews' = KeptViews \cup {t}
                         /\ Mixes(t, mine, other)
  <2>1. CASE FastForward(p)
    <3>1. head' = theirs /\ branches' = [branches EXCEPT ![b] = theirs] /\ rows' = rows
      BY <1>1, <2>1 DEF FastForward, MoveBranch
    <3>2. HeadView' = other
      BY <1>3, <1>4, <3>1, SameRows DEF HeadShows
    <3>3. BranchViews' = [BranchViews EXCEPT ![b] = other]
      BY <1>4, <3>1, BranchMoves
    <3>4. KeptViews' = KeptViews \cup {other}
      BY <1>6, <3>1, SameRows
    <3>5. Mixes(other, mine, other)
      BY DEF Mixes
    <3> QED
      BY <3>2, <3>3, <3>4, <3>5
  <2>2. CASE Merge(p)
    <3>1. head' = Next1 /\ branches' = [branches EXCEPT ![b] = Next1] /\ call[p].row # NULL
      BY <1>1, <2>2 DEF Merge, MoveBranch
    <3>2. Inserted(call[p].row) /\ Next1 = made + 1 /\ made + 1 \in Commits
      BY <1>1, <2>2, InsertsRow DEF CallRow, Inserted
    <3>3. PICK t : t = Tree(rows', made + 1)
      OBVIOUS
    <3>4. t \in Trees
      BY <3>2, <3>3, ViewsThen, AliveTrees
    <3>5. HeadView' = t
      BY <1>3, <3>1, <3>2, <3>3, ViewsThen DEF HeadShows
    <3>6. BranchViews' = [BranchViews EXCEPT ![b] = t]
      BY <3>1, <3>2, <3>3, BranchMoves
    <3>7. KeptViews' = KeptViews \cup {t}
      BY <3>2, <3>3, ViewsNow, ViewsThen, InsertShows
    <3>8. Mixes(t, mine, other)
      <4>1. t = RowTree(rows, call[p].row)
        BY <3>2, <3>3, InsertShows
      <4> QED
        BY <1>1, <1>4, <3>1, <4>1 DEF Linked, CallLinked
    <3> QED
      BY <3>4, <3>5, <3>6, <3>7, <3>8
  <2> QED
    BY <2>1, <2>2
<1>8. \A u \in DOMAIN other : t[u] \in {mine[u], other[u]}
  BY <1>4, <1>7 DEF Trees, Mixes
<1>9. Attachment' = Attachment
  BY <1>2, ViewsNow, ViewsThen
<1> QED
  BY <1>4, <1>5, <1>6, <1>7, <1>8, <1>9 DEF Views!Combine


LEMMA RewriteStep ==
  ASSUME VersionTyped, Linked, Sqlite, NEW p \in Callers, VersionStep(p), CherryPick(p) \/ Rebase(p), ~Refused(p)
  PROVE  \E b \in Branches : Views!Rewrite(b)
<1>0. NULL \notin Commits /\ Editing
  BY AbsentAssumption DEF CherryPick, Rebase, Finishes, Editing
<1>1. PICK b \in Branches : b = call[p].branch
  BY CallOf, CallKinds DEF CherryPick, Rebase, Finishes, PickCalls, RebaseCalls
<1>2. BranchViews[b] # NULL
  <2>1. branches[b] \in Commits
    <3>1. CASE CherryPick(p)
      BY <1>1, <3>1, CallOf, CallKinds DEF CherryPick, Finishes, PickCalls, BranchIs
    <3>2. CASE Rebase(p)
      BY <1>1, <3>2, CallOf, CallKinds DEF Rebase, Finishes, RebaseCalls, BranchIs
    <3> QED
      BY <3>1, <3>2
  <2> QED
    BY <1>0, <2>1, ViewsNow, RefsAre, AliveTrees DEF BranchesShow
<1>3. attached' = attached
  BY DEF CherryPick, Rebase
<1>4. PICK t \in Trees : /\ BranchViews' = [BranchViews EXCEPT ![b] = t] /\ KeptViews' = KeptViews \cup {t}
                         /\ HeadView' = HeadView \/ (attached = b /\ HeadView' = t)
  <2>1. CASE CherryPick(p)
    <3>1. /\ branches' = [branches EXCEPT ![b] = Next1] /\ call[p].op = "pick"
          /\ head' = head \/ (head' = Next1 /\ attached = b)
      BY <1>1, <2>1 DEF CherryPick, MoveBranch, Finishes
    <3>2. Inserted(call[p].row) /\ Next1 = made + 1 /\ made + 1 \in Commits
      BY <2>1, <3>1, InsertsRow DEF CallRow, Inserted
    <3>3. PICK t : t = Tree(rows', made + 1)
      OBVIOUS
    <3>4. t \in Trees
      BY <3>2, <3>3, ViewsThen, AliveTrees
    <3>5. HeadView' = HeadView \/ (attached = b /\ HeadView' = t)
      <4>1. CASE head' = head
        BY <3>2, <4>1, ViewsNow, ViewsThen, BranchesShowOn
      <4>2. CASE head' = Next1 /\ attached = b
        BY <1>0, <3>2, <3>3, <4>2, ViewsThen DEF HeadShows
      <4> QED
        BY <3>1, <4>1, <4>2
    <3>6. BranchViews' = [BranchViews EXCEPT ![b] = t]
      BY <3>1, <3>2, <3>3, BranchMoves
    <3>7. KeptViews' = KeptViews \cup {t}
      BY <3>2, <3>3, ViewsNow, ViewsThen, InsertShows
    <3> QED
      BY <3>4, <3>5, <3>6, <3>7
  <2>2. CASE Rebase(p)
    <3>1. PICK c : c = call[p].target
      OBVIOUS
    <3>2. /\ branches' = [branches EXCEPT ![b] = c] /\ rows' = rows /\ head' = head /\ c \in Commits
          /\ call[p].op = "rebase" /\ call[p].todo = <<>>
      BY <1>1, <2>2, <3>1, CallOf, CallKinds DEF Rebase, MoveBranch, Finishes, RebaseCalls
    <3>3. rows[c] # NULL
      BY <3>1, <3>2 DEF Linked, CallLinked
    <3>4. PICK t : t = Tree(rows, c)
      OBVIOUS
    <3>5. t \in KeptViews /\ t \in Trees
      BY <3>2, <3>3, <3>4, ViewsNow, RefsAre, AliveTrees DEF AliveShow, Alive, Graphs
    <3>6. BranchViews' = [BranchViews EXCEPT ![b] = t]
      BY <3>2, <3>4, BranchMoves
    <3>7. KeptViews' = KeptViews \cup {t} /\ HeadView' = HeadView
      BY <3>2, <3>5, SameRows, ViewsNow
    <3> QED
      BY <3>5, <3>6, <3>7
  <2> QED
    BY <2>1, <2>2
<1>5. Attachment' = Attachment /\ Attachment = attached
  BY <1>3, ViewsNow, ViewsThen
<1>6. BranchViews'[b] = t
  BY <1>4 DEF BranchViews
<1>7. BranchViews' = [BranchViews EXCEPT ![b] = BranchViews'[b]]
  BY <1>4, <1>6
<1> QED
  BY <1>0, <1>2, <1>4, <1>5, <1>6, <1>7 DEF Views!Rewrite

\* Commits come and go, and no name shows anything else: what names show is kept.
LEMMA PileStep ==
  ASSUME VersionTyped, HeadExists, Linked, Sqlite, NEW p \in Callers, VersionStep(p), HeadExists', Linked',
         UNCHANGED <<BranchViews, HeadView, Attachment>>, KeptViews \subseteq KeptViews' \/ KeptViews' \subseteq KeptViews
  PROVE  Views!Pile
<1>1. VersionTyped' /\ Sqlite'
  BY StepTyped, RowsChange DEF Sqlite
<1>2. \A c \in Commits : rows'[c] # NULL => Tree(rows', c) \in AliveShow(rows')
  BY ViewsThen DEF AliveShow, Alive, Graphs
<1>3. (head' # NULL => head' \in Commits) /\ \A b \in Branches : branches'[b] # NULL => branches'[b] \in Commits
  <2>1. \A c \in 1..made' : c \in Commits
    <3>1. made' \in 0..MaxCommits
      BY <1>1 DEF VersionTyped
    <3> QED
      BY <3>1, GraphAssumption DEF Commits
  <2> QED
    BY <1>1, <2>1 DEF VersionTyped, Opt
<1>4. \A b \in Branches : BranchesShow(rows', branches')[b] \in Opt(AliveShow(rows'))
  BY <1>1, <1>2, <1>3 DEF Linked, BranchesShow, Opt
<1>5. HeadShows(rows', head') \in Opt(AliveShow(rows'))
  BY <1>1, <1>2, <1>3 DEF HeadExists, HeadShows, Opt
<1>6. Range(BranchViews) \subseteq Opt(KeptViews')
  BY <1>4, ViewsThen, ViewsNow DEF Range, BranchesShow
<1>7. HeadView \in Opt(KeptViews') /\ KeptViews' \subseteq Trees
  BY <1>5, ViewsThen, AliveTrees
<1> QED
  BY <1>6, <1>7 DEF Views!Pile, Views!Opt, Opt, Views!Range, Range


LEMMA PilesUp ==
  ASSUME VersionTyped, HeadExists, Linked, Sqlite, NEW p \in Callers, VersionStep(p), HeadExists', Linked',
         Still \/ (~Refused(p) /\ (CreateTag(p) \/ RebaseStep(p) \/ SqliteSquash(p) \/ SqliteGc(p)))
  PROVE  Views!Pile
<1>1. CASE Still \/ CreateTag(p)
  <2>1. UNCHANGED <<rows, head, attached, branches>>
    BY <1>1 DEF Still, CreateTag, refs
  <2>2. UNCHANGED <<BranchViews, HeadView, Attachment, KeptViews>>
    BY <2>1, SameRows, ViewsNow
  <2> QED
    BY <2>2, PileStep
<1>2. CASE RebaseStep(p) /\ ~Refused(p)
  <2>1. Inserted(CallRow(call[p])) /\ UNCHANGED <<head, attached, branches>>
    BY <1>2, InsertsRow, RebaseStepIs DEF refs
  <2>2. UNCHANGED <<BranchViews, HeadView, Attachment>>
    BY <2>1, ViewsNow, ViewsThen, BranchesShowOn
  <2>3. KeptViews \subseteq KeptViews'
    BY <2>1, ViewsNow, ViewsThen, InsertShows
  <2> QED
    BY <2>2, <2>3, PileStep
<1>3. CASE SqliteSquash(p) /\ ~Refused(p)
  <2>1. PICK tip \in 1..made : tip = call[p].tip /\ call[p].op = "squash"
    BY <1>3, CallOf DEF SqliteSquash, Finishes, CallMade
  <2>2. /\ branches' = [b \in Branches |-> IF branches[b] = tip THEN made + 1 ELSE branches[b]]
        /\ head' = IF head = tip THEN made + 1 ELSE head
        /\ attached' = attached
    BY <1>3, <2>1 DEF SqliteSquash, Next1
  <2>3. Inserted(call[p].row) /\ made + 1 \in Commits /\ NULL \notin Commits /\ tip \in Commits
    BY <1>3, <2>1, InsertsRow, AbsentAssumption, RefsAre DEF CallRow, Inserted
  <2>4. Tree(rows', made + 1) = Tree(rows, tip) /\ \A c \in 1..made : Tree(rows', c) = Tree(rows, c)
    BY <2>1, <2>3, InsertShows DEF Linked, CallLinked
  <2>5. BranchesShow(rows', branches') = BranchesShow(rows, branches)
    <3>1. \A b \in Branches : branches[b] # NULL => Tree(rows', branches[b]) = Tree(rows, branches[b])
      BY <2>4, RefsAre
    <3>2. ASSUME NEW b \in Branches
          PROVE  (IF branches'[b] = NULL THEN NULL ELSE Tree(rows', branches'[b]))
                   = (IF branches[b] = NULL THEN NULL ELSE Tree(rows, branches[b]))
      <4>1. CASE branches[b] = tip
        BY <2>2, <2>3, <2>4, <4>1
      <4>2. CASE branches[b] # tip
        BY <2>2, <3>1, <4>2
      <4> QED
        BY <4>1, <4>2
    <3> QED
      BY <3>2 DEF BranchesShow
  <2>6. HeadShows(rows', head') = HeadShows(rows, head)
    <3>1. head # NULL => Tree(rows', head) = Tree(rows, head)
      BY <2>4, RefsAre
    <3>2. CASE head = tip
      BY <2>2, <2>3, <2>4, <3>2 DEF HeadShows
    <3>3. CASE head # tip
      BY <2>2, <3>1, <3>3 DEF HeadShows
    <3> QED
      BY <3>2, <3>3
  <2>7. UNCHANGED <<BranchViews, HeadView, Attachment>>
    BY <2>2, <2>5, <2>6, ViewsNow, ViewsThen
  <2>8. KeptViews \subseteq KeptViews'
    BY <2>3, ViewsNow, ViewsThen, InsertShows
  <2> QED
    BY <2>7, <2>8, PileStep
<1>4. CASE SqliteGc(p) /\ ~Refused(p)
  <2>1. UNCHANGED <<head, attached, branches>>
    BY <1>4 DEF SqliteGc, refs
  <2>2. \A c \in Commits : rows[c] # NULL /\ rows'[c] # NULL => Tree(rows', c) = Tree(rows, c)
    BY SnapshotKept
  <2>3. head # NULL => head \in Commits /\ rows[head] # NULL /\ rows'[head] # NULL
    BY <2>1, RowsChange, RefsAre DEF HeadExists, Sqlite
  <2>4. ASSUME NEW b \in Branches, branches[b] # NULL
        PROVE  branches[b] \in Commits /\ rows[branches[b]] # NULL /\ rows'[branches[b]] # NULL
    BY <2>1, <2>4, RowsChange, RefsAre DEF Linked, Sqlite
  <2>5. BranchesShow(rows', branches') = BranchesShow(rows, branches)
    BY <2>1, <2>2, <2>4 DEF BranchesShow
  <2>6. HeadShows(rows', head') = HeadShows(rows, head)
    BY <2>1, <2>2, <2>3 DEF HeadShows
  <2>7. UNCHANGED <<BranchViews, HeadView, Attachment>>
    BY <2>1, <2>5, <2>6, ViewsNow, ViewsThen
  <2>8. \A c \in Alive(rows') : c \in Commits /\ rows'[c] # NULL /\ c \in Alive(rows)
    <3>1. Alive(rows') \subseteq Commits
      BY ViewsThen, AliveTrees
    <3>2. \A c \in Commits : rows'[c] # NULL => rows[c] # NULL
      BY <1>4 DEF SqliteGc
    <3> QED
      BY <3>1, <3>2, RefsAre DEF Alive, Graphs
  <2>9. AliveShow(rows') \subseteq AliveShow(rows)
    BY <2>2, <2>8 DEF AliveShow, Alive
  <2>10. KeptViews' \subseteq KeptViews
    BY <2>9, ViewsNow, ViewsThen
  <2> QED
    BY <2>7, <2>10, PileStep
<1> QED
  BY <1>1, <1>2, <1>3, <1>4

ViewsInv == VersionTyped /\ HeadExists /\ GcExclusive /\ Linked

LEMMA ViewsInvStep ==
  ASSUME ViewsInv, GcAlone, NEW p \in Callers, VersionStep(p)
  PROVE  VersionTyped' /\ HeadExists' /\ GcExclusive' /\ Linked'
BY StepTyped, StepHead, StepExclusive, StepLinked DEF ViewsInv

LEMMA ViewsStep ==
  ASSUME ViewsInv, GcAlone, NEW p \in Callers, VersionStep(p)
  PROVE  Views!ViewsNext \/ UNCHANGED Views!viewVars
<1>1. VersionTyped /\ HeadExists /\ Linked /\ VersionTyped' /\ HeadExists' /\ Linked' /\ Sqlite' = Sqlite
  BY ViewsInvStep, RowsChange DEF ViewsInv, Sqlite
<1>2. CASE ~Sqlite
  <2>1. /\ BranchViews = [b \in Branches |-> NULL] /\ HeadView = NULL /\ Attachment = NULL
        /\ KeptViews = {} /\ Editing = FALSE
    BY <1>2 DEF BranchViews, HeadView, Attachment, KeptViews, Editing, Shown
  <2>2. /\ BranchViews' = [b \in Branches |-> NULL] /\ HeadView' = NULL /\ Attachment' = NULL
        /\ KeptViews' = {} /\ Editing' = FALSE
    BY <1>1, <1>2 DEF BranchViews, HeadView, Attachment, KeptViews, Editing, Shown
  <2> QED
    BY <2>1, <2>2 DEF Views!viewVars
<1>3. CASE Sqlite
  <2>1. Editing' \in BOOLEAN
    BY DEF Editing
  <2>2. \/ Views!Save \/ Views!Pile
        \/ \E b \in Branches : Views!Name(b) \/ Views!Drop(b) \/ Views!Select(b) \/ Views!Combine(b) \/ Views!Rewrite(b)
    <3>1. CASE Still \/ (~Refused(p) /\ (CreateTag(p) \/ RebaseStep(p) \/ SqliteSquash(p) \/ SqliteGc(p)))
      BY <1>1, <1>3, <3>1, PilesUp
    <3>2. CASE ~Refused(p) /\ SqliteCommit(p)
      BY <1>1, <1>3, <3>2, SaveStep
    <3>3. CASE ~Refused(p) /\ CreateBranch(p)
      BY <1>1, <1>3, <3>3, NameStep
    <3>4. CASE DeleteBranch(p)
      BY <1>1, <1>3, <3>4, DropStep
    <3>5. CASE ~Refused(p) /\ SqliteSwitchHead(p)
      BY <1>1, <1>3, <3>5, SelectStep
    <3>6. CASE ~Refused(p) /\ (FastForward(p) \/ Merge(p))
      BY <1>1, <1>3, <3>6, CombineStep
    <3>7. CASE ~Refused(p) /\ (CherryPick(p) \/ Rebase(p))
      BY <1>1, <1>3, <3>7, RewriteStep
    <3>8. ~PgCommit(p) /\ ~PgSwitchHead(p) /\ ~PgSquash(p) /\ ~PgGc(p)
      BY <1>3 DEF PgCommit, PgSwitchHead, PgSquash, PgGc
    <3> QED
      BY <3>1, <3>2, <3>3, <3>4, <3>5, <3>6, <3>7, <3>8, StillSteps, Zenon DEF Moving
  <2> QED
    BY <2>1, <2>2 DEF Views!ViewsNext
<1> QED
  BY <1>2, <1>3

LEMMA InitViews ==
  ASSUME VersionInit
  PROVE  ViewsInv /\ Views!ViewsInit
<1>1. VersionTyped /\ HeadExists
  BY InitTyped, InitLinked
<1>2. \A p \in Callers : call[p] = Idle
  BY DEF VersionInit
<1>3. GcExclusive /\ Editing = FALSE /\ \A p \in Callers : CallLinked(rows, call[p]) /\ call[p].op # "gc"
  BY <1>2 DEF GcExclusive, Editing, CallLinked, Idle
<1>4. CASE ~Sqlite
  <2>1. /\ BranchViews = [b \in Branches |-> NULL] /\ HeadView = NULL /\ Attachment = NULL /\ KeptViews = {}
    BY <1>4 DEF BranchViews, HeadView, Attachment, KeptViews, Shown
  <2> QED
    BY <1>1, <1>3, <1>4, <2>1 DEF ViewsInv, Linked, Views!ViewsInit
<1>5. CASE Empty /\ Sqlite
  <2>1. Linked
    BY <1>3, <1>5 DEF Empty, Linked
  <2>2. /\ BranchViews = [b \in Branches |-> NULL] /\ HeadView = NULL /\ Attachment = NULL
    BY <1>5 DEF Empty, BranchViews, HeadView, Attachment, Shown
  <2>3. KeptViews = {}
    BY <1>5 DEF Empty, KeptViews, Alive
  <2> QED
    BY <1>1, <1>3, <2>1, <2>2, <2>3 DEF ViewsInv, Views!ViewsInit
<1>6. CASE Forked /\ Sqlite
  <2>1. 1 \in Commits /\ 1 # NULL
    BY GraphAssumption, AbsentAssumption DEF Commits
  <2>2. head = 1 /\ attached \in Branches /\ branches = [b \in Branches |-> 1] /\ \A c \in Commits : c # 1 => rows[c] = NULL
    BY <1>6 DEF Forked
  <2>3. rows[1] # NULL
    BY <1>1, <1>6, <2>1, <2>2 DEF HeadExists
  <2>4. Linked
    BY <1>3, <2>2, <2>3 DEF Linked
  <2>5. PICK t \in Trees : t = Tree(rows, 1)
    BY <1>1, <2>1, RefsAre, AliveTrees
  <2>6. BranchViews = [b \in Branches |-> t] /\ HeadView = t /\ Attachment = attached
    BY <1>1, <1>6, <2>1, <2>2, <2>5, ViewsNow DEF BranchesShow, HeadShows
  <2>7. KeptViews = {t}
    <3>1. Alive(rows) = {1}
      BY <1>1, <2>1, <2>2, <2>3, RefsAre DEF Alive, Graphs
    <3> QED
      BY <1>1, <1>6, <2>5, <3>1, ViewsNow DEF AliveShow
  <2> QED
    BY <1>1, <1>3, <2>2, <2>4, <2>5, <2>6, <2>7 DEF ViewsInv, Views!ViewsInit
<1> QED
  BY <1>4, <1>5, <1>6 DEF VersionInit

(* A SQLite store in which gc runs alone implements the store of named snapshots:   *)
(* squash, gc, tags and the steps of a rebase change nothing that a branch or HEAD  *)
(* shows; a commit shows in HEAD and the attached branch together; a merge takes    *)
(* every URI from one of its sides; only a pick or a rebase rewrites a branch.      *)
THEOREM StoreShowsSnapshots ==
  ASSUME GcAlone
  PROVE  VersionSpec => ViewsRefined
<1>1. VersionInit => ViewsInv /\ Views!ViewsInit
  BY InitViews
<1>2. ViewsInv /\ [VersionNext]_versionVars => ViewsInv'
  <2>1. ASSUME ViewsInv, NEW p \in Callers, VersionStep(p) PROVE ViewsInv'
    BY <2>1, ViewsInvStep DEF ViewsInv
  <2>2. ASSUME ViewsInv, UNCHANGED versionVars PROVE ViewsInv'
    BY <2>2, NextTyped, StutterLinked, StutterKnown DEF ViewsInv, Linked, versionVars, Sqlite
  <2> QED
    BY <2>1, <2>2 DEF VersionNext
<1>3. ViewsInv /\ [VersionNext]_versionVars => [Views!ViewsNext]_Views!viewVars
  <2>1. ASSUME ViewsInv, NEW p \in Callers, VersionStep(p) PROVE Views!ViewsNext \/ UNCHANGED Views!viewVars
    BY <2>1, ViewsStep
  <2>2. ASSUME UNCHANGED versionVars PROVE UNCHANGED Views!viewVars
    BY <2>2 DEF versionVars, Views!viewVars, BranchViews, HeadView, KeptViews, Attachment, Editing, Shown, Sqlite, Alive
  <2> QED
    BY <2>1, <2>2 DEF VersionNext
<1> QED
  BY <1>1, <1>2, <1>3, PTL DEF VersionSpec, ViewsRefined, Views!ViewsSpec

-----------------------------------------------------------------------------
(* The merge base.                                                           *)

(* A sequence of values each of which is a function of the one before. *)
Iterates(f, start, step, n) == f[0] = start /\ \A k \in 1..n : f[k] = step[<<k, f[k - 1]>>]

LEMMA Iterated ==
  ASSUME NEW V, NEW start \in V, NEW step \in [Nat \X V -> V], NEW n \in Nat
  PROVE  \E f \in [0..n -> V] : Iterates(f, start, step, n)
<1> USE DEF Iterates
<1> DEFINE Runs(f, m) == f[0] = start /\ \A k \in 1..m : f[k] = step[<<k, f[k - 1]>>]
           Bad == {m \in Nat : ~\E f \in [0..m -> V] : Runs(f, m)}
<1>1. ASSUME Bad # {} PROVE FALSE
  <2>1. PICK m \in Bad : \A x \in Bad : m <= x
    <3>1. Bad \in SUBSET Nat
      OBVIOUS
    <3> HIDE DEF Bad
    <3> QED
      BY <1>1, <3>1, LeastElement
  <2>2. m # 0
    <3>1. PICK f : f = [k \in 0..0 |-> start]
      OBVIOUS
    <3>2. f \in [0..0 -> V] /\ Runs(f, 0)
      BY <3>1
    <3> QED
      BY <3>2
  <2>3. m \in Nat /\ m - 1 \in Nat /\ m - 1 \notin Bad
    <3>1. m \in Nat
      OBVIOUS
    <3> HIDE DEF Bad
    <3> QED
      BY <2>1, <2>2, <3>1
  <2>4. PICK f \in [0..(m - 1) -> V] : Runs(f, m - 1)
    BY <2>3
  <2>5. PICK g : g = [k \in 0..m |-> IF k = m THEN step[<<m, f[m - 1]>>] ELSE f[k]]
    OBVIOUS
  <2>6. f[m - 1] \in V /\ step[<<m, f[m - 1]>>] \in V
    BY <2>3
  <2>7. g \in [0..m -> V] /\ g[m] = step[<<m, f[m - 1]>>] /\ \A k \in 0..(m - 1) : g[k] = f[k]
    BY <2>2, <2>3, <2>5, <2>6
  <2>8. g[0] = start /\ \A k \in 1..(m - 1) : g[k] = step[<<k, g[k - 1]>>]
    BY <2>2, <2>3, <2>4, <2>7
  <2>9. Runs(g, m)
    <3>0. m - 1 \in 0..(m - 1)
      BY <2>3
    <3>1. g[m - 1] = f[m - 1] /\ g[m] = step[<<m, g[m - 1]>>]
      BY <2>7, <3>0, Zenon
    <3>2. \A k \in 1..m : k = m \/ k \in 1..(m - 1)
      BY <2>3
    <3>3. \A k \in 1..m : g[k] = step[<<k, g[k - 1]>>]
      BY <2>8, <3>1, <3>2
    <3> QED
      BY <2>8, <3>3
  <2> QED
    BY <2>7, <2>9
<1>2. n \notin Bad
  <2> HIDE DEF Bad
  <2> QED
    BY <1>1
<1> QED
  BY <1>2

LEMMA MinIs ==
  ASSUME NEW T \in SUBSET Nat, T # {}
  PROVE  Min(T) \in T /\ \A y \in T : Min(T) <= y
BY LeastElement DEF Min

(* FlattenSeq holds what its parts hold. *)
LEMMA FlatIs ==
  ASSUME NEW V, NEW ss \in Seq(Seq(V))
  PROVE  /\ FlattenSeq(ss) \in Seq(V)
         /\ \A x : x \in Range(FlattenSeq(ss)) <=> \E i \in 1..Len(ss) : x \in Range(ss[i])
<1> DEFINE n == Len(ss)
           Next(k, s) == IF k \in 1..n THEN s \o ss[k] ELSE s
           Joined(f) == f = [i \in 1..n |-> IF i = 1 THEN ss[i] ELSE f[i - 1] \o ss[i]]
<1>0. n \in Nat /\ \A i \in 1..n : ss[i] \in Seq(V)
  OBVIOUS
<1>1. CASE n = 0
  <2>1. FlattenSeq(ss) = ss /\ ss = <<>>
    BY <1>1 DEF FlattenSeq
  <2>2. Range(ss) = {}
    BY <2>1 DEF Range
  <2> QED
    BY <1>1, <2>1, <2>2
<1>2. CASE n # 0
  <2>1. PICK f \in [0..n -> Seq(V)] : f[0] = <<>> /\ \A k \in 1..n : f[k] = f[k - 1] \o ss[k]
    <3>1. PICK step : step = [q \in Nat \X Seq(V) |-> Next(q[1], q[2])]
      OBVIOUS
    <3>2. ASSUME NEW k \in Nat, NEW s \in Seq(V) PROVE Next(k, s) \in Seq(V)
      BY <1>0
    <3>3. step \in [Nat \X Seq(V) -> Seq(V)] /\ \A k \in Nat, s \in Seq(V) : step[<<k, s>>] = Next(k, s)
      <4> HIDE DEF Next
      <4> QED
        BY <3>1, <3>2
    <3>4. <<>> \in Seq(V)
      OBVIOUS
    <3>5. PICK f \in [0..n -> Seq(V)] : f[0] = <<>> /\ \A k \in 1..n : f[k] = step[<<k, f[k - 1]>>]
      <4>1. PICK f \in [0..n -> Seq(V)] : Iterates(f, <<>>, step, n)
        <5> HIDE DEF n, Next
        <5> QED
          BY <1>0, <3>3, <3>4, Iterated
      <4> QED
        BY <4>1 DEF Iterates
    <3>6. ASSUME NEW k \in 1..n PROVE f[k] = f[k - 1] \o ss[k]
      <4>1. k \in Nat /\ k - 1 \in 0..n
        BY <1>0
      <4>2. f[k - 1] \in Seq(V)
        <5> HIDE DEF n
        <5> QED
          BY <3>5, <4>1, Zenon
      <4> QED
        BY <3>3, <3>5, <4>1, <4>2
    <3> QED
      BY <3>5, <3>6
  <2>2. PICK h : h = [i \in 1..n |-> f[i]]
    OBVIOUS
  <2>3. Joined(h)
    <3>1. ASSUME NEW i \in 1..n PROVE h[i] = IF i = 1 THEN ss[i] ELSE h[i - 1] \o ss[i]
      <4>1. CASE i = 1
        <5>1. 1 \in 1..n /\ f[0] = <<>> /\ f[1] = f[0] \o ss[1] /\ ss[1] \in Seq(V)
          <6>1. 1 \in 1..n /\ 1 - 1 = 0
            BY <1>0, <1>2
          <6>2. f[1] = f[1 - 1] \o ss[1]
            BY <2>1, <6>1
          <6> QED
            BY <1>0, <2>1, <6>1, <6>2
        <5>2. PICK t \in Seq(V) : t = ss[1]
          BY <5>1
        <5>3. <<>> \o t = t
          OBVIOUS
        <5> QED
          BY <2>2, <4>1, <5>1, <5>2, <5>3
      <4>2. CASE i # 1
        <5>1. i - 1 \in 1..n
          BY <1>0, <4>2
        <5>2. f[i] = f[i - 1] \o ss[i] /\ h[i] = f[i] /\ h[i - 1] = f[i - 1]
          BY <2>1, <2>2, <5>1
        <5> QED
          BY <4>2, <5>2
      <4> QED
        BY <4>1, <4>2
    <3> QED
      BY <2>2, <3>1
  <2>4. PICK F : Joined(F) /\ FlattenSeq(ss) = F[n]
    BY <1>2, <2>3 DEF FlattenSeq
  <2>5. \A i \in 1..n : F[i] = IF i = 1 THEN ss[i] ELSE F[i - 1] \o ss[i]
    BY <2>4
  <2> DEFINE Good(i) == F[i] \in Seq(V) /\ \A x : x \in Range(F[i]) <=> \E j \in 1..i : x \in Range(ss[j])
             Bad == {i \in 1..n : ~Good(i)}
  <2>6. ASSUME Bad # {} PROVE FALSE
    <3>1. PICK i \in Bad : \A j \in Bad : i <= j
      <4>1. Bad \in SUBSET Nat
        OBVIOUS
      <4> HIDE DEF Bad
      <4> QED
        BY <2>6, <4>1, LeastElement
    <3>2. i \in 1..n /\ ~Good(i)
      OBVIOUS
    <3>3. CASE i = 1
      <4>1. F[i] = ss[1] /\ ss[1] \in Seq(V)
        BY <1>0, <2>5, <3>2, <3>3
      <4> QED
        BY <3>2, <3>3, <4>1
    <3>4. CASE i # 1
      <4>1. i - 1 \in 1..n /\ i - 1 \notin Bad
        <5>1. i - 1 \in 1..n /\ ~(i <= i - 1)
          BY <1>0, <3>2, <3>4
        <5> HIDE DEF Bad
        <5> QED
          BY <3>1, <5>1
      <4>2. Good(i - 1)
        BY <4>1
      <4>3. PICK s \in Seq(V) : s = F[i - 1]
        BY <4>2
      <4>4. PICK t \in Seq(V) : t = ss[i]
        BY <1>0, <3>2
      <4>5. F[i] = s \o t
        BY <2>5, <3>2, <3>4, <4>3, <4>4
      <4>6. s \o t \in Seq(V) /\ Range(s \o t) = Range(s) \cup Range(t)
        <5>1. s \o t \in Seq(V) /\ Len(s \o t) = Len(s) + Len(t) /\ Len(s) \in Nat /\ Len(t) \in Nat
              /\ (\A k \in 1..Len(s) : (s \o t)[k] = s[k]) /\ \A k \in 1..Len(t) : (s \o t)[Len(s) + k] = t[k]
          OBVIOUS
        <5>2. DOMAIN (s \o t) = 1..(Len(s) + Len(t)) /\ DOMAIN s = 1..Len(s) /\ DOMAIN t = 1..Len(t)
          BY <5>1
        <5>3. PICK st : st = s \o t
          OBVIOUS
        <5>4. ASSUME NEW x \in Range(st) PROVE x \in Range(s) \cup Range(t)
          <6>1. PICK k \in 1..(Len(s) + Len(t)) : x = st[k]
            BY <5>2, <5>3 DEF Range
          <6>2. CASE k <= Len(s)
            BY <5>1, <5>2, <5>3, <6>1, <6>2 DEF Range
          <6>3. CASE k > Len(s)
            <7>1. k - Len(s) \in 1..Len(t) /\ Len(s) + (k - Len(s)) = k
              BY <5>1, <6>3
            <7>2. x = t[k - Len(s)]
              BY <5>1, <5>3, <6>1, <7>1
            <7> QED
              BY <5>2, <7>1, <7>2 DEF Range
          <6> QED
            BY <5>1, <6>2, <6>3
        <5>5. ASSUME NEW x \in Range(s) PROVE x \in Range(st)
          <6>1. PICK k \in 1..Len(s) : x = s[k]
            BY <5>2 DEF Range
          <6>2. k \in 1..(Len(s) + Len(t)) /\ x = st[k]
            BY <5>1, <5>3, <6>1
          <6> QED
            BY <5>2, <5>3, <6>2 DEF Range
        <5>6. ASSUME NEW x \in Range(t) PROVE x \in Range(st)
          <6>1. PICK k \in 1..Len(t) : x = t[k]
            BY <5>2 DEF Range
          <6>2. Len(s) + k \in 1..(Len(s) + Len(t)) /\ x = st[Len(s) + k]
            BY <5>1, <5>3, <6>1
          <6> QED
            BY <5>2, <5>3, <6>2 DEF Range
        <5> QED
          BY <5>1, <5>3, <5>4, <5>5, <5>6
      <4>7. ASSUME NEW x PROVE x \in Range(F[i]) <=> \E j \in 1..i : x \in Range(ss[j])
        <5>1. x \in Range(F[i]) <=> x \in Range(F[i - 1]) \/ x \in Range(ss[i])
          BY <4>3, <4>4, <4>5, <4>6
        <5>2. x \in Range(F[i - 1]) <=> \E j \in 1..(i - 1) : x \in Range(ss[j])
          BY <4>2
        <5>3. 1..i = 1..(i - 1) \cup {i}
          BY <1>0, <3>2, <3>4
        <5> QED
          BY <5>1, <5>2, <5>3
      <4> QED
        BY <3>2, <4>5, <4>6, <4>7
    <3> QED
      BY <3>3, <3>4
  <2>7. Good(n)
    <3>1. n \in 1..n
      BY <1>0, <1>2
    <3> QED
      BY <2>6, <3>1
  <2> QED
    BY <2>4, <2>7
<1> QED
  BY <1>1, <1>2

\* The commits k parents away from c, as a search meets them.
Searched(G, c, L) ==
  L = [k \in 0..MaxCommits |->
         IF k = 0 THEN <<c>> ELSE FlattenSeq([i \in DOMAIN L[k - 1] |-> Parents(G, L[k - 1][i])])]

LEMMA SearchStep ==
  ASSUME NEW G \in Graphs, NEW s \in Seq(Commits)
  PROVE  /\ FlattenSeq([i \in DOMAIN s |-> Parents(G, s[i])]) \in Seq(Commits)
         /\ Range(FlattenSeq([i \in DOMAIN s |-> Parents(G, s[i])])) = UNION {Range(Parents(G, d)) : d \in Range(s)}
<1>1. PICK n \in Nat : n = Len(s) /\ DOMAIN s = 1..n
  <2> HIDE DEF Commits
  <2> QED
    OBVIOUS
<1>2. \A i \in 1..n : s[i] \in Commits /\ Parents(G, s[i]) \in Seq(Commits)
  <2>1. \A i \in 1..n : s[i] \in Commits
    <3> HIDE DEF Commits
    <3> QED
      BY <1>1
  <2> QED
    BY <2>1, ParentsAre
<1>3. PICK ss : ss = [i \in 1..n |-> Parents(G, s[i])]
  OBVIOUS
<1>4. ss \in Seq(Seq(Commits)) /\ Len(ss) = n
  <2>1. ss \in [1..n -> Seq(Commits)]
    BY <1>2, <1>3
  <2> HIDE DEF Commits
  <2> QED
    BY <2>1
<1>5. FlattenSeq(ss) \in Seq(Commits) /\ \A x : x \in Range(FlattenSeq(ss)) <=> \E i \in 1..n : x \in Range(ss[i])
  <2> HIDE DEF Commits
  <2> QED
    BY <1>4, FlatIs
<1>6. Range(s) = {s[i] : i \in 1..n}
  BY <1>1 DEF Range
<1>7. \A x : x \in UNION {Range(Parents(G, d)) : d \in Range(s)} <=> \E i \in 1..n : x \in Range(ss[i])
  BY <1>3, <1>6
<1>8. ss = [i \in DOMAIN s |-> Parents(G, s[i])]
  BY <1>1, <1>3
<1> QED
  BY <1>5, <1>7, <1>8

LEMMA SearchIs ==
  ASSUME NEW G \in Graphs, NEW c \in Commits, NEW L, Searched(G, c, L)
  PROVE  /\ \A k \in 0..MaxCommits : L[k] \in Seq(Commits)
         /\ L[0] = <<c>>
         /\ \A k \in 1..MaxCommits : Range(L[k]) = UNION {Range(Parents(G, d)) : d \in Range(L[k - 1])}
<1>0. MaxCommits \in Nat
  BY GraphAssumption
<1>1. \A k \in 0..MaxCommits :
        L[k] = IF k = 0 THEN <<c>> ELSE FlattenSeq([i \in DOMAIN L[k - 1] |-> Parents(G, L[k - 1][i])])
  BY DEF Searched
<1>2. L[0] = <<c>> /\ <<c>> \in Seq(Commits)
  <2>1. L[0] = <<c>>
    <3>1. 0 \in 0..MaxCommits
      BY <1>0
    <3> QED
      BY <1>1, <3>1, Zenon
  <2> HIDE DEF Commits
  <2> QED
    BY <2>1
<1> DEFINE Bad == {k \in 0..MaxCommits : L[k] \notin Seq(Commits)}
<1>3. ASSUME Bad # {} PROVE FALSE
  <2>1. PICK k \in Bad : \A j \in Bad : k <= j
    <3>1. Bad \in SUBSET Nat
      OBVIOUS
    <3> HIDE DEF Bad
    <3> QED
      BY <1>3, <3>1, LeastElement
  <2>2. k \in 0..MaxCommits /\ L[k] \notin Seq(Commits)
    OBVIOUS
  <2>3. k # 0
    BY <1>2, <2>2
  <2>4. k - 1 \in 0..MaxCommits /\ k - 1 \notin Bad
    <3>1. k - 1 \in 0..MaxCommits /\ ~(k <= k - 1)
      BY <1>0, <2>2, <2>3
    <3> HIDE DEF Bad
    <3> QED
      BY <2>1, <3>1
  <2>5. L[k - 1] \in Seq(Commits)
    BY <2>4
  <2>6. L[k] = FlattenSeq([i \in DOMAIN L[k - 1] |-> Parents(G, L[k - 1][i])])
    BY <1>1, <2>2, <2>3
  <2> QED
    BY <2>2, <2>5, <2>6, SearchStep
<1>4. ASSUME NEW k \in 1..MaxCommits PROVE Range(L[k]) = UNION {Range(Parents(G, d)) : d \in Range(L[k - 1])}
  <2>1. k \in 0..MaxCommits /\ k - 1 \in 0..MaxCommits /\ k # 0
    BY <1>0
  <2>2. L[k - 1] \in Seq(Commits)
    BY <1>3, <2>1
  <2>3. L[k] = FlattenSeq([i \in DOMAIN L[k - 1] |-> Parents(G, L[k - 1][i])])
    BY <1>1, <2>1
  <2> QED
    BY <2>2, <2>3, SearchStep
<1>5. \A k \in 0..MaxCommits : L[k] \in Seq(Commits)
  BY <1>3
<1> QED
  BY <1>2, <1>4, <1>5

LEMMA SearchExists ==
  ASSUME NEW G \in Graphs, NEW c \in Commits
  PROVE  \E L : Searched(G, c, L)
<1>0. MaxCommits \in Nat
  BY GraphAssumption
<1> DEFINE After(s) == FlattenSeq([i \in DOMAIN s |-> Parents(G, s[i])])
<1>1. PICK step : step = [q \in Nat \X Seq(Commits) |-> After(q[2])]
  OBVIOUS
<1>2. step \in [Nat \X Seq(Commits) -> Seq(Commits)] /\ \A k \in Nat, s \in Seq(Commits) : step[<<k, s>>] = After(s)
  <2>1. \A s \in Seq(Commits) : After(s) \in Seq(Commits)
    BY SearchStep
  <2> HIDE DEF After, Commits
  <2> QED
    BY <1>1, <2>1
<1>3. PICK start \in Seq(Commits) : start = <<c>>
  <2>1. <<c>> \in Seq(Commits)
    <3> HIDE DEF Commits
    <3> QED
      OBVIOUS
  <2> QED
    BY <2>1, Zenon
<1>4. PICK f \in [0..MaxCommits -> Seq(Commits)] : Iterates(f, start, step, MaxCommits)
  <2> HIDE DEF Commits
  <2> QED
    BY <1>0, <1>2, <1>3, Iterated
<1>5. ASSUME NEW k \in 0..MaxCommits PROVE f[k] = IF k = 0 THEN <<c>> ELSE After(f[k - 1])
  <2>1. CASE k = 0
    BY <1>3, <1>4, <2>1 DEF Iterates
  <2>2. CASE k # 0
    <3>1. k \in 1..MaxCommits /\ k - 1 \in 0..MaxCommits /\ k \in Nat
      BY <1>0, <2>2
    <3>2. f[k] = step[<<k, f[k - 1]>>] /\ f[k - 1] \in Seq(Commits)
      <4> HIDE DEF Commits
      <4> QED
        BY <1>4, <3>1 DEF Iterates
    <3> HIDE DEF After
    <3> QED
      BY <1>2, <2>2, <3>1, <3>2
  <2> QED
    BY <2>1, <2>2
<1>6. f = [k \in 0..MaxCommits |-> IF k = 0 THEN <<c>> ELSE After(f[k - 1])]
  <2> HIDE DEF After, Commits
  <2> QED
    BY <1>5
<1>7. Searched(G, c, f)
  BY <1>6 DEF Searched
<1> QED
  BY <1>7

\* A history holds the parents of what it holds.
LEMMA Descends ==
  ASSUME NEW G \in Graphs, Older(G), NEW c \in Commits
  PROVE  \A d \in Reach(G, c) : d \in Commits /\ d <= c /\ Range(Parents(G, d)) \subseteq Reach(G, c)
<1> DEFINE Good(k) == \A d \in Reach(G, k) : d \in Commits /\ d <= k /\ Range(Parents(G, d)) \subseteq Reach(G, k)
           Bad == {k \in Commits : ~Good(k)}
<1>1. ASSUME Bad # {} PROVE FALSE
  <2>1. PICK k \in Bad : \A j \in Bad : k <= j
    <3>1. Bad \in SUBSET Commits
      OBVIOUS
    <3> HIDE DEF Bad
    <3> QED
      BY <1>1, <3>1, OldestOf
  <2>2. k \in Commits /\ ~Good(k)
    OBVIOUS
  <2>3. Reach(G, k) = {k} \cup UNION {Reach(G, q) : q \in Range(Parents(G, k))}
    BY <2>2, ReachIs
  <2>4. \A q \in Range(Parents(G, k)) : q \in Commits /\ q < k /\ q \in Reach(G, q)
    <3>1. \A q \in Range(Parents(G, k)) : q \in Commits /\ q < k
      BY <2>2, OlderParents
    <3> QED
      BY <3>1, ReachIs
  <2>5. \A q \in Range(Parents(G, k)) : Good(q)
    <3>1. \A q \in Range(Parents(G, k)) : q \notin Bad
      <4> HIDE DEF Bad
      <4> QED
        BY <2>1, <2>2, <2>4 DEF Commits
    <3> QED
      BY <2>4, <3>1
  <2>6. ASSUME NEW d \in Reach(G, k)
        PROVE  d \in Commits /\ d <= k /\ Range(Parents(G, d)) \subseteq Reach(G, k)
    <3>1. CASE d = k
      <4>1. Range(Parents(G, k)) \subseteq Reach(G, k)
        BY <2>3, <2>4
      <4>2. k <= k
        BY <2>2 DEF Commits
      <4> QED
        BY <2>2, <3>1, <4>1, <4>2
    <3>2. CASE d # k
      <4>1. PICK q \in Range(Parents(G, k)) : d \in Reach(G, q)
        BY <2>3, <3>2
      <4>2. d \in Commits /\ d <= q /\ Range(Parents(G, d)) \subseteq Reach(G, q) /\ q \in Commits /\ q < k
        BY <2>4, <2>5, <4>1
      <4>3. d <= k
        BY <2>2, <4>2 DEF Commits
      <4> QED
        BY <2>3, <4>2, <4>3
    <3> QED
      BY <3>1, <3>2
  <2> QED
    BY <2>2, <2>6
<1>2. c \notin Bad
  BY <1>1
<1> HIDE DEF Bad
<1> QED
  BY <1>2 DEF Bad

\* Whatever is in a history is its commit or a parent of something in it.
LEMMA HasHeir ==
  ASSUME NEW G \in Graphs, Older(G), NEW c \in Commits
  PROVE  \A d \in Reach(G, c) : d # c => \E e \in Reach(G, c) : d \in Range(Parents(G, e))
<1> DEFINE Good(k) == \A d \in Reach(G, k) : d # k => \E e \in Reach(G, k) : d \in Range(Parents(G, e))
           Bad == {k \in Commits : ~Good(k)}
<1>1. ASSUME Bad # {} PROVE FALSE
  <2>1. PICK k \in Bad : \A j \in Bad : k <= j
    <3>1. Bad \in SUBSET Commits
      OBVIOUS
    <3> HIDE DEF Bad
    <3> QED
      BY <1>1, <3>1, OldestOf
  <2>2. k \in Commits /\ ~Good(k)
    OBVIOUS
  <2>3. Reach(G, k) = {k} \cup UNION {Reach(G, q) : q \in Range(Parents(G, k))}
    BY <2>2, ReachIs
  <2>4. \A q \in Range(Parents(G, k)) : q \in Commits /\ q < k
    BY <2>2, OlderParents
  <2>5. \A q \in Range(Parents(G, k)) : Good(q)
    <3>1. \A q \in Range(Parents(G, k)) : q \notin Bad
      <4> HIDE DEF Bad
      <4> QED
        BY <2>1, <2>2, <2>4 DEF Commits
    <3> QED
      BY <2>4, <3>1
  <2>6. ASSUME NEW d \in Reach(G, k), d # k
        PROVE  \E e \in Reach(G, k) : d \in Range(Parents(G, e))
    <3>1. PICK q \in Range(Parents(G, k)) : d \in Reach(G, q)
      BY <2>3, <2>6
    <3>2. CASE d = q
      <4>1. k \in Reach(G, k)
        BY <2>3
      <4> QED
        BY <3>1, <3>2, <4>1
    <3>3. CASE d # q
      <4>1. PICK e \in Reach(G, q) : d \in Range(Parents(G, e))
        BY <2>5, <3>1, <3>3
      <4>2. e \in Reach(G, k)
        BY <2>3, <3>1, <4>1
      <4> QED
        BY <4>1, <4>2
    <3> QED
      BY <3>2, <3>3
  <2> QED
    BY <2>2, <2>6
<1>2. c \notin Bad
  BY <1>1
<1> HIDE DEF Bad
<1> QED
  BY <1>2 DEF Bad

LEMMA SearchSound ==
  ASSUME NEW G \in Graphs, Older(G), NEW c \in Commits, NEW L, Searched(G, c, L)
  PROVE  \A k \in 0..MaxCommits : Range(L[k]) \subseteq Reach(G, c)
<1>0. MaxCommits \in Nat
  BY GraphAssumption
<1>1. /\ L[0] = <<c>>
      /\ \A k \in 1..MaxCommits : Range(L[k]) = UNION {Range(Parents(G, d)) : d \in Range(L[k - 1])}
  BY SearchIs
<1>2. Range(L[0]) = {c} /\ c \in Reach(G, c)
  BY <1>1, ReachIs DEF Range
<1> DEFINE Bad == {k \in 0..MaxCommits : ~(Range(L[k]) \subseteq Reach(G, c))}
<1>3. ASSUME Bad # {} PROVE FALSE
  <2>1. PICK k \in Bad : \A j \in Bad : k <= j
    <3>1. Bad \in SUBSET Nat
      OBVIOUS
    <3> HIDE DEF Bad
    <3> QED
      BY <1>3, <3>1, LeastElement
  <2>2. k \in 0..MaxCommits /\ ~(Range(L[k]) \subseteq Reach(G, c))
    OBVIOUS
  <2>3. k # 0
    BY <1>2, <2>2
  <2>4. k \in 1..MaxCommits /\ k - 1 \in 0..MaxCommits /\ k - 1 \notin Bad
    <3>1. k \in 1..MaxCommits /\ k - 1 \in 0..MaxCommits /\ ~(k <= k - 1)
      BY <1>0, <2>2, <2>3
    <3> HIDE DEF Bad
    <3> QED
      BY <2>1, <3>1
  <2>5. \A d \in Range(L[k - 1]) : Range(Parents(G, d)) \subseteq Reach(G, c)
    BY <2>4, Descends
  <2> QED
    BY <1>1, <2>2, <2>4, <2>5
<1> QED
  BY <1>3

LEMMA SearchComplete ==
  ASSUME NEW G \in Graphs, Older(G), NEW c \in Commits, NEW L, Searched(G, c, L)
  PROVE  \A d \in Reach(G, c) : \E k \in 0..MaxCommits : d \in Range(L[k])
<1>0. MaxCommits \in Nat /\ Commits = 1..MaxCommits
  BY GraphAssumption DEF Commits
<1>1. /\ L[0] = <<c>>
      /\ \A k \in 1..MaxCommits : Range(L[k]) = UNION {Range(Parents(G, d)) : d \in Range(L[k - 1])}
  BY SearchIs
<1>2. Range(L[0]) = {c} /\ \A d \in Reach(G, c) : d \in Commits /\ d <= c
  BY <1>1, Descends DEF Range
<1> DEFINE Found(d) == \E k \in 0..(c - d) : d \in Range(L[k])
           Bad == {n \in Nat : \E d \in Reach(G, c) : n = c - d /\ ~Found(d)}
<1>3. ASSUME Bad # {} PROVE FALSE
  <2>1. PICK n \in Bad : \A j \in Bad : n <= j
    <3>1. Bad \in SUBSET Nat
      OBVIOUS
    <3> HIDE DEF Bad
    <3> QED
      BY <1>3, <3>1, LeastElement
  <2>2. PICK d \in Reach(G, c) : n = c - d /\ ~Found(d)
    OBVIOUS
  <2>3. d # c
    <3>1. 0 \in 0..(c - c)
      BY <1>0
    <3> QED
      BY <1>2, <2>2, <3>1
  <2>4. PICK e \in Reach(G, c) : d \in Range(Parents(G, e))
    BY <2>3, HasHeir
  <2>5. e \in Commits /\ e <= c /\ d < e /\ d \in Commits
    BY <1>2, <2>4, OlderParents
  <2>6. Found(e)
    <3>1. c - e \in Nat /\ ~(n <= c - e)
      BY <1>0, <2>2, <2>5
    <3>2. c - e \notin Bad
      <4> HIDE DEF Bad
      <4> QED
        BY <2>1, <3>1
    <3> QED
      BY <3>1, <3>2
  <2>7. PICK k \in 0..(c - e) : e \in Range(L[k])
    BY <2>6
  <2>8. k + 1 \in 1..MaxCommits /\ k + 1 \in 0..(c - d) /\ (k + 1) - 1 = k
    BY <1>0, <2>5, <2>7
  <2>9. d \in Range(L[k + 1])
    BY <1>1, <2>4, <2>7, <2>8
  <2> QED
    BY <2>2, <2>8, <2>9
<1>4. ASSUME NEW d \in Reach(G, c) PROVE \E k \in 0..MaxCommits : d \in Range(L[k])
  <2>1. d \in Commits /\ d <= c /\ c - d \in Nat
    BY <1>0, <1>2
  <2>2. c - d \notin Bad
    <3> HIDE DEF Bad
    <3> QED
      BY <1>3
  <2>3. Found(d)
    BY <2>1, <2>2
  <2>4. \A k \in 0..(c - d) : k \in 0..MaxCommits
    BY <1>0, <2>1
  <2> QED
    BY <2>3, <2>4
<1> QED
  BY <1>4

LEMMA WithinIs ==
  ASSUME NEW G \in Graphs, Older(G), NEW c \in Commits
  PROVE  /\ Within(G, c, 0) = {c}
         /\ \A k \in 1..MaxCommits : Within(G, c, k) =
              Within(G, c, k - 1) \cup UNION {Range(Parents(G, d)) : d \in Within(G, c, k - 1)}
<1>0. MaxCommits \in Nat
  BY GraphAssumption
<1> DEFINE After(S) == S \cup UNION {Range(Parents(G, d)) : d \in S}
           Rounds(W) == W = [j \in 0..MaxCommits |-> IF j = 0 THEN {c} ELSE W[j - 1] \cup UNION {Range(Parents(G, d)) : d \in W[j - 1]}]
<1>1. PICK step : step = [q \in Nat \X SUBSET Commits |-> After(q[2])]
  OBVIOUS
<1>2. step \in [Nat \X SUBSET Commits -> SUBSET Commits] /\ \A k \in Nat, S \in SUBSET Commits : step[<<k, S>>] = After(S)
  <2>1. \A S \in SUBSET Commits : After(S) \in SUBSET Commits
    BY OlderParents
  <2> HIDE DEF After
  <2> QED
    BY <1>1, <2>1
<1>3. PICK f \in [0..MaxCommits -> SUBSET Commits] : Iterates(f, {c}, step, MaxCommits)
  <2>1. {c} \in SUBSET Commits
    OBVIOUS
  <2> QED
    BY <1>0, <1>2, <2>1, Iterated
<1>4. ASSUME NEW k \in 0..MaxCommits PROVE f[k] = IF k = 0 THEN {c} ELSE After(f[k - 1])
  <2>1. CASE k = 0
    BY <1>3, <2>1 DEF Iterates
  <2>2. CASE k # 0
    <3>1. k \in 1..MaxCommits /\ k - 1 \in 0..MaxCommits /\ k \in Nat
      BY <1>0, <2>2
    <3>2. f[k] = step[<<k, f[k - 1]>>] /\ f[k - 1] \in SUBSET Commits
      BY <1>3, <3>1 DEF Iterates
    <3> HIDE DEF After
    <3> QED
      BY <1>2, <2>2, <3>1, <3>2
  <2> QED
    BY <2>1, <2>2
<1>5. Rounds(f)
  <2>1. f = [k \in 0..MaxCommits |-> IF k = 0 THEN {c} ELSE After(f[k - 1])]
    <3> HIDE DEF After
    <3> QED
      BY <1>4
  <2> QED
    BY <2>1
<1>6. PICK W : Rounds(W) /\ \A k \in 0..MaxCommits : Within(G, c, k) = W[k]
  BY <1>5 DEF Within
<1>7. W[0] = {c} /\ \A k \in 1..MaxCommits : W[k] = After(W[k - 1])
  <2>1. \A k \in 0..MaxCommits : W[k] = IF k = 0 THEN {c} ELSE After(W[k - 1])
    BY <1>6
  <2>2. 0 \in 0..MaxCommits /\ \A k \in 1..MaxCommits : k \in 0..MaxCommits /\ k # 0
    BY <1>0
  <2> HIDE DEF After
  <2> QED
    BY <2>1, <2>2
<1>8. 0 \in 0..MaxCommits /\ \A k \in 1..MaxCommits : k \in 0..MaxCommits /\ k - 1 \in 0..MaxCommits
  BY <1>0
<1> QED
  BY <1>6, <1>7, <1>8

\* What is at most k parents away is what a search meets in k rounds.
LEMMA WithinSearch ==
  ASSUME NEW G \in Graphs, Older(G), NEW c \in Commits, NEW L, Searched(G, c, L)
  PROVE  \A k \in 0..MaxCommits : \A x : x \in Within(G, c, k) <=> \E j \in 0..k : x \in Range(L[j])
<1>0. MaxCommits \in Nat
  BY GraphAssumption
<1>1. /\ L[0] = <<c>>
      /\ \A k \in 1..MaxCommits : Range(L[k]) = UNION {Range(Parents(G, d)) : d \in Range(L[k - 1])}
  BY SearchIs
<1>2. Range(L[0]) = {c} /\ Within(G, c, 0) = {c}
  BY <1>1, WithinIs DEF Range
<1> DEFINE Good(k) == \A x : x \in Within(G, c, k) <=> \E j \in 0..k : x \in Range(L[j])
           Bad == {k \in 0..MaxCommits : ~Good(k)}
<1>3. ASSUME Bad # {} PROVE FALSE
  <2>1. PICK k \in Bad : \A j \in Bad : k <= j
    <3>1. Bad \in SUBSET Nat
      OBVIOUS
    <3> HIDE DEF Bad
    <3> QED
      BY <1>3, <3>1, LeastElement
  <2>2. k \in 0..MaxCommits /\ ~Good(k)
    OBVIOUS
  <2>3. k # 0
    BY <1>2, <2>2
  <2>4. k \in 1..MaxCommits /\ k - 1 \in 0..MaxCommits /\ k - 1 \notin Bad
    <3>1. k \in 1..MaxCommits /\ k - 1 \in 0..MaxCommits /\ ~(k <= k - 1)
      BY <1>0, <2>2, <2>3
    <3> HIDE DEF Bad
    <3> QED
      BY <2>1, <3>1
  <2>5. Good(k - 1)
    BY <2>4
  <2>6. Within(G, c, k) = Within(G, c, k - 1) \cup UNION {Range(Parents(G, d)) : d \in Within(G, c, k - 1)}
    BY <2>4, WithinIs
  <2>7. \A j \in 1..MaxCommits : Range(L[j]) = UNION {Range(Parents(G, d)) : d \in Range(L[j - 1])}
    BY <1>1
  <2>8. ASSUME NEW x \in Within(G, c, k) PROVE \E j \in 0..k : x \in Range(L[j])
    <3>1. CASE x \in Within(G, c, k - 1)
      <4>1. PICK j \in 0..(k - 1) : x \in Range(L[j])
        BY <2>5, <3>1
      <4>2. j \in 0..k
        BY <2>4
      <4> QED
        BY <4>1, <4>2
    <3>2. CASE x \notin Within(G, c, k - 1)
      <4>1. PICK d \in Within(G, c, k - 1) : x \in Range(Parents(G, d))
        BY <2>6, <3>2
      <4>2. PICK j \in 0..(k - 1) : d \in Range(L[j])
        BY <2>5, <4>1
      <4>3. j + 1 \in 0..k /\ j + 1 \in 1..MaxCommits /\ (j + 1) - 1 = j
        BY <1>0, <2>4
      <4>4. x \in Range(L[j + 1])
        BY <2>7, <4>1, <4>2, <4>3
      <4> QED
        BY <4>3, <4>4
    <3> QED
      BY <3>1, <3>2
  <2>9. ASSUME NEW x, NEW j \in 0..k, x \in Range(L[j]) PROVE x \in Within(G, c, k)
    <3>1. CASE j # k
      <4>1. j \in 0..(k - 1)
        BY <2>4, <3>1
      <4> QED
        BY <2>5, <2>6, <2>9, <4>1
    <3>2. CASE j = k
      <4>1. PICK d \in Range(L[k - 1]) : x \in Range(Parents(G, d))
        BY <2>4, <2>7, <2>9, <3>2
      <4>2. k - 1 \in 0..(k - 1)
        BY <2>4
      <4>3. d \in Within(G, c, k - 1)
        BY <2>5, <4>1, <4>2
      <4> QED
        BY <2>6, <4>1, <4>3
    <3> QED
      BY <3>1, <3>2
  <2> QED
    BY <2>2, <2>8, <2>9
<1> QED
  BY <1>3

(* The merge base is a common ancestor, and none is nearer. *)
LEMMA BaseIsNearest ==
  ASSUME NEW G \in Graphs, Older(G), NEW theirs \in Commits, NEW ours \in Commits
  PROVE  /\ MergeBase(G, theirs, ours) \in Opt(Commits)
         /\ NearestBase(G, theirs, ours, MergeBase(G, theirs, ours))
<1>0. MaxCommits \in Nat
  BY GraphAssumption
<1> DEFINE Hits(L, k) == {i \in DOMAIN L[k] : L[k][i] \in Reach(G, theirs)}
           found(L) == {k \in 0..MaxCommits : Hits(L, k) # {}}
           common == Reach(G, ours) \cap Reach(G, theirs)
           base == MergeBase(G, theirs, ours)
<1>1. PICK L : /\ Searched(G, ours, L)
               /\ base = IF found(L) = {} THEN NULL ELSE L[Min(found(L))][Min(Hits(L, Min(found(L))))]
  BY SearchExists DEF Searched, MergeBase
<1>2. \A k \in 0..MaxCommits : L[k] \in Seq(Commits) /\ DOMAIN L[k] \in SUBSET Nat
  <2>1. \A k \in 0..MaxCommits : L[k] \in Seq(Commits)
    BY <1>1, SearchIs
  <2> HIDE DEF Commits
  <2> QED
    BY <2>1
<1>3. \A k \in 0..MaxCommits : k \in found(L) <=> Range(L[k]) \cap Reach(G, theirs) # {}
  BY DEF Range
<1>4. \A k \in 0..MaxCommits : Range(L[k]) \subseteq Reach(G, ours)
  BY <1>1, SearchSound
<1>5. common = {} <=> found(L) = {}
  <2>1. ASSUME NEW d \in common PROVE found(L) # {}
    <3>1. PICK k \in 0..MaxCommits : d \in Range(L[k])
      BY <1>1, SearchComplete
    <3> QED
      BY <1>3, <3>1
  <2>2. ASSUME NEW k \in found(L) PROVE common # {}
    BY <1>3, <1>4
  <2> QED
    BY <2>1, <2>2
<1>6. CASE found(L) = {}
  BY <1>1, <1>5, <1>6 DEF NearestBase, Opt
<1>7. CASE found(L) # {}
  <2>1. PICK m : m = Min(found(L))
    OBVIOUS
  <2>2. m \in found(L) /\ \A k \in found(L) : m <= k
    <3>1. found(L) \in SUBSET Nat
      OBVIOUS
    <3> HIDE DEF found
    <3> QED
      BY <1>7, <2>1, <3>1, MinIs
  <2>3. m \in 0..MaxCommits /\ Hits(L, m) # {}
    BY <2>2
  <2>4. PICK i : i = Min(Hits(L, m))
    OBVIOUS
  <2>5. i \in Hits(L, m)
    <3>1. Hits(L, m) \in SUBSET Nat
      BY <1>2, <2>3
    <3> HIDE DEF Hits
    <3> QED
      BY <2>3, <2>4, <3>1, MinIs
  <2>6. base = L[m][i]
    <3> HIDE DEF found, Hits, base
    <3> QED
      BY <1>1, <1>7, <2>1, <2>4
  <2>7. base \in Range(L[m]) /\ base \in Reach(G, theirs)
    <3> HIDE DEF base
    <3> QED
      BY <2>5, <2>6 DEF Range
  <2>8. base \in common /\ base \in Commits
    <3>1. \A d \in Reach(G, ours) : d \in Commits
      BY Descends
    <3> HIDE DEF base
    <3> QED
      BY <1>4, <2>3, <2>7, <3>1
  <2>9. ASSUME NEW k \in 0..MaxCommits, Within(G, ours, k) \cap common # {}
        PROVE  base \in Within(G, ours, k)
    <3>1. PICK x \in Within(G, ours, k) \cap common : TRUE
      BY <2>9
    <3>2. PICK j \in 0..k : x \in Range(L[j])
      BY <1>1, <3>1, WithinSearch
    <3>3. j \in 0..MaxCommits
      BY <1>0
    <3>4. j \in found(L)
      BY <1>3, <3>1, <3>2, <3>3
    <3>5. m \in 0..k
      <4> HIDE DEF found
      <4> QED
        BY <2>2, <2>3, <3>2, <3>4
    <3> HIDE DEF base
    <3> QED
      BY <1>1, <2>7, <3>5, WithinSearch
  <2>10. NearestBase(G, theirs, ours, base)
    <3> HIDE DEF base
    <3> QED
      BY <1>5, <1>7, <2>8, <2>9 DEF NearestBase
  <2> QED
    BY <2>8, <2>10 DEF Opt
<1> QED
  BY <1>6, <1>7

LEMMA WithinKept ==
  ASSUME NEW G \in Graphs, NEW H \in Graphs, Older(G), Older(H),
         NEW S \in SUBSET Commits, Undisturbed(G, H, S), NEW c \in S
  PROVE  \A k \in 0..MaxCommits : Within(H, c, k) = Within(G, c, k) /\ Within(G, c, k) \subseteq S
<1>0. MaxCommits \in Nat
  BY GraphAssumption
<1>1. \A F \in {G, H} : /\ Within(F, c, 0) = {c}
                        /\ \A k \in 1..MaxCommits : Within(F, c, k) =
                             Within(F, c, k - 1) \cup UNION {Range(Parents(F, d)) : d \in Within(F, c, k - 1)}
  BY WithinIs
<1> DEFINE Good(k) == Within(H, c, k) = Within(G, c, k) /\ Within(G, c, k) \subseteq S
           Bad == {k \in 0..MaxCommits : ~Good(k)}
<1>2. ASSUME Bad # {} PROVE FALSE
  <2>1. PICK k \in Bad : \A j \in Bad : k <= j
    <3>1. Bad \in SUBSET Nat
      OBVIOUS
    <3> HIDE DEF Bad
    <3> QED
      BY <1>2, <3>1, LeastElement
  <2>2. k \in 0..MaxCommits /\ ~Good(k)
    OBVIOUS
  <2>3. k # 0
    BY <1>1, <2>2
  <2>4. k \in 1..MaxCommits /\ k - 1 \in 0..MaxCommits /\ k - 1 \notin Bad
    <3>1. k \in 1..MaxCommits /\ k - 1 \in 0..MaxCommits /\ ~(k <= k - 1)
      BY <1>0, <2>2, <2>3
    <3> HIDE DEF Bad
    <3> QED
      BY <2>1, <3>1
  <2>5. PICK W : W = Within(G, c, k - 1)
    OBVIOUS
  <2>6. W = Within(H, c, k - 1) /\ W \subseteq S
    BY <2>4, <2>5
  <2>7. \A d \in W : Parents(H, d) = Parents(G, d) /\ Range(Parents(G, d)) \subseteq S
    BY <2>6 DEF Undisturbed
  <2>8. Within(G, c, k) = W \cup UNION {Range(Parents(G, d)) : d \in W}
    BY <1>1, <2>4, <2>5
  <2>9. Within(H, c, k) = W \cup UNION {Range(Parents(H, d)) : d \in W}
    BY <1>1, <2>4, <2>6
  <2> QED
    BY <2>2, <2>6, <2>7, <2>8, <2>9
<1> QED
  BY <1>2

LEMMA ReachStays ==
  ASSUME NEW G \in Graphs, NEW H \in Graphs, Older(G), NEW S \in SUBSET Commits, Undisturbed(G, H, S), NEW c \in S
  PROVE  Reach(G, c) \subseteq S
<1> DEFINE Bad == {k \in S : ~(Reach(G, k) \subseteq S)}
<1>1. ASSUME Bad # {} PROVE FALSE
  <2>1. PICK k \in Bad : \A j \in Bad : k <= j
    <3>1. Bad \in SUBSET Commits
      OBVIOUS
    <3> HIDE DEF Bad
    <3> QED
      BY <1>1, <3>1, OldestOf
  <2>2. k \in Commits /\ k \in S /\ ~(Reach(G, k) \subseteq S)
    OBVIOUS
  <2>3. \A q \in Range(Parents(G, k)) : q \in Commits /\ q < k /\ q \in S
    BY <2>2, OlderParents DEF Undisturbed
  <2>4. \A q \in Range(Parents(G, k)) : Reach(G, q) \subseteq S
    <3>1. \A q \in Range(Parents(G, k)) : q \notin Bad
      <4> HIDE DEF Bad
      <4> QED
        BY <2>1, <2>2, <2>3 DEF Commits
    <3> QED
      BY <2>3, <3>1
  <2> QED
    BY <2>2, <2>4, ReachIs
<1> QED
  BY <1>1

\* tree is the three-way merge of ours and theirs over the nearest common ancestor.
Combines(G, theirs, ours, tree) ==
  \E base \in Opt(Commits) :
    /\ NearestBase(G, theirs, ours, base)
    /\ ThreeWay(TreeOrEmpty(G, base), Tree(G, ours), Tree(G, theirs), tree)

LEMMA CombinesKept ==
  ASSUME NEW G \in Graphs, NEW H \in Graphs, Older(G), Older(H), NEW S \in SUBSET Commits, Undisturbed(G, H, S),
         NEW theirs \in S, NEW ours \in S, NEW tree, Combines(G, theirs, ours, tree)
  PROVE  Combines(H, theirs, ours, tree)
<1>1. PICK base \in Opt(Commits) :
        /\ NearestBase(G, theirs, ours, base)
        /\ ThreeWay(TreeOrEmpty(G, base), Tree(G, ours), Tree(G, theirs), tree)
  BY DEF Combines
<1>2. Reach(H, theirs) = Reach(G, theirs) /\ Reach(H, ours) = Reach(G, ours)
  BY ReachKept
<1>3. \A k \in 0..MaxCommits : Within(H, ours, k) = Within(G, ours, k)
  BY WithinKept
<1>4. NearestBase(H, theirs, ours, base)
  BY <1>1, <1>2, <1>3 DEF NearestBase
<1>5. base # NULL => base \in S
  <2>1. base # NULL => base \in Reach(G, ours)
    BY <1>1 DEF NearestBase
  <2> QED
    BY <2>1, ReachStays
<1>6. /\ Tree(H, ours) = Tree(G, ours) /\ Tree(H, theirs) = Tree(G, theirs)
      /\ TreeOrEmpty(H, base) = TreeOrEmpty(G, base)
  BY <1>5, TreeKept DEF TreeOrEmpty
<1> QED
  BY <1>1, <1>4, <1>6 DEF Combines

(* merge *)
LEMMA MergeRowCombines ==
  ASSUME NEW G \in Graphs, Older(G), NEW ours \in Commits, NEW theirs \in Commits, NEW strategy
  PROVE  Combines(G, theirs, ours, Apply(Tree(G, ours), MergeRow(G, theirs, ours, strategy).delta))
<1>1. PICK into \in Trees : into = Tree(G, ours)
  BY TreeTyped
<1>2. PICK from \in Trees : from = Tree(G, theirs)
  BY TreeTyped
<1>3. PICK near \in Opt(Commits) : near = MergeBase(G, theirs, ours) /\ NearestBase(G, theirs, ours, near)
  BY BaseIsNearest
<1>4. PICK base : base = TreeOrEmpty(G, near)
  OBVIOUS
<1>5. PICK both : both = Merged(base, into, from, strategy)
  OBVIOUS
<1>6. ASSUME NEW u \in Uris
      PROVE  /\ both[u] \in {into[u], from[u]}
             /\ into[u] = base[u] => both[u] = from[u]
             /\ from[u] = base[u] => both[u] = into[u]
  BY <1>5 DEF Merged
<1>7. both \in Trees
  <2>1. both = [u \in Uris |-> both[u]]
    BY <1>5 DEF Merged
  <2>2. \A u \in Uris : into[u] \in Opt(Values) /\ from[u] \in Opt(Values)
    BY DEF Trees
  <2>3. \A u \in Uris : both[u] \in Opt(Values)
    BY <1>6, <2>2
  <2> QED
    BY <2>1, <2>3 DEF Trees
<1>8. Apply(into, Diff(into, both)) = both
  BY <1>7, DiffIs
<1>9. MergeRow(G, theirs, ours, strategy).delta = Diff(into, both)
  BY <1>1, <1>2, <1>3, <1>4, <1>5 DEF MergeRow, NewRow
<1>10. ThreeWay(base, into, from, both)
  BY <1>6 DEF ThreeWay
<1>11. Apply(Tree(G, ours), MergeRow(G, theirs, ours, strategy).delta) = both
  BY <1>1, <1>8, <1>9
<1> QED
  BY <1>1, <1>2, <1>3, <1>4, <1>10, <1>11 DEF Combines

CommitRight(G, c) ==
  G[c].kind = "merge" =>
    \E ours, theirs \in Commits : G[c].parents = <<ours, theirs>> /\ Combines(G, theirs, ours, Tree(G, c))

CallRight(G, c) ==
  /\ c.op \in {"commit", "pick", "squash"} => c.row.kind # "merge"
  /\ c.op = "merge" /\ c.row # NULL =>
       (c.row.kind = "merge" /\ G[c.ours] # NULL /\ G[c.theirs] # NULL =>
          Combines(G, c.theirs, c.ours, Apply(Tree(G, c.ours), c.row.delta)))

\* What was merged, and what is about to be unless a parent is gone.
MergesRight ==
  Sqlite => /\ \A c \in Alive(rows) : CommitRight(rows, c)
            /\ \A p \in Callers : CallRight(rows, call[p])

LEMMA CallRightKept ==
  ASSUME VersionTyped, Sqlite, NEW p \in Callers, VersionStep(p), NEW q \in Callers, CallRight(rows, call[q])
  PROVE  CallRight(rows', call[q])
<1>0. /\ rows \in Graphs /\ Older(rows) /\ made \in Nat /\ 1..made \in SUBSET Commits
      /\ call[q] \in Calls /\ CallMade(call[q], made)
  BY RefsAre, CallOf
<1> DEFINE c == call[q]
<1>1. SUFFICES ASSUME c.op = "merge", c.row # NULL, c.row.kind = "merge", rows'[c.ours] # NULL, rows'[c.theirs] # NULL
               PROVE  Combines(rows', c.theirs, c.ours, Apply(Tree(rows', c.ours), c.row.delta))
  BY DEF CallRight
<1>2. c.ours \in 1..made /\ c.theirs \in 1..made
  BY <1>0, <1>1 DEF CallMade
<1> HIDE DEF c
<1>3. ASSUME NEW S \in SUBSET Commits, rows' \in Graphs, Older(rows'), Undisturbed(rows, rows', S),
             c.ours \in S, c.theirs \in S, rows[c.ours] # NULL, rows[c.theirs] # NULL
      PROVE  Combines(rows', c.theirs, c.ours, Apply(Tree(rows', c.ours), c.row.delta))
  <2>1. Combines(rows, c.theirs, c.ours, Apply(Tree(rows, c.ours), c.row.delta))
    BY <1>1, <1>3 DEF CallRight, c
  <2>2. Tree(rows', c.ours) = Tree(rows, c.ours)
    BY <1>0, <1>3, TreeKept
  <2> QED
    BY <1>0, <1>3, <2>1, <2>2, CombinesKept
<1>4. CASE rows' = rows
  BY <1>1, <1>4 DEF CallRight, c
<1>5. CASE Inserted(CallRow(call[p]))
  <2>1. /\ rows' \in Graphs /\ Older(rows') /\ Undisturbed(rows, rows', 1..made)
        /\ \A x \in Commits : x # made + 1 => rows'[x] = rows[x]
    BY <1>5, InsertedKeeps
  <2>2. rows'[c.ours] = rows[c.ours] /\ rows'[c.theirs] = rows[c.theirs]
    BY <1>0, <1>2, <2>1
  <2> QED
    BY <1>0, <1>1, <1>2, <1>3, <2>1, <2>2
<1>6. CASE Collected(call[p].victims)
  <2>1. PICK S \in SUBSET Commits : S = {k \in Commits : rows'[k] # NULL \/ rows[k] = NULL}
    OBVIOUS
  <2>2. /\ rows' \in Graphs /\ Older(rows') /\ Undisturbed(rows, rows', S)
        /\ \A x \in Commits : rows'[x] # NULL => rows'[x] = rows[x]
    BY <1>6, <2>1, CollectKeeps
  <2>3. c.ours \in Commits /\ c.theirs \in Commits
    BY <1>0, <1>2
  <2> QED
    BY <1>1, <1>3, <2>1, <2>2, <2>3
<1> QED
  BY <1>4, <1>5, <1>6, RowsChange

\* A commit that stays is what it was.
LEMMA CommitRightKept ==
  ASSUME VersionTyped, Sqlite, NEW p \in Callers, VersionStep(p),
         NEW c \in Alive(rows), CommitRight(rows, c), rows'[c] # NULL
  PROVE  CommitRight(rows', c)
<1>0. /\ rows \in Graphs /\ Older(rows) /\ made \in Nat /\ 1..made \in SUBSET Commits /\ c \in 1..made /\ c \in Commits
  BY RefsAre
<1>1. ASSUME NEW S \in SUBSET Commits, rows' \in Graphs, Older(rows'), Undisturbed(rows, rows', S), c \in S, rows'[c] = rows[c]
      PROVE  CommitRight(rows', c)
  <2>1. SUFFICES ASSUME rows[c].kind = "merge" PROVE CommitRight(rows', c)
    BY <1>1 DEF CommitRight
  <2>2. PICK ours \in Commits, theirs \in Commits : rows[c].parents = <<ours, theirs>> /\ Combines(rows, theirs, ours, Tree(rows, c))
    BY <2>1 DEF CommitRight
  <2>3. ours \in S /\ theirs \in S
    <3>1. PICK pair \in Seq(Commits) : pair = <<ours, theirs>>
      <4>1. <<ours, theirs>> \in Seq(Commits)
        <5> HIDE DEF Commits
        <5> QED
          OBVIOUS
      <4> QED
        BY <4>1, Zenon
    <3>2. ours \in Range(pair) /\ theirs \in Range(pair)
      <4>1. 1 \in DOMAIN pair /\ 2 \in DOMAIN pair /\ pair[1] = ours /\ pair[2] = theirs
        BY <3>1
      <4> QED
        BY <4>1 DEF Range
    <3>3. Parents(rows, c) = pair
      BY <2>2, <3>1 DEF Parents, Alive
    <3> QED
      BY <1>1, <3>2, <3>3 DEF Undisturbed
  <2>4. Tree(rows', c) = Tree(rows, c)
    BY <1>0, <1>1, TreeKept
  <2>5. Combines(rows', theirs, ours, Tree(rows', c))
    BY <1>0, <1>1, <2>2, <2>3, <2>4, CombinesKept
  <2> QED
    BY <1>1, <2>2, <2>5 DEF CommitRight
<1>2. CASE rows' = rows
  BY <1>2
<1>3. CASE Inserted(CallRow(call[p]))
  <2>1. /\ rows' \in Graphs /\ Older(rows') /\ Undisturbed(rows, rows', 1..made)
        /\ \A x \in Commits : x # made + 1 => rows'[x] = rows[x]
    BY <1>3, InsertedKeeps
  <2>2. rows'[c] = rows[c]
    BY <1>0, <2>1
  <2> QED
    BY <1>0, <1>1, <2>1, <2>2
<1>4. CASE Collected(call[p].victims)
  <2>1. PICK S \in SUBSET Commits : S = {k \in Commits : rows'[k] # NULL \/ rows[k] = NULL}
    OBVIOUS
  <2>2. /\ rows' \in Graphs /\ Older(rows') /\ Undisturbed(rows, rows', S)
        /\ \A x \in Commits : rows'[x] # NULL => rows'[x] = rows[x]
    BY <1>4, <2>1, CollectKeeps
  <2> QED
    BY <1>0, <1>1, <2>1, <2>2
<1> QED
  BY <1>2, <1>3, <1>4, RowsChange

LEMMA InsertOps ==
  ASSUME VersionTyped, Sqlite, NEW p \in Callers, VersionStep(p), Inserted(CallRow(call[p]))
  PROVE  call[p].op \in {"commit", "merge", "pick", "rebase", "squash"}
<1>1. rows'[made + 1] # NULL /\ rows[made + 1] = NULL /\ made + 1 \in Commits
  BY InsertedKeeps DEF Inserted
<1>2. Moving(p) /\ ~Refused(p)
  BY <1>1, StillSteps DEF Still
<1>3. ~(CreateBranch(p) \/ DeleteBranch(p) \/ SqliteSwitchHead(p) \/ PgSwitchHead(p) \/ CreateTag(p) \/ FastForward(p) \/ Rebase(p))
  BY <1>1, <1>2 DEF CreateBranch, DeleteBranch, SqliteSwitchHead, PgSwitchHead, CreateTag, FastForward, Rebase, Starts
<1>4. ~SqliteGc(p)
  <2>1. SqliteGc(p) => rows' = [c \in Commits |-> IF c \in call[p].victims THEN NULL ELSE rows[c]]
    BY <1>2, Zenon DEF SqliteGc
  <2> QED
    BY <1>1, <2>1
<1>5. ~PgGc(p)
  BY DEF PgGc
<1>6. SqliteCommit(p) \/ PgCommit(p) \/ Merge(p) \/ CherryPick(p) \/ RebaseStep(p) \/ SqliteSquash(p) \/ PgSquash(p)
  BY <1>2, <1>3, <1>4, <1>5, Zenon DEF Moving
<1> QED
  BY <1>6, Zenon DEF SqliteCommit, PgCommit, Merge, CherryPick, RebaseStep, SqliteSquash, PgSquash, Finishes

\* The commit that is made.
LEMMA NewRight ==
  ASSUME VersionTyped, Sqlite, MergesRight, NEW p \in Callers, VersionStep(p), Inserted(CallRow(call[p]))
  PROVE  CommitRight(rows', made + 1)
<1>0. /\ rows \in Graphs /\ Older(rows) /\ made \in Nat /\ 1..made \in SUBSET Commits
      /\ call[p] \in Calls /\ CallMade(call[p], made)
  BY RefsAre, CallOf
<1>1. PICK row : row = CallRow(call[p])
  OBVIOUS
<1>2. /\ rows' \in Graphs /\ Older(rows') /\ rows'[made + 1] = row /\ Undisturbed(rows, rows', 1..made)
      /\ Inserted(row)
  BY <1>1, InsertedKeeps
<1>3. SUFFICES ASSUME row.kind = "merge" PROVE CommitRight(rows', made + 1)
  BY <1>2 DEF CommitRight
<1>4. call[p].op # "rebase"
  <2>1. NextRow(call[p]).kind = "pick"
    BY DEF NextRow, PickRow, NewRow
  <2> QED
    BY <1>1, <1>3, <2>1 DEF CallRow
<1>5. call[p].op = "merge" /\ row = call[p].row
  BY <1>1, <1>3, <1>4, InsertOps DEF CallRow, MergesRight, CallRight
<1>6. PICK ours \in 1..made, theirs \in 1..made : ours = call[p].ours /\ theirs = call[p].theirs
  BY <1>0, <1>5 DEF CallMade
<1>7. row.parents = <<ours, theirs>> /\ row # NULL
  BY <1>0, <1>2, <1>5, <1>6, InsertedKeeps DEF CallMade
<1>8. rows[ours] # NULL /\ rows[theirs] # NULL
  <2>1. PICK pair : pair = <<ours, theirs>>
    OBVIOUS
  <2>2. 1 \in DOMAIN pair /\ 2 \in DOMAIN pair /\ pair[1] = ours /\ pair[2] = theirs
    BY <2>1
  <2>3. \A i \in DOMAIN pair : rows[pair[i]] # NULL
    BY <1>2, <1>7, <2>1 DEF Inserted, ParentsExist
  <2> QED
    BY <2>2, <2>3
<1>9. Combines(rows, theirs, ours, Apply(Tree(rows, ours), row.delta))
  BY <1>3, <1>5, <1>6, <1>7, <1>8 DEF MergesRight, CallRight
<1>10. Combines(rows', theirs, ours, Apply(Tree(rows, ours), row.delta))
  BY <1>0, <1>2, <1>9, CombinesKept
<1>11. Tree(rows', made + 1) = Apply(Tree(rows, ours), row.delta)
  <2>1. PICK pair : pair = <<ours, theirs>>
    OBVIOUS
  <2>2. pair # <<>> /\ pair[1] = ours
    BY <2>1
  <2>3. RowTree(rows, row) = Apply(Tree(rows, ours), row.delta)
    BY <1>7, <2>1, <2>2 DEF RowTree
  <2> QED
    BY <1>2, <2>3, InsertShows
<1> QED
  BY <1>0, <1>2, <1>6, <1>7, <1>10, <1>11 DEF CommitRight

\* What a call starts with.
LEMMA CallStartsRight ==
  ASSUME VersionTyped, Sqlite, NEW p \in Callers, VersionStep(p), call'[p] # call[p]
  PROVE  CallRight(rows', call'[p])
<1>0. call \in [Callers -> Calls] /\ rows \in Graphs /\ Older(rows)
  BY RefsAre DEF VersionTyped
<1>1. CASE StartCommit(p) \/ StartCherryPick(p) \/ StartSquash(p) \/ ContinueSession(p)
  <2>1. CASE StartCommit(p)
    BY <1>0, <2>1 DEF StartCommit, Begin, CallRight, NewRow
  <2>2. CASE StartCherryPick(p)
    BY <1>0, <2>2 DEF StartCherryPick, Begin, CallRight, PickRow, NewRow
  <2>3. CASE StartSquash(p)
    BY <1>0, <2>3 DEF StartSquash, Begin, CallRight, SquashRow, NewRow
  <2>4. CASE ContinueSession(p)
    BY <1>0, <2>4 DEF ContinueSession, Begin, CallRight, PickRow, NewRow
  <2> QED
    BY <1>1, <2>1, <2>2, <2>3, <2>4
<1>2. CASE StartMerge(p) \/ StartKnowledgeMerge(p)
  <2> DEFINE RowOf(from, into, row) ==
                \/ row = NULL
                \/ \E strategy : row = MergeRow(rows, branches[from], branches[into], strategy)
                \/ \E theirsWin : row = KnowledgeRow(rows, branches[from], branches[into], theirsWin)
  <2>heads. PICK from \in Branches, into \in Branches :
          /\ branches[from] # NULL /\ branches[into] # NULL
          /\ \E row : RowOf(from, into, row) /\
                      call' = [call EXCEPT ![p] = [op |-> "merge", into |-> into, ours |-> branches[into],
                                                   theirs |-> branches[from], row |-> row]]
    BY <1>2 DEF StartMerge, StartKnowledgeMerge, Begin
  <2>1. PICK row : RowOf(from, into, row) /\
                   call' = [call EXCEPT ![p] = [op |-> "merge", into |-> into, ours |-> branches[into],
                                                theirs |-> branches[from], row |-> row]]
    BY <2>heads
  <2>2. PICK ours \in Commits, theirs \in Commits : ours = branches[into] /\ theirs = branches[from]
    BY <2>heads, RefsAre
  <2>3. rows' = rows
    BY <1>2 DEF StartMerge, StartKnowledgeMerge, Starts
  <2>4. row # NULL /\ row.kind = "merge" => Combines(rows, theirs, ours, Apply(Tree(rows, ours), row.delta))
    <3>1. \A theirsWin : KnowledgeRow(rows, theirs, ours, theirsWin).kind = "knowledge"
      BY DEF KnowledgeRow, NewRow
    <3>2. \A strategy : Combines(rows, theirs, ours, Apply(Tree(rows, ours), MergeRow(rows, theirs, ours, strategy).delta))
      BY <1>0, MergeRowCombines
    <3> QED
      BY <2>1, <2>2, <3>1, <3>2
  <2>5. call'[p] = [op |-> "merge", into |-> into, ours |-> ours, theirs |-> theirs, row |-> row]
    BY <1>0, <2>1, <2>2
  <2> QED
    BY <2>3, <2>4, <2>5 DEF CallRight
<1>3. CASE ~(StartCommit(p) \/ StartCherryPick(p) \/ StartSquash(p) \/ ContinueSession(p) \/ StartMerge(p) \/ StartKnowledgeMerge(p))
  <2>1. call'[p].op \notin {"commit", "pick", "squash", "merge"}
    <3>1. CASE SqliteCommit(p) \/ PgCommit(p) \/ CreateBranch(p) \/ SqliteSwitchHead(p) \/ PgSwitchHead(p) \/ CreateTag(p)
           \/ FastForward(p) \/ Merge(p) \/ SqliteSquash(p) \/ PgSquash(p) \/ SqliteGc(p) \/ MarkCompleted(p) \/ Stop(p)
      <4>1. End(p)
        BY <3>1, Zenon DEF SqliteCommit, PgCommit, CreateBranch, SqliteSwitchHead, PgSwitchHead, CreateTag,
           FastForward, Merge, SqliteSquash, PgSquash, SqliteGc, MarkCompleted, Stop, Refused
      <4> QED
        BY <1>0, <4>1 DEF End, Idle
    <3>2. CASE CherryPick(p) \/ RebaseStep(p) \/ Rebase(p)
      <4>1. End(p) \/ EndOrMark(p) \/ (call[p].op = "rebase" /\ RebaseStep(p) /\ ~Refused(p))
        BY <3>2, Zenon DEF CherryPick, RebaseStep, Rebase, Refused, Finishes
      <4>2. CASE End(p) \/ EndOrMark(p)
        BY <1>0, <4>2 DEF End, EndOrMark, Begin, Idle
      <4>3. CASE call[p].op = "rebase" /\ RebaseStep(p) /\ ~Refused(p)
        <5>1. PICK c \in RebaseCalls : c = call[p]
          BY <4>3, CallOf, CallKinds
        <5>2. call'[p] = [c EXCEPT !.target = Next1, !.todo = Tail(c.todo), !.first = NULL]
          BY <1>0, <4>3, <5>1, RebaseStepIs
        <5>3. call'[p].op = "rebase"
          BY <5>1, <5>2 DEF RebaseCalls
        <5> QED
          BY <5>3
      <4> QED
        BY <4>1, <4>2, <4>3
    <3>3. CASE StartSwitchHead(p) \/ StartCreateTag(p) \/ StartCreateBranch(p) \/ StartRebase(p) \/ StartGc(p)
      <4>1. call'[p].op \in {"switch", "tag", "branch", "rebase", "gc"}
        BY <1>0, <3>3 DEF StartSwitchHead, StartCreateTag, StartCreateBranch, StartRebase, StartGc, Begin
      <4> QED
        BY <4>1
    <3>4. CASE DeleteBranch(p) \/ BeginSession(p) \/ AbortSession(p)
      BY <3>4 DEF DeleteBranch, BeginSession, AbortSession
    <3>5. CASE PgGc(p)
      BY <3>5 DEF PgGc
    <3> QED
      BY <1>3, <3>1, <3>2, <3>3, <3>4, <3>5, Zenon DEF VersionStep
  <2> QED
    BY <2>1 DEF CallRight
<1> QED
  BY <1>1, <1>2, <1>3

LEMMA StepMergesRight ==
  ASSUME VersionTyped, MergesRight, NEW p \in Callers, VersionStep(p)
  PROVE  MergesRight'
<1>0. Sqlite' = Sqlite
  BY RowsChange DEF Sqlite
<1>1. SUFFICES ASSUME Sqlite
               PROVE  /\ \A c \in Alive(rows') : CommitRight(rows', c)
                      /\ \A q \in Callers : CallRight(rows', call'[q])
  BY <1>0 DEF MergesRight
<1>2. \A c \in Alive(rows) : CommitRight(rows, c)
  BY <1>1 DEF MergesRight
<1>3. \A q \in Callers : CallRight(rows, call[q])
  BY <1>1 DEF MergesRight
<1>4. rows \in Graphs
  BY RefsAre
<1>5. ASSUME NEW c \in Alive(rows') PROVE CommitRight(rows', c)
  <2>1. rows'[c] # NULL
    BY DEF Alive
  <2>2. CASE rows[c] # NULL /\ c \in Commits
    <3>1. c \in Alive(rows)
      BY <1>4, <2>2 DEF Alive, Graphs
    <3>2. CommitRight(rows, c)
      BY <1>2, <3>1
    <3> QED
      BY <1>1, <2>1, <3>1, <3>2, CommitRightKept
  <2>3. CASE ~(rows[c] # NULL /\ c \in Commits)
    <3>1. CASE rows' = rows
      BY <1>4, <2>1, <2>3, <3>1 DEF Alive, Graphs
    <3>2. CASE Inserted(CallRow(call[p]))
      <4>1. rows' \in Graphs /\ \A x \in Commits : x # made + 1 => rows'[x] = rows[x]
        BY <3>2, InsertedKeeps
      <4>2. c \in Commits
        BY <4>1 DEF Alive, Graphs
      <4>3. c = made + 1
        BY <2>1, <2>3, <4>1, <4>2
      <4> QED
        BY <1>1, <3>2, <4>3, NewRight
    <3>3. CASE Collected(call[p].victims)
      <4>1. rows' \in Graphs /\ \A x \in Commits : rows'[x] # NULL => rows'[x] = rows[x]
        BY <3>3, CollectKeeps
      <4>2. c \in Commits
        BY <4>1 DEF Alive, Graphs
      <4> QED
        BY <2>1, <2>3, <4>1, <4>2
    <3> QED
      BY <1>1, <3>1, <3>2, <3>3, RowsChange
  <2> QED
    BY <2>2, <2>3
<1>6. ASSUME NEW q \in Callers PROVE CallRight(rows', call'[q])
  <2>1. CASE call'[q] = call[q]
    <3>1. CallRight(rows', call[q])
      BY <1>1, <1>3, CallRightKept
    <3> QED
      BY <2>1, <3>1
  <2>2. CASE call'[q] # call[q]
    <3>1. q = p
      BY <2>2, OtherCalls
    <3> QED
      BY <1>1, <2>2, <3>1, CallStartsRight
  <2> QED
    BY <2>1, <2>2
<1> QED
  BY <1>5, <1>6

LEMMA InitMergesRight == ASSUME VersionInit PROVE MergesRight
<1>1. ASSUME NEW c \in Alive(rows) PROVE CommitRight(rows, c)
  <2>1. CASE scene.forked
    <3>1. rows[c].kind = "commit"
      BY <2>1 DEF VersionInit, Forked, Alive, NewRow
    <3> QED
      BY <3>1 DEF CommitRight
  <2>2. CASE ~scene.forked
    BY <2>2 DEF VersionInit, Empty, Alive
  <2> QED
    BY <2>1, <2>2
<1>2. \A p \in Callers : CallRight(rows, call[p])
  BY DEF VersionInit, Idle, CallRight
<1> QED
  BY <1>1, <1>2 DEF MergesRight

LEMMA StutterMergesRight == ASSUME MergesRight, UNCHANGED versionVars PROVE MergesRight'
<1>1. Sqlite' = Sqlite /\ rows' = rows /\ call' = call
  BY DEF versionVars, Sqlite
<1> QED
  BY <1>1 DEF MergesRight

(* A commit of a SQLite store whose kind is merge is the three-way merge of its     *)
(* parents, over an ancestor common to both that no common ancestor is nearer to    *)
(* the first parent than: whatever is committed, squashed or collected between the  *)
(* read of the two trees and the insertion, and afterwards.                         *)
THEOREM MergesAreThreeWay == VersionSpec => []MergeIsThreeWay
<1>1. VersionInit => MergesRight
  BY InitMergesRight
<1>2. VersionTyped /\ MergesRight /\ [VersionNext]_versionVars => MergesRight'
  BY StepMergesRight, StutterMergesRight DEF VersionNext
<1>3. VersionTyped /\ MergesRight => MergeIsThreeWay
  <2>1. SUFFICES ASSUME Sqlite, MergesRight, NEW c \in Alive(rows), rows[c].kind = "merge"
                 PROVE  \E base \in Opt(Commits) :
                          /\ NearestBase(rows, rows[c].parents[2], rows[c].parents[1], base)
                          /\ ThreeWay(TreeOrEmpty(rows, base), Tree(rows, rows[c].parents[1]),
                                      Tree(rows, rows[c].parents[2]), Tree(rows, c))
    BY DEF MergeIsThreeWay
  <2>2. PICK ours \in Commits, theirs \in Commits :
          rows[c].parents = <<ours, theirs>> /\ Combines(rows, theirs, ours, Tree(rows, c))
    BY <2>1 DEF MergesRight, CommitRight
  <2>3. rows[c].parents[1] = ours /\ rows[c].parents[2] = theirs
    BY <2>2
  <2> QED
    BY <2>2, <2>3 DEF Combines
<1> QED
  BY <1>1, <1>2, <1>3, VersionSpecTyped, PTL DEF VersionSpec

=============================================================================
