---------------------------- MODULE MemoryVersions ----------------------------
(* MemoryVersionStore, the version store the tests of the other crates run   *)
(* against: a snapshot per commit instead of deltas, one call at a time.     *)
(* Beside the snapshots the model keeps the rows that a SQL store would have *)
(* written for the same calls (VersionGraph), to compare what they show.     *)
EXTENDS VersionGraph

CONSTANTS
  MemBranches,
  MemTags,
  MemScenes          \* [ops, commits, changes]: the operations in use, how many commits they
                     \* make and the change sets these carry

VARIABLES
  memScene,
  memRows,           \* what a SQL store would hold
  memMade,
  memCommits,        \* commits: the ids that are there
  memSnaps,          \* entry_snapshots
  memHead, memAttached, memBranchHeads, memTagTargets

memRefs == <<memHead, memAttached, memBranchHeads, memTagTargets>>
memVersionVars == <<memScene, memRows, memMade, memCommits, memSnaps, memRefs>>

\* MemoryVersionStore::new
MemVersionsInit ==
  /\ memScene \in MemScenes
  /\ memRows = [c \in Commits |-> NULL] /\ memMade = 0
  /\ memCommits = {} /\ memSnaps = [c \in Commits |-> NULL]
  /\ memHead = NULL /\ memAttached = NULL
  /\ memBranchHeads = [b \in MemBranches |-> NULL] /\ memTagTargets = [g \in MemTags |-> NULL]

\* A snapshot that is gone is read as an empty one.
SnapOf(c) == IF c = NULL \/ memSnaps[c] = NULL THEN EmptyTree ELSE memSnaps[c]
NextMem == memMade + 1
MemRoom == memMade < memScene.commits
MemUses(op) == op \in memScene.ops /\ UNCHANGED memScene

Record(row, snap) ==
  /\ MemRoom
  /\ memRows' = [memRows EXCEPT ![NextMem] = row] /\ memMade' = NextMem
  /\ memCommits' = memCommits \cup {NextMem} /\ memSnaps' = [memSnaps EXCEPT ![NextMem] = snap]

NoRecord == UNCHANGED <<memRows, memMade, memCommits, memSnaps>>

\* commit: the attached branch moves with HEAD and has to be where HEAD is.
MemCommit ==
  /\ MemUses("commit")
  /\ memAttached # NULL => memBranchHeads[memAttached] # NULL /\ memBranchHeads[memAttached] = memHead
  /\ \E d \in memScene.changes :
       Record(NewRow(IF memHead = NULL THEN <<>> ELSE <<memHead>>, d, "commit", NULL), Apply(SnapOf(memHead), d))
  /\ memHead' = NextMem
  /\ memBranchHeads' = IF memAttached = NULL THEN memBranchHeads ELSE [memBranchHeads EXCEPT ![memAttached] = NextMem]
  /\ UNCHANGED <<memAttached, memTagTargets>>

MemCreateBranch ==
  /\ MemUses("branch")
  /\ \E b \in MemBranches, c \in memCommits : memBranchHeads[b] = NULL /\ memBranchHeads' = [memBranchHeads EXCEPT ![b] = c]
  /\ NoRecord /\ UNCHANGED <<memHead, memAttached, memTagTargets>>

\* Also the branch that HEAD is attached to.
MemDeleteBranch ==
  /\ MemUses("unbranch")
  /\ \E b \in MemBranches : memBranchHeads[b] # NULL /\ memBranchHeads' = [memBranchHeads EXCEPT ![b] = NULL]
  /\ NoRecord /\ UNCHANGED <<memHead, memAttached, memTagTargets>>

MemCreateTag ==
  /\ MemUses("tag")
  /\ \E g \in MemTags, c \in 1..memMade : memTagTargets' = [memTagTargets EXCEPT ![g] = c]
  /\ NoRecord /\ UNCHANGED <<memHead, memAttached, memBranchHeads>>

MemSwitchHead ==
  /\ MemUses("switch")
  /\ \E b \in MemBranches : memBranchHeads[b] # NULL /\ memHead' = memBranchHeads[b] /\ memAttached' = b
  /\ NoRecord /\ UNCHANGED <<memBranchHeads, memTagTargets>>

\* is_ancestor and merge_base walk the commits that are there.
MemRows == [c \in Commits |-> IF c \in memCommits THEN memRows[c] ELSE NULL]

\* HEAD follows when it is attached to the branch that is merged into.
MoveInto(into, c) ==
  /\ memBranchHeads' = [memBranchHeads EXCEPT ![into] = c]
  /\ memHead' = IF memAttached = into THEN c ELSE memHead
  /\ UNCHANGED <<memAttached, memTagTargets>>

MemMerge ==
  /\ MemUses("merge")
  /\ \E from, into \in MemBranches, strategy \in {"ff", "three-way", "ours", "theirs"} :
       LET theirs == memBranchHeads[from]
           ours == memBranchHeads[into]
       IN /\ theirs # NULL /\ ours # NULL
          /\ IF IsAncestor(MemRows, ours, theirs) THEN NoRecord /\ MoveInto(into, theirs)
             ELSE /\ strategy # "ff"
                  /\ Record(MergeRow(memRows, theirs, ours, strategy),
                            Merged(SnapOf(MergeBase(MemRows, theirs, ours)), SnapOf(ours), SnapOf(theirs), strategy))
                  /\ MoveInto(into, NextMem)

\* A union of the snapshots in which the later side, by its commit's second and
\* then by the branch's name, wins.  HEAD moves to the new commit, whatever it is
\* attached to, and does not move in a fast-forward.
MemKnowledgeMerge ==
  /\ MemUses("knowledge")
  /\ \E from, into \in MemBranches, theirsWin \in BOOLEAN :
       LET theirs == memBranchHeads[from]
           ours == memBranchHeads[into]
       IN /\ theirs # NULL /\ ours # NULL
          /\ IF IsAncestor(MemRows, ours, theirs)
             THEN /\ NoRecord /\ UNCHANGED <<memHead, memAttached, memTagTargets>>
                  /\ memBranchHeads' = [memBranchHeads EXCEPT ![into] = theirs]
             ELSE /\ Record(KnowledgeRow(memRows, theirs, ours, theirsWin),
                            [u \in Uris |-> IF SnapOf(ours)[u] = NULL \/ (SnapOf(theirs)[u] # NULL /\ theirsWin)
                                            THEN SnapOf(theirs)[u] ELSE SnapOf(ours)[u]])
                  /\ memBranchHeads' = [memBranchHeads EXCEPT ![into] = NextMem]
                  /\ memHead' = NextMem /\ UNCHANGED <<memAttached, memTagTargets>>

\* What a pick changes, where the target has changed it too, and the result.
PickChanged(c) == {u \in Uris : SnapOf(FirstParent(MemRows, c))[u] # SnapOf(c)[u]}
PickClash(c, target) ==
  {u \in PickChanged(c) : SnapOf(target)[u] \notin {SnapOf(FirstParent(MemRows, c))[u], SnapOf(c)[u]}}
Picked(c, target, strategy) ==
  [u \in Uris |-> IF u \in PickChanged(c) /\ (strategy = "ours" => u \notin PickClash(c, target))
                  THEN SnapOf(c)[u] ELSE SnapOf(target)[u]]

\* cherry_pick onto a branch that exists: HEAD moves to the new commit in any case.
MemPick(c, onto, strategy) ==
  /\ strategy = "fail" => PickClash(c, memBranchHeads[onto]) = {}
  /\ Record(NewRow(<<memBranchHeads[onto]>>, Diff(SnapOf(memBranchHeads[onto]), Picked(c, memBranchHeads[onto], strategy)),
                   "pick", c),
            Picked(c, memBranchHeads[onto], strategy))
  /\ memHead' = NextMem /\ UNCHANGED <<memAttached, memTagTargets>>

MemCherryPick ==
  /\ MemUses("pick")
  /\ \E c \in memCommits, onto \in MemBranches, strategy \in {"fail", "ours", "theirs"} :
       /\ memBranchHeads[onto] # NULL /\ MemPick(c, onto, strategy)
       /\ memBranchHeads' = [memBranchHeads EXCEPT ![onto] = NextMem]

\* rebase picks the tip alone, which moves both branches to it.
MemRebase ==
  /\ MemUses("rebase")
  /\ \E b, onto \in MemBranches, strategy \in {"fail", "ours", "theirs"} :
       /\ b # onto /\ memBranchHeads[b] \in memCommits /\ memBranchHeads[onto] # NULL
       /\ MemPick(memBranchHeads[b], onto, strategy)
       /\ memBranchHeads' = [memBranchHeads EXCEPT ![b] = NextMem, ![onto] = NextMem]

Squashed(oldest, newest) == SnapOf(newest)

MemSquash ==
  /\ MemUses("squash")
  /\ \E newest \in memCommits : \E oldest \in (Chain(MemRows, newest) \ {newest}) \cap memCommits :
       /\ memHead = newest \/ \E b \in MemBranches : memBranchHeads[b] = newest
       /\ Record(SquashRow(memRows, oldest, newest), Squashed(oldest, newest))
       /\ memBranchHeads' = [b \in MemBranches |-> IF memBranchHeads[b] = newest THEN NextMem ELSE memBranchHeads[b]]
       /\ memHead' = IF memHead = newest THEN NextMem ELSE memHead
  /\ UNCHANGED <<memAttached, memTagTargets>>

\* log: along first parents only.
MemLog(c) == IF c = NULL \/ c \notin memCommits THEN {} ELSE Chain(MemRows, c) \cap memCommits

\* gc: what HEAD's log shows beyond the commits to keep, referenced or not.
MemGc ==
  /\ MemUses("gc")
  /\ \E keep \in 0..2 :
       LET gone == {c \in MemLog(memHead) : Cardinality({d \in MemLog(memHead) : d > c}) >= keep}
       IN /\ gone # {}
          /\ memCommits' = memCommits \ gone
          /\ memSnaps' = [c \in Commits |-> IF c \in gone THEN NULL ELSE memSnaps[c]]
  /\ UNCHANGED <<memRows, memMade, memRefs>>

MemVersionsNext ==
  \/ MemCommit \/ MemCreateBranch \/ MemDeleteBranch \/ MemCreateTag \/ MemSwitchHead \/ MemMerge
  \/ MemKnowledgeMerge \/ MemCherryPick \/ MemRebase \/ MemSquash \/ MemGc

\* evolution: the commits whose snapshot has the URI.
MemEvolution(u) == {c \in memCommits : SnapOf(c)[u] # NULL}

MemDiff(a, b) ==
  [adds |-> {u \in Uris : SnapOf(a)[u] = NULL /\ SnapOf(b)[u] # NULL},
   updates |-> {u \in Uris : SnapOf(a)[u] # NULL /\ SnapOf(b)[u] # NULL /\ SnapOf(a)[u] # SnapOf(b)[u]},
   deletes |-> {u \in Uris : SnapOf(a)[u] # NULL /\ SnapOf(b)[u] = NULL}]

\* Commits with all of their history.
Whole == {c \in memCommits : Reach(memRows, c) \subseteq memCommits}

(***************************************************************************)
(* The store the tests trust shows what the SQL stores would show: commits,*)
(* merges, knowledge merges and squashes hold the snapshot that a replay   *)
(* of the rows gives, as long as their history is there; a pick leaves     *)
(* what it did not change as it was; log and evolution leave out no more   *)
(* than the merged sides and the deletions (commit, merge, squash,         *)
(* cherry_pick, diff_commits, log, evolution).                             *)
(***************************************************************************)
MemoryAgrees ==
  /\ \A c \in Whole : memSnaps[c] = Tree(memRows, c)
  /\ \A a, b \in Whole : MemDiff(a, b) = TreeDiff(memRows, a, b)
  /\ \A c \in Whole : MemLog(c) \subseteq Log(MemRows, c)
  /\ \A u \in Uris, c \in Whole : c \in Evolution(MemRows, u) /\ Tree(memRows, c)[u] # NULL => c \in MemEvolution(u)
  /\ \A c \in Whole : memRows[c].kind = "pick" /\ memRows[c].picked \in Whole =>
       \A u \in Uris \ PickChanged(memRows[c].picked) : memSnaps[c][u] = SnapOf(FirstParent(memRows, c))[u]
=============================================================================
