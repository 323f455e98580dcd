--------------------------- MODULE MCVersionStore ---------------------------
(* The SQL version stores and the store the tests use, with change sets that *)
(* touch one URI or rename one, and what is learnt from the histories: each  *)
(* alone, a behaviour belongs to one part.                                   *)
EXTENDS VersionStore, MemoryVersions, VersionLearning, TLC

CONSTANTS u1, u2

Entry(b) == [form |-> "entry", body |-> b]
Change(u, op) == [w \in Uris |-> IF w = u THEN op ELSE Keep]

PutY(u) == Change(u, Put(Entry("y")))
Symmetry == Permutations(Callers) \cup Permutations(Branches)

\* A scope whose first commit adds u1 and whose branches point to it.
Forked2(store, ops, callers, commits, changes) ==
  [store |-> store, ops |-> ops, callers |-> callers, commits |-> commits, changes |-> changes,
   forked |-> TRUE, first |-> Change(u1, Put(Entry("x")))]
New2(store, ops, callers, commits, changes) ==
  [Forked2(store, ops, callers, commits, changes) EXCEPT !.forked = FALSE]

\* Every operation of both stores, with the others whose interplay matters.
ManyScenes == UNION {
  {New2(s, {"commit", "branch", "switch"}, 2, 2, {PutY(u1)}),
   Forked2(s, {"commit", "switch", "merge", "knowledge"}, 1, 4, {PutY(u1), PutY(u2), Change(u1, Erase)}),
   Forked2(s, {"commit", "switch", "merge"}, 2, 3, {PutY(u2), Change(u1, Erase)}),
   Forked2(s, {"commit", "branch", "unbranch", "switch", "gc"}, 1, 3, {PutY(u1)}),
   Forked2(s, {"commit", "squash", "gc", "tag"}, 1, 4, {PutY(u2), Change(u2, RenameFrom(u1))}),
   Forked2(s, {"commit", "pick", "rebase"}, 2, 3, {PutY(u2)})} : s \in {"sqlite", "postgres"}}
  \cup
  {Forked2("sqlite", {"commit", "switch", "squash"}, 2, 4, {PutY(u1)}),
   Forked2("sqlite", {"commit", "switch", "pick"}, 1, 4, {PutY(u1), Change(u1, Erase)}),
   Forked2("sqlite", {"commit", "switch", "rebase"}, 1, 4, {PutY(u1), Change(u1, Erase)}),
   Forked2("sqlite", {"commit", "switch", "session"}, 2, 3, {PutY(u1), Change(u1, Erase)})}

\* A branch that was merged is merged again, from an older and a newer commit.
MergeScenes ==
  {Forked2(s, {"commit", "branch", "unbranch", "merge"}, 1, 5, {PutY(u2), Change(u2, Erase)}) : s \in {"sqlite", "postgres"}}

MemScene(ops, commits, changes) == [ops |-> ops, commits |-> commits, changes |-> changes]
MemoryScenes ==
  {MemScene({"commit", "branch", "switch", "merge"}, 4, {PutY(u1), PutY(u2)}),
   MemScene({"commit", "branch", "switch", "merge", "knowledge"}, 3, {PutY(u1), Change(u1, Erase)}),
   MemScene({"commit", "branch", "switch", "pick", "rebase"}, 3, {PutY(u1), PutY(u2)}),
   MemScene({"commit", "branch", "squash", "gc", "unbranch", "tag"}, 3, {PutY(u1), Change(u2, RenameFrom(u1))})}

CausalChange(kind, uri, to) == {[kind |-> kind, uri |-> uri, to |-> to]}
FourChanges ==
  {CausalChange("add", 1, 1), CausalChange("update", 2, 2), CausalChange("delete", 3, 3), CausalChange("rename", 1, 2)}

DreamCommit(adds, updates) == [adds |-> adds, updates |-> updates]
ThreeCommits == {DreamCommit(<<1, 2>>, <<>>), DreamCommit(<<1>>, <<3>>), DreamCommit(<<3>>, <<1>>)}
TwoClusters == <<1, 1, 2>>

VARIABLE part

vars == <<part, versionVars, memVersionVars, causalVars, dreamVars, beliefVars>>

Only(p) ==
  /\ part = p /\ UNCHANGED part
  /\ p # "sql" => UNCHANGED versionVars
  /\ p # "memory" => UNCHANGED memVersionVars
  /\ p # "causes" => UNCHANGED causalVars
  /\ p # "dreams" => UNCHANGED dreamVars
  /\ p # "beliefs" => UNCHANGED beliefVars

Init ==
  /\ part \in {"sql", "memory", "causes", "dreams", "beliefs"}
  /\ VersionInit /\ MemVersionsInit /\ CausalInit /\ DreamInit /\ BeliefsInit
  /\ part # "sql" => scene = CHOOSE s \in ManyScenes : TRUE
  /\ part # "memory" => memScene = CHOOSE s \in MemoryScenes : TRUE

Next ==
  \/ Only("sql") /\ VersionNext
  \/ Only("memory") /\ MemVersionsNext
  \/ Only("causes") /\ CausalNext
  \/ Only("dreams") /\ DreamNext
  \/ Only("beliefs") /\ BeliefsNext

\* The tables refer to what exists, and derived answers agree with the commits they are
\* derived from, in the SQL stores and in the store of the tests.
AnswersAgree == VersionTypeOK /\ QueriesAgree /\ MemoryAgrees

\* What is learnt from the histories.
LearningSound == CausalSound /\ DreamsSound /\ BeliefsSound

Spec == Init /\ [][Next]_vars
=============================================================================
