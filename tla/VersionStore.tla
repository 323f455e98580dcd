---------------------------- MODULE VersionStore ----------------------------
(* SqliteVersionStore and PgVersionStore: the versions of one scope.  Every *)
(* operation of the two stores reads branches and commits first and ends in *)
(* a transaction that compares what it read; the steps in between belong to *)
(* other callers.  Commits are immutable, so what an operation computes     *)
(* from them is computed where it reads them.                               *)
(*                                                                          *)
(* A task that stops between two steps (an error, a dropped future, a       *)
(* process that ends) rolls its transaction back and leaves the steps it    *)
(* has committed: Stop.                                                     *)
EXTENDS VersionGraph

CONSTANTS
  Scenes,        \* what is explored together: see Scene
  Callers,       \* concurrent callers of the store
  Branches,
  Tags,
  MaxSessions,   \* bounds the persisted conflict sessions
  GcAlone        \* whether gc runs while no other caller is in the store

Operations == {"commit", "branch", "unbranch", "switch", "tag", "merge", "knowledge", "pick", "rebase",
               "squash", "gc", "session"}

VARIABLES
  scene,         \* the store, the operations in use and their bounds; never changes
  rows,          \* version_commits with parents and deltas
  made,          \* commits made so far
  head,          \* version_heads.commit_id, NULL without a row
  attached,      \* version_heads.attached_branch
  branches,      \* version_branches: name to head
  tags,          \* version_tags: name to target
  sessions,      \* version_conflict_sessions
  call           \* call[p]: the operation p is in, with what it has read

refs == <<head, attached, branches, tags>>
versionVars == <<scene, rows, made, head, attached, branches, tags, sessions, call>>

\* ops: the operations callers use; callers: how many are in the store at a time;
\* commits: how many commits are made; changes: the change sets that commits
\* carry, first that of a first commit; forked: whether the scope starts with a
\* commit that every branch points to and HEAD is attached to one of them.
Scene == [store : {"sqlite", "postgres"}, ops : SUBSET Operations, callers : 1..Cardinality(Callers),
          commits : Commits, forked : BOOLEAN, first : DeltaSets, changes : SUBSET DeltaSets]
ASSUME ScenesAssumption == Scenes \subseteq Scene
ASSUME SessionsAssumption == MaxSessions \in Nat

Sqlite == scene.store = "sqlite"
Idle == [op |-> "idle"]

Empty ==
  /\ rows = [c \in Commits |-> NULL]
  /\ made = 0
  /\ head = NULL
  /\ attached = NULL
  /\ branches = [b \in Branches |-> NULL]

\* After a first commit, create_branch for every branch and switch_head.
Forked ==
  /\ rows = [c \in Commits |-> IF c = 1 THEN NewRow(<<>>, scene.first, "commit", NULL) ELSE NULL]
  /\ made = 1
  /\ head = 1
  /\ attached \in IF Sqlite THEN Branches ELSE {NULL}
  /\ branches = [b \in Branches |-> 1]

VersionInit ==
  /\ scene \in Scenes
  /\ IF scene.forked THEN Forked ELSE Empty
  /\ tags = [g \in Tags |-> NULL]
  /\ sessions = <<>>
  /\ call = [p \in Callers |-> Idle]

Begin(p, c) == call' = [call EXCEPT ![p] = c]
End(p) == call' = [call EXCEPT ![p] = Idle]

Collecting == \E p \in Callers : call[p].op = "gc"

\* p starts an operation of kind op.
Starts(p, op) ==
  /\ op \in scene.ops
  /\ Cardinality({q \in Callers : call[q] # Idle}) < scene.callers
  /\ call[p] = Idle
  /\ GcAlone => ~Collecting
  /\ UNCHANGED <<scene, rows, made, sessions>>

\* p is about to finish an operation of kind op.
Finishes(p, op) ==
  /\ call[p].op = op
  /\ UNCHANGED scene

\* SQLite refuses a commit row whose parent is gone: a foreign key.
ParentsExist(row) == Sqlite => \A i \in DOMAIN row.parents : rows[row.parents[i]] # NULL

\* insert_commit_row and insert_deltas: the next commit.
Next1 == made + 1
InsertCommit(row) ==
  /\ rows' = [rows EXCEPT ![Next1] = row]
  /\ made' = Next1

Room == made < scene.commits

\* Without the comparison.
BranchExists(b, c) == c = NULL \/ branches[b] # NULL

\* update_branch_head succeeds only while the branch is where it was read.
BranchIs(b, c) == branches[b] = c
MoveBranch(b, c) == branches' = [branches EXCEPT ![b] = c]

\* The transaction is rolled back and the caller gets an error.
Refused(p) ==
  /\ End(p)
  /\ UNCHANGED <<rows, made, refs, sessions>>

-----------------------------------------------------------------------------
\* commit: the parent is the HEAD read before the transaction.
StartCommit(p) ==
  /\ Starts(p, "commit")
  /\ Room
  /\ \E d \in scene.changes :
       Begin(p, [op |-> "commit",
                 parent |-> head,
                 row |-> NewRow(IF head = NULL THEN <<>> ELSE <<head>>, d, "commit", NULL)])
  /\ UNCHANGED refs

\* SQLite moves the attached branch with HEAD; a new scope starts detached.
SqliteCommit(p) ==
  /\ Sqlite
  /\ Finishes(p, "commit")
  /\ Room
  /\ LET c == call[p]
     IN IF /\ head = c.parent
           /\ ParentsExist(c.row)
           /\ c.parent # NULL /\ attached # NULL => BranchIs(attached, c.parent)
        THEN /\ InsertCommit(c.row)
             /\ head' = Next1
             /\ IF c.parent # NULL /\ attached # NULL
                THEN MoveBranch(attached, Next1)
                ELSE UNCHANGED branches
             /\ End(p)
             /\ UNCHANGED <<attached, tags, sessions>>
        ELSE Refused(p)

\* PostgreSQL takes an advisory lock, compares HEAD and moves HEAD only.
PgCommit(p) ==
  /\ ~Sqlite
  /\ Finishes(p, "commit")
  /\ Room
  /\ IF head = call[p].parent
     THEN /\ InsertCommit(call[p].row)
          /\ head' = Next1
          /\ End(p)
          /\ UNCHANGED <<attached, branches, tags, sessions>>
     ELSE Refused(p)

-----------------------------------------------------------------------------
\* create_branch: SQLite checks that the commit exists, PostgreSQL does not.
StartCreateBranch(p) ==
  /\ Starts(p, "branch")
  /\ \E b \in Branches, c \in 1..made :
       /\ branches[b] = NULL
       /\ Sqlite => rows[c] # NULL
       /\ Begin(p, [op |-> "branch", name |-> b, at |-> c])
  /\ UNCHANGED refs

\* The primary key refuses a name that was taken in between.
CreateBranch(p) ==
  /\ Finishes(p, "branch")
  /\ IF BranchIs(call[p].name, NULL)
     THEN /\ MoveBranch(call[p].name, call[p].at)
          /\ End(p)
          /\ UNCHANGED <<rows, made, head, attached, tags, sessions>>
     ELSE Refused(p)

\* SQLite keeps the branch HEAD is attached to (a foreign key); PostgreSQL
\* attaches HEAD to no branch.
DeleteBranch(p) ==
  /\ Starts(p, "unbranch")
  /\ \E b \in Branches :
       /\ branches[b] # NULL
       /\ attached # b
       /\ MoveBranch(b, NULL)
  /\ UNCHANGED <<head, attached, tags, call>>

StartSwitchHead(p) ==
  /\ Starts(p, "switch")
  /\ \E b \in Branches :
       /\ branches[b] # NULL
       /\ Begin(p, [op |-> "switch", name |-> b, to |-> branches[b]])
  /\ UNCHANGED refs

\* An UPDATE: nothing without a HEAD row, refused when the branch or the commit
\* is gone (foreign keys).  It stores the head read before.
SqliteSwitchHead(p) ==
  /\ Sqlite
  /\ Finishes(p, "switch")
  /\ IF head # NULL /\ branches[call[p].name] # NULL /\ rows[call[p].to] # NULL
     THEN /\ head' = call[p].to
          /\ attached' = call[p].name
          /\ End(p)
          /\ UNCHANGED <<rows, made, branches, tags, sessions>>
     ELSE Refused(p)

\* set_head: an upsert of the commit alone.
PgSwitchHead(p) ==
  /\ ~Sqlite
  /\ Finishes(p, "switch")
  /\ head' = call[p].to
  /\ End(p)
  /\ UNCHANGED <<rows, made, attached, branches, tags, sessions>>

StartCreateTag(p) ==
  /\ Starts(p, "tag")
  /\ \E g \in Tags, c \in 1..made :
       /\ Sqlite => rows[c] # NULL
       /\ Begin(p, [op |-> "tag", name |-> g, at |-> c])
  /\ UNCHANGED refs

\* An upsert whatever the type of the tag it replaces.
CreateTag(p) ==
  /\ Finishes(p, "tag")
  /\ tags' = [tags EXCEPT ![call[p].name] = call[p].at]
  /\ End(p)
  /\ UNCHANGED <<rows, made, head, attached, branches, sessions>>

-----------------------------------------------------------------------------
\* merge and knowledge_merge read the two heads; row is NULL for a fast-forward.
StartMerge(p) ==
  /\ Starts(p, "merge")
  /\ \E from \in Branches, into \in Branches, strategy \in {"ours", "theirs"} :
       /\ branches[from] # NULL /\ branches[into] # NULL
       /\ Begin(p, [op |-> "merge", into |-> into, ours |-> branches[into], theirs |-> branches[from],
                    row |-> IF IsAncestor(rows, branches[into], branches[from]) THEN NULL
                            ELSE MergeRow(rows, branches[from], branches[into], strategy)])
  /\ UNCHANGED refs

StartKnowledgeMerge(p) ==
  /\ Starts(p, "knowledge")
  /\ \E from \in Branches, into \in Branches, theirsWin \in BOOLEAN :
       /\ branches[from] # NULL /\ branches[into] # NULL
       /\ Begin(p, [op |-> "merge", into |-> into, ours |-> branches[into], theirs |-> branches[from],
                    row |-> IF IsAncestor(rows, branches[into], branches[from]) THEN NULL
                            ELSE KnowledgeRow(rows, branches[from], branches[into], theirsWin)])
  /\ UNCHANGED refs

\* advance_head_if_matches: HEAD has to be where into was, whatever it is
\* attached to.
MergeHolds(c) ==
  /\ BranchIs(c.into, c.ours)
  /\ head = c.ours
  /\ c.row # NULL => ParentsExist(c.row)

FastForward(p) ==
  /\ Finishes(p, "merge")
  /\ call[p].row = NULL
  /\ IF MergeHolds(call[p]) /\ (Sqlite => rows[call[p].theirs] # NULL)
     THEN /\ MoveBranch(call[p].into, call[p].theirs)
          /\ head' = call[p].theirs
          /\ End(p)
          /\ UNCHANGED <<rows, made, attached, tags, sessions>>
     ELSE Refused(p)

Merge(p) ==
  /\ Finishes(p, "merge")
  /\ call[p].row # NULL
  /\ Room
  /\ IF MergeHolds(call[p])
     THEN /\ InsertCommit(call[p].row)
          /\ MoveBranch(call[p].into, Next1)
          /\ head' = Next1
          /\ End(p)
          /\ UNCHANGED <<attached, tags, sessions>>
     ELSE Refused(p)

-----------------------------------------------------------------------------
\* How a strategy resolves every conflict of a session.
ByStrategy(s, strategy) == [u \in s.conflicts |-> IF strategy = "theirs" THEN "theirs" ELSE "ours"]

\* cherry_pick: both commits have to exist; "fail" refuses any conflict.
StartCherryPick(p) ==
  /\ Starts(p, "pick")
  /\ \E c \in Alive(rows), b \in Branches, strategy \in {"fail", "ours", "theirs"} :
       /\ branches[b] # NULL
       /\ rows[branches[b]] # NULL
       /\ LET s == PickSession(rows, c, branches[b])
          IN /\ strategy = "fail" => s.conflicts = {}
             /\ Begin(p, [op |-> "pick", branch |-> b, target |-> branches[b], session |-> 0,
                          row |-> PickRow(rows, c, branches[b], Resolved(s, ByStrategy(s, strategy)))])
  /\ UNCHANGED refs

\* Where an operation goes on: a session that was continued by its id is marked.
EndOrMark(p) ==
  IF call[p].session = 0 THEN End(p)
  ELSE Begin(p, [op |-> "mark", session |-> call[p].session])

\* SQLite moves HEAD along when it is attached to the branch.
CherryPick(p) ==
  /\ Finishes(p, "pick")
  /\ Room
  /\ LET c == call[p]
     IN IF BranchIs(c.branch, c.target) /\ ParentsExist(c.row)
        THEN /\ InsertCommit(c.row)
             /\ MoveBranch(c.branch, Next1)
             /\ head' = IF Sqlite /\ head = c.target /\ attached = c.branch THEN Next1 ELSE head
             /\ EndOrMark(p)
             /\ UNCHANGED <<attached, tags, sessions>>
        ELSE Refused(p)

StartRebase(p) ==
  /\ Starts(p, "rebase")
  /\ \E b \in Branches, onto \in Branches, strategy \in {"fail", "ours", "theirs"} :
       /\ branches[b] # NULL /\ branches[onto] # NULL
       /\ Begin(p, [op |-> "rebase", branch |-> b, expect |-> branches[b], target |-> branches[onto],
                    todo |-> CommitsToRebase(rows, branches[b], branches[onto]),
                    strategy |-> strategy, first |-> NULL, session |-> 0])
  /\ UNCHANGED refs

\* Each commit is picked in a transaction of its own that moves no branch.  A
\* conflict halts the rebase; what was picked stays.
RebaseStep(p) ==
  /\ Finishes(p, "rebase")
  /\ call[p].todo # <<>>
  /\ Room
  /\ LET c == call[p]
         s == PickSession(rows, Head(c.todo), c.target)
         final == IF c.first # NULL THEN c.first ELSE Resolved(s, ByStrategy(s, c.strategy))
         row == PickRow(rows, Head(c.todo), c.target, final)
     IN IF /\ c.first # NULL \/ (rows[Head(c.todo)] # NULL /\ rows[c.target] # NULL)
           /\ c.first # NULL \/ c.strategy # "fail" \/ s.conflicts = {}
           /\ ParentsExist(row)
        THEN /\ InsertCommit(row)
             /\ Begin(p, [c EXCEPT !.target = Next1, !.todo = Tail(c.todo), !.first = NULL])
             /\ UNCHANGED <<refs, sessions>>
        ELSE Refused(p)

\* The branch moves last; HEAD stays even when it is attached to the branch.
Rebase(p) ==
  /\ Finishes(p, "rebase")
  /\ call[p].todo = <<>>
  /\ IF BranchIs(call[p].branch, call[p].expect)
     THEN /\ MoveBranch(call[p].branch, call[p].target)
          /\ EndOrMark(p)
          /\ UNCHANGED <<rows, made, head, attached, tags, sessions>>
     ELSE Refused(p)

\* SQLite demands a first-parent range, PostgreSQL takes any two commits.
StartSquash(p) ==
  /\ Starts(p, "squash")
  /\ \E oldest \in 1..made, newest \in 1..made :
       /\ oldest # newest
       /\ Sqlite => oldest \in Chain(rows, newest) /\ rows[newest] # NULL
       /\ Begin(p, [op |-> "squash", tip |-> newest, row |-> SquashRow(rows, oldest, newest)])
  /\ UNCHANGED refs

\* Every branch at the tip, and HEAD if it is there, moves to the new commit.
SqliteSquash(p) ==
  /\ Sqlite
  /\ Finishes(p, "squash")
  /\ Room
  /\ LET tip == call[p].tip
     IN IF /\ head = tip \/ \E b \in Branches : branches[b] = tip
           /\ ParentsExist(call[p].row)
        THEN /\ InsertCommit(call[p].row)
             /\ branches' = [b \in Branches |-> IF branches[b] = tip THEN Next1 ELSE branches[b]]
             /\ head' = IF head = tip THEN Next1 ELSE head
             /\ End(p)
             /\ UNCHANGED <<attached, tags, sessions>>
        ELSE Refused(p)

\* PostgreSQL adds the commit and moves nothing.
PgSquash(p) ==
  /\ ~Sqlite
  /\ Finishes(p, "squash")
  /\ Room
  /\ InsertCommit(call[p].row)
  /\ End(p)
  /\ UNCHANGED <<refs, sessions>>

-----------------------------------------------------------------------------
\* What the branches, the tags and HEAD point to.
Targets == ({head} \cup Range(branches) \cup Range(tags)) \ {NULL}
Protected == UNION {Reach(rows, c) : c \in Targets}

\* gc selects first: expired commits that nothing reaches and that are not
\* among the last few.
StartGc(p) ==
  /\ Starts(p, "gc")
  /\ GcAlone => \A q \in Callers : call[q] = Idle
  /\ \E cutoff \in 1..made, keepRecent \in 0..1 :
       LET recent == IF keepRecent = 0 \/ Alive(rows) = {} THEN {}
                     ELSE {CHOOSE c \in Alive(rows) : \A d \in Alive(rows) : d <= c}
           victims == {c \in Alive(rows) : c <= cutoff} \ (Protected \cup recent)
       IN /\ victims # {}
          /\ Begin(p, [op |-> "gc", victims |-> victims])
  /\ UNCHANGED refs

\* Without the foreign key on parent_id.
NoChildMatters(c) == FALSE

\* A row of version_commit_parents that names c as the parent.
HasChild(c) == \E d \in Alive(rows) : c \in Range(rows[d].parents)

\* One transaction, oldest first.  A parent row restricts the delete, so one
\* victim that any commit descends from, be it a victim too, refuses them all.
SqliteGc(p) ==
  /\ Sqlite
  /\ Finishes(p, "gc")
  /\ LET v == call[p].victims
     IN IF head \notin v /\ \A c \in v \cap Alive(rows) : ~HasChild(c)
        THEN /\ rows' = [c \in Commits |-> IF c \in v THEN NULL ELSE rows[c]]
             /\ End(p)
             /\ UNCHANGED <<made, refs, sessions>>
        ELSE Refused(p)

\* One statement per commit, oldest first, and nothing that restricts them.
PgGc(p) ==
  /\ ~Sqlite
  /\ Finishes(p, "gc")
  /\ LET v == call[p].victims
         c == CHOOSE x \in v : \A y \in v : x <= y
     IN /\ rows' = [rows EXCEPT ![c] = NULL]
        /\ IF v = {c} THEN End(p) ELSE Begin(p, [op |-> "gc", victims |-> v \ {c}])
  /\ UNCHANGED <<made, refs, sessions>>

-----------------------------------------------------------------------------
\* begin_cherry_pick and begin_rebase, persisted.  A rebase that has nothing to
\* pick answers without a session.
BeginSession(p) ==
  /\ "session" \in scene.ops
  /\ Cardinality({q \in Callers : call[q] # Idle}) < scene.callers
  /\ call[p] = Idle
  /\ Len(sessions) < MaxSessions
  /\ \/ \E c \in Alive(rows), b \in Branches :
          /\ branches[b] # NULL
          /\ rows[branches[b]] # NULL
          /\ sessions' = Append(sessions,
               [kind |-> "pick", branch |-> b, target |-> branches[b], commits |-> <<c>>,
                state |-> PickSession(rows, c, branches[b]), status |-> "open"])
     \/ \E b \in Branches, onto \in Branches :
          /\ branches[b] # NULL /\ branches[onto] # NULL
          /\ LET todo == CommitsToRebase(rows, branches[b], branches[onto])
             IN /\ todo # <<>>
                /\ sessions' = Append(sessions,
                     [kind |-> "rebase", branch |-> b, target |-> branches[onto], commits |-> todo,
                      state |-> PickSession(rows, Head(todo), branches[onto]), status |-> "open"])
  /\ UNCHANGED <<scene, rows, made, refs, call>>

\* continue_conflict_session_by_id loads an open session and every resolution.
ContinueSession(p) ==
  /\ Starts(p, "session")
  /\ \E i \in DOMAIN sessions :
       LET s == sessions[i]
       IN /\ s.status = "open"
          /\ \E how \in [s.state.conflicts -> Resolutions] :
               IF s.kind = "pick"
               THEN Begin(p, [op |-> "pick", branch |-> s.branch, target |-> s.target, session |-> i,
                              row |-> PickRow(rows, s.commits[1], s.target, Resolved(s.state, how))])
               ELSE Begin(p, [op |-> "rebase", branch |-> s.branch, expect |-> s.target, target |-> s.target,
                              todo |-> s.commits, strategy |-> "fail", first |-> Resolved(s.state, how),
                              session |-> i])
  /\ UNCHANGED refs

\* mark_conflict_session_status: only an open session changes its status.
MarkCompleted(p) ==
  /\ Finishes(p, "mark")
  /\ LET i == call[p].session
     IN sessions' = IF sessions[i].status = "open" THEN [sessions EXCEPT ![i].status = "completed"] ELSE sessions
  /\ End(p)
  /\ UNCHANGED <<rows, made, refs>>

AbortSession(p) ==
  /\ "session" \in scene.ops
  /\ Cardinality({q \in Callers : call[q] # Idle}) < scene.callers
  /\ call[p] = Idle
  /\ \E i \in DOMAIN sessions :
       /\ sessions[i].status = "open"
       /\ sessions' = [sessions EXCEPT ![i].status = "aborted"]
  /\ UNCHANGED <<scene, rows, made, refs, call>>

Stop(p) ==
  /\ call[p] # Idle
  /\ UNCHANGED scene
  /\ Refused(p)

VersionStep(p) ==
  \/ StartCommit(p) \/ SqliteCommit(p) \/ PgCommit(p)
  \/ StartCreateBranch(p) \/ CreateBranch(p) \/ DeleteBranch(p)
  \/ StartSwitchHead(p) \/ SqliteSwitchHead(p) \/ PgSwitchHead(p)
  \/ StartCreateTag(p) \/ CreateTag(p)
  \/ StartMerge(p) \/ StartKnowledgeMerge(p) \/ FastForward(p) \/ Merge(p)
  \/ StartCherryPick(p) \/ CherryPick(p)
  \/ StartRebase(p) \/ RebaseStep(p) \/ Rebase(p)
  \/ StartSquash(p) \/ SqliteSquash(p) \/ PgSquash(p)
  \/ StartGc(p) \/ SqliteGc(p) \/ PgGc(p)
  \/ BeginSession(p) \/ ContinueSession(p) \/ MarkCompleted(p) \/ AbortSession(p)
  \/ Stop(p)

VersionNext == \E p \in Callers : VersionStep(p)

VersionSpec == VersionInit /\ [][VersionNext]_versionVars

-----------------------------------------------------------------------------
CallOK(c) ==
  /\ c.op \in {"idle", "commit", "branch", "switch", "tag", "merge", "pick", "rebase", "squash", "gc", "mark"}
  /\ c.op \in {"commit", "pick", "squash"} => c.row \in Row
  /\ c.op = "merge" => c.row \in Opt(Row) /\ c.ours \in 1..made
  /\ c.op = "rebase" => Range(c.todo) \cup {c.target, c.expect} \subseteq 1..made
  /\ c.op \in {"pick", "rebase", "mark"} => c.session \in 0..Len(sessions)
  /\ c.op = "gc" => c.victims \subseteq 1..made

\* Every row, reference and call refers to commits that were made, a commit's
\* parents are older than it, and with SQLite HEAD and the branch it is attached
\* to exist (foreign keys of version_heads).
VersionTypeOK ==
  /\ scene \in Scenes
  /\ made \in 0..MaxCommits
  /\ rows \in [Commits -> Opt(Row)]
  /\ \A c \in Alive(rows) : c <= made /\ \A q \in Range(rows[c].parents) : q < c
  /\ head \in Opt(1..made)
  /\ attached \in Opt(Branches)
  /\ branches \in [Branches -> Opt(1..made)]
  /\ tags \in [Tags -> Opt(1..made)]
  /\ Len(sessions) <= MaxSessions
  /\ \A p \in Callers : CallOK(call[p])
  /\ Sqlite => (head = NULL \/ rows[head] # NULL) /\ (attached = NULL \/ branches[attached] # NULL)

\* With SQLite a commit shows the same snapshot for as long as it exists: gc
\* never takes a commit from the history of one it leaves (gc, the RESTRICT of
\* version_commit_parents).
SnapshotsImmutable ==
  [][Sqlite => \A c \in Commits : rows[c] # NULL /\ rows'[c] # NULL => Tree(rows', c) = Tree(rows, c)]_versionVars

\* A branch moves to a descendant of where it was, however operations interleave,
\* unless it is rebased or squashed (update_branch_head compares before it moves).
BranchesGrow ==
  [][\A b \in Branches :
       \/ branches'[b] \in {NULL, branches[b]}
       \/ branches[b] = NULL
       \/ IsAncestor(rows', branches[b], branches'[b])
       \/ \E p \in Callers : call[p].op \in {"rebase", "squash"} /\ call'[p].op \in {"idle", "mark"}]_versionVars

\* What only one of two commits changed since base is what the merged tree shows.
ThreeWay(base, ours, theirs, tree) ==
  \A u \in Uris : /\ ours[u] = base[u] => tree[u] = theirs[u]
                  /\ theirs[u] = base[u] => tree[u] = ours[u]

\* A merge commit is the three-way merge of its parents over the common ancestor
\* nearest to the first of them, whatever was committed, merged and collected while
\* it was prepared and since (merge, merge_base, gc, the deltas against the first
\* parent).
MergeIsThreeWay ==
  \A c \in Alive(rows) : rows[c].kind = "merge" /\ Sqlite =>
    LET ours == rows[c].parents[1]
        theirs == rows[c].parents[2]
    IN \E base \in Opt(Commits) :
         /\ NearestBase(rows, theirs, ours, base)
         /\ ThreeWay(TreeOrEmpty(rows, base), Tree(rows, ours), Tree(rows, theirs), Tree(rows, c))

\* The same over the common ancestor that descends from every other one: what one
\* side deleted or put back since then is not undone (merge, merge_base).
MergeKeepsBothSides ==
  \A c \in Alive(rows) : rows[c].kind = "merge" =>
    LET ours == rows[c].parents[1]
        theirs == rows[c].parents[2]
        common == Reach(rows, ours) \cap Reach(rows, theirs)
    IN \A base \in common : (\A a \in common : IsAncestor(rows, a, base)) =>
         ThreeWay(Tree(rows, base), Tree(rows, ours), Tree(rows, theirs), Tree(rows, c))

\* read_at: the commit a reference stands for.
RefCommit(r) ==
  CASE r = "HEAD" -> head
    [] r \in Branches -> branches[r]
    [] r \in Tags -> tags[r]

\* The queries over the graph agree: a diff and a semantic diff name the same
\* URIs, impact_analysis names every URI that differs from the first parent but
\* for the source of a rename, what asof_read shows was set by a commit of the past
\* that provenance names, a condition on the parents finds the merges, and log and
\* evolution together explain every URI that a reference shows.
QueriesAgree ==
  LET alive == Alive(rows)
      tree == [c \in alive |-> Tree(rows, c)]
      log == [c \in alive |-> Log(rows, c)]
  IN
  /\ \A a, b \in alive :
       LET d == TreeDiff(rows, a, b)
       IN EntityChanges(tree[a], tree[b]) = ((d.adds \cup d.updates) \X {"set"}) \cup (d.deletes \X {"remove"})
  /\ \A c \in alive, u \in Uris :
       \/ u \in Touched(rows, c)
       \/ tree[c][u] = TreeOrEmpty(rows, FirstParent(rows, c))[u]
       \/ \E w \in Uris : rows[c].delta[w] = RenameFrom(u)
  /\ \A k \in 1..made : LET c == AsOf(rows, k) IN c # NULL =>
       \A u \in Uris : tree[c][u] # NULL => Range(Provenance(rows, u)) \cap log[c] # {}
  /\ SemanticTags(rows, {c \in alive : Len(rows[c].parents) = 2}, MaxCommits)
       = {c \in alive : rows[c].kind \in {"merge", "knowledge"}}
  /\ \A r \in {"HEAD"} \cup Branches \cup Tags : LET c == RefCommit(r) IN c \in alive =>
       \A u \in Uris : tree[c][u] # NULL => log[c] \cap Evolution(rows, u) # {}

\* What the branches and HEAD of a SQLite store show, as the abstract store.
Shown(c) == IF c = NULL \/ ~Sqlite THEN NULL ELSE Tree(rows, c)
BranchViews == [b \in Branches |-> Shown(branches[b])]
HeadView == Shown(head)
KeptViews == {Shown(c) : c \in Alive(rows)} \ {NULL}
Attachment == IF Sqlite THEN attached ELSE NULL
Editing == Sqlite /\ \E p \in Callers : call[p].op \in {"pick", "rebase"}

Views == INSTANCE VersionViews WITH
  Names <- Branches, Contents <- Trees,
  view <- BranchViews, atHead <- HeadView, on <- Attachment, kept <- KeptViews, editing <- Editing

\* A SQLite store implements the store of named snapshots: squash and gc change
\* nothing that a branch or HEAD shows, a commit changes HEAD and the attached
\* branch together, a merge mixes the two sides, and a branch is only rewritten
\* by an operation that rewrites it.
ViewsRefined == Views!ViewsSpec

=============================================================================
