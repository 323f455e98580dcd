---------------------------- MODULE VersionGraph ----------------------------
(* The algorithms of the version stores over the commit graph: replay of    *)
(* deltas along first parents, ancestry, the merge base, three-way merge,   *)
(* cherry-pick and the conflict session it goes through.  They are the same *)
(* in sqlite_version.rs and in pg_version.rs; "map" names one of the two.   *)
(*                                                                          *)
(* A graph G is a function from commit ids to rows, NULL where no row is.   *)
(* Ids are numbered in the order of the commits' timestamps.                *)
EXTENDS Absent, Integers, Sequences, FiniteSets, SequencesExt

CONSTANTS
  Uris,
  Bodies,        \* contents of an entry
  MaxCommits     \* bounds how many commits are made

ASSUME GraphAssumption == MaxCommits \in Nat \ {0} /\ Bodies # {}

Commits == 1..MaxCommits

\* A snapshot holds JSON text: commit stores whole entries, a manual
\* resolution stores a bare ContentPayload.
Values == [form : {"entry", "payload"}, body : Bodies]
Trees == [Uris -> Opt(Values)]
EmptyTree == [u \in Uris |-> NULL]

Keep == [op |-> "keep"]
Put(v) == [op |-> "put", arg |-> v]
Erase == [op |-> "delete"]
RenameFrom(u) == [op |-> "rename", arg |-> u]
DeltaOps == {Keep, Erase} \cup {Put(v) : v \in Values} \cup {RenameFrom(u) : u \in Uris}

\* Deltas of one commit name different URIs, the key of their table, and come back in
\* no order that the queries fix.  A rename from a URI that another delta of the commit
\* names would depend on it: change sets are assumed to have none.
Orderless(d) == \A u, w \in Uris : d[w] = RenameFrom(u) => d[u] = Keep /\ \A x \in Uris : d[x] = d[w] => x = w
DeltaSets == {d \in [Uris -> DeltaOps] : Orderless(d)}

Row == [parents : Seq(Commits), delta : DeltaSets, kind : {"commit", "merge", "knowledge", "pick", "squash"},
        picked : Opt(Commits)]

ASSUME AbsentAssumption == NULL \notin Commits /\ NULL \notin Trees /\ NULL \notin Row

NewRow(parents, delta, kind, picked) ==
  [parents |-> parents, delta |-> delta, kind |-> kind, picked |-> picked]

Alive(G) == {c \in DOMAIN G : G[c] # NULL}

\* load_parents: none for a commit that is gone.
Parents(G, c) == IF G[c] = NULL THEN <<>> ELSE G[c].parents

FirstParent(G, c) == IF Parents(G, c) = <<>> THEN NULL ELSE Parents(G, c)[1]

\* load_deltas: the rows of a deleted commit went with it.
Delta(G, c) == IF G[c] = NULL THEN [u \in Uris |-> Keep] ELSE G[c].delta

\* apply_deltas: in any order, since d is in DeltaSets.
Apply(tree, d) ==
  [u \in Uris |->
     CASE d[u].op = "put" -> d[u].arg
       [] d[u].op = "delete" -> NULL
       [] d[u].op = "rename" -> IF tree[d[u].arg] # NULL THEN tree[d[u].arg] ELSE tree[u]
       [] OTHER -> IF \E w \in Uris : d[w] = RenameFrom(u) THEN NULL ELSE tree[u]]

\* reconstruct_snapshot without its caches.
Tree(G, c) ==
  LET T[k \in DOMAIN G] ==
        Apply(IF FirstParent(G, k) = NULL THEN EmptyTree ELSE T[FirstParent(G, k)], Delta(G, k))
  IN T[c]

TreeOrEmpty(G, c) == IF c = NULL THEN EmptyTree ELSE Tree(G, c)

Diff(src, dst) ==
  [u \in Uris |-> CASE src[u] = dst[u] -> Keep
                    [] src[u] # dst[u] /\ dst[u] = NULL -> Erase
                    [] OTHER -> Put(dst[u])]

\* The commits that can be reached from c, itself included.
Reach(G, c) ==
  LET R[k \in DOMAIN G] == {k} \cup UNION {R[p] : p \in Range(Parents(G, k))}
  IN R[c]

IsAncestor(G, a, c) == a \in Reach(G, c)

\* The breadth-first search from b stops at the first ancestor of a.  A commit that
\* was seen is met again on a later level or later on its own, so it makes no odds.
MergeBase(G, a, b) ==
  LET Level[k \in 0..MaxCommits] ==
        IF k = 0 THEN <<b>>
        ELSE FlattenSeq([i \in DOMAIN Level[k - 1] |-> Parents(G, Level[k - 1][i])])
      Hits(k) == {i \in DOMAIN Level[k] : Level[k][i] \in Reach(G, a)}
      found == {k \in 0..MaxCommits : Hits(k) # {}}
  IN IF found = {} THEN NULL ELSE Level[Min(found)][Min(Hits(Min(found)))]

\* The commits at most k parents away from c.
Within(G, c, k) ==
  LET W[j \in 0..MaxCommits] ==
        IF j = 0 THEN {c} ELSE W[j - 1] \cup UNION {Range(Parents(G, d)) : d \in W[j - 1]}
  IN W[k]

\* No common ancestor is fewer parents away from ours than base, which is NULL when
\* there is none.
NearestBase(G, theirs, ours, base) ==
  LET common == Reach(G, ours) \cap Reach(G, theirs)
  IN IF common = {} THEN base = NULL
     ELSE base \in common /\ \A k \in 0..MaxCommits :
            Within(G, ours, k) \cap common # {} => base \in Within(G, ours, k)

\* merge: what theirs changed since the base is taken unless ours changed it too.
Merged(base, ours, theirs, strategy) ==
  [u \in Uris |->
     IF theirs[u] = base[u] THEN ours[u]
     ELSE IF ours[u] \in {base[u], theirs[u]} \/ strategy = "theirs" THEN theirs[u]
     ELSE ours[u]]

\* Without the first parent: deltas against the side that is merged in.
MergeRowAgainstTheirs(G, theirs, ours, strategy) ==
  LET from == Tree(G, theirs)
      base == TreeOrEmpty(G, MergeBase(G, theirs, ours))
  IN NewRow(<<ours, theirs>>, Diff(from, Merged(base, Tree(G, ours), from, strategy)), "merge", NULL)

MergeRow(G, theirs, ours, strategy) ==
  LET into == Tree(G, ours)
      base == TreeOrEmpty(G, MergeBase(G, theirs, ours))
  IN NewRow(<<ours, theirs>>, Diff(into, Merged(base, into, Tree(G, theirs), strategy)), "merge", NULL)

\* knowledge_merge: an LWW map of the two snapshots.  All keys of one side carry
\* the second of that side's head, so one side wins every key they share.
KnowledgeRow(G, theirs, ours, theirsWin) ==
  LET into == Tree(G, ours)
      from == Tree(G, theirs)
      union == [u \in Uris |-> IF into[u] = NULL \/ (from[u] # NULL /\ theirsWin) THEN from[u] ELSE into[u]]
  IN NewRow(<<ours, theirs>>, Diff(into, union), "knowledge", NULL)

\* The commits of the branch at head that onto does not have, oldest first.
CommitsToRebase(G, head, onto) ==
  LET Own[c \in DOMAIN G] ==
        IF IsAncestor(G, c, onto) THEN <<>>
        ELSE (IF FirstParent(G, c) = NULL THEN <<>> ELSE Own[FirstParent(G, c)]) \o <<c>>
  IN Own[head]

\* raw_to_payload: the JSON of a whole entry is not that of a ContentPayload.
RawToPayload(v) == IF v # NULL /\ v.form = "payload" THEN v ELSE NULL

\* snapshot_to_payload_entries drops what does not parse.
SnapshotToPayloads(tree) == [u \in Uris |-> RawToPayload(tree[u])]

\* build_cherry_pick_session
PickSession(G, c, target) ==
  LET base == TreeOrEmpty(G, FirstParent(G, c))
      picked == Tree(G, c)
      mine == Tree(G, target)
      changed == {u \in Uris : base[u] # picked[u]}
      clash == {u \in changed : mine[u] \notin {base[u], picked[u]}}
  IN [conflicts |-> clash, ours |-> SnapshotToPayloads(mine), theirs |-> SnapshotToPayloads(picked),
      clean |-> SnapshotToPayloads(
                  [u \in Uris |-> IF u \in changed \ clash THEN picked[u] ELSE mine[u]])]

Resolutions == {"ours", "theirs", "delete", "manual"}
ManualPayload == [form |-> "payload", body |-> CHOOSE b \in Bodies : TRUE]

\* apply_session_resolutions
Resolved(s, how) ==
  [u \in Uris |->
     IF u \notin s.conflicts THEN s.clean[u]
     ELSE CASE how[u] = "ours" -> s.ours[u]
            [] how[u] = "theirs" -> s.theirs[u]
            [] how[u] = "delete" -> NULL
            [] how[u] = "manual" -> ManualPayload]

\* commit_cherry_pick_snapshot: the row of the new commit.
PickRow(G, c, target, final) ==
  NewRow(<<target>>, Diff(Tree(G, target), final), "pick", c)

\* Starts from the oldest commit itself.
SquashRowAfterOldest(G, oldest, newest) ==
  NewRow(IF FirstParent(G, oldest) = NULL THEN <<>> ELSE <<FirstParent(G, oldest)>>,
         Diff(Tree(G, oldest), Tree(G, newest)), "squash", NULL)

\* squash: from the oldest commit's parent to the tip in one step.
SquashRow(G, oldest, newest) ==
  LET parent == FirstParent(G, oldest)
  IN NewRow(IF parent = NULL THEN <<>> ELSE <<parent>>,
            Diff(TreeOrEmpty(G, parent), Tree(G, newest)), "squash", NULL)

\* diff_commits
TreeDiff(G, a, b) ==
  LET before == Tree(G, a)
      after == Tree(G, b)
  IN [adds |-> {u \in Uris : before[u] = NULL /\ after[u] # NULL},
      updates |-> {u \in Uris : before[u] # NULL /\ after[u] # NULL /\ before[u] # after[u]},
      deletes |-> {u \in Uris : before[u] # NULL /\ after[u] = NULL}]

\* semantic_diff: the entities with a change, field by field for two values.
EntityChanges(before, after) ==
  {<<u, IF after[u] = NULL THEN "remove" ELSE "set">> : u \in {w \in Uris : before[w] # after[w]}}

\* Without renames.
TouchedByContent(G, c) == {u \in Uris : G[c].delta[u].op = "put"}

\* impact_analysis: the URIs that have a delta row.
Touched(G, c) == {u \in Uris : G[c].delta[u] # Keep}

\* evolution and provenance: the commits with a delta row for u.
Evolution(G, u) == {c \in Alive(G) : u \in Touched(G, c)}

\* log without a limit; the order is that of the timestamps.
Log(G, c) == Reach(G, c) \cap Alive(G)

\* asof_read: the newest commit of a time, ids being numbered by time.
AsOf(G, k) == LET before == {c \in Alive(G) : c <= k}
              IN IF before = {} THEN NULL ELSE CHOOSE c \in before : \A d \in before : d <= c

\* evaluate_semantic_tags: a condition is a predicate on the row; the newest
\* commits up to the limit are asked.
SemanticTags(G, meant, limit) ==
  {c \in Alive(G) \cap meant : Cardinality({d \in Alive(G) : d > c}) < limit}

\* provenance: the commits with a delta row for u, newest first, each with the
\* evidence its metadata names.
Provenance(G, u) == SetToSortSeq({c \in Alive(G) : G[c].delta[u] # Keep}, >)

\* The first-parent chain of c, itself included.
Chain(G, c) ==
  LET L[k \in DOMAIN G] == {k} \cup (IF FirstParent(G, k) = NULL THEN {} ELSE L[FirstParent(G, k)])
  IN L[c]
=============================================================================
