--------------------------- MODULE VersionStates ----------------------------
(* How the states of versions are kept and told apart: snapshots rebuilt from *)
(* deltas, and the differences between two states.  The two share no state.  *)
EXTENDS Absent, Naturals, Sequences, FiniteSets, SequencesExt, Integers

(***************************************************************************)
(* reconstruct_snapshot of the version stores: a commit's snapshot from the  *)
(* cache (L1), from a checkpoint row (L2) or by replay of the deltas along   *)
(* the first parents, seeded with the nearest snapshot that is kept, while   *)
(* commits are made, refs move and gc removes commits.  A snapshot is        *)
(* represented by the commits whose deltas it applies, oldest first.         *)
(***************************************************************************)
CONSTANTS
  MaxSnapCommits,      \* bounds the commits
  CheckpointThreshold, \* checkpoint_threshold
  MaxRefMoves          \* bounds how often a ref is set or deleted

VARIABLES
  snapEngine,          \* "sqlite" or "postgres"
  snapMade,            \* commits 1 .. snapMade have been made
  snapParent,          \* version_commit_parents, as made
  snapRows,            \* the commits that have a row
  snapRefs,            \* the commits that HEAD, branches and tags name
  refMoves,
  l1, l2,              \* commit -> snapshot
  rebuild,             \* a client inside reconstruct_snapshot
  sweep                \* gc between its queries

snapVars == <<snapEngine, snapMade, snapParent, snapRows, snapRefs, refMoves, l1, l2, rebuild, sweep>>
tables == <<snapEngine, snapMade, snapParent, snapRows, snapRefs, refMoves>>

SnapIds == 1..MaxSnapCommits
NotReading == [at |-> "idle", id |-> 1, chain |-> <<>>, snap |-> <<>>, left |-> <<>>]
NotSweeping == [at |-> "idle", ids |-> {}]

SnapInit ==
  /\ snapEngine \in {"sqlite", "postgres"}
  /\ snapMade = 1 /\ snapRows = {1} /\ snapRefs = {1} /\ refMoves = 0
  /\ snapParent = [c \in SnapIds |-> NULL]
  /\ l1 = [c \in SnapIds |-> NULL] /\ l2 = [c \in SnapIds |-> NULL]
  /\ rebuild = NotReading /\ sweep = NotSweeping

\* first_parent and load_deltas find nothing for a commit whose rows are gone.
ParentRow(c) == IF c \in snapRows THEN snapParent[c] ELSE NULL
DeltasOf(c) == IF c \in snapRows THEN <<c>> ELSE <<>>

CommitOnto(p) ==
  /\ snapMade < MaxSnapCommits /\ p \in snapRefs \cap snapRows
  /\ LET c == snapMade + 1 IN
     /\ snapMade' = c /\ snapParent' = [snapParent EXCEPT ![c] = p]
     /\ snapRows' = snapRows \cup {c} /\ snapRefs' = (snapRefs \ {p}) \cup {c}
  /\ UNCHANGED <<snapEngine, refMoves, l1, l2, rebuild, sweep>>

\* create_branch and create_tag check that the commit exists.
SetRef(c) ==
  /\ refMoves < MaxRefMoves /\ c \in snapRows \ snapRefs
  /\ snapRefs' = snapRefs \cup {c} /\ refMoves' = refMoves + 1
  /\ UNCHANGED <<snapEngine, snapMade, snapParent, snapRows, l1, l2, rebuild, sweep>>

DropRef(c) ==
  /\ refMoves < MaxRefMoves /\ c \in snapRefs /\ Cardinality(snapRefs) > 1
  /\ snapRefs' = snapRefs \ {c} /\ refMoves' = refMoves + 1
  /\ UNCHANGED <<snapEngine, snapMade, snapParent, snapRows, l1, l2, rebuild, sweep>>

-----------------------------------------------------------------------------
(* gc.                                                                       *)

\* The links that are left lead from the refs to their ancestors.
Protected ==
  LET up[k \in SnapIds \cup {0}] ==
        IF k = 0 THEN snapRefs ELSE up[k - 1] \cup ({ParentRow(c) : c \in up[k - 1]} \ {NULL})
  IN up[MaxSnapCommits]

\* The commits up to a cutoff that nothing protects.
StartSweep(cutoff) ==
  /\ sweep.at = "idle"
  /\ LET ids == {c \in snapRows \ Protected : c <= cutoff} IN
     /\ ids # {}
     /\ sweep' = [at |-> "delete", ids |-> ids]
  /\ UNCHANGED <<tables, l1, l2, rebuild>>

\* SQLite deletes in one transaction, and parent_id restricts: no commit that stays
\* may have a victim as its parent, and the victims go oldest first.
SqliteSweep ==
  /\ snapEngine = "sqlite" /\ sweep.at = "delete"
  /\ LET ids == sweep.ids IN
     IF \E c \in snapRows : snapParent[c] \in ids
     THEN sweep' = NotSweeping /\ UNCHANGED <<snapRows, l2>>
     ELSE /\ snapRows' = snapRows \ ids /\ l2' = [c \in SnapIds |-> IF c \in ids THEN NULL ELSE l2[c]]
          /\ sweep' = [sweep EXCEPT !.at = "evict"]
  /\ UNCHANGED <<snapEngine, snapMade, snapParent, snapRefs, refMoves, l1, rebuild>>

\* PostgreSQL deletes one by one; a checkpoint goes with its commit.
PgSweep(c) ==
  /\ snapEngine = "postgres" /\ sweep.at = "delete"
  /\ c \in sweep.ids /\ \A d \in sweep.ids : c <= d
  /\ snapRows' = snapRows \ {c} /\ l2' = [l2 EXCEPT ![c] = NULL]
  /\ sweep' = [at |-> "evict", ids |-> sweep.ids]
  /\ UNCHANGED <<snapEngine, snapMade, snapParent, snapRefs, refMoves, l1, rebuild>>

\* cache_del_snapshot
DropSnapshot(c) ==
  /\ sweep.at = "evict" /\ c \in sweep.ids /\ \A d \in sweep.ids : c <= d
  /\ l1' = [l1 EXCEPT ![c] = NULL]
  /\ sweep' = IF sweep.ids = {c} THEN NotSweeping
              ELSE [at |-> IF snapEngine = "sqlite" THEN "evict" ELSE "delete", ids |-> sweep.ids \ {c}]
  /\ UNCHANGED <<tables, l2, rebuild>>

-----------------------------------------------------------------------------
(* reconstruct_snapshot.                                                     *)

RebuildReads(r) == rebuild' = r /\ UNCHANGED <<tables, sweep>>

StartRebuild(c) ==
  /\ rebuild.at = "idle" /\ c \in snapRows
  /\ RebuildReads([NotReading EXCEPT !.at = "own", !.id = c]) /\ UNCHANGED <<l1, l2>>

\* The snapshot of c in L1, or in L2, from where L1 takes it.
Kept(c) == IF l1[c] # NULL THEN l1[c] ELSE l2[c]
Backfilled(c) == IF Kept(c) = NULL THEN l1 ELSE [l1 EXCEPT ![c] = Kept(c)]

LookOwn ==
  /\ rebuild.at = "own"
  /\ l1' = Backfilled(rebuild.id)
  /\ IF Kept(rebuild.id) # NULL
     THEN RebuildReads([rebuild EXCEPT !.at = "answer", !.snap = Kept(rebuild.id)])
     ELSE RebuildReads([rebuild EXCEPT !.at = "walk", !.chain = <<rebuild.id>>])
  /\ UNCHANGED l2

\* Up to the first parent that has a snapshot, or to the root.
WalkUp ==
  /\ rebuild.at = "walk"
  /\ LET p == ParentRow(Last(rebuild.chain)) IN
     IF p = NULL
     THEN RebuildReads([rebuild EXCEPT !.at = "replay", !.left = Reverse(rebuild.chain)]) /\ UNCHANGED l1
     ELSE /\ l1' = Backfilled(p)
          /\ RebuildReads(IF Kept(p) # NULL
                   THEN [rebuild EXCEPT !.at = "replay", !.snap = Kept(p), !.left = Reverse(rebuild.chain)]
                   ELSE [rebuild EXCEPT !.chain = Append(@, p)])
  /\ UNCHANGED l2

\* Fault: the deltas are applied in the order in which the chain was collected.
NextNewestFirst(r) == [r EXCEPT !.snap = @ \o DeltasOf(Last(r.left)), !.left = Front(@)]

\* One commit's deltas onto the snapshot so far.
NextDeltas(r) == [r EXCEPT !.snap = @ \o DeltasOf(Head(r.left)), !.left = Tail(@)]

ReplayOne == rebuild.at = "replay" /\ rebuild.left # <<>> /\ RebuildReads(NextDeltas(rebuild)) /\ UNCHANGED <<l1, l2>>

\* cache_put_snapshot, and checkpoint_put for a long chain.
Replayed ==
  /\ rebuild.at = "replay" /\ rebuild.left = <<>>
  /\ l1' = [l1 EXCEPT ![rebuild.id] = rebuild.snap]
  /\ RebuildReads([rebuild EXCEPT !.at = IF Len(rebuild.chain) >= CheckpointThreshold THEN "checkpoint" ELSE "answer"])
  /\ UNCHANGED l2

\* SQLite refuses the row, which has no created_at; PostgreSQL refuses it for a
\* commit that is gone.  checkpoint_prune never removes a row: it names a column
\* that version_branches does not have.
PutCheckpoint ==
  /\ rebuild.at = "checkpoint"
  /\ l2' = IF snapEngine = "postgres" /\ rebuild.id \in snapRows THEN [l2 EXCEPT ![rebuild.id] = rebuild.snap] ELSE l2
  /\ RebuildReads([rebuild EXCEPT !.at = "answer"]) /\ UNCHANGED l1

Answer == rebuild.at = "answer" /\ RebuildReads(NotReading) /\ UNCHANGED <<l1, l2>>

\* The cache drops what is older than cache_ttl.
L1Expires(c) == l1[c] # NULL /\ l1' = [l1 EXCEPT ![c] = NULL] /\ UNCHANGED <<tables, l2, rebuild, sweep>>

SnapNext ==
  \/ \E c \in SnapIds : CommitOnto(c) \/ SetRef(c) \/ DropRef(c) \/ StartSweep(c) \/ PgSweep(c) \/ DropSnapshot(c)
  \/ SqliteSweep
  \/ \E c \in SnapIds : StartRebuild(c) \/ L1Expires(c)
  \/ LookOwn \/ WalkUp \/ ReplayOne \/ Replayed \/ PutCheckpoint \/ Answer

-----------------------------------------------------------------------------
\* The replay of the rows as they are, and that of all commits there have been.
History(c, parent(_), deltas(_)) ==
  LET h[k \in SnapIds] == (IF parent(k) = NULL THEN <<>> ELSE h[parent(k)]) \o deltas(k) IN h[c]
ReplayNow(c) == History(c, ParentRow, DeltasOf)
ReplayEver(c) == History(c, LAMBDA k : snapParent[k], LAMBDA k : <<k>>)

InOrderOf(s, t) == s = SelectSeq(t, LAMBDA c : c \in Range(s))

\* In the SQLite store a snapshot that is kept or answered for a commit that exists
\* is its replay.  In the PostgreSQL store gc removes ancestors of commits it keeps:
\* there a snapshot has the deltas that are left, none of another line and none
\* twice, in their order.
SnapshotsTrue ==
  \A c \in snapRows :
    \A s \in {l1[c], l2[c]} \cup (IF rebuild.at = "answer" /\ rebuild.id = c THEN {rebuild.snap} ELSE {}) :
      s # NULL => /\ InOrderOf(ReplayNow(c), s) /\ InOrderOf(s, ReplayEver(c))
                  /\ snapEngine = "sqlite" => s = ReplayNow(c)

(***************************************************************************)
(* The differences between two versions of an entry: collect_json_changes of *)
(* the content stores (lines + - ~) and structured_entity_diff of the        *)
(* version stores (Set, Remove, ArrayAppend, ArrayRemove).  A path is the    *)
(* sequence of keys and indexes; "" stands for path_or_root's "*".           *)
(***************************************************************************)
CONSTANT JsonKeys

VARIABLES older, newer   \* the versions that a client compares

diffVars == <<older, newer>>

Atom(v) == [is |-> "atom", val |-> v]
Object(f) == [is |-> "object", val |-> f]
Array(s) == [is |-> "array", val |-> s]

Atoms == {Atom(v) : v \in 1..2}
Flat == Atoms
  \cup {Object(f) : f \in UNION {[K -> Atoms] : K \in SUBSET JsonKeys}}
  \cup {Array(s) : s \in UNION {[1..n -> Atoms] : n \in 0..2}}
Documents == Flat
  \cup {Object([k \in {CHOOSE x \in JsonKeys : TRUE} |-> d]) : d \in Flat}
  \cup {Array(<<d>>) : d \in Flat} \cup {Array(<<Atom(1), d>>) : d \in Flat}

DiffInit == older \in Documents /\ newer = NULL
WriteVersion(d) == newer = NULL /\ newer' = d /\ UNCHANGED older
DiffNext == \E d \in Documents : WriteVersion(d)

-----------------------------------------------------------------------------
Change(path, kind, old, new) == [at |-> path, kind |-> kind, old |-> old, new |-> new]

\* A child that both sides have is compared, another one is added or removed.
Children(path, keys, old, new, compared) ==
  FlattenSeq([i \in DOMAIN keys |->
    LET k == keys[i] child == Append(path, k) IN
    IF k \in DOMAIN old /\ k \in DOMAIN new THEN compared[k]
    ELSE IF k \in DOMAIN old THEN <<Change(child, "remove", old[k], NULL)>>
    ELSE <<Change(child, "set", NULL, new[k])>>])

SortedKeys(old, new) == SetToSeq(DOMAIN old \cup DOMAIN new)
InBoth(old, new) == DOMAIN old.val \cap DOMAIN new.val
Both(a, b, kind) == a.is = kind /\ b.is = kind
Replaced(path, old, new) == IF old = new THEN <<>> ELSE <<Change(path, "set", old, new)>>

\* collect_json_changes, PostgreSQL: arrays are compared as a whole.
RECURSIVE PgLines(_, _, _)
PgLines(path, old, new) ==
  IF Both(old, new, "object") THEN Children(path, SortedKeys(old.val, new.val), old.val, new.val, [k \in InBoth(old, new) |-> PgLines(Append(path, k), old.val[k], new.val[k])])
  ELSE Replaced(path, old, new)

\* SQLite: index by index.
RECURSIVE SqliteLines(_, _, _)
SqliteLines(path, old, new) ==
  IF Both(old, new, "object") \/ Both(old, new, "array")
  THEN Children(path, SortedKeys(old.val, new.val), old.val, new.val, [k \in InBoth(old, new) |-> SqliteLines(Append(path, k), old.val[k], new.val[k])])
  ELSE Replaced(path, old, new)

\* What one array has beyond the other is appended to its path, or removed from it.
ArrayTail(path, old, new) ==
  LET common == IF Len(old) < Len(new) THEN Len(old) ELSE Len(new)
  IN [i \in 1..Len(new) - common |-> Change(path, "append", NULL, new[common + i])]
     \o [i \in 1..Len(old) - common |-> Change(path, "drop", old[common + i], NULL)]

\* diff_json_value
RECURSIVE EntityLines(_, _, _)
EntityLines(path, old, new) ==
  IF Both(old, new, "object") THEN Children(path, SortedKeys(old.val, new.val), old.val, new.val, [k \in InBoth(old, new) |-> EntityLines(Append(path, k), old.val[k], new.val[k])])
  ELSE IF Both(old, new, "array")
  THEN FlattenSeq([i \in InBoth(old, new) |-> EntityLines(Append(path, i), old.val[i], new.val[i])])
       \o ArrayTail(path, old.val, new.val)
  ELSE Replaced(path, old, new)

\* structured_entity_diff: a missing side is a change of the whole entity.
EntityDiff(old, new) ==
  IF old = NULL \/ new = NULL
  THEN IF old = new THEN <<>> ELSE <<Change(<<>>, IF new = NULL THEN "remove" ELSE "set", old, new)>>
  ELSE EntityLines(<<>>, old, new)

-----------------------------------------------------------------------------
\* The reading of a list of changes: what is set replaces, what is removed is gone,
\* the rest stays.
RECURSIVE Rebuilt(_, _, _)
Rebuilt(path, old, changes) ==
  LET at(p, kind) == SelectSeq(changes, LAMBDA c : c.at = p /\ c.kind = kind)
      set(p) == at(p, "set") # <<>>
      kept == {k \in DOMAIN old.val : at(Append(path, k), "remove") = <<>>}
      added == {c.at[Len(path) + 1] : c \in {d \in Range(changes) :
                   d.kind = "set" /\ Len(d.at) = Len(path) + 1 /\ IsPrefix(path, d.at)}}
      child(k) == IF set(Append(path, k)) THEN at(Append(path, k), "set")[1].new
                  ELSE Rebuilt(Append(path, k), old.val[k], changes)
  IN IF set(path) THEN at(path, "set")[1].new
     ELSE CASE old.is = "atom" -> old
            [] old.is = "object" -> Object([k \in kept \cup added |-> child(k)])
            [] old.is = "array" ->
                 LET appended == at(path, "append") dropped == at(path, "drop")
                     n == Cardinality(kept \cup added) - Len(dropped)
                 IN Array([i \in 1..n |-> child(i)] \o [i \in DOMAIN appended |-> appended[i].new])

\* Each diff is complete: it is empty exactly when the versions are equal, and what
\* it lists turns the older version into the newer one.
DiffsRebuild ==
  newer # NULL =>
    /\ \A lines \in {PgLines(<<>>, older, newer), SqliteLines(<<>>, older, newer), EntityDiff(older, newer)} :
         /\ lines = <<>> <=> older = newer
         /\ Rebuilt(<<>>, older, lines) = newer
    /\ EntityDiff(NULL, newer)[1].new = newer /\ EntityDiff(older, NULL)[1].old = older
=============================================================================
