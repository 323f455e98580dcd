------------------------- MODULE ContextStoreProofs -------------------------
(***************************************************************************)
(* Proofs about ContextStore, for every set of URIs, tenants, bodies and   *)
(* collections and every bound.                                            *)
(***************************************************************************)
EXTENDS ContextStore, FiniteSetTheorems,
        SequenceTheorems, WellFoundedInduction, TLAPS

(* The order of the naturals as a set of pairs, the form WFMin needs. *)
LessThan == {p \in Nat \X Nat : p[1] < p[2]}

(* There is no infinite descent in the naturals. *)
LEMMA LessThanWellFounded == IsWellFoundedOn(LessThan, Nat)
  BY Zenon, NatLessThanWellFounded DEF OpToRel, LessThan

(* Every non-empty set of naturals has a least element: the principle that *)
(* replaces induction in the proofs below.                                 *)
LEMMA LeastElement ==
  ASSUME NEW T \in SUBSET Nat, T # {}
  PROVE  \E x \in T : \A y \in T : x <= y
<1>1. PICK x \in T : \A y \in T : ~(<<y, x>> \in LessThan)
  BY LessThanWellFounded, WFMin, Zenon
<1>2. \A y \in T : ~(y < x)
  BY <1>1 DEF LessThan
<1> QED
  BY <1>2

-----------------------------------------------------------------------------
(* A set of places in a chunk is finite. *)
LEMMA FiniteInterval ==
  ASSUME NEW n \in Nat, NEW S \in SUBSET (1..n)
  PROVE  IsFiniteSet(S) /\ Cardinality(S) \in Nat /\ (\A i \in S : i \in 1..n)
<1>1. IsFiniteSet(1..n)
  <2>1. 1 \in Int /\ n \in Int
    OBVIOUS
  <2> QED
    BY <2>1, FS_Interval, Zenon
<1>2. IsFiniteSet(S)
  BY <1>1, FS_Subset, Zenon
<1>3. Cardinality(S) \in Nat
  BY <1>2, FS_CardinalityType, Zenon
<1> QED
  BY <1>2, <1>3

(* prepare_batch_chunk numbers the entries of one URI in input order; the  *)
(* numbering misses no place: each rank up to the size of the set is the   *)
(* rank of an element.                                                     *)
LEMMA RankSurjective ==
  ASSUME NEW n \in Nat, NEW S \in SUBSET (1..n),
         NEW k \in 1..Cardinality(S)
  PROVE  \E i \in S : Rank(S, i) = k
<1> DEFINE Upto(i) == {j \in S : j <= i}
<1>0. \A j \in S : j \in Nat /\ 1 <= j /\ j <= n
  OBVIOUS
<1> DEFINE T == {i \in 0..n : Rank(S, i) >= k}
<1>1. IsFiniteSet(S) /\ Cardinality(S) \in Nat
  BY FiniteInterval
<1>2. ASSUME NEW i
      PROVE  IsFiniteSet(Upto(i)) /\ Cardinality(Upto(i)) \in Nat
  <2>1. Upto(i) \in SUBSET S
    OBVIOUS
  <2> QED
    BY <2>1, <1>1, FS_Subset, FS_CardinalityType, Zenon
<1>3. \A i : Rank(S, i) = Cardinality(Upto(i))
  BY DEF Rank
<1>4. n \in T
  <2>1. Upto(n) = S
    BY <1>0
  <2> QED
    BY <2>1, <1>1, <1>3
<1>5. PICK x \in T : \A y \in T : x <= y
  <2>1. T \in SUBSET Nat /\ T # {}
    BY <1>4
  <2> HIDE DEF T
  <2> QED
    BY <2>1, LeastElement
<1>6. x # 0
  <2>1. \A j \in S : ~(j <= 0)
    BY <1>0
  <2>2. Upto(0) = {}
    BY <2>1
  <2>3. Rank(S, 0) = 0
    BY <2>2, <1>3, FS_EmptySet
  <2> QED
    BY <2>3
<1>7. x - 1 \in 0..n /\ ~(Rank(S, x - 1) >= k)
  <2>1. x - 1 \in 0..n /\ x - 1 < x
    BY <1>6
  <2> QED
    BY <2>1, <1>5
<1>8. x \in S
  <2>1. SUFFICES ASSUME x \notin S PROVE FALSE
    OBVIOUS
  <2>2. \A j \in S : j <= x <=> j <= x - 1
    BY <2>1, <1>0, <1>6
  <2>3. Upto(x) = Upto(x - 1)
    BY <2>2
  <2> QED
    BY <2>3, <1>3, <1>7
<1>9. Rank(S, x) = Rank(S, x - 1) + 1
  <2>0. /\ \A j \in S : j <= x <=> (j <= x - 1 \/ j = x)
        /\ ~(x <= x - 1)
    BY <1>8, <1>0, <1>6
  <2>1. Upto(x) = Upto(x - 1) \cup {x} /\ x \notin Upto(x - 1)
    BY <1>8, <2>0
  <2>2. Cardinality(Upto(x - 1) \cup {x}) = Cardinality(Upto(x - 1)) + 1
    <3> DEFINE U == Upto(x - 1)
    <3>1. IsFiniteSet(U) /\ x \notin U
      BY <2>1, <1>2
    <3> HIDE DEF U
    <3>2. Cardinality(U \cup {x}) = IF x \in U THEN Cardinality(U) ELSE Cardinality(U) + 1
      BY <3>1, FS_AddElement, Zenon
    <3>3. Cardinality(U \cup {x}) = Cardinality(U) + 1
      BY <3>1, <3>2, Zenon
    <3> QED
      BY <3>3 DEF U
  <2> QED
    BY <2>1, <2>2, <1>3
<1>10. Rank(S, x) \in Nat /\ Rank(S, x - 1) \in Nat
  BY <1>2, <1>3
<1> QED
  BY <1>7, <1>8, <1>9, <1>10, <1>1

(* So Nth finds the element of each rank. *)
LEMMA NthElement ==
  ASSUME NEW n \in Nat, NEW S \in SUBSET (1..n),
         NEW k \in 1..Cardinality(S)
  PROVE  Nth(S, k) \in S /\ Rank(S, Nth(S, k)) = k
  BY RankSurjective DEF Nth

(* The rank of an element counts itself and nothing beyond the set. *)
LEMMA RankBounds ==
  ASSUME NEW n \in Nat, NEW S \in SUBSET (1..n), NEW i \in S
  PROVE  /\ Cardinality(S) \in Nat
         /\ Rank(S, i) \in 1..Cardinality(S)
<1> DEFINE U == {j \in S : j <= i}
<1>1. IsFiniteSet(S) /\ Cardinality(S) \in Nat
  BY FiniteInterval
<1>2. IsFiniteSet(U) /\ Cardinality(U) \in Nat /\ Cardinality(U) <= Cardinality(S)
  <2>1. U \in SUBSET S
    OBVIOUS
  <2> QED
    BY <2>1, <1>1, FS_Subset, FS_CardinalityType, Zenon
<1>3. Cardinality(U) # 0
  <2>1. i \in U
    OBVIOUS
  <2> QED
    BY <2>1, <1>2, FS_EmptySet
<1> QED
  BY <1>1, <1>2, <1>3 DEF Rank

-----------------------------------------------------------------------------
(* The inductive invariant.  StoreTypeOK is not inductive by itself: the   *)
(* collection that delete reads from the latest history row exists only    *)
(* because the history is complete.                                        *)
StoreInv == StoreTypeOK /\ HistoryComplete

(* A stored entry is a snapshot, and its outbox row is a row. *)
LEMMA StoredType ==
  ASSUME NEW u \in Uris, NEW in, in.body \in Bodies, in.coll \in Collections,
         in.emb \in BOOLEAN, NEW v \in 1..MaxVersion
  PROVE  Stored(u, in, v) \in Snapshot
  BY DEF Stored, Snapshot

LEMMA RowType ==
  ASSUME NEW u \in Uris, NEW from \in Uris, NEW coll \in Collections,
         NEW s \in Snapshot
  PROVE  /\ UpsertRow(s) \in Row
         /\ DeleteRow(u, coll) \in Row
         /\ RenameRow(from, s) \in Row
<1>1. s.ver \in 0..MaxVersion /\ 0 \in 0..MaxVersion
  BY ConstantsAssumption DEF Snapshot
<1>2. UpsertRow(s) \in Row
  BY <1>1, ConstantsAssumption DEF UpsertRow, NewRow, Row, Snapshot
<1>3. DeleteRow(u, coll) \in Row
  BY <1>1 DEF DeleteRow, NewRow, Row
<1>4. RenameRow(from, s) \in Row
  BY <1>1, ConstantsAssumption DEF RenameRow, NewRow, Row, Snapshot
<1> QED
  BY <1>2, <1>3, <1>4

(* A revision is only ever counted up. *)
LEMMA BumpType ==
  ASSUME revision \in [Tenants -> Nat], NEW c \in BOOLEAN, NEW t \in Tenants,
         BumpIf(c, t)
  PROVE  revision' \in [Tenants -> Nat]
<1>1. CASE c = TRUE
  BY <1>1 DEF BumpIf
<1>2. CASE c = FALSE
  BY <1>2 DEF BumpIf
<1> QED
  BY <1>1, <1>2

(* write_in_tx: the version given out is the one after the newest history  *)
(* row, so the insert extends the history by exactly that row.             *)
LEMMA WriteKeepsInv ==
  ASSUME StoreInv, NEW u \in Uris, NEW in, in.body \in Bodies,
         in.coll \in Collections, in.emb \in BOOLEAN, Write(u, in)
  PROVE  StoreInv'
<1> DEFINE v == NextVersion(u)
<1> DEFINE s == Stored(u, in, v)
<1>1. v \in 1..MaxVersion
  BY ConstantsAssumption
     DEF StoreInv, StoreTypeOK, Write, WriteInTx, NextVersion, Snapshot
<1>2. s \in Snapshot /\ s.uri = u /\ s.ver = v
  BY <1>1, StoredType DEF Stored
<1>3. /\ entries' = [entries EXCEPT ![u] = s]
      /\ versions' = [versions EXCEPT ![u][v] = s]
      /\ outbox' = outbox \o UpsertRows(s)
      /\ UNCHANGED <<relations, revision>>
  BY DEF Write, WriteInTx, Enqueue
<1>4. outbox' \in Seq(Row)
  BY <1>2, <1>3, RowType DEF UpsertRows, StoreInv, StoreTypeOK
<1> HIDE DEF s, v
<1>5. StoreTypeOK'
  BY <1>1, <1>2, <1>3, <1>4 DEF StoreInv, StoreTypeOK
<1>6. s # NULL
  BY <1>2, ConstantsAssumption
<1>7. HistoryOf(u)'
  <2>1. HistoryOf(u)
    BY DEF StoreInv, HistoryComplete
  <2>2. CASE entries[u] = NULL
    <3>1. v = 1 /\ versions[u] = NoRows
      BY <2>1, <2>2 DEF v, NextVersion, HistoryOf, HistoryIn
    <3>2. \A w \in 1..MaxVersion : versions'[u][w] = IF w = 1 THEN s ELSE NULL
      BY <3>1, <1>1, <1>3 DEF NoRows, StoreInv, StoreTypeOK
    <3>3. entries'[u] = s
      BY <1>3 DEF StoreInv, StoreTypeOK
    <3>4. s.ver = 1 /\ s.uri = u /\ 1 \in 1..MaxVersion
      BY <3>1, <1>1, <1>2
    <3>5. \A w \in 1..MaxVersion : /\ versions'[u][w] # NULL <=> w <= 1
                                   /\ versions'[u][w] # NULL => versions'[u][w] = s /\ w = 1
      BY <3>2, <1>6
    <3> QED
      BY <3>3, <3>4, <3>5, <3>2, <1>6 DEF HistoryOf, HistoryIn
  <2>3. CASE entries[u] # NULL
    <3>1. v = entries[u].ver + 1 /\ entries[u].ver \in 1..MaxVersion
      BY <2>3 DEF v, NextVersion, StoreInv, StoreTypeOK, Snapshot
    <3>2. \A w \in 1..MaxVersion :
            versions'[u][w] = IF w = v THEN s ELSE versions[u][w]
      BY <1>1, <1>3 DEF StoreInv, StoreTypeOK
    <3>3. entries'[u] = s
      BY <1>3 DEF StoreInv, StoreTypeOK
    <3>4. \A w \in 1..MaxVersion :
            /\ versions[u][w] # NULL <=> w <= entries[u].ver
            /\ versions[u][w] # NULL => /\ versions[u][w].ver = w
                                        /\ versions[u][w].uri = u
      BY <2>1, <2>3 DEF HistoryOf, HistoryIn
    <3>5. \A w \in 1..MaxVersion :
            /\ versions'[u][w] # NULL <=> w <= v
            /\ versions'[u][w] # NULL => /\ versions'[u][w].ver = w
                                         /\ versions'[u][w].uri = u
      BY <3>1, <3>2, <3>4, <1>1, <1>2, <1>6
    <3> QED
      BY <3>2, <3>3, <3>5, <1>1, <1>2, <1>6 DEF HistoryOf, HistoryIn
  <2> QED
    BY <2>2, <2>3
<1>8. ASSUME NEW w \in Uris, w # u
      PROVE  HistoryOf(w)'
  BY <1>3, <1>8 DEF HistoryOf, HistoryIn, StoreInv, HistoryComplete, StoreTypeOK
<1> QED
  BY <1>5, <1>7, <1>8 DEF StoreInv, HistoryComplete

(* delete drops the row and its whole history together. *)
LEMMA DeleteKeepsInv ==
  ASSUME StoreInv, NEW u \in Uris, Delete(u)
  PROVE  StoreInv'
<1> DEFINE last == LatestVersion(u)
<1>1. last \in 1..MaxVersion /\ versions[u][last] # NULL
  <2> DEFINE e == entries[u].ver
  <2>1. /\ e \in 1..MaxVersion
        /\ versions[u][e] # NULL
        /\ \A w \in 1..MaxVersion : versions[u][w] # NULL => w <= e
    BY ConstantsAssumption
       DEF Delete, StoreInv, StoreTypeOK, HistoryComplete, HistoryOf, HistoryIn, Snapshot
  <2> HIDE DEF e
  <2> QED
    BY <2>1 DEF LatestVersion
<1>2. versions[u][last].coll \in Collections
  BY <1>1 DEF StoreInv, StoreTypeOK, Snapshot
<1> HIDE DEF last
<1>3. /\ entries' = [entries EXCEPT ![u] = NULL]
      /\ versions' = [versions EXCEPT ![u] = NoRows]
      /\ outbox' = outbox \o <<DeleteRow(u, versions[u][last].coll)>>
      /\ relations' = relations \ Touching(u)
  BY DEF Delete, Enqueue, last
<1>4. outbox' \in Seq(Row)
  <2>1. DeleteRow(u, versions[u][last].coll) \in Row
    <3>1. PICK s : s \in Snapshot
      BY <1>1 DEF StoreInv, StoreTypeOK
    <3> QED
      BY <1>2, <3>1, RowType
  <2> QED
    BY <2>1, <1>3 DEF StoreInv, StoreTypeOK
<1>5. revision' \in [Tenants -> Nat]
  <2>1. TenantOf[u] \in Tenants /\ revision \in [Tenants -> Nat]
    BY ConstantsAssumption DEF StoreInv, StoreTypeOK
  <2>2. BumpIf(Touching(u) # {}, TenantOf[u])
    BY DEF Delete
  <2> QED
    BY <2>1, <2>2, BumpType, Zenon
<1>6. StoreTypeOK'
  BY <1>3, <1>4, <1>5 DEF StoreInv, StoreTypeOK, NoRows
<1>7. HistoryComplete'
  BY <1>3 DEF StoreInv, StoreTypeOK, HistoryComplete, HistoryOf, HistoryIn
<1> QED
  BY <1>6, <1>7 DEF StoreInv

(* rename carries the row and its whole history to the new URI. *)
LEMMA RenameKeepsInv ==
  ASSUME StoreInv, NEW from \in Uris, NEW to \in Uris, Rename(from, to)
  PROVE  StoreInv'
<1> DEFINE s == Moved(entries[from], to)
<1> DEFINE hist == [v \in 1..MaxVersion |-> Moved(versions[from][v], to)]
<1>1. entries[from] \in Snapshot /\ entries[from] # NULL
  BY DEF Rename, StoreInv, StoreTypeOK
<1>2. ASSUME NEW x \in Snapshot
      PROVE  /\ [x EXCEPT !.uri = to] \in Snapshot
             /\ [x EXCEPT !.uri = to].uri = to
             /\ [x EXCEPT !.uri = to].ver = x.ver
             /\ [x EXCEPT !.uri = to] # NULL
  BY ConstantsAssumption DEF Snapshot
<1>3. s \in Snapshot /\ s.uri = to /\ s.ver = entries[from].ver /\ s # NULL
  BY <1>1, <1>2 DEF Moved
<1>4. ASSUME NEW v \in 1..MaxVersion
      PROVE  /\ hist[v] \in Snapshot \cup {NULL}
             /\ hist[v] # NULL <=> versions[from][v] # NULL
             /\ hist[v] # NULL => hist[v].uri = to
                                  /\ hist[v].ver = versions[from][v].ver
  <2>1. versions[from][v] \in Snapshot \cup {NULL}
    BY DEF StoreInv, StoreTypeOK
  <2>2. hist[v] = Moved(versions[from][v], to)
    OBVIOUS
  <2>3. CASE versions[from][v] = NULL
    BY <2>2, <2>3 DEF Moved
  <2>4. CASE versions[from][v] # NULL
    BY <2>1, <2>2, <2>4, <1>2 DEF Moved
  <2> QED
    BY <2>3, <2>4
<1>5. hist \in [1..MaxVersion -> Snapshot \cup {NULL}]
  BY <1>4
<1>6. hist[s.ver] = s
  BY <1>1, <1>3 DEF StoreInv, HistoryComplete, HistoryOf, HistoryIn, StoreTypeOK, Snapshot
<1>7. /\ entries' = [entries EXCEPT ![from] = NULL, ![to] = s]
      /\ versions' = [versions EXCEPT ![from] = NoRows, ![to] = hist]
      /\ outbox' = outbox \o <<RenameRow(from, s)>>
  BY DEF Rename, Enqueue
<1>8. \A v \in 1..MaxVersion : versions[from][v] # NULL =>
        versions[from][v].ver = v
  BY <1>1 DEF StoreInv, HistoryComplete, HistoryOf, HistoryIn
<1>9. \A v \in 1..MaxVersion : versions[from][v] # NULL <=> v <= entries[from].ver
  BY <1>1 DEF StoreInv, HistoryComplete, HistoryOf, HistoryIn
<1> HIDE DEF s, hist
<1>10. relations' \in SUBSET (Uris \X Uris \X Kinds)
  BY DEF Rename, Redirect, Touching, StoreInv, StoreTypeOK
<1>11. revision' \in [Tenants -> Nat]
  <2>1. TenantOf[from] \in Tenants /\ revision \in [Tenants -> Nat]
    BY ConstantsAssumption DEF StoreInv, StoreTypeOK
  <2>2. BumpIf(Touching(from) # {}, TenantOf[from])
    BY DEF Rename
  <2> QED
    BY <2>1, <2>2, BumpType, Zenon
<1>12. outbox' \in Seq(Row)
  <2>1. RenameRow(from, s) \in Row
    BY <1>3, RowType DEF Snapshot
  <2> QED
    BY <2>1, <1>7 DEF StoreInv, StoreTypeOK
<1>13. entries' \in [Uris -> Snapshot \cup {NULL}]
  BY <1>3, <1>7 DEF StoreInv, StoreTypeOK
<1>14. versions' \in [Uris -> [1..MaxVersion -> Snapshot \cup {NULL}]]
  BY <1>5, <1>7 DEF StoreInv, StoreTypeOK, NoRows
<1>15. HistoryOf(to)'
  <2>1. entries'[to] = s /\ versions'[to] = hist
    BY <1>7 DEF StoreInv, StoreTypeOK
  <2> QED
    BY <2>1, <1>3, <1>4, <1>6, <1>8, <1>9 DEF HistoryOf, HistoryIn
<1>16. ASSUME NEW w \in Uris, w # to
       PROVE  HistoryOf(w)'
  BY <1>7, <1>16 DEF StoreInv, StoreTypeOK, HistoryComplete, HistoryOf, HistoryIn
<1> QED
  BY <1>10, <1>11, <1>12, <1>13, <1>14, <1>15, <1>16
     DEF StoreInv, StoreTypeOK, HistoryComplete

-----------------------------------------------------------------------------
(* What StoreInv says of the tables one chunk of a batch reads and writes. *)
TablesInv(t) ==
  /\ t.entries \in [Uris -> Snapshot \cup {NULL}]
  /\ t.versions \in [Uris -> [1..MaxVersion -> Snapshot \cup {NULL}]]
  /\ t.outbox \in Seq(Row)
  /\ \A u \in Uris : HistoryIn(u, t.entries[u], t.versions[u])

(* A version given out by the chunk is the snapshot of one of its entries. *)
LEMMA VersionRowType ==
  ASSUME NEW t, TablesInv(t), NEW chunk \in Seq(Item), ChunkFits(t, chunk),
         NEW u \in Uris, NEW v \in NewVersions(t, chunk, u)
  PROVE  /\ VersionRow(t, chunk, u, v) \in Snapshot
         /\ VersionRow(t, chunk, u, v).uri = u
         /\ VersionRow(t, chunk, u, v).ver = v
         /\ v \in 1..MaxVersion
<1> DEFINE S == Places(chunk, u)
<1> DEFINE cur == CurrentVersion(t, u)
<1>1. Len(chunk) \in Nat /\ S \in SUBSET (1..Len(chunk))
  BY DEF Places
<1>2. cur \in Nat
  BY ConstantsAssumption DEF CurrentVersion, TablesInv, Snapshot
<1>3. Cardinality(S) \in Nat
  BY <1>1, FiniteInterval
<1>4. cur + Cardinality(S) <= MaxVersion /\ v \in (cur + 1)..(cur + Cardinality(S))
  BY DEF ChunkFits, FinalVersion, NewVersions
<1> DEFINE i == Nth(S, v - cur)
<1> HIDE DEF S, cur
<1>5. v - cur \in 1..Cardinality(S) /\ v \in 1..MaxVersion
  BY <1>2, <1>3, <1>4, ConstantsAssumption
<1>6. i \in S
  BY <1>1, <1>5, NthElement
<1>7. i \in 1..Len(chunk)
  BY <1>1, <1>6
<1>8. VersionRow(t, chunk, u, v) = Stored(u, chunk[i].in, v)
  BY DEF VersionRow, S, cur
<1> HIDE DEF i
<1>9. chunk[i].in \in Input
  <2>1. chunk[i] \in Item
    BY <1>7, ElementOfSeq
  <2> QED
    BY <2>1 DEF Item
<1> QED
  BY <1>5, <1>8, <1>9, StoredType DEF Stored, Input

(* Every row the chunk enqueues is a row of the outbox. *)
LEMMA ChunkRowsType ==
  ASSUME NEW t, TablesInv(t), NEW chunk \in Seq(Item), ChunkFits(t, chunk),
         NEW k \in 1..Cardinality(Embedded(chunk))
  PROVE  UpsertRow(ItemStored(t, chunk, Nth(Embedded(chunk), k))) \in Row
<1> DEFINE i == Nth(Embedded(chunk), k)
<1>1. Len(chunk) \in Nat /\ Embedded(chunk) \in SUBSET (1..Len(chunk))
  BY DEF Embedded
<1>2. i \in 1..Len(chunk)
  BY <1>1, NthElement
<1> HIDE DEF i
<1> DEFINE u == chunk[i].uri
<1> DEFINE S == Places(chunk, u)
<1> DEFINE cur == CurrentVersion(t, u)
<1>3. u \in Uris /\ chunk[i].in \in Input
  <2>1. chunk[i] \in Item
    BY <1>2, ElementOfSeq
  <2> QED
    BY <2>1 DEF Item
<1>4. S \in SUBSET (1..Len(chunk)) /\ i \in S
  BY <1>2 DEF Places
<1>5. cur \in Nat
  BY <1>3, ConstantsAssumption DEF CurrentVersion, TablesInv, Snapshot
<1>6. cur + Cardinality(S) <= MaxVersion
  BY <1>3 DEF ChunkFits, FinalVersion
<1>7. ItemStored(t, chunk, i) = Stored(u, chunk[i].in, cur + Rank(S, i))
  BY DEF ItemStored
<1> HIDE DEF u, S, cur
<1>8. Cardinality(S) \in Nat /\ Rank(S, i) \in 1..Cardinality(S)
  BY <1>1, <1>4, RankBounds
<1>9. cur + Rank(S, i) \in 1..MaxVersion
  BY <1>5, <1>6, <1>8, ConstantsAssumption
<1>10. ItemStored(t, chunk, i) \in Snapshot
  BY <1>3, <1>7, <1>9, StoredType DEF Input
<1>11. UpsertRow(ItemStored(t, chunk, i)) \in Row
  BY <1>3, <1>10, RowType DEF Input
<1> QED
  BY <1>11 DEF i

(* A chunk keeps every history complete: it gives out, for each URI, the   *)
(* versions that follow the current one without a gap, and the last of     *)
(* them is the row it makes current.                                       *)
LEMMA ChunkKeepsInv ==
  ASSUME NEW t, TablesInv(t), NEW chunk \in Seq(Item), ChunkFits(t, chunk)
  PROVE  TablesInv(WriteChunk(t, chunk))
<1> DEFINE r == WriteChunk(t, chunk)
<1> DEFINE New(u) == NewVersions(t, chunk, u)
<1> DEFINE fin(u) == FinalVersion(t, chunk, u)
<1>1. /\ r.entries = [u \in Uris |-> IF New(u) = {} THEN t.entries[u]
                                     ELSE VersionRow(t, chunk, u, fin(u))]
      /\ r.versions = [u \in Uris |-> [v \in 1..MaxVersion |->
           IF v \in New(u) THEN VersionRow(t, chunk, u, v) ELSE t.versions[u][v]]]
      /\ r.outbox = t.outbox \o [k \in 1..Cardinality(Embedded(chunk)) |->
           UpsertRow(ItemStored(t, chunk, Nth(Embedded(chunk), k)))]
  BY DEF WriteChunk
<1> HIDE DEF r
<1>2. r.outbox \in Seq(Row)
  <2> DEFINE n == Cardinality(Embedded(chunk))
  <2> DEFINE rows == [k \in 1..n |->
                        UpsertRow(ItemStored(t, chunk, Nth(Embedded(chunk), k)))]
  <2>1. n \in Nat
    <3>1. Len(chunk) \in Nat /\ Embedded(chunk) \in SUBSET (1..Len(chunk))
      BY DEF Embedded
    <3> QED
      BY <3>1, FiniteInterval
  <2>2. \A k \in 1..n : rows[k] \in Row
    BY ChunkRowsType
  <2> HIDE DEF n
  <2>3. rows \in [1..n -> Row]
    BY <2>2
  <2>4. rows \in Seq(Row)
    BY <2>1, <2>3
  <2>5. r.outbox = t.outbox \o rows
    BY <1>1 DEF n
  <2> HIDE DEF rows
  <2> QED
    BY <2>4, <2>5 DEF TablesInv
<1>3. ASSUME NEW u \in Uris
      PROVE  /\ r.entries[u] \in Snapshot \cup {NULL}
             /\ r.versions[u] \in [1..MaxVersion -> Snapshot \cup {NULL}]
             /\ HistoryIn(u, r.entries[u], r.versions[u])
  <2> DEFINE cur == CurrentVersion(t, u)
  <2> DEFINE last == fin(u)
  <2>1. /\ cur \in Nat /\ cur <= MaxVersion
        /\ t.entries[u] = NULL => cur = 0
        /\ t.entries[u] # NULL => cur = t.entries[u].ver
    BY ConstantsAssumption DEF CurrentVersion, TablesInv, Snapshot
  <2>2. last \in Nat /\ cur <= last /\ New(u) = (cur + 1)..last /\ last <= MaxVersion
    <3>1. Len(chunk) \in Nat /\ Places(chunk, u) \in SUBSET (1..Len(chunk))
      BY DEF Places
    <3>2. Cardinality(Places(chunk, u)) \in Nat
      BY <3>1, FiniteInterval
    <3> QED
      BY <3>2, <2>1 DEF FinalVersion, NewVersions, ChunkFits
  <2>3. \A v \in New(u) : /\ VersionRow(t, chunk, u, v) \in Snapshot
                          /\ VersionRow(t, chunk, u, v).uri = u
                          /\ VersionRow(t, chunk, u, v).ver = v
                          /\ VersionRow(t, chunk, u, v) # NULL
    BY VersionRowType, ConstantsAssumption
  <2>4. \A v \in 1..MaxVersion :
          r.versions[u][v] = IF v \in New(u) THEN VersionRow(t, chunk, u, v)
                             ELSE t.versions[u][v]
    BY <1>1
  <2>5. \A v \in 1..MaxVersion :
          /\ t.versions[u][v] \in Snapshot \cup {NULL}
          /\ t.versions[u][v] # NULL <=> v <= cur
          /\ t.versions[u][v] # NULL => /\ t.versions[u][v].ver = v
                                        /\ t.versions[u][v].uri = u
    <3>1. HistoryIn(u, t.entries[u], t.versions[u])
      BY DEF TablesInv
    <3>2. \A v \in 1..MaxVersion : t.versions[u][v] \in Snapshot \cup {NULL}
      BY DEF TablesInv
    <3>3. CASE t.entries[u] = NULL
      <4> DEFINE old == t.versions[u]
      <4>1. old = NoRows
        BY <3>1, <3>3 DEF HistoryIn
      <4> HIDE DEF old
      <4>2. \A v \in 1..MaxVersion : old[v] = NULL
        BY <4>1 DEF NoRows
      <4>3. \A v \in 1..MaxVersion : t.versions[u][v] = NULL
        BY <4>2 DEF old
      <4>4. cur = 0
        BY <3>3, <2>1
      <4> HIDE DEF cur
      <4> QED
        BY <3>2, <4>3, <4>4
    <3>4. CASE t.entries[u] # NULL
      <4>1. cur = t.entries[u].ver
        BY <3>4, <2>1
      <4> HIDE DEF cur
      <4> QED
        BY <3>1, <3>2, <3>4, <4>1 DEF HistoryIn
    <3> QED
      BY <3>3, <3>4
  <2>6. r.versions[u] \in [1..MaxVersion -> Snapshot \cup {NULL}]
    <3>1. r.versions[u] = [v \in 1..MaxVersion |->
            IF v \in New(u) THEN VersionRow(t, chunk, u, v) ELSE t.versions[u][v]]
      BY <1>1
    <3> QED
      BY <3>1, <2>3, <2>5
  <2>7. r.entries[u] = IF New(u) = {} THEN t.entries[u]
                       ELSE VersionRow(t, chunk, u, last)
    BY <1>1
  <2> HIDE DEF New, last, cur
  <2>8. CASE New(u) = {}
    <3>1. r.entries[u] = t.entries[u]
      BY <2>7, <2>8
    <3>2. r.versions[u] = t.versions[u]
      <4> DEFINE old == t.versions[u]
      <4> DEFINE new == r.versions[u]
      <4>1. old \in [1..MaxVersion -> Snapshot \cup {NULL}]
        BY DEF TablesInv
      <4>2. new = [v \in 1..MaxVersion |-> old[v]]
        <5>1. r.versions[u] = [v \in 1..MaxVersion |->
            IF v \in New(u) THEN VersionRow(t, chunk, u, v) ELSE t.versions[u][v]]
          BY <1>1 DEF New
        <5> QED
          BY <5>1, <2>8
      <4> HIDE DEF old, new
      <4>3. new = old
        BY <4>1, <4>2
      <4> QED
        BY <4>3 DEF old, new
    <3> QED
      BY <3>1, <3>2, <2>6 DEF TablesInv
  <2>9. CASE New(u) # {}
    <3>1. last \in New(u) /\ last \in 1..MaxVersion
      BY <2>1, <2>2, <2>9
    <3>2. /\ r.entries[u] \in Snapshot /\ r.entries[u] # NULL
          /\ r.entries[u].uri = u /\ r.entries[u].ver = last
          /\ r.versions[u][last] = r.entries[u]
      BY <3>1, <2>3, <2>4, <2>7, <2>9
    <3>3. \A v \in 1..MaxVersion :
            /\ r.versions[u][v] # NULL <=> v <= last
            /\ r.versions[u][v] # NULL => /\ r.versions[u][v].ver = v
                                          /\ r.versions[u][v].uri = u
      BY <2>1, <2>2, <2>3, <2>4, <2>5
    <3> QED
      BY <3>2, <3>3, <2>6 DEF HistoryIn
  <2> QED
    BY <2>8, <2>9
<1>4. /\ r.entries \in [Uris -> Snapshot \cup {NULL}]
      /\ r.versions \in [Uris -> [1..MaxVersion -> Snapshot \cup {NULL}]]
  BY <1>1, <1>3
<1> QED
  BY <1>2, <1>3, <1>4 DEF TablesInv, r

LEMMA BatchWriteKeepsInv ==
  ASSUME StoreInv, NEW head \in Seq(Item), NEW tail \in Seq(Item),
         BatchWrite(head, tail)
  PROVE  StoreInv'
<1> DEFINE mid == WriteChunk(Tables, head)
<1> DEFINE end == WriteChunk(mid, tail)
<1>1. TablesInv(Tables)
  BY DEF Tables, TablesInv, StoreInv, StoreTypeOK, HistoryComplete, HistoryOf
<1>2. TablesInv(mid)
  BY <1>1, ChunkKeepsInv DEF BatchWrite
<1>3. TablesInv(end)
  <2>1. ChunkFits(mid, tail)
    BY DEF BatchWrite
  <2> HIDE DEF mid
  <2> QED
    BY <1>2, <2>1, ChunkKeepsInv
<1>4. /\ entries' = end.entries
      /\ versions' = end.versions
      /\ outbox' = end.outbox
      /\ UNCHANGED <<relations, revision>>
  BY DEF BatchWrite
<1> HIDE DEF mid, end
<1> QED
  BY <1>3, <1>4
     DEF TablesInv, StoreInv, StoreTypeOK, HistoryComplete, HistoryOf

-----------------------------------------------------------------------------
(* The batches StoreNext enumerates are sequences of items. *)
LEMMA BatchesAreSeqs ==
  ASSUME NEW n \in Int, NEW b \in Batches(n)
  PROVE  b \in Seq(Item)
<1>1. PICK k \in 0..n : b \in [1..k -> Item]
  BY DEF Batches
<1>2. k \in Nat
  BY <1>1
<1> QED
  BY <1>1, <1>2

LEMMA InitInv == StoreInit => StoreInv
<1> SUFFICES ASSUME StoreInit PROVE StoreInv
  OBVIOUS
<1>1. StoreTypeOK
  BY DEF StoreInit, StoreTypeOK, NoRows
<1>2. HistoryComplete
  BY DEF StoreInit, HistoryComplete, HistoryOf, HistoryIn
<1> QED
  BY <1>1, <1>2 DEF StoreInv

LEMMA StepInv == StoreInv /\ [StoreNext]_storeVars => StoreInv'
<1> SUFFICES ASSUME StoreInv, [StoreNext]_storeVars PROVE StoreInv'
  OBVIOUS
<1>1. ASSUME NEW u \in Uris, NEW in \in Input, Write(u, in) PROVE StoreInv'
  BY <1>1, WriteKeepsInv DEF Input
<1>2. ASSUME NEW u \in Uris, NEW v \in 1..MaxVersion, Rollback(u, v)
      PROVE  StoreInv'
  <2>1. versions[u][v] \in Snapshot
    BY <1>2 DEF Rollback, StoreInv, StoreTypeOK
  <2> QED
    BY <1>2, <2>1, WriteKeepsInv DEF Rollback, Snapshot
<1>3. ASSUME NEW u \in Uris, Delete(u) PROVE StoreInv'
  BY <1>3, DeleteKeepsInv
<1>4. ASSUME NEW from \in Uris, NEW to \in Uris, Rename(from, to)
      PROVE  StoreInv'
  BY <1>4, RenameKeepsInv
<1>5. ASSUME NEW head \in Batches(MaxBatch),
             NEW tail \in Batches(MaxBatch - Len(head)), BatchWrite(head, tail)
      PROVE  StoreInv'
  <2>1. head \in Seq(Item)
    BY BatchesAreSeqs, ConstantsAssumption
  <2>2. MaxBatch - Len(head) \in Int
    BY <2>1, ConstantsAssumption
  <2>3. tail \in Seq(Item)
    BY <2>2, BatchesAreSeqs
  <2> QED
    BY <1>5, <2>1, <2>3, BatchWriteKeepsInv
<1>6. ASSUME NEW from \in Uris, NEW to \in Uris, NEW kind \in Kinds,
             AddEdge(from, to, kind)
      PROVE  StoreInv'
  <2>1. revision' \in [Tenants -> Nat]
    BY <1>6, BumpType, ConstantsAssumption DEF AddEdge, StoreInv, StoreTypeOK
  <2> QED
    BY <1>6, <2>1
       DEF AddEdge, StoreInv, StoreTypeOK, HistoryComplete, HistoryOf
<1>7. ASSUME NEW from \in Uris, NEW to \in Uris, RemoveEdge(from, to)
      PROVE  StoreInv'
  <2>1. revision' \in [Tenants -> Nat]
    BY <1>7, BumpType, ConstantsAssumption DEF RemoveEdge, StoreInv, StoreTypeOK
  <2> QED
    BY <1>7, <2>1
       DEF RemoveEdge, StoreInv, StoreTypeOK, HistoryComplete, HistoryOf
<1>8. CASE UNCHANGED storeVars
  BY <1>8 DEF storeVars, StoreInv, StoreTypeOK, HistoryComplete, HistoryOf
<1> QED
  BY <1>1, <1>2, <1>3, <1>4, <1>5, <1>6, <1>7, <1>8
     DEF StoreNext, ContentNext, BatchNext, GraphNext

(* The tables keep their types, whatever operations run. *)
THEOREM StoreTyped == StoreSpec => []StoreTypeOK
<1>1. StoreInv => StoreTypeOK
  BY DEF StoreInv
<1> QED
  BY <1>1, InitInv, StepInv, PTL DEF StoreSpec

(* However writes, rollbacks, batches, deletes and renames interleave, the *)
(* history of every URI is 1 .. mvcc_version without a gap and its newest  *)
(* row is the current row.                                                 *)
THEOREM StoreHistoryComplete == StoreSpec => []HistoryComplete
<1>1. StoreInv => HistoryComplete
  BY DEF StoreInv
<1> QED
  BY <1>1, InitInv, StepInv, PTL DEF StoreSpec

-----------------------------------------------------------------------------
(* What a step may do to the history.                                      *)

\* A history row of u stays as it says, or u is gone.
RowKept(u, v) ==
  versions[u][v] # NULL =>
    \/ entries'[u] = NULL
    \/ versions'[u][v] # NULL /\ SameContent(versions[u][v], versions'[u][v])

LEMMA UnchangedRowKept ==
  ASSUME NEW u, NEW v, versions'[u][v] = versions[u][v]
  PROVE  RowKept(u, v)
BY DEF RowKept, SameContent

LEMMA RenameKeepsRows ==
  ASSUME StoreTypeOK, NEW from \in Uris, NEW to \in Uris, Rename(from, to),
         NEW u \in Uris, NEW v \in 1..MaxVersion
  PROVE  RowKept(u, v)
<1>1. CASE u = from /\ u # to
  <2>1. entries'[u] = NULL
    BY <1>1 DEF Rename, StoreTypeOK
  <2> QED
    BY <2>1 DEF RowKept
<1>2. CASE u = to
  <2>1. versions'[u][v] = Moved(versions[from][v], to)
    BY <1>2 DEF Rename, StoreTypeOK
  <2>2. versions[u][v] # NULL => from = to
    BY <1>2 DEF Rename, NoRows
  <2>3. ASSUME versions[u][v] # NULL PROVE versions[u][v] \in Snapshot
    BY <2>3 DEF StoreTypeOK
  <2>4. \A s \in Snapshot : Moved(s, to) \in Snapshot /\ SameContent(s, Moved(s, to))
    BY ConstantsAssumption DEF Moved, SameContent, Snapshot
  <2> QED
    BY <1>2, <2>1, <2>2, <2>3, <2>4, ConstantsAssumption DEF RowKept
<1>3. CASE u # from /\ u # to
  <2>1. versions'[u] = versions[u]
    BY <1>3 DEF Rename, StoreTypeOK
  <2> QED
    BY <2>1, UnchangedRowKept
<1> QED
  BY <1>1, <1>2, <1>3

\* A chunk that fits adds rows and changes none.
LEMMA ChunkKeepsRows ==
  ASSUME NEW t, NEW chunk, ChunkFits(t, chunk), NEW u \in Uris, NEW v \in 1..MaxVersion,
         t.versions[u][v] # NULL
  PROVE  WriteChunk(t, chunk).versions[u][v] = t.versions[u][v]
<1>1. v \notin NewVersions(t, chunk, u)
  BY DEF ChunkFits
<1>2. WriteChunk(t, chunk).versions =
        [x \in Uris |-> [w \in 1..MaxVersion |->
           IF w \in NewVersions(t, chunk, x) THEN VersionRow(t, chunk, x, w) ELSE t.versions[x][w]]]
  BY DEF WriteChunk
<1> QED
  BY <1>1, <1>2

LEMMA BatchKeepsRows ==
  ASSUME NEW head, NEW tail, BatchWrite(head, tail), NEW u \in Uris, NEW v \in 1..MaxVersion
  PROVE  RowKept(u, v)
<1> DEFINE mid == WriteChunk(Tables, head)
<1>1. ChunkFits(Tables, head) /\ ChunkFits(mid, tail) /\ versions' = WriteChunk(mid, tail).versions
  BY DEF BatchWrite
<1>2. Tables.versions = versions
  BY DEF Tables
<1> HIDE DEF mid
<1>3. ASSUME versions[u][v] # NULL PROVE mid.versions[u][v] = versions[u][v]
  BY <1>1, <1>2, <1>3, ChunkKeepsRows DEF mid
<1>4. ASSUME versions[u][v] # NULL PROVE versions'[u][v] = versions[u][v]
  BY <1>1, <1>3, <1>4, ChunkKeepsRows
<1> QED
  BY <1>4, UnchangedRowKept DEF RowKept

LEMMA StepKeepsRows ==
  ASSUME StoreTypeOK, StoreNext, NEW u \in Uris, NEW v \in 1..MaxVersion
  PROVE  RowKept(u, v)
<1>1. ASSUME NEW w \in Uris, NEW in, WriteInTx(w, in) PROVE RowKept(u, v)
  <2>1. versions[u][v] # NULL => versions'[u][v] = versions[u][v]
    <3> DEFINE n == NextVersion(w)
               row == Stored(w, in, n)
    <3>1. versions[w][n] = NULL /\ versions' = [versions EXCEPT ![w][n] = row]
      BY <1>1 DEF WriteInTx
    <3> HIDE DEF n, row
    <3> QED
      BY <3>1 DEF StoreTypeOK
  <2> QED
    BY <2>1, UnchangedRowKept DEF RowKept
<1>2. ASSUME NEW w \in Uris, Delete(w) PROVE RowKept(u, v)
  <2>1. IF u = w THEN entries'[u] = NULL ELSE versions'[u] = versions[u]
    BY <1>2 DEF Delete, StoreTypeOK
  <2> QED
    BY <2>1, UnchangedRowKept DEF RowKept
<1>3. ASSUME NEW from, NEW to, NEW kind, AddEdge(from, to, kind) \/ RemoveEdge(from, to) PROVE RowKept(u, v)
  BY <1>3, UnchangedRowKept DEF AddEdge, RemoveEdge
<1> QED
  BY <1>1, <1>2, <1>3, RenameKeepsRows, BatchKeepsRows
     DEF StoreNext, ContentNext, BatchNext, GraphNext, Write, Rollback

\* write_in_tx, rollback, batch_write, delete and rename never edit what a
\* history row says (sqlite.rs): they add rows, drop or carry them.
THEOREM HistoryStaysImmutable == StoreSpec => HistoryImmutable
<1>1. ASSUME StoreInv, [StoreNext]_storeVars
      PROVE  [\A u \in Uris, v \in 1..MaxVersion :
                versions[u][v] # NULL =>
                  \/ entries'[u] = NULL
                  \/ /\ versions'[u][v] # NULL
                     /\ SameContent(versions[u][v], versions'[u][v])]_storeVars
  BY <1>1, StepKeepsRows DEF RowKept, StoreInv
<1> QED
  BY <1>1, InitInv, StepInv, PTL DEF StoreSpec, HistoryImmutable

-----------------------------------------------------------------------------
(* The graph revision.                                                     *)

\* A counter that is bumped because something changed is larger.
LEMMA BumpAdvances ==
  ASSUME StoreTypeOK, NEW t \in Tenants, NEW changed \in BOOLEAN, changed, BumpIf(changed, t)
  PROVE  revision'[t] > revision[t]
BY DEF BumpIf, StoreTypeOK

\* An edge that touches u lies within no other tenant than that of u.
LEMMA TouchingWithin ==
  ASSUME StoreTypeOK, NEW u \in Uris, NEW t \in Tenants, NEW r \in Touching(u), r \in EdgesWithin(t, relations)
  PROVE  t = TenantOf[u]
BY DEF Touching, EdgesWithin

LEMMA StepAdvancesRevision ==
  ASSUME StoreTypeOK, StoreNext, NEW t \in Tenants,
         EdgesWithin(t, relations') # EdgesWithin(t, relations)
  PROVE  revision'[t] > revision[t]
<1>1. relations' # relations
  OBVIOUS
<1>2. ASSUME NEW u \in Uris, Delete(u) PROVE revision'[t] > revision[t]
  <2>1. relations' = relations \ Touching(u) /\ BumpIf(Touching(u) # {}, TenantOf[u])
    BY <1>2 DEF Delete
  <2>2. PICK r \in Touching(u) : r \in EdgesWithin(t, relations)
    BY <2>1 DEF EdgesWithin, Touching
  <2>3. t = TenantOf[u]
    BY <2>2, TouchingWithin
  <2> QED
    BY <2>1, <2>2, <2>3, BumpAdvances
<1>3. ASSUME NEW from \in Uris, NEW to \in Uris, Rename(from, to) PROVE revision'[t] > revision[t]
  <2>1. /\ relations' = (relations \ Touching(from)) \cup {Redirect(r, from, to) : r \in Touching(from)}
        /\ BumpIf(Touching(from) # {}, TenantOf[from]) /\ TenantOf[from] = TenantOf[to]
    BY <1>3 DEF Rename
  <2>2. PICK e : \/ e \in EdgesWithin(t, relations) /\ e \notin relations'
                 \/ e \in EdgesWithin(t, relations') /\ e \notin relations
    BY DEF EdgesWithin
  <2>3. Touching(from) # {} /\ t = TenantOf[from]
    <3>1. CASE e \in EdgesWithin(t, relations) /\ e \notin relations'
      <4>1. e \in Touching(from)
        BY <2>1, <3>1 DEF EdgesWithin
      <4> QED
        BY <3>1, <4>1, TouchingWithin
    <3>2. CASE e \in EdgesWithin(t, relations') /\ e \notin relations
      <4>1. PICK r \in Touching(from) : e = Redirect(r, from, to)
        BY <2>1, <3>2 DEF EdgesWithin
      <4>2. e[1] = to \/ e[2] = to
        BY <4>1 DEF Redirect, Touching
      <4>3. TenantOf[to] = t
        BY <3>2, <4>2 DEF EdgesWithin
      <4> QED
        BY <2>1, <4>1, <4>3
    <3> QED
      BY <2>2, <3>1, <3>2
  <2> QED
    BY <2>1, <2>3, BumpAdvances
<1>4. ASSUME NEW from \in Uris, NEW to \in Uris, NEW kind \in Kinds, AddEdge(from, to, kind)
      PROVE  revision'[t] > revision[t]
  <2>1. relations' = relations \cup {<<from, to, kind>>} /\ BumpIf(TRUE, TenantOf[from])
    BY <1>4 DEF AddEdge
  <2>2. TenantOf[from] = t
    BY <2>1 DEF EdgesWithin
  <2> QED
    BY <2>1, <2>2, BumpAdvances
<1>5. ASSUME NEW from \in Uris, NEW to \in Uris, RemoveEdge(from, to) PROVE revision'[t] > revision[t]
  <2>1. relations' = relations \ {r \in relations : r[1] = from /\ r[2] = to} /\ BumpIf(TRUE, TenantOf[from])
    BY <1>5 DEF RemoveEdge
  <2>2. TenantOf[from] = t
    BY <2>1 DEF EdgesWithin
  <2> QED
    BY <2>1, <2>2, BumpAdvances
<1>6. ASSUME \/ \E u, in : Write(u, in)
             \/ \E u, v : Rollback(u, v)
             \/ \E head, tail : BatchWrite(head, tail)
      PROVE  FALSE
  BY <1>1, <1>6 DEF Write, Rollback, BatchWrite
<1> QED
  BY <1>2, <1>3, <1>4, <1>5, <1>6 DEF StoreNext, ContentNext, BatchNext, GraphNext

\* Whatever changes the edges within a tenant (delete, rename, add_edge,
\* remove_edge) bumps its graph revision, so scores cached for a revision are
\* those of one graph.
THEOREM RevisionAlwaysCovers == StoreSpec => RevisionCoversEdges
<1>1. ASSUME StoreInv, [StoreNext]_storeVars
      PROVE  [\A t \in Tenants :
                EdgesWithin(t, relations') # EdgesWithin(t, relations) => revision'[t] > revision[t]]_storeVars
  BY <1>1, StepAdvancesRevision DEF StoreInv
<1> QED
  BY <1>1, InitInv, StepInv, PTL DEF StoreSpec, RevisionCoversEdges
=============================================================================
