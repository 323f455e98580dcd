------------------------------ MODULE WriteDedup ------------------------------
(* The decorator that drops a write whose text is nearly that of an entry    *)
(* beside it (write_dedup.rs).  It looks first and writes after, with an     *)
(* await in between, for several writers.                                    *)
EXTENDS Integers, Sequences, FiniteSets, SequencesExt, Absent

CONSTANTS
  DedupWriters,     \* tasks that write
  ScopesUnder,      \* for each URI: the URIs whose text begins with its parent's
  DedupBatches,     \* sequences of entries to write: uri, type, full and dense text as sorted tokens
  ScanLimit, MinTokens, JaccardPercent,
  MaxDedupWrites    \* bound: batches, stored versions and deletes

VARIABLES
  rows,     \* stored entries by URI with their version, and when they were looked for and written
  commits,  \* writes and deletes so far
  writes     \* per writer: its batch, its place in it, the answers so far

dedupVars == <<rows, commits, writes>>

\* The strongest level that is not blank.
SemanticTokens(entry) == IF entry.full # << >> THEN entry.full ELSE entry.dense

Merged == [inter |-> 0, union |-> 0]
RECURSIVE MergeTokens(_, _, _)
MergeTokens(left, right, count) ==
  IF left = << >> \/ right = << >> THEN [count EXCEPT !.union = @ + Len(left) + Len(right)]
  ELSE IF Head(left) = Head(right) THEN MergeTokens(Tail(left), Tail(right), [inter |-> count.inter + 1, union |-> count.union + 1])
  ELSE IF Head(left) < Head(right) THEN MergeTokens(Tail(left), right, [count EXCEPT !.union = @ + 1])
  ELSE MergeTokens(left, Tail(right), [count EXCEPT !.union = @ + 1])

JaccardSorted(left, right) ==
  IF left = << >> \/ right = << >> THEN 0
  ELSE LET count == MergeTokens(left, right, Merged) IN (100 * count.inter) \div count.union

\* The first page of the URIs that begin like the parent.
RowsInScope(uri) == {u \in DOMAIN rows : u \in ScopesUnder[uri]}
ScanPage(uri) == {u \in RowsInScope(uri) : Cardinality({v \in RowsInScope(uri) : v < u}) < ScanLimit}

SimilarityTo(entry, uri) == JaccardSorted(SemanticTokens(entry), SemanticTokens(rows[uri].entry))
DuplicatesOf(entry) ==
  {u \in ScanPage(entry.uri) :
     /\ u # entry.uri /\ rows[u].entry.type = entry.type
     /\ Len(SemanticTokens(rows[u].entry)) >= MinTokens
     /\ SimilarityTo(entry, u) >= JaccardPercent}

\* The most similar, the first of equals.
FindDuplicate(entry) ==
  LET twins == DuplicatesOf(entry)
      best == CHOOSE u \in twins : \A v \in twins : SimilarityTo(entry, v) < SimilarityTo(entry, u) \/ (SimilarityTo(entry, v) = SimilarityTo(entry, u) /\ u <= v)
  IN IF Len(SemanticTokens(entry)) < MinTokens \/ twins = {} THEN NULL
     ELSE [uri |-> best, similarity |-> SimilarityTo(entry, best), version |-> rows[best].version]

IdleWriter == [at |-> "idle", batch |-> << >>, answers |-> << >>, looked |-> 0, sawAll |-> FALSE]
EntryOf(w) == writes[w].batch[Len(writes[w].answers) + 1]
AnsweredWith(w, answer, call) ==
  LET more == Append(call.answers, answer)
  IN [writes EXCEPT ![w] = [call EXCEPT !.answers = more, !.at = IF Len(more) < Len(call.batch) THEN "look" ELSE "done"]]

BeginWrite(w) ==
  /\ writes[w].at \in {"idle", "done", "failed"} /\ commits < MaxDedupWrites
  /\ \E batch \in DedupBatches : writes' = [writes EXCEPT ![w] = [IdleWriter EXCEPT !.at = "look", !.batch = batch]]
  /\ UNCHANGED <<rows, commits>>

\* The duplicate's version is the answer: nothing is written.
LookForTwin(w) ==
  /\ writes[w].at = "look"
  /\ LET twin == FindDuplicate(EntryOf(w))
         sawAll == Cardinality(RowsInScope(EntryOf(w).uri)) <= ScanLimit
     IN writes' = IF twin # NULL
                 THEN AnsweredWith(w, [dropped |-> twin, now |-> rows[twin.uri].entry], writes[w])
                 ELSE [writes EXCEPT ![w] = [@ EXCEPT !.at = "write", !.looked = commits, !.sawAll = sawAll]]
  /\ UNCHANGED <<rows, commits>>

WriteEntry(w) ==
  /\ writes[w].at = "write" /\ commits < MaxDedupWrites
  /\ LET entry == EntryOf(w)
         version == IF entry.uri \in DOMAIN rows THEN rows[entry.uri].version + 1 ELSE 1
         row == [entry |-> entry, version |-> version, looked |-> writes[w].looked, sawAll |-> writes[w].sawAll, written |-> commits + 1]
     IN /\ rows' = [u \in DOMAIN rows \cup {entry.uri} |-> IF u = entry.uri THEN row ELSE rows[u]]
        /\ writes' = AnsweredWith(w, [written |-> entry.uri, version |-> version], writes[w])
  /\ commits' = commits + 1

\* The store fails: what the batch has written stays.
FailWrite(w) ==
  /\ writes[w].at \in {"look", "write"}
  /\ writes' = [writes EXCEPT ![w] = [IdleWriter EXCEPT !.at = "failed"]]
  /\ UNCHANGED <<rows, commits>>

DeleteEntry ==
  /\ commits < MaxDedupWrites /\ commits' = commits + 1
  /\ \E u \in DOMAIN rows : rows' = [v \in DOMAIN rows \ {u} |-> rows[v]]
  /\ UNCHANGED writes

DedupInit ==
  /\ rows = << >> /\ commits = 0
  /\ writes = [w \in DedupWriters |-> IdleWriter]

DedupNext ==
  \/ \E w \in DedupWriters : BeginWrite(w) \/ LookForTwin(w) \/ WriteEntry(w) \/ FailWrite(w)
  \/ DeleteEntry

(***************************************************************************)
(* What must hold.                                                         *)
(***************************************************************************)
SharePercent(a, b) == LET x == Range(SemanticTokens(a)) y == Range(SemanticTokens(b)) IN (100 * Cardinality(x \cap y)) \div Cardinality(x \cup y)
Long(entry) == Len(SemanticTokens(entry)) >= MinTokens
Twins(a, b) == a.type = b.type /\ Long(a) /\ Long(b) /\ SharePercent(a, b) >= JaccardPercent

\* Entries of one scope are twins only when the later one was looked for before the other was written, or beyond the first page.
TwinsOverlapped ==
  \A u, v \in DOMAIN rows :
    u # v /\ u \in ScopesUnder[v] /\ rows[u].written < rows[v].written /\ Twins(rows[u].entry, rows[v].entry) =>
      rows[v].looked < rows[u].written \/ ~rows[v].sawAll

\* A dropped write was a twin of the entry it was dropped for, and of no closer one.
DropsAreTwins ==
  \A w \in DedupWriters : \A k \in DOMAIN writes[w].answers :
    "dropped" \in DOMAIN writes[w].answers[k] =>
      LET drop == writes[w].answers[k]
      IN /\ Twins(writes[w].batch[k], drop.now) /\ drop.dropped.uri # writes[w].batch[k].uri
         /\ drop.dropped.similarity = SharePercent(writes[w].batch[k], drop.now)

\* A batch is answered in full or fails; a duplicate within it is seen.
BatchesAnswered ==
  \A w \in DedupWriters : writes[w].at = "done" =>
    /\ Len(writes[w].answers) = Len(writes[w].batch)
    /\ \A k \in DOMAIN writes[w].batch : "written" \in DOMAIN writes[w].answers[k] => writes[w].answers[k].written = writes[w].batch[k].uri

DedupSound == TwinsOverlapped /\ DropsAreTwins /\ BatchesAnswered
=============================================================================
