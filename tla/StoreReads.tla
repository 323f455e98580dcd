----------------------------- MODULE StoreReads -----------------------------
(* What the content stores answer: lists, a page at a time, and graph reads. *)
(* The two share no state.                                                   *)
EXTENDS Absent, Naturals, Sequences, FiniteSets, SequencesExt, FiniteSetsExt

(***************************************************************************)
(* Reading a content store page by page (ls, tree, find, scan_by_prefix,     *)
(* version_history, list_tenants): each page is a query of its own, keyed by *)
(* the last item of the page before, while entries come and go; and what ls  *)
(* and tree of the two stores say of the same entries.                       *)
(***************************************************************************)
CONSTANTS
  MaxName,           \* names in a path
  MaxPage,           \* largest page
  MaxFileChanges     \* bounds how often the entries change

VARIABLES
  files,             \* the paths of the entries
  reader,            \* a client that reads page after page
  fileChanges

browsingVars == <<files, reader, fileChanges>>

Names == 1..MaxName
Paths == {<<n>> : n \in Names} \cup {<<n, k>> : n, k \in Names}
Under(dir, F) == {p \in F : IsStrictPrefix(dir, p)}

\* Keys in the order of the URIs: a path precedes the paths below it.
KeyOf(p) == p[1] * 10 + (IF Len(p) = 2 THEN p[2] ELSE 0)

\* What the queries select, as keys.  ls: the first components below the root.
LsRows(F) == {p[1] : p \in F}
\* find and the scans: an entry at the scope or below it.
InScope(p) == p[1] = 1
FindRows(F) == {KeyOf(p) : p \in F}
ScanRows(F) == {KeyOf(p) : p \in {q \in F : InScope(q)}}
\* An entry of the type asked for is one with an even last name.
TypeRows(F) == {KeyOf(p) : p \in {q \in F : InScope(q) /\ Last(q) % 2 = 0}}
\* list_tenants: SELECT DISTINCT; a tenant is a first name.
TenantRows(F) == {KeyOf(p) \div 10 : p \in F}

Queries == {"ls", "find", "scan", "type", "tenants"}
RowsOf(query, F) ==
  CASE query = "ls" -> LsRows(F)
    [] query = "find" -> FindRows(F)
    [] query = "scan" -> ScanRows(F)
    [] query = "type" -> TypeRows(F)
    [] query = "tenants" -> TenantRows(F)

\* ORDER BY key LIMIT limit + 1 WHERE key > after.
Fetched(rows, after, limit) ==
  LET left == {k \in rows : k > after}
      count == IF Cardinality(left) > limit THEN limit + 1 ELSE Cardinality(left)
  IN [i \in 1..count |-> CHOOSE k \in left : Cardinality({j \in left : j < k}) = i - 1]

Shown(fetched, limit) == SubSeq(fetched, 1, IF Len(fetched) > limit THEN limit ELSE Len(fetched))

\* Fault: the cursor is the row that was fetched to see whether there are more.
CursorPastExtra(fetched, limit) == IF Len(fetched) > limit THEN Last(fetched) ELSE NULL

\* finish_page: the last item shown, when there are more.
Cursor(fetched, limit) == IF Len(fetched) > limit THEN fetched[limit] ELSE NULL

BrowsingInit ==
  /\ files = {} /\ fileChanges = 0
  /\ reader = [query |-> NULL, limit |-> 1, after |-> 0, got |-> <<>>, throughout |-> {}, ever |-> {}]

\* Entries are there before the first page is read.
ChangeFiles(p) ==
  /\ fileChanges < MaxFileChanges \/ reader.query = NULL
  /\ fileChanges' = IF reader.query = NULL THEN 0 ELSE fileChanges + 1
  /\ files' = IF p \in files THEN files \ {p} ELSE files \cup {p}
  /\ reader' = IF reader.query = NULL THEN reader
               ELSE [reader EXCEPT !.throughout = @ \cap RowsOf(reader.query, files'),
                                   !.ever = @ \cup RowsOf(reader.query, files')]

StartWalk(query, limit) ==
  /\ reader.query = NULL
  /\ reader' = [query |-> query, limit |-> limit, after |-> 0, got |-> <<>>,
                throughout |-> RowsOf(query, files), ever |-> RowsOf(query, files)]
  /\ UNCHANGED <<files, fileChanges>>

NextPage ==
  /\ reader.query # NULL /\ reader.after # NULL
  /\ LET fetched == Fetched(RowsOf(reader.query, files), reader.after, reader.limit)
     IN reader' = [reader EXCEPT !.got = @ \o Shown(fetched, reader.limit),
                                 !.after = Cursor(fetched, reader.limit)]
  /\ UNCHANGED <<files, fileChanges>>

BrowsingNext ==
  \/ \E p \in Paths : ChangeFiles(p)
  \/ \E query \in Queries, limit \in 1..MaxPage : StartWalk(query, limit)
  \/ NextPage

-----------------------------------------------------------------------------
\* The flag of a child.  SQLite: max(instr(rest, '/') > 0).  PostgreSQL: the first
\* row below the child is not the child itself.
SqliteLsIsDir(n, F) == \E p \in Under(<<>>, F) : p[1] = n /\ Len(p) > 1
PgLsIsDir(n, F) ==
  LET rows == {p \in F : p[1] = n} IN (CHOOSE p \in rows : \A q \in rows : KeyOf(p) <= KeyOf(q)) # <<n>>

\* build_tree looks for any deeper row, build_tree_level at the first row it sees.
SqliteTreeIsDir(n, F) == Under(<<n>>, F) # {}
PgTreeIsDir(n, F) ==
  LET seen == SetToSortSeq({p \in F : p[1] = n}, LAMBDA p, q : KeyOf(p) < KeyOf(q))
  IN Len(Head(seen)) > 1

Level(F, directories, depth) ==
  {<<n>> : n \in RowsOf("ls", F)}
    \cup {p \in F : Len(p) = 2 /\ depth > 1 /\ p[1] \in directories}

\* A client that follows the cursors to the end has every item that was there all
\* along, none that never was, each once and in order, whatever was added and
\* removed between its pages.
WalkComplete ==
  /\ \A i, j \in DOMAIN reader.got : i < j => reader.got[i] < reader.got[j]
  /\ Range(reader.got) \subseteq reader.ever
  /\ reader.query # NULL /\ reader.after = NULL => reader.throughout \subseteq Range(reader.got)

\* In both stores ls gives a child the flag that tree gives it; the tree of the
\* SQLite store shows every entry, and that of the PostgreSQL store all but those
\* below a path that is an entry itself.
ListsAgree ==
  /\ \A n \in RowsOf("ls", files) :
       SqliteLsIsDir(n, files) = SqliteTreeIsDir(n, files) /\ PgLsIsDir(n, files) = PgTreeIsDir(n, files)
  /\ files \subseteq Level(files, {n \in RowsOf("ls", files) : SqliteTreeIsDir(n, files)}, 2)
  /\ files \ Level(files, {n \in RowsOf("ls", files) : PgTreeIsDir(n, files)}, 2) = {p \in files : Len(p) = 2 /\ <<p[1]>> \in files}

WalksAreComplete == WalkComplete /\ ListsAgree

(***************************************************************************)
(* GraphStore: edges, the revision that tells graphs apart, centrality with  *)
(* its scores cached per revision, and batch_traverse.  centrality reads the *)
(* graph, then the revision, then the cache in queries of their own, while   *)
(* edges come and go.  A score is represented by what it is computed from:   *)
(* the nodes and the edges among them (a warm start converges to the same).  *)
(***************************************************************************)
CONSTANTS
  GraphNodes,
  GraphHops,        \* GraphCentralityConfig::max_hops
  MaxLinkChanges    \* bounds how often the edges change

VARIABLES
  engine,           \* "sqlite" or "postgres"
  links,            \* context_relations
  graphRev,         \* context_graph_revisions
  graphsAt,         \* revision -> the graphs there have been while it was current
  overtaken,        \* revisions that began while a reader had read a graph
  scores,           \* context_graph_centrality: revision -> node -> score
  asker             \* a client inside centrality

graphVars == <<engine, links, graphRev, graphsAt, overtaken, scores, asker>>

Revisions == 0..MaxLinkChanges
Pairs == {p \in GraphNodes \X GraphNodes : p[1] # p[2]}
Ends(E) == {p[1] : p \in E} \cup {p[2] : p \in E}
Within(N, E) == {p \in E : p[1] \in N /\ p[2] \in N}
Nobody == [at |-> "idle", uri |-> NULL, nodes |-> {}, edges |-> {}, rev |-> 0]

GraphInit ==
  /\ engine \in {"sqlite", "postgres"}
  /\ links = {} /\ graphRev = 0 /\ graphsAt = [r \in Revisions |-> IF r = 0 THEN {{}} ELSE {}]
  /\ overtaken = {} /\ scores = [r \in Revisions |-> [v \in GraphNodes |-> NULL]]
  /\ asker = Nobody

\* Edges as they are now, under a new revision or under the current one.
NewGraph(E, rev) ==
  /\ links' = E /\ graphRev' = rev
  /\ graphsAt' = [graphsAt EXCEPT ![rev] = @ \cup {E}]
  /\ overtaken' = IF rev # graphRev /\ asker.at # "idle" THEN overtaken \cup {rev} ELSE overtaken
  /\ UNCHANGED <<engine, scores, asker>>

Link(p) == p \notin links /\ graphRev < MaxLinkChanges /\ NewGraph(links \cup {p}, graphRev + 1)

\* add_edge advances the revision, and so does remove_edge in the SQLite store.
RevisionAfterUnlink == IF engine = "sqlite" THEN graphRev + 1 ELSE graphRev

Unlink(p) == p \in links /\ graphRev < MaxLinkChanges /\ NewGraph(links \ {p}, RevisionAfterUnlink)

-----------------------------------------------------------------------------
(* centrality.                                                               *)

\* The nodes reached over edges of either direction.
Around(N, E) == N \cup Ends({p \in E : p[1] \in N \/ p[2] \in N})
Neighbourhood(u, E) ==
  LET near[h \in 0..GraphHops] == IF h = 0 THEN {u} ELSE Around(near[h - 1], E) IN near[GraphHops]

Asks(at) == asker' = at /\ UNCHANGED <<engine, links, graphRev, graphsAt, overtaken, scores>>

\* SQLite: all edges of the tenant in one query.
AskSqlite(u) ==
  /\ engine = "sqlite" /\ asker.at = "idle" /\ u \in Ends(links)
  /\ Asks([at |-> "revision", uri |-> u, nodes |-> Ends(links), edges |-> links, rev |-> 0])

\* PostgreSQL: the frontiers first, then the edges among their nodes.
AskPg(u) ==
  /\ engine = "postgres" /\ asker.at = "idle" /\ Neighbourhood(u, links) # {u}
  /\ Asks([at |-> "edges", uri |-> u, nodes |-> Neighbourhood(u, links), edges |-> {}, rev |-> 0])

ReadEdges ==
  /\ asker.at = "edges"
  /\ Asks([asker EXCEPT !.at = "revision", !.edges = Within(asker.nodes, links)])

\* The revision and the cached score: a score that is there is the answer.
ReadRevision ==
  /\ asker.at = "revision"
  /\ Asks(IF scores[graphRev][asker.uri] # NULL THEN Nobody ELSE [asker EXCEPT !.at = "store", !.rev = graphRev])

\* The scores of all nodes read go under the revision read.
StoreScores ==
  /\ asker.at = "store"
  /\ scores' = [scores EXCEPT ![asker.rev] = [v \in GraphNodes |->
       IF v \in asker.nodes THEN [nodes |-> asker.nodes, edges |-> asker.edges] ELSE @[v]]]
  /\ asker' = Nobody
  /\ UNCHANGED <<engine, links, graphRev, graphsAt, overtaken>>

GraphNext ==
  \/ \E p \in Pairs : Link(p) \/ Unlink(p)
  \/ \E u \in GraphNodes : AskSqlite(u) \/ AskPg(u)
  \/ ReadEdges \/ ReadRevision \/ StoreScores

-----------------------------------------------------------------------------
(* batch_traverse: hop after hop, no node is expanded twice.                 *)

Traversed(seeds, hops, E) ==
  LET step[h \in 0..hops] ==
        IF h = 0 THEN [frontier |-> seeds, visited |-> {}, found |-> {}]
        ELSE LET fresh == step[h - 1].frontier \ step[h - 1].visited
                 out == {p \in E : p[1] \in fresh}
             IN [frontier |-> {p[2] : p \in out}, visited |-> step[h - 1].visited \cup fresh,
                 found |-> step[h - 1].found \cup out]
  IN step[hops].found

-----------------------------------------------------------------------------
(* pagerank_scores and incremental_pagerank_scores over the nodes N, with a  *)
(* damping of 1/2: a rank is a numerator over a common denominator D, which  *)
(* a step multiplies by Widen, so that every division is exact.              *)

Targets(v, E) == {p[2] : p \in {e \in E : e[1] = v}}
Widen(N) == 4 * Cardinality(N)

\* One iteration: a node without outgoing edges gives its rank to all nodes.
PageRankStep(r, D, N, E) ==
  LET w == Widen(N)
      dangling == MapThenSumSet(LAMBDA v : r[v], {x \in N : Targets(x, E) = {}})
      share(u) == (r[u] * w) \div (2 * Cardinality(Targets(u, E)))
  IN [v \in N |-> (D * w) \div (2 * Cardinality(N)) + (dangling * w) \div (2 * Cardinality(N)) 
                  + MapThenSumSet(share, {u \in N : v \in Targets(u, E)})]

\* solve_pagerank: max_iterations steps from the ranks given.
Solved(start, D, N, E, iterations) ==
  LET ranks[i \in 0..iterations] ==
        IF i = 0 THEN [rank |-> start, denominator |-> D]
        ELSE [rank |-> PageRankStep(ranks[i - 1].rank, ranks[i - 1].denominator, N, E),
              denominator |-> ranks[i - 1].denominator * Widen(N)]
  IN ranks[iterations]

\* incremental_pagerank_scores: the earlier scores, 1 for a new node, unless the
\* nodes near the changed ones are more than the threshold.
WarmStart(previous, seeds, threshold, N, E) ==
  LET near == UNION {Neighbourhood(v, E) : v \in seeds \cap N}
  IN IF seeds = {} \/ Cardinality(near) > threshold THEN NULL
     ELSE [v \in N |-> IF v \in DOMAIN previous THEN previous[v] ELSE 1]

-----------------------------------------------------------------------------
\* A score under a revision is of a graph that was there while the revision was
\* current, unless the revision began after its reader had read the graph: then
\* it may be of an earlier one, never of a later one.  In the SQLite store a
\* revision means one graph.
ScoresFollowGraph ==
  /\ engine = "sqlite" => \A r \in Revisions : Cardinality(graphsAt[r]) <= 1
  /\ \A r \in Revisions, v \in GraphNodes :
       LET s == scores[r][v] IN
       s # NULL => \E q \in 0..r : /\ r \notin overtaken => q = r
                                   /\ \E G \in graphsAt[q] : s.edges = Within(s.nodes, G)

\* batch_traverse returns the edges that start less than max_hops from a seed.
TraverseReaches ==
  \A seed \in GraphNodes, hops \in 0..Cardinality(GraphNodes) :
    LET near[h \in 0..hops] ==
          IF h = 0 THEN {seed} ELSE near[h - 1] \cup {p[2] : p \in {e \in links : e[1] \in near[h - 1]}}
    IN Traversed({seed}, hops, links) = IF hops = 0 THEN {} ELSE {p \in links : p[1] \in near[hops - 1]}

\* However it starts, a solution distributes the whole rank over the nodes: none is
\* lost at a node without targets; and an incremental one starts only when the
\* region that changed is within the threshold.
RankIsConserved ==
  LET N == Ends(links) IN
  \A v \in N : \A threshold \in 1..2 :
    LET cold == [x \in N |-> 1]
        warm == WarmStart(Solved(cold, Cardinality(N), N, links \ {p \in links : p[1] = v}, 1).rank, {v}, threshold, N, links)
    IN /\ warm = NULL <=> Cardinality(Neighbourhood(v, links)) > threshold
       /\ \A start \in {cold, warm} \ {NULL} :
            LET D == MapThenSumSet(LAMBDA x : start[x], N)
                end == Solved(start, D, N, links, 2)
            IN MapThenSumSet(LAMBDA x : end.rank[x], N) = end.denominator

GraphReadsAgree == ScoresFollowGraph /\ TraverseReaches /\ RankIsConserved
=============================================================================
