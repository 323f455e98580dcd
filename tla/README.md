# A TLA+ development of uwu_context_db

uwu_context_db is a context database for agents: entries named by `uwu://` URIs, kept
in a relational store with MVCC histories, projected into a vector index by a
transactional outbox, watched through a change feed, versioned like source code,
consolidated in the background, archived by lifecycle jobs, retrieved by plans,
exchanged with other agents, and reached through one tenant-safe facade. This
directory models the parts of it that keep state, run concurrently or decide,
checks them with TLC on small instances, and proves the most important invariants
with TLAPS for every instance. Paths below are those of the repository;
`crates/context-db-` is left out of them where it is clear.

## 1. The system

| part | source | state it keeps | operations | what is hard about it |
|---|---|---|---|---|
| Content store (SQLite, PostgreSQL) | `storage/src/sqlite.rs`, `pg.rs`, `graph.rs` | `context_entries`, `context_versions`, `context_relations`, `context_graph_revisions` | `write`, `batch_write`, `rollback`, `delete`, `rename`, `add_edge`, `remove_edge`, paged reads, centrality | numbering of a batch that repeats a URI and is cut into chunks; renamed histories; row locks instead of serial transactions; pages read while entries come and go |
| Read cache | `core/src/read_cache.rs` | payloads and negatives with a TTL | get, put, invalidate | a fill that is overtaken by an invalidation |
| Index outbox | `storage/src/outbox.rs` | `context_index_outbox`, the external index | enqueue in the writer's transaction, `claim`, `apply`, `finish`, `reconcile_all` | order of rows of one URI, leases, retries, a worker dropped half way, half-applied renames |
| Watch hub | `core/src/watch.rs` | next checkpoint, bounded history, broadcast channel, streams | `emit`, `watch`, `recv`, `recover_lag` | three separate steps of `emit`, streams that fall behind |
| Facade | `src/facade.rs`, `src/version_facade.rs` | `accepting`, `in_flight`, `shutdown_result`, guards, session bindings | some thirty operations, `shutdown`, interactive sessions | admission against shutdown, steps that fail after a commit, ownership across tenants, eviction |
| Version stores | `storage/src/sqlite_version.rs`, `pg_version.rs` | commits, deltas, branches, tags, HEAD, conflict sessions, checkpoints, snapshot cache | commit, branch, switch, tag, merge, knowledge merge, cherry-pick, rebase, squash, gc, sessions, queries | long reads before a transaction, compare-and-swap of branches, snapshots rebuilt from deltas |
| Version algorithms | `version/src` | none shared | causal graphs, sleep replay, healing, belief revision, merges | ties, cycles, failing models and stores |
| Lifecycle execution | `consolidation/src/lifecycle_execution.rs` | journal file, cold manifests, leases | `submit`, `run_pending`, `restore` | crashes between a side effect and its checkpoint, tasks that outlive their lease |
| Consolidation | `consolidation/src/lib.rs`, `quality.rs`, `health.rs`, `tiered_cache.rs`, `loader.rs` | sweep progress, tags, scores, tiers, bandit arms | `run_once`, scoring, health cycle, cascades, promotion, loading | clones written back after awaits, cursor saved last, a stale copy served again |
| Session compressor, semantic queue, write buffer | `session/src/compressor.rs`, `compressor/src/queue.rs`, `storage/src/perf.rs` | task records, active set, channel, pending batch | enqueue, process, retry, recover, workers, flush | overlapping calls, aborted workers, callers that give up |
| Core decorators | `core/src/write_dedup.rs`, `embedding_migration.rs`, `llm.rs`, `embedding_cache.rs`; `llm-provider` | migration state, caches | write, migrate, complete, embed | look first and act after an await; state files changed by several callers |
| Retrieval | `retrieve/src` | policy, bias, plan cache, views, models of the reader | decide, plan, execute, load, answer, learn | reload against decisions, stale indexes, budgets |
| Marketplace | `marketplace/src` | publications, votes, lineage, antibodies | publish, discover, vote, adopt, fork, aggregate | late and repeated votes, check-then-add |
| Knowledge network | `knowledge-network/src` | privacy ledger, quotas, routes, receipts | federated discovery | reservations against deadlines, cancellation, window rollover |
| Event system | `nats/src/lib.rs` | replay cache, health, load records | publish, verify, ingest, reconnect | late, repeated and lost envelopes |
| Cognitive training | `cdt/src` | skills, insights, search trees | training epochs, tree search, votes | what was deposited before a failure stays |
| WASM, parsing, wiki | the other crates | none of their own | adapters and text | nothing a model checker tells apart |

How they interact: a facade operation calls a port (content store, version store, LLM,
executor) inside `timed`; the content store enqueues outbox rows in its own
transaction and never calls the index; the outbox worker, a runtime guard of the
facade, carries the rows to the index later; `WatchableStore` emits a change after the
inner store has returned; a facade write routes metacognitive entries to
`LifecycleActionExecutor`, whose jobs delete content, edges, points and blobs through
the same ports, and a facade read restores them first; `Sleeptime` calls `run_pending`
at the start of each round and writes its products back through the content store;
the version stores share a database with the content store but no rows; retrieval,
training and marketplace read through ports and keep only caches; `shutdown` drains
the facade and then stops the guards.

What makes each part correct is said by its properties (section 3). `PROJECT.json`
lists the hazards at their lines, with the property that would notice, or the reason
why none does.

## 2. Modules

| module | models | state and actions |
|---|---|---|
| `ContextStore` | the SQLite store and the rows it enqueues | the five tables; one action per operation, because each is one serial transaction. A failed operation rolls back, so an error is a false guard |
| `CachedStore` | both stores as concurrent clients see them, with the read cache and the stamps of the outbox rows | BEGIN, which gives the outbox row its stamp, and the reads that come before a lock are steps of their own; a row is its columns and its `entry_json`; a fill of the cache comes after its query |
| `StoreReads` | listing page by page, `ls`, `tree`; graph reads and cached centrality | a page is a query; entries and edges change between the steps |
| `IndexOutbox` | the outbox worker on top of `ContextStore` (EXTENDS) | index, jobs claimed, job in hand; `Claim`, `CallIndex`, `RenameUpsert`, `Finish`, `Abandon`, `Reconcile`, and the passing of leases and backoffs |
| `WatchHub` | `WatchHub`, `WatchStream` | `Number`, `Record`, `Send` are the three steps of `emit`; `Subscribe`, `Snapshot` those of `watch`; `RecvBacklog`, `RecvLive`, `RecvLagged` those of `recv` |
| `Facade` | `ContextDb` | every atomic access is a step; an operation is a record that walks through gate, restore, call, lifecycle step, postflight and audit |
| `ConflictBindings` | `InteractiveVersions` | owner table, queue, mutex; every turn of the eviction loop is a step |
| `LifecycleExecution` | `LifecycleActionExecutor`, `FileLifecycleJournal`, `FileColdStorage` | live stores, manifests, journal, tasks; each port call and each journal transaction is a step |
| `VersionGraph` | the algorithms over the commit graph that both version stores share | operators: replay, ancestry, merge base, three-way merge, cherry-pick, squash, diffs, provenance |
| `VersionStore` | the two version stores | commits, branches, tags, HEAD, sessions; an operation reads, computes and then runs its transaction, with other callers in between; a call may stop at any step |
| `VersionViews` | the abstract version store: names of whole snapshots | `VersionStore` implements it (`ViewsRefined`) |
| `VersionStates` | `reconstruct_snapshot` with its caches and checkpoints; the JSON diffs of both stores | commits, refs and gc between the steps of one rebuild |
| `MemoryVersions` | the in-memory version store of the test kit | snapshots per commit, next to the rows a SQL store would have written |
| `VersionLearning` | `version/src`: causal inference; sleep replay and the healer; belief revision and merges | edges added one by one; a cycle with its failing ports; questions asked of small sets |
| `Sleeptime` | `SleeptimeExecutor::run_once` | the page, the clones, the tasks in order, the cursor; clients write and calls fail in between |
| `Consolidation` | the generate-critique-revise loop, its decision, the contradiction check; half-lives, reviews, cascades | one step per model call; questions |
| `KnowledgeHealth` | `quality.rs`, `health.rs` | scores and routes; the planner of questions; the checks of a sleep cycle in their order |
| `TieredLoading` | `tiered_cache.rs`, `loader.rs` | get in its two steps, put, forecasts, expiry; the bandit with its feedback |
| `SessionCompressor` | `SessionCompressorImpl` for one session | task record, four artifacts, active set; a step per await; ports fail and the process stops |
| `WorkQueues` | `TokioSemanticQueue`, `BatchWriteBuffer` | the receiver lock, the tasks in hand, the outcomes; the pending batch, its takers, the replies |
| `WriteDedup`, `EmbeddingMigration`, `LlmChain` | the decorators of `core`, with the providers under `LlmChain` | look and write in two steps; compare-and-swap of the migration's state and the executor's fills; calls through cache, router and provider |
| `IntentPolicy`, `QueryPlan`, `RetrievalData` | `retrieve/src` | reload in its steps against decisions; plan, optimize, cache, execute over a stale index; windows and budgets, gates, caches, hints, the prefetcher; graph expansion, answers, models of the reader; scores are small integers |
| `Marketplace` | `marketplace/src` | votes, feedback, registry, discovery, antibodies, forks, lineage; what is computed about entries: conflicts, convergence, merges, evolution, communities, influence, private sums |
| `NatsIngest` | `nats/src/lib.rs` | network, replay cache, connection, health; the load harness |
| `FederatedDiscovery` | `fabric.rs`, `privacy.rs`, `governance.rs`, `planner.rs`, `intent.rs` | concurrent discoveries from quota to receipt over one ledger |
| `CognitiveTraining`, `InsightSearch` | `cdt/src` | epochs with their gates and deposits; tree search; evolution by votes |
| `Absent` | `Option` | `NULL` and the sets with it |
| `MC...` | instances for TLC | section 3 |
| `ContextStoreProofs`, `CachedStoreProofs`, `IndexOutboxProofs`, `VersionStoreProofs`, `FacadeProofs` (with the bindings), `LifecycleProofs`, `WorkersProofs` (feed, queues, compressor) | theorems | section 5 |

Abstractions. A payload, its metadata and its vector are one value of `Bodies`; of the
metadata only the embedding flag and the collection are kept, which are what the
outbox reads. Time is an action that ends a lease, a backoff or a TTL. An outbox row is
named by its place in creation order, a commit by the order of its timestamp, a peer
by the order of its route score. In `WatchHub` a prefix is a topic and the channel
keeps everything ever sent, of which a receiver sees the newest `Ring`. In `Facade` the
thirty operations are ten shapes of control flow (`AllOps`); a port call may return
Ok, an error, be cancelled or time out, and a call that is cut off may or may not have
changed the store. The store buffer that may delay `accepting.store` is a variable
(`pending`, `Flush`). In `LifecycleExecution` one entry is modelled with every job on
it; an entry is what it says and the write that stored it, because `updated_at` makes
the bytes of two writes differ. Floating-point weights are integers in hundredths or
finer, chosen so that the comparisons the code makes come out the same on the inputs
of the runs; a text is a set or a sequence of words where similarity is computed, and
a value otherwise. What a language model, a peer or an embedding answers is an input
from a small set. Definitions marked "Fault" are wrong variants of a definition after
them; they show that the properties notice and are not part of any specification.

## 3. Runs

Every bound is a constant. Deadlock is not checked: bounded behaviours end by design.

Five instances host several questions each: in `MCContextStore`, `MCServices`,
`MCWorkers` and `MCVersionStore` a behaviour belongs to one `part`, in `MCIndexOutbox`
to one `scene`, chosen at the start. The actions of a part leave the variables of all
others unchanged (`Only`), and the initial states of the others are fixed so that they
do not multiply what is explored. Each part is therefore checked alone, with every interleaving of its
own callers. Symmetry is over `Clients` in `MCServices` and over callers and branches
in `MCVersionStore`; no constant tells these apart. `MCWorkers`, which has liveness,
has no symmetry.

| run | instance | checks |
|---|---|---|
| `store` | `MCContextStore`: two URIs, three versions, batches of two, three outbox rows, two graph mutations, one client; or two clients of either backend with the read cache, two versions of a URI, four transactions (`CachedStore`) | `HistoryComplete`, `HistoryImmutable`, `RevisionCoversEdges`, `ReplayMirrorsEntries`, `StoreKeepsBooks` (history, columns, `entry_json` and outbox agree, but for what PostgreSQL lets overtake), `CacheFollowsStore` |
| `index` | `MCIndexOutbox`, scene `writes`: one URI, three versions, batch writes of three, one worker that claims two rows, two attempts, one abandoned batch, one loss of the index, one reconciliation; scene `moves`: two URIs with histories of one version, all operations, two rows, one abandoned batch | `BatchesNumbered`, `Converged`, `DoneMeansApplied`, `RowsSettle` |
| `pg_claim` | scene `writes` with the PostgreSQL query, two rows claimed one by one | `Converged`: violated |
| `facade` | two requests, two shutdowns, six shapes of operation | `FacadeTypeOK`, `QuietAtStop`, `HonestReply`, `EveryCallAudited`, `ShutdownHonest` |
| `lost_wakeup` | one request, one shutdown | `ShutdownReturns`: violated |
| `eviction` | the bindings with one caller, two sessions, a limit of one | `BindReturns`: violated |
| `lifecycle` | two tasks, one job of two attempts, three writes, one crash, one lost lease, failing ports | `LifecycleTypeOK`, `NothingVanishes`, `RestoredAfterSuccess`, `ProgressKept`, `JobsSettle` |
| `lifecycle_restart` | one task, one crash, ports that never fail | `RestartResumes`: violated |
| `versions` | `MCVersionStore`: one or two callers of either SQL store, in scenes of up to four commits over two URIs and two branches; the in-memory store; causal graphs over three URIs; dreams over three commits; questions about beliefs | `MergeIsThreeWay`, `AnswersAgree`, `LearningSound`, `SnapshotsImmutable`, `BranchesGrow`, `ViewsRefined` |
| `merge_base` | one caller that merges twice in a store (either one) of five commits | `MergeKeepsBothSides`: violated |
| `services` | `MCServices`: the twenty-six parts below | ten properties, below |
| `workers` | `MCWorkers`: two topics, history and ring of two, four events, one emitter, one stream; three tasks, two workers, one aborted; four buffered writes, batches of two | `FeedFaithful`, `EventuallyDelivered`, `WorkAccounted`, `WorkAnswered` |

The properties of `versions`. `SnapshotsImmutable`: with SQLite a commit shows the same
snapshot for as long as it exists, so gc never takes a commit from the history of one
it leaves. `BranchesGrow`: a branch moves only to a descendant, except by a rebase or a
squash. `MergeIsThreeWay`: the commit of a SQLite merge takes every URI as a three-way
merge of its two parents does, over a common ancestor that no other is nearer to the
first parent than. `ViewsRefined`: the SQLite store implements `VersionViews`, in which
squash and gc show nothing and a commit moves HEAD and the attached branch together.
`AnswersAgree`: diff, semantic diff, impact, provenance, log and evolution agree with
each other, and the in-memory store shows what a replay of a SQL store's rows would.
`LearningSound`: nothing brings itself about in a causal graph and an intervention
affects what lies downstream and nothing else; a dream cycle that fails stores all of
its crystals or nothing and tells of every group once; a revision keeps every belief
that does not speak against the new one, and a merge of two versions does not depend on
their order and loses no key.

The properties of `services`, by part:

* bindings: `OwnerOnly`. compressor: `ArchiveSound` (what is done is durable, what is
  under way is held by one call), `DoneIsFinal`.
* browse, graph: `ReadsAgree` (a walk of pages returns what was
  there throughout, once, in order; `ls` and `tree` agree; scores are those of a graph
  of their revision, unless a change raced the read). snapshots, diff: `StatesRebuild`.
* sleep: `SweepComplete`. consolidation, forgetting, health, tiers, loader, training,
  search, voting: `KnowledgeSound`, the conjunction of `ConsolidationSound`,
  `ForgettingConsistent`, `HealthSound`, `TiersSound`, `LoaderSound`, `TrainingSound`,
  `SearchSound`, `VotingSound`, each stated and explained in its module.
* policy, plan, recall, answer: `RetrievalSound`. market, appraisal: `MarketSound`.
* llm, nats, migration, dedup, discovery: `PortsSound`: an answer is that of the
  request it is given for; an envelope is ingested once; the last compare-and-swap
  wins and phases follow each other; a twin is stored only beside an overlapping
  write; the ledger balances, no charge is lost, and permits are returned.

Why the bounds are enough for the cases that matter: three versions and batches of two
(three in `index`) let a batch repeat a URI, be cut between the repetitions, and
follow a rename or a rollback; two graph mutations let an edge be added and removed;
three rows let a failed row, its successor and a repetition exist together; a ring of
two and four events overrun a stream twice, once within and once beyond the history;
two requests and two closers let a request be at every step while one closer drains
and another finds the first one's result; three sessions over a limit of two fill the
table; three writes let an entry be written before, during and after the job; four
commits over two branches hold a fork, both sides of it and their merge, and the
scenes (`ManyScenes`) start from histories the operations themselves build, so that
pairs of callers meet in every operation; two clients meet in every two-step
operation, and four transactions let a URI be written, read by a rename, written again
and renamed; caches and tiers hold fewer values than there are names, so that each
evicts; the inputs of the deciding parts are named in `MCServices`, chosen to reach
both sides of every threshold of the code they model.

`BatchesNumbered` evaluates a fold over every batch in every state; it is about the
store alone, so it looks at the states before the first claim. `Converged` is about the
URIs whose rows are all writes (`OnlyWritten`): in the scene `moves` those are the ones
that were never deleted or renamed.

### What the violated runs show

* `pg_claim`. In the PostgreSQL claim query `AND` binds tighter than `OR`, so the
  order guard covers only rows whose lease has expired. A failed version 1 is
  overtaken by version 2, and its retry puts version 1 back.
* `lost_wakeup`. `shutdown` reads `in_flight` and only then creates the `Notified`
  future; `notify_waiters` leaves no permit. If the last request leaves in between,
  shutdown never returns.
* `eviction`. `bind` queues the new id, then keeps in the queue only what is bound,
  and binds the id after that: the queue is always empty, and at the limit the loop
  spins with the mutex held.
* `lifecycle_restart`. A crash between `put_manifest` and its checkpoint makes every
  later attempt build a manifest with another `created_at`, which the immutable cold
  store refuses until the job has failed for good. A crash after `content.delete`
  ends the same way, because the repeated delete answers `NotFound`.

* `merge_base`. `merge_base` searches breadth-first from the branch that is merged into
  and takes the first commit the other side descends from: the nearest in steps, which
  may be an ancestor of another common ancestor. With 2 on 1 adding an entry, 3 on 2
  deleting it and 4 the merge of 3 with a branch at 1, merging a branch at 2 into 4
  finds 1, by way of the second parent, before 2. Since 1 does not have the entry, its
  deletion is no change, and the entry of 2 comes back. What does hold, and is proved,
  is `MergeIsThreeWay`, which says nearest in steps.

### Behaviour of the code that shaped the properties

These are not runs of their own; most hazards name them at their lines. Stores:

* A tombstone names only the newest collection, so `store` has one collection: with two
  the point in the older one stays.
* A worker slower than its lease is not fenced, and a delete row has no version:
  `Converged` is checked with one worker and says nothing of a URI that was removed. In
  SQLite a write, a write and a delete that one claim finds leave a point without an
  entry: the second version is held back by the first and applied after the delete.
* In PostgreSQL an outbox row carries `now()`, the time of BEGIN, and the claim orders by
  it (`outbox.rs:133`, `:263`). A delete or rename that began before a write of its URI
  and committed after it is replayed first when both still wait, and the index keeps a
  point of a URI the store does not hold. `StoreKeepsBooks` excepts a URI whose last
  commit began before an earlier one (`late`).
* The PostgreSQL rename reads `entry_json` without a lock and its UPDATE (`pg.rs:427`)
  leaves `l0_abstract` and `l1_overview` as they are: a write in between leaves a row
  whose columns, which levels L0 and L1 are read from, are those of the write, while its
  `entry_json`, which L2 is read from, and the point are older. `StoreKeepsBooks` asks
  for the columns of the newest version always, and excepts the JSON of such a row
  (`mixed`). TLC finds it violated without either exception; in SQLite neither is met.
* The PostgreSQL `ls` and `tree` hide `a/b` when `a` is an entry itself; `ReadsAgree`
  describes each store as it is.
* `CacheFollowsStore` excepts what a reader queried before a commit and stored after
  it; `ReadsAgree` excepts scores whose computation an edge change raced.
* A dropped twin of a write leaves no trace: the metadata that says so is set on the
  entry that is dropped. Two overlapping writers of twins store both.

Versions:

* `load_deltas` has no ORDER BY, so a commit that renames from a URI which another of its
  deltas names has a tree that depends on the order. `DeltaSets` leaves such change sets
  out (`Orderless`).
* A commit of the PostgreSQL store and a merge of either move HEAD whatever it is
  attached to; the PostgreSQL gc deletes ancestors of commits it keeps, one commit at a
  time and after its selection. `ViewsRefined` and the exact form of
  `SnapshotsImmutable` are therefore about SQLite, and gc runs alone (`GcAlone`).
* A SQLite gc that would delete a chain of two unreachable commits is refused by the
  foreign key it runs into.
* A cherry-pick without a conflict writes a snapshot of the picked URIs only.
* With several insertions at one clock, and in set unions of three sides, the result of
  a merge depends on the order; `BeliefsSound` is about two sides of different versions.

Facade, feed and lifecycle:

* `watch` does not report that its checkpoint is older than the history;
  `FeedFaithful` counts what was retained when the stream was opened. With two emitters
  it fails, because two emits may swap their sends.
* A load may overtake the store of `accepting`; `QuietAtStop` is about closers for
  which it did not (`ordered`).
* `HonestReply` is about `write` and excepts calls that were cut off;
  `EveryCallAudited` excepts the operations without an audit record and the early
  returns of `execute` and `llm_complete`.
* `NothingVanishes` promises a manifest of an entry, not of a write that came between
  the manifest and the delete.
* Two compressions of a session that overlap may run it twice; `DoneIsFinal` is about
  behaviours in which none did (`overlap`).

The parts that decide:

* A Sleeptime task writes back the clone it was given, whatever clients wrote since,
  and an error in a run repeats its page: `SweepComplete` counts tasks, not contents.
* The lifecycle gate of training asks with an empty access log, so only products of low
  score pass; the loss of an epoch is positive unless a fact was contradicted, so an
  epoch accepts all of its gradients or none. A port that fails leaves the skills
  deposited so far.
* The two paths of a preference pair are chosen by score, so the chosen path may have
  the lower value: `SearchSound` compares scores where they part.
* A tiered read may put an older payload back; `TiersSound` is about puts that no read
  overlapped.
* Two reloads of a policy that overlap may leave the policy of one with the signature of
  the other; `RetrievalSound` states their agreement for reloads that do not overlap.
* Two citations that agree on a "must not" count as a contradiction, and the answer
  abstains; a full list of missing patterns takes no new pattern; what is prefetched
  follows the order in which predictions were learnt, not their strength.
* When all commits of a log of four to ten have one message, `SelfHealer::diagnose`
  indexes past the log's end; `VersionLearning` calls that answer `Panic`.
* A contradiction sets a bond to contributor, also that of an observer; no publisher can
  become an authority, since nothing sets the average quality or the corroboration its
  score needs. A culled entry is its own parent, and the search for the origin of such
  an entry does not end: `MarketSound` asks for origins in lineages without cycles.
* In the knowledge network a charge may be given back after the noisy answer was seen,
  and a reservation whose window has rolled over can no longer be committed:
  `PortsSound` is about the books, not about what peers have learnt.
* An envelope is recorded as seen before it is handed on, so one whose ingest fails is
  lost; `PortsSound` says at most once.

## 4. Fairness

* `IndexOutbox`: weak fairness of each worker (the loop polls for ever) and of time.
  Index calls may fail every time; rows then end as `dead`.
* `MCWorkers`: weak fairness of emitters inside `emit`, of watchers that keep calling
  `recv`, of queue workers that are not aborted, of the buffer's timer, of a flush that
  has taken its batch, and of the write that filled it; each is restricted to its part.
  The store answers each write, with an error or without.
* `Facade`: weak fairness of every request and closer, because each call ends by its
  timeout at the latest and the runtime schedules ready tasks; store buffers drain.
* `ConflictBindings`: strong fairness of each caller, because a mutex is handed on.
* `LifecycleExecution`: weak fairness of a task's next step and of time, strong
  fairness of claiming a job, because every Sleeptime round calls `run_pending`.

The other components are checked for safety only: whether they go on depends on
callers, peers and models that nothing obliges to answer.

## 5. Theorems

TLC checks small instances; the theorems hold for every value of the constants. Each
follows from an inductive invariant that TLC checked first. The proofs have one lemma
per action and are checked by tlapm with SMT, Zenon and, for the last step, PTL.

Stores:

* `ContextStoreProofs!StoreTyped`, `StoreHistoryComplete`: `StoreSpec` implies
  `[]StoreTypeOK` and `[]HistoryComplete`, for all URIs, bodies, bounds and batches of
  any length cut anywhere. The two are inductive together (`StoreInv`). The batch is
  the difficult action: a row's number is the rank of its place among the places of
  its URI, so the lemmas show that ranks of a finite set of naturals are exactly
  1 .. its cardinality, from the least-element principle (`LeastElement`), as
  induction with an operator parameter is not available.
* `ContextStoreProofs!HistoryStaysImmutable`, `RevisionAlwaysCovers`: the action
  properties `HistoryImmutable` and `RevisionCoversEdges`, step by step from `StoreInv`:
  a new row's number is above those that exist, and a rename carries rows as they are.
* `CachedStoreProofs!BooksAreKept`, `CacheIsFaithful`: `[]StoreKeepsBooks` and
  `[]CacheFollowsStore`, for any number of clients of either backend. In SQLite
  row, history, outbox and cache agree without exception; in PostgreSQL the versions and
  the columns do, and the theorem names the two overtakings that the JSON and the point
  are not told of. `CachedStoreInv` adds that rows which a batch has locked are as it
  read them (`LocksHold`), that what a reader is about to put in the cache, or a rename
  in the row, is what is there or was overtaken (`ReadersFollow`), that no stamp is of
  the future (`StampsGrow`), and that the open transaction of SQLite is the only one and
  the newest (`Serial`).
* `IndexOutboxProofs!OutboxDoneMeansApplied`: `OutboxSpec` implies
  `[]DoneMeansApplied`, for any number of workers, either backend and any batch size.
  `WorkersInv` strengthens it: what a worker remembers across its awaits is about rows
  that exist, and the success it is about to record has happened. Writers only append
  pending rows (`Appends`).
* `IndexOutboxProofs!IndexConverges`: `WriteSpec` implies `[]Converged`, for one worker
  with the query of SQLite, any finite set of URIs, any number of versions and every
  bound. The hypotheses are needed: TLC finds it violated with the query of PostgreSQL
  (`pg_claim`), and in the scene `writes` with a second worker (one that is slower than its
  lease writes an old point late). `WriteSpec` is `OutboxSpec` without deletes and
  renames; the scene `moves` checks convergence of what is only written next to them. `ConvergeInv`: the rows of a URI are written in the order
  of its versions and closed in the order they were written (`RowsInOrder`), the newest
  row carries the entry's point (`RowsFollowEntries`), a row the worker has in hand has
  no open row before it (`HeldInTurn`), so no late call can overwrite what the newest
  row, once done, has put in the index (`IndexShows`). Reconciliation after a loss of
  the index enqueues a row for every embedded entry; that it misses none rests on
  `SetToSeqLists`.

Versions. The commit graph is a table of rows that name their parents, and what a
commit contains, what it descends from and which ancestor a merge starts from are
recursive functions of that table. What they compute cannot be had by induction, which
would need an operator as a parameter; each lemma takes instead the least commit (or
the least number of search levels) for which it fails and shows that there is none
(`LeastElement`, from the well-foundedness of the naturals). `Recursion` gives the
functions themselves: a definition by older commits alone has a solution.

* `VersionStoreProofs!TablesReferToWhatExists`: `[]VersionTypeOK`. Rows, branches, tags,
  sessions and what callers have read name commits that were made, and a parent is older
  than its child, which is what the recursions rest on (`VersionTyped`). HEAD and its
  branch exist with SQLite (`HeadExists`), although a switch, a delete of the branch and
  gc are prepared and done in separate steps; a session names commits of its own
  operation (`SessionsFit`).
* `VersionStoreProofs!SnapshotsNeverChange`: `SnapshotsImmutable`. The foreign
  key on `parent_id` restricts gc, so what it takes has no child and is no ancestor of what
  it leaves (`CollectKeeps`), whatever happened since it selected its victims; a later
  row changes no snapshot before it (`InsertedKeeps`). This holds without `GcAlone`.
* `VersionStoreProofs!BranchesOnlyGrow`: `BranchesGrow`, if gc runs alone or all scenes
  are of SQLite. `MergesKnown` keeps what a call found out before its transaction: the
  source of a fast forward descends from the target, as far as both still exist. Without
  the hypothesis a PostgreSQL gc, which no foreign key restrains, may remove commits
  between the two.
* `VersionStoreProofs!StoreShowsSnapshots`: `ViewsRefined`, the refinement of
  `VersionViews`, if gc runs alone. There is one lemma for each kind of step
  (`SaveStep`, `CombineStep`, `RewriteStep`, `PileStep`, ...), and the steps of gc, squash
  and tags are stutters. `Linked` is what a prepared call knows: the rows it is going to
  insert stand, on top of their parents, for the snapshots the call intends. `GcAlone` is
  needed: gc selects first and deletes later, no key protects the commit a branch points
  to, and a branch created or moved to a victim in between is left without its commit.
* `VersionStoreProofs!MergesAreThreeWay`: `[]MergeIsThreeWay`, with no hypothesis.
  The breadth-first search is shown to visit level after level what is reached in so many steps
  (`WithinSearch`), so the first common ancestor it meets is one that none is nearer
  than (`BaseIsNearest`), and a search that meets none has missed none
  (`SearchComplete`). `MergesRight` carries this from the moment the call read the trees
  to its insertion, and on through later commits, squashes and collections.

Facade:

* `FacadeProofs!DrainedIsQuiet`, `FacadeTypeCorrect`: `[]QuietAtStop` and
  `[]FacadeTypeOK`, for any finite set of requests and any closers. `AdmissionInv`:
  `in_flight` is the number of requests that hold an admission (`Counted`), and a closer
  whose store is visible has stopped admission for good (`Stopped`). So a request that
  is added after `in_flight` was read as 0 is refused by its second load, and the
  unsigned counter never passes 0.
* `FacadeProofs!ShutdownIsHonest`, `RepliesAreHonest`, `CallsAreAudited`:
  `[]ShutdownHonest`, `[]HonestReply`, `[]EveryCallAudited`. The strengthenings say of
  every place in an operation what has happened by then: what a closer that holds the
  mutex has stopped, what a call that has returned has changed, and which record is
  still owed.
* `FacadeProofs!OnlyOwnersUse`: `[]OwnerOnly`, for any callers, sessions and
  limit. A binding always names the tenant of the session's scope (`OwnersTrue`), so it
  does not matter whether it expires, is evicted or made again between `owns` and the
  call of the store.

Background work:

* `LifecycleProofs!NothingIsLost`: `[]NothingVanishes`, for any number of tasks, keys,
  crashes, lost leases and writes. `Manifested` is the strengthening: whoever stands
  beyond the manifest phase, in the journal or in a copy that has lost its lease, has a
  manifest; manifests are never replaced; only such copies delete.
* `LifecycleProofs!NothingReturnsEarly`, `JournalMovesForward`: `[]RestoredAfterSuccess`
  and `ProgressKept`. `CopiesInv`: a copy of a job is an earlier state of it, no task
  but one holds the current revision, and only that one can store its copy.
* `LifecycleProofs!AttemptsAreBounded`: `[]LifecycleTypeOK`, which bounds the attempts.
  claim compares no counts, so `AttemptsInv` weighs what the job may still be owed, its
  margin, against the tasks that can claim it or have it.
* `WorkersProofs!DoneArchivesAreDurable`, `DoneStaysDone`: `[]ArchiveSound` and
  `DoneIsFinal`, for any calls, failures and stops. `CompressorInv` says which artifacts
  a call has written at each of its stages (`Writing`) and that without overlap the
  caller is alone (`Alone`).
* `WorkersProofs!FeedIsFaithful`: the `Spec` of `MCWorkers` implies `[]FeedFaithful`,
  for any streams, topics, events and capacities, while there is one emitter
  (`OneEmitter`, the condition under which the run checks it: with two it is false).
  `HubInv` speaks of the log of all that was recorded, which no variable keeps: the
  history is its newest part, the channel a prefix of it that the event being sent at
  most separates from the whole (`Recorded`), a backlog an interval of it that comes
  right after `last_checkpoint` or with which the snapshot begins (`Waiting`). So what
  lies behind `last_checkpoint` has been returned and what lies ahead is in the backlog
  or in the channel (`NothingPassed`); `recover_lag`'s comparison with the oldest event
  retained is exactly what `LaggedHub` needs.
* `WorkersProofs!WorkIsAccounted`: the `Spec` of `MCWorkers` implies
  `[]WorkAccounted`, for any number of tasks, workers, writes, aborts and callers that
  give up. `QueueInv`: the channel is an interval of the numbers sent (`Fifo`), and each
  number before it has an outcome or is in exactly one hand; the three sets partition an
  interval, which gives the sum. `BufferInv`: a write is in one batch or in the store
  and there once (`OnePlace`), what failed is nowhere (`AnswersTrue`), and what had been
  answered when a write was pushed was already stored (`OrderKept`).

Assumptions: those named in the modules (`ConstantsAssumption`, `CachedStoreAssumption`,
`OutboxAssumption`, `FacadeAssumption`, `BindingsAssumption`, `LifecycleAssumption`,
`NullAssumption`, `CompressorAssumption`, `NoRecordAssumption`, `QueueAssumption`,
`BufferAssumption`, `CapacityAssumption`, `BoundAssumption`, `GraphAssumption`,
`AbsentAssumption`, `ScenesAssumption`, `SessionsAssumption`): bounds are naturals,
`Requests` is finite, the channel of the hub holds at least its history, as
`WatchHub::new` is called, a store has one commit at least and starts in one of the
scenes of `Scene`, and `NULL` is not a value of the sets it is added to. TLC evaluates
them on every run.

Only model-checked:

* Liveness (`RowsSettle`, `EventuallyDelivered`, `WorkAnswered`, `JobsSettle`), which is
  out of the prover's reach.
* `BatchesNumbered` and `ReplayMirrorsEntries`, which speak of folds over sequences of
  any length: what they compute needs induction over data.
* `AnswersAgree` and `LearningSound`: most compare what an algorithm computes with its
  definition, on all graphs the run reaches and on the inputs named in `MCVersionStore`;
  the modules they are about have RECURSIVE operators.
* `ReadsAgree`, `StatesRebuild`, `SweepComplete`, `KnowledgeSound`, `RetrievalSound`,
  `MarketSound`, `PortsSound`: conjunctions over the parts of `MCServices` other than the
  bindings and the compressor, of which the same is true.

## 6. Not modelled

* WASM: tokens and quotas are enforced in the external crate `uwu_wasm`; the adapter
  here has no state of its own. Parsing and the wiki bridge: text extraction.
* Blobs, tenants' configuration and full-text search of the content stores; the
  write-ahead logger of `perf.rs`; failures of the journal file itself.
* Configuration, observability, prompts, HTTP formats, SQL migrations.
* `consolidation/src/query_plan.rs`, which is not part of the build.
* Access lists and context packs (`core/src/pack.rs`): they filter lists that
  `StoreReads` models.
* Cryptography, noise, embeddings and trust scores: a signature is intact or not, an
  answer is an input.
* The reaction hooks of the facade, and the payloads of its operations.
* The in-memory ports of the test kit other than its version store.

## 7. Plan

1. Proofs: the books of the privacy ledger in `FederatedDiscovery`, `SweepComplete`;
   convergence of a URI that is only written while others are deleted and renamed.
2. `ViewsRefined` with a gc that runs beside other callers, for the calls it does not
   disturb.
3. `CachedStore` as a refinement of `ContextStore` where it holds.
4. The composition of `VersionStore` with `ConflictBindings`, whose sessions are
   external to it today, and of `Sleeptime` with `LifecycleExecution`.
5. The write-ahead logger and the blobs.
