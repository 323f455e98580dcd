\* One or two callers of a SQLite or PostgreSQL version store, which start from
\* histories that the operations themselves can build, and one of the in-memory store.
SPECIFICATION Spec
CONSTANTS
  u1 = u1
  u2 = u2
  p1 = p1
  p2 = p2
  main = main
  dev = dev
  NULL = NULL
  Uris = {u1, u2}
  Bodies = {"x", "y"}
  MaxCommits = 4
  Scenes <- ManyScenes
  Callers = {p1, p2}
  Branches = {main, dev}
  Tags = {"g"}
  MaxSessions = 1
  GcAlone = TRUE
  MemBranches = {main, dev}
  MemTags = {"g"}
  MemScenes <- MemoryScenes
  CausalUris = 3
  CausalCommits <- FourChanges
  CausalLength = 5
  MaxVariables = 3
  MinSupport = 2
  MaxParents = 2
  IndependencePercent = 8
  DreamCommits <- ThreeCommits
  ClusterOf <- TwoClusters
  MinCluster = 3
  CandidateFloor = 4
  WriterFloor = 5
  MaxDreamCommits = 3
  Predicates = {"p", "q"}
  Entrenchments = {40, 50, 60}
  MergeKeys = {"k", "l"}
INVARIANTS
  MergeIsThreeWay
  AnswersAgree
  LearningSound
PROPERTIES
  SnapshotsImmutable
  BranchesGrow
  ViewsRefined
SYMMETRY Symmetry
CHECK_DEADLOCK FALSE
