\* One caller and one session more than the limit.
SPECIFICATION EvictionSpec
CONSTANTS
  n1 = n1
  n2 = n2
  s1 = s1
  s2 = s2
  s3 = s3
  c1 = c1
  c2 = c2
  g1 = g1
  g2 = g2
  g3 = g3
  NULL = NULL
  Tasks = {c1}
  Tenants = {n1}
  Sessions = {s1, s2}
  MaxBindings = 1
  Clients = {c1, c2}
  MaxFailures = 2
  MaxStops = 1
  MaxAttempt = 3
  MaxName = 2
  MaxPage = 2
  MaxFileChanges = 2
  GraphNodes = {g1, g2, g3}
  GraphHops = 1
  MaxLinkChanges = 2
  MaxSnapCommits = 3
  CheckpointThreshold = 2
  MaxRefMoves = 2
  JsonKeys = {"k", "l"}
  SleepNames = 3
  BatchLimit = 2
  SleepTasks <- TwoTasks
  MaxSleepEdits = 1
  MaxSleepFailures = 1
  MaxIterations = 2
  MaxEngineBatch = 1
  Scores = {6, 7, 14}
  MaxFacts = 3
  CascadeDepth = 2
  CascadeNodes = 3
  ReviewTasks = 2
  Reloaders = {c1, c2}
  PolicySources <- FivePolicies
  IntentQueries <- TwoIntents
  IntentKinds = {"event", "semantic"}
  MaxSourceEdits = 1
  MaxReloads = 2
  MaxFeedbacks = 1
  PlanRows <- FourRows
  VectorRows <- StaleIndex
  PlanEdges <- TwoEdges
  PlanQueries <- ManyQueries
  TextQueries <- ThreeTexts
  PlanCallers <- TwoScopes
  PlanHints <- ThreeHints
  TypeStatistics = 3
  PlanDepth = 2
  CacheCapacity = 2
  TokenBudgets = {0, 1, 3, 5}
  BudgetHits <- SixHits
  WindowTotal = 5
  GateHits <- TenHits
  GateMin = 5
  EmbedBatches <- ThreeBatches
  EmbedCapacity = 2
  ViewQueries <- ThreeViews
  ViewCapacity = 2
  ViewTtl = 1
  MaxClock = 2
  Samples <- ShortSamples
  RagNodes = {1, 2, 3, 4}
  RagGraphs <- AllGraphs
  RagHops = 2
  MaxCommunities = 2
  MaxRagNodes = 2
  MaxSummaryNodes = 1
  Centralities <- TwoCentralities
  AskedOf <- AskedNodes
  NeighbourLists <- FourLists
  Citations <- TwelveCitations
  Questions <- ThreeQuestions
  MaxCitations = 2
  Observations <- ManyObservations
  MaxObservations = 3
  HintTerms = 2
  LearnerUris <- TwoUris
  LearnerQueries = {"q"}
  MaxDirs = 1
  MaxMissing = 1
  MaxLearned = 3
  PrefetchSize = 1
  Ballots <- FourBallots
  MaxVoteTime = 3
  VoteAge = 2
  VoteSkew = 1
  DownvoteMargin = 0
  FlagThreshold = 1
  MaxAdopted = 11
  MaxRefused = 2
  MaxOthers = 1
  Antibodies <- FourAntibodies
  Offers <- TwoOffers
  RemoteOffers <- PeerOffers
  MarketThreads = {c1, c2}
  SpeciationHits = 2
  MaxHits = 5
  LineageNodes = {1, 2, 3}
  LineageParents <- ManyParents
  Claims <- FourClaims
  Patches <- ManyPatches
  Verdicts <- ManyVerdicts
  Contributions <- ManyContributions
  MarketAgents = {1, 2, 3, 4}
  MarketDomains = {"d", "e"}
  ScoreQuestions <- ManySignals
  HealthClaims = {1, 2, 3}
  Supports <- BothCiteTheSecond
  Disputes <- ThreeDisputes
  DriftSamples = {3, 5}
  MaxCycles = 3
  LlmCallers = {c1, c2}
  Prompts = {"a"}
  LongPrompts = {}
  TextBatches <- SomeTexts
  MaxCalls = 2
  EnvelopeIds = {1, 2}
  MaxAge = 2
  MaxSkew = 1
  ReplayCapacity = 1
  NatsRoutes <- TwoRoutes
  EventTypes <- TwoTypes
  ReconnectInitial = 1
  ReconnectMax = 3
  LoadOperations = 3
  LoadConcurrency = 2
  MaxNatsTime = 4
  MaxLosses = 2
  Seekers = {c1, c2}
  CandidateSets <- ThreeFindings
  UntrustedPeers = {4}
  MinAnonymity = 2
  PrivacyEnabled = TRUE
  RdpOrders = {2, 5}
  LogDelta = 12
  MaxEpsilon = 15
  BudgetWindow = 0
  QuotaWindow = 1
  MaxQueries = 3
  MaxConcurrent = 2
  MaxFetchPeers = 2
  MinQueryQuality = 0
  Grants <- OneGrant
  DiscoveryRequests <- FourRequests
  MaxDiscoveries = 3
  MaxDiscoveryTime = 1
  Movers = {c1, c2}
  MigrationItems <- OneItem
  MappedModalities = {"text", "image"}
  EncoderBatch = 1
  MinRecall = 1
  FillPhases = {"reindex"}
  MaxGeneration = 5
  MaxStopped = 1
  DedupWriters = {c1, c2}
  DedupBatches <- FourBatches
  ScopesUnder <- BesideOrUnder
  ScanLimit = 2
  MinTokens = 2
  JaccardPercent = 70
  MaxDedupWrites = 3
  TierReaders = {s1}
  TierUris = {"u", "v"}
  HotThreshold = 70
  WarmThreshold = 25
  WarmCapacity = 1
  HotTtl = 1
  LongHotTtl = 2
  WarmTtl = 2
  Predictions <- TwoForecasts
  MaxTierTime = 2
  MaxPuts = 2
  MaxForecasts = 1
  MaxAccesses = 2
  TrainingConfigs <- ThreeConfigs
  TrainingRuns <- TwoRuns
  DemoLimit = 1
  ProductBatches <- SixProductBatches
  LifecycleSignals <- FourLifecycleSignals
  MinSurplus = 2
  CourseEdges <- FourCourseEdges
  CourseCentrality <- YIsCentral
  FirstTargets <- TwoTargets
  OwnedSkills = {"s"}
  MinSuccessRate = 10
  GateThreshold = 55
  Baseline = 50
  TrialCounts = {0, 1, 2}
  SearchStates <- ThreeSearches
  LlmProposals <- TwoProposals
  Branching = 2
  MaxSearchDepth = 2
  Simulations = 4
  ReflectionBatches <- FourReflections
  EditedTexts <- TwoEdits
  VoteWeights = {40}
  DeprecateThreshold = 0
  MergeThreshold = 72
  PrefixTokens = 2
  MaxBallotsCast = 2
  MaxEdits = 1
  MaxEvolutions = 2
  LoadBudget = 4130
  LoadFeedbacks <- ThreeFeedbacks
  MaxLoads = 5
PROPERTY BindReturns
CHECK_DEADLOCK FALSE
