\* The index, the web, research, artifacts, execution, models and credentials, one at a time.
CONSTANTS
  a1 = a1  a2 = a2
  Workers = {a1, a2}
  WorkerIds = {a1, a2}
  IdOf <- OwnId
  NoOwner = NoOwner
  Clients = {"c"}
  Users = {"u1", "u2"}
  NoKey = "none"
  Requests <- Keyed
  NoRequest = NoRequest
  NoJob = NoJob
  ClassCap = 1
  UserCap = 1
  Batch = 50
  MaxAttempts = 1
  MaxJobs = 2
  MaxStages = 0
  MaxCancels = 0
  MaxCrashes = 1
  MaxToggles = 0
  Generations = {"g1", "g2"}
  Document = 2
  Builders = {a1, a2}
  EmbedSize = 2
  MaxBuilds = 2
  MaxBuildFaults = 2
  Documents <- SmallDocuments
  MaxTokens = 2
  Fetchers = {a1, a2}
  Urls <- SmallUrls
  NameAnswers <- SmallAnswers
  MaxRedirects = 2
  MaxFetches = 2
  MaxDnsChanges = 1
  Searchers = {a1, a2}
  SearchKeys = {"q1", "q2"}
  ResultBudget = 1
  CacheTtl = 1
  CacheEntries = 1
  MaxSearches = 3
  MaxSearchTime = 3
  Executors = {a1, a2}
  Controllers = {"c"}
  Configs <- SmallConfigs
  AnyTools = {"fetch", "browser", "finish", "malformed"}
  MaxControls = 3
  MaxFaults = 1
  ArtifactRequests = {a1, a2}
  MaxArtifactRequests = 4
  MaxArtifactDeaths = 1
  ExecWorkers = {a1, a2}
  ExecJobs = {"j1", "j2"}
  Outputs = {"o1", "o2"}
  NoWorker = "none"
  MaxExecutions = 2
  MaxStarts = 2
  MaxExecFaults = 1
  MaxGrantChanges = 1
  HotModels = {"hot"}
  MediaModels = {"media"}
  Sessions = {"s1", "s2", "s3"}
  MaxSerialSessions = 4
  MaxInferenceFaults = 1
  Records = {1, 2}
  Commands = {a1, a2}
  RotationBatch = 1
  MaxKeys = 3
  MaxStores = 3
  MaxCommands = 5
  MaxLaunches = 2
  MaxBrowserCalls = 4
  MaxBrowserFaults = 2
  MaxPageEvents = 2
SPECIFICATION ServicesSpec
CHECK_DEADLOCK FALSE
SYMMETRY ActorSymmetry
INVARIANTS BoundedOvershoot OneJobPerKey ChunkingSafe WebFetchSafe WebSearchSafe ArtifactSafe ExecSafe RunningIsDriven BudgetsKept BrowserSafe
PROPERTIES IndexSafe ResearchRights ArtifactEnds InferenceSafe CredentialsSafe
