\* What a user began is ended and who waits is served, one component at a time.
CONSTANTS
  a1 = a1  a2 = a2  a3 = a3
  Clients = {"c"}
  Parsers = {a1, a2}
  MaxVersions = 2
  MaxParses = 2
  MaxSourceRequests = 2
  MaxIngestFaults = 2
  Generations = {"g1", "g2"}
  Document = 1
  Builders = {a1, a2}
  EmbedSize = 1
  MaxBuilds = 2
  MaxBuildFaults = 2
  Executors = {a1, a2}
  Controllers = {"c"}
  Configs <- SmallConfigs
  AnyTools = {"fetch", "finish"}
  MaxControls = 2
  MaxFaults = 1
  ArtifactRequests = {a1, a2}
  MaxArtifactRequests = 4
  MaxArtifactDeaths = 1
  ExecWorkers = {a1, a2}
  ExecJobs = {"j"}
  Outputs = {"o"}
  NoWorker = "none"
  MaxExecutions = 2
  MaxStarts = 2
  MaxExecFaults = 1
  MaxGrantChanges = 0
  HotModels = {"hot"}
  MediaModels = {"media"}
  Sessions = {a1, a2, a3}
  MaxSerialSessions = 3
  MaxInferenceFaults = 1
  Records = {1, 2}
  Commands = {a1, a2}
  RotationBatch = 1
  MaxKeys = 2
  MaxStores = 2
  MaxCommands = 4
SPECIFICATION LiveSpec
CHECK_DEADLOCK FALSE
PROPERTIES UserWorkEnds ServicesAnswer
