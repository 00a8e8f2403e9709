\* One job, enqueued twice under its key, two workers, a retry, a crash, a cancel and a revocation.
CONSTANTS
  w1 = w1  w2 = w2  c1 = c1  u1 = u1
  Workers = {w1, w2}
  WorkerIds = {w1, w2}
  IdOf <- OwnId
  NoOwner = NoOwner
  Clients = {c1}
  Users = {u1}
  NoKey = NoKey
  Requests <- OneKeyed
  NoRequest = NoRequest
  NoJob = NoJob
  ClassCap = 1
  UserCap = 1
  Batch = 50
  MaxAttempts = 2
  MaxJobs = 2
  MaxStages = 1
  MaxCancels = 1
  MaxCrashes = 1
  MaxToggles = 1
SPECIFICATION QueueSpec
SYMMETRY WorkerSymmetry
INVARIANTS TypeOK OneTerminalEvent AttemptAccounting LeaseIffActive RevisionIsVersion
PROPERTIES TerminalIsFinal NoReportIsLost ImplementsLifecycle
