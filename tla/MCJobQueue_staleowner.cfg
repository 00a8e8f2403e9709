\* A worker publishes a job another worker has leased.
CONSTANTS
  w1 = w1  w2 = w2  c1 = c1  u1 = u1
  Workers = {w1, w2}
  WorkerIds = {w1, w2}
  IdOf <- OwnId
  NoOwner = NoOwner
  Clients = {c1}
  Users = {u1}
  NoKey = NoKey
  Requests <- OnePlain
  NoRequest = NoRequest
  NoJob = NoJob
  ClassCap = 1
  UserCap = 1
  Batch = 50
  MaxAttempts = 2
  MaxJobs = 1
  MaxStages = 0
  MaxCancels = 0
  MaxCrashes = 0
  MaxToggles = 0
SPECIFICATION QueueSpec
PROPERTIES PublisherOwnsJob
