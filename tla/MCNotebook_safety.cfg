\* Chat, notes, study state, intake and custody, one at a time.
CONSTANTS
  a1 = a1  a2 = a2
  Turns = {a1, a2}
  Versions = {"v1"}
  Modes <- BothModes
  MaxConversations = 2
  MaxTurns = 2
  MaxCancelRequests = 1
  MaxReadChanges = 1
  Editors = {a1, a2}
  Contents = {"none", "a", "b"}
  Blank = "none"
  MaxRevisions = 3
  Readers = {"r1", "r2"}
  StudyRequests = {a1, a2}
  Exports = {"x1"}
  MaxStudyWrites = 3
  MaxAccessChanges = 1
  Clients = {a1, a2}
  Parsers = {a1, a2}
  MaxVersions = 2
  MaxParses = 2
  MaxSourceRequests = 4
  MaxIngestFaults = 1
  People = {"p1", "p2", "p3"}
  Notebooks = {"n1", "n2"}
  Requests = {a1, a2}
  Clerks = {"k"}
  MaxSessions = 2
  MaxRequests = 4
  MaxRequestDeaths = 1
SPECIFICATION Spec
CHECK_DEADLOCK FALSE
SYMMETRY ActorSymmetry
INVARIANTS NotesSafe StudySafe
PROPERTIES ChatSafe IngestSafe AccountsSafe
