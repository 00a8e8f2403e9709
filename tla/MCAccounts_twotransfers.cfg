\* Two custody operations at a time.
CONSTANTS
  k1 = k1  k2 = k2
  People = {"p1", "p2", "p3", "p4"}
  Notebooks = {"n1"}
  Requests = {}
  Clerks = {k1, k2}
  MaxSessions = 0
  MaxRequests = 3
  MaxRequestDeaths = 0
SPECIFICATION AccountsSpec
CHECK_DEADLOCK FALSE
SYMMETRY ClerkSymmetry
INVARIANTS OwnedOrLocked
