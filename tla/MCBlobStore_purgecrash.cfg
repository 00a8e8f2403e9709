\* An erase whose worker dies between its two transactions.
CONSTANTS
  w1 = w1  w2 = w2  e1 = e1  e2 = e2  NoTask = NoTask
  Writers = {w1}
  Direct = {}
  Erasers = {e1}
  MaxRows = 1
  MaxCrashes = 1
  MaxZombies = 0
  MaxPowerLosses = 0
  MaxPasses = 0
SPECIFICATION Spec
CHECK_DEADLOCK FALSE
PROPERTIES CompletedMeansErased
