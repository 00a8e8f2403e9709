\* Purges of two sources of one content by one worker, with crashes and a job handed out twice.
CONSTANTS
  w1 = w1  w2 = w2  e1 = e1  e2 = e2  NoTask = NoTask
  Writers = {w1, w2}
  Direct = {}
  Erasers = {e1}
  MaxRows = 2
  MaxCrashes = 1
  MaxZombies = 1
  MaxPowerLosses = 0
  MaxPasses = 0
SPECIFICATION LiveSpec
CHECK_DEADLOCK FALSE
PROPERTIES UndisturbedPurgeErases EventuallyErased
