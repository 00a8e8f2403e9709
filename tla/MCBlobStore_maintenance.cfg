\* Writers, erasers that may crash or run twice, the collector and a power failure.
CONSTANTS
  w1 = w1  w2 = w2  e1 = e1  e2 = e2  NoTask = NoTask
  Writers = {w1, w2}
  Direct = {w2}
  Erasers = {e1, e2}
  MaxRows = 2
  MaxCrashes = 2
  MaxZombies = 1
  MaxPowerLosses = 1
  MaxPasses = 1
SPECIFICATION Spec
CHECK_DEADLOCK FALSE
SYMMETRY EraserSymmetry
INVARIANTS TypeOK ReadableUnlessRaced
