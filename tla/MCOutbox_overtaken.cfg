\* A transaction that commits after a later one.
CONSTANTS
  b1 = b1
  Browsers = {b1}
  MaxReads = 1
  Limit = 2
  MaxOpen = 2
  MaxSeq = 2
  MaxFaults = 0
SPECIFICATION Spec
CHECK_DEADLOCK FALSE
INVARIANTS AtLeastOnce
