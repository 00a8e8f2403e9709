\* One browser, overlapping transactions, a drop, a new subscription, a restored backup.
CONSTANTS
  b1 = b1
  Browsers = {b1}
  MaxReads = 2
  Limit = 2
  MaxOpen = 2
  MaxSeq = 3
  MaxFaults = 2
SPECIFICATION LiveSpec
CHECK_DEADLOCK FALSE
INVARIANTS TypeOK StreamSafe
PROPERTIES EventuallyReceived ImplementsFeed
