CONSTANTS
  Oldest = 6
  Newest = 7
  MaxMempools = 3
  MaxRequests = 4
SPECIFICATION FairSpec
CHECK_DEADLOCK FALSE
INVARIANT InStep
INVARIANT ConsistentWhileAcquired
INVARIANT NewSnapshots
PROPERTY EveryRequestAnswered
