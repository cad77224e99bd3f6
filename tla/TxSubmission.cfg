CONSTANTS
  Oldest = 4
  Newest = 7
  MaxMempools = 3
  Payloads <- AllEras
  MaxRequests = 2
SPECIFICATION MCSpec
CHECK_DEADLOCK FALSE
INVARIANT InStep
INVARIANT CacheIsSound
INVARIANT UpToDate
PROPERTY EveryRequestAnswered
PROPERTY OneChangeSuffices
