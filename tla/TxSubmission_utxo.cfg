CONSTANTS
  Oldest = 4
  Newest = 7
  MaxMempools = 2
  Payloads <- AllEras
  MaxRequests = 1
SPECIFICATION MCSpec
INVARIANT AdditionalUtxoUsed
CHECK_DEADLOCK FALSE
