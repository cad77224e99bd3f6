CONSTANTS
  Payloads <- AnyRequest
  HardFork = 2
  Window = 2
  MaxState = 3
  MaxRequests = 3
SPECIFICATION Spec
CHECK_DEADLOCK FALSE
INVARIANT QueriesFromAcquiredUntilRelease
