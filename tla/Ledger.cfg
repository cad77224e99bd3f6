CONSTANTS
  Payloads <- AnyRequest
  HardFork = 2
  Window = 2
  MaxState = 3
  MaxRequests = 3
  Delay = 2
  RetryDelay = 1
  MaxTip = 3
  MaxUpdates = 2
  MaxLost = 2
SPECIFICATION LedgerSpec
CHECK_DEADLOCK FALSE
INVARIANTS
  InStep
  OneLedgerState
  QueriesFromAcquired
  StatusAgrees
  OneTipUntilLost
  SomebodyMoves
PROPERTIES
  EveryRequestAnswered
  TwicePerDelay
  ConnectedIsSaid
