CONSTANTS
  Delay = 2
  RetryDelay = 1
  MaxTip = 4
  MaxUpdates = 2
  MaxLost = 2
SPECIFICATION HealthSpec
INVARIANT OneTip
