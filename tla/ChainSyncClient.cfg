SPECIFICATION FairSpec
CONSTANTS
  DefaultInFlight = 2
  Settings <- MCSettings
  MaxBlocks = 2
  MaxRollback = 1
  InFlights <- MCInFlights
  MaxFailures = 1
INVARIANTS InStep AppliedIsAChain ResumesAtIntersection
PROPERTIES CatchesUp ResumeSettles
CHECK_DEADLOCK FALSE
