SPECIFICATION Spec
CONSTANTS
  MaxInFlight = 2
  MaxRequests = 5
INVARIANT InFlightLimited
CHECK_DEADLOCK FALSE
