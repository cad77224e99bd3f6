CONSTANTS
  MaxInFlight = 2
  MaxRequests = 5
  s1 = s1
  s2 = s2
  Sessions = {s1, s2}
  Messages <- SomeMessages
  MaxMessages <- OneSends
SPECIFICATION ServerSpec
CHECK_DEADLOCK FALSE
INVARIANTS
  NeverErrors
  PipelineBounded
  RoutedInOrder
  GaugeUntilEscaped
  UnroutedAccounted
PROPERTIES
  ImplementsService
  EveryRequestAnswered
  SessionEnds
