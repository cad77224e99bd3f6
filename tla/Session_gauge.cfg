CONSTANTS
  s1 = s1
  s2 = s2
  Sessions = {s1, s2}
  Messages <- SomeMessages
  MaxMessages <- OneSends
SPECIFICATION SessionSpec
CHECK_DEADLOCK FALSE
INVARIANT GaugeIsLive
