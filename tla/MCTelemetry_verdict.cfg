SPECIFICATION Spec
CONSTANTS
  Events <- SomeEvents
  MaxIndices = 1
  MaxSent = 1
  MaxLost = 0
  MaxLetters = 1
  PageSize = 2
  Queries <- EverythingOnce
  PayloadOf <- SomeBodies
INVARIANTS
  SameVerdictEitherWay
CHECK_DEADLOCK FALSE
