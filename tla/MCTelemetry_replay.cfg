SPECIFICATION Spec
CONSTANTS
  Events <- SomeEvents
  MaxIndices = 2
  MaxSent = 2
  MaxLost = 0
  MaxLetters = 1
  PageSize = 2
  Queries <- EverythingOnce
  PayloadOf <- SomeBodies
INVARIANTS
  ReplayAddsNothing
CHECK_DEADLOCK FALSE
