SPECIFICATION LiveSpec
CONSTANTS
  Events <- SomeEvents
  MaxIndices = 2
  MaxSent = 2
  MaxLost = 1
  MaxLetters = 1
  PageSize = 2
  Queries <- SomeQueries
  PayloadOf <- SomeBodies
INVARIANTS
  TypeOK
  SessionsOnce
  LimitKept
  TimeOrdered
  OnlyTiesSuffer
  SteadyScanExact
  MatchedIsAnalysed
PROPERTIES
  PayloadsKept
  ScanEnds
CHECK_DEADLOCK FALSE
