SPECIFICATION LiveSpec
CONSTANTS
  NumRecords = 3
  Capacity = 2
  MaxRestarts = 2
  Vanishes = TRUE
  Packets = 3
  OutCap = 1
  ErrCap = 1
  Complaints = 1
  DissectFaults = {"gzip", "launch", "dies", "hangs", "line", "caller"}
INVARIANTS
  TypeOK
  NeverTwice
  FalseMeansLost
  FragmentsAreLast
  NoSocketLeaks
  LossNeedsRestart
  CompleteOnReturn
  NoChildLeft
  TempRemoved
PROPERTIES
  ProcessKept
  ProcessingEnds
CHECK_DEADLOCK FALSE
