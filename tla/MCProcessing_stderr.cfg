SPECIFICATION LiveSpec
CONSTANTS
  NumRecords = 1
  Capacity = 1
  MaxRestarts = 0
  Vanishes = FALSE
  Packets = 1
  OutCap = 1
  ErrCap = 1
  Complaints = 2
  DissectFaults = {}
PROPERTIES
  ProcessingEnds
CHECK_DEADLOCK FALSE
