SPECIFICATION Spec
CONSTANTS
  NumRecords = 2
  Capacity = 2
  MaxRestarts = 1
  Vanishes = FALSE
  Packets = 2
  OutCap = 1
  ErrCap = 1
  Complaints = 1
  DissectFaults = {}
PROPERTIES
  NoSilentDiscard
CHECK_DEADLOCK FALSE
