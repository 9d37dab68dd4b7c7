SPECIFICATION LiveSpec
CONSTANTS
  NumRotations = 2
  MaxFrames = 2
  MaxRestarts = 1
  StateLimit = 1
  HasBucket = TRUE
  Faults = {"kill", "crash", "stop", "save"}
  Undeletable <- NoUndeletable
PROPERTIES
  EveryCaptureHandled
  NeverReprocessed
