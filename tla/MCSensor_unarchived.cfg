SPECIFICATION FairUploadSpec
CONSTANTS
  NumRotations = 2
  MaxFrames = 2
  MaxRestarts = 0
  StateLimit = 4
  HasBucket = TRUE
  Faults = {"upload"}
  Undeletable <- NoUndeletable
PROPERTIES
  EveryCaptureArchived
