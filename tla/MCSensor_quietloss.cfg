SPECIFICATION Spec
CONSTANTS
  NumRotations = 2
  MaxFrames = 2
  MaxRestarts = 0
  StateLimit = 4
  HasBucket = TRUE
  Faults = {"slow"}
  Undeletable <- NoUndeletable
INVARIANTS
  EvidenceRetained
