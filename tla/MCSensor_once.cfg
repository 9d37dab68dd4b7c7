SPECIFICATION Spec
CONSTANTS
  NumRotations = 3
  MaxFrames = 2
  MaxRestarts = 1
  StateLimit = 4
  HasBucket = TRUE
  Faults = {"stop", "tshark", "dissect", "logstash", "upload"}
  Undeletable <- NoUndeletable
INVARIANTS
  ShippedAtMostOnce
