SPECIFICATION Spec
CONSTANTS
  NumRotations = 2
  MaxFrames = 2
  MaxRestarts = 1
  StateLimit = 2
  HasBucket = TRUE
  Faults = {"kill", "crash", "stop", "tshark", "upload", "save"}
  Undeletable <- OneUndeletable
INVARIANTS
  TypeOK
  EvidenceRetained
  OnlyClosed
  EvidenceInv
  ReleasedImpliesShipped
  ShippedInv
PROPERTIES
  CustodyKept
