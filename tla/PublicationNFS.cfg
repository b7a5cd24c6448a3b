SPECIFICATION Spec
CONSTANTS
  w1 = w1
  w2 = w2
  w3 = w3
  A = A
  B = B
  Writers <- TwoWriters
  Payload <- TwoPayloads
  OnNFS = TRUE
  Privileged = FALSE
  FaultSites <- AllSites
  MaxFaults = 2
  MaxIncidents = 1
INVARIANTS TypeOK PublishedIsWhole SuccessIsDurable InDoubtKeepsBytes CollisionIsDefinite PublishedIsIntact
PROPERTIES NeverReplaced ClaimIsRespected ImplementsAtomic
