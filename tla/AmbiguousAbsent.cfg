SPECIFICATION Spec
CONSTANTS
  w1 = w1
  w2 = w2
  w3 = w3
  A = A
  B = B
  Writers <- TwoWriters
  Payload <- TwoPayloads
  OnNFS = TRUE
  Privileged = FALSE
  FaultSites <- MkdirSite
  MaxFaults = 1
  MaxIncidents = 0
PROPERTY AmbiguousHasTarget
