SPECIFICATION Spec
CONSTANTS
  w1 = w1
  w2 = w2
  w3 = w3
  A = A
  B = B
  Writers <- ThreeWriters
  Payload <- ThreePayloads
  OnNFS = FALSE
  Privileged = FALSE
  FaultSites <- AllSites
  MaxFaults = 1
  MaxIncidents = 2
PROPERTIES ImplementsAtomic
