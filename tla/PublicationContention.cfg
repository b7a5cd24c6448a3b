SPECIFICATION Spec
CONSTANTS
  w1 = w1
  w2 = w2
  w3 = w3
  A = A
  B = B
  Writers <- ThreeWriters
  Payload <- ThreePayloads
  OnNFS = TRUE
  Privileged = TRUE
  FaultSites <- TellingSites
  MaxFaults = 1
  MaxIncidents = 0
INVARIANTS UnconfirmedIsAmbiguous NoStagingResidue RaceHasOneWinner
PROPERTIES EveryoneEnds
