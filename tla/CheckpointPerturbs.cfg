SPECIFICATION Spec
CONSTANTS
  Policies <- AllPolicies
  Intervals = {0}
  MaxSteps = 3
  MaxFaults = 0
  MaxKills = 1
  MaxSolves = 6
  MaxStored = 2
  Liberties <- AnyCheckpoint
INVARIANT TrajectoryIsExact
