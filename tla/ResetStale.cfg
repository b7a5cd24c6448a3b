SPECIFICATION Spec
CONSTANTS
  Policies <- AllPolicies
  Intervals = {0}
  MaxSteps = 2
  MaxFaults = 0
  MaxKills = 0
  MaxSolves = 6
  MaxStored = 1
  Liberties <- WithReset
INVARIANT StaticsAreCurrent
