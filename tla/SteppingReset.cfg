SPECIFICATION Spec
CONSTANTS
  Policies <- AllPolicies
  Intervals = {0, 1, 2}
  MaxSteps = 2
  MaxFaults = 1
  MaxKills = 0
  MaxSolves = 4
  MaxStored = 1
  Liberties <- Everything
INVARIANTS RetryIsPossible ClockCoherent
