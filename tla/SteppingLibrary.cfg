SPECIFICATION Spec
CONSTANTS
  Policies <- AllPolicies
  Intervals = {0, 1, 2}
  MaxSteps = 2
  MaxFaults = 2
  MaxKills = 0
  MaxSolves = 4
  MaxStored = 1
  Liberties <- LibraryCaller
INVARIANTS StaticsAreCurrent LedgerTellsFailure
