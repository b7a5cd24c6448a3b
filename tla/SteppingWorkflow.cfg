SPECIFICATION Spec
CONSTANTS
  Policies <- AllPolicies
  Intervals = {0, 2}
  MaxSteps = 4
  MaxFaults = 1
  MaxKills = 1
  MaxSolves = 7
  MaxStored = 4
  Liberties <- WorkflowOnly
INVARIANTS TrajectoryIsExact ObservedIsExact CheckpointIsExact
PROPERTIES CommitIsLast UndisturbedRunFinishes ImplementsRun
