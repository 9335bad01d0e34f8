SPECIFICATION Spec
CONSTANTS
  NoNode = NoNode
  NoRow = NoRow
  a = a
  b = b
  d = d
  x = x
  Plans = {p1}
  Runs = {r1}
  Cancellers = {c1, c2}
  Graphs <- AllGraphs
  MaxTransitions = 3
  MaxFaults = 1
  MaxCrashes = 1
SYMMETRY CancellerSymmetry
CHECK_DEADLOCK FALSE
INVARIANTS
  TypeOK
  SettledRunHasNoRunningStep
  CompletedRunHasOnlyFinishedSteps
  ExecutedStepsFollowEdges
  DoneMeansSettled
  UnregisteredRunIsStartingOrStale
  OnePipelinePerRun
  WalkIsBounded
