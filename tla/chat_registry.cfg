SPECIFICATION Spec
CONSTANTS
  Gens = {g1, g2, g3}
  Sessions = {s1}
  PlanSessions = {}
  Stoppers = {c1}
  Callers = {}
  Aging = {}
  DeleteScopes = {}
  MaxFaults = 1
  MaxCrashes = 0
  None = None
SYMMETRY GenSymmetry
CHECK_DEADLOCK FALSE
INVARIANTS
  RunningGenerationIsStoppable
  EntryWillBeReleased
  StoppedMeansSettled
  BufferIsTransient
