SPECIFICATION Spec
CONSTANTS
  Gens = {g1, g2}
  Sessions = {s1}
  PlanSessions = {}
  Stoppers = {}
  Callers = {u1}
  Aging = {g1, g2}
  DeleteScopes = {{s1}}
  MaxFaults = 1
  MaxCrashes = 1
  None = None
SYMMETRY GenSymmetry
CHECK_DEADLOCK FALSE
INVARIANTS
  PendingHasOwner
PROPERTY DeletedStaysDeleted
