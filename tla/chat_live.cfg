SPECIFICATION LiveSpec
CONSTANTS
  Gens = {g1, g2}
  Sessions = {s1, s2}
  PlanSessions = {s2}
  Stoppers = {}
  Callers = {}
  Aging = {g1, g2}
  DeleteScopes = {}
  MaxFaults = 0
  MaxCrashes = 1
  None = None
CHECK_DEADLOCK FALSE
PROPERTY PendingSettles
