CONSTANTS
  s1 = s1
  s2 = s2
  p1 = p1
  None = None
  Sessions <- AllSessions
  PlanSessions <- Plans
  InitialLists <- Lists
  MaxActs = 2
  MaxPerOp = 1
SPECIFICATION LiveSpec
INVARIANTS
  BlankIsWaiting
  NoChatMeansOpening
PROPERTIES
  SidebarCatchesUp
CHECK_DEADLOCK FALSE
