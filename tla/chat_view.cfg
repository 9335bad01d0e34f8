CONSTANTS
  s1 = s1
  s2 = s2
  w1 = w1
  w2 = w2
  c1 = c1
  v1 = v1
  v2 = v2
  None = None
  Sessions = {s1, s2}
  PageSize = 2
  PollSize = 2
  MaxId = 4
  MaxSwitches = 1
  MaxPolls <- MCMaxPolls
  Chats = {w1, w2}
  Terminals = {c1}
  Viewports = {v1, v2}
  Notepad = Notepad
  Wizard = Wizard
  Placed = Placed
  Nobody = Nobody
  MaxLists = 1
  MaxRequests = 1
  MaxOpen = 2
SPECIFICATION MCSpec
INVARIANTS
  BusyMeansInFlight
  StackIsShown
  MaximizedFills
PROPERTIES
  DroppedStaysDropped
SYMMETRY Sym
CHECK_DEADLOCK FALSE
