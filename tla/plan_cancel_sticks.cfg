SPECIFICATION LiveSpec
CONSTANTS
  NoNode = NoNode
  NoRow = NoRow
  a = a
  b = b
  d = d
  x = x
  Plans = {p1}
  Runs = {r1}
  Cancellers = {c1}
  Graphs <- ShortGraphs
  MaxTransitions = 3
  MaxFaults = 0
  MaxCrashes = 0
CHECK_DEADLOCK FALSE
PROPERTY CancelledRunNeverCompletes
