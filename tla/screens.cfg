CONSTANTS
  t1 = t1
  t2 = t2
  u1 = u1
  u2 = u2
  p1 = p1
  Tokens = {t1, t2}
  Users = {u1, u2}
  Nothing = Nothing
  MaxAsked = 2
  Modes = {"full", "resume"}
  MaxLoads = 2
  MaxLost = 1
  Extras = {{"email"}}
  Ids <- Order
  Fixed = {"bin"}
  Cells = 3
  Drops = {{1, 2}, {3}}
  Plans = {p1}
  Graphs = {1, 2}
  NoPlan = NoPlan
  NewPlan = NewPlan
  MaxInFlight = 2
  FirstGraphs <- StoredGraphs
  MaxNodes = 2
  MaxEdges = 2
  MaxNumber = 4
SPECIFICATION Spec
INVARIANTS
  OneSubmission
  TempsAreAccountedFor
  LinkedIsOfToken
  EveryIconIsPlaced
  DrawnGraphIsSound
PROPERTIES
  GivenUpStaysGivenUp
  ImplementsSetupFlow
  DrawingIsTheUsers
CHECK_DEADLOCK FALSE
