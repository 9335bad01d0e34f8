CONSTANTS
  g1 = g1
  g2 = g2
  ls = ls
  psql = psql
  w1 = w1
  odd = odd
  h1 = h1
  H1 = H1
  ip4 = ip4
  ip6 = ip6
  k1 = k1
  k2 = k2
  None = None
  Programs <- MCPrograms
  SqlClients = {psql}
  Words <- MCWords
  ArgIn <- MCArgIn
  SqlIn <- MCSqlIn
  Entries = {h1, H1, ip4, ip6}
  Targets = {h1, ip4, ip6}
  Addresses = {ip4, ip6}
  Ipv4 = {ip4}
  Matched <- MCMatched
  Reported <- MCReported
  NeedsOf <- MCNeeds
  Profiles = {g1, g2}
  InitialForms <- MCForms
  FormNames = {"", "a", "copy"}
  Lines <- MCLines
  Conns = {k1, k2}
  MaxEdits = 2
  MaxSaves = 3
  MaxPolls = 2
  e1 = e1
  e2 = e2
  m1 = m1
  m2 = m2
  f1 = f1
  NoId = NoId
  Endpoints = {e1, e2}
  Models = {m1, m2}
  Presets = {f1}
  Engines <- MCEngines
  MaxWrites = 2
SPECIFICATION MCSpec
INVARIANTS
  SavedMeansStored
  FixHelps
  AttachmentsSettle
  SpinnersEnd
PROPERTIES
  ActivityNeverGoesBack
  ListedModelsGoFirst
CHECK_DEADLOCK FALSE
