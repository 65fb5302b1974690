SPECIFICATION Spec
CONSTANTS
  Tasks = {t1, t2}
  SpanIds = {s1, s2}
  Processors = {p1, p2}
  Users = {amy, bob}
  EnvKey = TRUE
  Bounds <- MCBounds
  Families <- MCFamilies
  Batches = {b1, b2}
  Other = Other
  Reports <- MCReports
  Estimate = 5
  Models = 2
  Processes = {p1, p2}
  MaxRelease = 3
  WalkTraces <- MCWalkTraces
  WalkWindows <- MCWalkWindows
  SumTraces <- MCSumTraces
  SumSpans <- MCSumSpans
  SumWindows <- MCSumWindows
  DayLen = 2
  Limit = 2
  MaxInserts = 4
  MaxWalks = 1
  r1 = r1
  r2 = r2
  c1 = c1
  c2 = c2
  x = x
  ta = ta
  tb = tb
  tc = tc
  td = td
  sess = sess
  eve = eve
  max = max
  None = None
  Off = Off
SYMMETRY Symmetry
INVARIANTS
  TypeOK
  RowsAreFaithful
  ListsAgree
PROPERTIES
  SpansAreDelivered
  PricesAreCurrent
CHECK_DEADLOCK FALSE
