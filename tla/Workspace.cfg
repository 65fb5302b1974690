SPECIFICATION Spec
CONSTANTS
  Requests = {c1, c2, c3}
  FewRequests = {c1, c2}
  Founders = {ann}
  Leaders = {ann, bob}
  People = {ann, bob, eve}
  Projects = {p1, p2}
  ApiKeys = {k1, k2}
  Names = {n1, n2}
  FirstProject = p1
  FirstKey = k1
  FirstName = n1
  InviteIds = {i1, i2}
  SeatLimit = 2
  BillingEnabled = TRUE
  StripeSubs = {s1, s2}
  ChatSessions = {z1, z2}
  Messages = {c1, c2}
  KeyWrites = {s1, s2}
  Upserts = TRUE
  EnvKey = FALSE
  KeyMoves = 1
  RoleMoves = 0
  PlanMoves = 1
  StripeMoves = 4
  MaxRows = 2
  MaxKeys = 3
  MaxFaults = 1
  None = None
  Off = Off
SYMMETRY Symmetry
INVARIANTS
  TypeOK
  AccessIsChecked
  BreachNeedsOverlap
  InvitesAreChecked
  DriftNeedsRace
  OldKeyNeedsMiss
PROPERTY GoneStaysGone
CHECK_DEADLOCK FALSE
