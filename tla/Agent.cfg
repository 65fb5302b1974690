SPECIFICATION DeskSpec
CONSTANTS
  t1 = t1
  t2 = t2
  na = na
  nb = nb
  nc = nc
  nd = nd
  nx = nx
  ny = ny
  ViewTraces = {t1, t2}
  SpanOrder <- MCOrder
  TraceOf <- MCTraceOf
  Parents <- MCParents
  MaxLines = 2
  MaxBytes = 3
  ReadLimits = {1, 2, 3}
  NoLimit = NoLimit
  Line <- MCLine
  MaxFile = 4
  MaxFail = 1
  Null = Null
  Off = Off
INVARIANTS
  DeskTypeOK
  TreeIsFaithful
PROPERTY ReadingIsFaithful
CHECK_DEADLOCK FALSE
