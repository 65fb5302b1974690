SPECIFICATION FairSpec
CONSTANTS
  t1 = t1
  t2 = t2
  me = me
  colleague = colleague
  own = own
  org = org
  Tab = {t1, t2}
  Account = {me, colleague}
  Installation = {own, org}
  Access <- MCAccess
  MaxActs = 3
  MaxFaults = 1
  GitHub = GitHub
  Ours = Ours
  None = None
INVARIANTS
  TypeOK
  ReturnsHome
  HalfIsUnderWay
PROPERTY FlowEnds
CHECK_DEADLOCK FALSE
