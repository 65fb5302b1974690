SPECIFICATION FairSpec
CONSTANTS
  j1 = j1
  j2 = j2
  Job = {j1, j2}
  MaxPeriod = 2
  MaxRuns = 2
  MaxFaults = 1
  Included = 1
  RunBlock = 2
  BlockUnits = 2
  TokenUnits = 1
INVARIANTS
  TypeOK
  ReportedIsBilled
  OverbillingNeedsFault
PROPERTY UsageIsBilled
CHECK_DEADLOCK FALSE
