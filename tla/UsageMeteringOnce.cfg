SPECIFICATION Spec
CONSTANTS
  j1 = j1
  j2 = j2
  Job = {j1}
  MaxPeriod = 2
  MaxRuns = 3
  MaxFaults = 1
  Included = 1
  RunBlock = 2
  BlockUnits = 2
  TokenUnits = 1
INVARIANT NeverOverbilled
CHECK_DEADLOCK FALSE
