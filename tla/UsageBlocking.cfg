SPECIFICATION Spec
CONSTANTS
  j1 = j1
  j2 = j2
  p1 = p1
  p2 = p2
  Job = {j1, j2}
  Project = {p1}
  EventQuota = 1
  RunQuota = 1
  MaxUsage = 1
  MaxFaults = 1
INVARIANT TypeOK
PROPERTIES
  FlagsFollowQuota
  UpgradeUnblocksAi
