SPECIFICATION Spec
CONSTANTS
  j1 = j1
  j2 = j2
  p1 = p1
  p2 = p2
  Job = {j1}
  Project = {p1}
  EventQuota = 1
  RunQuota = 1
  MaxUsage = 0
  MaxFaults = 1
PROPERTY UpgradeUnblocksIngestion
