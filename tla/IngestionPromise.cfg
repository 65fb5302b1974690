SPECIFICATION FairSpec
CONSTANTS
  r1 = r1
  r2 = r2
  w1 = w1
  w2 = w2
  full = full
  rootless = rootless
  empty = empty
  poison = poison
  garbled = garbled
  Request = {r1}
  Batch = {full, poison}
  Kind <- LiveKinds
  Worker = {w1}
  BillingEnabled = TRUE
  MaxRetries = 1
  MaxFaults = 1
  NoBatch = NoBatch
  NoTask = NoTask
PROPERTY AcceptedIsProcessed
CHECK_DEADLOCK FALSE
