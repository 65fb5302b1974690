SPECIFICATION FairSpec
CONSTANTS
  r1 = r1
  r2 = r2
  w1 = w1
  w2 = w2
  full = full
  rootless = rootless
  empty = empty
  poison = poison
  garbled = garbled
  Request = {r1, r2}
  Batch = {full, rootless, empty, poison, garbled}
  Kind <- AllKinds
  Worker = {w1, w2}
  BillingEnabled = TRUE
  MaxRetries = 1
  MaxFaults = 2
  NoBatch = NoBatch
  NoTask = NoTask
INVARIANTS
  TypeOK
  StoreIsOrdered
  PublishedIsNotLost
  CopiesAreBounded
PROPERTIES
  PublishedIsSettled
  Refines
CHECK_DEADLOCK FALSE
