SPECIFICATION LiveSpec
CONSTANTS
  i1 = i1
  i2 = i2
  w1 = w1
  w2 = w2
  Nobody = Nobody
  Instance = {i1, i2}
  Worker = {w1, w2}
  Home <- Apart
  LockTTL <- TwoTTLs
  ExtendTTL = 2
  MaxRetries = 2
INVARIANTS MutualExclusion KeySound
PROPERTIES KeyFreed LockReturns ImplementsLease
CHECK_DEADLOCK FALSE
