SPECIFICATION Spec
CONSTANTS
  p1 = p1
  p2 = p2
  t1 = t1
  t2 = t2
  t3 = t3
  Nobody = Nobody
  Process = {p1, p2}
  Thread = {t1, t2, t3}
  Home <- TwoAndOne
  Managed = {p1}
  MaxAdds = 1
  MaxEntries = 1
  Singleton = TRUE
  Distributed = TRUE
  RetryCount = 1
  Timeout = 1
  Interval = 0
  LockTTL = 3
  Minute = 1
SYMMETRY Swap
INVARIANTS RunsAreOne
CHECK_DEADLOCK FALSE
