SPECIFICATION LiveSpec
CONSTANTS
  p1 = p1
  p2 = p2
  t1 = t1
  t2 = t2
  t3 = t3
  Nobody = Nobody
  Process = {p1}
  Managed = {p1}
  Thread = {t1, t2}
  Home <- TwoInOne
  MaxAdds = 2
  MaxEntries = 2
  Singleton = TRUE
  Distributed = FALSE
  RetryCount = 1
  Timeout = 1
  Interval = 0
  LockTTL = 3
  Minute = 1
INVARIANTS FlagsTrue
PROPERTY Quiesces
CHECK_DEADLOCK FALSE
