SPECIFICATION LiveSpec
CONSTANTS
  r1 = r1
  r2 = r2
  r3 = r3
  Request = {r1, r2, r3}
  LockTimeout = 2
  ResultTTL = 2
  HandlerMax = 2
  SkipOnError = {r3}
  Transport = "http"
  Faults = {"kv", "corrupt", "panic", "crash"}
INVARIANTS NoOverlap StoredIsFinal ReplayIsTrue
PROPERTY LockFreed
CHECK_DEADLOCK FALSE
