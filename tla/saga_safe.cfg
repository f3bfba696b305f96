SPECIFICATION LiveSpec
CONSTANTS
  e1 = e1
  e2 = e2
  Free = Free
  Execution = {e1, e2}
  N = 3
  Bare = {2}
  RetryCount = 1
  Faults = {"store", "late", "panic", "dirty", "crash"}
INVARIANTS AllOrNothing StepsSound SagaHonest
PROPERTY Ends
CHECK_DEADLOCK FALSE
