SPECIFICATION LiveSpec
CONSTANTS
  c1 = c1
  c2 = c2
  k1 = k1
  k2 = k2
  Text = Text
  Absent = Absent
  Caller = {c1, c2}
  Key = {k1, k2}
  LockKey = k1
  Counter = k2
  Transport <- Transports
  MaxValue = 4
  MaxTTL = 2
  AskTTL = {1}
  MaxCount = 1
  MaxSize = 1
  Rate = 1
  Capacity = 2
  Limit = 2
  Window = 2
  Poll = 1
  MaxCalls = 4
  Faults = {"resend", "serialize", "kv", "crash"}
INVARIANTS LockExclusive CounterSound
PROPERTIES AnswerIsTrue WaiterServed
