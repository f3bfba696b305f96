SPECIFICATION Spec
CONSTANTS
  c1 = c1
  c2 = c2
  c3 = c3
  c4 = c4
  Client = {c1, c2, c3, c4}
  Size = 2
  TTL = 2
  HoldMax = 2
  MaxCount = 4
  Faults = {"crash", "kv", "resend", "expire"}
SYMMETRY Alike
INVARIANTS AtMostSize CountSound
CHECK_DEADLOCK FALSE
