SPECIFICATION Spec
CONSTANTS
  Keys = {1, 2, 3, 4, 5, 6, 7, 8, 9}
  Items = {0, 1, 2}
  MinCapacity = 2
  MaxLen = 6
  Others <- MCOthers
INVARIANTS TreeBalanced ContainersRight
CHECK_DEADLOCK FALSE
