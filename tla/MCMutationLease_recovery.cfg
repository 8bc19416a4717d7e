SPECIFICATION Spec
CONSTANTS
  Store = {s1}
  Region = {r1, r2}
  Op = {o1, o2}
  NoOp = NoOp
  TTL = 1
  MaxToken = 3
  MaxClock = 2
SYMMETRY Symmetric
INVARIANTS RecoveryObtainable
CHECK_DEADLOCK FALSE
