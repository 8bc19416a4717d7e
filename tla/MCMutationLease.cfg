SPECIFICATION Spec
CONSTANTS
  Store = {s1, s2}
  Region = {r1, r2}
  Op = {o1}
  NoOp = NoOp
  TTL = 1
  MaxToken = 3
  MaxClock = 1
SYMMETRY Symmetric
INVARIANTS TypeOK ScopeExclusion LivingOwnerKeepsRows IsolatedScope
PROPERTIES FencingAdvances
CHECK_DEADLOCK FALSE
