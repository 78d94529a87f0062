SPECIFICATION Spec
CONSTANTS
  Keys = {a, b, c, d}
  Limit = 2
  MaxUses = 8
INVARIANT AlwaysBounded
CHECK_DEADLOCK FALSE
