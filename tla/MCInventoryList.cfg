CONSTANTS
  Last = 5
  Limits <- MCLimits
  DefaultLimit = 2
  MaxLimit = 3
  Endpoint = "inventory"
SPECIFICATION Spec
INVARIANTS NothingSkipped
CHECK_DEADLOCK FALSE
