CONSTANTS
  Last = 5
  Limits <- MCLimits
  DefaultLimit = 2
  MaxLimit = 3
  Endpoint = "items"
SPECIFICATION Spec
INVARIANTS IndInv InOrderOnce NothingSkipped
PROPERTIES WalkEnds
CHECK_DEADLOCK FALSE
