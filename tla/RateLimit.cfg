CONSTANTS
  Handlers = {h1, h2, h3}
  MaxAttempts = 2
  Window = 2
SPECIFICATION Spec
INVARIANTS IndInv LimitHeld
PROPERTIES NeverLockedOut
CHECK_DEADLOCK FALSE
