CONSTANTS
  MaxRequests = 2
  Passwords = {w1}
  NoPassword = NoPassword
SPECIFICATION Spec
INVARIANTS OneSuccessor
CHECK_DEADLOCK FALSE
