CONSTANTS
  MaxRequests = 3
  Passwords = {w1}
  NoPassword = NoPassword
SPECIFICATION Spec
INVARIANTS IndInv RotationRetires ResetTokenOnce RegistrationComplete
PROPERTIES RetiredTokenFails SuspensionHolds
CHECK_DEADLOCK FALSE
