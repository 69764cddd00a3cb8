CONSTANTS
  MaxConns = 2
  PoolMax = 1
  Unset = Unset
  Bad = Bad
  NoEnv = NoEnv
  Envs <- MCEnvs
SPECIFICATION Spec
INVARIANTS IndInv GracefulDrain
PROPERTIES ReadinessTruthful ProcessEnds EveryRequestEnds
CHECK_DEADLOCK FALSE
