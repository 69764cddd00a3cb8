CONSTANTS
  p1 = p1
  p2 = p2
  k1 = k1
  Products = {p1, p2}
  Requests = {r1, r2}
  Keys = {k1}
  NoKey = NoKey
  EmptyKey = EmptyKey
  Opening = Opening
  Inputs <- MCInputs
  InitialStocks <- MCInitialStocks
  MaxInt = 2
  PoolSize = 2
SPECIFICATION Spec
INVARIANTS ReplayMatches
CHECK_DEADLOCK FALSE
