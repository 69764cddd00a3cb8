CONSTANTS
  p1 = p1
  p2 = p2
  k1 = k1
  Products = {p1, p2}
  Requests = {r1, r2, r3}
  Keys = {k1}
  NoKey = NoKey
  EmptyKey = EmptyKey
  Opening = Opening
  Inputs <- MCRetryInputs
  InitialStocks <- MCRetryStocks
  MaxInt = 2
  PoolSize = 2
SPECIFICATION FairSpec
PROPERTIES RetryNeverRejected EveryRequestAnswered
CHECK_DEADLOCK FALSE
