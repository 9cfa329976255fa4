SPECIFICATION FairSpec
CONSTANTS
  b1 = b1
  b2 = b2
  b3 = b3
  NULL = NULL
  Text = Text
  Tasks = {t1, t2, t3}
  Pools <- MCPools
  Chain <- MCChain
  MaxDrift = 1
INVARIANTS OneInside ListSound FreeNumNotAbove
PROPERTIES ImplementsPool PutReturns
