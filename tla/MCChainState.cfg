CONSTANTS
  g = g
  a1 = a1
  a2 = a2
  b1 = b1
  b2 = b2
  c2 = c2
  Blocks <- ForkWithSibling
  Genesis = g
  Parent <- SiblingParent
  Chain <- SiblingChain
  Work <- MCWork
  Address <- MCAddress
  Net = net
  Rpc = rpc
  MaxReorg = 5
  Depth = 2
  Budgets <- Events
SPECIFICATION Spec
INVARIANTS
  LinkedIsComplete
  UnlinkedIsExact
  FailedHasCause
  CandidatesAreComplete
  CandidatesAreGood
  NoReorgToWorse
  BestChainIsActive
\* The node waits for blocks once all of them have arrived.
CHECK_DEADLOCK FALSE
