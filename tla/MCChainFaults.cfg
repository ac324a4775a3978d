CONSTANTS
  g = g
  a1 = a1
  a2 = a2
  b1 = b1
  b2 = b2
  c2 = c2
  Blocks <- Fork
  Genesis = g
  Parent <- ForkParent
  Chain <- ForkChain
  Work <- MCWork
  Address <- MCAddress
  Net = net
  Rpc = rpc
  MaxReorg = 5
  Depth = 2
  Budgets <- Faults
SPECIFICATION Spec
INVARIANTS
  ActiveChainIsClean
PROPERTIES
  ActivationEnds
\* The node waits for blocks once all of them have arrived.
CHECK_DEADLOCK FALSE
