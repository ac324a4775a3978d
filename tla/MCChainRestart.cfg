CONSTANTS
  g = g
  a1 = a1
  a2 = a2
  b1 = b1
  b2 = b2
  Blocks <- Tree
  Genesis = g
  Parent <- MCParent
  Chain <- MCChain
  Work <- MCWork
  Address <- MCAddress
  Net = net
  Rpc = rpc
  MaxReorg = 5
  Depth = 2
  Budgets <- Events
SPECIFICATION RestartSpec
INVARIANTS
  CoinsAreIndexed
  RestartKeepsIndex
  RestartFindsBestChain
\* The node waits for blocks once all of them have arrived.
CHECK_DEADLOCK FALSE
