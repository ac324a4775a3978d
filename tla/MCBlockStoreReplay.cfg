CONSTANTS
  g = g
  a1 = a1
  a2 = a2
  a3 = a3
  b1 = b1
  Blocks <- Tree
  Genesis = g
  Parent <- MCParent
  Chain <- MCChain
  Address <- MCAddress
  PerFile = 2
  None = None
  Budgets <- MCBudgets
SPECIFICATION Spec
INVARIANTS
  ReplayFollowsCoins
\* The node may fail to start, and has nothing to do when all blocks are there.
CHECK_DEADLOCK FALSE
