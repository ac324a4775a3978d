CONSTANTS
  g = g
  f = f
  d = d
  a1 = a1
  a2 = a2
  b1 = b1
  x = x
  y = y
  t1 = t1
  t2 = t2
  Blocks <- Tree
  Genesis = g
  Parent <- MCParent
  Chain <- MCChain
  Enabled = {f, d, a1, a2, b1, x, y}
  Tx = {t1, t2}
  Contracts <- MCContracts
  RootAfter <- MCRootAfter
  Faulty = {x, y}
  Null = Null
  None = None
  Template = Template
  Budgets <- Events
SPECIFICATION Spec
INVARIANTS
  RootsFollowTip
  ReceiptsAreOfChain
  ReceiptsSurvive
\* The node may fail to start from the first contract block.
CHECK_DEADLOCK FALSE
