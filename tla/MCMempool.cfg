CONSTANTS
  g = g
  x1 = x1
  x2 = x2
  y1 = y1
  y2 = y2
  f = f
  k = k
  a = a
  b = b
  c = c
  d = d
  e = e
  h = h
  p = p
  q = q
  Blocks <- Tree
  Genesis = g
  Parent <- MCParent
  Chain <- MCChain
  Tx = {f, k, a, b, c, d, e, h}
  Special = {k}
  Inputs <- MCInputs
  Outputs <- MCOutputs
  Contents <- MCContents
  Order <- MCOrder
  Maturity = 2
  Peers = {p, q}
  MaxOrphans = 2
  Limit <- MCLimit
SPECIFICATION Spec
INVARIANTS
  PoolIsSpendable
  IndexesAreExact
  OrphansWait
PROPERTIES
  LostForCause
