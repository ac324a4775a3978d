CONSTANTS
  TxId = {t1, t2}
  Output = {o1, o2}
  MaxBlock = 3
SPECIFICATION Spec
INVARIANTS
  FreshMeansNothingBelow
  MoveUpIsFresh
  StoredCoinsAreOneBlock
PROPERTIES
  ImplementsLedger
SYMMETRY Symmetry
