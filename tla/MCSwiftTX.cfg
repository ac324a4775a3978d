CONSTANTS
  t1 = t1
  t2 = t2
  o1 = o1
  o2 = o2
  Tx <- MCTx
  Output <- MCOutput
  Inputs <- MCInputs
  m1 = m1
  m2 = m2
  m3 = m3
  Masternode <- MCMasternode
  Self = self
  Required = 2
  LockTime = 1
  MaxTime = 2
  None = None
CONSTRAINT FewVotes
SYMMETRY Masternodes
SPECIFICATION Spec
INVARIANTS
  VotesCountOnce
  RejectedLockWins
PROPERTIES
  LocksAreNotStolen
\* Everything may be confirmed and the clock at its bound.
CHECK_DEADLOCK FALSE
