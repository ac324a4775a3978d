CONSTANTS
  self = self
  m1 = m1
  m2 = m2
  m3 = m3
  p1 = p1
  p2 = p2
  Masternode <- MCMasternode
  Self = self
  Payee = {p1, p2}
  Nobody = Nobody
  Required = 2
  MaxHeight = 2
  Tips <- MCTips
  Back = 0
  Far = 1
  Ahead = 1
  Keep = 0
  MaxVotes <- MCMaxVotes
  MaxRestarts = 1
  None = None
CONSTRAINT FewAreHeard
SYMMETRY Symmetry
SPECIFICATION Spec
INVARIANTS
  TallyIsVotes
  VotesAreSingle
  RequiredPayeeIsUnique
