------------------------ MODULE MCMasternodePayments ------------------------
(***************************************************************************)
(* MasternodePayments with four masternodes, two votes to require a payee, *)
(* and two payees.  Votes are for the height of the tip and the next one;  *)
(* those for a height below the tip are removed.                           *)
(***************************************************************************)
EXTENDS MasternodePayments, TLC

CONSTANTS self, m1, m2, m3, p1, p2

MCMasternode == {self, m1, m2, m3}
Symmetry == Permutations({m1, m2, m3}) \cup Permutations({p1, p2})
MCTips == 1 .. 2
\* Bound: once started again, the node hears of at most two masternodes.
FewAreHeard == restarts > 0 => Cardinality({m \in Masternode : lastVote[m] # -1}) <= 2
MCMaxVotes == 0 :> 4 @@ 1 :> 2
===============================================================================
