---------------------------- MODULE MCCoinsCache ----------------------------
(***************************************************************************)
(* CoinsCache on a small instance: two transactions of two outputs and     *)
(* three blocks, enough for a partial spend, a full spend, and a           *)
(* reorganisation that replaces the second block.                          *)
(***************************************************************************)
EXTENDS CoinsCache, TLC

\* Neither transactions nor output positions are told apart; every checked
\* property is a safety property.
Symmetry == Permutations(TxId) \cup Permutations(Output)
=============================================================================
