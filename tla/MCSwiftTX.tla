------------------------------- MODULE MCSwiftTX -------------------------------
(***************************************************************************)
(* SwiftTX with two requests that spend the same output, one of which has  *)
(* a second input, and three masternodes of which two decide.  This node   *)
(* is none of them, which makes them interchangeable; the vote it would    *)
(* store itself, uncounted, has the effect of DropVote.                    *)
(***************************************************************************)
EXTENDS SwiftTX, TLC

CONSTANTS t1, t2, o1, o2, m1, m2, m3

MCTx == {t1, t2}
MCOutput == {o1, o2}
MCMasternode == {m1, m2, m3}
Masternodes == Permutations(MCMasternode)
MCInputs == t1 :> {o1} @@ t2 :> {o1, o2}

\* Bounds: two complete locks take four votes; one more vote that a living lock does not
\* count, or two that are remembered after their lock, are enough to spoil them.
CountedFor(v) == locks[v[2]] # None /\ locks[v[2]].sigs[v[1]].right > 0
FewVotes ==
  /\ Cardinality(votes) <= 4
  /\ Cardinality({v \in votes : ~CountedFor(v)}) <= 2
  /\ Cardinality({v \in votes : locks[v[2]] # None /\ ~CountedFor(v)}) <= 1
================================================================================
