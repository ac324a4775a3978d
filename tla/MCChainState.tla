---------------------------- MODULE MCChainState ----------------------------
(***************************************************************************)
(* Instances of ChainState: two branches a1, a2 and b1, b2 over the        *)
(* genesis block, and in the larger tree a sibling c2 of b2.  Every rare   *)
(* event a run allows happens at most once.                                *)
(***************************************************************************)
EXTENDS ChainState, TLC

CONSTANTS g, a1, a2, b1, b2, c2

Fork == {g, a1, a2, b1, b2}
ForkWithSibling == Fork \cup {c2}

ParentOf == a1 :> g @@ a2 :> a1 @@ b1 :> g @@ b2 :> b1 @@ c2 :> b1
ChainOf == g :> {g} @@ a1 :> {g, a1} @@ a2 :> {g, a1, a2} @@ b1 :> {g, b1}
           @@ b2 :> {g, b1, b2} @@ c2 :> {g, b1, c2}
In(tree, f) == [b \in tree |-> f[b]]

ForkParent == In(Fork \ {g}, ParentOf)
ForkChain == In(Fork, ChainOf)
SiblingParent == In(ForkWithSibling \ {g}, ParentOf)
SiblingChain == In(ForkWithSibling, ChainOf)

\* All blocks have the same difficulty.
MCWork == [b \in Blocks |-> Cardinality(Chain[b])]

\* Entries are allocated in the order of the tree.
MCAddress ==
  In(Blocks, g :> 0 @@ a1 :> 1 @@ b1 :> 2 @@ b2 :> 3 @@ a2 :> 4 @@ c2 :> 5)

Once(events) == [e \in Rare |-> IF e \in events THEN 1 ELSE 0]

\* What an operator does, with a block refused before it is stored; and
\* ReprocessBlocks, with a lost block.
Events == {Once({"invalidate", "reconsider"}), Once({"invalidate", "contextual"}),
           Once({"reprocess", "write"})}
Faults == {Once({"reconsiderBelow", "reprocess", "system", "change"}),
           Once({"reprocess", "invalidate"})}
=============================================================================
