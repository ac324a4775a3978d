---------------------------- MODULE MCChainRestart ----------------------------
(***************************************************************************)
(* Instances of ChainRestart: the branches a1, a2 and b1, b2 over the      *)
(* genesis block.                                                          *)
(***************************************************************************)
EXTENDS ChainRestart, TLC

CONSTANTS g, a1, a2, b1, b2

Tree == {g, a1, a2, b1, b2}

ParentOf == a1 :> g @@ a2 :> a1 @@ b1 :> g @@ b2 :> b1
ChainOf == g :> {g} @@ a1 :> {g, a1} @@ a2 :> {g, a1, a2} @@ b1 :> {g, b1}
           @@ b2 :> {g, b1, b2}
MCParent == [b \in Blocks \ {g} |-> ParentOf[b]]
MCChain == [b \in Blocks |-> ChainOf[b]]

\* All blocks have the same difficulty.
MCWork == [b \in Blocks |-> Cardinality(ChainOf[b])]

\* Entries are allocated in the order of the tree.
Position == g :> 0 @@ a1 :> 1 @@ b1 :> 2 @@ b2 :> 3 @@ a2 :> 4
MCAddress == [b \in Blocks |-> Position[b]]

Once(events) == [e \in Rare |-> IF e \in events THEN 1 ELSE 0]

\* Two crashes and a lost block; a crash and a shutdown with a refused block; a
\* crash with one event of an operator, ReprocessBlocks or a failing step.
TwoCrashes == [Once({"write"}) EXCEPT !["crash"] = 2]
Events == {TwoCrashes, Once({"crash", "stop", "contextual"})} \cup
  {Once({"crash", e}) : e \in {"invalidate", "reconsider", "reprocess", "system"}}
===============================================================================
