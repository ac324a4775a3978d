----------------------------- MODULE MCBlockStore -----------------------------
(***************************************************************************)
(* Instances of BlockStore: a chain a1, a2, a3 and the fork b1, with two   *)
(* blocks to a file; two crashes, or a crash and a shutdown.               *)
(***************************************************************************)
EXTENDS BlockStore, TLC

CONSTANTS g, a1, a2, a3, b1

Tree == {g, a1, a2, a3, b1}
MCParent == a1 :> g @@ a2 :> a1 @@ a3 :> a2 @@ b1 :> g
MCChain == g :> {g} @@ a1 :> {g, a1} @@ a2 :> {g, a1, a2} @@ a3 :> {g, a1, a2, a3}
           @@ b1 :> {g, b1}
\* The entry of a2 is before that of its parent.
MCAddress == g :> 0 @@ a2 :> 1 @@ a1 :> 2 @@ b1 :> 3 @@ a3 :> 4

MCBudgets == {"block" :> 3 @@ "crash" :> 2 @@ "stop" :> 0,
              "block" :> 4 @@ "crash" :> 1 @@ "stop" :> 1}
===============================================================================
