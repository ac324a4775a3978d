--------------------------- MODULE MCContractState ---------------------------
(***************************************************************************)
(* Contracts start at block f; d is the second contract block.  Two        *)
(* branches above d hold the same transactions in a different order; x and *)
(* y are refused.                                                          *)
(***************************************************************************)
EXTENDS ContractState, TLC

CONSTANTS g, f, d, a1, a2, b1, x, y, t1, t2

Tree == {g, f, d, a1, a2, b1, x, y}
MCParent == f :> g @@ y :> g @@ d :> f @@ a1 :> d @@ a2 :> a1 @@ b1 :> d @@ x :> a1
MCChain ==
  g :> {g} @@ f :> {g, f} @@ y :> {g, y} @@ d :> {g, f, d} @@ a1 :> {g, f, d, a1}
  @@ a2 :> {g, f, d, a1, a2} @@ x :> {g, f, d, a1, x} @@ b1 :> {g, f, d, b1}
MCContracts ==
  [b \in Tree |-> IF b \in {a1, y} THEN <<t1>> ELSE IF b \in {a2, x} THEN <<t2>>
                  ELSE IF b = b1 THEN <<t2, t1>> ELSE <<>>]
MCRootAfter ==
  [b \in Tree |-> IF b \in {g, f, d} THEN <<>> ELSE IF b \in {a2, x} THEN <<t1, t2>>
                  ELSE MCContracts[b]]

Limits(events) == [e \in Rare |-> IF e \in events THEN 1 ELSE 0]

Events ==
  {[Limits({"template", "overtaken", "crash", "stop"}) EXCEPT !["template"] = 2, !["crash"] = 2],
   Limits({"refusedFirst", "template", "crash"})}
===============================================================================
