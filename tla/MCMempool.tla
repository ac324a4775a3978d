------------------------------ MODULE MCMempool ------------------------------
(***************************************************************************)
(* Two branches x1, x2 and y1, y2 over the genesis block, which funds two  *)
(* outputs.  a and c spend the same one; b and e spend a, d spends b; e    *)
(* spends the coinbase k of x1 as well, which is mature above x2.          *)
(***************************************************************************)
EXTENDS Mempool, TLC

CONSTANTS g, x1, x2, y1, y2, f, k, a, b, c, d, e, h, p, q

Tree == {g, x1, x2, y1, y2}
MCParent == x1 :> g @@ x2 :> x1 @@ y1 :> g @@ y2 :> y1
MCChain == g :> <<g>> @@ x1 :> <<g, x1>> @@ x2 :> <<g, x1, x2>>
           @@ y1 :> <<g, y1>> @@ y2 :> <<g, y1, y2>>
MCContents == g :> <<f>> @@ x1 :> <<k, a>> @@ x2 :> <<b>> @@ y1 :> <<c>> @@ y2 :> <<>>

MCOutputs ==
  f :> {<<f, 1>>, <<f, 2>>} @@ k :> {<<k, 1>>} @@ a :> {<<a, 1>>, <<a, 2>>}
  @@ b :> {<<b, 1>>} @@ c :> {<<c, 1>>} @@ d :> {<<d, 1>>} @@ e :> {<<e, 1>>}
  @@ h :> {<<h, 1>>}
MCInputs ==
  f :> {} @@ k :> {} @@ a :> {<<f, 1>>} @@ b :> {<<a, 1>>} @@ c :> {<<f, 1>>}
  @@ d :> {<<b, 1>>, <<f, 2>>} @@ h :> {<<a, 1>>} @@ e :> {<<a, 2>>, <<k, 1>>}
MCOrder == <<f, k, c, b, a, e, d, h>>
MCLimit == [r \in Rare |-> 1]
===============================================================================
