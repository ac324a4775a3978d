------------------------------ MODULE UtxoLedger ------------------------------
(***************************************************************************)
(* What the stack of coin views promises to the rest of the node: one      *)
(* unspent-output set that moves from block to block as a whole, and one   *)
(* durable copy of it that is always the complete set of some block.       *)
(* There are no caches, flags or partial writes here; CoinsCache           *)
(* implements this specification.                                          *)
(***************************************************************************)
EXTENDS Naturals

CONSTANTS
  TxId,      \* transaction ids
  Output,    \* output positions of a transaction
  MaxBlock   \* bound on the blocks ever connected

Coins == SUBSET Output
CoinsMap == [TxId -> Coins]

Block == 1 .. MaxBlock
NoBlock == 0
Ledger == [best: Block \cup {NoBlock}, coins: CoinsMap]

VARIABLES
  utxo,    \* utxo[b]: the set after block b, fixed when b is first connected
  prev,    \* prev[b]: the block b was connected on top of
  nBlocks, \* blocks connected so far; block ids are handed out in order
  current, \* the ledger the node works with
  durable  \* the ledger a restart finds

vars == <<utxo, prev, nBlocks, current, durable>>

EmptyLedger == [best |-> NoBlock, coins |-> [t \in TxId |-> {}]]

Init ==
  /\ utxo = [b \in Block |-> EmptyLedger.coins]
  /\ prev = [b \in Block |-> NoBlock]
  /\ nBlocks = 0
  /\ current = EmptyLedger
  /\ durable = EmptyLedger

\* The next block changes the whole set at once.
Connect(coins) ==
  /\ nBlocks < MaxBlock
  /\ nBlocks' = nBlocks + 1
  /\ utxo' = [utxo EXCEPT ![nBlocks + 1] = coins]
  /\ prev' = [prev EXCEPT ![nBlocks + 1] = current.best]
  /\ current' = [best |-> nBlocks + 1, coins |-> coins]
  /\ UNCHANGED durable

\* Undoing the last block brings back exactly the set of the one before.
Disconnect ==
  /\ current.best # NoBlock
  /\ prev[current.best] # NoBlock
  /\ current' = [best |-> prev[current.best], coins |-> utxo[prev[current.best]]]
  /\ UNCHANGED <<utxo, prev, nBlocks, durable>>

Persist ==
  /\ durable' = current
  /\ UNCHANGED <<utxo, prev, nBlocks, current>>

Restart ==
  /\ current' = durable
  /\ UNCHANGED <<utxo, prev, nBlocks, durable>>

Next ==
  \/ \E coins \in CoinsMap : Connect(coins)
  \/ Disconnect
  \/ Persist
  \/ Restart

Spec == Init /\ [][Next]_vars
===============================================================================
