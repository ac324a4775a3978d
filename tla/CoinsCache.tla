------------------------------ MODULE CoinsCache ------------------------------
(***************************************************************************)
(* The stack of coin views of coins.cpp and txdb.cpp: the per-block view   *)
(* of ConnectTip and DisconnectTip over the cache pcoinsTip over the       *)
(* chainstate database.  A cache entry carries two flags, DIRTY ("may      *)
(* differ from the view below") and FRESH ("the view below has no unspent  *)
(* output of it"), which decide what a flush writes, drops or deletes.     *)
(*                                                                         *)
(* The coins of a transaction are the set of its unspent outputs; {} is a  *)
(* pruned CCoins.  uint256(0) is NoBlock, and in a cache it also means     *)
(* that the best block has not been read from the view below yet.          *)
(***************************************************************************)
EXTENDS Naturals

CONSTANTS
  TxId,      \* transaction ids
  Output,    \* output positions of a transaction
  MaxBlock   \* bound on the blocks ever connected

ASSUME MaxBlockAssumption == MaxBlock \in Nat

Coins == SUBSET Output
Pruned == {}
CoinsMap == [TxId -> Coins]
Block == 1 .. MaxBlock
NoBlock == 0

\* A slot of cacheCoins: an entry when in, otherwise Absent.
Entry == [in: BOOLEAN, coins: Coins, dirty: BOOLEAN, fresh: BOOLEAN]
Absent == [in |-> FALSE, coins |-> Pruned, dirty |-> FALSE, fresh |-> FALSE]
EmptyCache == [t \in TxId |-> Absent]

VARIABLES
  db,       \* coins stored by CCoinsViewDB
  dbBest,   \* its best-block record
  tip,      \* cacheCoins of pcoinsTip
  tipBest,  \* its hashBlock
  view,     \* cacheCoins of the per-block view
  viewBest, \* its hashBlock
  task,     \* what the per-block view is alive for
  utxo,     \* history: the coins after each block
  prev,     \* history: the block each block was connected on
  nBlocks   \* history: the number of blocks connected

stored == <<db, dbBest>>
history == <<utxo, prev, nBlocks>>
vars == <<db, dbBest, tip, tipBest, view, viewBest, task, utxo, prev, nBlocks>>

Task == {"none", "connect", "disconnect"}

Init ==
  /\ db = [t \in TxId |-> Pruned]
  /\ dbBest = NoBlock
  /\ tip = EmptyCache
  /\ tipBest = NoBlock
  /\ view = EmptyCache
  /\ viewBest = NoBlock
  /\ task = "none"
  /\ utxo = [b \in Block |-> [t \in TxId |-> Pruned]]
  /\ prev = [b \in Block |-> NoBlock]
  /\ nBlocks = 0

-------------------------------------------------------------------------------
(* Reading through the stack. *)

\* A transaction without unspent outputs is erased from the database.
DbEntry(t) ==
  IF db[t] = Pruned THEN Absent
  ELSE [in |-> TRUE, coins |-> db[t], dirty |-> FALSE, fresh |-> FALSE]

\* FetchCoins: the slot after a lookup, given the slot of the view below.
Fetched(entry, below) ==
  IF entry.in \/ ~below.in THEN entry
  ELSE [in |-> TRUE, coins |-> below.coins, dirty |-> FALSE,
        fresh |-> below.coins = Pruned]

TipFetched(t) == Fetched(tip[t], DbEntry(t))

\* Faulty variant of Modified: every new entry is taken for FRESH.
ModifiedAlwaysFresh(entry, below, new) ==
  LET fresh == entry.in => entry.fresh
  IN  IF fresh /\ new = Pruned THEN Absent
      ELSE [in |-> TRUE, coins |-> new, dirty |-> TRUE, fresh |-> fresh]

\* ModifyCoins and the destructor of its CCoinsModifier: the slot after the
\* coins were set to new.
Modified(entry, below, new) ==
  LET fresh == IF entry.in THEN entry.fresh
               ELSE ~below.in \/ below.coins = Pruned
  IN  IF fresh /\ new = Pruned THEN Absent
      ELSE [in |-> TRUE, coins |-> new, dirty |-> TRUE, fresh |-> fresh]

\* Faulty variant of Merged: a spend deletes the entry below without asking
\* whether it was FRESH.
MergedErasing(entry, below) ==
  IF ~entry.dirty THEN below
  ELSE IF entry.coins = Pruned THEN Absent
       ELSE [in |-> TRUE, coins |-> entry.coins, dirty |-> TRUE,
             fresh |-> below.in => below.fresh]

\* BatchWrite: the slot of the view below after entry was written into it.
Merged(entry, below) ==
  IF ~entry.dirty THEN below
  ELSE IF ~below.in
       THEN IF entry.coins = Pruned THEN Absent
            ELSE [in |-> TRUE, coins |-> entry.coins, dirty |-> TRUE, fresh |-> TRUE]
       ELSE IF below.fresh /\ entry.coins = Pruned THEN Absent
            ELSE [below EXCEPT !.coins = entry.coins, !.dirty = TRUE]

\* What a caller of each view sees, whatever the caches hold.
TipCoins == [t \in TxId |-> IF tip[t].in THEN tip[t].coins ELSE db[t]]
ViewCoins == [t \in TxId |-> IF view[t].in THEN view[t].coins ELSE TipCoins[t]]
TipBest == IF tipBest = NoBlock THEN dbBest ELSE tipBest

-------------------------------------------------------------------------------
(* Actions.  Everything runs under cs_main, so the per-block view is alone  *)
(* with pcoinsTip while it lives.                                           *)

\* A lookup in pcoinsTip, as mempool acceptance and the RPCs do.
FetchTip(t) ==
  /\ task = "none"
  /\ tip' = [tip EXCEPT ![t] = TipFetched(t)]
  /\ UNCHANGED <<db, dbBest, tipBest, view, viewBest, task, history>>

\* The assertions at the top of ConnectBlock and DisconnectBlock read the best
\* block of the new view, which caches it in the view and in pcoinsTip.
BeginView(newTask) ==
  /\ task = "none"
  /\ task' = newTask
  /\ view' = EmptyCache
  /\ viewBest' = TipBest
  /\ tipBest' = TipBest
  /\ UNCHANGED <<stored, tip, history>>

BeginConnect == nBlocks < MaxBlock /\ BeginView("connect")

\* The genesis block is never disconnected.
BeginDisconnect ==
  /\ TipBest # NoBlock
  /\ prev[TipBest] # NoBlock
  /\ BeginView("disconnect")

\* AccessCoins, HaveCoins and GetCoins on the per-block view.
FetchView(t) ==
  /\ task # "none"
  /\ tip' = IF view[t].in THEN tip ELSE [tip EXCEPT ![t] = TipFetched(t)]
  /\ view' = [view EXCEPT ![t] = Fetched(view[t], TipFetched(t))]
  /\ UNCHANGED <<stored, tipBest, viewBest, task, history>>

\* UpdateCoins spends and creates, DisconnectBlock removes and restores: each
\* through one CCoinsModifier.
ModifyView(t, new) ==
  /\ task # "none"
  /\ tip' = IF view[t].in THEN tip ELSE [tip EXCEPT ![t] = TipFetched(t)]
  /\ view' = [view EXCEPT ![t] = Modified(view[t], TipFetched(t), new)]
  /\ UNCHANGED <<stored, tipBest, viewBest, task, history>>

\* Faulty variant: the coins move up without their best block.
FlushViewKeepingBest(best) ==
  /\ tip' = [t \in TxId |-> Merged(view[t], tip[t])]
  /\ tipBest' = tipBest
  /\ view' = EmptyCache
  /\ viewBest' = NoBlock
  /\ task' = "none"

\* SetBestBlock, then Flush into pcoinsTip, then the view goes out of scope.
FlushView(best) ==
  /\ tip' = [t \in TxId |-> Merged(view[t], tip[t])]
  /\ tipBest' = best
  /\ view' = EmptyCache
  /\ viewBest' = NoBlock
  /\ task' = "none"

FinishConnect ==
  /\ task = "connect"
  /\ nBlocks' = nBlocks + 1
  /\ utxo' = [utxo EXCEPT ![nBlocks + 1] = ViewCoins]
  /\ prev' = [prev EXCEPT ![nBlocks + 1] = viewBest]
  /\ FlushView(nBlocks + 1)
  /\ UNCHANGED stored

\* DisconnectBlock returns true only when the undo data gave back the coins of
\* the previous block, which is assumed here of the undo data and the code that
\* applies it.
FinishDisconnect ==
  /\ task = "disconnect"
  /\ ViewCoins = utxo[prev[viewBest]]
  /\ FlushView(prev[viewBest])
  /\ UNCHANGED <<stored, history>>

\* ConnectBlock or DisconnectBlock returned false: the view is dropped.
AbandonView ==
  /\ task # "none"
  /\ task' = "none"
  /\ view' = EmptyCache
  /\ viewBest' = NoBlock
  /\ UNCHANGED <<stored, tip, tipBest, history>>

\* Faulty variant: pcoinsTip is flushed while a view on top of it lives.
FlushTipUnderView ==
  /\ db' = [t \in TxId |-> IF tip[t].dirty THEN tip[t].coins ELSE db[t]]
  /\ dbBest' = IF tipBest # NoBlock THEN tipBest ELSE dbBest
  /\ tip' = EmptyCache
  /\ UNCHANGED <<tipBest, view, viewBest, task, history>>

\* FlushStateToDisk reaches pcoinsTip->Flush(): one atomic LevelDB batch.
FlushTip ==
  /\ task = "none"
  /\ db' = [t \in TxId |-> IF tip[t].dirty THEN tip[t].coins ELSE db[t]]
  /\ dbBest' = IF tipBest # NoBlock THEN tipBest ELSE dbBest
  /\ tip' = EmptyCache
  /\ UNCHANGED <<tipBest, view, viewBest, task, history>>

\* The process dies at any point and starts again with empty caches.
Crash ==
  /\ tip' = EmptyCache
  /\ tipBest' = NoBlock
  /\ view' = EmptyCache
  /\ viewBest' = NoBlock
  /\ task' = "none"
  /\ UNCHANGED <<stored, history>>

Next ==
  \/ \E t \in TxId : FetchTip(t) \/ FetchView(t)
  \/ \E t \in TxId, new \in Coins : ModifyView(t, new)
  \/ BeginConnect
  \/ BeginDisconnect
  \/ FinishConnect
  \/ FinishDisconnect
  \/ AbandonView
  \/ FlushTip
  \/ Crash

Spec == Init /\ [][Next]_vars

-------------------------------------------------------------------------------
(* Properties. *)

\* Every variable keeps its type, an absent slot carries no flags, and the
\* history covers the blocks the records name.
TypeOK ==
  /\ db \in CoinsMap
  /\ dbBest \in 0 .. nBlocks
  /\ tip \in [TxId -> Entry]
  /\ tipBest \in 0 .. nBlocks
  /\ view \in [TxId -> Entry]
  /\ viewBest \in 0 .. nBlocks
  /\ task \in Task
  /\ utxo \in [Block -> CoinsMap]
  /\ nBlocks \in 0 .. MaxBlock
  /\ prev \in [Block -> 0 .. nBlocks]
  /\ \A t \in TxId : /\ ~tip[t].in => tip[t] = Absent
                     /\ ~view[t].in => view[t] = Absent

\* coins.h: a FRESH entry has no unspent output in the view below, at both
\* levels of the stack.  A flush deletes such an entry instead of writing the
\* spend down, so a wrong FRESH brings a spent output back.
FreshMeansNothingBelow ==
  \A t \in TxId : /\ tip[t].fresh => db[t] = Pruned
                  /\ view[t].fresh => TipCoins[t] = Pruned

\* coins.h: an entry that is not DIRTY equals what the view below holds; a
\* flush skips it, so a stale clean entry would lose an update.
CleanMeansSameBelow ==
  \A t \in TxId : /\ tip[t].in /\ ~tip[t].dirty => tip[t].coins = db[t]
                  /\ view[t].in /\ ~view[t].dirty => view[t].coins = TipCoins[t]

\* The assertion of BatchWrite: an entry with unspent outputs that moves into
\* pcoinsTip, which has no entry for it, is FRESH.  Its counterpart for a spend:
\* an entry that is dropped because pcoinsTip has none had nothing below it.
MoveUpIsFresh ==
  \A t \in TxId : view[t].dirty /\ ~tip[t].in =>
     /\ view[t].coins # Pruned => view[t].fresh
     /\ view[t].coins = Pruned => db[t] = Pruned

\* Whatever was flushed, dropped or lost in a crash, the database holds the
\* complete coins of the block its best-block record names.
CoinsAt(b) == IF b = NoBlock THEN [t \in TxId |-> Pruned] ELSE utxo[b]
StoredCoinsAreOneBlock == db = CoinsAt(dbBest)

\* Every step of the stack is a step of the ledger or invisible to it: blocks
\* connect and disconnect whole, the durable copy changes only to a copy of
\* the current one, and a restart returns to it.
Abstract == INSTANCE UtxoLedger WITH
  current <- [best |-> TipBest, coins |-> TipCoins],
  durable <- [best |-> dbBest, coins |-> db]
ImplementsLedger == Abstract!Spec
===============================================================================
