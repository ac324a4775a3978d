---------------------------- MODULE ContractState ----------------------------
(***************************************************************************)
(* The state of the contract VM beside the block chain: the roots of       *)
(* globalState, which every executed contract transaction moves, the       *)
(* receipts of StorageResults in memory and in resultsDB, and the height   *)
(* index of contract transactions.  ConnectTip, DisconnectTip, the miner's *)
(* CreateNewBlock with TestBlockValidity, and the start with ContractInit  *)
(* and VerifyDB change them; each restores what it must not keep, as far   *)
(* as GetState, UpdateState and their like let it: they do nothing unless  *)
(* the tip is a block of the contract version.                             *)
(*                                                                         *)
(* A root stands for the transactions executed since the default root.     *)
(* ConnectTip and the miner hold cs_main, but CreateNewBlock reads the     *)
(* roots before it takes it.  -logevents is on, as by default.             *)
(***************************************************************************)
EXTENDS Naturals, FiniteSets, SequencesExt

CONSTANTS
  Blocks, Genesis, Parent,
  Chain,      \* Chain[b]: b and its ancestors
  Enabled,    \* the blocks of the contract version: those from Contract_StartHeight on
  Tx,         \* contract transactions
  Contracts,  \* Contracts[b]: the contract transactions of b, in order
  RootAfter,  \* RootAfter[b]: the root that the chain up to b gives
  Faulty,     \* blocks that ConnectBlock refuses
  Null, None, Template, Budgets

Default == <<>>

\* The block at Contract_StartHeight.
First(b) == b \in Enabled /\ Parent[b] \notin Enabled

\* GetVMState: nothing before the contract version; zero in the first contract
\* block, whose maker reads the roots under a tip without contracts.
Recorded == [b \in Blocks |-> IF b \notin Enabled \/ First(b) THEN Null ELSE RootAfter[b]]

ASSUME TreeAssumption ==
  /\ Genesis \in Blocks /\ IsFiniteSet(Blocks)
  /\ Parent \in [Blocks \ {Genesis} -> Blocks]
  /\ Chain \in [Blocks -> SUBSET Blocks]
  /\ Chain[Genesis] = {Genesis}
  /\ \A b \in Blocks \ {Genesis} : /\ Chain[b] = Chain[Parent[b]] \cup {b}
                                   /\ b \notin Chain[Parent[b]]

ASSUME RootAssumption ==
  /\ Contracts \in [Blocks -> Seq(Tx)] /\ RootAfter \in [Blocks -> Seq(Tx)]
  /\ RootAfter[Genesis] = Default
  /\ \A b \in Blocks \ {Genesis} : RootAfter[b] = RootAfter[Parent[b]] \o Contracts[b]
  /\ Null \notin Seq(Tx) /\ None \notin Blocks /\ Template \notin Blocks \cup {None}

\* What ConnectBlock asks of blocks: the contract version from its first block on, the
\* default roots of the second one, so that no transaction can move them before, and
\* inputs that are not spent, so that a transaction is in a chain once.
ASSUME ContractAssumption ==
  /\ Genesis \notin Enabled /\ Genesis \notin Faulty
  /\ \A b \in Blocks : b \notin Enabled => Contracts[b] = <<>>
  /\ \A b \in Blocks \ (Faulty \cup {Genesis}) :
       /\ Parent[b] \in Enabled => b \in Enabled
       /\ First(b) \/ First(Parent[b]) => Contracts[b] = <<>>
       /\ \A c \in Chain[Parent[b]] : ToSet(Contracts[b]) \cap ToSet(Contracts[c]) = {}

Rare == {"template", "overtaken", "refusedFirst", "crash", "stop"}

VARIABLES
  tip,    \* chainActive.Tip()
  best,   \* the best block of the coins on disk
  roots,  \* the roots of globalState
  cache,  \* m_cache_result: the block a transaction's receipt was made for
  db,     \* resultsDB
  index,  \* the height index: pairs of a height and a transaction
  busy,   \* what the thread that changes the chain is doing under cs_main
  miner,  \* CreateNewBlock before it takes cs_main, with the roots it read
  up,     \* the node runs
  spent

vars == <<tip, best, roots, cache, db, index, busy, miner, up, spent>>

Idle == [step |-> "idle", block |-> None, done |-> 0, saved |-> Null]
Resting == [on |-> FALSE, old |-> Null]
NoReceipts == [t \in Tx |-> None]

Init ==
  /\ tip = Genesis /\ best = Genesis
  /\ roots = Default
  /\ cache = NoReceipts /\ db = NoReceipts /\ index = {}
  /\ busy = Idle /\ miner = Resting
  /\ up = TRUE
  /\ spent = [e \in Rare |-> 0]

SpendAll(E) ==
  /\ spent' = [e \in Rare |-> IF e \in E THEN spent[e] + 1 ELSE spent[e]]
  /\ \E limit \in Budgets : \A e \in Rare : spent'[e] <= limit[e]

Height(b) == Cardinality(Chain[b]) - 1
Active == tip \in Enabled

\* GetState.
State == IF Active THEN roots ELSE Null

\* What UpdateState(to) leaves when the roots are from.
Updated(from, to) == IF Active /\ to # Null THEN to ELSE from

\* addResult inserts: a receipt that is there stays.
Added(receipts, t, b) == [receipts EXCEPT ![t] = IF @ = None THEN b ELSE @]

AddedAll(receipts, txs, b) ==
  [t \in Tx |-> IF t \in ToSet(txs) THEN Added(receipts, t, b)[t] ELSE receipts[t]]

\* ClearCacheResult.
Cleared == IF Active THEN NoReceipts ELSE cache

\* commitResults writes the receipts that are not stored yet.
Stored(receipts) == [t \in Tx |-> IF db[t] = None THEN receipts[t] ELSE db[t]]

\* EraseHeightIndex.
Erased(h) == {e \in index : e[1] # h}
Indexed(b) == {<<Height(b), t>> : t \in ToSet(Contracts[b])}

-------------------------------------------------------------------------------
(* ConnectTip and DisconnectTip. *)

Free == up /\ busy = Idle

BeginConnect(b) ==
  /\ Free
  /\ b # Genesis /\ Parent[b] = tip
  /\ busy' = [step |-> "connect", block |-> b, done |-> 0, saved |-> State]
  /\ UNCHANGED <<tip, best, roots, cache, db, index, miner, up, spent>>

\* ContractTxConnectBlock, for the next contract transaction of the block.
ContractTxConnectBlock ==
  /\ busy.step = "connect" /\ busy.done < Len(Contracts[busy.block])
  /\ LET t == Contracts[busy.block][busy.done + 1]
     IN  /\ roots' = Append(roots, t)
         /\ cache' = Added(cache, t, busy.block)
  /\ busy' = [busy EXCEPT !.done = @ + 1]
  /\ UNCHANGED <<tip, best, db, index, miner, up, spent>>

\* From wrong roots a valid block may not give the transfers and refunds it holds.
MayRefuse ==
  \/ busy.block \in Faulty
  \/ busy.done > 0 /\ busy.saved # RootAfter[tip]

RefuseBlock ==
  /\ busy.step = "connect" /\ MayRefuse
  /\ roots' = Updated(roots, busy.saved)
  /\ cache' = Cleared
  /\ busy' = Idle
  /\ SpendAll(IF busy.done > 0 /\ ~Active THEN {"refusedFirst"} ELSE {})
  /\ UNCHANGED <<tip, best, db, index, miner, up>>

\* The results are committed under the old tip; the coins may be flushed.
AcceptBlock ==
  /\ busy.step = "connect"
  /\ busy.block \notin Faulty /\ busy.done = Len(Contracts[busy.block])
  /\ index' = index \cup Indexed(busy.block)
  /\ db' = IF Active THEN Stored(cache) ELSE db
  /\ cache' = Cleared
  /\ tip' = busy.block
  /\ best' \in {best, busy.block}
  /\ busy' = Idle
  /\ UNCHANGED <<roots, miner, up, spent>>

\* Faulty variant: the roots of the disconnected block are set.
OwnRoots(b) == Recorded[b]
PreviousRoots(b) == Recorded[Parent[b]]

\* Faulty variant: the receipts of a disconnected block are kept.
WithAll(receipts, b) == receipts

\* deleteResults.
Without(receipts, b) ==
  [t \in Tx |-> IF Active /\ t \in ToSet(Contracts[b]) THEN None ELSE receipts[t]]

\* DisconnectBlock.
DisconnectBlock ==
  /\ Free /\ tip # Genesis
  /\ roots' = Updated(roots, PreviousRoots(tip))
  /\ cache' = Without(cache, tip) /\ db' = Without(db, tip)
  /\ index' = Erased(Height(tip))
  /\ busy' = [Idle EXCEPT !.step = "disconnect"]
  /\ UNCHANGED <<tip, best, miner, up, spent>>

\* The rest of DisconnectTip: the flush, and UpdateTip.
EndDisconnect ==
  /\ busy.step = "disconnect"
  /\ tip' = Parent[tip] /\ best' = Parent[tip]
  /\ busy' = Idle
  /\ UNCHANGED <<roots, cache, db, index, miner, up, spent>>

\* FlushStateToDisk.
Flush ==
  /\ Free /\ best # tip
  /\ best' = tip
  /\ UNCHANGED <<tip, roots, cache, db, index, busy, miner, up, spent>>

\* gettransactionreceipt and searchlogs: getResult keeps what it read.
GetResult(t) ==
  /\ Free /\ Active /\ cache[t] = None /\ db[t] # None
  /\ cache' = [cache EXCEPT ![t] = db[t]]
  /\ UNCHANGED <<tip, best, roots, db, index, busy, miner, up, spent>>

-------------------------------------------------------------------------------
(* CreateNewBlock, for a block with proof of stake. *)

\* The gas limits and the roots are read without cs_main.
BeginTemplate ==
  /\ up /\ ~miner.on
  /\ miner' = [on |-> TRUE, old |-> State]
  /\ SpendAll({"template"})
  /\ UNCHANGED <<tip, best, roots, cache, db, index, busy, up>>

\* Contract transactions of the memory pool; without gas limits there are none.
TemplateTxs ==
  IF miner.old = Null THEN {<<>>}
  ELSE LET waiting == Tx \ ToSet(RootAfter[tip])
       IN  {<<>>} \cup {<<t>> : t \in waiting}

\* The roots when the template is complete: those of its last transaction went
\* into the coinstake, and the ones read at the start are set.
Offered(txs) == Updated(roots \o txs, miner.old)

\* The chain moved between the two.
Overtaken == miner.old \notin {Null, State}

\* The template is abandoned before ConnectBlock, or refused by it.
TemplateFails(txs) ==
  /\ \/ roots' = Offered(txs) /\ cache' = cache
     \/ \E n \in 0 .. Len(txs) :
          /\ roots' = IF Active THEN Offered(txs) ELSE Offered(txs) \o SubSeq(txs, 1, n)
          /\ cache' = IF Active THEN NoReceipts
                                ELSE AddedAll(cache, SubSeq(txs, 1, n), Template)
  /\ SpendAll(IF Overtaken THEN {"overtaken"} ELSE {})

\* TestBlockValidity, without an error: ConnectBlock sets the roots the tip
\* records, and leaves the receipts of the template in memory.
TemplatePasses(txs) ==
  /\ First(tip) => roots \o txs = Default
  /\ roots' = Updated(Offered(txs) \o txs,
                      IF Recorded[tip] = Null THEN Default ELSE Recorded[tip])
  /\ cache' = AddedAll(cache, txs, Template)
  /\ SpendAll(IF Overtaken /\ ~Active THEN {"overtaken"} ELSE {})

EndTemplate ==
  /\ Free /\ miner.on
  /\ \E txs \in TemplateTxs : TemplateFails(txs) \/ TemplatePasses(txs)
  /\ miner' = Resting
  /\ UNCHANGED <<tip, best, db, index, busy, up>>

-------------------------------------------------------------------------------
(* The end of the process and the next start, from the coins on disk. *)

\* The blocks of b's chain above its ancestor p.
Above(p, b) == Chain[b] \ Chain[p]

\* What they execute.
Executed(p, b) == SubSeq(RootAfter[b], Len(RootAfter[p]) + 1, Len(RootAfter[b]))

\* ContractInit has set the roots of b; VerifyDB disconnects the blocks above p.
Disconnected(p, b) ==
  LET recorded == {c \in {p} \cup Above(p, b) : Recorded[c] # Null}
  IN  IF recorded = {} THEN Default
      ELSE Recorded[CHOOSE c \in recorded : \A d \in recorded : Height(c) <= Height(d)]

\* Faulty variant: the receipts of the blocks executed again are not written.
VerifiedDry(p, b) ==
  /\ roots' = Disconnected(p, b) \o Executed(p, b)
  /\ db' = db
  /\ index' = index

\* VerifyDB at level 4 executes them again, and writes what ConnectBlock writes.
Verified(p, b) ==
  /\ roots' = Disconnected(p, b) \o Executed(p, b)
  /\ db' = IF b \notin Enabled THEN db
           ELSE [t \in Tx |->
                  LET of == {c \in Above(p, b) : t \in ToSet(Contracts[c])}
                  IN  IF db[t] # None \/ of = {} THEN db[t] ELSE CHOOSE c \in of : TRUE]
  /\ index' = index \cup UNION {Indexed(c) : c \in Above(p, b)}

\* setRoot throws in ContractInit when the block records zero.
StartAt(b) ==
  /\ tip' = b /\ best' = b
  /\ IF b \in Enabled /\ Recorded[b] = Null
     THEN up' = FALSE /\ UNCHANGED <<roots, db, index>>
     ELSE /\ up' = TRUE
          /\ \/ b = Genesis /\ Verified(b, b)
             \/ \E p \in Chain[b] \ {b} : Verified(p, b)
  /\ cache' = NoReceipts
  /\ busy' = Idle /\ miner' = Resting

Stop == Free /\ SpendAll({"stop"}) /\ StartAt(tip)
Crash == up /\ SpendAll({"crash"}) /\ StartAt(best)

Next ==
  \/ \E b \in Blocks : BeginConnect(b)
  \/ ContractTxConnectBlock
  \/ RefuseBlock
  \/ AcceptBlock
  \/ DisconnectBlock
  \/ EndDisconnect
  \/ Flush
  \/ \E t \in Tx : GetResult(t)
  \/ BeginTemplate
  \/ EndTemplate
  \/ Stop
  \/ Crash

Spec == Init /\ [][Next]_vars

-------------------------------------------------------------------------------
(* Properties. *)

\* Receipts are for blocks or the template, and cs_main has one holder at a time.
TypeOK ==
  /\ tip \in Blocks /\ best \in Blocks
  /\ roots \in Seq(Tx)
  /\ cache \in [Tx -> Blocks \cup {None, Template}]
  /\ db \in [Tx -> Blocks \cup {None, Template}]
  /\ index \in SUBSET (Nat \X Tx)
  /\ busy \in [step : {"idle", "connect", "disconnect"}, block : Blocks \cup {None},
               done : Nat, saved : Seq(Tx) \cup {Null}]
  /\ miner \in [on : BOOLEAN, old : Seq(Tx) \cup {Null}]
  /\ up \in BOOLEAN
  /\ spent \in [Rare -> Nat]

\* Nothing disturbed the roots: no first contract block was refused after it had
\* executed a transaction, when nothing could be restored.
FirstWasFine == spent["refusedFirst"] = 0

\* Whenever cs_main is free, the roots are those the chain up to the tip gives,
\* after blocks were refused half-way, reorganized away, tested by the miner or
\* executed again at start, even if the miner was overtaken by the chain, unless
\* its template then failed.
RootsFollowTip ==
  Free /\ FirstWasFine /\ spent["overtaken"] = 0 => roots = RootAfter[tip]

\* The receipts and the height index tell of the blocks of the active chain, of
\* all of them and of no other, as long as the miner tests no template and the
\* coins are never behind the receipts.
ReceiptsAreOfChain ==
  Free /\ FirstWasFine /\ spent["template"] = 0 /\ spent["crash"] = 0 =>
    /\ \A b \in Chain[tip] : \A t \in ToSet(Contracts[b]) :
         db[t] = b /\ cache[t] \in {None, b}
    /\ \A t \in Tx \ ToSet(RootAfter[tip]) : db[t] = None /\ cache[t] = None
    /\ index = UNION {Indexed(b) : b \in Chain[tip]}

\* No receipt of the active chain is lost, although DisconnectBlock deletes
\* receipts before the coins reach the disk.
ReceiptsSurvive ==
  Free => \A b \in Chain[tip] : \A t \in ToSet(Contracts[b]) :
            db[t] # None /\ <<Height(b), t>> \in index

===============================================================================
