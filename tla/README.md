# A verification of the EULO node

EULO is a node of a Bitcoin-derived coin (by way of Dash and PIVX) with proof of
stake, masternodes, SwiftX transaction locks and an Ethereum virtual machine
whose state is committed to in the blocks. This directory holds TLA+ models of
the parts of `src/src` in which the order of events matters, the TLC runs that
check them on small instances, and proofs that TLAPS checks for every value of
the constants. Paths below are relative to `src/src`.

Contents: [1 inventory](#1-inventory) · [2 modules](#2-modules-and-how-they-correspond-to-the-code) ·
[3 runs](#3-runs-bounds-and-what-they-show) · [4 disagreements](#4-where-the-code-disagrees-with-what-it-says) ·
[5 fairness](#5-fairness) · [6 proofs](#6-what-is-proved) ·
[7 not modelled](#7-what-is-not-modelled) · [8 plan](#8-plan)

To repeat a run: `tlc -config MCCoinsCache.cfg MCCoinsCache.tla`; a proof: `tlapm CoinsCacheProofs.tla`.

## 1 Inventory

| Part | State | Operations | Hard because | Correct when |
| --- | --- | --- | --- | --- |
| Coin views (`coins.cpp`, `txdb.cpp`) | a cache per block over `pcoinsTip` over the chainstate database; DIRTY and FRESH per entry; a best block per level | fetch, modify, `BatchWrite`, `Flush`, connect, disconnect | flags speak about a level below that changes; flush and crash at any time; half-done blocks are thrown away | the stack is one ledger; what is on disk is the coins of one block |
| Script-check queue (`checkqueue.h`) | a queue, four counters, two condition variables, a batch per thread | `Add`, `Wait`, `Loop` | threads; early returns; spurious wake-ups; interruption | the verdict is that of all checks; no check outlives its block; `Wait` returns |
| Block index and best chain (`main.cpp`) | `mapBlockIndex` with flags, `setBlockIndexCandidates`, `mapBlocksUnlinked`, `chainActive` | `ProcessNewBlock`, `ActivateBestChain`, `InvalidateBlock`, `ReconsiderBlock`, `ReprocessBlocks` | `cs_main` is given up between steps; blocks come in any order; a reorganization fails half-way; blocks that connected are refused later | the best valid chain is active; candidates are complete and good; flags have a cause |
| The same on disk (`FlushStateToDisk`, `LoadBlockIndexDB`) | block index database, chainstate, `setDirtyBlockIndex` | flush, write-through of `ConnectBlock`, shutdown, crash, start | entries are written one by one before the coins | a start after any crash leads to the same guarantees |
| SwiftX (`swifttx.cpp`) | requests, refused requests, votes, locks, locked inputs | `ix`, `txlvote`, `sendrawtransaction`, expiry, `ReprocessBlocks` | votes precede requests; conflicting requests; a refused request that wins; expiry | inputs are locked by consensus and for one transaction; votes count once; locks end |
| Masternode synchronization (`masternode-sync.cpp`) | stage, attempts, times, flags of each peer | `Process`, `Reset`, `Added...` | timeouts, retries, locks that are only tried, peers that leave, an hour of sleep | every stage ends; synchronized means the data came; failures are retried |
| Contract state (`contract_api`, `main.cpp`, `miner.cpp`) | roots of `globalState`, receipts in memory and in `resultsDB`, height index | `GetState`, `UpdateState`, `commitResults`, `deleteResults`, `ClearCacheResult` around `ConnectBlock`, `ContractInit` | global roots must follow the tip through refused, tested and disconnected blocks; three databases without a common transaction | the roots are those the tip's block records; receipts are those of the active chain |
| Block files, undo data, startup replay (`main.cpp`) | file positions, file information, rev files, shutdown flag | `FindBlockPos`, `FindUndoPos`, `FlushStateToDisk`, the replay in `LoadBlockIndexDB`, `VerifyDB` | crashes between two files, and between an entry and its file information | what was written is read back; the coins after a replay are those of their block |
| Memory pool (`txmempool.cpp`, `main.cpp`) | `mapTx`, `mapNextTx`, orphans by transaction and by what they wait for | accept, `remove`, `removeForBlock`, resurrect, resolve orphans | reorganizations, orphans in chains, conflicts | everything can be spent in the next block; indexes are exact; nothing waits or is lost without cause |
| Masternode payments (`masternode-payments.cpp`) | votes, tallies per height and payee, `mapMasternodesLastVote`, `mnpayments.dat` | `mnw` message, own vote, `CleanPaymentList`, dump and load | a vote is stored and counted in two critical sections of three threads; restarts forget who voted | tallies are the votes; one required payee per height |
| Block download (`main.cpp`, `net.cpp`) | requests in flight, inventories | `getblocks`, `inv`, `getdata` | lost and late answers | every block is eventually asked for |
| Masternode list, budget, sporks | seen maps, votes, sync maps | broadcasts, pings, votes, expiry | gossip in any order, duplicates, restarts | votes count once |
| Validation, scripts, stakes, zerocoin, wallet, RPC, GUI, vendored libraries | | | data, not control | |

How the parts interact:

* `ConnectTip` and `DisconnectTip` run a per-block coin view over `pcoinsTip`,
  call `ConnectBlock`, which drives the script-check queue, flush the view, and
  move `chainActive`. `FlushStateToDisk` writes index and coins.
* `ActivateBestChain` chooses by the block index; the message handler, the RPC
  server and the start of the node call it.
* The SwiftX handlers call `AcceptToMemoryPool` and `ReprocessBlocks`; the pool
  and `CheckBlock` read `mapLockedInputs`. That is why a block that connected
  once may be refused later.
* `ConnectBlock` executes contract transactions, which move the roots of
  `globalState`; `ConnectTip`, `DisconnectTip`, the miner and the start of the node save
  and set them back.
* `DisconnectTip` offers the transactions of its block to the pool again, and
  `ConnectTip` takes confirmed and conflicting ones out.
* `masternodeSync` decides whether payments, budgets and locks are looked at, and
  is driven by the obfuscation thread, the message handler and RPC.

The hazards of this code, each at its line with the properties that would catch
it, are in `PROJECT.json`.

## 2 Modules and how they correspond to the code

```
UtxoLedger          what the coin views promise        <- implemented by CoinsCache
CoinsCache          coins.cpp, txdb.cpp                <- CoinsCacheProofs
CheckQueue          checkqueue.h                       <- CheckQueueProofs
ChainState          main.cpp, spork.cpp, RPC           <- ChainStateProofs
ChainRestart        ChainState with FlushStateToDisk, crash, LoadBlockIndexDB
                                                       <- ChainStateProofs
BlockStore          block and undo files, replay, VerifyDB
                                                       <- BlockStoreProofs
ContractState       contract_api around ConnectBlock   <- ContractStateProofs
Mempool             txmempool.cpp, orphan transactions <- MempoolProofs
SwiftTX             swifttx.cpp                        <- SwiftTXProofs
MasternodeSync      masternode-sync.cpp                <- MasternodeProofs
MasternodePayments  masternode-payments.cpp            <- MasternodeProofs
MC...               instances of each for TLC
```

A comment `Faulty variant` marks a definition that is not part of a model: it is a
bug that could be in the code, used to show that a property notices it.

### CoinsCache, UtxoLedger

A transaction's coins are the set of its unspent outputs. `tip` and `view` are the
`cacheCoins` of `pcoinsTip` and of the per-block view, each slot an entry with
DIRTY and FRESH or absent; `db` is the database; `dbBest`, `tipBest`, `viewBest`
are the three best blocks. `Fetched`, `Modified` and `Merged` are `FetchCoins`,
`ModifyCoins` and `BatchWrite`. One action per operation: `FetchTip`, `FetchView`,
`BeginConnect`, `BeginDisconnect`, `ModifyView`, `FinishConnect`,
`FinishDisconnect`, `AbandonView` (a block that was refused), `FlushTip` (one
LevelDB batch), `Crash`. History variables record the coins after each block.

`UtxoLedger` has the coins of the active chain and a durable copy that is saved or
fallen back to; the view is invisible in it. `ImplementsLedger` maps the stack on
it.

`DisconnectBlock` is assumed to restore the coins of the previous block when it
returns true. `BlockStore` models which undo data is there, not what it says.

### CheckQueue

Each action is one critical section of the queue's mutex: `Start`, `Finish` (fold
the result of a batch back), `Take`, `Return`, `Sleep`, `Wake`; `Add`, `Construct`
and the calls of `Wait` by the master, by the destructor too when `ConnectBlock`
returns early; wake-ups without a notification, and the interruption of all threads
at shutdown, where `wait` throws. A check is the Boolean it will return. `fQuit` is
never set by the code.

### ChainState, ChainRestart

Two threads call `ActivateBestChain`: `Net` and `Rpc`. `cs_main` is held at the
program counters in `Locked` and is free between two turns of the loop; a thread
in the loop polls it. `failed`, `data`, `linked` and `seq` are `nStatus`,
`BLOCK_HAVE_DATA`, `nChainTx # 0` and `nSequenceId`; the active chain is its tip.
`FindMostWorkChain`, `Connect`, `ConnectInvalid`, `DisconnectForReorg`,
`StepFails` and `CheckLoop` make up a turn, with one action per block connected or
disconnected so that a crash can fall in between. `BeginInvalidate` ...
`EndInvalidate` are `InvalidateBlock`; `ReconsiderBlock` and the three actions of
`ReprocessBlocks` follow. Whether a block connects is chosen at each attempt.
That a block which connected is refused later is a rare event of its own, since it
needs a transaction lock or a masternode vote to change.

`ChainRestart` conjoins each action with what it does to `setDirtyBlockIndex` and
the disk: `WriteThrough` of `ConnectBlock`, `FlushStateToDisk` at the four places it
is called, and `Crash`, which may cut a flush off after any number of entries (the
set is ordered by address) and before the coins. `Load` is `LoadBlockIndexDB`.

Left out: the branch of `AcceptBlock` that reconsiders a checkpoint block,
`CorruptionPossible`, `pindexBestInvalid` and the fork warnings (never read by the
modelled code), a failing `DisconnectTip` (the node aborts), the `headers` message,
which `chainparams.cpp:181` turns off for every network. `EndReprocess` needs
`Depth` blocks above the genesis block and is atomic on disk. A start after a crash
is one with `-forcestart`; the replay that is the default is in `BlockStore`, over an
abstract chain selection.

### BlockStore

`index`, `info`, `last`, `dirtyFiles`, `dirty` and `coins` are the node's memory, `disk`
is everything that survives it: the block and undo files by position, and what the two
databases hold. `Receive` is `FindBlockPos` and the write of `AcceptBlock`, `Connect` the
undo part of `ConnectBlock` with the entry it writes on its own, `Disconnect` and
`Flush` the two kinds of `FlushStateToDisk`. `CutOff` is the set of disks a flush leaves
when it is cut off: file information, the number of the last file, entries by address, then the coins.
`Load` is a start: what `LoadBlockIndexDB` replays (`LastMeta`, `FirstAbove`, `Replay`
follow its search through `vSortedByHeight`, the out-of-bounds increment included), or
the start an operator forces, and then `VerifyDB`. Where a replayed block spends coins that are
not there, the assertion of `UpdateCoins` may stop the node. Blocks have unit size,
`-checkblocks` covers the chain, and a
crash is one of the process, so that a completed write stays.

`Address` is the order of the entries in memory, which is that of the heap: usually that of
the tree, but a child may come before its parent. A flush that is cut off then stores the
child alone, and the next start makes up an empty entry for the parent (`InsertBlockIndex`,
`main.cpp:5613`). Such a start is `orphaned` in `starts`, and the last step of its behaviour.

A start may find an entry beyond the end of its file as the index knows it, because
`ConnectBlock` writes the entry at once (`main.cpp:3788`) and the file information only
goes with the next flush. Such places are `exposed`: the node gives them out again and
writes over them.

### ContractState

A root is the sequence of contract transactions executed since the default root, so
equal roots mean equal histories. `Chain` and `RootAfter` are given with the tree, as data
with their defining equations (`TreeAssumption`, `RootAssumption`), so that proofs can use
them; `ContractAssumption` is what `ConnectBlock` refuses a block for. `busy` is what the thread under `cs_main` is doing:
`BeginConnect`, one `ContractTxConnectBlock` per transaction, and `AcceptBlock` or
`RefuseBlock`; `DisconnectBlock` and `EndDisconnect`. `miner` is `CreateNewBlock`, which
reads the roots before it takes `cs_main` and ends with `TestBlockValidity`; only its
coinstake form is modelled. `Crash` and `Stop` end in a start: `ContractInit` and the
re-execution of `VerifyDB`. `Active` is the condition under which the interface does
anything at all: the tip is of the contract version. `Recorded` is what the block at
`Contract_StartHeight` and later ones say of the roots, as `CreateNewBlock` makes them.
`SetTemporaryState` has no effect in the code and none here.

### Mempool

`pool` holds `mapTx` and `mapNextTx`; `orphans` and `byPrev` are the two orphan maps.
Each handler is one action under `cs_main`: `AcceptTx` with the work queue of orphans
(`Resolved`), `KeepOrphan` with eviction at random, `Submit` (`sendrawtransaction`,
wallet, `ix`), `ForgetPeer`, `ConnectTip`, `DisconnectTip`, and `ClearPool`
(`CreateNewBlock` after a refused template). A policy (fees, standard forms) is a
refusal that may come. Orphans are looked at only when a parent comes in a `tx`
message; a parent that comes in a block or by RPC leaves them waiting, and the history
`unresolved` records it. Zerocoin spends, fees, priorities and sizes are left out.
`Order` is the transactions in the order of their hashes, in which the maps are walked.
`MempoolAssumption` says that the blocks are a tree of valid blocks, as `ConnectBlock`
accepts no other: no transaction comes twice, each input is there when it is spent and is
spent once, and only the coinbase and those of the genesis block may have no inputs.

### MasternodePayments

`votes`, `blocks` and `lastVote` are `mapMasternodePayeeVotes`, the tallies of
`mapMasternodeBlocks` and `mapMasternodesLastVote`. `ReceiveVote` and `OwnVote` are the
first critical section of `AddWinningMasternode`, `CountVote` the second, for a thread
each; `SpendVote` is a vote whose signature fails, which is noted all the same.
`CleanPaymentList`, `Restart`, `Crash` and `CrashInDump` complete it: a file that
cannot be read is left for the user to repair ("please fix it manually", `masternode-payments.cpp:166`) and is never written again. This node's vote for a height
without a payee is stored as an empty vote for height 0. `Masternode` is the list, and
any of it may vote for any height: `IsValid` refuses a rank beyond ten, but takes the rank
-1 that `GetMasternodeRank` gives to one that is not enabled or too young
(`masternodeman.cpp:611`), and ranks are those of the list at the moment. Whether a vote is
known, ranked and signed right is an input. `MoveTip` has one bound that is not only one of
size: while a vote is stored and not yet counted, the chain does not outgrow it. That takes
`Keep - Back` blocks, hundreds on a small list but none when 800 or more masternodes are all
enabled, so that a vote in flight which is itself removed is outside the model.

### SwiftTX

The five maps of `swifttx.cpp`, the pool and the confirmed transactions. Each
handler is one action: `AcceptRequest` and `RejectRequest` (`ix`), `SendRequest`
(`sendrawtransaction`, which asks only the pool and the chain, so that a request that was
refused before can be sent), `CountVote` and `DropVote` (`txlvote`), `Clean`
(`CleanTransactionLocksList`), `Confirm` (a block, checked by `CheckBlock`).
`mapTxLockReq[...]` inserts an empty request when there is none, and so does the
model. A vote has the right height or another one. `unresolved` is a history of the locks
that the sender completed, when votes had come before under an unknown height: conflicts
are resolved only as the next vote is counted. Heights do not change, SPORK_2
and SPORK_3 are active, the request is well-formed, relaying and the accounting of
unknown votes are left out, and the last 16 blocks are all there are.

### MasternodeSync

A behaviour is in one of `Networks`, which says who the peers are and what may happen.
`sync` holds the members of `masternodeSync`. Process runs every five seconds, and a
time is the number of turns since, up to what it is compared with. A turn asks one
peer: `AskSporks`, `AskFor` (list and winners), `AskBudget` return the next state of
the members and the peers. `AddedMasternodeList` and its two siblings are `AddedNew`, a hash
that is not in their map and always counts, as often as one comes, and `AddedAgain`, a hash
that was counted once (`open` says how many there are) and counts once more.
`SporkChanges` sets or unsets SPORK_8 at any moment, by a message, by RPC or because its
time came; `NoItem` reads it as it gives a stage up, and `skipped` is a history of the
stages that were left without an item because it was off. A node may start with a list from
its last run (`loaded`).
`Sleep` and `CatchUp` are `IsBlockchainSynced`, `ResetByUser` is the RPC. A peer's
version suffices for everything or for `getsporks` alone. Left out: REGTEST, the
`ssc` counters that only RPC shows, a `Reset` by RPC in the middle of a turn.

## 3 Runs, bounds and what they show

| Run | Instance | Shows |
| --- | --- | --- |
| `coins_cache` | 2 transactions of 2 outputs, 3 blocks | flags, assertion of `BatchWrite`, crash consistency, refinement of `UtxoLedger` |
| `check_queue` | 2 workers and the master, up to 4 checks a block, batches of 2 | verdict, counters, no check outlives its block, `Wait` returns |
| `chain` | branches a1 a2 and b1 b2 c2; an `invalidateblock` and a `reconsiderblock`, or a contextual refusal; or one `ReprocessBlocks` and a lost write | links in every order of arrival, candidates, flags, the best chain |
| `chain_faults` | a1 a2, b1 b2; a system error, a block refused later, `reconsiderblock` below a failed block, `ReprocessBlocks`; or `invalidateblock` beside `ReprocessBlocks` | what survives, and that `ActivateBestChain` ends |
| `chain_restart` | a1 a2, b1 b2; two crashes and a lost write, or a crash and one of a shutdown, a refusal, `invalidateblock`, `reconsiderblock`, `ReprocessBlocks`, a system error | coins never ahead of the index, the index as good as before, the best chain found again |
| `block_store` | g, a1, a2, a3 and the fork b1, the entry of a2 before that of a1 in memory, two blocks to a file; three blocks and two crashes, or four blocks, a crash and a shutdown | stored data stays readable unless exposed, the node starts again, the coins after a replay on one chain |
| `block_store_replay` | the same | ends in a violation, see section 4 |
| `swifttx` | two requests that share an input, three masternodes of which two decide (this node, which would store its own vote uncounted as `DropVote` does, is none of them), two ticks; with five votes known, or more than one that a living lock does not count, or more than two that none does, nothing further is explored | votes count once, locks stay, refused requests that win, also when their sender hands them in again |
| `sync` | six peers with lists and winners and a reset or the loss of all masternodes; or seven and an old one before them, with a list from the last run, of which one leaves and one joins, or a taken lock, an hour of sleep, or flags that were not cleared; in both, new items and changes of SPORK_8 without end | synchronized means that the data came, a stage ends unless new items of its kind come for ever, a failure is retried |
| `contracts` | first and second contract block, two branches with the same two transactions in different orders, two refused blocks; two templates, an overtaken one, two crashes and a shutdown; or a refused first contract block, a template and a crash | roots follow the tip, receipts are those of the chain and survive crashes |
| `mempool` | two branches over the genesis block, eight transactions with a conflict, a coinbase of maturity 2, a chain of three and orphans with two parents; two peers, two orphans, one refusal, one cleared pool | the pool is spendable, indexes exact, orphans resolved, losses have a cause |
| `payments` | this node and three masternodes, two payees, two votes required, two heights of the tip, a restart; at most four votes before it and two after, and after it at most two masternodes are heard of | tallies, single votes, one required payee |

Why the bounds are enough. The coin views relate one entry at three levels, so two
transactions cover a spend beside an untouched entry, and three blocks a
reorganization; the proofs remove these bounds. The queue splits at most four checks
among three threads, so that a batch is taken while another is out and a third
waits. A reorganization over two blocks, with a sibling, has every relation of a
block to a failed one: itself, above, below, beside. Rare events happen once per
kind (crashes twice, for a crash after a crash): `Budgets` is a set of vectors of
bounds, and a behaviour stays within one of them. Ordinary events are unbounded, but
for the number of votes in `payments` and of blocks in `block_store`, and one hash of each
kind that counts once more (`MaxOpen`) in `sync`; `RetryTurns` is 4 there and 13 in the code,
turns in which nothing happens but what may happen in any other. Two blocks to a
file make the third open a new one, with the old file cut off. The two orders of the same contract
transactions tell a receipt of one branch from that of the other. Four votes complete two locks. Three masternodes of which two
decide are the smallest body that one vote too many can divide; four with two votes required can require two
payees without a double vote, as the payments of a long list can. Two conflicting requests with one further input are the
smallest conflict in which one of them locks more than the other. Six peers are
asked before a stage times out; seven let one leave. Three entries in the wrong order of
addresses, a2 before a1, are enough for a cut-off flush to store a child alone.

`CHECK_DEADLOCK FALSE` stands where a node really has nothing to do any more: all
blocks arrived, the threads were interrupted, the clock is at its bound, or a start
failed (`contracts`, `block_store`).

Every property of a passing run is known to notice at least one fault of the code:
the mutants in `PROJECT.json` replace a definition by its faulty variant, and TLC
then finds the property violated.

## 4 Where the code disagrees with what it says

`block_store_replay` ends in a violation; `PROJECT.json` quotes the line it contradicts.
After an unclean shutdown `LoadBlockIndexDB` is to apply, from the block of the coins on,
"all transactions that occurred for each block up until the best known block from the block
index db" (`main.cpp:5743`). It takes the entries of `vSortedByHeight` one after another,
whatever branch they are on, so that a block and its sibling end in the same coins. When no
entry lies above the coins, its search leaves the pointer at the genesis block and the
position behind the last entry; it applies the genesis block, names it best, and `VerifyDB`
has nothing to verify. For that it suffices that a fork was received and the process dies
between the file information and the entries of the next flush: the information then
promises a height that the index need not have at that place. Hence `OneChain` asks for one
chain in the block files, and not only in the index.

The models contain more behaviours that contradict the code's own words. They
have no run; each is why a property is stated with the qualification it has:

* `ReconsiderBlock` below an invalid block (`main.cpp:4634`) leaves a sibling marked as the
  child of a block that is not invalid any more.
* A crash in the flush of `InvalidateBlock` may store the mark without the coins: the
  next start finds the tip failed and no candidate, and the assertion of
  `PruneBlockIndexCandidates` (`main.cpp:4440`) fails at each start.
* With fewer than six peers a stage without an answer never times out, as the test for the
  timeout follows the test for having asked (`masternode-sync.cpp:305`).
* A vote that completes the lock of a refused request makes an empty request of it
  (`swifttx.cpp:350`), so that a conflict with another complete lock is not found, which
  the comment at `swifttx.cpp:387` promises; `RejectedLockWins` speaks of the locks with inputs.
* A template whose maker read the roots before the chain moved sets the old roots back
  when it is refused, against "after the create new block,immediately recovery state"
  (`main.cpp:3968`); hence the event `overtaken`.
* The first contract block, refused after it executed a transaction, leaves the roots
  changed, as nothing is saved under a tip without contracts; hence `refusedFirst`.
* A template that passes `TestBlockValidity` leaves its receipts in memory, and as `insert`
  does not replace, a later block commits them with the wrong block hash; hence
  `template` in `ReceiptsAreOfChain`. After a crash, receipts of blocks above the coins
  stay in the database; hence `crash`.
* A node that stopped at the first contract block does not start: the block records
  zero, and `setRoot` throws.
* A replay that applies a block without undo data makes `VerifyDB` fail at each start
  ("Corrupted block database detected", `init.cpp:1465`); hence `replayed` in
  `StartsUnlessExposed`.
* `sendrawtransaction` with SwiftX hands in a request that `ix` refused (`rpcrawtransaction.cpp:731`).
  When its votes came before under an unknown height, this completes the lock, but no blocks
  are processed again, although "if this tx lock was rejected, we need to remove the
  conflicting blocks" (`swifttx.cpp:371`); hence `unresolved` in `RejectedLockWins`.
* A node that gave up the list or the winners while SPORK_8 was off is synchronized
  without them when it turns on (`masternode-sync.cpp:311`); the spork may be among those that
  its own first stage asked for. Hence `skipped` in `SyncedHasAssets`.
* New items, each a hash of its own, put off the end of their stage for as long as they come
  (`masternode-sync.cpp:94`); hence the second case of `SyncEnds`.
* "It's common to have masternodes mistakenly think they are in the top 10"
  (`masternode-payments.cpp:672`), but those with rank -1 pass, and ranks change: more than ten
  may vote for a height, and with twelve two payees may have six votes each. Hence the second case of
  `RequiredPayeeIsUnique`.
* `CanVote` remembers the last height of a masternode only, so that a vote for another
  height in between lets it vote twice (`masternode-payments.h:272`); hence `hopped`.
* `ReconsiderBlock` below an invalid block clears that block's flags without making it
  a candidate again (`main.cpp:6152`); hence the event `reconsiderBelow`.
* A failed reorganization whose old chain is refused on the way back, because a
  transaction lock or a vote came meanwhile, ends with a better block that is not a
  candidate (`main.cpp:4516`); hence the event `change`.
* Between two turns of `ActivateBestChain` the tip may not be a candidate, which
  another thread's `CheckBlockIndex` asserts (`main.cpp:6153`); hence `Idle` in
  `CandidatesAreComplete`.
* A crash in a flush may store a cleared parent without its cleared child
  (`main.cpp:6149`), or an entry without its parent (`main.cpp:6108`) where addresses
  are not in the order of the chain; hence `Orderly` in the properties of
  `ChainRestart`, of which `InTreeOrder` is the part about addresses, and `orphaned` in those of `BlockStore`. With addresses
  against the order, a crash in the middle of a refusal stores the flag of a child
  without that of the block that failed, and the start does not find the best chain.
* A refused request locks its inputs without any vote (`main.cpp:4955`), and they may
  stay locked for as long as the node runs (`swifttx.h:61`).
* A retry of the synchronization that could not clear the peers' flags asks nobody
  (`masternode-sync.cpp:249`); hence `uncleared` in `FlagsFollowStage`.

## 5 Fairness

Safety properties use none. `CheckQueue` assumes weak fairness of each thread: the
operating system runs a thread that can run. `ChainState` assumes it of
`ActivateBestChain` and `InvalidateBlock`, which run without waiting for anything but
`cs_main`, and never of the arrival of blocks, an operator or a fault.
`MasternodeSync` assumes that time passes and that the obfuscation thread, an endless
loop with a sleep of a second, calls `Process`; nothing is assumed of peers, sporks,
locks or the user. Of items `SyncEnds` has a condition, in the property: known ones may be
announced for ever, but a stage for whose kind new ones come without end need not end.

## 6 What is proved

`CoinsCacheProofs` proves, for any transactions, outputs and any bound on the number
of blocks (the only assumption is `MaxBlock \in Nat`):

| Theorem | Says |
| --- | --- |
| `TypeCorrect` | `Spec => []TypeOK` |
| `FreshCorrect` | a FRESH entry has no unspent output below it |
| `CleanCorrect` | an entry that is not DIRTY equals what is below it |
| `BatchWriteAssertion` | the assertion of `BatchWrite` never fails |
| `CrashConsistency` | the database holds the coins of the block it names |
| `Implements` | `CoinsCache` implements `UtxoLedger` |

None of the last five is inductive alone. FRESH speaks of the level below the entry,
and a flush of the view turns entries of the view into entries of `pcoinsTip`: to know
that a merged entry is rightly FRESH one needs that `pcoinsTip`'s entry was, that an
entry that is not DIRTY says what is below, and that an absent one hides nothing. Crash
consistency needs the link between `pcoinsTip` and the history of coins, which in
turn needs the flags to show that one batch turns the coins of one block into those of
another. The inductive invariant is therefore the conjunction of the type, both flag
invariants and the two links to the history; the lemmas say for `Fetched`,
`Modified` and `Merged` what they return and preserve, and each action's proof
cites them. The refinement follows from the same invariant, step by step.

`CheckQueueProofs`, for any finite set of worker threads, any batch size and any checks of
a block: `VerdictCorrect`, `NoCheckOutlives`, `TodoCorrect`, `ControlCorrect`,
`TypeCorrect`. The invariant counts: `nTotal` is the idle threads and the working ones, `nIdle` is at
least the sleeping ones (an interruption leaves both too high by the same number),
`nTodo` is what is queued and held. The verdict needs one more part, which relates two
threads' private results with the shared one: `fAllOk` together with the queue, the batches and
the results still to be folded back passes exactly when all checks that were added do.

`ChainStateProofs`, for any finite tree of blocks, any work and addresses, and any bounds on the rare
events: `LinkedCorrect`, `UnlinkedCorrect`, `CandidatesCorrect`, `ReorgCorrect`,
`ActiveChainCorrect`, `TypeCorrect`. That linking a block reaches exactly the blocks above it is an
induction over the tree, made from the principle that a non-empty set of blocks has
one of least height. The invariant joins: linked blocks are the complete ones and unlinked
ones the rest of the stored; candidates are linked and, at every moment and not only
between turns, not worse than the tip; the active chain is stored and clean; what a thread
in `InvalidateBlock`, or between two blocks of a reorganization, has set out to do still
fits the tip, since `cs_main` keeps others out.

The rest holds only while certain rare events have not happened, and the theorems say
which, for any number of the others. `FlagsCorrect`: a flag has a cause as long as
`reconsiderBelow` did not happen. `BestChainCorrect`, `CandidatesCompleteCorrect` and
`CandidatesRemain` (the assertion of `PruneBlockIndexCandidates`) ask for a node that is
`Calm`: no `reconsiderBelow`, no block refused after it had connected (`change`) and no system
error. Each of the three is needed; TLC finds a counterexample without it, and
section 4 tells what it is. The invariant behind them, `SearchInv`, says that nothing
`FindMostWorkChain` could choose is forgotten: every linked block without a flag is a
candidate, or `Covered` by a candidate that is at least as good and cannot be refused, as all its
blocks connected before and none has failed. The second case is that of a thread that has
disconnected its way to the fork, when the tip is worse than blocks that were removed
from the candidates long ago: the old tip still covers them. A target that a thread
walks to is the best of the clean linked blocks, and when neither thread has anything
left to do the tip is.

The second part of the module is about `ChainRestart` and carries this over shutdown, crash
and start, for any addresses and any bounds. Every step of `ChainRestart` is one of
`ChainState`, a shutdown or a crash (`RestartCases`), so that the invariants above need only
be shown of the two. `CoinsIndexed` and `IndexRestarts` hold without exception: `DiskFits`
says that the stored index holds nothing that the one in memory does not, and all of it but
for the dirty entries, and that the stored coins are at a block whose entry, with all its
ancestors, is stored; the start (`LoadStep`) rebuilds links, waiting blocks and candidates
from that. `IndexKept` and `BestChainFound` are for a calm node, under the condition
`Orderly` of the properties: that a crash in the middle of a flush loses no flag whose
consequences it keeps needs the order of the writes (`AddressOrder`), and that no flag was
cleared.

`BlockStoreProofs`, for any tree of blocks, any size of the files and any bounds on blocks,
stops and crashes: `BlocksAreKept`, `NodeStarts` and `OneChainCoins`. Of the constants it uses that the chain
of a block is finite, that `None` is no position, and that entries have distinct addresses, in
any order. A cut-off flush may then store an entry without that of its parent, for which
`InsertBlockIndex` makes up an empty one, without data and at height 0. What becomes of such a
node is left out, and its behaviours end with that start (`orphaned`): `BlocksAreKept` holds of
the disk it finds, too; the other two except it by name. The tree is no longer that of
the addresses: inductions are over the length of a chain (`TreeInduction`). What a flush leaves when it is cut
off is a `Saved` disk: some of the dirty file infos, and entries only when all infos are
there, in the order of their addresses. The invariant `StoreInv` relates memory and disk: an
entry on disk is the one in memory, or lacks its undo position (`Behind`); infos that are
not dirty agree (`Synced`); while the node is up, both indexes hold the parents of what they hold, and the one on
disk the tip, since `ConnectBlock` writes each entry before its child's (`Rooted`); what an
entry points at lies before the end of its file (`InUse`), on disk too for undo data
(`UndoCounted`), and undo data that the disk does not count are those of the active chain,
as `DisconnectTip` flushes (`NewUndoIsActive`). Each of these, and `OnlyExposedAreLost`
itself, makes an exception for `exposed` places where a start can break it. For
`NodeStarts`, `Ready` adds that the coins, in memory and on disk, are those of the block
they name, and that every block below it has its undo position in the index beside them,
because entries go to disk before the coins.

`OneChainCoins` is about a replay: with blocks of one chain alone, no start forced and no entry without its parent, the
coins are those of the block they name. What the disk can know of blocks (`Live`: the entries
and the blocks that a file info counts) only grows, so that one chain now means one chain
before (`LiveGrows`). File infos only grow too, and files are taken in order (`FileInv`); hence
the last file info that the disk has says a height, and the coins, and every block that has undo
data, are no higher (`OneDisk`, `OneMemory`, `Counts`). In memory the infos count every block
of the index. A start therefore replays nothing, or the blocks between the coins and one above
that height, whose missing undo data `VerifyDB` finds, so that this start fails. What a
replay applies is a segment of `vSortedByHeight`, and of one chain that holds each block at the
place of its height (`OneSorted`), so that the segment is the part of the chain above the coins
and no induction along it is needed.

`ContractStateProofs`, for any finite tree of blocks, any contracts in them and any bounds:
`RootsAreTips`, `ReceiptsRemain`, `ReceiptsMatchChain`, `TypeCorrect`. About the constants
it shows that the root of a block is that of an ancestor and what the blocks between
execute, that a transaction is in one block of a chain, and that `GetVMState`, where it has
nothing to give, stands for the default root; hence `VerifyDB`, wherever it stops, ends at
the root of the block it started from (`ExecutedAgain`). The invariants speak of `Standing`,
the block whose state the contract side has, which is the parent of the tip while
`DisconnectTip` is between its two halves, and of the transactions of a block that is being
connected. `ReceiptsRemain` needs no exclusion at all; the others have those of their
properties.

`SwiftTXProofs`, for any masternodes, requests, inputs and times: `VotesOnce`,
`RejectedWins`, `LocksStay`, `TypeCorrect`. A vote counts once because a living lock has
counted only votes that are noted as seen, and the expiry that forgets votes forgets the
lock with them. A refused request wins because a vote, or the refusal, that completes its lock either finds
an input taken or goes through `ReprocessBlocks`, and `Confirm` keeps conflicts out
from then on. A lock that `SendRequest` completes is in `unresolved` until a vote does the same for it.

`MasternodeProofs` has two parts. Of the payments, for any finite set of masternodes, payees and heights:
`TallyCorrect`, `SingleCorrect`, `UniqueCorrect`, `TypeCorrect`. Tallies follow from counting
votes that are stored but not in flight, in memory and in the file alike. Single votes need that
a vote which was neither noted as the last one nor overtaken cannot be stored again. That two
payees are both required only with a double vote, or with votes of twice as many masternodes as
are required, is the pigeon-hole principle over the voters of a height, proved
as a lemma on finite sets. Nothing is assumed of how many masternodes there are.

Of the synchronization, for any networks, with any number of peers that come and go:
`AssetsCorrect`, `FlagsCorrect`, `SyncTypeCorrect`. A turn of `Process` is reduced to
what it makes of the members and the flags (`TurnFits`); a stage then has what it needs, or
the history says that payments were not enforced as it was given up, and asked nobody for what
comes later.

`MempoolProofs`, for any tree of valid blocks, any transactions, peers and bounds:
`PoolAlwaysSpendable`, `IndexesAlwaysExact`, `OrphansAlwaysWait`, `LossHasCause`. The code goes
through the transactions of a block, the orphans and the work queue in loops, which are folds in the model. A
fold is reduced to the sequence of its results (`BlockRun`, `UndoRun`, `TryRun`, `LookRun`), and
an invariant of that sequence is shown by an induction over numbers, which is made from the
principle that a set of naturals has a least one. The searches for descendants and for
ancestors are bounded by the number of transactions; each round finds one or is the last, so
that they find all (`DescendantsAreAll`, `LineageIs`). The invariant `PoolInv` is the
three properties with `mapNextTx` exact (`IsPool`) in place of the definition by its content. The
pool stays spendable since a recursive removal leaves nothing that spends what went; while a
block is undone, transactions may also spend those of the block that are still to come
(`SpendableBut`), and what is left of that is what `removeCoinbaseSpends` takes away. Of the
orphans, `Waiting` says how far the work queue has got: whoever does not wait for something
unknown waits for a transaction further on. The queue holds one transaction more than there are
orphans, at most, so that its end is reached.

`LossHasCause` is the action property: a removal hands its cause down to the descendants
(`RemovedForCause`), a conflict is its own cause, and when a block is undone each of its
transactions comes back, or has a cause, in their order (`ComesBack`): what it spends
was there or is of an earlier one.

Only model-checked: the liveness properties `WaitReturns`, `ActivationEnds`, `SyncEnds` and
`FailureIsRetried`, as fairness and ENABLED are out of the prover's reach. Every other property of
a passing run is stated by a theorem. Where a theorem of `ChainState` or `ChainRestart` asks for
a calm node, the events that `Calm` excludes do not occur in the run, but for the system error of
`chain_restart`, after which its properties claim nothing.

## 7 What is not modelled

The components marked `not_modelled` in `PROJECT.json`, each with its reason: rules of
validation and cryptography are inputs of the models (a verdict), I/O and interfaces
have no order worth exploring beyond the calls that are actions already, vendored
libraries are trusted (a LevelDB batch is atomic). The data races of `swifttx.cpp` on
its maps (`obfuscation.cpp:2311` against the message handler) have no outcomes that
could be enumerated; handlers are atomic there. `GetMinGasPrice` and `GetBlockGasLimit`
execute contract code without `cs_main`, and are not modelled for the same reason. A loss of
power, `-reindex` and failing writes of block files are outside `BlockStore`.

## 8 Plan

What is left, in this order:

1. `MasternodeList` and `Budget`: broadcasts, pings and votes with duplicates, expiry and
   restarts; an abstract vote counter that budget and payments implement. `Spork`:
   acceptance by time, RPC and the spork database.
2. `BlockUndo`: `UpdateCoins` and `DisconnectBlock` as inverse functions, which discharges
   the assumption of `CoinsCache`.
3. `BlockDownload` with lost and late answers, and the headers without blocks that
   `ChainState` leaves.
4. Proofs about the new modules, and of the assumptions that one module makes about another:
   the tree of valid blocks of `Mempool` from `ConnectBlock`, the chain of `BlockStore` from
   `ChainState`.
