------------------------------- MODULE Mempool -------------------------------
(***************************************************************************)
(* The memory pool and the orphan transactions beside the block chain:     *)
(* CTxMemPool, AcceptToMemoryPool, the tx message with its resolution of   *)
(* orphans, sendrawtransaction, and what ConnectTip and DisconnectTip do   *)
(* to the pool.  All of it runs under cs_main, each handler as one action. *)
(* Between two of them the chain may stand anywhere: invalidateblock and   *)
(* ReprocessBlocks give cs_main up after they disconnected blocks.         *)
(*                                                                         *)
(* Genesis stands for the chain below the blocks of the model.             *)
(* A transaction is known by its inputs and outputs, an output is a pair   *)
(* of its transaction and a number.  Fees, sizes and standard forms are a  *)
(* refusal that may or may not come.  Zerocoin spends are left out.        *)
(***************************************************************************)
EXTENDS Naturals, SequencesExt

CONSTANTS
  Blocks, Genesis, Parent,
  Chain,        \* Chain[b]: the blocks from the genesis block to b
  Tx,
  Special,      \* coinbase and coinstake transactions
  Inputs, Outputs,
  Contents,     \* Contents[b]: the transactions of b, in order
  Order,        \* the transactions by their hash, the order of std::map
  Maturity,     \* COINBASE_MATURITY
  Peers,
  MaxOrphans,   \* -maxorphantx
  Limit         \* how often each rare event happens

Rare == {"refused", "cleared"}

Maker(o) == o[1]
Height(b) == Len(Chain[b]) - 1
TxsOf == [b \in Blocks |-> UNION {ToSet(Contents[c]) : c \in ToSet(Chain[b])}]
Spends(S) == UNION {Inputs[t] : t \in S}
Creates(S) == UNION {Outputs[t] : t \in S}
Unspent == [b \in Blocks |-> Creates(TxsOf[b]) \ Spends(TxsOf[b])]
HeightIn(b, t) ==
  Height(CHOOSE c \in ToSet(Chain[b]) : t \in ToSet(Contents[c]))

\* The blocks are a tree over the genesis block, and valid: no transaction comes
\* twice, and inputs are there when they are spent, and only once.
MempoolAssumption ==
  /\ Genesis \in Blocks /\ Parent \in [Blocks \ {Genesis} -> Blocks]
  /\ Chain \in [Blocks -> Seq(Blocks)] /\ Chain[Genesis] = <<Genesis>>
  /\ Contents \in [Blocks -> Seq(Tx)]
  /\ \A b \in Blocks \ {Genesis} :
       /\ Chain[b] = Append(Chain[Parent[b]], b)
       /\ ToSet(Contents[b]) \cap TxsOf[Parent[b]] = {}
       /\ \A i \in DOMAIN Contents[b] :
            Inputs[Contents[b][i]] \subseteq
              Unspent[Parent[b]] \cup Creates({Contents[b][j] : j \in 1 .. i - 1})
       /\ \A i, j \in DOMAIN Contents[b] : i # j =>
            /\ Contents[b][i] # Contents[b][j]
            /\ Inputs[Contents[b][i]] \cap Inputs[Contents[b][j]] = {}
  /\ Spends(ToSet(Contents[Genesis])) \subseteq Creates(ToSet(Contents[Genesis]))
  /\ Inputs \in [Tx -> SUBSET Creates(Tx)]
  /\ \A t \in Tx : \A o \in Outputs[t] : Maker(o) = t
  /\ \A t \in Tx \ (Special \cup ToSet(Contents[Genesis])) : Inputs[t] # {}
  /\ Order \in Seq(Tx) /\ ToSet(Order) = Tx
  /\ Maturity \in Nat \ {0} /\ MaxOrphans \in Nat /\ Limit \in [Rare -> Nat]
ASSUME MempoolAssumption

VARIABLES
  tip,         \* chainActive.Tip(), whose coins are in pcoinsTip
  pool,        \* mapTx and mapNextTx
  orphans,     \* mapOrphanTransactions: the peer an orphan is from
  byPrev,      \* mapOrphanTransactionsByPrev
  unresolved,  \* history: transactions that came without a look at the orphans
  spent

vars == <<tip, pool, orphans, byPrev, unresolved, spent>>

Init ==
  /\ tip = Genesis
  /\ pool = [mapTx |-> {}, mapNextTx |-> <<>>]
  /\ orphans = <<>> /\ byPrev = <<>>
  /\ unresolved = {}
  /\ spent = [e \in Rare |-> 0]

Spend(e) == spent[e] < Limit[e] /\ spent' = [spent EXCEPT ![e] = @ + 1]

\* What a policy refuses during one action: nothing, or one transaction.
Refusing(R) ==
  \/ R = {} /\ UNCHANGED spent
  \/ \E t \in Tx \ Special : R = {t} /\ Spend("refused")

-------------------------------------------------------------------------------
(* CTxMemPool. *)

Without(f, S) == [x \in DOMAIN f \ S |-> f[x]]

addUnchecked(p, t) ==
  [mapTx |-> p.mapTx \cup {t},
   mapNextTx |-> [o \in DOMAIN p.mapNextTx \cup Inputs[t] |->
                    IF o \in Inputs[t] THEN t ELSE p.mapNextTx[o]]]

Children(p, S) == {p.mapNextTx[o] : o \in Creates(S) \cap DOMAIN p.mapNextTx}

WithDescendants(p, S) ==
  LET reached[n \in 0 .. Cardinality(p.mapTx)] ==
        IF n = 0 THEN S
        ELSE LET R == reached[n - 1] IN R \cup Children(p, R)
  IN  reached[Cardinality(p.mapTx)]

\* Faulty variant: the inputs of a removed transaction stay in mapNextTx.
ErasedFromMap(p, S) == [p EXCEPT !.mapTx = @ \ S]

Erased(p, S) ==
  [mapTx |-> p.mapTx \ S,
   mapNextTx |-> Without(p.mapNextTx, Spends(S \cap p.mapTx))]

remove(p, S, recursive) == Erased(p, IF recursive THEN WithDescendants(p, S) ELSE S)

removeConflicts(p, t) ==
  remove(p, {p.mapNextTx[o] : o \in Inputs[t] \cap DOMAIN p.mapNextTx} \ {t}, TRUE)

\* Faulty variant: a confirmed transaction takes its children with it.
removeForBlockRecursively(p, txs) ==
  FoldLeft(LAMBDA q, t : removeConflicts(remove(q, {t}, TRUE), t), p, txs)

removeForBlock(p, txs) ==
  FoldLeft(LAMBDA q, t : removeConflicts(remove(q, {t}, FALSE), t), p, txs)

\* CCoinsViewMemPool::HaveCoins over the coins of b.
HaveCoins(p, b, t) == t \in p.mapTx \/ Outputs[t] \cap Unspent[b] # {}

Mature(b, o) ==
  Maker(o) \in Special => Height(b) + 1 >= HeightIn(b, Maker(o)) + Maturity

\* Faulty variant: a coinbase that is immature again is overlooked.
removeMissingSpends(p, b) ==
  remove(p, {t \in p.mapTx : \E o \in Inputs[t] : ~HaveCoins(p, b, Maker(o))}, TRUE)

removeCoinbaseSpends(p, b) ==
  remove(p, {t \in p.mapTx : \E o \in Inputs[t] :
               /\ Maker(o) \notin p.mapTx
               /\ ~HaveCoins(p, b, Maker(o)) \/ ~Mature(b, o)}, TRUE)

-------------------------------------------------------------------------------
(* AcceptToMemoryPool for the coins of b. *)

\* The checks before those of the inputs.
MayEnter(p, b, t) ==
  /\ Inputs[t] # {} /\ t \notin Special
  /\ t \notin p.mapTx
  /\ Inputs[t] \cap DOMAIN p.mapNextTx = {}
  /\ ~HaveCoins(p, b, t)

\* pfMissingInputs.
MissingInputs(p, b, t) ==
  MayEnter(p, b, t) /\ \E o \in Inputs[t] : ~HaveCoins(p, b, Maker(o))

Accepts(p, b, t) ==
  /\ MayEnter(p, b, t)
  /\ \A o \in Inputs[t] : Maker(o) \in p.mapTx \/ (o \in Unspent[b] /\ Mature(b, o))

-------------------------------------------------------------------------------
(* The orphan transactions. *)

Prevs(t) == {Maker(o) : o \in Inputs[t]}
WaitingFor(t) == IF t \in DOMAIN byPrev THEN byPrev[t] ELSE {}

\* byPrev after the orphans S are gone.
Unlisted(S) ==
  LET rest(t) == byPrev[t] \ S
  IN  [t \in {u \in DOMAIN byPrev : rest(u) # {}} |-> rest(t)]

EraseOrphans(S) ==
  /\ orphans' = Without(orphans, S)
  /\ byPrev' = Unlisted(S)

\* AddOrphanTx, and LimitOrphanTxSize, which evicts a random one.
AddOrphanTx(t, peer) ==
  IF t \in DOMAIN orphans THEN UNCHANGED <<orphans, byPrev>>
  ELSE LET grown == [o \in DOMAIN orphans \cup {t} |-> IF o = t THEN peer ELSE orphans[o]]
           listed == [u \in DOMAIN byPrev \cup Prevs(t) |->
                        WaitingFor(u) \cup (IF u \in Prevs(t) THEN {t} ELSE {})]
       IN  IF Cardinality(DOMAIN grown) <= MaxOrphans
           THEN orphans' = grown /\ byPrev' = listed
           ELSE \E victim \in DOMAIN grown :
                  /\ orphans' = Without(grown, {victim})
                  /\ byPrev' = LET rest(u) == listed[u] \ {victim}
                               IN  [u \in {v \in DOMAIN listed : rest(v) # {}} |-> rest(u)]

\* One orphan: accepted, left because inputs are missing, or given up, and then
\* a peer that sent an invalid one is not listened to any more.
TryOrphan(w, o) ==
  IF orphans[o] \in w.misbehaving THEN w
  ELSE IF Accepts(w.pool, tip, o) /\ o \notin w.refused
  THEN [w EXCEPT !.pool = addUnchecked(@, o), !.queue = Append(@, o), !.erase = @ \cup {o}]
  ELSE IF MissingInputs(w.pool, tip, o) THEN w
  ELSE [w EXCEPT !.erase = @ \cup {o},
                 !.misbehaving = @ \cup (IF o \in w.refused /\ w.punish THEN {orphans[o]} ELSE {})]

\* All that wait for a transaction of the work queue, in the order of the map.
TryWaiting(w, t) ==
  FoldLeft(LAMBDA v, o : IF o \in WaitingFor(t) THEN TryOrphan(v, o) ELSE v, w, Order)

\* Faulty variant: orphans of the accepted orphans are not tried.
ResolvedOnce(w) == TryWaiting(w, w.queue[1])

\* The work queue, which grows with the orphans that are accepted.
Resolved(w) ==
  FoldLeft(LAMBDA v, i : IF i > Len(v.queue) THEN v ELSE TryWaiting(v, v.queue[i]),
           w, [i \in 1 .. Cardinality(DOMAIN orphans) + 1 |-> i])

-------------------------------------------------------------------------------
(* Actions. *)

\* The tx message.
AcceptTx(t) ==
  /\ Accepts(pool, tip, t)
  /\ \E R \in SUBSET Tx, punish \in BOOLEAN :
       /\ Refusing(R) /\ t \notin R
       /\ LET w == Resolved([pool |-> addUnchecked(pool, t), queue |-> <<t>>, erase |-> {},
                             refused |-> R, punish |-> punish, misbehaving |-> {}])
          IN  /\ pool' = w.pool
              /\ EraseOrphans(w.erase)
              /\ unresolved' = IF w.misbehaving = {} THEN unresolved
                               ELSE unresolved \cup ToSet(w.queue)
  /\ UNCHANGED tip

KeepOrphan(t, peer) ==
  /\ MissingInputs(pool, tip, t)
  /\ AddOrphanTx(t, peer)
  /\ UNCHANGED <<tip, pool, unresolved, spent>>

\* sendrawtransaction, the wallet, and the ix message, which know no orphans.
Submit(t) ==
  /\ Accepts(pool, tip, t)
  /\ pool' = addUnchecked(pool, t)
  /\ unresolved' = unresolved \cup {t}
  /\ UNCHANGED <<tip, orphans, byPrev, spent>>

\* EraseOrphansFor, when a peer is gone.
ForgetPeer(peer) ==
  /\ \E o \in DOMAIN orphans : orphans[o] = peer
  /\ EraseOrphans({o \in DOMAIN orphans : orphans[o] = peer})
  /\ UNCHANGED <<tip, pool, unresolved, spent>>

ConnectTip(b) ==
  /\ b # Genesis /\ Parent[b] = tip
  /\ pool' = removeForBlock(pool, Contents[b])
  /\ tip' = b
  /\ unresolved' = unresolved \cup ToSet(Contents[b])
  /\ UNCHANGED <<orphans, byPrev, spent>>

\* A transaction of the disconnected block comes back, or its descendants go.
Resurrected(p, b, t, R) ==
  IF Accepts(p, b, t) /\ t \notin R THEN addUnchecked(p, t) ELSE remove(p, {t}, TRUE)

AllResurrected(p, b, txs, R) == FoldLeft(LAMBDA q, t : Resurrected(q, b, t, R), p, txs)

DisconnectTip ==
  /\ tip # Genesis
  /\ LET below == Parent[tip]
         txs == Contents[tip]
     IN  /\ \E R \in SUBSET Tx :
              /\ Refusing(R)
              /\ pool' = removeCoinbaseSpends(AllResurrected(pool, below, txs, R), below)
         /\ tip' = below
         /\ unresolved' = unresolved \cup ToSet(txs) \cup UNION {Prevs(t) : t \in ToSet(txs)}
  /\ UNCHANGED <<orphans, byPrev>>

\* CreateNewBlock, when TestBlockValidity refuses its block.
ClearPool ==
  /\ pool.mapTx # {}
  /\ Spend("cleared")
  /\ pool' = [mapTx |-> {}, mapNextTx |-> <<>>]
  /\ UNCHANGED <<tip, orphans, byPrev, unresolved>>

Next ==
  \/ \E t \in Tx : AcceptTx(t)
  \/ \E t \in Tx, peer \in Peers : KeepOrphan(t, peer)
  \/ \E t \in Tx : Submit(t)
  \/ \E peer \in Peers : ForgetPeer(peer)
  \/ \E b \in Blocks : ConnectTip(b)
  \/ DisconnectTip
  \/ ClearPool

Spec == Init /\ [][Next]_vars

-------------------------------------------------------------------------------
(* Properties. *)

\* CTxMemPool::check: whenever cs_main is free, every transaction of the pool
\* spends mature outputs of the active chain or outputs of the pool, nothing
\* spends an output twice, and nothing confirmed is left, whatever
\* reorganizations, refusals and conflicts came before.
PoolIsSpendable ==
  \A t \in pool.mapTx :
    /\ t \notin TxsOf[tip]
    /\ \A o \in Inputs[t] : Maker(o) \in pool.mapTx \/ (o \in Unspent[tip] /\ Mature(tip, o))
    /\ \A u \in pool.mapTx \ {t} : Inputs[t] \cap Inputs[u] = {}

\* Both indexes are exact: mapNextTx knows the spender of each input of the pool
\* and of no other, as conflicts and descendants are found through it alone, and
\* the orphans are listed under the transactions they spend.
IndexesAreExact ==
  /\ pool.mapNextTx = [o \in Spends(pool.mapTx) |-> CHOOSE t \in pool.mapTx : o \in Inputs[t]]
  /\ byPrev = [u \in UNION {Prevs(o) : o \in DOMAIN orphans} |->
                 {o \in DOMAIN orphans : u \in Prevs(o)}]

\* An orphan never waits for transactions that all came in tx messages: when
\* the last of them does, it is accepted or given up, through any number of other
\* orphans in between and in every order of arrival.
OrphansWait ==
  \A o \in DOMAIN orphans : \E u \in Prevs(o) : u \in unresolved \/ ~HaveCoins(pool, tip, u)

Kept == pool.mapTx \cup (TxsOf[tip] \ Special)

Lineage ==
  LET up[n \in 0 .. Cardinality(Tx)] ==
        IF n = 0 THEN [t \in Tx |-> {t}]
        ELSE LET near == up[n - 1] IN [t \in Tx |-> near[t] \cup UNION {Prevs(a) : a \in near[t]}]
  IN  up[Cardinality(Tx)]

\* What cannot follow the chain to b: a double spend, or a spend of a coinbase
\* that is not there or not mature.
Doomed(a, b) ==
  \/ \E c \in TxsOf[b] \ {a} : Inputs[c] \cap Inputs[a] # {}
  \/ \E o \in Inputs[a] : Maker(o) \in Special /\ (Maker(o) \notin TxsOf[b] \/ ~Mature(b, o))

\* No step loses a transaction of the pool or of a block without a cause in its
\* own ancestry, unless a policy refuses one or the pool is cleared.
LostForCause ==
  [][spent' = spent =>
       \A t \in Kept : t \in Kept' \/ \E a \in Lineage[t] : Doomed(a, tip')]_vars
===============================================================================
