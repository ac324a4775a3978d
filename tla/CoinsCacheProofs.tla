--------------------------- MODULE CoinsCacheProofs ---------------------------
(***************************************************************************)
(* Proofs about CoinsCache for any set of transactions and outputs and any *)
(* number of blocks.  The argument is per slot: SlotOK relates one cache   *)
(* entry to the coins the view below shows for the same transaction, and   *)
(* each cache operation is a lemma about one slot.  The invariant then     *)
(* says that every slot of pcoinsTip is coherent with the database, every  *)
(* slot of the per-block view with pcoinsTip, and that the coins seen      *)
(* through pcoinsTip and in the database are those of their best blocks.   *)
(***************************************************************************)
EXTENDS CoinsCache, TLAPS

\* The coins a view shows when its slot is e and the view below shows below.
Shown(e, below) == IF e.in THEN e.coins ELSE below

\* A slot is well formed and its flags are right about the coins below.
SlotOK(e, below) ==
  /\ e \in Entry
  /\ ~e.in => e = Absent
  /\ e.fresh => below = Pruned
  /\ e.in /\ ~e.dirty => e.coins = below

\* A view entry that is not FRESH was read through pcoinsTip, which keeps its
\* own entry for as long as the view lives.
Backed(v, e) == v.in /\ ~v.fresh => e.in

SlotsOK ==
  \A t \in TxId : /\ SlotOK(tip[t], db[t])
                  /\ SlotOK(view[t], TipCoins[t])
                  /\ Backed(view[t], tip[t])

TaskOK ==
  /\ task = "none" => view = EmptyCache
  /\ task # "none" => viewBest = TipBest /\ tipBest = TipBest
  /\ task = "connect" => nBlocks < MaxBlock
  /\ task = "disconnect" => viewBest # NoBlock /\ prev[viewBest] # NoBlock

IInv ==
  /\ TypeOK
  /\ SlotsOK
  /\ TaskOK
  /\ StoredCoinsAreOneBlock
  /\ TipCoins = CoinsAt(TipBest)

-------------------------------------------------------------------------------
(* One slot at a time. *)

\* An empty slot is coherent with anything.
LEMMA AbsentOK ==
  ASSUME NEW below
  PROVE  SlotOK(Absent, below) /\ Shown(Absent, below) = below
BY DEF SlotOK, Absent, Shown, Entry, Coins, Pruned

\* A lookup in pcoinsTip keeps the slot coherent and changes nothing a caller
\* sees; after it, a slot that is still empty has nothing in the database.
LEMMA TipFetchedOK ==
  ASSUME NEW t \in TxId, db[t] \in Coins, SlotOK(tip[t], db[t])
  PROVE  /\ SlotOK(TipFetched(t), db[t])
         /\ Shown(TipFetched(t), db[t]) = Shown(tip[t], db[t])
         /\ tip[t].in => TipFetched(t) = tip[t]
         /\ ~TipFetched(t).in => db[t] = Pruned
BY DEF TipFetched, Fetched, DbEntry, SlotOK, Shown, Absent, Entry, Pruned

\* A lookup in the per-block view, whose base slot e was just looked up.
LEMMA ViewFetchedOK ==
  ASSUME NEW v, NEW e, NEW d \in Coins,
         SlotOK(e, d), SlotOK(v, Shown(e, d)), Backed(v, e)
  PROVE  /\ SlotOK(Fetched(v, e), Shown(e, d))
         /\ Backed(Fetched(v, e), e)
BY DEF Fetched, SlotOK, Shown, Backed, Absent, Entry, Pruned

\* A modification in the per-block view: the flags stay right, and the view
\* shows the new coins.
LEMMA ModifiedOK ==
  ASSUME NEW v, NEW e, NEW d \in Coins, NEW new \in Coins,
         SlotOK(e, d), SlotOK(v, Shown(e, d)), Backed(v, e),
         ~e.in => d = Pruned
  PROVE  /\ SlotOK(Modified(v, e, new), Shown(e, d))
         /\ Backed(Modified(v, e, new), e)
         /\ Shown(Modified(v, e, new), Shown(e, d)) = new
<1> DEFINE fresh == IF v.in THEN v.fresh ELSE ~e.in \/ e.coins = Pruned
<1>1. v \in Entry /\ e \in Entry
  BY DEF SlotOK
<1>2. fresh \in BOOLEAN
  BY <1>1 DEF Entry
<1>3. fresh => Shown(e, d) = Pruned
  BY DEF SlotOK, Shown
<1>4. ~fresh => e.in
  BY DEF Backed
<1> HIDE DEF fresh
<1>5. Modified(v, e, new) =
        IF fresh /\ new = Pruned THEN Absent
        ELSE [in |-> TRUE, coins |-> new, dirty |-> TRUE, fresh |-> fresh]
  BY DEF Modified, fresh
<1>6. CASE fresh /\ new = Pruned
  <2>1. Modified(v, e, new) = Absent
    BY <1>5, <1>6
  <2>2. Backed(Absent, e)
    BY DEF Backed, Absent
  <2>3. SlotOK(Absent, Shown(e, d)) /\ Shown(Absent, Shown(e, d)) = Shown(e, d)
    BY AbsentOK
  <2> QED
    BY <2>1, <2>2, <2>3, <1>3, <1>6
<1>7. CASE ~(fresh /\ new = Pruned)
  <2>1. Modified(v, e, new) =
          [in |-> TRUE, coins |-> new, dirty |-> TRUE, fresh |-> fresh]
    BY <1>5, <1>7
  <2> QED
    BY <2>1, <1>2, <1>3, <1>4 DEF SlotOK, Shown, Backed, Entry
<1> QED
  BY <1>6, <1>7

\* BatchWrite: merging a view slot into pcoinsTip leaves a coherent slot, and
\* pcoinsTip then shows what the view showed.
LEMMA MergedOK ==
  ASSUME NEW v, NEW e, NEW d \in Coins,
         SlotOK(e, d), SlotOK(v, Shown(e, d)), Backed(v, e)
  PROVE  /\ SlotOK(Merged(v, e), d)
         /\ Shown(Merged(v, e), d) = Shown(v, Shown(e, d))
<1>1. v \in Entry /\ e \in Entry
  BY DEF SlotOK
<1>2. CASE ~v.dirty
  BY <1>2 DEF Merged, SlotOK, Shown, Absent
<1>3. CASE v.dirty /\ ~e.in
  <2>1. v.in /\ v.fresh /\ d = Pruned
    BY <1>3 DEF SlotOK, Backed, Shown, Absent
  <2>2. CASE v.coins = Pruned
    BY <1>3, <2>1, <2>2, AbsentOK DEF Merged, Shown
  <2>3. CASE v.coins # Pruned
    <3>1. Merged(v, e) =
            [in |-> TRUE, coins |-> v.coins, dirty |-> TRUE, fresh |-> TRUE]
      BY <1>3, <2>3 DEF Merged
    <3> QED
      BY <1>1, <2>1, <3>1 DEF SlotOK, Shown, Entry
  <2> QED
    BY <2>2, <2>3
<1>4. CASE v.dirty /\ e.in
  <2>1. v.in
    BY <1>4 DEF SlotOK, Absent
  <2>2. CASE e.fresh /\ v.coins = Pruned
    <3>1. Merged(v, e) = Absent /\ d = Pruned
      BY <1>4, <2>2 DEF Merged, SlotOK
    <3>2. Shown(v, Shown(e, d)) = Pruned
      BY <2>1, <2>2 DEF Shown
    <3> QED
      BY <3>1, <3>2, AbsentOK
  <2>3. CASE ~(e.fresh /\ v.coins = Pruned)
    <3>1. Merged(v, e) = [e EXCEPT !.coins = v.coins, !.dirty = TRUE]
      BY <1>4, <2>3 DEF Merged
    <3>2. Merged(v, e) =
            [in |-> TRUE, coins |-> v.coins, dirty |-> TRUE, fresh |-> e.fresh]
      BY <1>1, <1>4, <3>1 DEF Entry
    <3>3. e.fresh => d = Pruned
      BY DEF SlotOK
    <3> QED
      BY <1>1, <2>1, <3>2, <3>3 DEF SlotOK, Shown, Entry
  <2> QED
    BY <2>2, <2>3
<1> QED
  BY <1>2, <1>3, <1>4

\* Flushing pcoinsTip writes what it showed.
LEMMA WrittenOK ==
  ASSUME NEW e, NEW d \in Coins, SlotOK(e, d)
  PROVE  (IF e.dirty THEN e.coins ELSE d) = Shown(e, d)
BY DEF SlotOK, Shown, Absent, Entry

-------------------------------------------------------------------------------
(* The whole stack. *)

\* The per-slot facts in one place, for the steps below.
LEMMA SlotFacts ==
  ASSUME TypeOK, SlotsOK, NEW t \in TxId
  PROVE  /\ db[t] \in Coins
         /\ TipCoins[t] = Shown(tip[t], db[t])
         /\ ViewCoins[t] = Shown(view[t], TipCoins[t])
         /\ SlotOK(tip[t], db[t])
         /\ SlotOK(view[t], Shown(tip[t], db[t]))
         /\ Backed(view[t], tip[t])
BY DEF TypeOK, SlotsOK, CoinsMap, TipCoins, ViewCoins, Shown

LEMMA InitInv == Init => IInv
<1> SUFFICES ASSUME Init PROVE IInv
  OBVIOUS
<1> USE MaxBlockAssumption DEF Init
<1>1. TypeOK
  BY DEF TypeOK, CoinsMap, Coins, Pruned, Block, NoBlock, EmptyCache, Absent, Entry, Task
<1>2. \A t \in TxId : tip[t] = Absent /\ view[t] = Absent /\ TipCoins[t] = db[t]
  BY DEF EmptyCache, TipCoins, Absent
<1>3. SlotsOK
  <2>1. \A e : Backed(Absent, e)
    BY DEF Backed, Absent
  <2> QED
    BY <1>2, <2>1, AbsentOK DEF SlotsOK
<1>4. TaskOK
  BY DEF TaskOK
<1>5. StoredCoinsAreOneBlock
  BY DEF StoredCoinsAreOneBlock, CoinsAt, NoBlock
<1>6. TipCoins = CoinsAt(TipBest)
  BY DEF TipCoins, CoinsAt, TipBest, EmptyCache, Absent, NoBlock
<1> QED
  BY <1>1, <1>3, <1>4, <1>5, <1>6 DEF IInv

\* A lookup below the per-block view leaves what pcoinsTip shows alone and
\* keeps every slot of the stack coherent.
LEMMA TipLookup ==
  ASSUME IInv, NEW t \in TxId, tip' = [tip EXCEPT ![t] = TipFetched(t)], UNCHANGED <<db, view>>
  PROVE  /\ tip' \in [TxId -> Entry]
         /\ \A u \in TxId : ~tip'[u].in => tip'[u] = Absent
         /\ SlotsOK'
         /\ TipCoins' = TipCoins
<1> USE DEF IInv
<1>1. \A u \in TxId : tip'[u] = IF u = t THEN TipFetched(t) ELSE tip[u]
  BY DEF TypeOK
<1>2. ASSUME NEW u \in TxId
      PROVE  /\ SlotOK(tip'[u], db[u])
             /\ Shown(tip'[u], db[u]) = Shown(tip[u], db[u])
             /\ tip[u].in => tip'[u].in
  BY <1>1, SlotFacts, TipFetchedOK
<1>3. \A u \in TxId : tip'[u] \in Entry /\ (~tip'[u].in => tip'[u] = Absent)
  BY <1>2 DEF SlotOK
<1>4. tip' \in [TxId -> Entry]
  BY <1>3 DEF TypeOK
<1>5. TipCoins' = TipCoins
  BY <1>2 DEF TipCoins, Shown
<1>6. SlotsOK'
  <2> SUFFICES ASSUME NEW u \in TxId
               PROVE  /\ SlotOK(tip'[u], db[u])
                      /\ SlotOK(view[u], TipCoins[u])
                      /\ Backed(view[u], tip'[u])
    BY <1>5 DEF SlotsOK
  <2> QED
    BY <1>2, SlotFacts DEF Backed
<1> QED
  BY <1>3, <1>4, <1>5, <1>6

\* The same for a step of the per-block view on one transaction, whose slot
\* becomes new after the lookup below it.
LEMMA ViewStep ==
  ASSUME IInv, NEW t \in TxId, NEW new, UNCHANGED db,
         tip' = IF view[t].in THEN tip ELSE [tip EXCEPT ![t] = TipFetched(t)],
         view' = [view EXCEPT ![t] = new],
         SlotOK(new, TipCoins[t]),
         Backed(new, tip'[t])
  PROVE  /\ tip' \in [TxId -> Entry] /\ view' \in [TxId -> Entry]
         /\ \A u \in TxId : /\ ~tip'[u].in => tip'[u] = Absent
                            /\ ~view'[u].in => view'[u] = Absent
         /\ SlotsOK'
         /\ TipCoins' = TipCoins
<1> USE DEF IInv
<1>1. \A u \in TxId : view'[u] = IF u = t THEN new ELSE view[u]
  BY DEF TypeOK
<1>2. \A u \in TxId : tip'[u] = IF u = t /\ ~view[t].in THEN TipFetched(t) ELSE tip[u]
  BY DEF TypeOK
<1>3. ASSUME NEW u \in TxId
      PROVE  /\ SlotOK(tip'[u], db[u])
             /\ Shown(tip'[u], db[u]) = Shown(tip[u], db[u])
             /\ tip[u].in => tip'[u].in
  BY <1>2, SlotFacts, TipFetchedOK
<1>4. TipCoins' = TipCoins
  BY <1>3 DEF TipCoins, Shown
<1>5. ASSUME NEW u \in TxId
      PROVE  SlotOK(view'[u], TipCoins[u]) /\ Backed(view'[u], tip'[u])
  <2>1. CASE u = t
    BY <1>1, <2>1
  <2>2. CASE u # t
    BY <1>1, <1>3, <2>2, SlotFacts DEF Backed
  <2> QED
    BY <2>1, <2>2
<1>6. SlotsOK'
  BY <1>3, <1>4, <1>5 DEF SlotsOK
<1>7. \A u \in TxId : tip'[u] \in Entry /\ view'[u] \in Entry
  BY <1>3, <1>5 DEF SlotOK
<1>8. tip' \in [TxId -> Entry] /\ view' \in [TxId -> Entry]
  BY <1>7 DEF TypeOK
<1>9. \A u \in TxId : /\ ~tip'[u].in => tip'[u] = Absent
                      /\ ~view'[u].in => view'[u] = Absent
  BY <1>3, <1>5 DEF SlotOK
<1> QED
  BY <1>4, <1>6, <1>8, <1>9

\* The slot below the view after the lookup of ModifyView and FetchView.
LEMMA BaseSlot ==
  ASSUME IInv, NEW t \in TxId,
         tip' = IF view[t].in THEN tip ELSE [tip EXCEPT ![t] = TipFetched(t)]
  PROVE  /\ ~view[t].in => tip'[t] = TipFetched(t)
         /\ view[t].in => tip'[t] = tip[t]
         /\ SlotOK(TipFetched(t), db[t])
         /\ SlotOK(view[t], Shown(TipFetched(t), db[t]))
         /\ Backed(view[t], TipFetched(t))
         /\ TipCoins[t] = Shown(TipFetched(t), db[t])
         /\ db[t] \in Coins
         /\ ~TipFetched(t).in => db[t] = Pruned
<1> USE DEF IInv
<1>1. SlotOK(TipFetched(t), db[t]) /\ Shown(TipFetched(t), db[t]) = Shown(tip[t], db[t])
      /\ (tip[t].in => TipFetched(t) = tip[t])
      /\ (~TipFetched(t).in => db[t] = Pruned)
  BY SlotFacts, TipFetchedOK
<1>2. tip'[t] = IF view[t].in THEN tip[t] ELSE TipFetched(t)
  BY DEF TypeOK
<1> QED
  BY <1>1, <1>2, SlotFacts DEF Backed

\* An empty view is coherent with any pcoinsTip.
LEMMA EmptyViewOK ==
  \A t \in TxId : \A c, e : SlotOK(EmptyCache[t], c) /\ Backed(EmptyCache[t], e)
<1>1. \A t \in TxId : EmptyCache[t] = Absent
  BY DEF EmptyCache
<1>2. \A e : Backed(Absent, e)
  BY DEF Backed, Absent
<1> QED
  BY <1>1, <1>2, AbsentOK

\* Flushing the view makes pcoinsTip show what the view showed.
LEMMA FlushViewShows ==
  ASSUME IInv, tip' = [t \in TxId |-> Merged(view[t], tip[t])],
         view' = EmptyCache, UNCHANGED db
  PROVE  /\ tip' \in [TxId -> Entry] /\ view' \in [TxId -> Entry]
         /\ \A u \in TxId : /\ ~tip'[u].in => tip'[u] = Absent
                            /\ ~view'[u].in => view'[u] = Absent
         /\ SlotsOK'
         /\ TipCoins' = ViewCoins
<1> USE DEF IInv
<1>1. ASSUME NEW u \in TxId
      PROVE  /\ SlotOK(tip'[u], db[u])
             /\ Shown(tip'[u], db[u]) = ViewCoins[u]
  BY SlotFacts, MergedOK
<1>2. TipCoins' = ViewCoins
  BY <1>1 DEF TipCoins, ViewCoins, Shown
<1>3. SlotsOK'
  BY <1>1, EmptyViewOK DEF SlotsOK
<1>4. \A u \in TxId : /\ tip'[u] \in Entry /\ view'[u] \in Entry
                      /\ ~tip'[u].in => tip'[u] = Absent
                      /\ ~view'[u].in => view'[u] = Absent
  BY <1>1, EmptyViewOK DEF SlotOK
<1>5. tip' \in [TxId -> Entry] /\ view' \in [TxId -> Entry]
  BY <1>4 DEF EmptyCache
<1> QED
  BY <1>2, <1>3, <1>4, <1>5

-------------------------------------------------------------------------------
(* The invariant is inductive: one step per action. *)

\* When only caches move, TypeOK is about the caches.
LEMMA TypeOfCaches ==
  ASSUME TypeOK, UNCHANGED <<db, dbBest, history>>,
         tip' \in [TxId -> Entry], view' \in [TxId -> Entry],
         \A u \in TxId : /\ ~tip'[u].in => tip'[u] = Absent
                         /\ ~view'[u].in => view'[u] = Absent,
         tipBest' \in 0 .. nBlocks, viewBest' \in 0 .. nBlocks, task' \in Task
  PROVE  TypeOK'
BY DEF TypeOK, history

LEMMA NextInv == IInv /\ [Next]_vars => IInv'
<1> SUFFICES ASSUME IInv, [Next]_vars PROVE IInv'
  OBVIOUS
<1> USE DEF IInv
<1>t. /\ MaxBlock \in Nat /\ nBlocks \in Nat
      /\ dbBest \in Nat /\ tipBest \in Nat /\ TipBest \in 0 .. nBlocks
      /\ tip \in [TxId -> Entry] /\ view \in [TxId -> Entry]
      /\ NoBlock \in 0 .. nBlocks
  BY MaxBlockAssumption DEF TypeOK, TipBest, NoBlock
<1>1. ASSUME NEW t \in TxId, FetchTip(t) PROVE IInv'
  <2> USE <1>1 DEF FetchTip, history
  <2>1. SlotsOK' /\ TipCoins' = TipCoins
    BY TipLookup
  <2>2. TypeOK'
    BY TipLookup, TypeOfCaches DEF TypeOK
  <2>3. TaskOK'
    BY DEF TaskOK, TipBest
  <2>4. StoredCoinsAreOneBlock' /\ TipCoins' = CoinsAt(TipBest)'
    BY <2>1 DEF StoredCoinsAreOneBlock, CoinsAt, TipBest
  <2> QED
    BY <2>1, <2>2, <2>3, <2>4
<1>2. ASSUME NEW newTask \in {"connect", "disconnect"}, BeginView(newTask),
             newTask = "connect" => nBlocks < MaxBlock,
             newTask = "disconnect" => TipBest # NoBlock /\ prev[TipBest] # NoBlock
      PROVE  IInv'
  <2> USE <1>2 DEF BeginView, history, stored
  <2>1. TipCoins' = TipCoins /\ TipBest' = TipBest
    BY DEF TipCoins, TipBest
  <2>2. SlotsOK'
    BY <2>1, EmptyViewOK, SlotFacts DEF SlotsOK
  <2>3. \A u \in TxId : view'[u] = Absent
    BY DEF EmptyCache
  <2>4. view' \in [TxId -> Entry]
    BY EmptyViewOK DEF SlotOK, EmptyCache
  <2>5. TypeOK'
    BY <1>t, <2>3, <2>4, TypeOfCaches DEF TypeOK, Task
  <2>6. TaskOK'
    BY <2>1 DEF TaskOK
  <2>7. StoredCoinsAreOneBlock' /\ TipCoins' = CoinsAt(TipBest)'
    BY <2>1 DEF StoredCoinsAreOneBlock, CoinsAt
  <2> QED
    BY <2>1, <2>2, <2>5, <2>6, <2>7
<1>3. ASSUME NEW t \in TxId, NEW new, task # "none",
             tip' = IF view[t].in THEN tip ELSE [tip EXCEPT ![t] = TipFetched(t)],
             view' = [view EXCEPT ![t] = new],
             SlotOK(new, TipCoins[t]), Backed(new, tip'[t]),
             UNCHANGED <<stored, tipBest, viewBest, task, history>>
      PROVE  IInv'
  <2> USE <1>3 DEF history, stored
  <2>1. SlotsOK' /\ TipCoins' = TipCoins
    BY ViewStep
  <2>2. TypeOK'
    <3>1. /\ tip' \in [TxId -> Entry] /\ view' \in [TxId -> Entry]
          /\ \A u \in TxId : /\ ~tip'[u].in => tip'[u] = Absent
                             /\ ~view'[u].in => view'[u] = Absent
      BY ViewStep
    <3> QED
      BY <3>1, TypeOfCaches DEF TypeOK
  <2>3. TaskOK'
    BY DEF TaskOK, TipBest
  <2>4. StoredCoinsAreOneBlock' /\ TipCoins' = CoinsAt(TipBest)'
    BY <2>1 DEF StoredCoinsAreOneBlock, CoinsAt, TipBest
  <2> QED
    BY <2>1, <2>2, <2>3, <2>4
<1>4. ASSUME NEW t \in TxId, FetchView(t) PROVE IInv'
  <2> DEFINE new == Fetched(view[t], TipFetched(t))
  <2>1. tip' = IF view[t].in THEN tip ELSE [tip EXCEPT ![t] = TipFetched(t)]
    BY <1>4 DEF FetchView
  <2>2. SlotOK(new, TipCoins[t]) /\ Backed(new, TipFetched(t))
    BY <2>1, BaseSlot, ViewFetchedOK
  <2>3. Backed(new, tip'[t])
    <3>1. CASE view[t].in
      BY <2>1, <3>1, SlotFacts DEF Fetched
    <3>2. CASE ~view[t].in
      BY <2>1, <2>2, <3>2, BaseSlot
    <3> QED
      BY <3>1, <3>2
  <2> QED
    BY <1>3, <1>4, <2>1, <2>2, <2>3 DEF FetchView
<1>5. ASSUME NEW t \in TxId, NEW c \in Coins, ModifyView(t, c) PROVE IInv'
  <2> DEFINE new == Modified(view[t], TipFetched(t), c)
  <2>1. tip' = IF view[t].in THEN tip ELSE [tip EXCEPT ![t] = TipFetched(t)]
    BY <1>5 DEF ModifyView
  <2>2. SlotOK(new, TipCoins[t]) /\ Backed(new, TipFetched(t))
    BY <2>1, BaseSlot, ModifiedOK
  <2>3. Backed(new, tip'[t])
    <3>1. CASE view[t].in
      <4>1. Backed(view[t], tip[t]) /\ tip'[t] = tip[t]
        BY <2>1, <3>1, SlotFacts
      <4> QED
        BY <3>1, <4>1 DEF Modified, Backed, Absent
    <3>2. CASE ~view[t].in
      BY <2>1, <2>2, <3>2, BaseSlot
    <3> QED
      BY <3>1, <3>2
  <2> QED
    BY <1>3, <1>5, <2>1, <2>2, <2>3 DEF ModifyView
<1>6. CASE FinishConnect
  <2> USE <1>6 DEF FinishConnect, FlushView, stored
  <2>1. nBlocks < MaxBlock /\ nBlocks + 1 \in Block /\ viewBest = TipBest
    BY <1>t DEF TaskOK, Block
  <2>2. SlotsOK' /\ TipCoins' = ViewCoins
    BY FlushViewShows
  <2>3. ViewCoins \in CoinsMap
    BY SlotFacts DEF SlotOK, Shown, Entry, ViewCoins, CoinsMap
  <2>4. TypeOK'
    BY <1>t, <2>1, <2>3, FlushViewShows DEF TypeOK, Task, NoBlock, Block
  <2>5. TipBest' = nBlocks + 1
    BY <1>t DEF TipBest, NoBlock
  <2>6. CoinsAt(TipBest)' = ViewCoins
    BY <1>t, <2>1, <2>5 DEF CoinsAt, TypeOK, NoBlock
  <2>7. StoredCoinsAreOneBlock'
    BY <1>t, <2>1 DEF StoredCoinsAreOneBlock, CoinsAt, TypeOK, NoBlock
  <2>8. TaskOK'
    BY DEF TaskOK
  <2> QED
    BY <2>2, <2>4, <2>6, <2>7, <2>8
<1>7. CASE FinishDisconnect
  <2> USE <1>7 DEF FinishDisconnect, FlushView, stored, history
  <2>1. viewBest = TipBest /\ viewBest # NoBlock /\ prev[viewBest] # NoBlock
    BY DEF TaskOK
  <2>2. SlotsOK' /\ TipCoins' = ViewCoins
    BY FlushViewShows
  <2>3. prev[viewBest] \in 0 .. nBlocks
    BY <1>t, <2>1 DEF TypeOK, Block, NoBlock
  <2>4. TypeOK'
    <3>1. /\ tip' \in [TxId -> Entry] /\ view' \in [TxId -> Entry]
          /\ \A u \in TxId : /\ ~tip'[u].in => tip'[u] = Absent
                             /\ ~view'[u].in => view'[u] = Absent
      BY FlushViewShows
    <3> QED
      BY <1>t, <2>3, <3>1, TypeOfCaches DEF Task
  <2>5. TipBest' = prev[viewBest]
    BY <2>1 DEF TipBest
  <2>6. CoinsAt(TipBest)' = ViewCoins
    BY <2>1, <2>5 DEF CoinsAt
  <2>7. StoredCoinsAreOneBlock' /\ TaskOK'
    BY DEF StoredCoinsAreOneBlock, CoinsAt, TaskOK
  <2> QED
    BY <2>2, <2>4, <2>6, <2>7
<1>8. CASE AbandonView
  <2> USE <1>8 DEF AbandonView, stored, history
  <2>1. TipCoins' = TipCoins /\ TipBest' = TipBest
    BY DEF TipCoins, TipBest
  <2>2. SlotsOK'
    BY <2>1, EmptyViewOK, SlotFacts DEF SlotsOK
  <2>3. view' \in [TxId -> Entry] /\ \A u \in TxId : view'[u] = Absent
    BY EmptyViewOK DEF SlotOK, EmptyCache
  <2>4. TypeOK'
    BY <1>t, <2>3, TypeOfCaches DEF TypeOK, Task
  <2>5. TaskOK' /\ StoredCoinsAreOneBlock' /\ TipCoins' = CoinsAt(TipBest)'
    BY <2>1 DEF StoredCoinsAreOneBlock, CoinsAt, TaskOK
  <2> QED
    BY <2>1, <2>2, <2>4, <2>5
<1>9. CASE FlushTip
  <2> USE <1>9 DEF FlushTip, history
  <2>1. \A u \in TxId : tip'[u] = Absent
    BY DEF EmptyCache
  <2>2. view = EmptyCache
    BY DEF TaskOK
  <2>3. \A u \in TxId : db'[u] = TipCoins[u]
    BY SlotFacts, WrittenOK
  <2>4. TipCoins' = TipCoins
    BY <2>1, <2>3 DEF TipCoins, Absent
  <2>5. SlotsOK'
    BY <2>1, <2>2, EmptyViewOK, AbsentOK DEF SlotsOK
  <2>6. TipBest' = TipBest /\ dbBest' = TipBest
    BY DEF TipBest
  <2>7. db' = TipCoins
    BY <2>3 DEF TipCoins
  <2>8. db' \in CoinsMap
    BY <2>7, SlotFacts DEF CoinsMap, TipCoins, SlotOK, Shown, Entry
  <2>9. TypeOK'
    BY <1>t, <2>1, <2>2, <2>6, <2>8, EmptyViewOK DEF TypeOK, SlotOK, EmptyCache
  <2>10. StoredCoinsAreOneBlock' /\ TipCoins' = CoinsAt(TipBest)'
    BY <2>4, <2>6, <2>7 DEF StoredCoinsAreOneBlock, CoinsAt
  <2>11. TaskOK'
    BY DEF TaskOK
  <2> QED
    BY <2>4, <2>5, <2>9, <2>10, <2>11
<1>10. CASE Crash
  <2> USE <1>10 DEF Crash, stored, history
  <2>1. \A u \in TxId : tip'[u] = Absent /\ view'[u] = Absent
    BY DEF EmptyCache
  <2>2. tip' \in [TxId -> Entry] /\ view' \in [TxId -> Entry]
    BY EmptyViewOK DEF SlotOK, EmptyCache
  <2>3. TipCoins' = db
    BY <2>1 DEF TipCoins, Absent, TypeOK, CoinsMap
  <2>4. SlotsOK'
    BY <2>1, EmptyViewOK, AbsentOK DEF SlotsOK
  <2>5. TipBest' = dbBest
    BY DEF TipBest
  <2>6. TypeOK'
    BY <1>t, <2>1, <2>2, TypeOfCaches DEF Task
  <2>7. TaskOK' /\ StoredCoinsAreOneBlock' /\ TipCoins' = CoinsAt(TipBest)'
    BY <2>3, <2>5 DEF StoredCoinsAreOneBlock, CoinsAt, TaskOK
  <2> QED
    BY <2>3, <2>4, <2>6, <2>7
<1>11. CASE UNCHANGED vars
  BY <1>11 DEF vars, TypeOK, SlotsOK, TaskOK, StoredCoinsAreOneBlock, CoinsAt,
               TipCoins, TipBest
<1>12. BeginConnect => IInv'
  BY <1>2 DEF BeginConnect
<1>13. BeginDisconnect => IInv'
  BY <1>2 DEF BeginDisconnect
<1> QED
  BY <1>1, <1>4, <1>5, <1>6, <1>7, <1>8, <1>9, <1>10, <1>11, <1>12, <1>13 DEF Next

-------------------------------------------------------------------------------
(* The properties follow from the invariant. *)

LEMMA FlagsFromInv ==
  IInv => FreshMeansNothingBelow /\ CleanMeansSameBelow /\ MoveUpIsFresh
<1> SUFFICES ASSUME IInv, NEW t \in TxId
             PROVE  /\ tip[t].fresh => db[t] = Pruned
                    /\ view[t].fresh => TipCoins[t] = Pruned
                    /\ tip[t].in /\ ~tip[t].dirty => tip[t].coins = db[t]
                    /\ view[t].in /\ ~view[t].dirty => view[t].coins = TipCoins[t]
                    /\ view[t].dirty /\ ~tip[t].in =>
                         /\ view[t].coins # Pruned => view[t].fresh
                         /\ view[t].coins = Pruned => db[t] = Pruned
  BY DEF FreshMeansNothingBelow, CleanMeansSameBelow, MoveUpIsFresh
<1>1. SlotOK(tip[t], db[t]) /\ SlotOK(view[t], TipCoins[t]) /\ Backed(view[t], tip[t])
  BY DEF IInv, SlotsOK
<1>2. ~tip[t].in => TipCoins[t] = db[t]
  BY DEF TipCoins
<1>3. view[t].dirty => view[t].in
  BY <1>1 DEF SlotOK, Absent
<1> QED
  BY <1>1, <1>2, <1>3 DEF SlotOK, Backed

LEMMA InvHolds == Spec => []IInv
BY InitInv, NextInv, PTL DEF Spec

\* Every variable keeps its type and absent slots carry no flags.
THEOREM TypeCorrect == Spec => []TypeOK
<1>1. IInv => TypeOK
  BY DEF IInv
<1> QED
  BY <1>1, InvHolds, PTL

\* FRESH is never set on an entry that has unspent outputs below it.
THEOREM FreshCorrect == Spec => []FreshMeansNothingBelow
<1>1. IInv => FreshMeansNothingBelow
  BY FlagsFromInv
<1> QED
  BY <1>1, InvHolds, PTL

\* An entry that a flush skips holds what is already below it.
THEOREM CleanCorrect == Spec => []CleanMeansSameBelow
<1>1. IInv => CleanMeansSameBelow
  BY FlagsFromInv
<1> QED
  BY <1>1, InvHolds, PTL

\* The assertion in BatchWrite never fires and no spend is dropped there.
THEOREM BatchWriteAssertion == Spec => []MoveUpIsFresh
<1>1. IInv => MoveUpIsFresh
  BY FlagsFromInv
<1> QED
  BY <1>1, InvHolds, PTL

\* A restart always finds the complete coins of one block.
THEOREM CrashConsistency == Spec => []StoredCoinsAreOneBlock
<1>1. IInv => StoredCoinsAreOneBlock
  BY DEF IInv
<1> QED
  BY <1>1, InvHolds, PTL

-------------------------------------------------------------------------------
(* The stack of views implements the ledger. *)

LEMMA RefinesInit == Init => Abstract!Init
<1> SUFFICES ASSUME Init PROVE Abstract!Init
  OBVIOUS
<1>1. TipCoins = [t \in TxId |-> {}] /\ TipBest = 0 /\ db = [t \in TxId |-> {}] /\ dbBest = 0
  BY DEF Init, TipCoins, TipBest, EmptyCache, Absent, Pruned, NoBlock
<1> QED
  BY <1>1 DEF Init, Abstract!Init, Abstract!EmptyLedger, Abstract!Block,
              Abstract!NoBlock, Block, NoBlock, Pruned

\* A step that leaves what the two views show alone is a stuttering step.
LEMMA Stutter ==
  ASSUME UNCHANGED <<db, dbBest, history>>, TipCoins' = TipCoins, TipBest' = TipBest
  PROVE  UNCHANGED Abstract!vars
BY DEF Abstract!vars, history

LEMMA RefinesNext == IInv /\ [Next]_vars => [Abstract!Next]_Abstract!vars
<1> SUFFICES ASSUME IInv, [Next]_vars PROVE [Abstract!Next]_Abstract!vars
  OBVIOUS
<1>t. /\ nBlocks \in Nat /\ MaxBlock \in Nat
      /\ tip \in [TxId -> Entry] /\ view \in [TxId -> Entry]
  BY MaxBlockAssumption DEF IInv, TypeOK
<1>1. ASSUME NEW t \in TxId, FetchTip(t) PROVE UNCHANGED Abstract!vars
  <2>1. TipCoins' = TipCoins
    BY <1>1, TipLookup DEF FetchTip
  <2> QED
    BY <1>1, <2>1, Stutter DEF FetchTip, TipBest
<1>2. ASSUME NEW newTask, BeginView(newTask) PROVE UNCHANGED Abstract!vars
  BY <1>2, Stutter DEF BeginView, stored, TipCoins, TipBest
<1>3. ASSUME NEW t \in TxId, FetchView(t) \/ \E c \in Coins : ModifyView(t, c)
      PROVE  UNCHANGED Abstract!vars
  <2>1. UNCHANGED <<db, dbBest, tipBest, history>>
    BY <1>3 DEF FetchView, ModifyView, stored
  <2>2. TipCoins' = TipCoins
    <3>1. ASSUME NEW u \in TxId PROVE TipCoins'[u] = TipCoins[u]
      <4>1. tip' = tip \/ tip' = [tip EXCEPT ![t] = TipFetched(t)]
        BY <1>3 DEF FetchView, ModifyView
      <4>2. tip'[u] = tip[u] \/ (u = t /\ tip'[u] = TipFetched(t))
        BY <1>t, <4>1
      <4>3. Shown(tip'[u], db[u]) = Shown(tip[u], db[u])
        BY <4>2, SlotFacts, TipFetchedOK DEF IInv
      <4> QED
        BY <2>1, <4>3 DEF TipCoins, Shown
    <3> QED
      BY <3>1 DEF TipCoins
  <2>3. TipBest' = TipBest
    BY <2>1 DEF TipBest
  <2> QED
    BY <2>1, <2>2, <2>3, Stutter
<1>4. CASE FinishConnect
  <2> USE <1>4 DEF FinishConnect, FlushView
  <2>1. nBlocks < MaxBlock /\ viewBest = TipBest
    BY DEF IInv, TaskOK
  <2>2. TipCoins' = ViewCoins
    BY FlushViewShows DEF stored
  <2>3. TipBest' = nBlocks + 1
    BY <1>t DEF TipBest, NoBlock
  <2>4. ViewCoins \in Abstract!CoinsMap
    BY SlotFacts DEF IInv, SlotOK, Shown, Entry, ViewCoins, Abstract!CoinsMap,
                     Abstract!Coins, Coins
  <2>5. Abstract!Connect(ViewCoins)
    BY <2>1, <2>2, <2>3 DEF Abstract!Connect, stored
  <2> QED
    BY <2>4, <2>5 DEF Abstract!Next
<1>5. CASE FinishDisconnect
  <2> USE <1>5 DEF FinishDisconnect, FlushView
  <2>1. viewBest = TipBest /\ viewBest # NoBlock /\ prev[viewBest] # NoBlock
    BY DEF IInv, TaskOK
  <2>2. TipCoins' = utxo[prev[TipBest]]
    BY <2>1, FlushViewShows DEF stored
  <2>3. TipBest' = prev[TipBest]
    BY <2>1 DEF TipBest
  <2>4. Abstract!Disconnect
    BY <2>1, <2>2, <2>3 DEF Abstract!Disconnect, Abstract!NoBlock, NoBlock, stored, history
  <2> QED
    BY <2>4 DEF Abstract!Next
<1>6. CASE AbandonView
  BY <1>6, Stutter DEF AbandonView, stored, TipCoins, TipBest
<1>7. CASE FlushTip
  <2> USE <1>7 DEF FlushTip
  <2>1. \A u \in TxId : db'[u] = TipCoins[u]
    BY SlotFacts, WrittenOK DEF IInv
  <2>2. db' = TipCoins /\ dbBest' = TipBest
    BY <2>1 DEF TipCoins, TipBest
  <2>3. TipCoins' = TipCoins /\ TipBest' = TipBest
    BY <2>1 DEF TipCoins, EmptyCache, Absent, TipBest
  <2>4. Abstract!Persist
    BY <2>2, <2>3 DEF Abstract!Persist, history
  <2> QED
    BY <2>4 DEF Abstract!Next
<1>8. CASE Crash
  <2> USE <1>8 DEF Crash
  <2>1. TipCoins' = db /\ TipBest' = dbBest
    BY DEF TipCoins, TipBest, EmptyCache, Absent, stored, IInv, TypeOK, CoinsMap
  <2>2. Abstract!Restart
    BY <2>1 DEF Abstract!Restart, stored, history
  <2> QED
    BY <2>2 DEF Abstract!Next
<1>9. CASE UNCHANGED vars
  BY <1>9, Stutter DEF vars, history, TipCoins, TipBest
<1> QED
  BY <1>1, <1>2, <1>3, <1>4, <1>5, <1>6, <1>7, <1>8, <1>9
     DEF Next, BeginConnect, BeginDisconnect

\* The caches, their flags and their lazy best block are invisible: the stack
\* is the ledger of UtxoLedger.
THEOREM Implements == Spec => ImplementsLedger
BY RefinesInit, RefinesNext, InvHolds, PTL DEF Spec, ImplementsLedger, Abstract!Spec
===============================================================================
