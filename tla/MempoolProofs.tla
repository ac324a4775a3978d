---------------------------- MODULE MempoolProofs ----------------------------
(***************************************************************************)
(* Proofs about Mempool, for any blocks, transactions, peers and bounds.   *)
(* mapNextTx is exact whatever is removed and however the folds go; the    *)
(* pool stays spendable because what removal leaves is closed under        *)
(* ancestors, which needs that the search for descendants comes to an end; *)
(* what is lost has a cause in its ancestry, which a removal hands down.   *)
(***************************************************************************)
EXTENDS Mempool, FiniteSetTheorems, WellFoundedInduction, TLAPS

-------------------------------------------------------------------------------
(* Numbers. *)

LEMMA LeastNatural ==
  ASSUME NEW T \in SUBSET Nat, T # {}
  PROVE  \E n \in T : \A m \in T : n <= m
<1> DEFINE R == OpToRel(<, Nat)
<1>1. IsWellFoundedOn(R, Nat)
  BY NatLessThanWellFounded
<1>2. \A m, n \in Nat : m < n => <<m, n>> \in R
  BY DEF OpToRel
<1> HIDE DEF R
<1>3. PICK n \in T : \A m \in T : ~(<<m, n>> \in R)
  BY <1>1, WFMin, Zenon
<1>4. ASSUME NEW m \in T  PROVE n <= m
  <2>1. ~(m < n)
    BY <1>2, <1>3
  <2> QED  BY <2>1
<1> QED  BY <1>4

\* A set of numbers that has 0 and the successor of each of its members has them all.
LEMMA Induction ==
  ASSUME NEW n \in Nat, NEW S, 0 \in S, \A i \in 0 .. n - 1 : i \in S => i + 1 \in S
  PROVE  \A i \in 0 .. n : i \in S
<1> DEFINE T == {i \in 0 .. n : i \notin S}
<1> SUFFICES ASSUME T # {}  PROVE FALSE
  OBVIOUS
<1>1. T \in SUBSET Nat
  OBVIOUS
<1> HIDE DEF T
<1>2. PICK m \in T : \A k \in T : m <= k
  BY <1>1, LeastNatural
<1>3. m \in 0 .. n /\ m \notin S /\ m # 0
  BY DEF T
<1>4. m - 1 \in 0 .. n - 1 /\ m - 1 \notin T
  BY <1>2, <1>3
<1>5. m - 1 \in S
  BY <1>4 DEF T
<1>6. m - 1 + 1 \in S
  BY <1>4, <1>5
<1> QED  BY <1>3, <1>6

LEMMA MaxOfSegment ==
  ASSUME NEW n \in Nat, NEW s \in SUBSET (1 .. n), s # {}
  PROVE  /\ Max(s) \in s
         /\ \A y \in s : y <= Max(s)
<1> DEFINE T == {n - x : x \in s}
<1>1. T \in SUBSET Nat /\ T # {}
  <2>1. \A x \in s : n - x \in Nat
    <3> TAKE x \in s
    <3>1. x \in 1 .. n
      OBVIOUS
    <3> QED  BY <3>1
  <2> QED  BY <2>1
<1> HIDE DEF T
<1>2. PICK k \in T : \A m \in T : k <= m
  BY <1>1, LeastNatural
<1>3. PICK x \in s : k = n - x
  BY DEF T
<1>4. \A y \in s : x >= y
  <2> TAKE y \in s
  <2>3. x \in 1 .. n /\ y \in 1 .. n
    OBVIOUS
  <2>1. n - y \in T
    BY DEF T
  <2>2. n - x <= n - y
    BY <1>2, <1>3, <2>1
  <2> QED  BY <2>2, <2>3
<1>5. Max(s) \in s /\ \A y \in s : Max(s) >= y
  BY <1>4 DEF Max
<1> QED  BY <1>5

\* What is left of a set of numbers without its greatest.
LEMMA WithoutMax ==
  ASSUME NEW m \in Nat \ {0}, NEW s \in SUBSET (1 .. m), s # {}
  PROVE  s \ {Max(s)} \in SUBSET (1 .. m - 1)
<1>1. Max(s) \in s /\ \A y \in s : y <= Max(s)
  BY MaxOfSegment
<1>2. ASSUME NEW y \in s \ {Max(s)}  PROVE y \in 1 .. m - 1
  <2>1. y \in 1 .. m /\ Max(s) \in 1 .. m /\ y <= Max(s) /\ y # Max(s)
    BY <1>1
  <2> QED  BY <2>1
<1> QED  BY <1>2

LEMMA MaxOfInterval ==
  ASSUME NEW i \in Nat
  PROVE  /\ 1 .. i + 1 # {} /\ Max(1 .. i + 1) = i + 1
         /\ (1 .. i + 1) \ {i + 1} = 1 .. i
<1>1. 1 .. i + 1 \in SUBSET (1 .. i + 1) /\ i + 1 \in 1 .. i + 1 /\ i + 1 \in Nat
  OBVIOUS
<1>2. Max(1 .. i + 1) \in 1 .. i + 1 /\ \A y \in 1 .. i + 1 : y <= Max(1 .. i + 1)
  BY <1>1, MaxOfSegment
<1>3. Max(1 .. i + 1) = i + 1
  BY <1>1, <1>2
<1> QED  BY <1>3

-------------------------------------------------------------------------------
(* The folds over sequences, each as the results of its steps, one lemma for each as    *)
(* the provers do not instantiate operators.                                            *)

BlockStep(q, t) == removeConflicts(remove(q, {t}, FALSE), t)

BlockRun(r, w, n, txs) ==
  r[0] = w /\ \A i \in 0 .. n - 1 : r[i + 1] = BlockStep(r[i], txs[i + 1])

\* removeForBlock: from the pool w to the pool without the transactions of a block.
LEMMA BlockFold ==
  ASSUME NEW w, NEW txs, NEW n \in Nat, n = Len(txs), DOMAIN txs = 1 .. n,
         NEW z, z = removeForBlock(w, txs)
  PROVE  \E r : BlockRun(r, w, n, txs) /\ r[n] = z
<1> DEFINE Rec(f, m) ==
             f = [s \in SUBSET (1 .. m) |->
                    IF s = {} THEN w ELSE BlockStep(f[s \ {Max(s)}], txs[Max(s)])]
           S == {m \in 0 .. n : \E f : Rec(f, m)}
<1>1. 0 \in S
  <2> DEFINE f == [s \in SUBSET (1 .. 0) |-> w]
  <2>1. \A s \in SUBSET (1 .. 0) : s = {}
    OBVIOUS
  <2>2. Rec(f, 0)
    BY <2>1
  <2> HIDE DEF f, Rec
  <2>3. \E g : Rec(g, 0)
    BY <2>2
  <2> QED  BY <2>3
<1>2. ASSUME NEW m \in 0 .. n - 1, m \in S  PROVE m + 1 \in S
  <2>1. PICK f : Rec(f, m)
    BY <1>2
  <2> DEFINE h == [s \in SUBSET (1 .. m + 1) |->
                     IF s = {} THEN w ELSE BlockStep(f[s \ {Max(s)}], txs[Max(s)])]
  <2>2. /\ h = [s \in SUBSET (1 .. m + 1) |-> h[s]]
        /\ \A s \in SUBSET (1 .. m + 1) : h[s] = IF s = {} THEN w ELSE BlockStep(f[s \ {Max(s)}], txs[Max(s)])
    OBVIOUS
  <2> HIDE DEF h
  <2>3. ASSUME NEW s \in SUBSET (1 .. m + 1), s # {}
        PROVE  h[s \ {Max(s)}] = f[s \ {Max(s)}]
    <3> DEFINE t == s \ {Max(s)}
    <3>1. t \in SUBSET (1 .. m)
      <4> DEFINE k == m + 1
      <4>1. k \in Nat \ {0} /\ k - 1 = m /\ s \in SUBSET (1 .. k)
        OBVIOUS
      <4> HIDE DEF k
      <4>2. s \ {Max(s)} \in SUBSET (1 .. k - 1)
        BY <2>3, <4>1, WithoutMax
      <4> QED  BY <4>1, <4>2
    <3>2. t \in SUBSET (1 .. m + 1)
      BY <3>1
    <3> HIDE DEF t
    <3>3. f[t] = IF t = {} THEN w ELSE BlockStep(f[t \ {Max(t)}], txs[Max(t)])
      BY <2>1, <3>1
    <3>4. h[t] = f[t]
      BY <2>2, <3>2, <3>3
    <3> QED  BY <3>4 DEF t
  <2>4. ASSUME NEW s \in SUBSET (1 .. m + 1)
        PROVE  h[s] = IF s = {} THEN w ELSE BlockStep(h[s \ {Max(s)}], txs[Max(s)])
    <3>1. CASE s = {}
      BY <2>2, <3>1
    <3>2. CASE s # {}
      BY <2>3, <2>2, <3>2
    <3> QED  BY <3>1, <3>2
  <2>5. Rec(h, m + 1)
    BY <2>4, <2>2
  <2> HIDE DEF Rec
  <2>6. \E g : Rec(g, m + 1)
    BY <2>5
  <2>7. m + 1 \in 0 .. n
    OBVIOUS
  <2> QED  BY <2>6, <2>7
<1>3. n \in S
  <2> HIDE DEF S
  <2>1. \A i \in 0 .. n : i \in S
    BY <1>1, <1>2, Induction
  <2> QED  BY <2>1
<1> DEFINE it == CHOOSE f : Rec(f, n)
<1>4. Rec(it, n)
  BY <1>3
<1>5. z = it[1 .. n]
  BY DEF removeForBlock, FoldLeft, MapThenFoldSet, BlockStep
<1> HIDE DEF it
<1> DEFINE r == [i \in 0 .. n |-> it[1 .. i]]
<1>6. r[0] = w
  <2>1. 1 .. 0 = {} /\ 1 .. 0 \in SUBSET (1 .. n)
    OBVIOUS
  <2> QED  BY <1>4, <2>1
<1>7. ASSUME NEW i \in 0 .. n - 1  PROVE r[i + 1] = BlockStep(r[i], txs[i + 1])
  <2>1. 1 .. i + 1 \in SUBSET (1 .. n) /\ i \in Nat /\ i + 1 \in 0 .. n /\ i \in 0 .. n
    OBVIOUS
  <2>2. /\ 1 .. i + 1 # {} /\ Max(1 .. i + 1) = i + 1
        /\ (1 .. i + 1) \ {i + 1} = 1 .. i
    BY <2>1, MaxOfInterval
  <2>3. it[1 .. i + 1] = BlockStep(it[(1 .. i + 1) \ {Max(1 .. i + 1)}], txs[Max(1 .. i + 1)])
    BY <1>4, <2>1, <2>2
  <2>4. it[1 .. i + 1] = BlockStep(it[1 .. i], txs[i + 1])
    BY <2>2, <2>3
  <2> QED  BY <2>1, <2>4
<1> HIDE DEF r, Rec
<1>8. r[n] = z
  <2>1. n \in 0 .. n
    OBVIOUS
  <2> QED  BY <1>5, <2>1 DEF r
<1>9. BlockRun(r, w, n, txs)
  BY <1>6, <1>7 DEF BlockRun
<1> QED  BY <1>8, <1>9

UndoRun(r, w, n, txs, below, R) ==
  r[0] = w /\ \A i \in 0 .. n - 1 : r[i + 1] = Resurrected(r[i], below, txs[i + 1], R)

\* DisconnectTip: from the pool w to the pool with the transactions of a block.
LEMMA UndoFold ==
  ASSUME NEW w, NEW txs, NEW n \in Nat, n = Len(txs), DOMAIN txs = 1 .. n, NEW below, NEW R,
         NEW z, z = AllResurrected(w, below, txs, R)
  PROVE  \E r : UndoRun(r, w, n, txs, below, R) /\ r[n] = z
<1> DEFINE Rec(f, m) ==
             f = [s \in SUBSET (1 .. m) |->
                    IF s = {} THEN w ELSE Resurrected(f[s \ {Max(s)}], below, txs[Max(s)], R)]
           S == {m \in 0 .. n : \E f : Rec(f, m)}
<1>1. 0 \in S
  <2> DEFINE f == [s \in SUBSET (1 .. 0) |-> w]
  <2>1. \A s \in SUBSET (1 .. 0) : s = {}
    OBVIOUS
  <2>2. Rec(f, 0)
    BY <2>1
  <2> HIDE DEF f, Rec
  <2>3. \E g : Rec(g, 0)
    BY <2>2
  <2> QED  BY <2>3
<1>2. ASSUME NEW m \in 0 .. n - 1, m \in S  PROVE m + 1 \in S
  <2>1. PICK f : Rec(f, m)
    BY <1>2
  <2> DEFINE h == [s \in SUBSET (1 .. m + 1) |->
                     IF s = {} THEN w ELSE Resurrected(f[s \ {Max(s)}], below, txs[Max(s)], R)]
  <2>2. /\ h = [s \in SUBSET (1 .. m + 1) |-> h[s]]
        /\ \A s \in SUBSET (1 .. m + 1) : h[s] = IF s = {} THEN w ELSE Resurrected(f[s \ {Max(s)}], below, txs[Max(s)], R)
    OBVIOUS
  <2> HIDE DEF h
  <2>3. ASSUME NEW s \in SUBSET (1 .. m + 1), s # {}
        PROVE  h[s \ {Max(s)}] = f[s \ {Max(s)}]
    <3> DEFINE t == s \ {Max(s)}
    <3>1. t \in SUBSET (1 .. m)
      <4> DEFINE k == m + 1
      <4>1. k \in Nat \ {0} /\ k - 1 = m /\ s \in SUBSET (1 .. k)
        OBVIOUS
      <4> HIDE DEF k
      <4>2. s \ {Max(s)} \in SUBSET (1 .. k - 1)
        BY <2>3, <4>1, WithoutMax
      <4> QED  BY <4>1, <4>2
    <3>2. t \in SUBSET (1 .. m + 1)
      BY <3>1
    <3> HIDE DEF t
    <3>3. f[t] = IF t = {} THEN w ELSE Resurrected(f[t \ {Max(t)}], below, txs[Max(t)], R)
      BY <2>1, <3>1
    <3>4. h[t] = f[t]
      BY <2>2, <3>2, <3>3
    <3> QED  BY <3>4 DEF t
  <2>4. ASSUME NEW s \in SUBSET (1 .. m + 1)
        PROVE  h[s] = IF s = {} THEN w ELSE Resurrected(h[s \ {Max(s)}], below, txs[Max(s)], R)
    <3>1. CASE s = {}
      BY <2>2, <3>1
    <3>2. CASE s # {}
      BY <2>3, <2>2, <3>2
    <3> QED  BY <3>1, <3>2
  <2>5. Rec(h, m + 1)
    BY <2>4, <2>2
  <2> HIDE DEF Rec
  <2>6. \E g : Rec(g, m + 1)
    BY <2>5
  <2>7. m + 1 \in 0 .. n
    OBVIOUS
  <2> QED  BY <2>6, <2>7
<1>3. n \in S
  <2> HIDE DEF S
  <2>1. \A i \in 0 .. n : i \in S
    BY <1>1, <1>2, Induction
  <2> QED  BY <2>1
<1> DEFINE it == CHOOSE f : Rec(f, n)
<1>4. Rec(it, n)
  BY <1>3
<1>5. z = it[1 .. n]
  BY DEF AllResurrected, FoldLeft, MapThenFoldSet
<1> HIDE DEF it
<1> DEFINE r == [i \in 0 .. n |-> it[1 .. i]]
<1>6. r[0] = w
  <2>1. 1 .. 0 = {} /\ 1 .. 0 \in SUBSET (1 .. n)
    OBVIOUS
  <2> QED  BY <1>4, <2>1
<1>7. ASSUME NEW i \in 0 .. n - 1  PROVE r[i + 1] = Resurrected(r[i], below, txs[i + 1], R)
  <2>1. 1 .. i + 1 \in SUBSET (1 .. n) /\ i \in Nat /\ i + 1 \in 0 .. n /\ i \in 0 .. n
    OBVIOUS
  <2>2. /\ 1 .. i + 1 # {} /\ Max(1 .. i + 1) = i + 1
        /\ (1 .. i + 1) \ {i + 1} = 1 .. i
    BY <2>1, MaxOfInterval
  <2>3. it[1 .. i + 1] = Resurrected(it[(1 .. i + 1) \ {Max(1 .. i + 1)}], below, txs[Max(1 .. i + 1)], R)
    BY <1>4, <2>1, <2>2
  <2>4. it[1 .. i + 1] = Resurrected(it[1 .. i], below, txs[i + 1], R)
    BY <2>2, <2>3
  <2> QED  BY <2>1, <2>4
<1> HIDE DEF r, Rec
<1>8. r[n] = z
  <2>1. n \in 0 .. n
    OBVIOUS
  <2> QED  BY <1>5, <2>1 DEF r
<1>9. UndoRun(r, w, n, txs, below, R)
  BY <1>6, <1>7 DEF UndoRun
<1> QED  BY <1>8, <1>9

TryStep(v, t, o) == IF o \in WaitingFor(t) THEN TryOrphan(v, o) ELSE v

TryRun(r, w, n, txs, u) ==
  r[0] = w /\ \A i \in 0 .. n - 1 : r[i + 1] = TryStep(r[i], u, txs[i + 1])

\* TryWaiting: the orphans that wait for u, one after the other.
LEMMA TryFold ==
  ASSUME NEW w, NEW txs, NEW n \in Nat, n = Len(txs), DOMAIN txs = 1 .. n, txs = Order, NEW u,
         NEW z, z = TryWaiting(w, u)
  PROVE  \E r : TryRun(r, w, n, txs, u) /\ r[n] = z
<1> DEFINE Rec(f, m) ==
             f = [s \in SUBSET (1 .. m) |->
                    IF s = {} THEN w ELSE TryStep(f[s \ {Max(s)}], u, txs[Max(s)])]
           S == {m \in 0 .. n : \E f : Rec(f, m)}
<1>1. 0 \in S
  <2> DEFINE f == [s \in SUBSET (1 .. 0) |-> w]
  <2>1. \A s \in SUBSET (1 .. 0) : s = {}
    OBVIOUS
  <2>2. Rec(f, 0)
    BY <2>1
  <2> HIDE DEF f, Rec
  <2>3. \E g : Rec(g, 0)
    BY <2>2
  <2> QED  BY <2>3
<1>2. ASSUME NEW m \in 0 .. n - 1, m \in S  PROVE m + 1 \in S
  <2>1. PICK f : Rec(f, m)
    BY <1>2
  <2> DEFINE h == [s \in SUBSET (1 .. m + 1) |->
                     IF s = {} THEN w ELSE TryStep(f[s \ {Max(s)}], u, txs[Max(s)])]
  <2>2. /\ h = [s \in SUBSET (1 .. m + 1) |-> h[s]]
        /\ \A s \in SUBSET (1 .. m + 1) : h[s] = IF s = {} THEN w ELSE TryStep(f[s \ {Max(s)}], u, txs[Max(s)])
    OBVIOUS
  <2> HIDE DEF h
  <2>3. ASSUME NEW s \in SUBSET (1 .. m + 1), s # {}
        PROVE  h[s \ {Max(s)}] = f[s \ {Max(s)}]
    <3> DEFINE t == s \ {Max(s)}
    <3>1. t \in SUBSET (1 .. m)
      <4> DEFINE k == m + 1
      <4>1. k \in Nat \ {0} /\ k - 1 = m /\ s \in SUBSET (1 .. k)
        OBVIOUS
      <4> HIDE DEF k
      <4>2. s \ {Max(s)} \in SUBSET (1 .. k - 1)
        BY <2>3, <4>1, WithoutMax
      <4> QED  BY <4>1, <4>2
    <3>2. t \in SUBSET (1 .. m + 1)
      BY <3>1
    <3> HIDE DEF t
    <3>3. f[t] = IF t = {} THEN w ELSE TryStep(f[t \ {Max(t)}], u, txs[Max(t)])
      BY <2>1, <3>1
    <3>4. h[t] = f[t]
      BY <2>2, <3>2, <3>3
    <3> QED  BY <3>4 DEF t
  <2>4. ASSUME NEW s \in SUBSET (1 .. m + 1)
        PROVE  h[s] = IF s = {} THEN w ELSE TryStep(h[s \ {Max(s)}], u, txs[Max(s)])
    <3>1. CASE s = {}
      BY <2>2, <3>1
    <3>2. CASE s # {}
      BY <2>3, <2>2, <3>2
    <3> QED  BY <3>1, <3>2
  <2>5. Rec(h, m + 1)
    BY <2>4, <2>2
  <2> HIDE DEF Rec
  <2>6. \E g : Rec(g, m + 1)
    BY <2>5
  <2>7. m + 1 \in 0 .. n
    OBVIOUS
  <2> QED  BY <2>6, <2>7
<1>3. n \in S
  <2> HIDE DEF S
  <2>1. \A i \in 0 .. n : i \in S
    BY <1>1, <1>2, Induction
  <2> QED  BY <2>1
<1> DEFINE it == CHOOSE f : Rec(f, n)
<1>4. Rec(it, n)
  BY <1>3
<1>5. z = it[1 .. n]
  BY DEF TryWaiting, TryStep, FoldLeft, MapThenFoldSet
<1> HIDE DEF it
<1> DEFINE r == [i \in 0 .. n |-> it[1 .. i]]
<1>6. r[0] = w
  <2>1. 1 .. 0 = {} /\ 1 .. 0 \in SUBSET (1 .. n)
    OBVIOUS
  <2> QED  BY <1>4, <2>1
<1>7. ASSUME NEW i \in 0 .. n - 1  PROVE r[i + 1] = TryStep(r[i], u, txs[i + 1])
  <2>1. 1 .. i + 1 \in SUBSET (1 .. n) /\ i \in Nat /\ i + 1 \in 0 .. n /\ i \in 0 .. n
    OBVIOUS
  <2>2. /\ 1 .. i + 1 # {} /\ Max(1 .. i + 1) = i + 1
        /\ (1 .. i + 1) \ {i + 1} = 1 .. i
    BY <2>1, MaxOfInterval
  <2>3. it[1 .. i + 1] = TryStep(it[(1 .. i + 1) \ {Max(1 .. i + 1)}], u, txs[Max(1 .. i + 1)])
    BY <1>4, <2>1, <2>2
  <2>4. it[1 .. i + 1] = TryStep(it[1 .. i], u, txs[i + 1])
    BY <2>2, <2>3
  <2> QED  BY <2>1, <2>4
<1> HIDE DEF r, Rec
<1>8. r[n] = z
  <2>1. n \in 0 .. n
    OBVIOUS
  <2> QED  BY <1>5, <2>1 DEF r
<1>9. TryRun(r, w, n, txs, u)
  BY <1>6, <1>7 DEF TryRun
<1> QED  BY <1>8, <1>9

LookStep(v, i) == IF i > Len(v.queue) THEN v ELSE TryWaiting(v, v.queue[i])

Positions(txs, n) == txs = [i \in 1 .. n |-> i]

LookRun(r, w, n, txs) ==
  r[0] = w /\ \A i \in 0 .. n - 1 : r[i + 1] = LookStep(r[i], txs[i + 1])

\* Resolved: the work queue, one position after the other.
LEMMA LookFold ==
  ASSUME NEW w, NEW txs, NEW n \in Nat, n = Cardinality(DOMAIN orphans) + 1, Positions(txs, n),
         NEW z, z = Resolved(w)
  PROVE  \E r : LookRun(r, w, n, txs) /\ r[n] = z
<1> DEFINE Rec(f, m) ==
             f = [s \in SUBSET (1 .. m) |->
                    IF s = {} THEN w ELSE LookStep(f[s \ {Max(s)}], txs[Max(s)])]
           S == {m \in 0 .. n : \E f : Rec(f, m)}
<1>1. 0 \in S
  <2> DEFINE f == [s \in SUBSET (1 .. 0) |-> w]
  <2>1. \A s \in SUBSET (1 .. 0) : s = {}
    OBVIOUS
  <2>2. Rec(f, 0)
    BY <2>1
  <2> HIDE DEF f, Rec
  <2>3. \E g : Rec(g, 0)
    BY <2>2
  <2> QED  BY <2>3
<1>2. ASSUME NEW m \in 0 .. n - 1, m \in S  PROVE m + 1 \in S
  <2>1. PICK f : Rec(f, m)
    BY <1>2
  <2> DEFINE h == [s \in SUBSET (1 .. m + 1) |->
                     IF s = {} THEN w ELSE LookStep(f[s \ {Max(s)}], txs[Max(s)])]
  <2>2. /\ h = [s \in SUBSET (1 .. m + 1) |-> h[s]]
        /\ \A s \in SUBSET (1 .. m + 1) : h[s] = IF s = {} THEN w ELSE LookStep(f[s \ {Max(s)}], txs[Max(s)])
    OBVIOUS
  <2> HIDE DEF h
  <2>3. ASSUME NEW s \in SUBSET (1 .. m + 1), s # {}
        PROVE  h[s \ {Max(s)}] = f[s \ {Max(s)}]
    <3> DEFINE t == s \ {Max(s)}
    <3>1. t \in SUBSET (1 .. m)
      <4> DEFINE k == m + 1
      <4>1. k \in Nat \ {0} /\ k - 1 = m /\ s \in SUBSET (1 .. k)
        OBVIOUS
      <4> HIDE DEF k
      <4>2. s \ {Max(s)} \in SUBSET (1 .. k - 1)
        BY <2>3, <4>1, WithoutMax
      <4> QED  BY <4>1, <4>2
    <3>2. t \in SUBSET (1 .. m + 1)
      BY <3>1
    <3> HIDE DEF t
    <3>3. f[t] = IF t = {} THEN w ELSE LookStep(f[t \ {Max(t)}], txs[Max(t)])
      BY <2>1, <3>1
    <3>4. h[t] = f[t]
      BY <2>2, <3>2, <3>3
    <3> QED  BY <3>4 DEF t
  <2>4. ASSUME NEW s \in SUBSET (1 .. m + 1)
        PROVE  h[s] = IF s = {} THEN w ELSE LookStep(h[s \ {Max(s)}], txs[Max(s)])
    <3>1. CASE s = {}
      BY <2>2, <3>1
    <3>2. CASE s # {}
      BY <2>3, <2>2, <3>2
    <3> QED  BY <3>1, <3>2
  <2>5. Rec(h, m + 1)
    BY <2>4, <2>2
  <2> HIDE DEF Rec
  <2>6. \E g : Rec(g, m + 1)
    BY <2>5
  <2>7. m + 1 \in 0 .. n
    OBVIOUS
  <2> QED  BY <2>6, <2>7
<1>3. n \in S
  <2> HIDE DEF S
  <2>1. \A i \in 0 .. n : i \in S
    BY <1>1, <1>2, Induction
  <2> QED  BY <2>1
<1> DEFINE it == CHOOSE f : Rec(f, n)
<1>4. Rec(it, n)
  BY <1>3
<1>5. z = it[1 .. n]
  BY DEF Resolved, LookStep, Positions, FoldLeft, MapThenFoldSet
<1> HIDE DEF it
<1> DEFINE r == [i \in 0 .. n |-> it[1 .. i]]
<1>6. r[0] = w
  <2>1. 1 .. 0 = {} /\ 1 .. 0 \in SUBSET (1 .. n)
    OBVIOUS
  <2> QED  BY <1>4, <2>1
<1>7. ASSUME NEW i \in 0 .. n - 1  PROVE r[i + 1] = LookStep(r[i], txs[i + 1])
  <2>1. 1 .. i + 1 \in SUBSET (1 .. n) /\ i \in Nat /\ i + 1 \in 0 .. n /\ i \in 0 .. n
    OBVIOUS
  <2>2. /\ 1 .. i + 1 # {} /\ Max(1 .. i + 1) = i + 1
        /\ (1 .. i + 1) \ {i + 1} = 1 .. i
    BY <2>1, MaxOfInterval
  <2>3. it[1 .. i + 1] = LookStep(it[(1 .. i + 1) \ {Max(1 .. i + 1)}], txs[Max(1 .. i + 1)])
    BY <1>4, <2>1, <2>2
  <2>4. it[1 .. i + 1] = LookStep(it[1 .. i], txs[i + 1])
    BY <2>2, <2>3
  <2> QED  BY <2>1, <2>4
<1> HIDE DEF r, Rec
<1>8. r[n] = z
  <2>1. n \in 0 .. n
    OBVIOUS
  <2> QED  BY <1>5, <2>1 DEF r
<1>9. LookRun(r, w, n, txs)
  BY <1>6, <1>7 DEF LookRun
<1> QED  BY <1>8, <1>9

-------------------------------------------------------------------------------
(* The search for descendants. *)

\* WithDescendants as the results of its rounds.
LEMMA DescendantRounds ==
  ASSUME NEW p, NEW S, NEW n \in Nat, n = Cardinality(p.mapTx),
         NEW D, D = WithDescendants(p, S)
  PROVE  \E r : /\ r[0] = S /\ r[n] = D
                /\ \A i \in 0 .. n - 1 : r[i + 1] = r[i] \cup Children(p, r[i])
<1> DEFINE Rec(f, m) ==
             f = [i \in 0 .. m |-> IF i = 0 THEN S ELSE f[i - 1] \cup Children(p, f[i - 1])]
           T == {m \in 0 .. n : \E f : Rec(f, m)}
<1>1. 0 \in T
  <2> DEFINE f == [i \in 0 .. 0 |-> S]
  <2>1. \A i \in 0 .. 0 : i = 0
    OBVIOUS
  <2>2. Rec(f, 0)
    BY <2>1
  <2> HIDE DEF f, Rec
  <2>3. \E g : Rec(g, 0)
    BY <2>2
  <2> QED  BY <2>3
<1>2. ASSUME NEW m \in 0 .. n - 1, m \in T  PROVE m + 1 \in T
  <2>1. PICK f : Rec(f, m)
    BY <1>2
  <2> DEFINE h == [i \in 0 .. m + 1 |-> IF i = 0 THEN S ELSE f[i - 1] \cup Children(p, f[i - 1])]
  <2>2. /\ h = [i \in 0 .. m + 1 |-> h[i]]
        /\ \A i \in 0 .. m + 1 : h[i] = IF i = 0 THEN S ELSE f[i - 1] \cup Children(p, f[i - 1])
    OBVIOUS
  <2> HIDE DEF h
  <2>3. \A i \in 0 .. m : f[i] = IF i = 0 THEN S ELSE f[i - 1] \cup Children(p, f[i - 1])
    BY <2>1
  <2>4. ASSUME NEW i \in 0 .. m  PROVE h[i] = f[i]
    <3>1. i \in 0 .. m + 1
      OBVIOUS
    <3> QED  BY <2>2, <2>3, <3>1
  <2>5. ASSUME NEW i \in 0 .. m + 1
        PROVE  h[i] = IF i = 0 THEN S ELSE h[i - 1] \cup Children(p, h[i - 1])
    <3>1. CASE i = 0
      BY <2>2, <3>1
    <3>2. CASE i # 0
      <4>1. i - 1 \in 0 .. m
        BY <3>2
      <4>2. h[i - 1] = f[i - 1]
        BY <2>4, <4>1
      <4> QED  BY <2>2, <3>2, <4>2
    <3> QED  BY <3>1, <3>2
  <2>6. Rec(h, m + 1)
    BY <2>2, <2>5
  <2> HIDE DEF Rec
  <2>7. (\E g : Rec(g, m + 1)) /\ m + 1 \in 0 .. n
    BY <2>6
  <2> QED  BY <2>7
<1>3. n \in T
  <2> HIDE DEF T
  <2>1. \A i \in 0 .. n : i \in T
    BY <1>1, <1>2, Induction
  <2> QED  BY <2>1
<1> DEFINE reached == CHOOSE f : Rec(f, n)
<1>4. Rec(reached, n)
  BY <1>3
<1>5. reached[n] = D
  BY DEF WithDescendants
<1> HIDE DEF reached
<1>8. \A i \in 0 .. n : reached[i] = IF i = 0 THEN S ELSE reached[i - 1] \cup Children(p, reached[i - 1])
  BY <1>4
<1> HIDE DEF Rec
<1>6. reached[0] = S
  <2>1. 0 \in 0 .. n
    OBVIOUS
  <2>2. reached[0] = IF 0 = 0 THEN S ELSE reached[0 - 1] \cup Children(p, reached[0 - 1])
    BY <1>8, <2>1, Zenon
  <2> QED  BY <2>2, Zenon
<1>7. ASSUME NEW i \in 0 .. n - 1
      PROVE  reached[i + 1] = reached[i] \cup Children(p, reached[i])
  <2> DEFINE k == i + 1
  <2>2. k \in 0 .. n /\ k # 0 /\ k - 1 = i
    OBVIOUS
  <2> HIDE DEF k
  <2>3. reached[k] = IF k = 0 THEN S ELSE reached[k - 1] \cup Children(p, reached[k - 1])
    BY <1>8, <2>2, Zenon
  <2>4. reached[k] = reached[i] \cup Children(p, reached[i])
    BY <2>2, <2>3, Zenon
  <2> QED  BY <2>4 DEF k
<1> QED  BY <1>5, <1>6, <1>7

-------------------------------------------------------------------------------
(* The pool: mapNextTx is exact. *)

IsPool(p) ==
  /\ p = [mapTx |-> p.mapTx, mapNextTx |-> p.mapNextTx]
  /\ IsFiniteSet(p.mapTx) /\ p.mapTx \subseteq Tx \ Special
  /\ p.mapNextTx = [o \in Spends(p.mapTx) |-> p.mapNextTx[o]]
  /\ \A t \in p.mapTx : \A o \in Inputs[t] : p.mapNextTx[o] = t

LEMMA Spenders ==
  ASSUME NEW p, IsPool(p)
  PROVE  /\ DOMAIN p.mapNextTx = Spends(p.mapTx)
         /\ \A o : o \in Spends(p.mapTx) => \E t \in p.mapTx : o \in Inputs[t]
         /\ \A t \in p.mapTx : \A o \in Inputs[t] : o \in Spends(p.mapTx) /\ p.mapNextTx[o] = t
         /\ \A o \in Spends(p.mapTx) : p.mapNextTx[o] \in p.mapTx /\ o \in Inputs[p.mapNextTx[o]]
<1>1. p.mapNextTx = [o \in Spends(p.mapTx) |-> p.mapNextTx[o]]
  BY DEF IsPool
<1>2. DOMAIN p.mapNextTx = Spends(p.mapTx)
  BY <1>1
<1>3. \A o : o \in Spends(p.mapTx) => \E t \in p.mapTx : o \in Inputs[t]
  BY DEF Spends
<1>4. \A t \in p.mapTx : \A o \in Inputs[t] : o \in Spends(p.mapTx) /\ p.mapNextTx[o] = t
  BY DEF IsPool, Spends
<1> QED  BY <1>2, <1>3, <1>4

LEMMA EmptyPool == IsPool([mapTx |-> {}, mapNextTx |-> <<>>])
<1> DEFINE p == [mapTx |-> {}, mapNextTx |-> <<>>]
<1>1. Spends({}) = {} /\ IsFiniteSet({})
  BY FS_EmptySet DEF Spends
<1>2. <<>> = [o \in {} |-> <<>>[o]]
  OBVIOUS
<1>3. p.mapTx = {} /\ p.mapNextTx = <<>>
  OBVIOUS
<1> HIDE DEF p
<1>4. p.mapNextTx = [o \in Spends(p.mapTx) |-> p.mapNextTx[o]]
  BY <1>1, <1>2, <1>3
<1>5. p = [mapTx |-> p.mapTx, mapNextTx |-> p.mapNextTx]
  BY DEF p
<1>6. IsPool(p)
  BY <1>1, <1>3, <1>4, <1>5 DEF IsPool
<1> QED  BY <1>6 DEF p

\* A transaction whose inputs nothing in the pool spends.
LEMMA PoolGrows ==
  ASSUME NEW p, IsPool(p), NEW t \in Tx \ Special, Inputs[t] \cap DOMAIN p.mapNextTx = {}
  PROVE  IsPool(addUnchecked(p, t)) /\ addUnchecked(p, t).mapTx = p.mapTx \cup {t}
<1> DEFINE q == addUnchecked(p, t)
<1>1. /\ q = [mapTx |-> q.mapTx, mapNextTx |-> q.mapNextTx]
      /\ q.mapTx = p.mapTx \cup {t}
      /\ q.mapNextTx = [o \in DOMAIN p.mapNextTx \cup Inputs[t] |->
                          IF o \in Inputs[t] THEN t ELSE p.mapNextTx[o]]
  BY DEF addUnchecked
<1> HIDE DEF q
<1>2. /\ DOMAIN p.mapNextTx = Spends(p.mapTx)
      /\ \A u \in p.mapTx : \A o \in Inputs[u] : o \in Spends(p.mapTx) /\ p.mapNextTx[o] = u
  BY Spenders
<1>3. Spends(q.mapTx) = Spends(p.mapTx) \cup Inputs[t]
  BY <1>1 DEF Spends
<1>4. q.mapNextTx = [o \in Spends(q.mapTx) |-> q.mapNextTx[o]]
  BY <1>1, <1>2, <1>3
<1>5. IsFiniteSet(q.mapTx) /\ q.mapTx \subseteq Tx \ Special
  BY <1>1, FS_AddElement DEF IsPool
<1>6. ASSUME NEW u \in q.mapTx, NEW o \in Inputs[u]  PROVE q.mapNextTx[o] = u
  <2>1. CASE u \in p.mapTx
    <3>1. o \in DOMAIN p.mapNextTx /\ p.mapNextTx[o] = u /\ o \notin Inputs[t]
      BY <1>2, <1>6, <2>1
    <3> QED  BY <1>1, <3>1
  <2>2. CASE u = t
    BY <1>1, <1>6, <2>2
  <2> QED  BY <1>1, <1>6, <2>1, <2>2
<1>7. IsPool(q)
  BY <1>1, <1>4, <1>5, <1>6 DEF IsPool
<1> QED  BY <1>1, <1>7 DEF q

LEMMA PoolShrinks ==
  ASSUME NEW p, IsPool(p), NEW S
  PROVE  IsPool(Erased(p, S)) /\ Erased(p, S).mapTx = p.mapTx \ S
<1> DEFINE q == Erased(p, S)
<1>1. /\ q = [mapTx |-> q.mapTx, mapNextTx |-> q.mapNextTx]
      /\ q.mapTx = p.mapTx \ S
      /\ q.mapNextTx = [o \in DOMAIN p.mapNextTx \ Spends(S \cap p.mapTx) |-> p.mapNextTx[o]]
  BY DEF Erased, Without
<1> HIDE DEF q
<1>2. /\ DOMAIN p.mapNextTx = Spends(p.mapTx)
      /\ \A u \in p.mapTx : \A o \in Inputs[u] : o \in Spends(p.mapTx) /\ p.mapNextTx[o] = u
      /\ \A o \in Spends(p.mapTx) : p.mapNextTx[o] \in p.mapTx /\ o \in Inputs[p.mapNextTx[o]]
  BY Spenders
<1>3. ASSUME NEW o  PROVE o \in Spends(q.mapTx) <=> o \in DOMAIN p.mapNextTx \ Spends(S \cap p.mapTx)
  <2>1. ASSUME o \in Spends(q.mapTx)  PROVE o \in Spends(p.mapTx) /\ o \notin Spends(S \cap p.mapTx)
    <3>1. PICK u \in q.mapTx : o \in Inputs[u]
      BY <2>1 DEF Spends
    <3>2. u \in p.mapTx /\ u \notin S
      BY <1>1, <3>1
    <3>3. o \in Spends(p.mapTx) /\ p.mapNextTx[o] = u
      BY <1>2, <3>1, <3>2
    <3>4. ASSUME NEW v \in S \cap p.mapTx, o \in Inputs[v]  PROVE FALSE
      BY <1>2, <3>2, <3>3, <3>4
    <3> QED  BY <3>3, <3>4 DEF Spends
  <2>2. ASSUME o \in Spends(p.mapTx), o \notin Spends(S \cap p.mapTx)  PROVE o \in Spends(q.mapTx)
    <3>1. PICK u \in p.mapTx : o \in Inputs[u]
      BY <2>2 DEF Spends
    <3>2. u \notin S
      BY <2>2, <3>1 DEF Spends
    <3> QED  BY <1>1, <3>1, <3>2 DEF Spends
  <2> QED  BY <1>2, <2>1, <2>2
<1>4. Spends(q.mapTx) = DOMAIN p.mapNextTx \ Spends(S \cap p.mapTx)
  BY <1>3
<1>5. q.mapNextTx = [o \in Spends(q.mapTx) |-> q.mapNextTx[o]]
  BY <1>1, <1>4
<1>6. IsFiniteSet(q.mapTx) /\ q.mapTx \subseteq Tx \ Special
  BY <1>1, FS_Subset DEF IsPool
<1>7. ASSUME NEW u \in q.mapTx, NEW o \in Inputs[u]  PROVE q.mapNextTx[o] = u
  <2>1. o \in Spends(q.mapTx) /\ u \in p.mapTx
    BY <1>1 DEF Spends
  <2> QED  BY <1>1, <1>2, <1>4, <2>1
<1>8. IsPool(q)
  BY <1>1, <1>5, <1>6, <1>7 DEF IsPool
<1> QED  BY <1>1, <1>8 DEF q

LEMMA ChildrenAre ==
  ASSUME NEW p, IsPool(p), NEW S
  PROVE  Children(p, S) = {t \in p.mapTx : Inputs[t] \cap Creates(S) # {}}
<1>1. /\ DOMAIN p.mapNextTx = Spends(p.mapTx)
      /\ \A t \in p.mapTx : \A o \in Inputs[t] : o \in Spends(p.mapTx) /\ p.mapNextTx[o] = t
      /\ \A o \in Spends(p.mapTx) : p.mapNextTx[o] \in p.mapTx /\ o \in Inputs[p.mapNextTx[o]]
  BY Spenders
<1>2. ASSUME NEW t \in Children(p, S)  PROVE t \in p.mapTx /\ Inputs[t] \cap Creates(S) # {}
  <2>1. PICK o \in Creates(S) \cap DOMAIN p.mapNextTx : t = p.mapNextTx[o]
    BY <1>2 DEF Children
  <2> QED  BY <1>1, <2>1
<1>3. ASSUME NEW t \in p.mapTx, Inputs[t] \cap Creates(S) # {}  PROVE t \in Children(p, S)
  <2>1. PICK o \in Inputs[t] : o \in Creates(S)
    BY <1>3
  <2>2. o \in DOMAIN p.mapNextTx /\ p.mapNextTx[o] = t
    BY <1>1, <2>1
  <2> QED  BY <2>1, <2>2 DEF Children
<1> QED  BY <1>2, <1>3

\* The search has as many rounds as the pool has transactions, and each round but the last
\* ones finds one.
LEMMA DescendantsAreAll ==
  ASSUME NEW p, IsPool(p), NEW S
  PROVE  /\ S \subseteq WithDescendants(p, S)
         /\ WithDescendants(p, S) \subseteq S \cup p.mapTx
         /\ Children(p, WithDescendants(p, S)) \subseteq WithDescendants(p, S)
<1> DEFINE n == Cardinality(p.mapTx)
           D == WithDescendants(p, S)
<1>1. IsFiniteSet(p.mapTx) /\ n \in Nat /\ n = Cardinality(p.mapTx) /\ D = WithDescendants(p, S)
  BY FS_CardinalityType DEF IsPool
<1> HIDE DEF n, D
<1>2. \A T : Children(p, T) \subseteq p.mapTx
  BY ChildrenAre
<1>3. PICK r : /\ r[0] = S /\ r[n] = D
               /\ \A i \in 0 .. n - 1 : r[i + 1] = r[i] \cup Children(p, r[i])
  BY <1>1, DescendantRounds
<1> DEFINE Between == {i \in 0 .. n : S \subseteq r[i] /\ r[i] \subseteq S \cup p.mapTx}
           Full == {i \in 0 .. n : \/ Children(p, r[i]) \subseteq r[i]
                                   \/ Cardinality(r[i] \cap p.mapTx) >= i}
<1>4. n \in Between
  <2>1. 0 \in Between
    BY <1>1, <1>3
  <2>2. ASSUME NEW i \in 0 .. n - 1, i \in Between  PROVE i + 1 \in Between
    <3>1. i + 1 \in 0 .. n /\ r[i + 1] = r[i] \cup Children(p, r[i])
      BY <1>1, <1>3
    <3> QED  BY <1>2, <2>2, <3>1
  <2> HIDE DEF Between
  <2>3. \A i \in 0 .. n : i \in Between
    BY <1>1, <2>1, <2>2, Induction
  <2> QED  BY <1>1, <2>3
<1>5. n \in Full
  <2>1. 0 \in Full
    <3>1. IsFiniteSet(r[0] \cap p.mapTx)
      BY <1>1, FS_Intersection
    <3>2. Cardinality(r[0] \cap p.mapTx) \in Nat
      BY <3>1, FS_CardinalityType
    <3> QED  BY <1>1, <3>2
  <2>2. ASSUME NEW i \in 0 .. n - 1, i \in Full  PROVE i + 1 \in Full
    <3>1. i + 1 \in 0 .. n /\ r[i + 1] = r[i] \cup Children(p, r[i])
      BY <1>1, <1>3
    <3>2. CASE Children(p, r[i]) \subseteq r[i]
      <4>1. r[i + 1] = r[i]
        BY <3>1, <3>2
      <4> QED  BY <3>1, <3>2, <4>1
    <3>3. CASE ~(Children(p, r[i]) \subseteq r[i])
      <4> DEFINE G == r[i] \cap p.mapTx
                 H == r[i + 1] \cap p.mapTx
      <4>1. PICK c \in Children(p, r[i]) : c \notin r[i]
        BY <3>3
      <4>2. Cardinality(G) >= i
        BY <2>2, <3>3
      <4>3. IsFiniteSet(G) /\ IsFiniteSet(H)
        BY <1>1, FS_Intersection
      <4>4. c \notin G /\ G \cup {c} \in SUBSET H
        BY <1>2, <3>1, <4>1
      <4> HIDE DEF G, H
      <4>5. Cardinality(G) \in Nat /\ Cardinality(H) \in Nat
        BY <4>3, FS_CardinalityType
      <4>6. Cardinality(G \cup {c}) = Cardinality(G) + 1
        BY <4>3, <4>4, FS_AddElement
      <4>7. Cardinality(G \cup {c}) <= Cardinality(H)
        BY <4>3, <4>4, FS_Subset
      <4>8. i \in Nat /\ Cardinality(H) >= i + 1
        BY <4>2, <4>5, <4>6, <4>7
      <4> QED  BY <3>1, <4>8 DEF H
    <3> QED  BY <3>2, <3>3
  <2> HIDE DEF Full
  <2>3. \A i \in 0 .. n : i \in Full
    BY <1>1, <2>1, <2>2, Induction
  <2> QED  BY <1>1, <2>3
<1>6. Children(p, D) \subseteq D
  <2>1. CASE Children(p, r[n]) \subseteq r[n]
    BY <1>3, <2>1
  <2>2. CASE Cardinality(r[n] \cap p.mapTx) >= n
    <3> DEFINE G == r[n] \cap p.mapTx
    <3>1. IsFiniteSet(G) /\ G \in SUBSET p.mapTx
      BY <1>1, FS_Intersection
    <3>2. Cardinality(G) \in Nat /\ Cardinality(G) >= n
      BY <2>2, <3>1, FS_CardinalityType
    <3> HIDE DEF G
    <3>3. Cardinality(G) <= n
      BY <1>1, <3>1, FS_Subset
    <3>4. Cardinality(p.mapTx) = Cardinality(G)
      BY <1>1, <3>2, <3>3
    <3>5. p.mapTx = G
      BY <1>1, <3>1, <3>4, FS_Subset
    <3> QED  BY <1>2, <1>3, <3>5 DEF G
  <2> QED  BY <1>5, <2>1, <2>2
<1> QED  BY <1>1, <1>4, <1>3, <1>6

LEMMA MakerOf ==
  ASSUME NEW t \in Tx
  PROVE  /\ \A o \in Outputs[t] : Maker(o) = t
         /\ \A o \in Inputs[t] : Maker(o) \in Tx /\ o \in Outputs[Maker(o)]
<1>1. \A u \in Tx : \A o \in Outputs[u] : Maker(o) = u
  BY MempoolAssumption DEF MempoolAssumption
<1>2. ASSUME NEW o \in Inputs[t]  PROVE \E u \in Tx : o \in Outputs[u]
  <2>1. o \in Creates(Tx)
    BY MempoolAssumption DEF MempoolAssumption
  <2> QED  BY <2>1 DEF Creates
<1> QED  BY <1>1, <1>2

\* What is left after a recursive removal spends nothing of what was removed.
LEMMA RemovedRecursively ==
  ASSUME NEW p, IsPool(p), NEW S, NEW q, q = remove(p, S, TRUE)
  PROVE  /\ IsPool(q) /\ q.mapTx \subseteq p.mapTx \ S
         /\ \A t \in q.mapTx : \A o \in Inputs[t] :
              Maker(o) \notin S /\ (Maker(o) \in p.mapTx => Maker(o) \in q.mapTx)
<1> DEFINE D == WithDescendants(p, S)
<1>1. q = Erased(p, D)
  BY DEF remove
<1>2. S \subseteq D /\ Children(p, D) \subseteq D
  BY DescendantsAreAll
<1> HIDE DEF D
<1>3. IsPool(q) /\ q.mapTx = p.mapTx \ D
  <2>1. IsPool(Erased(p, D)) /\ Erased(p, D).mapTx = p.mapTx \ D
    BY PoolShrinks
  <2> QED  BY <1>1, <2>1
<1>4. ASSUME NEW t \in q.mapTx, NEW o \in Inputs[t]  PROVE Maker(o) \notin D
  <2>1. t \in p.mapTx /\ t \notin D /\ t \in Tx
    BY <1>3 DEF IsPool
  <2>2. o \in Outputs[Maker(o)]
    BY <2>1, MakerOf
  <2>3. ASSUME Maker(o) \in D  PROVE FALSE
    <3>1. o \in Creates(D)
      BY <2>2, <2>3 DEF Creates
    <3>2. t \in Children(p, D)
      BY <2>1, <3>1, ChildrenAre
    <3> QED  BY <1>2, <2>1, <3>2
  <2> QED  BY <2>3
<1> QED  BY <1>2, <1>3, <1>4

\* What is left after the conflicts of t are removed spends nothing that t spends.
LEMMA ConflictsRemoved ==
  ASSUME NEW p, IsPool(p), NEW t, NEW q, q = removeConflicts(p, t), t \notin p.mapTx
  PROVE  /\ IsPool(q) /\ q.mapTx \subseteq p.mapTx
         /\ \A u \in q.mapTx : Inputs[u] \cap Inputs[t] = {}
         /\ \A u \in q.mapTx : \A o \in Inputs[u] : Maker(o) \in p.mapTx => Maker(o) \in q.mapTx
<1> DEFINE S == {p.mapNextTx[o] : o \in Inputs[t] \cap DOMAIN p.mapNextTx} \ {t}
<1>1. q = remove(p, S, TRUE)
  BY DEF removeConflicts
<1>2. /\ DOMAIN p.mapNextTx = Spends(p.mapTx)
      /\ \A u \in p.mapTx : \A o \in Inputs[u] : o \in Spends(p.mapTx) /\ p.mapNextTx[o] = u
  BY Spenders
<1>3. ASSUME NEW u \in p.mapTx, NEW o \in Inputs[u], o \in Inputs[t]  PROVE u \in S
  <2>1. o \in DOMAIN p.mapNextTx /\ p.mapNextTx[o] = u /\ u # t
    BY <1>2
  <2> QED  BY <1>3, <2>1
<1> HIDE DEF S
<1>4. /\ IsPool(q) /\ q.mapTx \subseteq p.mapTx \ S
      /\ \A u \in q.mapTx : \A o \in Inputs[u] : Maker(o) \in p.mapTx => Maker(o) \in q.mapTx
  BY <1>1, RemovedRecursively
<1> QED  BY <1>3, <1>4

-------------------------------------------------------------------------------
(* The chain: what the blocks below a tip created and spent. *)

LEMMA TreeFacts ==
  /\ Genesis \in Blocks /\ Height(Genesis) = 0 /\ TxsOf[Genesis] = ToSet(Contents[Genesis])
  /\ \A b \in Blocks : Height(b) \in Nat /\ TxsOf[b] \subseteq Tx
  /\ \A b \in Blocks \ {Genesis} :
       /\ Parent[b] \in Blocks /\ Height(b) = Height(Parent[b]) + 1
       /\ ToSet(Chain[b]) = ToSet(Chain[Parent[b]]) \cup {b}
       /\ TxsOf[b] = TxsOf[Parent[b]] \cup ToSet(Contents[b])
<1>1. /\ Genesis \in Blocks /\ Parent \in [Blocks \ {Genesis} -> Blocks]
      /\ Chain \in [Blocks -> Seq(Blocks)] /\ Chain[Genesis] = <<Genesis>>
      /\ Contents \in [Blocks -> Seq(Tx)]
      /\ \A b \in Blocks \ {Genesis} : Chain[b] = Append(Chain[Parent[b]], b)
  BY MempoolAssumption DEF MempoolAssumption
<1>2. \A b \in Blocks : TxsOf[b] = UNION {ToSet(Contents[c]) : c \in ToSet(Chain[b])}
  BY DEF TxsOf
<1>3. ToSet(Chain[Genesis]) = {Genesis}
  BY <1>1 DEF ToSet
<1>4. \A b \in Blocks : Len(Chain[b]) \in Nat /\ ToSet(Chain[b]) \subseteq Blocks
  BY <1>1 DEF ToSet
<1>5. ASSUME NEW b \in Blocks \ {Genesis}
      PROVE  /\ Parent[b] \in Blocks /\ Len(Chain[b]) = Len(Chain[Parent[b]]) + 1
             /\ ToSet(Chain[b]) = ToSet(Chain[Parent[b]]) \cup {b}
  <2> DEFINE s == Chain[Parent[b]]
  <2>1. Parent[b] \in Blocks /\ s \in Seq(Blocks) /\ Chain[b] = Append(s, b)
    BY <1>1
  <2> HIDE DEF s
  <2>2. /\ Len(Append(s, b)) = Len(s) + 1
        /\ ToSet(Append(s, b)) = ToSet(s) \cup {b}
    <3>1. DOMAIN Append(s, b) = 1 .. Len(s) + 1 /\ DOMAIN s = 1 .. Len(s) /\ Len(s) \in Nat
      BY <2>1
    <3>2. \A i \in 1 .. Len(s) : Append(s, b)[i] = s[i]
      BY <2>1
    <3>3. Append(s, b)[Len(s) + 1] = b
      BY <2>1
    <3>4. \A i \in 1 .. Len(s) + 1 : i \in 1 .. Len(s) \/ i = Len(s) + 1
      BY <3>1
    <3>5. Len(Append(s, b)) = Len(s) + 1
      BY <2>1
    <3> QED  BY <3>1, <3>2, <3>3, <3>4, <3>5 DEF ToSet
  <2> QED  BY <2>1, <2>2 DEF s
<1>6. \A b \in Blocks : ToSet(Contents[b]) \subseteq Tx
  BY <1>1 DEF ToSet
<1>7. TxsOf[Genesis] = ToSet(Contents[Genesis])
  <2>1. TxsOf[Genesis] = UNION {ToSet(Contents[c]) : c \in {Genesis}}
    BY <1>1, <1>2, <1>3
  <2> QED  BY <2>1
<1>8. \A b \in Blocks : TxsOf[b] \subseteq Tx
  BY <1>2, <1>4, <1>6
<1>9. ASSUME NEW b \in Blocks \ {Genesis}
      PROVE  TxsOf[b] = TxsOf[Parent[b]] \cup ToSet(Contents[b])
  <2>1. /\ TxsOf[b] = UNION {ToSet(Contents[c]) : c \in ToSet(Chain[b])}
        /\ TxsOf[Parent[b]] = UNION {ToSet(Contents[c]) : c \in ToSet(Chain[Parent[b]])}
        /\ ToSet(Chain[b]) = ToSet(Chain[Parent[b]]) \cup {b}
    BY <1>2, <1>5
  <2> QED  BY <2>1, Zenon
<1>10. Height(Genesis) = 0
  BY <1>1 DEF Height
<1>11. \A b \in Blocks : Height(b) \in Nat
  <2>1. \A b \in Blocks : Len(Chain[b]) # 0
    <3> SUFFICES ASSUME NEW b \in Blocks, Len(Chain[b]) = 0  PROVE FALSE
      OBVIOUS
    <3>1. CASE b = Genesis
      BY <1>1, <3>1
    <3>2. CASE b # Genesis
      BY <1>4, <1>5, <3>2
    <3> QED  BY <3>1, <3>2
  <2> QED  BY <1>4, <2>1 DEF Height
<1>12. \A b \in Blocks \ {Genesis} : Height(b) = Height(Parent[b]) + 1
  BY <1>4, <1>5 DEF Height
<1> QED  BY <1>1, <1>5, <1>7, <1>8, <1>9, <1>10, <1>11, <1>12

\* What holds of the genesis block, and of a block when it holds of its parent.
LEMMA TreeInduction ==
  ASSUME NEW S, Genesis \in S,
         \A b \in Blocks \ {Genesis} : Parent[b] \in S => b \in S
  PROVE  \A b \in Blocks : b \in S
<1> SUFFICES ASSUME NEW x \in Blocks, x \notin S  PROVE FALSE
  OBVIOUS
<1> DEFINE T == {Height(b) : b \in Blocks \ S}
<1>1. T \in SUBSET Nat /\ T # {}
  BY TreeFacts
<1> HIDE DEF T
<1>2. PICK n \in T : \A m \in T : n <= m
  BY <1>1, LeastNatural
<1>3. PICK b \in Blocks \ S : n = Height(b)
  BY DEF T
<1>4. b \in Blocks \ {Genesis}
  BY <1>3
<1>5. Parent[b] \in Blocks /\ Height(b) = Height(Parent[b]) + 1 /\ Height(Parent[b]) \in Nat
  BY <1>4, TreeFacts
<1>6. Parent[b] \in S
  <2>1. Parent[b] \notin S => Height(Parent[b]) \in T
    BY <1>5 DEF T
  <2> QED  BY <1>2, <1>3, <1>5, <2>1
<1> QED  BY <1>3, <1>4, <1>6

LEMMA BlockSpends ==
  ASSUME NEW b \in Blocks \ {Genesis}
  PROVE  Spends(ToSet(Contents[b])) \subseteq Unspent[Parent[b]] \cup Creates(ToSet(Contents[b]))
<1> DEFINE txs == Contents[b]
<1>1. txs \in Seq(Tx)
  BY MempoolAssumption DEF MempoolAssumption
<1>2. \A i \in DOMAIN txs :
        Inputs[txs[i]] \subseteq Unspent[Parent[b]] \cup Creates({txs[j] : j \in 1 .. i - 1})
  BY MempoolAssumption DEF MempoolAssumption
<1> HIDE DEF txs
<1>3. ASSUME NEW i \in DOMAIN txs  PROVE {txs[j] : j \in 1 .. i - 1} \subseteq ToSet(txs)
  <2>1. \A j \in 1 .. i - 1 : j \in DOMAIN txs
    BY <1>1
  <2> QED  BY <2>1 DEF ToSet
<1>4. ASSUME NEW o \in Spends(ToSet(txs))
      PROVE  o \in Unspent[Parent[b]] \cup Creates(ToSet(txs))
  <2>1. PICK i \in DOMAIN txs : o \in Inputs[txs[i]]
    BY <1>4 DEF Spends, ToSet
  <2>2. o \in Unspent[Parent[b]] \/ o \in Creates({txs[j] : j \in 1 .. i - 1})
    BY <1>2, <2>1
  <2> QED  BY <1>3, <2>2 DEF Creates
<1> QED  BY <1>4 DEF txs

\* What a transaction of the chain spends was made by one of the chain.
LEMMA ChainIsClosed ==
  ASSUME NEW b \in Blocks, NEW t \in TxsOf[b], NEW o \in Inputs[t]
  PROVE  Maker(o) \in TxsOf[b]
<1> DEFINE S == {c \in Blocks : \A u \in TxsOf[c] : \A i \in Inputs[u] : Maker(i) \in TxsOf[c]}
<1>1. ASSUME NEW X \in SUBSET Tx, NEW i \in Creates(X)  PROVE Maker(i) \in X
  BY MakerOf DEF Creates
<1>2. Genesis \in S
  <2>1. ASSUME NEW u \in TxsOf[Genesis], NEW i \in Inputs[u]  PROVE Maker(i) \in TxsOf[Genesis]
    <3>1. /\ TxsOf[Genesis] = ToSet(Contents[Genesis]) /\ TxsOf[Genesis] \in SUBSET Tx
          /\ Spends(ToSet(Contents[Genesis])) \subseteq Creates(ToSet(Contents[Genesis]))
      BY TreeFacts, MempoolAssumption DEF MempoolAssumption
    <3>2. i \in Creates(TxsOf[Genesis])
      BY <2>1, <3>1 DEF Spends
    <3> QED  BY <1>1, <3>1, <3>2
  <2> QED  BY <2>1, TreeFacts
<1>3. ASSUME NEW c \in Blocks \ {Genesis}, Parent[c] \in S  PROVE c \in S
  <2> DEFINE X == ToSet(Contents[c])
             Y == TxsOf[Parent[c]]
  <2>1. /\ Spends(X) \subseteq Unspent[Parent[c]] \cup Creates(X)
        /\ TxsOf[c] = Y \cup X /\ Y \in SUBSET Tx /\ TxsOf[c] \in SUBSET Tx /\ Parent[c] \in Blocks
    BY TreeFacts, BlockSpends
  <2>2. Unspent[Parent[c]] \subseteq Creates(Y)
    BY <2>1 DEF Unspent
  <2> HIDE DEF X, Y
  <2>3. ASSUME NEW u \in TxsOf[c], NEW i \in Inputs[u]  PROVE Maker(i) \in TxsOf[c]
    <3>1. CASE u \in X
      <4>1. i \in Creates(Y) \/ i \in Creates(X)
        BY <2>1, <2>2, <2>3, <3>1 DEF Spends
      <4>2. X \in SUBSET Tx
        BY <2>1
      <4> QED  BY <1>1, <2>1, <4>1, <4>2
    <3>2. CASE u \in Y
      <4>1. Maker(i) \in Y
        BY <1>3, <2>3, <3>2 DEF Y
      <4> QED  BY <2>1, <4>1
    <3> QED  BY <2>1, <2>3, <3>1, <3>2
  <2> QED  BY <2>3
<1> HIDE DEF S
<1>4. b \in S
  BY <1>2, <1>3, TreeInduction
<1> QED  BY <1>4 DEF S

LEMMA UnspentIs ==
  ASSUME NEW b \in Blocks, NEW o
  PROVE  /\ o \in Unspent[b] => Maker(o) \in TxsOf[b] /\ o \in Outputs[Maker(o)]
         /\ o \in Unspent[b] <=> o \in Creates(TxsOf[b]) /\ o \notin Spends(TxsOf[b])
<1>1. TxsOf[b] \subseteq Tx
  BY TreeFacts
<1>2. o \in Unspent[b] <=> o \in Creates(TxsOf[b]) /\ o \notin Spends(TxsOf[b])
  BY DEF Unspent
<1>3. ASSUME o \in Creates(TxsOf[b])  PROVE Maker(o) \in TxsOf[b] /\ o \in Outputs[Maker(o)]
  <2>1. PICK t \in TxsOf[b] : o \in Outputs[t]
    BY <1>3 DEF Creates
  <2> QED  BY <1>1, <2>1, MakerOf
<1> QED  BY <1>2, <1>3

\* An output that is unspent at b was made by b, or was unspent at its parent.
LEMMA UnspentBelow ==
  ASSUME NEW b \in Blocks \ {Genesis}, NEW o \in Unspent[b]
  PROVE  Maker(o) \in ToSet(Contents[b]) \/ o \in Unspent[Parent[b]]
<1>1. TxsOf[b] = TxsOf[Parent[b]] \cup ToSet(Contents[b]) /\ Parent[b] \in Blocks
  BY TreeFacts
<1>2. Maker(o) \in TxsOf[b] /\ o \in Outputs[Maker(o)] /\ o \notin Spends(TxsOf[b])
  BY UnspentIs
<1>3. ASSUME Maker(o) \in TxsOf[Parent[b]]  PROVE o \in Unspent[Parent[b]]
  <2>1. o \in Creates(TxsOf[Parent[b]])
    BY <1>2, <1>3 DEF Creates
  <2>2. o \notin Spends(TxsOf[Parent[b]])
    BY <1>1, <1>2 DEF Spends
  <2> QED  BY <1>1, <2>1, <2>2, UnspentIs
<1> QED  BY <1>1, <1>2, <1>3

\* What b does not spend stays unspent.
LEMMA UnspentAbove ==
  ASSUME NEW b \in Blocks \ {Genesis}, NEW o, o \notin Spends(ToSet(Contents[b])),
         \/ o \in Unspent[Parent[b]]
         \/ Maker(o) \in ToSet(Contents[b]) /\ o \in Outputs[Maker(o)]
  PROVE  o \in Unspent[b]
<1>1. TxsOf[b] = TxsOf[Parent[b]] \cup ToSet(Contents[b]) /\ Parent[b] \in Blocks
  BY TreeFacts
<1>2. Spends(TxsOf[b]) = Spends(TxsOf[Parent[b]]) \cup Spends(ToSet(Contents[b]))
  BY <1>1 DEF Spends
<1>3. CASE o \in Unspent[Parent[b]]
  <2>1. Maker(o) \in TxsOf[Parent[b]] /\ o \in Outputs[Maker(o)] /\ o \notin Spends(TxsOf[Parent[b]])
    BY <1>1, <1>3, UnspentIs
  <2>2. o \in Creates(TxsOf[b])
    BY <1>1, <2>1 DEF Creates
  <2> QED  BY <1>2, <2>1, <2>2, UnspentIs
<1>4. CASE Maker(o) \in ToSet(Contents[b]) /\ o \in Outputs[Maker(o)]
  <2>1. o \in Creates(TxsOf[b])
    BY <1>1, <1>4 DEF Creates
  <2>2. Maker(o) \notin TxsOf[Parent[b]]
    BY <1>4, MempoolAssumption DEF MempoolAssumption
  <2>3. ASSUME o \in Spends(TxsOf[Parent[b]])  PROVE FALSE
    <3>1. PICK u \in TxsOf[Parent[b]] : o \in Inputs[u]
      BY <2>3 DEF Spends
    <3>2. Maker(o) \in TxsOf[Parent[b]]
      BY <1>1, <3>1, ChainIsClosed
    <3> QED  BY <2>2, <3>2
  <2> QED  BY <1>2, <2>1, <2>3, UnspentIs
<1> QED  BY <1>3, <1>4

\* What is mature at the parent is mature at b.
LEMMA MatureAbove ==
  ASSUME NEW b \in Blocks \ {Genesis}, NEW o, Maker(o) \in TxsOf[Parent[b]], Mature(Parent[b], o)
  PROVE  Mature(b, o)
<1> DEFINE t == Maker(o)
           A == {c \in ToSet(Chain[Parent[b]]) : t \in ToSet(Contents[c])}
           B == {c \in ToSet(Chain[b]) : t \in ToSet(Contents[c])}
<1>1. /\ Parent[b] \in Blocks /\ Height(b) = Height(Parent[b]) + 1 /\ Height(Parent[b]) \in Nat
      /\ ToSet(Chain[b]) = ToSet(Chain[Parent[b]]) \cup {b}
      /\ \A c \in Blocks : Height(c) \in Nat
  BY TreeFacts
<1>2. t \notin ToSet(Contents[b])
  BY MempoolAssumption DEF MempoolAssumption
<1>3. A = B
  BY <1>1, <1>2
<1>4. HeightIn(Parent[b], t) = Height(CHOOSE c \in A : TRUE) /\ HeightIn(b, t) = Height(CHOOSE c \in B : TRUE)
  BY DEF HeightIn
<1>5. HeightIn(Parent[b], t) \in Nat
  <2>1. TxsOf[Parent[b]] = UNION {ToSet(Contents[c]) : c \in ToSet(Chain[Parent[b]])}
    BY <1>1 DEF TxsOf
  <2>2. A # {}
    BY <2>1
  <2>3. A \subseteq Blocks
    BY <1>1, MempoolAssumption DEF MempoolAssumption, ToSet
  <2> HIDE DEF A
  <2>4. (CHOOSE c \in A : TRUE) \in Blocks
    BY <2>2, <2>3
  <2> QED  BY <1>1, <1>4, <2>4
<1>6. HeightIn(b, t) = HeightIn(Parent[b], t)
  BY <1>3, <1>4
<1>7. Maturity \in Nat
  BY MempoolAssumption DEF MempoolAssumption
<1> QED  BY <1>1, <1>5, <1>6, <1>7 DEF Mature
-------------------------------------------------------------------------------
(* The pool: what its transactions spend. *)

\* The first two parts of PoolIsSpendable; the third is that mapNextTx is exact.
Spendable(p, b) ==
  \A t \in p.mapTx :
    /\ t \notin TxsOf[b]
    /\ \A o \in Inputs[t] : Maker(o) \in p.mapTx \/ (o \in Unspent[b] /\ Mature(b, o))

\* While a block is undone: what is spent of it may not be there yet.
SpendableBut(p, b, P) ==
  \A t \in p.mapTx :
    /\ t \notin TxsOf[b]
    /\ \A o \in Inputs[t] : Maker(o) \in p.mapTx \/ o \in Unspent[b] \/ Maker(o) \in P

\* A transaction of the chain is not accepted: what it spends is spent.
LEMMA NotConfirmed ==
  ASSUME NEW p, NEW b \in Blocks, p.mapTx \cap TxsOf[b] = {}, NEW t, Accepts(p, b, t)
  PROVE  t \notin TxsOf[b]
<1> SUFFICES ASSUME t \in TxsOf[b]  PROVE FALSE
  OBVIOUS
<1>1. PICK o \in Inputs[t] : Maker(o) \in p.mapTx \/ o \in Unspent[b]
  BY DEF Accepts, MayEnter
<1>2. Maker(o) \in TxsOf[b]
  BY ChainIsClosed
<1>3. o \in Spends(TxsOf[b])
  BY DEF Spends
<1> QED  BY <1>1, <1>2, <1>3, UnspentIs

LEMMA Accepted ==
  ASSUME NEW p, IsPool(p), NEW b \in Blocks, NEW P, SpendableBut(p, b, P),
         NEW t \in Tx, Accepts(p, b, t), NEW q, q = addUnchecked(p, t)
  PROVE  /\ IsPool(q) /\ q.mapTx = p.mapTx \cup {t}
         /\ SpendableBut(q, b, P \ {t})
         /\ Spendable(p, b) => Spendable(q, b)
<1>1. /\ t \notin Special /\ Inputs[t] \cap DOMAIN p.mapNextTx = {}
      /\ \A o \in Inputs[t] : Maker(o) \in p.mapTx \/ (o \in Unspent[b] /\ Mature(b, o))
  BY DEF Accepts, MayEnter
<1>2. IsPool(q) /\ q.mapTx = p.mapTx \cup {t}
  <2>1. IsPool(addUnchecked(p, t)) /\ addUnchecked(p, t).mapTx = p.mapTx \cup {t}
    BY <1>1, PoolGrows
  <2> QED  BY <2>1
<1>3. t \notin TxsOf[b]
  BY NotConfirmed DEF SpendableBut
<1>4. SpendableBut(q, b, P \ {t})
  BY <1>1, <1>2, <1>3 DEF SpendableBut
<1>5. Spendable(p, b) => Spendable(q, b)
  BY <1>1, <1>2, <1>3 DEF Spendable
<1> QED  BY <1>2, <1>4, <1>5

LEMMA SpendableIs ==
  ASSUME NEW p, NEW b
  PROVE  /\ Spendable(p, b) => SpendableBut(p, b, {})
         /\ IsPool(p) /\ Spendable(p, b) =>
              \A t \in p.mapTx : \A u \in p.mapTx \ {t} : Inputs[t] \cap Inputs[u] = {}
<1>1. Spendable(p, b) => SpendableBut(p, b, {})
  BY DEF Spendable, SpendableBut
<1>2. ASSUME IsPool(p), NEW t \in p.mapTx, NEW u \in p.mapTx \ {t}  PROVE Inputs[t] \cap Inputs[u] = {}
  BY <1>2 DEF IsPool
<1> QED  BY <1>1, <1>2

\* One transaction of a connected block.
LEMMA BlockStepIs ==
  ASSUME NEW p, IsPool(p), NEW t, NEW q, q = BlockStep(p, t)
  PROVE  /\ IsPool(q) /\ q.mapTx \subseteq p.mapTx /\ t \notin q.mapTx
         /\ \A u \in q.mapTx : Inputs[u] \cap Inputs[t] = {}
         /\ \A u \in q.mapTx : \A o \in Inputs[u] :
              Maker(o) \in p.mapTx => Maker(o) \in q.mapTx \/ Maker(o) = t
<1> DEFINE e == Erased(p, {t})
<1>1. q = removeConflicts(e, t)
  BY DEF BlockStep, remove
<1>2. IsPool(e) /\ e.mapTx = p.mapTx \ {t}
  BY PoolShrinks
<1> HIDE DEF e
<1>3. /\ IsPool(q) /\ q.mapTx \subseteq e.mapTx
      /\ \A u \in q.mapTx : Inputs[u] \cap Inputs[t] = {}
      /\ \A u \in q.mapTx : \A o \in Inputs[u] : Maker(o) \in e.mapTx => Maker(o) \in q.mapTx
  BY <1>1, <1>2, ConflictsRemoved
<1> QED  BY <1>2, <1>3

\* A connected block: its transactions and their conflicts are gone, with what spent
\* the conflicts, and what is left spends nothing else that went.
LEMMA BlockRemoved ==
  ASSUME NEW p, IsPool(p), NEW txs \in Seq(Tx), NEW q, q = removeForBlock(p, txs)
  PROVE  /\ IsPool(q) /\ q.mapTx \subseteq p.mapTx \ ToSet(txs)
         /\ \A u \in q.mapTx : Inputs[u] \cap Spends(ToSet(txs)) = {}
         /\ \A u \in q.mapTx : \A o \in Inputs[u] :
              Maker(o) \in p.mapTx => Maker(o) \in q.mapTx \/ Maker(o) \in ToSet(txs)
<1> DEFINE n == Len(txs)
<1>1. n \in Nat /\ n = Len(txs) /\ DOMAIN txs = 1 .. n
  OBVIOUS
<1> HIDE DEF n
<1>10. PICK r : BlockRun(r, p, n, txs) /\ r[n] = q
  BY <1>1, BlockFold
<1>2. /\ r[0] = p /\ r[n] = q
      /\ \A i \in 0 .. n - 1 : r[i + 1] = BlockStep(r[i], txs[i + 1])
  BY <1>10 DEF BlockRun
<1> DEFINE Fits(i) ==
             /\ IsPool(r[i]) /\ r[i].mapTx \subseteq p.mapTx
             /\ \A j \in 1 .. i : \A u \in r[i].mapTx : u # txs[j] /\ Inputs[u] \cap Inputs[txs[j]] = {}
             /\ \A u \in r[i].mapTx : \A o \in Inputs[u] :
                  Maker(o) \in p.mapTx => Maker(o) \in r[i].mapTx \/ \E j \in 1 .. i : Maker(o) = txs[j]
           S == {i \in 0 .. n : Fits(i)}
<1>3. 0 \in S
  BY <1>1, <1>2
<1>4. ASSUME NEW i \in 0 .. n - 1, i \in S  PROVE i + 1 \in S
  <2> DEFINE a == r[i]
             c == r[i + 1]
             t == txs[i + 1]
  <2>1. c = BlockStep(a, t)
    BY <1>1, <1>2
  <2>11. i + 1 \in 0 .. n /\ i + 1 \in 1 .. i + 1
    BY <1>1
  <2>2. Fits(i)
    BY <1>4
  <2>3. IsPool(a)
    BY <2>2
  <2> HIDE DEF a, c, t
  <2>4. /\ IsPool(c) /\ c.mapTx \subseteq a.mapTx /\ t \notin c.mapTx
        /\ \A u \in c.mapTx : Inputs[u] \cap Inputs[t] = {}
        /\ \A u \in c.mapTx : \A o \in Inputs[u] :
             Maker(o) \in a.mapTx => Maker(o) \in c.mapTx \/ Maker(o) = t
    BY <2>1, <2>3, BlockStepIs, Z3
  <2>5. \A j \in 1 .. i + 1 : j \in 1 .. i \/ j = i + 1
    OBVIOUS
  <2>6. \A j \in 1 .. i : j \in 1 .. i + 1
    OBVIOUS
  <2>7. ASSUME NEW j \in 1 .. i + 1, NEW u \in c.mapTx
        PROVE  u # txs[j] /\ Inputs[u] \cap Inputs[txs[j]] = {}
    <3>1. CASE j \in 1 .. i
      BY <2>2, <2>4, <3>1 DEF a
    <3>2. CASE j = i + 1
      BY <2>4, <3>2 DEF t
    <3> QED  BY <2>5, <3>1, <3>2
  <2>8. ASSUME NEW u \in c.mapTx, NEW o \in Inputs[u], Maker(o) \in p.mapTx
        PROVE  Maker(o) \in c.mapTx \/ \E j \in 1 .. i + 1 : Maker(o) = txs[j]
    <3>1. u \in a.mapTx
      BY <2>4
    <3>2. Maker(o) \in a.mapTx \/ \E j \in 1 .. i : Maker(o) = txs[j]
      BY <2>2, <2>8, <3>1 DEF a
    <3> QED  BY <2>11, <2>4, <2>6, <3>2 DEF t
  <2>9. IsPool(c) /\ c.mapTx \subseteq p.mapTx
    BY <2>2, <2>4 DEF a
  <2>10. Fits(i + 1)
    BY <2>7, <2>8, <2>9 DEF c
  <2> QED  BY <2>11, <2>10
<1>5. Fits(n)
  <2> HIDE DEF S
  <2>1. n \in 0 .. n
    BY <1>1
  <2>2. n \in S
    BY <1>1, <1>3, <1>4, <2>1, Induction
  <2> QED  BY <2>2 DEF S
<1>6. ASSUME NEW u \in q.mapTx  PROVE Inputs[u] \cap Spends(ToSet(txs)) = {} /\ u \notin ToSet(txs)
  <2>1. \A j \in 1 .. n : u # txs[j] /\ Inputs[u] \cap Inputs[txs[j]] = {}
    BY <1>2, <1>5
  <2> QED  BY <1>1, <2>1 DEF Spends, ToSet
<1>7. ASSUME NEW u \in q.mapTx, NEW o \in Inputs[u], Maker(o) \in p.mapTx
      PROVE  Maker(o) \in q.mapTx \/ Maker(o) \in ToSet(txs)
  <2>1. Maker(o) \in q.mapTx \/ \E j \in 1 .. n : Maker(o) = txs[j]
    BY <1>2, <1>5, <1>7
  <2> QED  BY <1>1, <2>1 DEF ToSet
<1>8. IsPool(q) /\ q.mapTx \subseteq p.mapTx
  BY <1>2, <1>5
<1> QED  BY <1>6, <1>7, <1>8

\* One transaction of an undone block.
LEMMA ResurrectedIs ==
  ASSUME NEW p, IsPool(p), NEW b \in Blocks, NEW P, SpendableBut(p, b, P), NEW t \in Tx, NEW R,
         NEW q, q = Resurrected(p, b, t, R)
  PROVE  IsPool(q) /\ SpendableBut(q, b, P \ {t}) /\ q.mapTx \subseteq p.mapTx \cup {t}
<1>1. CASE q = addUnchecked(p, t) /\ Accepts(p, b, t)
  BY <1>1, Accepted
<1>2. CASE q = remove(p, {t}, TRUE)
  <2> DEFINE S == {t}
  <2>1. /\ IsPool(q) /\ q.mapTx \subseteq p.mapTx \ S
        /\ \A u \in q.mapTx : \A o \in Inputs[u] :
             Maker(o) \notin S /\ (Maker(o) \in p.mapTx => Maker(o) \in q.mapTx)
    BY <1>2, RemovedRecursively
  <2> QED  BY <2>1 DEF SpendableBut
<1> QED  BY <1>1, <1>2 DEF Resurrected

LEMMA BlockResurrected ==
  ASSUME NEW p, IsPool(p), NEW b \in Blocks, NEW txs \in Seq(Tx), SpendableBut(p, b, ToSet(txs)),
         NEW R, NEW q, q = AllResurrected(p, b, txs, R)
  PROVE  IsPool(q) /\ SpendableBut(q, b, {}) /\ q.mapTx \subseteq p.mapTx \cup ToSet(txs)
<1> DEFINE n == Len(txs)
<1>1. n \in Nat /\ n = Len(txs) /\ DOMAIN txs = 1 .. n
  OBVIOUS
<1> HIDE DEF n
<1>7. \A i \in 1 .. n : txs[i] \in Tx /\ txs[i] \in ToSet(txs)
  BY <1>1 DEF ToSet
<1>10. PICK r : UndoRun(r, p, n, txs, b, R) /\ r[n] = q
  BY <1>1, UndoFold
<1>2. /\ r[0] = p /\ r[n] = q
      /\ \A i \in 0 .. n - 1 : r[i + 1] = Resurrected(r[i], b, txs[i + 1], R)
  BY <1>10 DEF UndoRun
<1> DEFINE Pending(i) == {txs[j] : j \in i + 1 .. n}
           S == {i \in 0 .. n : /\ IsPool(r[i]) /\ SpendableBut(r[i], b, Pending(i))
                                /\ r[i].mapTx \subseteq p.mapTx \cup ToSet(txs)}
<1>3. 0 \in S
  <2>1. Pending(0) = ToSet(txs)
    BY <1>1 DEF ToSet
  <2> HIDE DEF Pending
  <2> QED  BY <1>1, <1>2, <2>1
<1>4. ASSUME NEW i \in 0 .. n - 1, i \in S  PROVE i + 1 \in S
  <2> DEFINE t == txs[i + 1]
             P == Pending(i)
             Q == Pending(i + 1)
             a == r[i]
             c == r[i + 1]
  <2>1. c = Resurrected(a, b, t, R) /\ i + 1 \in 0 .. n /\ t \in Tx /\ t \in ToSet(txs)
    BY <1>1, <1>2, <1>7
  <2>2. P \ {t} \subseteq Q
    <3>1. \A j \in i + 1 .. n : j = i + 1 \/ j \in i + 1 + 1 .. n
      BY <1>1
    <3> QED  BY <3>1
  <2>3. IsPool(a) /\ SpendableBut(a, b, P) /\ a.mapTx \subseteq p.mapTx \cup ToSet(txs)
    BY <1>4
  <2> HIDE DEF t, a, c, P, Q, Pending
  <2>4. IsPool(c) /\ SpendableBut(c, b, P \ {t}) /\ c.mapTx \subseteq a.mapTx \cup {t}
    BY <2>1, <2>3, ResurrectedIs
  <2>5. IsPool(c) /\ SpendableBut(c, b, Q)
    BY <2>2, <2>4 DEF SpendableBut
  <2>6. c.mapTx \subseteq p.mapTx \cup ToSet(txs)
    BY <2>1, <2>3, <2>4
  <2> QED  BY <2>1, <2>5, <2>6 DEF c, Q
<1>5. IsPool(q) /\ SpendableBut(q, b, Pending(n)) /\ q.mapTx \subseteq p.mapTx \cup ToSet(txs)
  <2> HIDE DEF S, Pending
  <2>1. n \in 0 .. n
    BY <1>1
  <2>2. n \in S
    BY <1>1, <1>3, <1>4, <2>1, Induction
  <2> QED  BY <1>2, <2>2 DEF S
<1>6. Pending(n) = {}
  BY <1>1
<1> HIDE DEF Pending
<1> QED  BY <1>5, <1>6

LEMMA YoungRemoved ==
  ASSUME NEW p, IsPool(p), NEW b \in Blocks, SpendableBut(p, b, {}),
         NEW q, q = removeCoinbaseSpends(p, b)
  PROVE  IsPool(q) /\ Spendable(q, b) /\ q.mapTx \subseteq p.mapTx
<1> DEFINE S == {t \in p.mapTx : \E o \in Inputs[t] :
                   /\ Maker(o) \notin p.mapTx
                   /\ ~HaveCoins(p, b, Maker(o)) \/ ~Mature(b, o)}
<1>1. q = remove(p, S, TRUE)
  BY DEF removeCoinbaseSpends
<1>2. \A t \in p.mapTx \ S : \A o \in Inputs[t] : Maker(o) \in p.mapTx \/ Mature(b, o)
  OBVIOUS
<1> HIDE DEF S
<1>3. /\ IsPool(q) /\ q.mapTx \subseteq p.mapTx \ S
      /\ \A t \in q.mapTx : \A o \in Inputs[t] : Maker(o) \in p.mapTx => Maker(o) \in q.mapTx
  BY <1>1, RemovedRecursively
<1> QED  BY <1>2, <1>3 DEF Spendable, SpendableBut

-------------------------------------------------------------------------------
(* The orphans and their index. *)

\* The orphans of D are those that byPrev lists under what they spend.
Lists(f, D) ==
  f = [u \in UNION {Prevs(o) : o \in D} |-> {o \in D : u \in Prevs(o)}]

OrphansListed ==
  /\ orphans = [o \in DOMAIN orphans |-> orphans[o]]
  /\ IsFiniteSet(DOMAIN orphans) /\ DOMAIN orphans \subseteq Tx
  /\ Lists(byPrev, DOMAIN orphans)

LEMMA ListedUnder ==
  ASSUME NEW f, NEW D, Lists(f, D)
  PROVE  /\ \A u : u \in DOMAIN f <=> \E o \in D : u \in Prevs(o)
         /\ \A u \in DOMAIN f : f[u] = {o \in D : u \in Prevs(o)}
<1> DEFINE E == UNION {Prevs(o) : o \in D}
<1>1. f = [u \in E |-> {o \in D : u \in Prevs(o)}]
  BY DEF Lists
<1>2. \A u : u \in E <=> \E o \in D : u \in Prevs(o)
  OBVIOUS
<1> HIDE DEF E
<1> QED  BY <1>1, <1>2

LEMMA ListsIf ==
  ASSUME NEW f, NEW D, f = [u \in DOMAIN f |-> f[u]],
         \A u : u \in DOMAIN f <=> \E o \in D : u \in Prevs(o),
         \A u \in DOMAIN f : f[u] = {o \in D : u \in Prevs(o)}
  PROVE  Lists(f, D)
<1> DEFINE E == UNION {Prevs(o) : o \in D}
<1>1. DOMAIN f = E
  OBVIOUS
<1> HIDE DEF E
<1>2. f = [u \in E |-> {o \in D : u \in Prevs(o)}]
  BY <1>1
<1> QED  BY <1>2 DEF Lists, E

LEMMA WaitingIs ==
  ASSUME OrphansListed, NEW u
  PROVE  WaitingFor(u) = {o \in DOMAIN orphans : u \in Prevs(o)}
<1>1. /\ u \in DOMAIN byPrev <=> \E o \in DOMAIN orphans : u \in Prevs(o)
      /\ u \in DOMAIN byPrev => byPrev[u] = {o \in DOMAIN orphans : u \in Prevs(o)}
  BY ListedUnder DEF OrphansListed
<1>2. CASE u \in DOMAIN byPrev
  BY <1>1, <1>2 DEF WaitingFor
<1>3. CASE u \notin DOMAIN byPrev
  BY <1>1, <1>3 DEF WaitingFor
<1> QED  BY <1>2, <1>3

\* The index without the orphans of S.
LEMMA ListsFewer ==
  ASSUME NEW f, NEW D, Lists(f, D), NEW S, NEW h,
         h = [u \in {v \in DOMAIN f : f[v] \ S # {}} |-> f[u] \ S]
  PROVE  Lists(h, D \ S)
<1>1. /\ \A u : u \in DOMAIN f <=> \E o \in D : u \in Prevs(o)
      /\ \A u \in DOMAIN f : f[u] = {o \in D : u \in Prevs(o)}
  BY ListedUnder
<1>2. h = [u \in DOMAIN h |-> h[u]]
  OBVIOUS
<1>3. \A u : u \in DOMAIN h <=> u \in DOMAIN f /\ f[u] \ S # {}
  OBVIOUS
<1>4. ASSUME NEW u  PROVE u \in DOMAIN h <=> \E o \in D \ S : u \in Prevs(o)
  BY <1>1, <1>3
<1>5. ASSUME NEW u \in DOMAIN h  PROVE h[u] = {o \in D \ S : u \in Prevs(o)}
  <2>1. u \in DOMAIN f /\ h[u] = f[u] \ S
    BY <1>3
  <2> QED  BY <1>1, <2>1
<1> DEFINE E == D \ S
<1>6. /\ \A u : u \in DOMAIN h <=> \E o \in E : u \in Prevs(o)
      /\ \A u \in DOMAIN h : h[u] = {o \in E : u \in Prevs(o)}
  BY <1>4, <1>5
<1> HIDE DEF E
<1>7. DOMAIN h = UNION {Prevs(o) : o \in E}
  BY <1>6
<1>8. Lists(h, E)
  BY <1>2, <1>6, <1>7 DEF Lists
<1> QED  BY <1>8 DEF E

LEMMA Erasing ==
  ASSUME OrphansListed, NEW S, EraseOrphans(S)
  PROVE  OrphansListed' /\ DOMAIN orphans' = DOMAIN orphans \ S
<1> DEFINE D == DOMAIN orphans
<1>1. orphans' = [o \in D \ S |-> orphans[o]]
  BY DEF EraseOrphans, Without
<1>2. DOMAIN orphans' = D \ S
  BY <1>1
<1>3. orphans' = [o \in DOMAIN orphans' |-> orphans'[o]]
  BY <1>1
<1>4. byPrev' = [u \in {v \in DOMAIN byPrev : byPrev[v] \ S # {}} |-> byPrev[u] \ S]
  BY DEF EraseOrphans, Unlisted
<1>5. Lists(byPrev, D)
  BY DEF OrphansListed
<1> HIDE DEF D
<1>6. Lists(byPrev', D \ S)
  BY <1>4, <1>5, ListsFewer
<1>7. IsFiniteSet(D \ S) /\ D \ S \subseteq Tx
  BY FS_Difference DEF OrphansListed, D
<1> QED  BY <1>2, <1>3, <1>6, <1>7 DEF OrphansListed, D

LEMMA Adding ==
  ASSUME OrphansListed, NEW t \in Tx, NEW peer, AddOrphanTx(t, peer)
  PROVE  OrphansListed' /\ DOMAIN orphans' \subseteq DOMAIN orphans \cup {t}
<1> DEFINE D == DOMAIN orphans
           G == D \cup {t}
           grown == [o \in G |-> IF o = t THEN peer ELSE orphans[o]]
           listed == [u \in DOMAIN byPrev \cup Prevs(t) |->
                        WaitingFor(u) \cup (IF u \in Prevs(t) THEN {t} ELSE {})]
<1>1. CASE t \in D
  <2>1. UNCHANGED <<orphans, byPrev>>
    BY <1>1 DEF AddOrphanTx
  <2> QED  BY <2>1 DEF OrphansListed
<1>2. CASE t \notin D
  <2>1. \/ orphans' = grown /\ byPrev' = listed
        \/ \E victim \in DOMAIN grown :
             /\ orphans' = Without(grown, {victim})
             /\ byPrev' = LET rest(u) == listed[u] \ {victim}
                          IN  [u \in {v \in DOMAIN listed : rest(v) # {}} |-> rest(u)]
    BY <1>2 DEF AddOrphanTx
  <2>2. DOMAIN grown = G /\ IsFiniteSet(G) /\ G \subseteq Tx /\ grown = [o \in G |-> grown[o]]
    BY FS_AddElement DEF OrphansListed
  <2>3. Lists(listed, G)
    <3>1. /\ \A u : u \in DOMAIN byPrev <=> \E o \in D : u \in Prevs(o)
          /\ \A u : WaitingFor(u) = {o \in D : u \in Prevs(o)}
      BY ListedUnder, WaitingIs DEF OrphansListed
    <3>2. /\ listed = [u \in DOMAIN listed |-> listed[u]]
          /\ DOMAIN listed = DOMAIN byPrev \cup Prevs(t)
          /\ \A u \in DOMAIN listed :
               listed[u] = WaitingFor(u) \cup (IF u \in Prevs(t) THEN {t} ELSE {})
      OBVIOUS
    <3> HIDE DEF listed
    <3>3. \A u : u \in DOMAIN listed <=> \E o \in G : u \in Prevs(o)
      BY <3>1, <3>2
    <3>4. ASSUME NEW u \in DOMAIN listed  PROVE listed[u] = {o \in G : u \in Prevs(o)}
      <4>1. listed[u] = WaitingFor(u) \cup (IF u \in Prevs(t) THEN {t} ELSE {})
        BY <3>2
      <4>2. WaitingFor(u) = {o \in D : u \in Prevs(o)}
        BY <3>1
      <4> QED  BY <4>1, <4>2
    <3> HIDE DEF G
    <3> QED  BY <3>2, <3>3, <3>4, ListsIf
  <2> HIDE DEF D, G, grown, listed
  <2>4. CASE orphans' = grown /\ byPrev' = listed
    BY <2>2, <2>3, <2>4 DEF OrphansListed, G, D
  <2>5. ASSUME NEW victim \in DOMAIN grown,
               orphans' = Without(grown, {victim}),
               byPrev' = LET rest(u) == listed[u] \ {victim}
                         IN  [u \in {v \in DOMAIN listed : rest(v) # {}} |-> rest(u)]
        PROVE  OrphansListed' /\ DOMAIN orphans' \subseteq D \cup {t}
    <3> DEFINE V == {victim}
    <3>1. byPrev' = [u \in {v \in DOMAIN listed : listed[v] \ V # {}} |-> listed[u] \ V]
      BY <2>5
    <3>2. orphans' = [o \in G \ V |-> grown[o]]
      BY <2>2, <2>5 DEF Without
    <3> HIDE DEF V
    <3>3. Lists(byPrev', G \ V)
      BY <2>3, <3>1, ListsFewer
    <3>4. DOMAIN orphans' = G \ V /\ orphans' = [o \in DOMAIN orphans' |-> orphans'[o]]
      BY <3>2
    <3>5. IsFiniteSet(G \ V) /\ G \ V \subseteq Tx
      BY <2>2, FS_Difference
    <3> QED  BY <3>3, <3>4, <3>5 DEF OrphansListed, G
  <2> QED  BY <2>1, <2>4, <2>5 DEF D
<1> QED  BY <1>1, <1>2

-------------------------------------------------------------------------------
(* The resolution of the orphans. *)

IsWork(w) ==
  w = [pool |-> w.pool, queue |-> w.queue, erase |-> w.erase,
       refused |-> w.refused, punish |-> w.punish, misbehaving |-> w.misbehaving]

\* The work queue has, once each, what came into the pool: a transaction, then orphans.
Work(w) ==
  /\ IsWork(w) /\ IsPool(w.pool) /\ Spendable(w.pool, tip)
  /\ w.queue \in Seq(Tx) /\ Len(w.queue) >= 1
  /\ pool.mapTx \subseteq w.pool.mapTx
  /\ \A j \in 1 .. Len(w.queue) : w.queue[j] \in w.pool.mapTx
  /\ \A x \in w.pool.mapTx \ pool.mapTx : \E j \in 1 .. Len(w.queue) : x = w.queue[j]
  /\ \A j, k \in 1 .. Len(w.queue) : j # k => w.queue[j] # w.queue[k]
  /\ \A j \in 2 .. Len(w.queue) : w.queue[j] \in DOMAIN orphans

\* OrphansWait, but for what position i of the queue, tried with the orphans of X, and the
\* positions after it are about to find.
Waiting(w, i, X) ==
  w.misbehaving = {} =>
    \A o \in DOMAIN orphans \ w.erase : \E u \in Prevs(o) :
      \/ u \in unresolved \/ ~HaveCoins(w.pool, tip, u)
      \/ \E k \in 1 .. Len(w.queue) : u = w.queue[k] /\ (k > i \/ (k = i /\ o \notin X))

\* The queue only grows.
Longer(q, w) ==
  Len(w.queue) <= Len(q.queue) /\ \A j \in 1 .. Len(w.queue) : q.queue[j] = w.queue[j]

\* TryOrphan by its outcomes.
LEMMA Tried ==
  ASSUME NEW w, IsWork(w), NEW o, NEW q, q = TryOrphan(w, o)
  PROVE  \/ q = w /\ w.misbehaving # {}
         \/ q = w /\ MissingInputs(w.pool, tip, o)
         \/ /\ IsWork(q) /\ Accepts(w.pool, tip, o)
            /\ q.pool = addUnchecked(w.pool, o) /\ q.queue = Append(w.queue, o)
            /\ q.erase = w.erase \cup {o} /\ q.misbehaving = w.misbehaving
         \/ /\ IsWork(q) /\ q.pool = w.pool /\ q.queue = w.queue
            /\ q.erase = w.erase \cup {o} /\ w.misbehaving \subseteq q.misbehaving
<1>1. CASE orphans[o] \in w.misbehaving
  BY <1>1 DEF TryOrphan
<1>2. CASE orphans[o] \notin w.misbehaving /\ Accepts(w.pool, tip, o) /\ o \notin w.refused
  <2>1. q = [w EXCEPT !.pool = addUnchecked(@, o), !.queue = Append(@, o), !.erase = @ \cup {o}]
    BY <1>2 DEF TryOrphan
  <2>2. /\ q.pool = addUnchecked(w.pool, o) /\ q.queue = Append(w.queue, o)
        /\ q.erase = w.erase \cup {o} /\ q.misbehaving = w.misbehaving
        /\ q = [pool |-> q.pool, queue |-> q.queue, erase |-> q.erase,
                refused |-> q.refused, punish |-> q.punish, misbehaving |-> q.misbehaving]
    BY <2>1 DEF IsWork
  <2> QED  BY <1>2, <2>2 DEF IsWork
<1>3. CASE /\ orphans[o] \notin w.misbehaving /\ ~(Accepts(w.pool, tip, o) /\ o \notin w.refused)
           /\ MissingInputs(w.pool, tip, o)
  BY <1>3 DEF TryOrphan
<1>4. CASE /\ orphans[o] \notin w.misbehaving /\ ~(Accepts(w.pool, tip, o) /\ o \notin w.refused)
           /\ ~MissingInputs(w.pool, tip, o)
  <2>1. q = [w EXCEPT !.erase = @ \cup {o},
                      !.misbehaving = @ \cup (IF o \in w.refused /\ w.punish THEN {orphans[o]} ELSE {})]
    BY <1>4 DEF TryOrphan
  <2>2. /\ q.pool = w.pool /\ q.queue = w.queue /\ q.erase = w.erase \cup {o}
        /\ w.misbehaving \subseteq q.misbehaving
        /\ q = [pool |-> q.pool, queue |-> q.queue, erase |-> q.erase,
                refused |-> q.refused, punish |-> q.punish, misbehaving |-> q.misbehaving]
    BY <2>1 DEF IsWork
  <2> QED  BY <2>2 DEF IsWork
<1> QED  BY <1>1, <1>2, <1>3, <1>4

\* An orphan is accepted.
LEMMA WorkGrows ==
  ASSUME tip \in Blocks, NEW w, Work(w), NEW o \in DOMAIN orphans, o \in Tx, Accepts(w.pool, tip, o),
         NEW q, IsWork(q), q.pool = addUnchecked(w.pool, o), q.queue = Append(w.queue, o)
  PROVE  /\ Work(q) /\ Longer(q, w) /\ q.pool.mapTx = w.pool.mapTx \cup {o}
         /\ Len(q.queue) = Len(w.queue) + 1 /\ q.queue[Len(q.queue)] = o
<1> DEFINE n == Len(w.queue)
           a == w.pool
           c == q.pool
<1>1. /\ IsPool(a) /\ Spendable(a, tip) /\ w.queue \in Seq(Tx) /\ n \in Nat /\ n >= 1
      /\ c = addUnchecked(a, o) /\ Accepts(a, tip, o)
  BY DEF Work
<1> HIDE DEF a, c
<1>2. SpendableBut(a, tip, {})
  BY <1>1, SpendableIs
<1>3. IsPool(c) /\ c.mapTx = a.mapTx \cup {o} /\ Spendable(c, tip)
  BY <1>1, <1>2, Accepted
<1>4. o \notin a.mapTx
  BY <1>1 DEF Accepts, MayEnter
<1>5. /\ q.queue \in Seq(Tx) /\ Len(q.queue) = n + 1 /\ q.queue[n + 1] = o
      /\ \A j \in 1 .. n : q.queue[j] = w.queue[j]
  BY <1>1
<1>6. \A j \in 1 .. n + 1 : j \in 1 .. n \/ j = n + 1
  BY <1>1
<1>7. \A j \in 1 .. n : j \in 1 .. n + 1
  BY <1>1
<1>8. n + 1 \in 1 .. n + 1
  BY <1>1
<1>9. \A j \in 2 .. n + 1 : j \in 2 .. n \/ j = n + 1
  BY <1>1
<1>19. \A j \in 2 .. n : j \in 1 .. n
  BY <1>1
<1>10. /\ pool.mapTx \subseteq a.mapTx
       /\ \A j \in 1 .. n : w.queue[j] \in a.mapTx
       /\ \A x \in a.mapTx \ pool.mapTx : \E j \in 1 .. n : x = w.queue[j]
       /\ \A j, k \in 1 .. n : j # k => w.queue[j] # w.queue[k]
       /\ \A j \in 2 .. n : w.queue[j] \in DOMAIN orphans
  BY DEF Work, a
<1>11. \A j \in 1 .. n + 1 : q.queue[j] \in c.mapTx
  BY <1>3, <1>5, <1>6, <1>10
<1>12. \A x \in c.mapTx \ pool.mapTx : \E j \in 1 .. n + 1 : x = q.queue[j]
  BY <1>3, <1>5, <1>7, <1>8, <1>10
<1>13. \A j, k \in 1 .. n + 1 : j # k => q.queue[j] # q.queue[k]
  BY <1>4, <1>5, <1>6, <1>10
<1>14. \A j \in 2 .. n + 1 : q.queue[j] \in DOMAIN orphans
  BY <1>5, <1>9, <1>10, <1>19
<1>15. pool.mapTx \subseteq c.mapTx /\ n + 1 >= 1
  BY <1>1, <1>3, <1>10
<1>16. Work(q)
  BY <1>3, <1>5, <1>11, <1>12, <1>13, <1>14, <1>15 DEF Work, c
<1>17. Longer(q, w)
  BY <1>1, <1>5 DEF Longer
<1> QED  BY <1>3, <1>5, <1>16, <1>17 DEF a, c

\* One orphan, tried for position i of the queue.
LEMMA TriedOnce ==
  ASSUME OrphansListed, tip \in Blocks, NEW w, Work(w), NEW i \in 1 .. Len(w.queue), NEW X,
         Waiting(w, i, X), NEW u, u = w.queue[i], NEW o, NEW q, q = TryStep(w, u, o)
  PROVE  Work(q) /\ Longer(q, w) /\ Waiting(q, i, X \cup {o})
<1> DEFINE n == Len(w.queue)
<1>1. n \in Nat /\ i \in 1 .. n /\ i \in Nat
  BY DEF Work
<1>2. \A x \in DOMAIN orphans : x \in Tx /\ (x \in WaitingFor(u) <=> u \in Prevs(x))
  BY WaitingIs DEF OrphansListed
<1>3. WaitingFor(u) \subseteq DOMAIN orphans
  BY WaitingIs
<1>4. Longer(w, w)
  BY <1>1 DEF Longer
<1> DEFINE Waits(v, x, j, Y) ==
             \E y \in Prevs(x) :
               \/ y \in unresolved \/ ~HaveCoins(v.pool, tip, y)
               \/ \E k \in 1 .. Len(v.queue) : y = v.queue[k] /\ (k > j \/ (k = j /\ x \notin Y))
<1>5. ASSUME w.misbehaving = {}, NEW x \in DOMAIN orphans, x \notin w.erase
      PROVE  Waits(w, x, i, X)
  BY <1>5 DEF Waiting
<1>6. ASSUME w.misbehaving = {}, NEW x \in DOMAIN orphans, x \notin w.erase,
             x # o \/ x \notin WaitingFor(u)
      PROVE  Waits(w, x, i, X \cup {o})
  <2>1. PICK y \in Prevs(x) :
          \/ y \in unresolved \/ ~HaveCoins(w.pool, tip, y)
          \/ \E k \in 1 .. n : y = w.queue[k] /\ (k > i \/ (k = i /\ x \notin X))
    BY <1>5, <1>6
  <2>2. CASE y \in unresolved \/ ~HaveCoins(w.pool, tip, y)
    BY <2>2
  <2>3. ASSUME NEW k \in 1 .. n, y = w.queue[k], k > i \/ (k = i /\ x \notin X)
        PROVE  Waits(w, x, i, X \cup {o})
    <3>1. k > i \/ (k = i /\ x \notin X \cup {o})
      BY <1>2, <1>6, <2>3
    <3> QED  BY <2>3, <3>1
  <2> QED  BY <2>1, <2>2, <2>3
<1> HIDE DEF n
<1>7. CASE o \notin WaitingFor(u)
  <2>1. q = w
    BY <1>7 DEF TryStep
  <2>2. Waiting(w, i, X \cup {o})
    BY <1>6, <1>7 DEF Waiting
  <2> QED  BY <1>4, <2>1, <2>2
<1>8. CASE o \in WaitingFor(u)
  <2>1. q = TryOrphan(w, o) /\ IsWork(w) /\ o \in DOMAIN orphans /\ o \in Tx
    BY <1>2, <1>3, <1>8 DEF TryStep, Work
  <2>2. CASE q = w /\ w.misbehaving # {}
    BY <1>4, <2>2 DEF Waiting
  <2>3. CASE q = w /\ MissingInputs(w.pool, tip, o)
    <3>1. PICK y \in Prevs(o) : ~HaveCoins(w.pool, tip, y)
      BY <2>3 DEF MissingInputs, Prevs
    <3>2. Waits(w, o, i, X \cup {o})
      BY <3>1
    <3> HIDE DEF Waits
    <3>3. \A x \in DOMAIN orphans \ w.erase : w.misbehaving = {} => Waits(w, x, i, X \cup {o})
      BY <1>6, <3>2
    <3>4. Waiting(w, i, X \cup {o})
      BY <3>3 DEF Waiting, Waits
    <3> QED  BY <1>4, <2>3, <3>4
  <2>4. CASE /\ IsWork(q) /\ Accepts(w.pool, tip, o)
             /\ q.pool = addUnchecked(w.pool, o) /\ q.queue = Append(w.queue, o)
             /\ q.erase = w.erase \cup {o} /\ q.misbehaving = w.misbehaving
    <3>1. /\ Work(q) /\ Longer(q, w) /\ q.pool.mapTx = w.pool.mapTx \cup {o}
          /\ Len(q.queue) = Len(w.queue) + 1 /\ q.queue[Len(q.queue)] = o
      BY <2>1, <2>4, WorkGrows
    <3>2. /\ n = Len(w.queue) /\ Len(q.queue) = n + 1 /\ q.queue[n + 1] = o
          /\ \A k \in 1 .. n : q.queue[k] = w.queue[k]
      BY <3>1 DEF n, Longer
    <3>3. \A k \in 1 .. n : k \in 1 .. n + 1
      BY <1>1
    <3>4. n + 1 \in 1 .. n + 1 /\ n + 1 > i
      BY <1>1
    <3>5. ASSUME w.misbehaving = {}, NEW x \in DOMAIN orphans, x \notin w.erase, x # o
          PROVE  Waits(q, x, i, X \cup {o})
      <4>1. Waits(w, x, i, X \cup {o})
        BY <1>6, <3>5
      <4>2. PICK y \in Prevs(x) :
              \/ y \in unresolved \/ ~HaveCoins(w.pool, tip, y)
              \/ \E k \in 1 .. n : y = w.queue[k] /\ (k > i \/ (k = i /\ x \notin X \cup {o}))
        BY <3>2, <4>1
      <4>3. CASE y \in unresolved \/ ~HaveCoins(q.pool, tip, y)
        BY <4>3
      <4>4. CASE ~HaveCoins(w.pool, tip, y) /\ HaveCoins(q.pool, tip, y)
        <5>1. y = q.queue[n + 1]
          BY <3>1, <3>2, <4>4 DEF HaveCoins
        <5> QED  BY <3>2, <3>4, <5>1
      <4>5. ASSUME NEW k \in 1 .. n, y = w.queue[k], k > i \/ (k = i /\ x \notin X \cup {o})
            PROVE  Waits(q, x, i, X \cup {o})
        <5>1. k \in 1 .. Len(q.queue) /\ y = q.queue[k]
          BY <3>2, <3>3, <4>5
        <5> QED  BY <4>5, <5>1
      <4> HIDE DEF Waits
      <4> QED  BY <4>2, <4>3, <4>4, <4>5
    <3> HIDE DEF Waits
    <3>6. \A x \in DOMAIN orphans \ q.erase : w.misbehaving = {} => Waits(q, x, i, X \cup {o})
      BY <2>4, <3>5
    <3>7. Waiting(q, i, X \cup {o})
      BY <2>4, <3>6 DEF Waiting, Waits
    <3> QED  BY <3>1, <3>7
  <2>5. CASE /\ IsWork(q) /\ q.pool = w.pool /\ q.queue = w.queue
             /\ q.erase = w.erase \cup {o} /\ w.misbehaving \subseteq q.misbehaving
    <3>1. Work(q) /\ Longer(q, w)
      BY <1>4, <2>5 DEF Work, Longer
    <3> HIDE DEF Waits
    <3>2. \A x \in DOMAIN orphans \ q.erase : q.misbehaving = {} => Waits(w, x, i, X \cup {o})
      BY <1>6, <2>5
    <3>3. Waiting(q, i, X \cup {o})
      BY <2>5, <3>2 DEF Waiting, Waits
    <3> QED  BY <3>1, <3>3
  <2> QED  BY <2>1, <2>2, <2>3, <2>4, <2>5, Tried
<1> QED  BY <1>7, <1>8

LEMMA TriedAll ==
  ASSUME OrphansListed, tip \in Blocks, NEW w, Work(w), NEW i \in 1 .. Len(w.queue),
         Waiting(w, i, {}), NEW q, q = TryWaiting(w, w.queue[i])
  PROVE  Work(q) /\ Waiting(q, i + 1, {})
<1> DEFINE txs == Order
           n == Len(txs)
           u == w.queue[i]
<1>1. n \in Nat /\ n = Len(txs) /\ DOMAIN txs = 1 .. n /\ txs = Order /\ ToSet(txs) = Tx
  BY MempoolAssumption DEF MempoolAssumption
<1> HIDE DEF n, txs
<1>10. u = w.queue[i] /\ q = TryWaiting(w, u)
  OBVIOUS
<1> HIDE DEF u
<1>11. PICK r : TryRun(r, w, n, txs, u) /\ r[n] = q
  BY <1>1, <1>10, TryFold
<1>2. /\ r[0] = w /\ r[n] = q
      /\ \A j \in 0 .. n - 1 : r[j + 1] = TryStep(r[j], u, txs[j + 1])
  BY <1>11 DEF TryRun
<1> DEFINE Done(j) == {txs[k] : k \in 1 .. j}
           Fits(j) == Work(r[j]) /\ Longer(r[j], w) /\ Waiting(r[j], i, Done(j))
           S == {j \in 0 .. n : Fits(j)}
<1>3. Len(w.queue) \in Nat /\ i \in Nat
  BY DEF Work
<1>4. 0 \in S
  <2>1. Done(0) = {}
    OBVIOUS
  <2> HIDE DEF Done
  <2>2. Longer(w, w)
    BY <1>3 DEF Longer
  <2>3. Fits(0)
    BY <1>2, <2>1, <2>2
  <2> QED  BY <1>1, <2>3
<1>5. ASSUME NEW j \in 0 .. n - 1, j \in S  PROVE j + 1 \in S
  <2> DEFINE a == r[j]
             c == r[j + 1]
             t == txs[j + 1]
             D == Done(j)
  <2>1. Work(a) /\ Longer(a, w) /\ Waiting(a, i, D) /\ c = TryStep(a, u, t)
    BY <1>2, <1>5
  <2>2. Done(j + 1) = D \cup {t}
    <3>1. \A k \in 1 .. j + 1 : k \in 1 .. j \/ k = j + 1
      OBVIOUS
    <3>2. \A k \in 1 .. j : k \in 1 .. j + 1
      OBVIOUS
    <3>3. j + 1 \in 1 .. j + 1
      OBVIOUS
    <3> QED  BY <3>1, <3>2, <3>3
  <2>3. j + 1 \in 0 .. n
    BY <1>1
  <2> HIDE DEF a, c, t, D, Done
  <2>4. Len(a.queue) \in Nat
    BY <2>1 DEF Work
  <2>5. i \in 1 .. Len(a.queue) /\ u = a.queue[i]
    BY <1>3, <1>10, <2>1, <2>4 DEF Longer
  <2>6. Work(c) /\ Longer(c, a) /\ Waiting(c, i, D \cup {t})
    BY <2>1, <2>5, TriedOnce
  <2>7. Longer(c, w)
    <3>1. Len(c.queue) \in Nat
      BY <2>6 DEF Work
    <3> QED  BY <1>3, <2>1, <2>4, <2>6, <3>1 DEF Longer
  <2>8. Work(c) /\ Longer(c, w) /\ Waiting(c, i, Done(j + 1))
    BY <2>2, <2>6, <2>7
  <2> QED  BY <2>3, <2>8 DEF c
<1>6. Work(q) /\ Longer(q, w) /\ Waiting(q, i, Done(n))
  <2> HIDE DEF S, Done
  <2>1. n \in 0 .. n
    BY <1>1
  <2>2. n \in S
    BY <1>1, <1>4, <1>5, <2>1, Induction
  <2> QED  BY <1>2, <2>2 DEF S
<1>7. Done(n) = Tx
  BY <1>1 DEF ToSet
<1> HIDE DEF Done
<1>8. Waiting(q, i, Tx)
  BY <1>6, <1>7
<1>9. Waiting(q, i + 1, {})
  <2>1. Len(q.queue) \in Nat
    BY <1>6 DEF Work
  <2>2. \A k \in 1 .. Len(q.queue) : k > i => k > i + 1 \/ k = i + 1
    BY <1>3, <2>1
  <2>3. DOMAIN orphans \subseteq Tx
    BY DEF OrphansListed
  <2> QED  BY <1>8, <2>2, <2>3 DEF Waiting
<1> QED  BY <1>6, <1>9

\* There are no more positions than orphans, and one: each is tried before the end.
LEMMA QueueIsBounded ==
  ASSUME OrphansListed, NEW w, Work(w)
  PROVE  Len(w.queue) <= Cardinality(DOMAIN orphans) + 1
<1> DEFINE n == Len(w.queue)
           D == DOMAIN orphans
           J == 2 .. n
           f == [j \in J |-> w.queue[j]]
<1>1. IsFiniteSet(D) /\ Cardinality(D) \in Nat
  BY FS_CardinalityType DEF OrphansListed
<1>2. /\ n \in Nat /\ n >= 1
      /\ \A j, k \in 1 .. n : j # k => w.queue[j] # w.queue[k]
      /\ \A j \in 2 .. n : w.queue[j] \in D
  BY DEF Work
<1> HIDE DEF n, D
<1>3. \A j \in J : j \in 1 .. n
  BY <1>2
<1>4. f \in [J -> D] /\ \A j, k \in J : f[j] = f[k] => j = k
  BY <1>2, <1>3
<1>5. f \in Injection(J, D)
  BY <1>4 DEF Injection, IsInjective
<1> HIDE DEF f, J
<1>6. IsFiniteSet(J) /\ Cardinality(J) <= Cardinality(D)
  BY <1>1, <1>5, FS_Injection
<1>7. Cardinality(2 .. n) = IF 2 > n THEN 0 ELSE n - 2 + 1
  BY <1>2, FS_Interval
<1>8. Cardinality(J) = n - 1
  BY <1>2, <1>7 DEF J
<1> QED  BY <1>1, <1>2, <1>6, <1>8 DEF n, D

\* Resolved: the queue is worked off.
LEMMA ResolvedIs ==
  ASSUME OrphansListed, tip \in Blocks, NEW w, Work(w), Waiting(w, 1, {}),
         NEW q, q = Resolved(w)
  PROVE  Work(q) /\ Waiting(q, Len(q.queue) + 1, {})
<1> DEFINE n == Cardinality(DOMAIN orphans) + 1
           txs == [i \in 1 .. n |-> i]
<1>1. n \in Nat /\ n = Cardinality(DOMAIN orphans) + 1 /\ Positions(txs, n)
  BY FS_CardinalityType DEF OrphansListed, Positions
<1> HIDE DEF n
<1>11. \A i \in 1 .. n : txs[i] = i
  OBVIOUS
<1> HIDE DEF txs
<1>12. PICK r : LookRun(r, w, n, txs) /\ r[n] = q
  BY <1>1, LookFold
<1>2. /\ r[0] = w /\ r[n] = q
      /\ \A i \in 0 .. n - 1 : r[i + 1] = LookStep(r[i], i + 1)
  <2>1. \A i \in 0 .. n - 1 : r[i + 1] = LookStep(r[i], txs[i + 1])
    BY <1>12 DEF LookRun
  <2>2. \A i \in 0 .. n - 1 : txs[i + 1] = i + 1
    BY <1>1, <1>11
  <2> QED  BY <1>12, <2>1, <2>2 DEF LookRun
<1> DEFINE S == {i \in 0 .. n : Work(r[i]) /\ Waiting(r[i], i + 1, {})}
<1>3. 0 \in S
  BY <1>1, <1>2
<1>4. ASSUME NEW i \in 0 .. n - 1, i \in S  PROVE i + 1 \in S
  <2> DEFINE a == r[i]
             c == r[i + 1]
             k == i + 1
  <2>1. c = LookStep(a, k) /\ k \in 0 .. n /\ k >= 1 /\ k \in Nat
    BY <1>1, <1>2
  <2>2. Work(a) /\ Waiting(a, k, {})
    BY <1>4
  <2> HIDE DEF a, k
  <2>3. Len(a.queue) \in Nat
    BY <2>2 DEF Work
  <2>4. CASE k > Len(a.queue)
    <3>1. c = a
      BY <2>1, <2>4 DEF LookStep
    <3>2. \A j \in 1 .. Len(a.queue) : ~(j > k) /\ j # k
      BY <2>1, <2>3, <2>4
    <3>3. Waiting(a, k + 1, {})
      BY <2>2, <3>2 DEF Waiting
    <3> QED  BY <2>1, <2>2, <3>1, <3>3 DEF k
  <2>5. CASE ~(k > Len(a.queue))
    <3>1. c = TryWaiting(a, a.queue[k]) /\ k \in 1 .. Len(a.queue)
      BY <2>1, <2>3, <2>5 DEF LookStep
    <3> HIDE DEF c
    <3>2. Work(c) /\ Waiting(c, k + 1, {})
      BY <2>2, <3>1, TriedAll
    <3> QED  BY <2>1, <3>2 DEF c, k
  <2> QED  BY <2>4, <2>5
<1>5. Work(q) /\ Waiting(q, n + 1, {})
  <2> HIDE DEF S
  <2>1. n \in 0 .. n
    BY <1>1
  <2>2. n \in S
    BY <1>1, <1>3, <1>4, <2>1, Induction
  <2> QED  BY <1>2, <2>2 DEF S
<1>6. Len(q.queue) <= n /\ Len(q.queue) \in Nat
  <2>1. Len(q.queue) <= Cardinality(DOMAIN orphans) + 1
    BY <1>5, QueueIsBounded
  <2>2. Len(q.queue) \in Nat
    BY <1>5 DEF Work
  <2> QED  BY <1>1, <2>1, <2>2
<1>7. \A k \in 1 .. Len(q.queue) : ~(k > n + 1) /\ k # n + 1
  BY <1>1, <1>6
<1>8. Waiting(q, Len(q.queue) + 1, {})
  BY <1>5, <1>7 DEF Waiting
<1> QED  BY <1>5, <1>8

-------------------------------------------------------------------------------
(* The invariant. *)

\* The pool and the orphans, whatever the chain does between two handlers.
PoolInv ==
  /\ tip \in Blocks /\ IsPool(pool) /\ Spendable(pool, tip)
  /\ OrphansListed /\ OrphansWait

LEMMA InitPool == Init => PoolInv
<1> SUFFICES ASSUME Init  PROVE PoolInv
  OBVIOUS
<1>1. tip \in Blocks /\ IsPool(pool)
  BY TreeFacts, EmptyPool DEF Init
<1>2. Spendable(pool, tip)
  BY DEF Init, Spendable
<1>3. OrphansListed
  <2>1. DOMAIN orphans = {} /\ orphans = [o \in DOMAIN orphans |-> orphans[o]]
    BY DEF Init
  <2>2. byPrev = [u \in {} |-> {o \in {} : u \in Prevs(o)}]
    BY DEF Init
  <2>3. UNION {Prevs(o) : o \in {}} = {}
    OBVIOUS
  <2>4. Lists(byPrev, {})
    BY <2>2, <2>3 DEF Lists
  <2> QED  BY <2>1, <2>4, FS_EmptySet DEF OrphansListed
<1>4. OrphansWait
  BY DEF Init, OrphansWait
<1> QED  BY <1>1, <1>2, <1>3, <1>4 DEF PoolInv

\* The queue as the tx message starts it.
LEMMA Started ==
  ASSUME PoolInv, NEW t \in Tx, Accepts(pool, tip, t), NEW R, NEW punish,
         NEW w, w = [pool |-> addUnchecked(pool, t), queue |-> <<t>>, erase |-> {},
                     refused |-> R, punish |-> punish, misbehaving |-> {}]
  PROVE  Work(w) /\ Waiting(w, 1, {})
<1>1. /\ IsWork(w) /\ w.pool = addUnchecked(pool, t) /\ w.queue = <<t>>
      /\ w.erase = {} /\ w.misbehaving = {}
  BY DEF IsWork
<1>2. /\ w.queue \in Seq(Tx) /\ Len(w.queue) = 1 /\ w.queue[1] = t
  BY <1>1
<1>3. tip \in Blocks /\ IsPool(pool) /\ Spendable(pool, tip) /\ SpendableBut(pool, tip, {})
  BY SpendableIs DEF PoolInv
<1> DEFINE q == w.pool
<1>4. q = addUnchecked(pool, t)
  BY <1>1
<1> HIDE DEF q
<1>5. IsPool(q) /\ q.mapTx = pool.mapTx \cup {t} /\ Spendable(q, tip)
  BY <1>3, <1>4, Accepted
<1>6. \A j \in 1 .. 1 : j = 1
  OBVIOUS
<1>7. 1 \in 1 .. 1 /\ ~(\E j \in 2 .. 1 : TRUE)
  OBVIOUS
<1>8. Work(w)
  BY <1>1, <1>2, <1>5, <1>6, <1>7 DEF Work, q
<1>9. ASSUME NEW o \in DOMAIN orphans
      PROVE  \E u \in Prevs(o) :
               \/ u \in unresolved \/ ~HaveCoins(q, tip, u)
               \/ \E k \in 1 .. Len(w.queue) : u = w.queue[k] /\ (k > 1 \/ (k = 1 /\ o \notin {}))
  <2>1. PICK u \in Prevs(o) : u \in unresolved \/ ~HaveCoins(pool, tip, u)
    BY DEF PoolInv, OrphansWait
  <2>2. HaveCoins(q, tip, u) /\ ~HaveCoins(pool, tip, u) => u = t
    BY <1>5 DEF HaveCoins
  <2> QED  BY <1>2, <1>7, <2>1, <2>2
<1>10. Waiting(w, 1, {})
  BY <1>9 DEF Waiting, q
<1> QED  BY <1>8, <1>10

LEMMA AcceptTxPreserves ==
  ASSUME PoolInv, NEW t \in Tx, AcceptTx(t)
  PROVE  PoolInv'
<1>1. PICK R \in SUBSET Tx, punish \in BOOLEAN :
        LET w == Resolved([pool |-> addUnchecked(pool, t), queue |-> <<t>>, erase |-> {},
                           refused |-> R, punish |-> punish, misbehaving |-> {}])
        IN  /\ pool' = w.pool
            /\ EraseOrphans(w.erase)
            /\ unresolved' = IF w.misbehaving = {} THEN unresolved
                             ELSE unresolved \cup ToSet(w.queue)
  BY DEF AcceptTx
<1> DEFINE v == [pool |-> addUnchecked(pool, t), queue |-> <<t>>, erase |-> {},
                 refused |-> R, punish |-> punish, misbehaving |-> {}]
           w == Resolved(v)
<1>2. /\ pool' = w.pool /\ EraseOrphans(w.erase)
      /\ unresolved' = IF w.misbehaving = {} THEN unresolved
                       ELSE unresolved \cup ToSet(w.queue)
  BY <1>1
<1>3. Accepts(pool, tip, t) /\ tip' = tip /\ tip \in Blocks /\ OrphansListed
  BY DEF AcceptTx, PoolInv
<1>4. Work(v) /\ Waiting(v, 1, {})
  <2>1. v = [pool |-> addUnchecked(pool, t), queue |-> <<t>>, erase |-> {},
             refused |-> R, punish |-> punish, misbehaving |-> {}]
    OBVIOUS
  <2> HIDE DEF v
  <2> QED  BY <1>3, <2>1, Started
<1>20. w = Resolved(v)
  OBVIOUS
<1> HIDE DEF v, w
<1>5. Work(w) /\ Waiting(w, Len(w.queue) + 1, {})
  BY <1>3, <1>4, <1>20, ResolvedIs
<1>6. OrphansListed' /\ DOMAIN orphans' = DOMAIN orphans \ w.erase
  BY <1>2, <1>3, Erasing
<1>7. IsPool(pool') /\ Spendable(pool', tip')
  BY <1>2, <1>3, <1>5 DEF Work
<1>8. ASSUME NEW o \in DOMAIN orphans'
      PROVE  \E u \in Prevs(o) : u \in unresolved' \/ ~HaveCoins(pool', tip', u)
  <2>1. o \in DOMAIN orphans /\ o \notin w.erase
    BY <1>6
  <2>2. CASE w.misbehaving = {}
    <3>1. Len(w.queue) \in Nat
      BY <1>5 DEF Work
    <3>2. \A k \in 1 .. Len(w.queue) : ~(k > Len(w.queue) + 1) /\ k # Len(w.queue) + 1
      BY <3>1
    <3>3. \E u \in Prevs(o) : u \in unresolved \/ ~HaveCoins(w.pool, tip, u)
      BY <1>5, <2>1, <2>2, <3>2 DEF Waiting
    <3> QED  BY <1>2, <1>3, <2>2, <3>3
  <2>3. CASE w.misbehaving # {}
    <3>1. PICK u \in Prevs(o) : u \in unresolved \/ ~HaveCoins(pool, tip, u)
      BY <2>1 DEF PoolInv, OrphansWait
    <3>2. unresolved' = unresolved \cup ToSet(w.queue)
      BY <1>2, <2>3
    <3>3. CASE HaveCoins(w.pool, tip, u) /\ ~HaveCoins(pool, tip, u)
      <4>1. u \in w.pool.mapTx \ pool.mapTx
        BY <3>3 DEF HaveCoins
      <4>2. u \in ToSet(w.queue)
        BY <1>5, <4>1 DEF Work, ToSet
      <4> QED  BY <3>2, <4>2
    <3> QED  BY <1>2, <1>3, <3>1, <3>2, <3>3
  <2> QED  BY <2>2, <2>3
<1>9. OrphansWait'
  BY <1>8 DEF OrphansWait, Prevs, HaveCoins
<1> QED  BY <1>3, <1>6, <1>7, <1>9 DEF PoolInv

LEMMA KeepOrphanPreserves ==
  ASSUME PoolInv, NEW t \in Tx, NEW peer, KeepOrphan(t, peer)
  PROVE  PoolInv'
<1>1. /\ MissingInputs(pool, tip, t) /\ AddOrphanTx(t, peer) /\ UNCHANGED <<tip, pool, unresolved>>
      /\ tip \in Blocks /\ IsPool(pool) /\ Spendable(pool, tip) /\ OrphansListed /\ OrphansWait
  BY DEF KeepOrphan, PoolInv
<1>2. OrphansListed' /\ DOMAIN orphans' \subseteq DOMAIN orphans \cup {t}
  BY <1>1, Adding
<1>3. \E u \in Prevs(t) : ~HaveCoins(pool, tip, u)
  BY <1>1 DEF MissingInputs, Prevs
<1>4. OrphansWait'
  BY <1>1, <1>2, <1>3 DEF OrphansWait, HaveCoins
<1>5. tip' \in Blocks /\ IsPool(pool') /\ Spendable(pool', tip')
  BY <1>1
<1> QED  BY <1>2, <1>4, <1>5 DEF PoolInv

LEMMA SubmitPreserves ==
  ASSUME PoolInv, NEW t \in Tx, Submit(t)
  PROVE  PoolInv'
<1>1. /\ Accepts(pool, tip, t) /\ pool' = addUnchecked(pool, t) /\ unresolved' = unresolved \cup {t}
      /\ UNCHANGED <<tip, orphans, byPrev>>
      /\ tip \in Blocks /\ IsPool(pool) /\ Spendable(pool, tip) /\ OrphansListed /\ OrphansWait
  BY DEF Submit, PoolInv
<1>2. SpendableBut(pool, tip, {})
  BY <1>1, SpendableIs
<1>3. IsPool(pool') /\ pool'.mapTx = pool.mapTx \cup {t} /\ Spendable(pool', tip)
  BY <1>1, <1>2, Accepted
<1>4. OrphansListed'
  BY <1>1 DEF OrphansListed
<1>5. OrphansWait'
  BY <1>1, <1>3 DEF OrphansWait, HaveCoins
<1> QED  BY <1>1, <1>3, <1>4, <1>5 DEF PoolInv

LEMMA ForgetPeerPreserves ==
  ASSUME PoolInv, NEW peer, ForgetPeer(peer)
  PROVE  PoolInv'
<1> DEFINE S == {o \in DOMAIN orphans : orphans[o] = peer}
<1>1. /\ EraseOrphans(S) /\ UNCHANGED <<tip, pool, unresolved>>
      /\ tip \in Blocks /\ IsPool(pool) /\ Spendable(pool, tip) /\ OrphansListed /\ OrphansWait
  BY DEF ForgetPeer, PoolInv
<1> HIDE DEF S
<1>2. OrphansListed' /\ DOMAIN orphans' = DOMAIN orphans \ S
  BY <1>1, Erasing
<1>3. OrphansWait'
  BY <1>1, <1>2 DEF OrphansWait, HaveCoins
<1>4. tip' \in Blocks /\ IsPool(pool') /\ Spendable(pool', tip')
  BY <1>1
<1> QED  BY <1>2, <1>3, <1>4 DEF PoolInv

LEMMA ClearPoolPreserves ==
  ASSUME PoolInv, ClearPool
  PROVE  PoolInv'
<1>1. /\ pool' = [mapTx |-> {}, mapNextTx |-> <<>>] /\ UNCHANGED <<tip, orphans, byPrev, unresolved>>
      /\ tip \in Blocks /\ OrphansListed /\ OrphansWait
  BY DEF ClearPool, PoolInv
<1>2. IsPool(pool') /\ pool'.mapTx = {}
  BY <1>1, EmptyPool
<1>3. Spendable(pool', tip')
  BY <1>2 DEF Spendable
<1>4. OrphansListed'
  BY <1>1 DEF OrphansListed
<1>5. OrphansWait'
  BY <1>1, <1>2 DEF OrphansWait, HaveCoins
<1> QED  BY <1>1, <1>2, <1>3, <1>4, <1>5 DEF PoolInv

LEMMA ConnectTipPreserves ==
  ASSUME PoolInv, NEW b \in Blocks, ConnectTip(b)
  PROVE  PoolInv'
<1> DEFINE txs == Contents[b]
           p == pool
           q == pool'
<1>1. /\ b \in Blocks \ {Genesis} /\ Parent[b] = tip /\ tip \in Blocks /\ tip' = b
      /\ q = removeForBlock(p, txs) /\ unresolved' = unresolved \cup ToSet(txs)
      /\ UNCHANGED <<orphans, byPrev>>
      /\ IsPool(p) /\ Spendable(p, tip) /\ OrphansListed /\ OrphansWait
  BY DEF ConnectTip, PoolInv
<1>2. txs \in Seq(Tx)
  BY MempoolAssumption DEF MempoolAssumption
<1>3. TxsOf[b] = TxsOf[tip] \cup ToSet(txs)
  BY <1>1, TreeFacts
<1> HIDE DEF txs, p, q
<1>4. /\ IsPool(q) /\ q.mapTx \subseteq p.mapTx \ ToSet(txs)
      /\ \A u \in q.mapTx : Inputs[u] \cap Spends(ToSet(txs)) = {}
      /\ \A u \in q.mapTx : \A o \in Inputs[u] :
           Maker(o) \in p.mapTx => Maker(o) \in q.mapTx \/ Maker(o) \in ToSet(txs)
  BY <1>1, <1>2, BlockRemoved
<1>5. ASSUME NEW t \in q.mapTx, NEW o \in Inputs[t], Maker(o) \notin q.mapTx
      PROVE  o \in Unspent[b] /\ Mature(b, o)
  <2>1. t \in p.mapTx /\ t \in Tx
    BY <1>1, <1>4 DEF IsPool
  <2>2. o \notin Spends(ToSet(Contents[b]))
    BY <1>4 DEF txs
  <2>3. CASE o \in Unspent[tip] /\ Mature(tip, o)
    <3>1. o \in Unspent[Parent[b]]
      BY <1>1, <2>3
    <3>2. o \in Unspent[b]
      BY <1>1, <2>2, <3>1, UnspentAbove
    <3>3. Maker(o) \in TxsOf[Parent[b]] /\ Mature(Parent[b], o)
      BY <1>1, <2>3, UnspentIs
    <3> QED  BY <1>1, <3>2, <3>3, MatureAbove
  <2>4. CASE Maker(o) \in p.mapTx
    <3>1. Maker(o) \in ToSet(Contents[b]) /\ o \in Outputs[Maker(o)]
      BY <1>4, <1>5, <2>1, <2>4, MakerOf DEF txs
    <3>2. o \in Unspent[b]
      BY <1>1, <2>2, <3>1, UnspentAbove
    <3>3. Maker(o) \notin Special
      BY <1>1, <2>4 DEF IsPool
    <3> QED  BY <3>2, <3>3 DEF Mature
  <2> QED  BY <1>1, <2>1, <2>3, <2>4 DEF Spendable
<1>6. ASSUME NEW t \in q.mapTx  PROVE t \notin TxsOf[b]
  BY <1>1, <1>3, <1>4 DEF Spendable
<1>7. Spendable(q, b)
  BY <1>5, <1>6 DEF Spendable
<1>8. OrphansListed'
  BY <1>1 DEF OrphansListed
<1>9. ASSUME NEW o \in DOMAIN orphans
      PROVE  \E u \in Prevs(o) : u \in unresolved' \/ ~HaveCoins(q, b, u)
  <2>1. PICK u \in Prevs(o) : u \in unresolved \/ ~HaveCoins(p, tip, u)
    BY <1>1 DEF OrphansWait, p
  <2>2. CASE u \notin unresolved' /\ HaveCoins(q, b, u)
    <3>1. u \notin p.mapTx /\ Outputs[u] \cap Unspent[tip] = {} /\ u \notin ToSet(txs)
      BY <1>1, <2>1, <2>2 DEF HaveCoins
    <3>2. PICK i \in Outputs[u] : i \in Unspent[b]
      BY <1>4, <2>2, <3>1 DEF HaveCoins
    <3>3. o \in Tx /\ u \in Tx
      <4>1. o \in Tx
        BY <1>1 DEF OrphansListed
      <4> QED  BY <4>1, MakerOf DEF Prevs
    <3>4. Maker(i) = u
      BY <3>3, MakerOf
    <3>5. i \in Unspent[Parent[b]]
      BY <1>1, <3>1, <3>2, <3>4, UnspentBelow DEF txs
    <3> QED  BY <1>1, <3>1, <3>5
  <2> QED  BY <2>2
<1>10. OrphansWait'
  BY <1>1, <1>9 DEF OrphansWait, q, HaveCoins
<1> QED  BY <1>1, <1>4, <1>7, <1>8, <1>10 DEF PoolInv, q

LEMMA DisconnectTipPreserves ==
  ASSUME PoolInv, DisconnectTip
  PROVE  PoolInv'
<1> DEFINE below == Parent[tip]
           txs == Contents[tip]
           p == pool
           q == pool'
<1>1. /\ tip \in Blocks \ {Genesis} /\ below = Parent[tip] /\ tip' = below
      /\ unresolved' = unresolved \cup ToSet(txs) \cup UNION {Prevs(t) : t \in ToSet(txs)}
      /\ UNCHANGED <<orphans, byPrev>>
      /\ IsPool(p) /\ Spendable(p, tip) /\ OrphansListed /\ OrphansWait
  BY DEF DisconnectTip, PoolInv
<1>2. PICK R \in SUBSET Tx : q = removeCoinbaseSpends(AllResurrected(p, below, txs, R), below)
  BY DEF DisconnectTip
<1>3. txs \in Seq(Tx)
  BY <1>1, MempoolAssumption DEF MempoolAssumption
<1>4. below \in Blocks /\ TxsOf[tip] = TxsOf[below] \cup ToSet(txs)
  BY <1>1, TreeFacts
<1> DEFINE s == AllResurrected(p, below, txs, R)
<1>5. s = AllResurrected(p, below, txs, R) /\ q = removeCoinbaseSpends(s, below)
  BY <1>2
<1> HIDE DEF below, txs, p, q, s
<1>6. SpendableBut(p, below, ToSet(txs))
  <2>1. ASSUME NEW t \in p.mapTx, NEW o \in Inputs[t], o \in Unspent[tip]
        PROVE  o \in Unspent[below] \/ Maker(o) \in ToSet(txs)
    BY <1>1, <2>1, UnspentBelow DEF txs, below
  <2> QED  BY <1>1, <1>4, <2>1 DEF Spendable, SpendableBut
<1>7. IsPool(s) /\ SpendableBut(s, below, {}) /\ s.mapTx \subseteq p.mapTx \cup ToSet(txs)
  BY <1>1, <1>3, <1>4, <1>5, <1>6, BlockResurrected
<1>8. IsPool(q) /\ Spendable(q, below) /\ q.mapTx \subseteq s.mapTx
  BY <1>4, <1>5, <1>7, YoungRemoved
<1>9. OrphansListed'
  BY <1>1 DEF OrphansListed
<1>10. ASSUME NEW o \in DOMAIN orphans
       PROVE  \E u \in Prevs(o) : u \in unresolved' \/ ~HaveCoins(q, below, u)
  <2>1. PICK u \in Prevs(o) : u \in unresolved \/ ~HaveCoins(p, tip, u)
    BY <1>1 DEF OrphansWait, p
  <2>2. CASE u \notin unresolved' /\ HaveCoins(q, below, u)
    <3>1. /\ u \notin p.mapTx /\ Outputs[u] \cap Unspent[tip] = {} /\ u \notin ToSet(txs)
          /\ \A t \in ToSet(txs) : u \notin Prevs(t)
      BY <1>1, <2>1, <2>2 DEF HaveCoins
    <3>2. PICK i \in Outputs[u] : i \in Unspent[below]
      BY <1>7, <1>8, <2>2, <3>1 DEF HaveCoins
    <3>3. o \in Tx /\ u \in Tx
      <4>1. o \in Tx
        BY <1>1 DEF OrphansListed
      <4> QED  BY <4>1, MakerOf DEF Prevs
    <3>4. Maker(i) = u
      BY <3>3, MakerOf
    <3>5. i \notin Spends(ToSet(Contents[tip]))
      BY <3>1, <3>4 DEF Spends, Prevs, txs
    <3>6. i \in Unspent[tip]
      BY <1>1, <3>2, <3>5, UnspentAbove
    <3> QED  BY <3>1, <3>6
  <2> QED  BY <2>2
<1>11. OrphansWait'
  BY <1>1, <1>10 DEF OrphansWait, q, HaveCoins
<1> QED  BY <1>1, <1>4, <1>8, <1>9, <1>11 DEF PoolInv, q

LEMMA NextPool == PoolInv /\ [Next]_vars => PoolInv'
<1> SUFFICES ASSUME PoolInv, [Next]_vars  PROVE PoolInv'
  OBVIOUS
<1>1. ASSUME NEW t \in Tx, AcceptTx(t)  PROVE PoolInv'
  BY <1>1, AcceptTxPreserves
<1>2. ASSUME NEW t \in Tx, NEW peer \in Peers, KeepOrphan(t, peer)  PROVE PoolInv'
  BY <1>2, KeepOrphanPreserves
<1>3. ASSUME NEW t \in Tx, Submit(t)  PROVE PoolInv'
  BY <1>3, SubmitPreserves
<1>4. ASSUME NEW peer \in Peers, ForgetPeer(peer)  PROVE PoolInv'
  BY <1>4, ForgetPeerPreserves
<1>5. ASSUME NEW b \in Blocks, ConnectTip(b)  PROVE PoolInv'
  BY <1>5, ConnectTipPreserves
<1>6. CASE DisconnectTip
  BY <1>6, DisconnectTipPreserves
<1>7. CASE ClearPool
  BY <1>7, ClearPoolPreserves
<1>8. CASE UNCHANGED vars
  <2>1. UNCHANGED <<tip, pool, orphans, byPrev, unresolved>>
    BY <1>8 DEF vars
  <2>2. OrphansListed' /\ OrphansWait'
    BY <2>1 DEF PoolInv, OrphansListed, OrphansWait, HaveCoins
  <2> QED  BY <2>1, <2>2 DEF PoolInv
<1> QED  BY <1>1, <1>2, <1>3, <1>4, <1>5, <1>6, <1>7, <1>8 DEF Next

\* What the handlers rely on, and leave behind, whenever cs_main is free.
THEOREM PoolAlways == Spec => []PoolInv
BY InitPool, NextPool, PTL DEF Spec

\* Whatever handlers run in whatever order, with the chain anywhere between two of
\* them: the pool spends mature outputs of the chain or its own, each once, and nothing
\* of it is confirmed.
THEOREM PoolAlwaysSpendable == Spec => []PoolIsSpendable
<1>1. PoolInv => PoolIsSpendable
  <2> SUFFICES ASSUME PoolInv  PROVE PoolIsSpendable
    OBVIOUS
  <2>1. IsPool(pool) /\ Spendable(pool, tip)
    BY DEF PoolInv
  <2>2. \A t \in pool.mapTx : \A u \in pool.mapTx \ {t} : Inputs[t] \cap Inputs[u] = {}
    BY <2>1, SpendableIs
  <2> QED  BY <2>1, <2>2 DEF PoolIsSpendable, Spendable
<1> QED  BY <1>1, PoolAlways, PTL

\* mapNextTx names the spender of each input of the pool and of nothing else, and the
\* orphans are listed under what they spend, whatever was added and removed.
THEOREM IndexesAlwaysExact == Spec => []IndexesAreExact
<1>1. PoolInv => IndexesAreExact
  <2> SUFFICES ASSUME PoolInv  PROVE IndexesAreExact
    OBVIOUS
  <2> DEFINE next == pool.mapNextTx
             S == Spends(pool.mapTx)
  <2>1. IsPool(pool) /\ Lists(byPrev, DOMAIN orphans)
    BY DEF PoolInv, OrphansListed
  <2>2. next = [o \in S |-> next[o]]
    BY <2>1 DEF IsPool
  <2>3. ASSUME NEW o \in S  PROVE next[o] = CHOOSE t \in pool.mapTx : o \in Inputs[t]
    <3>1. \E t \in pool.mapTx : o \in Inputs[t]
      BY DEF Spends
    <3>2. \A t \in pool.mapTx : o \in Inputs[t] => next[o] = t
      BY <2>1 DEF IsPool
    <3> QED  BY <3>1, <3>2
  <2> HIDE DEF next, S
  <2>4. next = [o \in S |-> CHOOSE t \in pool.mapTx : o \in Inputs[t]]
    BY <2>2, <2>3
  <2> QED  BY <2>1, <2>4 DEF IndexesAreExact, Lists, next, S
<1> QED  BY <1>1, PoolAlways, PTL

\* An orphan does not wait for what came in tx messages alone.
THEOREM OrphansAlwaysWait == Spec => []OrphansWait
<1>1. PoolInv => OrphansWait
  BY DEF PoolInv
<1> QED  BY <1>1, PoolAlways, PTL

-------------------------------------------------------------------------------
(* What is lost has a cause: ancestors, removals and resurrections.        *)

Raised(f) == [t \in Tx |-> f[t] \cup UNION {Prevs(a) : a \in f[t]}]

\* Lineage as the results of its rounds.
LEMMA LineageRounds ==
  ASSUME NEW n \in Nat, n = Cardinality(Tx)
  PROVE  \E r : /\ r[0] = [t \in Tx |-> {t}] /\ r[n] = Lineage
                /\ \A i \in 0 .. n - 1 : r[i + 1] = Raised(r[i])
<1> DEFINE S == [t \in Tx |-> {t}]
           Rec(f, m) ==
             f = [i \in 0 .. m |-> IF i = 0 THEN S ELSE Raised(f[i - 1])]
           T == {m \in 0 .. n : \E f : Rec(f, m)}
<1>1. 0 \in T
  <2> DEFINE f == [i \in 0 .. 0 |-> S]
  <2>1. \A i \in 0 .. 0 : i = 0
    OBVIOUS
  <2>2. Rec(f, 0)
    BY <2>1
  <2> HIDE DEF f, Rec
  <2>3. \E g : Rec(g, 0)
    BY <2>2
  <2> QED  BY <2>3
<1>2. ASSUME NEW m \in 0 .. n - 1, m \in T  PROVE m + 1 \in T
  <2>1. PICK f : Rec(f, m)
    BY <1>2
  <2> DEFINE h == [i \in 0 .. m + 1 |-> IF i = 0 THEN S ELSE Raised(f[i - 1])]
  <2>2. /\ h = [i \in 0 .. m + 1 |-> h[i]]
        /\ \A i \in 0 .. m + 1 : h[i] = IF i = 0 THEN S ELSE Raised(f[i - 1])
    OBVIOUS
  <2> HIDE DEF h
  <2>3. \A i \in 0 .. m : f[i] = IF i = 0 THEN S ELSE Raised(f[i - 1])
    BY <2>1
  <2>4. ASSUME NEW i \in 0 .. m  PROVE h[i] = f[i]
    <3>1. i \in 0 .. m + 1
      OBVIOUS
    <3> QED  BY <2>2, <2>3, <3>1
  <2>5. ASSUME NEW i \in 0 .. m + 1
        PROVE  h[i] = IF i = 0 THEN S ELSE Raised(h[i - 1])
    <3>1. CASE i = 0
      BY <2>2, <3>1
    <3>2. CASE i # 0
      <4>1. i - 1 \in 0 .. m
        BY <3>2
      <4>2. h[i - 1] = f[i - 1]
        BY <2>4, <4>1
      <4> QED  BY <2>2, <3>2, <4>2
    <3> QED  BY <3>1, <3>2
  <2>6. Rec(h, m + 1)
    BY <2>2, <2>5
  <2> HIDE DEF Rec
  <2>7. (\E g : Rec(g, m + 1)) /\ m + 1 \in 0 .. n
    BY <2>6
  <2> QED  BY <2>7
<1>3. n \in T
  <2> HIDE DEF T
  <2>1. \A i \in 0 .. n : i \in T
    BY <1>1, <1>2, Induction
  <2> QED  BY <2>1
<1> DEFINE up == CHOOSE f : Rec(f, n)
<1>4. Rec(up, n)
  BY <1>3
<1>5. up[n] = Lineage
  BY DEF Lineage, Raised
<1> HIDE DEF up
<1>8. \A i \in 0 .. n : up[i] = IF i = 0 THEN S ELSE Raised(up[i - 1])
  BY <1>4
<1> HIDE DEF Rec
<1>6. up[0] = S
  <2>1. 0 \in 0 .. n
    OBVIOUS
  <2>2. up[0] = IF 0 = 0 THEN S ELSE Raised(up[0 - 1])
    BY <1>8, <2>1, Zenon
  <2> QED  BY <2>2, Zenon
<1>7. ASSUME NEW i \in 0 .. n - 1
      PROVE  up[i + 1] = Raised(up[i])
  <2> DEFINE k == i + 1
  <2>2. k \in 0 .. n /\ k # 0 /\ k - 1 = i
    OBVIOUS
  <2> HIDE DEF k
  <2>3. up[k] = IF k = 0 THEN S ELSE Raised(up[k - 1])
    BY <1>8, <2>2, Zenon
  <2>4. up[k] = Raised(up[i])
    BY <2>2, <2>3, Zenon
  <2> QED  BY <2>4 DEF k
<1> QED  BY <1>5, <1>6, <1>7

LEMMA FiniteTx == IsFiniteSet(Tx) /\ Cardinality(Tx) \in Nat
<1>1. Order \in Seq(Tx) /\ ToSet(Order) = Tx
  BY MempoolAssumption DEF MempoolAssumption
<1>2. DOMAIN Order = 1 .. Len(Order) /\ Len(Order) \in Nat
  BY <1>1
<1>3. IsFiniteSet(DOMAIN Order)
  BY <1>2, FS_Interval
<1>4. Tx = {Order[i] : i \in DOMAIN Order}
  BY <1>1 DEF ToSet
<1>5. Order \in Surjection(DOMAIN Order, Tx)
  BY <1>1, <1>4 DEF Surjection
<1>6. IsFiniteSet(Tx)
  BY <1>3, <1>5, FS_Surjection
<1> QED  BY <1>6, FS_CardinalityType

\* The search for ancestors comes to an end.
LEMMA LineageIs ==
  ASSUME NEW t \in Tx
  PROVE  /\ t \in Lineage[t] /\ Lineage[t] \subseteq Tx
         /\ \A a \in Lineage[t] : Prevs(a) \subseteq Lineage[t]
<1> DEFINE n == Cardinality(Tx)
<1>1. IsFiniteSet(Tx) /\ n \in Nat /\ n = Cardinality(Tx)
  BY FiniteTx
<1> HIDE DEF n
<1>2. \A a \in Tx : Prevs(a) \subseteq Tx
  BY MakerOf DEF Prevs
<1>3. PICK r : /\ r[0] = [u \in Tx |-> {u}] /\ r[n] = Lineage
               /\ \A i \in 0 .. n - 1 : r[i + 1] = Raised(r[i])
  BY <1>1, LineageRounds
<1> DEFINE x == [i \in 0 .. n |-> r[i][t]]
<1>4. /\ x[0] = {t} /\ x[n] = Lineage[t]
      /\ \A i \in 0 .. n - 1 : i + 1 \in 0 .. n /\ x[i + 1] = x[i] \cup UNION {Prevs(a) : a \in x[i]}
  <2>1. 0 \in 0 .. n /\ n \in 0 .. n
    BY <1>1
  <2>2. ASSUME NEW i \in 0 .. n - 1
        PROVE  i + 1 \in 0 .. n /\ x[i + 1] = x[i] \cup UNION {Prevs(a) : a \in x[i]}
    <3>1. i \in 0 .. n /\ i + 1 \in 0 .. n
      BY <1>1
    <3>2. r[i + 1] = Raised(r[i])
      BY <1>3
    <3>3. Raised(r[i])[t] = r[i][t] \cup UNION {Prevs(a) : a \in r[i][t]}
      BY DEF Raised
    <3>4. x[i] = r[i][t] /\ x[i + 1] = r[i + 1][t]
      BY <3>1
    <3> HIDE DEF x
    <3> QED  BY <3>1, <3>2, <3>3, <3>4
  <2>3. x[0] = r[0][t] /\ x[n] = r[n][t]
    BY <2>1
  <2> HIDE DEF x
  <2> QED  BY <1>3, <2>2, <2>3
<1> HIDE DEF x
<1> DEFINE Between == {i \in 0 .. n : t \in x[i] /\ x[i] \subseteq Tx}
           Closed(s) == \A a \in s : Prevs(a) \subseteq s
           Full == {i \in 0 .. n : Closed(x[i]) \/ Cardinality(x[i]) >= i}
<1>5. \A i \in 0 .. n : i \in Between
  <2>1. 0 \in Between
    BY <1>1, <1>4
  <2>2. ASSUME NEW i \in 0 .. n - 1, i \in Between  PROVE i + 1 \in Between
    BY <1>2, <1>4, <2>2
  <2> HIDE DEF Between
  <2> QED  BY <1>1, <2>1, <2>2, Induction
<1>6. \A i \in 0 .. n : IsFiniteSet(x[i]) /\ Cardinality(x[i]) \in Nat
  BY <1>1, <1>5, FS_Subset, FS_CardinalityType
<1>7. \A i \in 0 .. n : i \in Full
  <2>1. 0 \in Full
    <3>1. 0 \in 0 .. n
      BY <1>1
    <3> QED  BY <1>6, <3>1
  <2>2. ASSUME NEW i \in 0 .. n - 1, i \in Full  PROVE i + 1 \in Full
    <3>1. i \in 0 .. n /\ i \in Nat /\ i + 1 \in 0 .. n /\ x[i + 1] = x[i] \cup UNION {Prevs(a) : a \in x[i]}
      BY <1>1, <1>4
    <3>2. CASE Closed(x[i])
      <4>1. x[i + 1] = x[i]
        BY <3>1, <3>2
      <4> QED  BY <3>1, <3>2, <4>1
    <3>3. CASE ~Closed(x[i])
      <4>1. PICK c \in UNION {Prevs(a) : a \in x[i]} : c \notin x[i]
        BY <3>3
      <4>2. Cardinality(x[i]) >= i
        BY <2>2, <3>3
      <4> DEFINE G == x[i]
                 H == x[i + 1]
      <4>3. IsFiniteSet(G) /\ IsFiniteSet(H) /\ Cardinality(G) \in Nat /\ Cardinality(H) \in Nat
        BY <1>6, <3>1
      <4>4. c \notin G /\ G \cup {c} \in SUBSET H
        BY <3>1, <4>1
      <4>5. Cardinality(G) >= i
        BY <4>2
      <4> HIDE DEF G, H
      <4>6. Cardinality(G \cup {c}) = Cardinality(G) + 1
        BY <4>3, <4>4, FS_AddElement
      <4>7. Cardinality(G \cup {c}) <= Cardinality(H)
        BY <4>3, <4>4, FS_Subset
      <4>8. Cardinality(H) >= i + 1
        BY <3>1, <4>3, <4>5, <4>6, <4>7
      <4> QED  BY <3>1, <4>8 DEF H
    <3> QED  BY <3>2, <3>3
  <2> HIDE DEF Full
  <2> QED  BY <1>1, <2>1, <2>2, Induction
<1>8. n \in 0 .. n
  BY <1>1
<1>9. t \in x[n] /\ x[n] \subseteq Tx
  BY <1>5, <1>8
<1>10. Closed(x[n])
  <2>1. CASE Cardinality(x[n]) >= n
    <3> DEFINE G == x[n]
    <3>1. IsFiniteSet(G) /\ Cardinality(G) \in Nat /\ Cardinality(G) >= n /\ G \in SUBSET Tx
      BY <1>6, <1>8, <1>9, <2>1
    <3> HIDE DEF G
    <3>2. Cardinality(G) <= n
      BY <1>1, <3>1, FS_Subset
    <3>3. Cardinality(Tx) = Cardinality(G)
      BY <1>1, <3>1, <3>2
    <3>4. Tx = G
      BY <1>1, <3>1, <3>3, FS_Subset
    <3> QED  BY <1>2, <3>4 DEF G
  <2> QED  BY <1>7, <1>8, <2>1
<1> QED  BY <1>4, <1>9, <1>10

\* The ancestors of an input's maker are ancestors.
LEMMA LineageOfPrevs ==
  ASSUME NEW t \in Tx, NEW u \in Prevs(t)
  PROVE  u \in Tx /\ Lineage[u] \subseteq Lineage[t]
<1> DEFINE n == Cardinality(Tx)
<1>1. n \in Nat /\ n = Cardinality(Tx)
  BY FiniteTx
<1>2. u \in Tx
  BY MakerOf DEF Prevs
<1> HIDE DEF n
<1>4. PICK r : /\ r[0] = [v \in Tx |-> {v}] /\ r[n] = Lineage
               /\ \A i \in 0 .. n - 1 : r[i + 1] = Raised(r[i])
  BY <1>1, LineageRounds
<1>5. u \in Lineage[t] /\ \A a \in Lineage[t] : Prevs(a) \subseteq Lineage[t]
  BY LineageIs
<1> DEFINE T == {i \in 0 .. n : r[i][u] \subseteq Lineage[t]}
<1>6. 0 \in T
  BY <1>1, <1>2, <1>4, <1>5
<1>7. ASSUME NEW i \in 0 .. n - 1, i \in T  PROVE i + 1 \in T
  <2>1. i + 1 \in 0 .. n
    BY <1>1
  <2>2. r[i + 1] = Raised(r[i])
    BY <1>4
  <2>3. Raised(r[i])[u] = r[i][u] \cup UNION {Prevs(a) : a \in r[i][u]}
    BY <1>2 DEF Raised
  <2>4. r[i + 1][u] = r[i][u] \cup UNION {Prevs(a) : a \in r[i][u]}
    BY <2>2, <2>3
  <2> QED  BY <1>5, <1>7, <2>1, <2>4
<1> HIDE DEF T
<1>8. n \in 0 .. n
  BY <1>1
<1>9. n \in T
  BY <1>1, <1>6, <1>7, <1>8, Induction
<1> QED  BY <1>2, <1>4, <1>9 DEF T

\* Why a transaction cannot follow the chain to b.
HasCause(t, b) == \E a \in Lineage[t] : Doomed(a, b)

LEMMA CauseOf ==
  ASSUME NEW t \in Tx, NEW b
  PROVE  /\ Doomed(t, b) => HasCause(t, b)
         /\ \A o \in Inputs[t] : HasCause(Maker(o), b) => HasCause(t, b)
<1>1. Doomed(t, b) => HasCause(t, b)
  BY LineageIs DEF HasCause
<1>2. ASSUME NEW o \in Inputs[t], HasCause(Maker(o), b)  PROVE HasCause(t, b)
  <2>1. Maker(o) \in Prevs(t)
    BY DEF Prevs
  <2> QED  BY <1>2, <2>1, LineageOfPrevs DEF HasCause
<1> QED  BY <1>1, <1>2

\* The search for descendants finds nothing else.
LEMMA DescendantsAreLeast ==
  ASSUME NEW p, IsPool(p), NEW G, NEW S \in SUBSET G, Children(p, G) \subseteq G
  PROVE  WithDescendants(p, S) \subseteq G
<1> DEFINE n == Cardinality(p.mapTx)
           D == WithDescendants(p, S)
<1>1. n \in Nat /\ n = Cardinality(p.mapTx) /\ D = WithDescendants(p, S)
  BY FS_CardinalityType DEF IsPool
<1> HIDE DEF n, D
<1>2. PICK r : /\ r[0] = S /\ r[n] = D
               /\ \A i \in 0 .. n - 1 : r[i + 1] = r[i] \cup Children(p, r[i])
  BY <1>1, DescendantRounds
<1>3. ASSUME NEW X, X \subseteq G  PROVE Children(p, X) \subseteq G
  <2>1. Creates(X) \subseteq Creates(G)
    BY <1>3 DEF Creates
  <2> QED  BY <2>1 DEF Children
<1> DEFINE T == {i \in 0 .. n : r[i] \subseteq G}
<1>4. 0 \in T
  BY <1>1, <1>2
<1>5. ASSUME NEW i \in 0 .. n - 1, i \in T  PROVE i + 1 \in T
  <2>1. i + 1 \in 0 .. n /\ r[i + 1] = r[i] \cup Children(p, r[i])
    BY <1>1, <1>2
  <2>2. r[i] \subseteq G
    BY <1>5
  <2> QED  BY <1>3, <2>1, <2>2
<1> HIDE DEF T
<1>6. n \in 0 .. n
  BY <1>1
<1>7. n \in T
  BY <1>1, <1>4, <1>5, <1>6, Induction
<1> QED  BY <1>1, <1>2, <1>7 DEF T

\* A recursive removal takes nothing without a cause, if what it starts from has one.
LEMMA RemovedForCause ==
  ASSUME NEW p, IsPool(p), NEW S \in SUBSET Tx, NEW b, NEW q, q = remove(p, S, TRUE),
         \A t \in p.mapTx \cap S : HasCause(t, b),
         \A t \in p.mapTx : \A o \in Inputs[t] : Maker(o) \in S => HasCause(t, b)
  PROVE  \A t \in p.mapTx : t \in q.mapTx \/ HasCause(t, b)
<1> DEFINE D == WithDescendants(p, S)
           G == S \cup {t \in p.mapTx : HasCause(t, b)}
<1>1. q = Erased(p, D)
  BY DEF remove
<1>2. ASSUME NEW t \in Children(p, G)  PROVE t \in G
  <2>1. t \in p.mapTx /\ Inputs[t] \cap Creates(G) # {}
    BY ChildrenAre
  <2>2. t \in Tx
    BY <2>1 DEF IsPool
  <2>3. PICK o \in Inputs[t] : o \in Creates(G)
    BY <2>1
  <2>4. PICK s \in G : o \in Outputs[s]
    BY <2>3 DEF Creates
  <2>5. s \in Tx
    BY DEF IsPool
  <2>6. Maker(o) = s
    BY <2>4, <2>5, MakerOf
  <2>7. CASE s \in S
    BY <2>1, <2>6, <2>7
  <2>8. CASE HasCause(s, b)
    BY <2>1, <2>2, <2>6, <2>8, CauseOf
  <2> QED  BY <2>7, <2>8
<1>3. S \in SUBSET G /\ Children(p, G) \subseteq G
  BY <1>2
<1> HIDE DEF D, G
<1>4. D \subseteq G
  BY <1>3, DescendantsAreLeast DEF D
<1>5. q.mapTx = p.mapTx \ D
  BY <1>1, PoolShrinks
<1> QED  BY <1>4, <1>5 DEF G

\* One transaction of a connected block takes its conflicts with it.
LEMMA BlockStepCause ==
  ASSUME NEW p, IsPool(p), NEW b \in Blocks, NEW c \in TxsOf[b], NEW q, q = BlockStep(p, c)
  PROVE  \A t \in p.mapTx : t \in q.mapTx \/ t = c \/ HasCause(t, b)
<1> DEFINE e == Erased(p, {c})
           S == {e.mapNextTx[o] : o \in Inputs[c] \cap DOMAIN e.mapNextTx} \ {c}
<1>1. q = remove(e, S, TRUE)
  BY DEF BlockStep, remove, removeConflicts
<1>2. IsPool(e) /\ e.mapTx = p.mapTx \ {c}
  BY PoolShrinks
<1> HIDE DEF e
<1>3. ASSUME NEW t \in S  PROVE t \in Tx /\ HasCause(t, b)
  <2>1. PICK o \in Inputs[c] : o \in DOMAIN e.mapNextTx /\ t = e.mapNextTx[o] /\ t # c
    OBVIOUS
  <2>2. t \in e.mapTx /\ o \in Inputs[t]
    BY <1>2, <2>1, Spenders
  <2>3. t \in Tx
    BY <1>2, <2>2 DEF IsPool
  <2>4. Doomed(t, b)
    BY <2>1, <2>2 DEF Doomed
  <2> QED  BY <2>3, <2>4, CauseOf
<1> HIDE DEF S
<1>4. ASSUME NEW t \in e.mapTx, NEW o \in Inputs[t], Maker(o) \in S  PROVE HasCause(t, b)
  <2>1. t \in Tx
    BY <1>2 DEF IsPool
  <2> QED  BY <1>3, <1>4, <2>1, CauseOf
<1>5. \A t \in e.mapTx : t \in q.mapTx \/ HasCause(t, b)
  BY <1>1, <1>2, <1>3, <1>4, RemovedForCause
<1> QED  BY <1>2, <1>5

LEMMA BlockCause ==
  ASSUME NEW p, IsPool(p), NEW b \in Blocks, NEW txs \in Seq(Tx), ToSet(txs) \subseteq TxsOf[b],
         NEW q, q = removeForBlock(p, txs)
  PROVE  \A t \in p.mapTx : t \in q.mapTx \/ t \in TxsOf[b] \/ HasCause(t, b)
<1> DEFINE n == Len(txs)
<1>1. n \in Nat /\ n = Len(txs) /\ DOMAIN txs = 1 .. n
  OBVIOUS
<1> HIDE DEF n
<1>2. PICK r : BlockRun(r, p, n, txs) /\ r[n] = q
  BY <1>1, BlockFold
<1>3. /\ r[0] = p /\ r[n] = q
      /\ \A i \in 0 .. n - 1 : r[i + 1] = BlockStep(r[i], txs[i + 1])
  BY <1>2 DEF BlockRun
<1> DEFINE T == {i \in 0 .. n : /\ IsPool(r[i])
                                /\ \A t \in p.mapTx : t \in r[i].mapTx \/ t \in TxsOf[b] \/ HasCause(t, b)}
<1>4. 0 \in T
  BY <1>1, <1>3
<1>5. ASSUME NEW i \in 0 .. n - 1, i \in T  PROVE i + 1 \in T
  <2> DEFINE a == r[i]
             d == r[i + 1]
             c == txs[i + 1]
  <2>1. i + 1 \in 0 .. n /\ d = BlockStep(a, c) /\ c \in TxsOf[b]
    BY <1>1, <1>3 DEF ToSet
  <2>2. IsPool(a) /\ \A t \in p.mapTx : t \in a.mapTx \/ t \in TxsOf[b] \/ HasCause(t, b)
    BY <1>5
  <2> HIDE DEF a, c, d
  <2>3. IsPool(d)
    BY <2>1, <2>2, BlockStepIs, Z3
  <2>4. \A t \in a.mapTx : t \in d.mapTx \/ t = c \/ HasCause(t, b)
    BY <2>1, <2>2, BlockStepCause
  <2>5. \A t \in p.mapTx : t \in d.mapTx \/ t \in TxsOf[b] \/ HasCause(t, b)
    BY <2>1, <2>2, <2>4
  <2> QED  BY <2>1, <2>3, <2>5 DEF d
<1> HIDE DEF T
<1>6. n \in 0 .. n
  BY <1>1
<1>7. n \in T
  BY <1>1, <1>4, <1>5, <1>6, Induction
<1> QED  BY <1>3, <1>7 DEF T

\* One transaction of a disconnected block that no policy refuses.
LEMMA ResurrectedCause ==
  ASSUME NEW p, IsPool(p), NEW b \in Blocks, NEW c \in Tx, NEW q, q = Resurrected(p, b, c, {}),
         \/ Accepts(p, b, c)
         \/ c \in Special /\ c \notin TxsOf[b]
         \/ HasCause(c, b)
  PROVE  /\ \A t \in p.mapTx : t \in q.mapTx \/ HasCause(t, b)
         /\ c \in q.mapTx \/ c \in Special \/ HasCause(c, b)
<1>1. CASE Accepts(p, b, c)
  <2>1. q = addUnchecked(p, c) /\ c \notin Special /\ Inputs[c] \cap DOMAIN p.mapNextTx = {}
    BY <1>1 DEF Resurrected, Accepts, MayEnter
  <2>2. q.mapTx = p.mapTx \cup {c}
    BY <2>1, PoolGrows
  <2> QED  BY <2>2
<1>2. CASE ~Accepts(p, b, c)
  <2> DEFINE S == {c}
  <2>1. q = remove(p, S, TRUE) /\ S \in SUBSET Tx
    BY <1>2 DEF Resurrected
  <2>2. (c \in Special /\ c \notin TxsOf[b]) \/ HasCause(c, b)
    BY <1>2
  <2>3. ASSUME NEW t \in p.mapTx, t \in S  PROVE HasCause(t, b)
    BY <2>2, <2>3 DEF IsPool
  <2>4. ASSUME NEW t \in p.mapTx, NEW o \in Inputs[t], Maker(o) \in S  PROVE HasCause(t, b)
    <3>1. t \in Tx
      BY DEF IsPool
    <3>2. Maker(o) = c
      BY <2>4
    <3>3. CASE c \in Special /\ c \notin TxsOf[b]
      <4>1. Doomed(t, b)
        BY <3>2, <3>3 DEF Doomed
      <4> QED  BY <3>1, <4>1, CauseOf
    <3>4. CASE HasCause(c, b)
      BY <3>1, <3>2, <3>4, CauseOf
    <3> QED  BY <2>2, <3>3, <3>4
  <2> HIDE DEF S
  <2>5. \A t \in p.mapTx : t \in q.mapTx \/ HasCause(t, b)
    BY <2>1, <2>3, <2>4, RemovedForCause
  <2> QED  BY <2>2, <2>5
<1> QED  BY <1>1, <1>2

\* While the block b is undone: its first m transactions and those of the pool p are in the
\* pool q, or are generated by the block, or cannot follow the chain to its parent.
UndoFits(q, p, b, m) ==
  /\ IsPool(q)
  /\ \A t \in q.mapTx : t \in p.mapTx \/ \E j \in 1 .. m : t = Contents[b][j]
  /\ \A t \in p.mapTx : t \in q.mapTx \/ HasCause(t, Parent[b])
  /\ \A j \in 1 .. m : \/ Contents[b][j] \in q.mapTx \/ Contents[b][j] \in Special
                       \/ HasCause(Contents[b][j], Parent[b])

\* What can keep the next transaction of the block from coming back.
LEMMA ComesBack ==
  ASSUME NEW b \in Blocks \ {Genesis}, NEW p, IsPool(p), Spendable(p, b),
         NEW i \in Nat, i + 1 \in DOMAIN Contents[b], NEW q, UndoFits(q, p, b, i),
         NEW c, c = Contents[b][i + 1], c \notin Special
  PROVE  Accepts(q, Parent[b], c) \/ HasCause(c, Parent[b])
<1> DEFINE below == Parent[b]
           txs == Contents[b]
<1>1. /\ below \in Blocks /\ below = Parent[b] /\ txs = Contents[b] /\ txs \in Seq(Tx)
      /\ TxsOf[b] = TxsOf[below] \cup ToSet(txs)
  BY TreeFacts, MempoolAssumption DEF MempoolAssumption
<1>2. /\ ToSet(txs) \cap TxsOf[below] = {}
      /\ Inputs[c] \subseteq Unspent[below] \cup Creates({txs[j] : j \in 1 .. i + 1 - 1})
      /\ \A j, k \in DOMAIN txs : j # k => txs[j] # txs[k] /\ Inputs[txs[j]] \cap Inputs[txs[k]] = {}
  <2> DEFINE m == i + 1
  <2>1. m \in DOMAIN Contents[b] /\ c = Contents[b][m] /\ m = i + 1
    OBVIOUS
  <2> HIDE DEF m
  <2>2. Inputs[Contents[b][m]] \subseteq
          Unspent[Parent[b]] \cup Creates({Contents[b][j] : j \in 1 .. m - 1})
    BY <2>1, MempoolAssumption, Zenon DEF MempoolAssumption
  <2>3. ToSet(txs) \cap TxsOf[below] = {}
    BY MempoolAssumption DEF MempoolAssumption
  <2>4. \A j, k \in DOMAIN txs : j # k => txs[j] # txs[k] /\ Inputs[txs[j]] \cap Inputs[txs[k]] = {}
    BY MempoolAssumption DEF MempoolAssumption
  <2> QED  BY <2>1, <2>2, <2>3, <2>4
<1>3. \A j \in 1 .. i : j \in DOMAIN txs /\ j # i + 1
  BY <1>1
<1>4. c \in Tx /\ c \in ToSet(txs) /\ c \in TxsOf[b] /\ c \notin TxsOf[below]
  BY <1>1, <1>2 DEF ToSet
<1>5. \A t \in q.mapTx : t \in p.mapTx \/ \E j \in 1 .. i : t = txs[j]
  BY DEF UndoFits
<1> HIDE DEF below, txs
<1>6. c \notin q.mapTx
  <2>1. c \notin p.mapTx
    BY <1>4 DEF Spendable
  <2>2. \A j \in 1 .. i : c # txs[j]
    BY <1>1, <1>2, <1>3
  <2> QED  BY <1>5, <2>1, <2>2
<1>7. ASSUME NEW o \in Inputs[c]  PROVE o \notin DOMAIN q.mapNextTx
  <2>1. SUFFICES ASSUME o \in DOMAIN q.mapNextTx  PROVE FALSE
    OBVIOUS
  <2>2. PICK u \in q.mapTx : o \in Inputs[u]
    BY <2>1, Spenders DEF UndoFits
  <2>3. CASE u \in p.mapTx
    <3>1. Maker(o) \in TxsOf[b] /\ o \in Spends(TxsOf[b])
      BY <1>4, ChainIsClosed DEF Spends
    <3>2. Maker(o) \notin p.mapTx
      BY <3>1 DEF Spendable
    <3>3. o \in Unspent[b]
      BY <2>2, <2>3, <3>2 DEF Spendable
    <3> QED  BY <3>1, <3>3, UnspentIs
  <2>4. CASE \E j \in 1 .. i : u = txs[j]
    <3>1. Inputs[u] \cap Inputs[c] = {}
      BY <1>1, <1>2, <1>3, <2>4
    <3> QED  BY <2>2, <3>1
  <2> QED  BY <1>5, <2>3, <2>4
<1>8. Outputs[c] \cap Unspent[below] = {}
  <2>1. ASSUME NEW o \in Outputs[c], o \in Unspent[below]  PROVE FALSE
    <3>1. Maker(o) = c /\ Maker(o) \in TxsOf[below]
      BY <1>1, <1>4, <2>1, MakerOf, UnspentIs
    <3> QED  BY <1>4, <3>1
  <2> QED  BY <2>1
<1>9. Inputs[c] # {}
  <2>1. Genesis \in Blocks /\ c \notin ToSet(Contents[Genesis])
    <3>1. TxsOf[Genesis] \subseteq TxsOf[below]
      <4> DEFINE S == {d \in Blocks : TxsOf[Genesis] \subseteq TxsOf[d]}
      <4>1. Genesis \in S
        BY TreeFacts
      <4>2. \A d \in Blocks \ {Genesis} : Parent[d] \in S => d \in S
        BY TreeFacts
      <4> HIDE DEF S
      <4>3. \A d \in Blocks : d \in S
        BY <4>1, <4>2, TreeInduction
      <4> QED  BY <1>1, <4>3 DEF S
    <3> QED  BY <1>4, <3>1, TreeFacts
  <2> QED  BY <1>4, <2>1, MempoolAssumption DEF MempoolAssumption
<1>10. MayEnter(q, below, c)
  BY <1>6, <1>7, <1>8, <1>9 DEF MayEnter, HaveCoins
<1>11. ASSUME NEW o \in Inputs[c], Maker(o) \notin q.mapTx, ~(o \in Unspent[below] /\ Mature(below, o))
       PROVE  HasCause(c, below)
  <2>1. CASE o \in Unspent[below]
    <3>1. Maker(o) \in Special /\ ~Mature(below, o)
      BY <1>11, <2>1 DEF Mature
    <3>2. Doomed(c, below)
      BY <3>1 DEF Doomed
    <3> QED  BY <1>4, <3>2, CauseOf
  <2>2. CASE o \in Creates({txs[j] : j \in 1 .. i + 1 - 1})
    <3>1. \A j \in 1 .. i + 1 - 1 : j \in 1 .. i
      OBVIOUS
    <3>2. PICK j \in 1 .. i : o \in Outputs[txs[j]]
      BY <2>2, <3>1 DEF Creates
    <3>3. txs[j] \in Tx /\ txs[j] \in ToSet(txs)
      BY <1>1, <1>3 DEF ToSet
    <3>4. Maker(o) = txs[j]
      BY <3>2, <3>3, MakerOf
    <3>5. CASE txs[j] \in Special
      <4>1. Doomed(c, below)
        BY <1>2, <3>3, <3>4, <3>5 DEF Doomed
      <4> QED  BY <1>4, <4>1, CauseOf
    <3>6. CASE HasCause(txs[j], below)
      BY <1>4, <3>4, <3>6, CauseOf
    <3> QED  BY <1>1, <1>11, <3>4, <3>5, <3>6 DEF UndoFits
  <2> QED  BY <1>2, <2>1, <2>2
<1>12. Accepts(q, below, c) \/ HasCause(c, below)
  BY <1>10, <1>11 DEF Accepts
<1> QED  BY <1>12 DEF below

LEMMA UndoCause ==
  ASSUME NEW b \in Blocks \ {Genesis}, NEW p, IsPool(p), Spendable(p, b),
         NEW q, q = AllResurrected(p, Parent[b], Contents[b], {})
  PROVE  UndoFits(q, p, b, Len(Contents[b]))
<1> DEFINE txs == Contents[b]
           n == Len(txs)
           below == Parent[b]
<1>1. /\ n \in Nat /\ n = Len(txs) /\ DOMAIN txs = 1 .. n /\ txs = Contents[b]
      /\ \A i \in 1 .. n : txs[i] \in Tx /\ txs[i] \in ToSet(txs)
  <2>1. txs \in Seq(Tx)
    BY MempoolAssumption DEF MempoolAssumption
  <2> QED  BY <2>1 DEF ToSet
<1>2. below \in Blocks /\ below = Parent[b] /\ ToSet(txs) \cap TxsOf[below] = {}
  BY TreeFacts, MempoolAssumption DEF MempoolAssumption
<1>3. q = AllResurrected(p, below, txs, {})
  OBVIOUS
<1> HIDE DEF n, txs, below
<1>4. PICK r : UndoRun(r, p, n, txs, below, {}) /\ r[n] = q
  BY <1>1, <1>3, UndoFold
<1>5. /\ r[0] = p /\ r[n] = q
      /\ \A i \in 0 .. n - 1 : r[i + 1] = Resurrected(r[i], below, txs[i + 1], {})
  BY <1>4 DEF UndoRun
<1> DEFINE T == {i \in 0 .. n : UndoFits(r[i], p, b, i)}
<1>6. 0 \in T
  <2>1. UndoFits(p, p, b, 0)
    BY DEF UndoFits
  <2> QED  BY <1>1, <1>5, <2>1
<1>7. ASSUME NEW i \in 0 .. n - 1, i \in T  PROVE i + 1 \in T
  <2> DEFINE a == r[i]
             d == r[i + 1]
             c == txs[i + 1]
             k == i + 1
  <2>1. /\ i \in Nat /\ k \in 0 .. n /\ k \in DOMAIN txs /\ k \in 1 .. k /\ k = i + 1
        /\ d = Resurrected(a, below, c, {})
        /\ c \in Tx /\ c \in ToSet(txs) /\ c = Contents[b][i + 1]
        /\ \A j \in 1 .. k : j \in 1 .. i \/ j = k
        /\ \A j \in 1 .. i : j \in 1 .. k
    BY <1>1, <1>5
  <2>2. UndoFits(a, p, b, i)
    BY <1>7
  <2>3. IsPool(a)
    BY <2>2 DEF UndoFits
  <2> HIDE DEF a, c, d, k
  <2>4. Accepts(a, below, c) \/ (c \in Special /\ c \notin TxsOf[below]) \/ HasCause(c, below)
    <3>1. CASE c \notin Special
      BY <1>1, <1>2, <2>1, <2>2, <3>1, ComesBack
    <3> QED  BY <1>2, <2>1, <3>1
  <2>5. /\ \A t \in a.mapTx : t \in d.mapTx \/ HasCause(t, below)
        /\ c \in d.mapTx \/ c \in Special \/ HasCause(c, below)
    BY <1>2, <2>1, <2>3, <2>4, ResurrectedCause
  <2>6. IsPool(d) /\ d.mapTx \subseteq a.mapTx \cup {c}
    <3>1. CASE Accepts(a, below, c)
      <4>1. d = addUnchecked(a, c) /\ c \notin Special /\ Inputs[c] \cap DOMAIN a.mapNextTx = {}
        BY <2>1, <3>1 DEF Resurrected, Accepts, MayEnter
      <4> QED  BY <2>1, <2>3, <4>1, PoolGrows
    <3>2. CASE d = remove(a, {c}, TRUE)
      <4> DEFINE S == {c}
      <4>1. d = remove(a, S, TRUE)
        BY <3>2
      <4> HIDE DEF S
      <4>2. IsPool(d) /\ d.mapTx \subseteq a.mapTx \ S
        BY <2>3, <4>1, RemovedRecursively
      <4> QED  BY <4>2
    <3> QED  BY <2>1, <3>1, <3>2 DEF Resurrected
  <2>7. ASSUME NEW t \in d.mapTx  PROVE t \in p.mapTx \/ \E j \in 1 .. k : t = Contents[b][j]
    BY <2>1, <2>2, <2>6 DEF UndoFits
  <2>8. ASSUME NEW t \in p.mapTx  PROVE t \in d.mapTx \/ HasCause(t, below)
    BY <1>2, <2>2, <2>5 DEF UndoFits
  <2>9. ASSUME NEW j \in 1 .. k
        PROVE  \/ Contents[b][j] \in d.mapTx \/ Contents[b][j] \in Special
               \/ HasCause(Contents[b][j], below)
    <3>1. CASE j = k
      BY <2>1, <2>5, <3>1
    <3>2. CASE j \in 1 .. i
      BY <1>2, <2>2, <2>5, <3>2 DEF UndoFits
    <3> QED  BY <2>1, <3>1, <3>2
  <2>10. UndoFits(d, p, b, k)
    BY <1>2, <2>6, <2>7, <2>8, <2>9 DEF UndoFits
  <2> QED  BY <2>1, <2>10 DEF d, k
<1> HIDE DEF T
<1>8. n \in 0 .. n
  BY <1>1
<1>9. n \in T
  BY <1>1, <1>6, <1>7, <1>8, Induction
<1> QED  BY <1>1, <1>5, <1>9 DEF T, txs

\* What removeCoinbaseSpends takes after the block b is undone.
LEMMA YoungCause ==
  ASSUME NEW b \in Blocks \ {Genesis}, NEW p, IsPool(p), Spendable(p, b),
         NEW s, UndoFits(s, p, b, Len(Contents[b])), NEW q, q = removeCoinbaseSpends(s, Parent[b])
  PROVE  \A t \in s.mapTx : t \in q.mapTx \/ HasCause(t, Parent[b])
<1> DEFINE txs == Contents[b]
           n == Len(txs)
           below == Parent[b]
           S == {t \in s.mapTx : \E o \in Inputs[t] :
                   /\ Maker(o) \notin s.mapTx
                   /\ ~HaveCoins(s, below, Maker(o)) \/ ~Mature(below, o)}
<1>1. /\ n \in Nat /\ DOMAIN txs = 1 .. n /\ txs = Contents[b]
      /\ \A i \in 1 .. n : txs[i] \in Tx
      /\ ToSet(txs) = {txs[i] : i \in 1 .. n}
  <2>1. txs \in Seq(Tx)
    BY MempoolAssumption DEF MempoolAssumption
  <2> QED  BY <2>1 DEF ToSet
<1>2. /\ below \in Blocks /\ below = Parent[b] /\ ToSet(txs) \cap TxsOf[below] = {}
      /\ TxsOf[b] = TxsOf[below] \cup ToSet(txs)
  BY TreeFacts, MempoolAssumption DEF MempoolAssumption
<1>3. q = remove(s, S, TRUE)
  BY DEF removeCoinbaseSpends
<1>4. UndoFits(s, p, b, n) /\ IsPool(s)
  BY DEF UndoFits
<1>5. S \in SUBSET s.mapTx /\ S \in SUBSET Tx
  BY <1>4 DEF IsPool
<1>6. ASSUME NEW t \in S  PROVE t \in Tx /\ HasCause(t, below)
  <2>1. t \in s.mapTx /\ t \in Tx
    BY <1>5
  <2>2. PICK o \in Inputs[t] : Maker(o) \notin s.mapTx /\ (~HaveCoins(s, below, Maker(o)) \/ ~Mature(below, o))
    OBVIOUS
  <2> HIDE DEF S, n, txs, below
  <2>3. o \in Outputs[Maker(o)] /\ Maker(o) \in Tx
    BY <2>1, MakerOf
  <2>4. CASE o \in Unspent[below]
    <3>1. HaveCoins(s, below, Maker(o))
      BY <2>3, <2>4 DEF HaveCoins
    <3>2. Maker(o) \in Special /\ ~Mature(below, o)
      BY <2>2, <3>1 DEF Mature
    <3>3. Doomed(t, below)
      BY <3>2 DEF Doomed
    <3> QED  BY <2>1, <3>3, CauseOf
  <2>5. CASE Maker(o) \in ToSet(txs)
    <3>1. PICK j \in 1 .. n : Maker(o) = Contents[b][j]
      BY <1>1, <2>5
    <3>2. CASE Maker(o) \in Special
      <4>1. Doomed(t, below)
        BY <1>2, <2>5, <3>2 DEF Doomed
      <4> QED  BY <2>1, <4>1, CauseOf
    <3>3. CASE HasCause(Maker(o), below)
      BY <2>1, <3>3, CauseOf
    <3> QED  BY <1>2, <1>4, <2>2, <3>1, <3>2, <3>3 DEF UndoFits
  <2>6. CASE Maker(o) \in p.mapTx
    <3>1. HasCause(Maker(o), below)
      BY <1>2, <1>4, <2>2, <2>6 DEF UndoFits
    <3> QED  BY <2>1, <3>1, CauseOf
  <2>7. CASE t \in p.mapTx /\ o \in Unspent[b]
    <3>1. Maker(o) \in ToSet(Contents[b]) \/ o \in Unspent[Parent[b]]
      BY <2>7, UnspentBelow
    <3> QED  BY <1>1, <1>2, <2>4, <2>5, <3>1
  <2>8. CASE t \in ToSet(txs)
    <3>1. o \in Unspent[below] \cup Creates(ToSet(txs))
      BY <1>1, <1>2, <2>8, BlockSpends DEF Spends
    <3>2. CASE o \in Creates(ToSet(txs))
      <4>1. PICK u \in ToSet(txs) : o \in Outputs[u]
        BY <3>2 DEF Creates
      <4>2. Maker(o) = u
        BY <1>1, <4>1, MakerOf
      <4> QED  BY <2>5, <4>2
    <3> QED  BY <2>4, <3>1, <3>2
  <2>9. t \in p.mapTx \/ t \in ToSet(txs)
    BY <1>1, <1>4, <2>1 DEF UndoFits
  <2> QED  BY <2>6, <2>7, <2>8, <2>9 DEF Spendable
<1> HIDE DEF S, n, txs, below
<1>7. ASSUME NEW t \in s.mapTx, NEW o \in Inputs[t], Maker(o) \in S  PROVE HasCause(t, below)
  <2>1. t \in Tx
    BY <1>4 DEF IsPool
  <2> QED  BY <1>6, <1>7, <2>1, CauseOf
<1>8. \A t \in s.mapTx : t \in q.mapTx \/ HasCause(t, below)
  BY <1>3, <1>4, <1>5, <1>6, <1>7, RemovedForCause
<1> QED  BY <1>8 DEF below

-------------------------------------------------------------------------------
(* No step loses anything without a cause. *)

Counting == spent \in [Rare -> Nat]

LEMMA SpendChanges ==
  ASSUME Counting, NEW e \in Rare, Spend(e)
  PROVE  spent' # spent /\ Counting'
BY DEF Counting, Spend

LEMMA RefusingCounts ==
  ASSUME Counting, NEW R, Refusing(R)
  PROVE  Counting' /\ (spent' = spent => R = {})
<1>1. "refused" \in Rare
  BY DEF Rare
<1>2. CASE R = {} /\ UNCHANGED spent
  BY <1>2 DEF Counting
<1>3. CASE Spend("refused")
  BY <1>1, <1>3, SpendChanges
<1> QED  BY <1>2, <1>3 DEF Refusing

LEMMA InitCounts == Init => Counting
BY DEF Init, Counting

LEMMA NextCounts == Counting /\ [Next]_vars => Counting'
<1> SUFFICES ASSUME Counting, [Next]_vars  PROVE Counting'
  OBVIOUS
<1>1. ASSUME NEW t \in Tx, AcceptTx(t)  PROVE Counting'
  <2>1. \E R \in SUBSET Tx : Refusing(R)
    BY <1>1 DEF AcceptTx
  <2> QED  BY <2>1, RefusingCounts
<1>2. CASE DisconnectTip
  <2>1. \E R \in SUBSET Tx : Refusing(R)
    BY <1>2 DEF DisconnectTip
  <2> QED  BY <2>1, RefusingCounts
<1>3. CASE ClearPool
  <2>1. "cleared" \in Rare /\ Spend("cleared")
    BY <1>3 DEF ClearPool, Rare
  <2> QED  BY <2>1, SpendChanges
<1>4. CASE UNCHANGED spent
  BY <1>4 DEF Counting
<1> QED  BY <1>1, <1>2, <1>3, <1>4 DEF Next, KeepOrphan, Submit, ForgetPeer, ConnectTip, vars

Loses == \A t \in Kept : t \in Kept' \/ HasCause(t, tip')

LEMMA GrowingLosesNothing ==
  ASSUME pool.mapTx \subseteq pool'.mapTx, tip' = tip
  PROVE  Loses
BY DEF Loses, Kept

LEMMA AcceptTxLoses ==
  ASSUME PoolInv, NEW t \in Tx, AcceptTx(t)
  PROVE  Loses
<1>1. PICK R \in SUBSET Tx, punish \in BOOLEAN :
        LET w == Resolved([pool |-> addUnchecked(pool, t), queue |-> <<t>>, erase |-> {},
                           refused |-> R, punish |-> punish, misbehaving |-> {}])
        IN  pool' = w.pool
  BY DEF AcceptTx
<1> DEFINE v == [pool |-> addUnchecked(pool, t), queue |-> <<t>>, erase |-> {},
                 refused |-> R, punish |-> punish, misbehaving |-> {}]
           w == Resolved(v)
<1>2. pool' = w.pool
  BY <1>1
<1>3. Accepts(pool, tip, t) /\ tip' = tip /\ tip \in Blocks /\ OrphansListed
  BY DEF AcceptTx, PoolInv
<1>4. Work(v) /\ Waiting(v, 1, {})
  <2>1. v = [pool |-> addUnchecked(pool, t), queue |-> <<t>>, erase |-> {},
             refused |-> R, punish |-> punish, misbehaving |-> {}]
    OBVIOUS
  <2> HIDE DEF v
  <2> QED  BY <1>3, <2>1, Started
<1>5. w = Resolved(v)
  OBVIOUS
<1> HIDE DEF v, w
<1>6. Work(w)
  BY <1>3, <1>4, <1>5, ResolvedIs
<1> QED  BY <1>2, <1>3, <1>6, GrowingLosesNothing DEF Work

LEMMA ConnectTipLoses ==
  ASSUME PoolInv, NEW b \in Blocks, ConnectTip(b)
  PROVE  Loses
<1> DEFINE txs == Contents[b]
<1>1. /\ b \in Blocks \ {Genesis} /\ Parent[b] = tip /\ tip' = b /\ IsPool(pool)
      /\ pool' = removeForBlock(pool, txs)
  BY DEF ConnectTip, PoolInv
<1>2. txs \in Seq(Tx) /\ TxsOf[b] = TxsOf[tip] \cup ToSet(txs)
  BY <1>1, TreeFacts, MempoolAssumption DEF MempoolAssumption
<1> HIDE DEF txs
<1>3. \A t \in pool.mapTx : t \in pool'.mapTx \/ t \in TxsOf[b] \/ HasCause(t, b)
  BY <1>1, <1>2, BlockCause
<1>4. pool.mapTx \cap Special = {}
  BY <1>1 DEF IsPool
<1> QED  BY <1>1, <1>2, <1>3, <1>4 DEF Loses, Kept

LEMMA DisconnectTipLoses ==
  ASSUME PoolInv, Counting, DisconnectTip, spent' = spent
  PROVE  Loses
<1> DEFINE below == Parent[tip]
           txs == Contents[tip]
<1>1. /\ tip \in Blocks \ {Genesis} /\ below \in Blocks /\ tip' = below
      /\ IsPool(pool) /\ Spendable(pool, tip)
      /\ TxsOf[tip] = TxsOf[below] \cup ToSet(txs)
  BY TreeFacts DEF DisconnectTip, PoolInv
<1>2. PICK R \in SUBSET Tx :
        Refusing(R) /\ pool' = removeCoinbaseSpends(AllResurrected(pool, below, txs, R), below)
  BY DEF DisconnectTip
<1>3. R = {}
  BY <1>2, RefusingCounts
<1> DEFINE s == AllResurrected(pool, below, txs, {})
<1>4. UndoFits(s, pool, tip, Len(txs))
  BY <1>1, UndoCause
<1>5. pool' = removeCoinbaseSpends(s, below)
  BY <1>2, <1>3
<1> HIDE DEF s
<1>6. \A t \in s.mapTx : t \in pool'.mapTx \/ HasCause(t, below)
  BY <1>1, <1>4, <1>5, YoungCause
<1>7. ASSUME NEW t \in pool.mapTx  PROVE t \in pool'.mapTx \/ HasCause(t, below)
  BY <1>4, <1>6 DEF UndoFits
<1>8. ASSUME NEW t \in ToSet(txs) \ Special  PROVE t \in pool'.mapTx \/ HasCause(t, below)
  <2>1. txs \in Seq(Tx)
    BY <1>1, MempoolAssumption DEF MempoolAssumption
  <2>2. PICK j \in 1 .. Len(txs) : t = txs[j]
    BY <2>1 DEF ToSet
  <2> QED  BY <1>4, <1>6, <2>2 DEF UndoFits
<1> QED  BY <1>1, <1>7, <1>8 DEF Loses, Kept

LEMMA NextLoses == PoolInv /\ Counting /\ [Next]_vars /\ spent' = spent => Loses
<1> SUFFICES ASSUME PoolInv, Counting, [Next]_vars, spent' = spent  PROVE Loses
  OBVIOUS
<1>1. ASSUME NEW t \in Tx, AcceptTx(t)  PROVE Loses
  BY <1>1, AcceptTxLoses
<1>2. ASSUME NEW t \in Tx, NEW peer \in Peers, KeepOrphan(t, peer)  PROVE Loses
  BY <1>2, GrowingLosesNothing DEF KeepOrphan
<1>3. ASSUME NEW t \in Tx, Submit(t)  PROVE Loses
  BY <1>3, GrowingLosesNothing DEF Submit, addUnchecked
<1>4. ASSUME NEW peer \in Peers, ForgetPeer(peer)  PROVE Loses
  BY <1>4, GrowingLosesNothing DEF ForgetPeer
<1>5. ASSUME NEW b \in Blocks, ConnectTip(b)  PROVE Loses
  BY <1>5, ConnectTipLoses
<1>6. CASE DisconnectTip
  BY <1>6, DisconnectTipLoses
<1>7. CASE ClearPool
  BY <1>7, SpendChanges DEF ClearPool, Rare
<1>8. CASE UNCHANGED vars
  BY <1>8, GrowingLosesNothing DEF vars
<1> QED  BY <1>1, <1>2, <1>3, <1>4, <1>5, <1>6, <1>7, <1>8 DEF Next

\* No transaction of the pool, or of a block that is disconnected, is lost but for a double
\* spend or an immature coinbase among its own ancestors, or a refusal by policy.
THEOREM LossHasCause == Spec => LostForCause
<1>1. PoolInv /\ Counting /\ [Next]_vars =>
        [spent' = spent => \A t \in Kept : t \in Kept' \/ \E a \in Lineage[t] : Doomed(a, tip')]_vars
  BY NextLoses DEF Loses, HasCause
<1> QED  BY <1>1, PoolAlways, InitCounts, NextCounts, PTL DEF Spec, LostForCause
===============================================================================
