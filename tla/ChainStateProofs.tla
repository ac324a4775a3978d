---------------------------- MODULE ChainStateProofs ----------------------------
(***************************************************************************)
(* Proofs about ChainState for any finite tree of blocks, any work and any *)
(* budgets.  The first part is about the tree: induction along Parent is   *)
(* taken from the least-number principle on sets of blocks.                *)
(***************************************************************************)
EXTENDS ChainRestart, FiniteSetTheorems, WellFoundedInduction, TLAPS

LEMMA LeastNatural ==
  ASSUME NEW T \in SUBSET Nat, T # {}
  PROVE  \E n \in T : \A m \in T : n <= m
<1> DEFINE R == OpToRel(<, Nat)
<1>1. IsWellFoundedOn(R, Nat)
  BY NatLessThanWellFounded
<1>2. \A m, n \in Nat : m < n => <<m, n>> \in R
  BY DEF OpToRel
<1> HIDE DEF R
<1>3. PICK n \in T : \A m \in T : ~(<<m, n>> \in R)
  BY <1>1, WFMin, Zenon
<1>4. ASSUME NEW m \in T  PROVE n <= m
  <2>1. ~(m < n)
    BY <1>2, <1>3
  <2> QED  BY <2>1
<1> QED  BY <1>4

\* What holds of the genesis block, and of a block when it holds of its parent, holds
\* of every block.
LEMMA TreeInduction ==
  ASSUME NEW S \in SUBSET Blocks, Genesis \in S,
         \A b \in Blocks \ {Genesis} : Parent[b] \in S => b \in S
  PROVE  S = Blocks
<1> DEFINE T == {Work[b] : b \in Blocks \ S}
<1> SUFFICES ASSUME Blocks \ S # {}  PROVE FALSE
  OBVIOUS
<1>1. T \in SUBSET Nat /\ T # {}
  BY WorkAssumption
<1> HIDE DEF T
<1>2. PICK n \in T : \A m \in T : n <= m
  BY <1>1, LeastNatural
<1> USE DEF T
<1>3. PICK b \in Blocks \ S : n = Work[b]
  BY <1>2
<1>4. Parent[b] \in Blocks \ S /\ Work[Parent[b]] < Work[b]
  BY TreeAssumption, WorkAssumption
<1>5. Work[b] <= Work[Parent[b]] /\ Work[b] \in Nat /\ Work[Parent[b]] \in Nat
  BY <1>2, <1>3, <1>4, WorkAssumption
<1> QED  BY <1>4, <1>5

LEMMA ParentChain ==
  ASSUME NEW b \in Blocks \ {Genesis}
  PROVE  /\ Parent[b] \in Blocks /\ Chain[b] = Chain[Parent[b]] \cup {b}
         /\ b \notin Chain[Parent[b]] /\ Work[Parent[b]] < Work[b]
         /\ Work[b] \in Nat /\ Work[Parent[b]] \in Nat
BY TreeAssumption, WorkAssumption

LEMMA ChainSelf ==
  ASSUME NEW b \in Blocks
  PROVE  b \in Chain[b] /\ Chain[b] \in SUBSET Blocks
BY TreeAssumption

LEMMA ChainGenesis == \A b \in Blocks : Genesis \in Chain[b]
<1> DEFINE S == {b \in Blocks : Genesis \in Chain[b]}
<1>1. Genesis \in S
  BY TreeAssumption
<1>2. \A b \in Blocks \ {Genesis} : Parent[b] \in S => b \in S
  BY ParentChain
<1>3. S \in SUBSET Blocks
  OBVIOUS
<1> HIDE DEF S
<1>4. S = Blocks
  BY <1>1, <1>2, <1>3, TreeInduction
<1> QED  BY <1>4 DEF S

\* The chain of an ancestor is a part of the chain, and the ancestor has less work.
LEMMA ChainTransitive ==
  \A b \in Blocks : \A c \in Chain[b] :
    Chain[c] \subseteq Chain[b] /\ (c # b => Work[c] < Work[b])
<1> DEFINE S == {b \in Blocks : \A c \in Chain[b] :
                   Chain[c] \subseteq Chain[b] /\ (c # b => Work[c] < Work[b])}
<1>1. Genesis \in S
  BY TreeAssumption
<1>2. ASSUME NEW b \in Blocks \ {Genesis}, Parent[b] \in S  PROVE b \in S
  <2>1. ASSUME NEW c \in Chain[b]
        PROVE  Chain[c] \subseteq Chain[b] /\ (c # b => Work[c] < Work[b])
    <3>1. CASE c = b
      BY <3>1
    <3>2. CASE c # b
      <4>1. c \in Chain[Parent[b]] /\ Parent[b] \in Blocks
        BY <3>2, ParentChain
      <4>2. c \in Blocks /\ Work[c] \in Nat
        BY <4>1, ChainSelf, WorkAssumption
      <4>3. Chain[c] \subseteq Chain[Parent[b]] /\ (c # Parent[b] => Work[c] < Work[Parent[b]])
        BY <1>2, <4>1
      <4>4. Work[c] <= Work[Parent[b]]
        BY <4>2, <4>3, ParentChain
      <4> QED  BY <4>2, <4>3, <4>4, ParentChain
    <3> QED  BY <3>1, <3>2
  <2> QED  BY <2>1
<1>3. S \in SUBSET Blocks
  OBVIOUS
<1> HIDE DEF S
<1>4. S = Blocks
  BY <1>1, <1>2, <1>3, TreeInduction
<1> QED  BY <1>4 DEF S

\* Of two blocks of one chain, one is an ancestor of the other.
LEMMA ChainLinear ==
  \A b \in Blocks : \A c, d \in Chain[b] : c \in Chain[d] \/ d \in Chain[c]
<1> DEFINE S == {b \in Blocks : \A c, d \in Chain[b] : c \in Chain[d] \/ d \in Chain[c]}
<1>1. Genesis \in S
  BY TreeAssumption
<1>2. ASSUME NEW b \in Blocks \ {Genesis}, Parent[b] \in S  PROVE b \in S
  BY <1>2, ParentChain
<1>3. S \in SUBSET Blocks
  OBVIOUS
<1> HIDE DEF S
<1>4. S = Blocks
  BY <1>1, <1>2, <1>3, TreeInduction
<1> QED  BY <1>4 DEF S

\* A block of a chain that is not its top has a child on it.
LEMMA ChainFollows ==
  \A b \in Blocks : \A c \in Chain[b] \ {b} : \E x \in Chain[b] : x # Genesis /\ Parent[x] = c
<1> DEFINE S == {b \in Blocks : \A c \in Chain[b] \ {b} :
                   \E x \in Chain[b] : x # Genesis /\ Parent[x] = c}
<1>1. Genesis \in S
  BY TreeAssumption
<1>2. ASSUME NEW b \in Blocks \ {Genesis}, Parent[b] \in S  PROVE b \in S
  <2>1. ASSUME NEW c \in Chain[b] \ {b}
        PROVE  \E x \in Chain[b] : x # Genesis /\ Parent[x] = c
    <3>1. CASE c = Parent[b]
      BY <3>1, ParentChain
    <3>2. CASE c # Parent[b]
      <4>1. c \in Chain[Parent[b]] \ {Parent[b]}
        BY <2>1, <3>2, ParentChain
      <4> QED  BY <1>2, <4>1, ParentChain
    <3> QED  BY <3>1, <3>2
  <2> QED  BY <2>1
<1>3. S \in SUBSET Blocks
  OBVIOUS
<1> HIDE DEF S
<1>4. S = Blocks
  BY <1>1, <1>2, <1>3, TreeInduction
<1> QED  BY <1>4 DEF S

-----------------------------------------------------------------------------
\* A finite set has an element below which, in a transitive relation, no other is.
LEMMA BestExists ==
  ASSUME NEW D, IsFiniteSet(D), NEW R,
         \A x \in D : <<x, x>> \notin R,
         \A x, y, z \in D : <<x, y>> \in R /\ <<y, z>> \in R => <<x, z>> \in R,
         D # {}
  PROVE  \E x \in D : \A y \in D : <<x, y>> \notin R
<1> DEFINE Lacks(S) == S # {} /\ \A x \in S : \E y \in S : <<x, y>> \in R
           T == {Cardinality(S) : S \in {U \in SUBSET D : Lacks(U)}}
<1> SUFFICES ASSUME Lacks(D)  PROVE FALSE
  OBVIOUS
<1>1. \A S \in SUBSET D : IsFiniteSet(S) /\ Cardinality(S) \in Nat
  <2> SUFFICES ASSUME NEW S \in SUBSET D  PROVE IsFiniteSet(S) /\ Cardinality(S) \in Nat
    OBVIOUS
  <2>1. IsFiniteSet(S)
    BY FS_Subset
  <2> QED  BY <2>1, FS_CardinalityType
<1> HIDE DEF Lacks
<1>2. T \in SUBSET Nat /\ T # {}
  BY <1>1
<1> HIDE DEF T
<1>3. PICK n \in T : \A m \in T : n <= m
  BY <1>2, LeastNatural
<1> USE DEF Lacks
<1>4. PICK S \in SUBSET D : Lacks(S) /\ n = Cardinality(S)
  BY <1>3 DEF T
<1>5. PICK x \in S : TRUE
  BY <1>4
<1>6. Cardinality(S \ {x}) = Cardinality(S) - 1
  BY <1>1, <1>4, <1>5, FS_RemoveElement
<1>7. Lacks(S \ {x})
  <2>1. S \ {x} # {}
    BY <1>4
  <2>2. ASSUME NEW y \in S \ {x}  PROVE \E z \in S \ {x} : <<y, z>> \in R
    <3>1. PICK z \in S : <<y, z>> \in R
      BY <1>4
    <3>2. PICK w \in S : <<x, w>> \in R
      BY <1>4
    <3>3. CASE z = x
      <4>1. <<y, w>> \in R /\ w # x
        BY <3>1, <3>2, <3>3
      <4> QED  BY <4>1
    <3> QED  BY <3>1, <3>3
  <2> QED  BY <2>1, <2>2
<1> HIDE DEF Lacks
<1>8. Cardinality(S \ {x}) \in T
  BY <1>7 DEF T
<1>9. Cardinality(S) \in Nat
  BY <1>1
<1> QED  BY <1>3, <1>4, <1>6, <1>8, <1>9

\* The comparator is a strict total order of the entries, whatever their numbers.
LEMMA WorseOrder ==
  ASSUME NEW s \in [Blocks -> Nat]
  PROVE  /\ \A x \in Blocks : ~WorseBy(s, x, x)
         /\ \A x, y, z \in Blocks : WorseBy(s, x, y) /\ WorseBy(s, y, z) => WorseBy(s, x, z)
         /\ \A x, y \in Blocks : WorseBy(s, x, y) => ~WorseBy(s, y, x)
BY WorkAssumption, AddressAssumption DEF WorseBy

LEMMA BestOfWorks ==
  ASSUME seq \in [Blocks -> Nat], NEW S \in SUBSET Blocks, S # {}
  PROVE  BestOf(S) \in S /\ \A c \in S : ~Worse(BestOf(S), c)
<1> DEFINE R == {p \in S \X S : Worse(p[1], p[2])}
<1>1. IsFiniteSet(S)
  BY TreeAssumption, FS_Subset
<1>2. \A x, y \in S : <<x, y>> \in R <=> Worse(x, y)
  OBVIOUS
<1> HIDE DEF R
<1>3. /\ \A x \in S : <<x, x>> \notin R
      /\ \A x, y, z \in S : <<x, y>> \in R /\ <<y, z>> \in R => <<x, z>> \in R
  BY <1>2, WorseOrder DEF Worse
<1>4. \E x \in S : \A y \in S : <<x, y>> \notin R
  BY <1>1, <1>3, BestExists, Zenon
<1>5. \E x \in S : \A y \in S : ~Worse(x, y)
  BY <1>2, <1>4
<1> QED  BY <1>5 DEF BestOf

LEMMA LastSequenceType ==
  ASSUME seq \in [Blocks -> Nat]
  PROVE  LastSequence \in Nat
<1> DEFINE R == {p \in Blocks \X Blocks : seq[p[1]] < seq[p[2]]}
<1>1. \A x, y \in Blocks : <<x, y>> \in R <=> seq[x] < seq[y]
  OBVIOUS
<1> HIDE DEF R
<1>2. /\ \A x \in Blocks : <<x, x>> \notin R
      /\ \A x, y, z \in Blocks : <<x, y>> \in R /\ <<y, z>> \in R => <<x, z>> \in R
  BY <1>1
<1>3. IsFiniteSet(Blocks) /\ Blocks # {}
  BY TreeAssumption
<1>4. PICK x \in Blocks : \A y \in Blocks : <<x, y>> \notin R
  BY <1>2, <1>3, BestExists, Zenon
<1>5. \A y \in Blocks : seq[y] <= seq[x]
  <2> SUFFICES ASSUME NEW y \in Blocks  PROVE seq[y] <= seq[x]
    OBVIOUS
  <2>1. ~(seq[x] < seq[y])
    BY <1>1, <1>4
  <2> QED  BY <2>1
<1>6. \E n \in {seq[b] : b \in Blocks} : \A b \in Blocks : seq[b] <= n
  BY <1>5
<1>7. LastSequence \in {seq[b] : b \in Blocks}
  BY <1>6 DEF LastSequence
<1> QED  BY <1>7

LEMMA TopOfWorks ==
  ASSUME NEW b \in Blocks, NEW S \in SUBSET Chain[b], S # {}
  PROVE  TopOf(S) \in S /\ S \subseteq Chain[TopOf(S)]
<1> DEFINE R == {p \in S \X S : Work[p[1]] < Work[p[2]]}
<1>1. S \subseteq Blocks /\ IsFiniteSet(S) /\ \A x \in S : Work[x] \in Nat
  <2>1. S \subseteq Blocks
    BY ChainSelf
  <2> QED  BY <2>1, TreeAssumption, WorkAssumption, FS_Subset
<1>2. \A x, y \in S : <<x, y>> \in R <=> Work[x] < Work[y]
  OBVIOUS
<1> HIDE DEF R
<1>3. /\ \A x \in S : <<x, x>> \notin R
      /\ \A x, y, z \in S : <<x, y>> \in R /\ <<y, z>> \in R => <<x, z>> \in R
  BY <1>1, <1>2
<1>4. PICK x \in S : \A y \in S : <<x, y>> \notin R
  BY <1>1, <1>3, BestExists, Zenon
<1>5. ASSUME NEW y \in S  PROVE y \in Chain[x]
  <2>1. CASE y \in Chain[x]
    BY <2>1
  <2>2. CASE x \in Chain[y] /\ x # y
    <3>1. Work[x] < Work[y]
      BY <1>1, <2>2, ChainTransitive
    <3> QED  BY <1>2, <1>4, <3>1
  <2> QED  BY <1>1, <2>1, <2>2, ChainLinear, ChainSelf
<1> QED  BY <1>5 DEF TopOf

LEMMA HeightType ==
  ASSUME NEW b \in Blocks
  PROVE  /\ IsFiniteSet(Chain[b]) /\ Height(b) \in Nat
         /\ Cardinality(Chain[b]) = Height(b) + 1
<1>1. IsFiniteSet(Chain[b])
  BY ChainSelf, TreeAssumption, FS_Subset
<1>2. Cardinality(Chain[b]) \in Nat /\ Cardinality(Chain[b]) # 0
  BY <1>1, ChainSelf, FS_CardinalityType, FS_EmptySet
<1> QED  BY <1>1, <1>2 DEF Height

\* A block has an ancestor at every depth up to its height.
LEMMA AncestorAtWorks ==
  ASSUME NEW b \in Blocks, NEW n \in Nat, n <= Height(b)
  PROVE  AncestorAt(b, n) \in Chain[b]
<1> DEFINE At(k) == \E a \in Chain[b] : Cardinality(Chain[b] \ Chain[a]) = k
           T == {k \in Nat : k <= Height(b) /\ ~At(k)}
<1>1. IsFiniteSet(Chain[b]) /\ Height(b) \in Nat /\ Cardinality(Chain[b]) = Height(b) + 1
  BY HeightType
<1>2. At(0)
  BY ChainSelf, FS_EmptySet
<1>3. ASSUME NEW k \in Nat, At(k), k < Height(b)  PROVE At(k + 1)
  <2>1. PICK a \in Chain[b] : Cardinality(Chain[b] \ Chain[a]) = k
    BY <1>3
  <2>2. a \in Blocks
    BY ChainSelf
  <2>3. a # Genesis
    <3> SUFFICES ASSUME a = Genesis  PROVE FALSE
      OBVIOUS
    <3>1. Chain[b] \ Chain[a] = Chain[b] \ {Genesis} /\ Genesis \in Chain[b]
      BY ChainGenesis, TreeAssumption
    <3>2. Cardinality(Chain[b] \ {Genesis}) = Cardinality(Chain[b]) - 1
      BY <1>1, <3>1, FS_RemoveElement
    <3>3. k = Cardinality(Chain[b]) - 1
      BY <2>1, <3>1, <3>2, Zenon
    <3> QED  BY <1>1, <1>3, <3>3
  <2>4. /\ Parent[a] \in Chain[b] /\ a \notin Chain[b] \ Chain[a]
        /\ Chain[b] \ Chain[Parent[a]] = (Chain[b] \ Chain[a]) \cup {a}
    BY <2>1, <2>2, <2>3, ParentChain, ChainSelf, ChainTransitive
  <2>5. IsFiniteSet(Chain[b] \ Chain[a])
    BY <1>1, FS_Subset
  <2>6. Cardinality((Chain[b] \ Chain[a]) \cup {a}) = k + 1
    BY <2>1, <2>4, <2>5, FS_AddElement
  <2> QED  BY <2>4, <2>6
<1>4. At(n)
  <2> SUFFICES ASSUME ~At(n)  PROVE FALSE
    OBVIOUS
  <2> HIDE DEF At
  <2>1. T \in SUBSET Nat /\ n \in T
    OBVIOUS
  <2>2. PICK k \in T : \A m \in T : k <= m
    BY <2>1, LeastNatural
  <2>3. k \in Nat /\ k # 0 /\ k <= Height(b) /\ ~At(k)
    BY <1>2, <2>2
  <2>4. k - 1 \in Nat /\ k - 1 < Height(b) /\ k - 1 \notin T
    BY <1>1, <2>2, <2>3
  <2>5. At(k - 1)
    BY <1>1, <2>4
  <2>6. At((k - 1) + 1)
    BY <1>3, <2>4, <2>5
  <2>7. (k - 1) + 1 = k
    BY <2>3
  <2> QED  BY <2>3, <2>6, <2>7
<1> QED  BY <1>4 DEF AncestorAt

-----------------------------------------------------------------------------
(* The invariant. *)

Linking == LinkedIsComplete /\ unlinked = {b \in data : ~Complete(b)}

GoodCandidates == \A c \in candidates : c \in linked /\ ~Worse(c, tip)

Invalidating ==
  \A t \in Thread : pc[t] \in {"invalidate", "marked"} =>
    /\ t = Rpc /\ target[t] \in Blocks \ {Genesis}
    /\ pc[t] = "marked" => target[t] \in Chain[tip]

Better(t) ==
  \/ Work[oldTip[t]] < Work[target[t]]
  \/ Work[oldTip[t]] = Work[target[t]] /\ seq[target[t]] <= seq[oldTip[t]]

\* On its way to the target a thread meets stored blocks only.
Stepping ==
  \A t \in Thread : pc[t] = "step" =>
    target[t] \in linked /\ target[t] \notin Chain[tip] /\ Better(t)

ChainInv == TypeOK /\ Linking /\ GoodCandidates /\ Invalidating /\ Stepping

LEMMA Facts ==
  ASSUME ChainInv
  PROVE  /\ tip \in Blocks /\ tip \in linked /\ tip \in Chain[tip]
         /\ Genesis \in data /\ linked \in SUBSET Blocks
         /\ \A b \in linked : Chain[b] \subseteq data /\ Chain[b] \subseteq linked
         /\ \A b \in Blocks : Chain[b] \subseteq data => b \in linked
<1>1. \A b \in linked : b \in Blocks /\ Chain[b] \subseteq data
  BY DEF ChainInv, TypeOK, Linking, LinkedIsComplete, Complete
<1>2. \A b \in Blocks : Chain[b] \subseteq data => b \in linked
  BY ChainSelf DEF ChainInv, TypeOK, Linking, LinkedIsComplete, Complete
<1>3. \A b \in linked : Chain[b] \subseteq linked
  BY <1>1, <1>2, ChainSelf, ChainTransitive
<1>4. tip \in linked
  BY DEF ChainInv, TypeOK
<1> QED  BY <1>1, <1>2, <1>3, <1>4, ChainSelf, ChainGenesis

LEMMA SpendType ==
  ASSUME TypeOK, NEW event \in Rare, Spend(event)
  PROVE  spent' \in [Rare -> Nat]
BY DEF Spend, TypeOK

\* A block is not worse than an ancestor of one it is not worse than.
LEMMA WorseBelow ==
  ASSUME seq \in [Blocks -> Nat], NEW b \in Blocks, NEW a \in Chain[b], NEW c \in Blocks,
         ~Worse(c, b)
  PROVE  ~Worse(c, a)
<1>1. a \in Blocks /\ (a # b => Work[a] < Work[b])
  BY ChainSelf, ChainTransitive
<1> QED  BY <1>1, WorkAssumption DEF Worse, WorseBy

LEMMA LinkingKept ==
  ASSUME ChainInv, UNCHANGED <<data, linked, unlinked>>,
         known \subseteq known', known' \subseteq Blocks
  PROVE  Linking'
<1>1. \A b \in known' : Chain[b] \subseteq data => b \in linked
  BY Facts
<1>2. \A b \in linked : b \in known' /\ Chain[b] \subseteq data
  BY Facts DEF ChainInv, TypeOK
<1> QED  BY <1>1, <1>2 DEF ChainInv, Linking, LinkedIsComplete, Complete

LEMMA CandidatesKept ==
  ASSUME ChainInv, UNCHANGED <<linked, seq>>, tip' \in Chain[tip],
         \A c \in candidates' : c \in candidates \/ (c \in linked /\ ~Worse(c, tip'))
  PROVE  GoodCandidates'
<1> SUFFICES ASSUME NEW c \in candidates'  PROVE c \in linked /\ ~WorseBy(seq, c, tip')
  BY DEF GoodCandidates, Worse
<1>1. CASE c \in candidates
  <2>1. c \in linked /\ c \in Blocks /\ ~Worse(c, tip)
    BY <1>1, Facts DEF ChainInv, GoodCandidates
  <2>2. ~Worse(c, tip')
    BY <2>1, WorseBelow, Facts DEF ChainInv, TypeOK
  <2> QED  BY <2>1, <2>2 DEF Worse
<1>2. CASE c \in linked /\ ~Worse(c, tip')
  BY <1>2 DEF Worse
<1> QED  BY <1>1, <1>2

\* While a thread is between two critical sections, nothing is said of it.
LEMMA FreeKept ==
  ASSUME ChainInv, Free, NEW t \in Thread, NEW where \in {"idle", "find", "check", "reprocess"},
         pc' = [pc EXCEPT ![t] = where] \/ pc' = pc
  PROVE  /\ pc' \in [Thread -> {"idle", "find", "step", "check", "invalidate", "marked", "reprocess"}]
         /\ \A u \in Thread : pc'[u] \notin Locked
         /\ Invalidating' /\ Stepping'
<1>1. pc' \in [Thread -> {"idle", "find", "step", "check", "invalidate", "marked", "reprocess"}]
  BY DEF ChainInv, TypeOK
<1>2. \A u \in Thread : pc'[u] \notin {"step", "invalidate", "marked"}
  BY DEF ChainInv, TypeOK, Free, Locked
<1>3. Invalidating' /\ Stepping'
  BY <1>2 DEF Invalidating, Stepping
<1> QED  BY <1>1, <1>2, <1>3 DEF Locked

-----------------------------------------------------------------------------
(* Blocks arrive. *)

LEMMA AcceptableFacts ==
  ASSUME ChainInv, NEW t \in Thread, NEW b \in Blocks, Acceptable(t, b)
  PROVE  /\ pc[t] = "idle" /\ Free /\ b \in Blocks \ {Genesis} /\ b \notin data
         /\ Parent[b] \in known /\ failed[Parent[b]] = {}
         /\ \A x \in linked : b \notin Chain[x]
<1>1. pc[t] = "idle" /\ Free /\ b # Genesis /\ Parent[b] \in known /\ failed[Parent[b]] = {}
  BY DEF Acceptable
<1>2. b \notin data
  BY DEF Acceptable, ChainInv, TypeOK
<1>3. \A x \in linked : b \notin Chain[x]
  BY <1>2, Facts
<1> QED  BY <1>1, <1>2, <1>3

LEMMA RefuseStep ==
  ASSUME ChainInv, NEW t \in Thread, NEW b \in Blocks, RefuseBlock(t, b) \/ LoseBlock(t, b)
  PROVE  ChainInv'
<1>1. Acceptable(t, b)
  BY DEF RefuseBlock, LoseBlock
<1>2. /\ known' = known \cup {b}
      /\ failed' = [failed EXCEPT ![b] = @ \cup {"valid"}] \/ failed' = failed
      /\ UNCHANGED <<data, linked, seq, candidates, unlinked, tip, refused, connected,
                     pc, target, oldTip, passed>>
  BY DEF RefuseBlock, LoseBlock, sets, history, locals
<1>3. spent' \in [Rare -> Nat]
  BY SpendType DEF RefuseBlock, LoseBlock, Rare, ChainInv
<1>4. /\ \A u \in Thread : pc'[u] \notin Locked
      /\ Invalidating' /\ Stepping'
  BY <1>1, <1>2, FreeKept, AcceptableFacts
<1>5. TypeOK'
  <2>1. failed' \in [Blocks -> SUBSET Fail]
    BY <1>2 DEF ChainInv, TypeOK, Fail
  <2> QED  BY <1>2, <1>3, <1>4, <2>1 DEF ChainInv, TypeOK
<1>6. Linking'
  BY <1>2, LinkingKept DEF ChainInv, TypeOK
<1>7. GoodCandidates'
  BY <1>2, CandidatesKept, Facts
<1> QED  BY <1>4, <1>5, <1>6, <1>7 DEF ChainInv

\* A block whose ancestors are complete completes exactly those of LinkedBy.
LEMMA LinkedByComplete ==
  ASSUME ChainInv, NEW b \in Blocks \ {Genesis}, b \notin data, Parent[b] \in linked,
         NEW x \in Blocks
  PROVE  Chain[x] \subseteq data \cup {b} <=> x \in linked \/ x \in LinkedBy(b)
<1>1. Chain[b] \subseteq data \cup {b}
  BY ParentChain, Facts
<1>2. ASSUME x \in LinkedBy(b)  PROVE Chain[x] \subseteq data \cup {b}
  BY <1>1, <1>2 DEF LinkedBy, ChainInv, Linking
<1>3. ASSUME Chain[x] \subseteq data \cup {b}, b \notin Chain[x]  PROVE x \in linked
  BY <1>3, Facts
<1>4. ASSUME Chain[x] \subseteq data \cup {b}, b \in Chain[x]  PROVE x \in LinkedBy(b)
  <2>1. ASSUME NEW y \in Chain[x] \ Chain[b]  PROVE y \in unlinked
    <3>1. y \in Blocks /\ y # b /\ y \in data
      BY <1>4, <2>1, ChainSelf
    <3>2. b \in Chain[y]
      BY <1>4, <2>1, ChainLinear
    <3> QED  BY <3>1, <3>2 DEF ChainInv, Linking, Complete
  <2> QED  BY <1>4, <2>1 DEF LinkedBy
<1> QED  BY <1>2, <1>3, <1>4, Facts

LEMMA LinkStep ==
  ASSUME ChainInv, NEW b \in Blocks \ {Genesis}, b \notin data, Parent[b] \in linked,
         known' = known \cup {b}, data' = data \cup {b}, tip' = tip, LinkBlock(b)
  PROVE  /\ linked \subseteq linked' /\ linked' \subseteq data'
         /\ seq' \in [Blocks -> Nat]
         /\ candidates' \subseteq known' /\ unlinked' \subseteq known'
         /\ Linking' /\ GoodCandidates'
<1>1. /\ linked' = linked \cup LinkedBy(b)
      /\ candidates' = candidates \cup {x \in LinkedBy(b) : ~WorseBy(seq', x, tip)}
      /\ unlinked' = unlinked \ LinkedBy(b)
  BY DEF LinkBlock
<1>2. PICK s \in Numberings(LinkedBy(b)) :
        seq' = [x \in Blocks |-> IF x \in LinkedBy(b) THEN s[x] ELSE seq[x]]
  BY DEF LinkBlock
<1>3. \A x \in LinkedBy(b) : x \in Blocks /\ x \notin linked
  BY Facts DEF LinkedBy
<1>4. seq' \in [Blocks -> Nat]
  <2>1. Cardinality(LinkedBy(b)) \in Nat
    <3>1. LinkedBy(b) \subseteq Blocks
      BY <1>3
    <3>2. IsFiniteSet(LinkedBy(b))
      BY <3>1, TreeAssumption, FS_Subset
    <3> QED  BY <3>2, FS_CardinalityType
  <2>2. LastSequence \in Nat
    BY LastSequenceType DEF ChainInv, TypeOK
  <2>3. \A x \in LinkedBy(b) : s[x] \in LastSequence + 1 .. LastSequence + Cardinality(LinkedBy(b))
    BY DEF Numberings
  <2>4. \A x \in LinkedBy(b) : s[x] \in Nat
    BY <2>1, <2>2, <2>3
  <2> QED  BY <1>2, <2>4 DEF ChainInv, TypeOK
<1>5. \A x \in linked : seq'[x] = seq[x]
  BY <1>2, <1>3, Facts
<1>6. \A x \in Blocks : Chain[x] \subseteq data' <=> x \in linked'
  BY <1>1, LinkedByComplete
<1>7. linked' \in SUBSET Blocks /\ data' \in SUBSET Blocks /\ known' \in SUBSET Blocks
      /\ data' \subseteq known'
  BY <1>1, <1>3, Facts DEF ChainInv, TypeOK
<1>8. linked' \subseteq data'
  BY <1>6, <1>7, ChainSelf
<1>9. LinkedIsComplete'
  <2>1. linked' = {x \in known' : Chain[x] \subseteq data'}
    BY <1>6, <1>7, <1>8
  <2> QED  BY <2>1 DEF LinkedIsComplete, Complete
<1>10. unlinked' = {x \in data' : ~(Chain[x] \subseteq data')}
  <2>1. b \in linked'
    <3>1. Chain[b] \subseteq data'
      BY ParentChain, Facts
    <3> QED  BY <1>6, <3>1
  <2>2. unlinked = {x \in data : x \notin linked}
    BY Facts DEF ChainInv, Linking, Complete, TypeOK
  <2> QED  BY <1>1, <1>6, <1>7, <2>1, <2>2
<1>11. GoodCandidates'
  <2> SUFFICES ASSUME NEW c \in candidates'  PROVE c \in linked' /\ ~WorseBy(seq', c, tip)
    BY DEF GoodCandidates, Worse
  <2>1. CASE c \in candidates
    <3>1. c \in linked /\ ~WorseBy(seq, c, tip)
      BY <2>1 DEF ChainInv, GoodCandidates, Worse
    <3>2. seq'[c] = seq[c] /\ seq'[tip] = seq[tip]
      BY <1>5, <3>1, Facts
    <3> QED  BY <1>1, <3>1, <3>2 DEF WorseBy
  <2>2. CASE c \in LinkedBy(b) /\ ~WorseBy(seq', c, tip)
    BY <1>1, <2>2
  <2> QED  BY <1>1, <2>1, <2>2
<1>12. candidates' \subseteq known' /\ unlinked' \subseteq known'
  BY <1>1, <1>7, <1>8 DEF ChainInv, TypeOK
<1>13. Linking'
  BY <1>9, <1>10 DEF Linking, Complete
<1> QED  BY <1>1, <1>4, <1>8, <1>11, <1>12, <1>13

LEMMA KeepStep ==
  ASSUME ChainInv, NEW b \in Blocks \ {Genesis}, b \notin data,
         Parent[b] \in known, failed[Parent[b]] = {}, Parent[b] \notin linked,
         known' = known \cup {b}, data' = data \cup {b}, tip' = tip, KeepUnlinked(b)
  PROVE  /\ UNCHANGED <<linked, seq, candidates>>
         /\ unlinked' \subseteq known' /\ Linking' /\ GoodCandidates'
<1>1. unlinked' = unlinked \cup {b} /\ UNCHANGED <<linked, seq, candidates>>
  BY DEF KeepUnlinked
<1>2. PICK y \in Chain[Parent[b]] : y \notin data
  BY ParentChain, Facts
<1>3. y # b /\ y \in Chain[b]
  BY <1>2, ParentChain
<1>4. \A x \in Blocks : Chain[x] \subseteq data' <=> Chain[x] \subseteq data
  <2> SUFFICES ASSUME NEW x \in Blocks, Chain[x] \subseteq data', b \in Chain[x]  PROVE FALSE
    OBVIOUS
  <2> QED  BY <1>2, <1>3, ChainTransitive
<1>5. \A x \in Blocks : Chain[x] \subseteq data' <=> x \in linked
  BY <1>4, Facts
<1>6. linked \in SUBSET Blocks /\ data \subseteq Blocks /\ known' \in SUBSET Blocks /\ linked \subseteq known'
      /\ data \subseteq known'
  BY Facts DEF ChainInv, TypeOK
<1>7. linked' = {x \in known' : Chain[x] \subseteq data'}
  BY <1>1, <1>5, <1>6
<1>8. unlinked' = {x \in data' : ~(Chain[x] \subseteq data')}
  <2>1. unlinked = {x \in data : x \notin linked}
    BY Facts DEF ChainInv, Linking, Complete, TypeOK
  <2>2. b \notin linked
    BY Facts, ChainSelf
  <2> QED  BY <1>1, <1>5, <1>6, <2>1, <2>2
<1>9. Linking'
  BY <1>7, <1>8 DEF Linking, LinkedIsComplete, Complete
<1>10. GoodCandidates'
  BY <1>1, CandidatesKept, Facts
<1>11. unlinked' \subseteq known'
  BY <1>1, <1>6 DEF ChainInv, TypeOK
<1> QED  BY <1>1, <1>9, <1>10, <1>11

LEMMA ReceiveStep ==
  ASSUME ChainInv, NEW t \in Thread, NEW b \in Blocks, ReceiveBlock(t, b)
  PROVE  ChainInv'
<1>1. /\ Acceptable(t, b) /\ known' = known \cup {b} /\ data' = data \cup {b}
      /\ pc' = [pc EXCEPT ![t] = "find"]
      /\ UNCHANGED <<failed, tip, refused, connected, target, oldTip, passed, spent>>
  BY DEF ReceiveBlock, Goto, history, locals
<1>2. /\ linked' \subseteq data' /\ linked \subseteq linked' /\ seq' \in [Blocks -> Nat]
      /\ candidates' \subseteq known' /\ unlinked' \subseteq known'
      /\ Linking' /\ GoodCandidates'
  <2>1. CASE Parent[b] \in linked
    <3>1. LinkBlock(b)
      BY <2>1 DEF ReceiveBlock
    <3> QED  BY <1>1, <2>1, <3>1, LinkStep, AcceptableFacts
  <2>2. CASE Parent[b] \notin linked
    <3>1. KeepUnlinked(b)
      BY <2>2 DEF ReceiveBlock
    <3>2. /\ UNCHANGED <<linked, seq, candidates>>
          /\ unlinked' \subseteq known' /\ Linking' /\ GoodCandidates'
      BY <1>1, <2>2, <3>1, KeepStep, AcceptableFacts
    <3> QED  BY <1>1, <3>2 DEF ChainInv, TypeOK
  <2> QED  BY <2>1, <2>2
<1>3. /\ pc' \in [Thread -> {"idle", "find", "step", "check", "invalidate", "marked", "reprocess"}]
      /\ \A u \in Thread : pc'[u] \notin Locked
      /\ Invalidating' /\ Stepping'
  BY <1>1, FreeKept, AcceptableFacts
<1>4. TypeOK'
  BY <1>1, <1>2, <1>3 DEF ChainInv, TypeOK
<1> QED  BY <1>2, <1>3, <1>4 DEF ChainInv

-----------------------------------------------------------------------------
(* ActivateBestChain. *)

LEMMA NothingMissing ==
  ASSUME ChainInv
  PROVE  MissingAbove = {}
<1> SUFFICES ASSUME NEW c \in Discarded, failed[Obstacle(c)] = {}  PROVE FALSE
  BY DEF MissingAbove
<1>1. c \in candidates /\ Obstacles(c) # {}
  BY DEF Discarded, Usable
<1>2. c \in linked /\ c \in Blocks
  BY <1>1, Facts DEF ChainInv, GoodCandidates
<1>3. Obstacles(c) \in SUBSET Chain[c] /\ \A x \in Obstacles(c) : failed[x] # {}
  BY <1>2, Facts DEF Obstacles
<1>4. Obstacle(c) \in Obstacles(c)
  BY <1>1, <1>2, <1>3, TopOfWorks DEF Obstacle
<1> QED  BY <1>3, <1>4

\* The block FindMostWorkChain returns.
LEMMA UsableTarget ==
  ASSUME ChainInv, NEW b \in Usable, b # tip
  PROVE  /\ b \in linked /\ b \notin Chain[tip]
         /\ Work[tip] < Work[b] \/ (Work[tip] = Work[b] /\ seq[b] <= seq[tip])
<1>1. b \in linked /\ b \in Blocks /\ ~Worse(b, tip) /\ Obstacles(b) = {}
  BY Facts DEF Usable, ChainInv, GoodCandidates
<1>2. Work[b] \in Nat /\ Work[tip] \in Nat /\ seq[b] \in Nat /\ seq[tip] \in Nat
  BY <1>1, WorkAssumption, Facts DEF ChainInv, TypeOK
<1>3. Work[tip] < Work[b] \/ (Work[tip] = Work[b] /\ seq[b] <= seq[tip])
  BY <1>1, <1>2 DEF Worse, WorseBy
<1>4. b \notin Chain[tip]
  BY <1>2, <1>3, ChainTransitive, Facts
<1> QED  BY <1>1, <1>3, <1>4

LEMMA FindStep ==
  ASSUME ChainInv, NEW t \in Thread, FindMostWorkChain(t)
  PROVE  ChainInv'
<1>1. /\ Free /\ pc[t] = "find" /\ candidates' \subseteq candidates
      /\ unlinked' = unlinked \cup MissingAbove
      /\ failed' = [b \in Blocks |-> IF b \in FailedAbove THEN failed[b] \cup {"child"}
                                                          ELSE failed[b]]
      /\ UNCHANGED <<known, data, linked, seq, tip, refused, connected, passed, spent>>
  BY DEF FindMostWorkChain, history, locals
<1>2. \/ /\ pc' = [pc EXCEPT ![t] = "idle"] /\ UNCHANGED <<target, oldTip>>
      \/ /\ Usable # {} /\ BestOf(Usable) # tip
         /\ pc' = [pc EXCEPT ![t] = "step"]
         /\ target' = [target EXCEPT ![t] = BestOf(Usable)]
         /\ oldTip' = [oldTip EXCEPT ![t] = tip]
  BY Zenon DEF FindMostWorkChain, Goto, locals
<1>3. failed' \in [Blocks -> SUBSET Fail]
  <2> HIDE DEF FailedAbove
  <2> QED  BY <1>1 DEF ChainInv, TypeOK, Fail
<1>4. unlinked' = unlinked
  BY <1>1, NothingMissing
<1>5. Linking'
  BY <1>1, <1>4, LinkingKept DEF ChainInv, TypeOK
<1>6. GoodCandidates'
  BY <1>1, CandidatesKept, Facts
<1>7. CASE pc' = [pc EXCEPT ![t] = "idle"] /\ UNCHANGED <<target, oldTip>>
  <2>1. /\ pc' \in [Thread -> {"idle", "find", "step", "check", "invalidate", "marked", "reprocess"}]
        /\ \A u \in Thread : pc'[u] \notin Locked
        /\ Invalidating' /\ Stepping'
    BY <1>1, <1>7, FreeKept
  <2>2. TypeOK'
    BY <1>1, <1>3, <1>4, <1>7, <2>1 DEF ChainInv, TypeOK
  <2> QED  BY <1>5, <1>6, <2>1, <2>2 DEF ChainInv
<1>8. CASE /\ Usable # {} /\ BestOf(Usable) # tip
           /\ pc' = [pc EXCEPT ![t] = "step"]
           /\ target' = [target EXCEPT ![t] = BestOf(Usable)]
           /\ oldTip' = [oldTip EXCEPT ![t] = tip]
  <2> DEFINE b == BestOf(Usable)
  <2>1. b \in Usable
    <3>1. Usable \in SUBSET Blocks
      BY Facts DEF Usable, ChainInv, GoodCandidates
    <3> QED  BY <1>8, <3>1, BestOfWorks DEF ChainInv, TypeOK
  <2> HIDE DEF b
  <2>2. /\ b \in linked /\ b \notin Chain[tip]
        /\ Work[tip] < Work[b] \/ (Work[tip] = Work[b] /\ seq[b] <= seq[tip])
    BY <1>8, <2>1, UsableTarget DEF b
  <2>3. target' = [target EXCEPT ![t] = b]
    BY <1>8 DEF b
  <2>4. b \in Blocks /\ \A a \in Chain[b] : a \in Blocks
    BY <2>2, Facts, ChainSelf
  <2>5. /\ pc' \in [Thread -> {"idle", "find", "step", "check", "invalidate", "marked", "reprocess"}]
        /\ target' \in [Thread -> Blocks] /\ oldTip' \in [Thread -> Blocks]
        /\ \A u \in Thread \ {t} : pc'[u] \notin Locked
        /\ pc'[t] = "step" /\ target'[t] = b /\ oldTip'[t] = tip
    BY <1>1, <1>8, <2>3, <2>4, Facts DEF ChainInv, TypeOK, Free
  <2>6. TypeOK'
    BY <1>1, <1>3, <1>4, <2>5 DEF ChainInv, TypeOK
  <2>7. Invalidating'
    BY <2>5 DEF Invalidating, Locked
  <2>8. Stepping'
    <3>1. \A u \in Thread : pc'[u] = "step" => u = t
      BY <2>5 DEF Locked
    <3>2. target'[t] \in linked' /\ target'[t] \notin Chain[tip']
      BY <1>1, <2>2, <2>5
    <3>3. \/ Work[oldTip'[t]] < Work[target'[t]]
          \/ Work[oldTip'[t]] = Work[target'[t]] /\ seq'[target'[t]] <= seq'[oldTip'[t]]
      BY <1>1, <2>2, <2>5
    <3> QED  BY <3>1, <3>2, <3>3 DEF Stepping, Better
  <2> QED  BY <1>5, <1>6, <2>6, <2>7, <2>8 DEF ChainInv
<1> QED  BY <1>2, <1>7, <1>8

\* A thread that holds cs_main is alone in it.
LEMMA Alone ==
  ASSUME ChainInv, NEW t \in Thread, pc[t] \in Locked
  PROVE  \A u \in Thread \ {t} : pc[u] \notin Locked
BY DEF ChainInv, TypeOK

\* What a thread in ActivateBestChainStep knows of its target.
LEMMA StepFacts ==
  ASSUME ChainInv, NEW t \in Thread, pc[t] = "step"
  PROVE  /\ target[t] \in Blocks /\ Chain[target[t]] \subseteq linked
         /\ target[t] \notin Chain[tip] /\ Better(t)
         /\ \A u \in Thread \ {t} : pc[u] \notin Locked
<1>1. target[t] \in linked /\ target[t] \notin Chain[tip] /\ Better(t)
  BY DEF ChainInv, Stepping
<1>2. \A u \in Thread \ {t} : pc[u] \notin Locked
  BY Alone DEF Locked
<1> QED  BY <1>1, <1>2, Facts

LEMMA DisconnectStep ==
  ASSUME ChainInv, NEW t \in Thread, DisconnectForReorg(t)
  PROVE  ChainInv'
<1>1. /\ pc[t] = "step" /\ tip \notin Chain[target[t]] /\ tip' = Parent[tip]
      /\ UNCHANGED <<known, data, failed, linked, seq, candidates, unlinked, refused,
                     connected, pc, target, oldTip, passed, spent>>
  BY DEF DisconnectForReorg, index, sets, history, locals
<1>2. tip \in Blocks \ {Genesis}
  BY <1>1, StepFacts, Facts, ChainGenesis
<1>3. tip' \in Chain[tip] /\ Chain[tip'] \subseteq Chain[tip] /\ tip' \in linked
  BY <1>1, <1>2, ParentChain, ChainSelf, Facts
<1>4. TypeOK'
  BY <1>1, <1>3 DEF ChainInv, TypeOK
<1>5. Linking'
  BY <1>1, LinkingKept DEF ChainInv, TypeOK
<1>6. GoodCandidates'
  BY <1>1, <1>3, CandidatesKept
<1>8. \A u \in Thread : u # t => pc[u] \notin {"step", "invalidate", "marked"}
  BY <1>1, StepFacts DEF Locked
<1>9. Invalidating'
  BY <1>1, <1>8 DEF Invalidating
<1>10. Stepping'
  <2>1. target[t] \in linked /\ target[t] \notin Chain[tip'] /\ Better(t)
    BY <1>1, <1>3 DEF ChainInv, Stepping
  <2> QED  BY <1>1, <1>8, <2>1 DEF Stepping, Better
<1> QED  BY <1>4, <1>5, <1>6, <1>9, <1>10 DEF ChainInv

LEMMA FollowingFacts ==
  ASSUME ChainInv, NEW t \in Thread, NEW b \in Blocks, Connecting(t, b)
  PROVE  /\ pc[t] = "step" /\ b \in Chain[target[t]] /\ b # Genesis /\ Parent[b] = tip
         /\ b \in linked /\ Chain[b] = Chain[tip] \cup {b} /\ b \notin Chain[tip]
         /\ Chain[b] \subseteq Chain[target[t]]
<1>1. pc[t] = "step" /\ tip \in Chain[target[t]] /\ b = Following(t)
  BY DEF Connecting
<1>2. tip # target[t]
  BY <1>1, StepFacts, Facts
<1>3. \E x \in Chain[target[t]] : x # Genesis /\ Parent[x] = tip
  BY <1>1, <1>2, StepFacts, ChainFollows
<1>4. b \in Chain[target[t]] /\ b # Genesis /\ Parent[b] = tip
  BY <1>1, <1>3 DEF Following
<1> QED  BY <1>1, <1>4, ParentChain, StepFacts, ChainTransitive

LEMMA ConnectStep ==
  ASSUME ChainInv, NEW t \in Thread, NEW b \in Blocks, Connect(t, b)
  PROVE  ChainInv'
<1>1. /\ Connecting(t, b) /\ tip' = b /\ candidates' = Pruned(b) /\ connected' = connected \cup {b}
      /\ UNCHANGED <<known, data, failed, linked, seq, unlinked, refused, target, passed, spent>>
  BY DEF Connect, index
<1>2. \/ /\ pc' = [pc EXCEPT ![t] = "check"] /\ oldTip' = [oldTip EXCEPT ![t] = Genesis]
      \/ b # target[t] /\ UNCHANGED <<pc, oldTip>>
  BY DEF Connect, StepReturns, Goto
<1>3. /\ pc[t] = "step" /\ b \in Chain[target[t]] /\ b \in linked
      /\ Chain[b] \subseteq Chain[target[t]]
  BY <1>1, FollowingFacts
<1>4. /\ pc' \in [Thread -> {"idle", "find", "step", "check", "invalidate", "marked", "reprocess"}]
      /\ oldTip' \in [Thread -> Blocks]
      /\ \A u \in Thread : u # t => pc'[u] = pc[u]
      /\ pc'[t] \in {"check", "step"}
  BY <1>2, <1>3, TreeAssumption DEF ChainInv, TypeOK
<1>5. \A u \in Thread : u # t => pc'[u] \notin Locked
  BY <1>3, <1>4, StepFacts
<1>6. candidates' \subseteq candidates /\ \A c \in candidates' : ~Worse(c, b)
  BY <1>1 DEF Pruned
<1>7. TypeOK'
  <2>1. \A u, v \in Thread : pc'[u] \in Locked /\ pc'[v] \in Locked => u = v
    BY <1>5
  <2>2. b \in known
    BY <1>3 DEF ChainInv, TypeOK
  <2> QED  BY <1>1, <1>3, <1>4, <1>6, <2>1, <2>2 DEF ChainInv, TypeOK
<1>8. Linking'
  BY <1>1, LinkingKept DEF ChainInv, TypeOK
<1>9. GoodCandidates'
  <2>1. \A c \in candidates' : c \in linked /\ ~WorseBy(seq, c, b)
    BY <1>6 DEF ChainInv, GoodCandidates, Worse
  <2> QED  BY <1>1, <2>1 DEF GoodCandidates, Worse
<1>11. Invalidating'
  BY <1>4, <1>5 DEF Invalidating, Locked
<1>12. Stepping'
  <2> SUFFICES ASSUME pc'[t] = "step"
               PROVE  /\ target[t] \in linked /\ target[t] \notin Chain[b]
                      /\ oldTip'[t] = oldTip[t] /\ Better(t)
    <3>1. \A u \in Thread : pc'[u] = "step" => u = t
      BY <1>5 DEF Locked
    <3>2. tip' = b /\ UNCHANGED <<linked, failed, target, seq>>
      BY <1>1
    <3>3. pc'[t] = "step" =>
            /\ target'[t] \in linked' /\ target'[t] \notin Chain[tip']
            /\ oldTip'[t] = oldTip[t] /\ Better(t)
      BY <3>2
    <3> QED  BY <3>1, <3>2, <3>3 DEF Stepping, Better
  <2>1. b # target[t] /\ UNCHANGED <<pc, oldTip>>
    BY <1>2 DEF ChainInv, TypeOK
  <2>2. target[t] \notin Chain[b]
    <3> SUFFICES ASSUME target[t] \in Chain[b]  PROVE FALSE
      OBVIOUS
    <3>1. target[t] \in Blocks /\ b \in Blocks /\ Work[b] \in Nat /\ Work[target[t]] \in Nat
      BY <1>3, StepFacts, WorkAssumption
    <3>2. Work[target[t]] < Work[b] /\ Work[b] < Work[target[t]]
      BY <1>3, <2>1, <3>1, ChainTransitive
    <3> QED  BY <3>1, <3>2
  <2> QED  BY <1>3, <2>1, <2>2 DEF ChainInv, Stepping
<1> QED  BY <1>7, <1>8, <1>9, <1>11, <1>12 DEF ChainInv

\* A step that leaves ActivateBestChainStep with its critical section.
LEMMA LeaveFacts ==
  ASSUME ChainInv, NEW t \in Thread, pc[t] = "step", NEW where \in {"idle", "check"},
         pc' = [pc EXCEPT ![t] = where]
  PROVE  /\ pc' \in [Thread -> {"idle", "find", "step", "check", "invalidate", "marked", "reprocess"}]
         /\ \A u \in Thread : pc'[u] \notin Locked
         /\ Invalidating' /\ Stepping'
<1>1. \A u \in Thread : pc'[u] = IF u = t THEN where ELSE pc[u]
  BY DEF ChainInv, TypeOK
<1>2. \A u \in Thread : pc'[u] \notin Locked
  BY <1>1, StepFacts DEF Locked
<1>3. pc' \in [Thread -> {"idle", "find", "step", "check", "invalidate", "marked", "reprocess"}]
  BY DEF ChainInv, TypeOK
<1>4. Invalidating' /\ Stepping'
  BY <1>2 DEF Invalidating, Stepping, Locked
<1> QED  BY <1>2, <1>3, <1>4

LEMMA ConnectInvalidStep ==
  ASSUME ChainInv, NEW t \in Thread, NEW b \in Blocks, ConnectInvalid(t, b)
  PROVE  ChainInv'
<1>1. /\ Connecting(t, b) /\ failed' = [failed EXCEPT ![b] = @ \cup {"valid"}]
      /\ candidates' = candidates \ {b} /\ refused' = refused \cup {b}
      /\ pc' = [pc EXCEPT ![t] = "check"] /\ oldTip' = [oldTip EXCEPT ![t] = Genesis]
      /\ UNCHANGED <<known, data, linked, seq, unlinked, tip, connected, target, passed>>
  BY DEF ConnectInvalid, StepReturns, Goto
<1>2. spent' \in [Rare -> Nat]
  BY SpendType DEF ConnectInvalid, ChainInv, TypeOK, Rare
<1>3. pc[t] = "step" /\ b \in linked /\ b \notin Chain[tip]
  BY <1>1, FollowingFacts
<1>4. /\ pc' \in [Thread -> {"idle", "find", "step", "check", "invalidate", "marked", "reprocess"}]
      /\ \A u \in Thread : pc'[u] \notin Locked
      /\ Invalidating' /\ Stepping'
  BY <1>1, <1>3, LeaveFacts
<1>5. TypeOK'
  <2>1. failed' \in [Blocks -> SUBSET Fail] /\ oldTip' \in [Thread -> Blocks]
    BY <1>1, TreeAssumption DEF ChainInv, TypeOK, Fail
  <2>2. b \in known
    BY <1>3 DEF ChainInv, TypeOK
  <2> QED  BY <1>1, <1>2, <1>4, <2>1, <2>2 DEF ChainInv, TypeOK
<1>6. Linking'
  BY <1>1, LinkingKept DEF ChainInv, TypeOK
<1>7. GoodCandidates'
  BY <1>1, CandidatesKept, Facts
<1> QED  BY <1>4, <1>5, <1>6, <1>7 DEF ChainInv

LEMMA FailStep ==
  ASSUME ChainInv, NEW t \in Thread, StepFails(t)
  PROVE  ChainInv'
<1>1. /\ pc[t] = "step" /\ pc' = [pc EXCEPT ![t] = "idle"]
      /\ oldTip' = [oldTip EXCEPT ![t] = Genesis] /\ target' = [target EXCEPT ![t] = Genesis]
      /\ UNCHANGED <<known, data, failed, linked, seq, candidates, unlinked, tip, refused,
                     connected, passed>>
  BY DEF StepFails, StepReturns, Goto, index, sets, history
<1>2. spent' \in [Rare -> Nat]
  BY SpendType DEF StepFails, ChainInv, Rare
<1>3. /\ pc' \in [Thread -> {"idle", "find", "step", "check", "invalidate", "marked", "reprocess"}]
      /\ \A u \in Thread : pc'[u] \notin Locked
      /\ Invalidating' /\ Stepping'
  BY <1>1, LeaveFacts
<1>4. TypeOK'
  BY <1>1, <1>2, <1>3, TreeAssumption DEF ChainInv, TypeOK
<1>5. Linking'
  BY <1>1, LinkingKept DEF ChainInv, TypeOK
<1>6. GoodCandidates'
  BY <1>1, CandidatesKept, Facts
<1> QED  BY <1>3, <1>4, <1>5, <1>6 DEF ChainInv

\* The loop condition is read without cs_main: another thread may hold it.
LEMMA CheckStep ==
  ASSUME ChainInv, NEW t \in Thread, CheckLoop(t)
  PROVE  ChainInv'
<1>1. /\ pc[t] = "check" /\ target' = [target EXCEPT ![t] = Genesis]
      /\ pc' = [pc EXCEPT ![t] = IF target[t] = tip THEN "idle" ELSE "find"]
      /\ UNCHANGED <<known, data, failed, linked, seq, candidates, unlinked, tip, refused,
                     connected, oldTip, passed, spent>>
  BY DEF CheckLoop, Goto, index, sets, history
<1>2. /\ pc' \in [Thread -> {"idle", "find", "step", "check", "invalidate", "marked", "reprocess"}]
      /\ target' \in [Thread -> Blocks]
      /\ pc'[t] \in {"idle", "find"} /\ pc'[t] \notin Locked
      /\ \A u \in Thread : u # t => pc'[u] = pc[u] /\ target'[u] = target[u]
  BY <1>1, TreeAssumption DEF ChainInv, TypeOK, Locked
<1>3. TypeOK'
  <2>1. \A u, v \in Thread : pc'[u] \in Locked /\ pc'[v] \in Locked => u = v
    BY <1>2 DEF ChainInv, TypeOK
  <2> QED  BY <1>1, <1>2, <2>1 DEF ChainInv, TypeOK
<1>4. Linking'
  BY <1>1, LinkingKept DEF ChainInv, TypeOK
<1>5. GoodCandidates'
  BY <1>1, CandidatesKept, Facts
<1>7. Invalidating'
  <2>1. ASSUME NEW u \in Thread, pc'[u] \in {"invalidate", "marked"}  PROVE u # t
    BY <1>2, <2>1
  <2> QED  BY <1>1, <1>2, <2>1 DEF ChainInv, Invalidating
<1>8. Stepping'
  <2>1. ASSUME NEW u \in Thread, pc'[u] = "step"
        PROVE  /\ target'[u] \in linked' /\ target'[u] \notin Chain[tip']
               /\ \/ Work[oldTip'[u]] < Work[target'[u]]
                  \/ Work[oldTip'[u]] = Work[target'[u]] /\ seq'[target'[u]] <= seq'[oldTip'[u]]
    <3>1. u # t
      BY <1>2, <2>1
    <3>2. pc[u] = "step" /\ target'[u] = target[u]
      BY <1>2, <2>1, <3>1
    <3>3. /\ target[u] \in linked /\ target[u] \notin Chain[tip]
          /\ \/ Work[oldTip[u]] < Work[target[u]]
             \/ Work[oldTip[u]] = Work[target[u]] /\ seq[target[u]] <= seq[oldTip[u]]
      BY <3>2 DEF ChainInv, Stepping, Better
    <3> QED  BY <1>1, <3>2, <3>3
  <2> QED  BY <2>1 DEF Stepping, Better
<1> QED  BY <1>3, <1>4, <1>5, <1>7, <1>8 DEF ChainInv

-----------------------------------------------------------------------------
(* invalidateblock. *)

LEMMA BeginInvalidateStep ==
  ASSUME ChainInv, NEW b \in Blocks, BeginInvalidate(b)
  PROVE  ChainInv'
<1>1. /\ Free /\ b \in known \ {Genesis} /\ failed' = [failed EXCEPT ![b] = @ \cup {"valid"}]
      /\ candidates' = candidates \ {b} /\ target' = [target EXCEPT ![Rpc] = b]
      /\ pc' = [pc EXCEPT ![Rpc] = "invalidate"]
      /\ UNCHANGED <<known, data, linked, seq, unlinked, tip, refused, connected, oldTip, passed>>
  BY DEF BeginInvalidate, Goto, history
<1>2. spent' \in [Rare -> Nat]
  BY SpendType DEF BeginInvalidate, ChainInv, Rare
<1>3. /\ pc' \in [Thread -> {"idle", "find", "step", "check", "invalidate", "marked", "reprocess"}]
      /\ target' \in [Thread -> Blocks]
      /\ pc'[Rpc] = "invalidate" /\ target'[Rpc] = b
      /\ \A u \in Thread : u # Rpc => pc'[u] \notin Locked
  BY <1>1 DEF ChainInv, TypeOK, Thread, Free
<1>4. TypeOK'
  <2>1. failed' \in [Blocks -> SUBSET Fail]
    BY <1>1 DEF ChainInv, TypeOK, Fail
  <2>2. \A u, v \in Thread : pc'[u] \in Locked /\ pc'[v] \in Locked => u = v
    BY <1>3
  <2> QED  BY <1>1, <1>2, <1>3, <2>1, <2>2 DEF ChainInv, TypeOK
<1>5. Linking'
  BY <1>1, LinkingKept DEF ChainInv, TypeOK
<1>6. GoodCandidates'
  BY <1>1, CandidatesKept, Facts
<1>8. Invalidating' /\ Stepping'
  BY <1>1, <1>3 DEF Invalidating, Stepping, Locked
<1> QED  BY <1>4, <1>5, <1>6, <1>8 DEF ChainInv

\* The thread that invalidates a block holds cs_main and is Rpc.
LEMMA InvalidatingFacts ==
  ASSUME ChainInv, pc[Rpc] \in {"invalidate", "marked"}
  PROVE  /\ target[Rpc] \in Blocks \ {Genesis}
         /\ pc[Rpc] = "marked" => target[Rpc] \in Chain[tip]
         /\ \A u \in Thread \ {Rpc} : pc[u] \notin Locked
         /\ Rpc \in Thread
<1>1. Rpc \in Thread /\ pc[Rpc] \in Locked
  BY DEF Thread, Locked
<1>2. \A u \in Thread \ {Rpc} : pc[u] \notin Locked
  BY <1>1, Alone
<1> QED  BY <1>1, <1>2 DEF ChainInv, Invalidating

LEMMA MarkStep ==
  ASSUME ChainInv, InvalidateMark
  PROVE  ChainInv'
<1>1. /\ pc[Rpc] = "invalidate" /\ target[Rpc] \in Chain[tip]
      /\ failed' = [failed EXCEPT ![tip] = @ \cup {"child"}]
      /\ candidates' = candidates \ {tip} /\ pc' = [pc EXCEPT ![Rpc] = "marked"]
      /\ UNCHANGED <<known, data, linked, seq, unlinked, tip, refused, connected, target,
                     oldTip, passed, spent>>
  BY DEF InvalidateMark, Goto, history, locals
<1>2. /\ pc' \in [Thread -> {"idle", "find", "step", "check", "invalidate", "marked", "reprocess"}]
      /\ pc'[Rpc] = "marked" /\ \A u \in Thread \ {Rpc} : pc'[u] \notin Locked
  BY <1>1, InvalidatingFacts DEF ChainInv, TypeOK
<1>3. TypeOK'
  <2>1. failed' \in [Blocks -> SUBSET Fail]
    BY <1>1 DEF ChainInv, TypeOK, Fail
  <2> QED  BY <1>1, <1>2, <2>1 DEF ChainInv, TypeOK
<1>4. Linking'
  BY <1>1, LinkingKept DEF ChainInv, TypeOK
<1>5. GoodCandidates'
  BY <1>1, CandidatesKept, Facts
<1>7. Invalidating'
  <2>1. \A u \in Thread : pc'[u] \in {"invalidate", "marked"} => u = Rpc
    BY <1>2 DEF Locked
  <2> QED  BY <1>1, <2>1, InvalidatingFacts DEF Invalidating
<1>8. Stepping'
  BY <1>2 DEF Stepping, Locked
<1> QED  BY <1>3, <1>4, <1>5, <1>7, <1>8 DEF ChainInv

LEMMA InvalidateDisconnectStep ==
  ASSUME ChainInv, InvalidateDisconnect
  PROVE  ChainInv'
<1>1. /\ pc[Rpc] = "marked" /\ tip' = Parent[tip] /\ pc' = [pc EXCEPT ![Rpc] = "invalidate"]
      /\ UNCHANGED <<known, data, failed, linked, seq, candidates, unlinked, refused,
                     connected, target, oldTip, passed, spent>>
  BY DEF InvalidateDisconnect, Goto, index, sets, history, locals
<1>2. tip \in Blocks \ {Genesis}
  <2>1. target[Rpc] \in Chain[tip] /\ target[Rpc] # Genesis
    BY <1>1, InvalidatingFacts
  <2> QED  BY <2>1, Facts, TreeAssumption
<1>3. tip' \in Chain[tip] /\ Chain[tip'] \subseteq Chain[tip] /\ tip' \in linked
  BY <1>1, <1>2, ParentChain, ChainSelf, Facts
<1>4. /\ pc' \in [Thread -> {"idle", "find", "step", "check", "invalidate", "marked", "reprocess"}]
      /\ pc'[Rpc] = "invalidate" /\ \A u \in Thread \ {Rpc} : pc'[u] \notin Locked
  BY <1>1, InvalidatingFacts DEF ChainInv, TypeOK
<1>5. TypeOK'
  BY <1>1, <1>3, <1>4 DEF ChainInv, TypeOK
<1>6. Linking'
  BY <1>1, LinkingKept DEF ChainInv, TypeOK
<1>7. GoodCandidates'
  BY <1>1, <1>3, CandidatesKept
<1>9. Invalidating'
  <2>1. \A u \in Thread : pc'[u] \in {"invalidate", "marked"} => u = Rpc
    BY <1>4 DEF Locked
  <2> QED  BY <1>1, <1>4, <2>1, InvalidatingFacts DEF Invalidating
<1>10. Stepping'
  BY <1>4 DEF Stepping, Locked
<1> QED  BY <1>5, <1>6, <1>7, <1>9, <1>10 DEF ChainInv

LEMMA EndInvalidateStep ==
  ASSUME ChainInv, EndInvalidate
  PROVE  ChainInv'
<1>1. /\ pc[Rpc] = "invalidate" /\ target[Rpc] \notin Chain[tip]
      /\ candidates' = candidates \cup Restored
      /\ target' = [target EXCEPT ![Rpc] = Genesis] /\ pc' = [pc EXCEPT ![Rpc] = "find"]
      /\ UNCHANGED <<known, data, failed, linked, seq, unlinked, tip, refused, connected,
                     oldTip, passed, spent>>
  BY DEF EndInvalidate, Goto, index, history
<1>2. /\ pc' \in [Thread -> {"idle", "find", "step", "check", "invalidate", "marked", "reprocess"}]
      /\ \A u \in Thread : pc'[u] \notin Locked
  BY <1>1, InvalidatingFacts DEF ChainInv, TypeOK, Locked
<1>3. TypeOK'
  BY <1>1, <1>2, TreeAssumption DEF ChainInv, TypeOK, Restored
<1>4. Linking'
  BY <1>1, LinkingKept DEF ChainInv, TypeOK
<1>5. GoodCandidates'
  BY <1>1, CandidatesKept, Facts DEF Restored
<1>7. Invalidating' /\ Stepping'
  BY <1>2 DEF Invalidating, Stepping, Locked
<1> QED  BY <1>3, <1>4, <1>5, <1>7 DEF ChainInv

-----------------------------------------------------------------------------
(* reconsiderblock and ReprocessBlocks. *)

LEMMA ReconsiderFacts ==
  ASSUME ChainInv, Free, NEW b \in Blocks, Reconsider(b), pc' = pc \/ pc' = [pc EXCEPT ![Rpc] = "find"]
  PROVE  /\ failed' \in [Blocks -> SUBSET Fail] /\ candidates' \subseteq known
         /\ pc' \in [Thread -> {"idle", "find", "step", "check", "invalidate", "marked", "reprocess"}]
         /\ \A u \in Thread : pc'[u] \notin Locked
         /\ Linking' /\ GoodCandidates' /\ Invalidating' /\ Stepping'
<1>1. /\ failed' = [x \in Blocks |-> IF x \in Cleared(b) THEN {} ELSE failed[x]]
      /\ \A x \in candidates' : x \in candidates \/
           (x \in known /\ x \in data \cap linked /\ Worse(tip, x))
      /\ UNCHANGED <<known, data, linked, seq, unlinked, tip, refused, connected, target, oldTip>>
  BY DEF Reconsider, Below, history
<1>2. /\ pc' \in [Thread -> {"idle", "find", "step", "check", "invalidate", "marked", "reprocess"}]
      /\ \A u \in Thread : pc'[u] \notin Locked
      /\ Invalidating' /\ Stepping'
  BY FreeKept DEF Thread
<1>3. failed' \in [Blocks -> SUBSET Fail]
  <2> HIDE DEF Cleared
  <2> QED  BY <1>1 DEF ChainInv, TypeOK
<1>4. candidates' \subseteq known
  BY <1>1 DEF ChainInv, TypeOK
<1>5. Linking'
  BY <1>1, LinkingKept DEF ChainInv, TypeOK
<1>6. GoodCandidates'
  <2>1. ASSUME NEW x \in linked, Worse(tip, x)  PROVE ~Worse(x, tip)
    BY <2>1, WorseOrder, Facts DEF Worse, ChainInv, TypeOK
  <2> QED  BY <1>1, <2>1, CandidatesKept, Facts
<1> QED  BY <1>2, <1>3, <1>4, <1>5, <1>6

LEMMA ReconsiderStep ==
  ASSUME ChainInv, NEW b \in Blocks, ReconsiderBlock(b) \/ ReconsiderRejected(b)
  PROVE  ChainInv'
<1>1. /\ Free /\ Reconsider(b)
      /\ pc' = pc \/ pc' = [pc EXCEPT ![Rpc] = "find"]
      /\ passed' = passed \/ (b \in refused /\ passed' = passed \cup {b})
  BY DEF ReconsiderBlock, ReconsiderRejected, Goto
<1>2. spent' \in [Rare -> Nat]
  BY SpendType DEF ReconsiderBlock, ReconsiderRejected, ChainInv, TypeOK, Rare
<1>3. UNCHANGED <<known, data, linked, seq, unlinked, tip, refused, connected, target, oldTip>>
  BY <1>1 DEF Reconsider, history
<1>4. /\ failed' \in [Blocks -> SUBSET Fail] /\ candidates' \subseteq known
      /\ pc' \in [Thread -> {"idle", "find", "step", "check", "invalidate", "marked", "reprocess"}]
      /\ \A u \in Thread : pc'[u] \notin Locked
      /\ Linking' /\ GoodCandidates' /\ Invalidating' /\ Stepping'
  BY <1>1, ReconsiderFacts
<1>5. TypeOK'
  BY <1>1, <1>2, <1>3, <1>4 DEF ChainInv, TypeOK
<1> QED  BY <1>4, <1>5 DEF ChainInv

\* It does not ask for cs_main: another thread may hold it.
LEMMA BeginReprocessStep ==
  ASSUME ChainInv, BeginReprocess
  PROVE  ChainInv'
<1>1. /\ pc[Net] = "idle" /\ pc' = [pc EXCEPT ![Net] = "reprocess"] /\ Net \in Thread
      /\ UNCHANGED <<known, data, failed, linked, seq, candidates, unlinked, tip, refused,
                     connected, target, oldTip, passed>>
  BY DEF BeginReprocess, Goto, index, sets, history, locals, Thread
<1>2. spent' \in [Rare -> Nat]
  BY SpendType DEF BeginReprocess, ChainInv, Rare
<1>3. /\ pc' \in [Thread -> {"idle", "find", "step", "check", "invalidate", "marked", "reprocess"}]
      /\ \A u \in Thread : pc'[u] = pc[u] \/ (pc'[u] = "reprocess" /\ pc[u] = "idle")
  BY <1>1 DEF ChainInv, TypeOK
<1>4. TypeOK'
  <2>1. \A u, v \in Thread : pc'[u] \in Locked /\ pc'[v] \in Locked => u = v
    BY <1>3 DEF ChainInv, TypeOK, Locked
  <2> QED  BY <1>1, <1>2, <1>3, <2>1 DEF ChainInv, TypeOK
<1>5. Linking'
  BY <1>1, LinkingKept DEF ChainInv, TypeOK
<1>6. GoodCandidates'
  BY <1>1, CandidatesKept, Facts
<1>8. Invalidating'
  <2>1. \A u \in Thread : pc'[u] \in {"invalidate", "marked"} => pc'[u] = pc[u]
    BY <1>3
  <2> QED  BY <1>1, <2>1 DEF ChainInv, Invalidating
<1>9. Stepping'
  <2>1. \A u \in Thread : pc'[u] = "step" => pc[u] = "step"
    BY <1>3
  <2> QED  BY <1>1, <2>1 DEF ChainInv, Stepping, Better
<1> QED  BY <1>4, <1>5, <1>6, <1>8, <1>9 DEF ChainInv

LEMMA EndReprocessStep ==
  ASSUME ChainInv, EndReprocess
  PROVE  ChainInv'
<1>1. /\ Free /\ Height(tip) >= Depth /\ tip' = AncestorAt(tip, Depth)
      /\ pc' = [pc EXCEPT ![Net] = "find"] /\ passed' = {} /\ Net \in Thread
      /\ UNCHANGED <<known, data, failed, linked, seq, candidates, unlinked, refused,
                     connected, target, oldTip, spent>>
  BY DEF EndReprocess, Goto, index, sets, history, Thread
<1>2. Depth \in Nat /\ Height(tip) \in Nat /\ Depth <= Height(tip)
  BY <1>1, BudgetAssumption, HeightType, Facts
<1>3. tip' \in Chain[tip] /\ Chain[tip'] \subseteq Chain[tip] /\ tip' \in linked
  BY <1>1, <1>2, AncestorAtWorks, Facts, ChainTransitive
<1>4. /\ pc' \in [Thread -> {"idle", "find", "step", "check", "invalidate", "marked", "reprocess"}]
      /\ \A u \in Thread : pc'[u] \notin Locked
      /\ Invalidating' /\ Stepping'
  BY <1>1, FreeKept
<1>5. TypeOK'
  BY <1>1, <1>3, <1>4 DEF ChainInv, TypeOK
<1>6. Linking'
  BY <1>1, LinkingKept DEF ChainInv, TypeOK
<1>7. GoodCandidates'
  BY <1>1, <1>3, CandidatesKept
<1> QED  BY <1>4, <1>5, <1>6, <1>7 DEF ChainInv

-----------------------------------------------------------------------------
LEMMA InitInv == Init => ChainInv
<1> SUFFICES ASSUME Init  PROVE ChainInv
  OBVIOUS
<1>1. TypeOK
  BY TreeAssumption DEF Init, TypeOK, Thread, Locked, Rare, Fail
<1>2. Linking
  <2>1. \A b \in Blocks : Chain[b] \subseteq {Genesis} <=> b = Genesis
    BY ChainSelf, TreeAssumption
  <2> QED  BY <2>1, TreeAssumption DEF Init, Linking, LinkedIsComplete, Complete
<1>3. GoodCandidates
  BY WorseOrder, TreeAssumption DEF Init, GoodCandidates, Worse, WorseBy
<1>5. Invalidating /\ Stepping
  BY DEF Init, Invalidating, Stepping
<1> QED  BY <1>1, <1>2, <1>3, <1>5 DEF ChainInv

LEMMA StutterStep ==
  ASSUME ChainInv, UNCHANGED vars
  PROVE  ChainInv'
<1>1. UNCHANGED <<known, data, failed, linked, seq, candidates, unlinked, tip, refused,
                  connected, pc, target, oldTip, passed, spent>>
  BY DEF vars
<1>2. TypeOK' /\ Invalidating'
  BY <1>1 DEF ChainInv, TypeOK, Invalidating
<1>3. Linking' /\ GoodCandidates'
  BY <1>1, LinkingKept, CandidatesKept, Facts DEF ChainInv, TypeOK
<1>4. Stepping'
  BY <1>1 DEF ChainInv, Stepping, Better
<1> QED  BY <1>2, <1>3, <1>4 DEF ChainInv

LEMMA NextInv == ChainInv /\ [Next]_vars => ChainInv'
<1> SUFFICES ASSUME ChainInv, [Next]_vars  PROVE ChainInv'
  OBVIOUS
<1>1. ASSUME NEW t \in Thread, NEW b \in Blocks,
             ReceiveBlock(t, b) \/ RefuseBlock(t, b) \/ LoseBlock(t, b)
      PROVE  ChainInv'
  BY <1>1, ReceiveStep, RefuseStep
<1>2. ASSUME NEW t \in Thread, Activate(t)  PROVE ChainInv'
  BY <1>2, FindStep, DisconnectStep, ConnectStep, ConnectInvalidStep, FailStep, CheckStep DEF Activate
<1>3. ASSUME NEW b \in Blocks, BeginInvalidate(b) \/ ReconsiderBlock(b)  PROVE ChainInv'
  BY <1>3, BeginInvalidateStep, ReconsiderStep
<1>4. CASE Invalidate
  BY <1>4, MarkStep, InvalidateDisconnectStep, EndInvalidateStep DEF Invalidate
<1>5. CASE BeginReprocess \/ EndReprocess
  BY <1>5, BeginReprocessStep, EndReprocessStep
<1>6. ASSUME NEW b \in Blocks, ReconsiderRejected(b)  PROVE ChainInv'
  BY <1>6, ReconsiderStep
<1>7. CASE UNCHANGED vars
  BY <1>7, StutterStep
<1> QED  BY <1>1, <1>2, <1>3, <1>4, <1>5, <1>6, <1>7 DEF Next

LEMMA ChainInvHolds == Spec => []ChainInv
<1> QED  BY InitInv, NextInv, PTL DEF Spec

\* The index, the active chain and the threads keep their types, and cs_main has one
\* holder.
THEOREM TypeCorrect == Spec => []TypeOK
<1>1. ChainInv => TypeOK
  BY DEF ChainInv
<1> QED  BY <1>1, ChainInvHolds, PTL

\* nChainTx is set exactly for the blocks that are stored with all their ancestors.
THEOREM LinkedCorrect == Spec => []LinkedIsComplete
<1>1. ChainInv => LinkedIsComplete
  BY DEF ChainInv, Linking
<1> QED  BY <1>1, ChainInvHolds, PTL

\* mapBlocksUnlinked holds exactly the stored blocks that wait for an ancestor.
THEOREM UnlinkedCorrect == Spec => []UnlinkedIsExact
<1>1. ChainInv => UnlinkedIsExact
  BY DEF ChainInv, Linking, UnlinkedIsExact
<1> QED  BY <1>1, ChainInvHolds, PTL

\* Every candidate is complete and at least as good as the tip, also while a chain is
\* being changed.
THEOREM CandidatesCorrect == Spec => []CandidatesAreGood
<1>1. ChainInv => CandidatesAreGood
  BY Facts DEF ChainInv, GoodCandidates, CandidatesAreGood, Complete
<1> QED  BY <1>1, ChainInvHolds, PTL

\* A thread that reorganizes is on its way to more work, or to a chain the node heard
\* of earlier.
THEOREM ReorgCorrect == Spec => []NoReorgToWorse
<1>1. ChainInv => NoReorgToWorse
  BY DEF ChainInv, Stepping, Better, NoReorgToWorse
<1> QED  BY <1>1, ChainInvHolds, PTL

-----------------------------------------------------------------------------
(* The active chain and the targets stay clean.  This is an invariant of   *)
(* its own: a crash breaks it, and nothing above needs it.                 *)

\* Only the block that is being invalidated may be marked in the active chain.
CleanTip ==
  \A a \in Chain[tip] : "valid" \in failed[a] =>
    pc[Rpc] \in {"invalidate", "marked"} /\ a = target[Rpc]

CleanInv == CleanTip /\ \A t \in Thread : pc[t] = "step" => Clean(target[t])

LEMMA TipIsClean ==
  ASSUME ChainInv, CleanInv, Free \/ \E t \in Thread : pc[t] = "step"
  PROVE  pc[Rpc] \notin {"invalidate", "marked"} /\ Clean(tip)
<1>1. pc[Rpc] \notin {"invalidate", "marked"}
  BY StepFacts DEF Free, Locked, Thread
<1> QED  BY <1>1 DEF CleanInv, CleanTip, Clean

\* Steps after which no thread holds a target.
LEMMA CleanLeft ==
  ASSUME ChainInv, CleanInv, Free \/ \E t \in Thread : pc[t] = "step",
         tip' \in Chain[tip],
         \A a \in Chain[tip] : "valid" \in failed'[a] => "valid" \in failed[a],
         \A t \in Thread : pc'[t] # "step"
  PROVE  CleanInv'
<1>1. Clean(tip) /\ Chain[tip'] \subseteq Chain[tip]
  BY TipIsClean, ChainTransitive, Facts
<1> QED  BY <1>1 DEF CleanInv, CleanTip, Clean

LEMMA ArriveClean ==
  ASSUME ChainInv, CleanInv, NEW t \in Thread, NEW b \in Blocks,
         ReceiveBlock(t, b) \/ RefuseBlock(t, b) \/ LoseBlock(t, b)
  PROVE  CleanInv'
<1>1. Acceptable(t, b) /\ tip' = tip
  BY DEF ReceiveBlock, RefuseBlock, LoseBlock
<1>2. failed' = [failed EXCEPT ![b] = @ \cup {"valid"}] \/ failed' = failed
  BY DEF ReceiveBlock, RefuseBlock, LoseBlock
<1>3. Free /\ b \notin Chain[tip] /\ tip \in Chain[tip] /\ \A a \in Chain[tip] : a \in Blocks
  BY <1>1, AcceptableFacts, Facts, ChainSelf
<1>4. \A a \in Chain[tip] : failed'[a] = failed[a]
  BY <1>2, <1>3 DEF ChainInv, TypeOK
<1>5. \A u \in Thread : pc'[u] # "step"
  BY <1>3 DEF ReceiveBlock, RefuseBlock, LoseBlock, Goto, Free, Locked, ChainInv, TypeOK
<1> QED  BY <1>1, <1>3, <1>4, <1>5, CleanLeft

LEMMA FindClean ==
  ASSUME ChainInv, CleanInv, NEW t \in Thread, FindMostWorkChain(t)
  PROVE  CleanInv'
<1>1. /\ Free /\ tip' = tip
      /\ failed' = [b \in Blocks |-> IF b \in FailedAbove THEN failed[b] \cup {"child"}
                                                          ELSE failed[b]]
  BY DEF FindMostWorkChain
<1>2. \A b \in Blocks : "valid" \in failed'[b] <=> "valid" \in failed[b]
  <2> HIDE DEF FailedAbove
  <2> QED  BY <1>1 DEF ChainInv, TypeOK
<1>3. \/ pc' = [pc EXCEPT ![t] = "idle"]
      \/ /\ Usable # {} /\ BestOf(Usable) # tip /\ pc' = [pc EXCEPT ![t] = "step"]
         /\ target' = [target EXCEPT ![t] = BestOf(Usable)]
  BY Zenon DEF FindMostWorkChain, Goto
<1>4. \A a \in Chain[tip] : a \in Blocks /\ "valid" \notin failed[a]
  BY <1>1, TipIsClean, Facts, ChainSelf DEF Clean
<1>5. CleanTip'
  BY <1>1, <1>2, <1>4 DEF CleanTip
<1>6. CASE pc' = [pc EXCEPT ![t] = "idle"]
  <2>1. \A u \in Thread : pc'[u] # "step"
    BY <1>1, <1>6 DEF Free, Locked, ChainInv, TypeOK
  <2> QED  BY <1>5, <2>1 DEF CleanInv
<1>7. CASE /\ Usable # {} /\ BestOf(Usable) # tip /\ pc' = [pc EXCEPT ![t] = "step"]
           /\ target' = [target EXCEPT ![t] = BestOf(Usable)]
  <2>1. Usable \in SUBSET Blocks
    BY Facts DEF Usable, ChainInv, GoodCandidates
  <2>2. PICK b \in Usable : b = BestOf(Usable)
    BY <1>7, <2>1, BestOfWorks DEF ChainInv, TypeOK
  <2>3. \A u \in Thread : pc'[u] = "step" => u = t /\ target'[u] = b
    BY <1>1, <1>7, <2>2 DEF Free, Locked, ChainInv, TypeOK
  <2>4. b \in linked /\ Obstacles(b) = {} /\ \A a \in Chain[b] : a \in Blocks
    BY Facts, ChainSelf DEF Usable, ChainInv, GoodCandidates
  <2>5. \A a \in Chain[b] : "valid" \notin failed'[a]
    BY <1>2, <1>4, <2>4 DEF Obstacles
  <2> QED  BY <1>5, <2>3, <2>5 DEF CleanInv, Clean
<1> QED  BY <1>3, <1>6, <1>7

LEMMA StepClean ==
  ASSUME ChainInv, CleanInv, NEW t \in Thread, NEW b \in Blocks,
         DisconnectForReorg(t) \/ Connect(t, b) \/ ConnectInvalid(t, b) \/ StepFails(t)
  PROVE  CleanInv'
<1>1. pc[t] = "step" /\ tip \in Chain[tip] /\ tip \in Blocks
  BY Facts DEF DisconnectForReorg, Connect, ConnectInvalid, Connecting, StepFails
<1>2. \A u \in Thread \ {t} : pc[u] \notin Locked
  BY <1>1, StepFacts
<1>3. CASE ConnectInvalid(t, b) \/ StepFails(t)
  <2>1. tip' = tip /\ \A a \in Chain[tip] : failed'[a] = failed[a]
    <3>1. ConnectInvalid(t, b) => b \notin Chain[tip]
      BY FollowingFacts DEF ConnectInvalid
    <3> QED  BY <1>3, <3>1, ChainSelf, Facts DEF ConnectInvalid, StepFails, index, ChainInv, TypeOK
  <2>2. \A u \in Thread : pc'[u] # "step"
    BY <1>2, <1>3 DEF ConnectInvalid, StepFails, StepReturns, Goto, Locked, ChainInv, TypeOK
  <2> QED  BY <1>1, <2>1, <2>2, CleanLeft
<1>4. CASE DisconnectForReorg(t) \/ Connect(t, b)
  <2>1. failed' = failed /\ target' = target /\ \A u \in Thread : pc'[u] = "step" => u = t
    BY <1>2, <1>4 DEF DisconnectForReorg, Connect, StepReturns, Goto, index, locals, Locked,
       ChainInv, TypeOK
  <2>2. Clean(target[t]) /\ Clean(tip)
    BY <1>1, TipIsClean DEF CleanInv
  <2>3. Chain[tip'] \subseteq Chain[tip] \/ Chain[tip'] \subseteq Chain[target[t]]
    <3>1. CASE DisconnectForReorg(t)
      BY <1>1, <3>1, StepFacts, ChainGenesis, ParentChain DEF DisconnectForReorg
    <3>2. CASE Connect(t, b)
      BY <3>2, FollowingFacts DEF Connect
    <3> QED  BY <1>4, <3>1, <3>2
  <2> QED  BY <2>1, <2>2, <2>3 DEF CleanInv, CleanTip, Clean
<1> QED  BY <1>3, <1>4

\* Steps that read no lock, so that another thread may be anywhere.
LEMMA OutsideClean ==
  ASSUME ChainInv, CleanInv,
         BeginReprocess \/ (\E t \in Thread : CheckLoop(t)) \/ UNCHANGED vars
  PROVE  CleanInv'
<1>1. UNCHANGED <<failed, tip>>
  BY DEF BeginReprocess, CheckLoop, index, vars
<1>2. \A u \in Thread : pc[u] \in {"step", "invalidate", "marked"} \/ pc'[u] = "step" =>
        pc'[u] = pc[u] /\ target'[u] = target[u]
  BY DEF BeginReprocess, CheckLoop, Goto, locals, vars, ChainInv, TypeOK, Thread
<1> QED  BY <1>1, <1>2 DEF CleanInv, CleanTip, Clean, Thread

LEMMA InvalidateClean ==
  ASSUME ChainInv, CleanInv, NEW b \in Blocks,
         BeginInvalidate(b) \/ InvalidateMark \/ InvalidateDisconnect \/ EndInvalidate
  PROVE  CleanInv'
<1>1. \A u \in Thread : pc'[u] # "step"
  <2>1. \A u \in Thread : u # Rpc => pc[u] \notin Locked
    BY InvalidatingFacts DEF BeginInvalidate, InvalidateMark, InvalidateDisconnect, EndInvalidate,
       Free, Thread
  <2> QED  BY <2>1 DEF BeginInvalidate, InvalidateMark, InvalidateDisconnect, EndInvalidate, Goto,
              ChainInv, TypeOK, Thread, Locked
<1>2. Rpc \in Thread /\ tip \in Blocks /\ \A a \in Chain[tip] : a \in Blocks
  BY Facts, ChainSelf DEF Thread
<1>3. CASE BeginInvalidate(b)
  <2>1. Clean(tip)
    BY <1>3, TipIsClean DEF BeginInvalidate
  <2>2. tip' = tip /\ pc'[Rpc] = "invalidate" /\ target'[Rpc] = b
        /\ \A a \in Blocks : "valid" \in failed'[a] => a = b \/ "valid" \in failed[a]
    BY <1>2, <1>3 DEF BeginInvalidate, Goto, ChainInv, TypeOK
  <2> QED  BY <1>1, <1>2, <2>1, <2>2 DEF CleanInv, CleanTip, Clean
<1>4. CASE InvalidateMark \/ InvalidateDisconnect
  <2>1. /\ pc[Rpc] \in {"invalidate", "marked"} /\ pc'[Rpc] \in {"invalidate", "marked"}
        /\ target' = target
        /\ \A a \in Blocks : "valid" \in failed'[a] => "valid" \in failed[a]
    BY <1>2, <1>4 DEF InvalidateMark, InvalidateDisconnect, Goto, locals, index, ChainInv, TypeOK
  <2>2. Chain[tip'] \subseteq Chain[tip]
    <3>1. CASE InvalidateDisconnect
      <4>1. tip # Genesis /\ tip' = Parent[tip]
        BY <3>1, InvalidatingFacts, TreeAssumption DEF InvalidateDisconnect
      <4> QED  BY <1>2, <4>1, ParentChain
    <3> QED  BY <1>4, <3>1 DEF InvalidateMark
  <2> QED  BY <1>1, <1>2, <2>1, <2>2 DEF CleanInv, CleanTip
<1>5. CASE EndInvalidate
  <2>1. tip' = tip /\ failed' = failed /\ target[Rpc] \notin Chain[tip]
    BY <1>5 DEF EndInvalidate, index
  <2> QED  BY <1>1, <2>1 DEF CleanInv, CleanTip
<1> QED  BY <1>3, <1>4, <1>5

LEMMA ReconsiderClean ==
  ASSUME ChainInv, CleanInv, NEW b \in Blocks,
         ReconsiderBlock(b) \/ ReconsiderRejected(b) \/ EndReprocess
  PROVE  CleanInv'
<1>1. Free /\ tip \in Blocks /\ tip \in Chain[tip] /\ \A a \in Chain[tip] : a \in Blocks
  BY Facts, ChainSelf DEF ReconsiderBlock, ReconsiderRejected, EndReprocess
<1>2. \A u \in Thread : pc'[u] # "step"
  BY <1>1 DEF ReconsiderBlock, ReconsiderRejected, EndReprocess, Goto, Free, Locked, ChainInv, TypeOK
<1>3. \A a \in Blocks : failed'[a] \subseteq failed[a]
  <2> HIDE DEF Cleared
  <2> QED  BY DEF ReconsiderBlock, ReconsiderRejected, Reconsider, EndReprocess, index
<1>4. tip' \in Chain[tip]
  <2>1. CASE EndReprocess
    <3>1. Depth \in Nat /\ Height(tip) \in Nat /\ Depth <= Height(tip) /\ tip' = AncestorAt(tip, Depth)
      BY <1>1, <2>1, BudgetAssumption, HeightType DEF EndReprocess
    <3> QED  BY <1>1, <3>1, AncestorAtWorks
  <2> QED  BY <1>1, <2>1 DEF ReconsiderBlock, ReconsiderRejected, Reconsider
<1> QED  BY <1>1, <1>2, <1>3, <1>4, CleanLeft

LEMMA CleanNext == ChainInv /\ CleanInv /\ [Next]_vars => CleanInv'
<1> SUFFICES ASSUME ChainInv, CleanInv, [Next]_vars  PROVE CleanInv'
  OBVIOUS
<1>1. ASSUME NEW t \in Thread, NEW b \in Blocks,
             ReceiveBlock(t, b) \/ RefuseBlock(t, b) \/ LoseBlock(t, b)
      PROVE  CleanInv'
  BY <1>1, ArriveClean
<1>2. ASSUME NEW t \in Thread, Activate(t)  PROVE CleanInv'
  <2>1. ASSUME NEW b \in Blocks,
               DisconnectForReorg(t) \/ Connect(t, b) \/ ConnectInvalid(t, b) \/ StepFails(t)
        PROVE  CleanInv'
    BY <2>1, StepClean
  <2> QED  BY <1>2, <2>1, FindClean, OutsideClean, TreeAssumption DEF Activate
<1>3. ASSUME NEW b \in Blocks,
             BeginInvalidate(b) \/ ReconsiderBlock(b) \/ ReconsiderRejected(b) \/ Invalidate \/ EndReprocess
      PROVE  CleanInv'
  BY <1>3, InvalidateClean, ReconsiderClean DEF Invalidate
<1>4. CASE BeginReprocess \/ UNCHANGED vars
  BY <1>4, OutsideClean
<1> QED  BY <1>1, <1>2, <1>3, <1>4, TreeAssumption DEF Next

LEMMA CleanHolds == Spec => [](ChainInv /\ CleanInv)
<1>1. Init => CleanInv
  BY TreeAssumption DEF Init, CleanInv, CleanTip
<1> QED  BY <1>1, CleanNext, InitInv, NextInv, PTL DEF Spec

\* The active chain is stored and no block of it is known to be invalid, whenever
\* cs_main is free.
THEOREM ActiveChainCorrect == Spec => []ActiveChainIsClean
<1>1. ChainInv /\ CleanInv => ActiveChainIsClean
  BY TipIsClean, Facts DEF ActiveChainIsClean, Complete
<1> QED  BY <1>1, CleanHolds, PTL
-----------------------------------------------------------------------------
(* Failure flags. *)

\* A marked block has an ancestor, or is itself, a block found or declared invalid.
Caused == \A b \in Blocks : failed[b] # {} => b \in known /\ ~Clean(b)

LEMMA SpendGrows ==
  ASSUME TypeOK, NEW event \in Rare, Spend(event)
  PROVE  /\ \A e \in Rare : spent[e] <= spent'[e]
         /\ spent'[event] = spent[event] + 1 /\ spent'[event] # 0
<1>1. spent' = [spent EXCEPT ![event] = @ + 1] /\ spent \in [Rare -> Nat]
  BY DEF Spend, TypeOK
<1> QED  BY <1>1

\* What did not happen up to now had not happened before.
LEMMA CalmBefore ==
  ASSUME ChainInv, [Next]_vars, NEW e \in Rare, spent'[e] = 0
  PROVE  spent[e] = 0
<1>1. TypeOK /\ spent[e] \in Nat
  BY DEF ChainInv, TypeOK
<1>2. spent' = spent \/ \E event \in Rare : Spend(event)
  BY Zenon DEF Next, vars, ReceiveBlock, RefuseBlock, LoseBlock, Activate, FindMostWorkChain,
     DisconnectForReorg, Connect, ConnectInvalid, StepFails, CheckLoop, BeginInvalidate,
     ReconsiderBlock, Invalidate, InvalidateMark, InvalidateDisconnect, EndInvalidate,
     BeginReprocess, ReconsiderRejected, EndReprocess, Rare
<1>3. CASE spent' = spent
  BY <1>3
<1>4. ASSUME NEW event \in Rare, Spend(event)  PROVE spent[e] = 0
  <2>1. spent[e] <= spent'[e]
    BY <1>1, <1>4, SpendGrows
  <2> QED  BY <1>1, <2>1
<1> QED  BY <1>2, <1>3, <1>4

\* A block that is marked invalid itself, and the blocks above it, are not clean.
LEMMA CausedByMark ==
  ASSUME ChainInv, Caused, NEW b \in Blocks, b \in known',
         failed' = [failed EXCEPT ![b] = @ \cup {"valid"}], known \subseteq known'
  PROVE  Caused'
<1> SUFFICES ASSUME NEW x \in Blocks, failed'[x] # {}
             PROVE  x \in known' /\ \E a \in Chain[x] : "valid" \in failed'[a]
  BY DEF Caused, Clean
<1>1. failed \in [Blocks -> SUBSET Fail] /\ \A a \in Blocks : failed[a] \subseteq failed'[a]
  BY DEF ChainInv, TypeOK
<1>2. CASE x = b
  BY <1>1, <1>2, ChainSelf
<1>3. CASE x # b
  <2>1. x \in known /\ \E a \in Chain[x] : "valid" \in failed[a]
    BY <1>1, <1>3 DEF Caused, Clean
  <2> QED  BY <1>1, <2>1, ChainSelf
<1> QED  BY <1>2, <1>3

\* FindMostWorkChain marks blocks above a marked one.
LEMMA CausedByFind ==
  ASSUME ChainInv, Caused, NEW t \in Thread, FindMostWorkChain(t)
  PROVE  Caused'
<1>1. /\ failed' = [b \in Blocks |-> IF b \in FailedAbove THEN failed[b] \cup {"child"}
                                                          ELSE failed[b]]
      /\ known' = known
  BY DEF FindMostWorkChain
<1> SUFFICES ASSUME NEW x \in Blocks, failed'[x] # {}
             PROVE  x \in known /\ \E a \in Chain[x] : "valid" \in failed'[a]
  BY <1>1 DEF Caused, Clean
<1>2. \A a \in Blocks : failed[a] \subseteq failed'[a]
  <2> HIDE DEF FailedAbove
  <2> QED  BY <1>1
<1>3. CASE failed[x] # {}
  <2>1. x \in known /\ \E a \in Chain[x] : "valid" \in failed[a]
    BY <1>3 DEF Caused, Clean
  <2> QED  BY <1>2, <2>1, ChainSelf
<1>4. CASE failed[x] = {}
  <2>1. x \in FailedAbove
    <3> HIDE DEF FailedAbove
    <3> QED  BY <1>1, <1>4
  <2>2. PICK c \in Discarded : failed[Obstacle(c)] # {} /\ x \in Above(c)
    BY <2>1 DEF FailedAbove
  <2>3. c \in candidates /\ Obstacles(c) # {}
    BY DEF Discarded, Usable
  <2>4. c \in linked /\ c \in Blocks /\ Chain[c] \subseteq linked
    BY <2>3, Facts DEF ChainInv, GoodCandidates
  <2>5. Obstacle(c) \in Chain[c]
    BY <2>3, <2>4, TopOfWorks DEF Obstacle, Obstacles
  <2>6. x \in Chain[c] /\ x \notin Chain[Obstacle(c)] /\ Obstacle(c) \in Blocks
    BY <2>2, <2>4, <2>5, ChainSelf DEF Above
  <2>7. Obstacle(c) \in Chain[x]
    BY <2>4, <2>5, <2>6, ChainLinear
  <2>8. \E a \in Chain[Obstacle(c)] : "valid" \in failed[a]
    BY <2>2, <2>6 DEF Caused, Clean
  <2>9. Chain[Obstacle(c)] \subseteq Chain[x] /\ x \in known
    BY <2>4, <2>6, <2>7, ChainTransitive DEF ChainInv, TypeOK
  <2> QED  BY <1>2, <2>8, <2>9, ChainSelf
<1> QED  BY <1>3, <1>4

\* A block that keeps its flag keeps the cause, if no ancestor of b was marked.
LEMMA CausedByReconsider ==
  ASSUME ChainInv, Caused, NEW b \in Blocks, Reconsider(b), ~BelowFailed(b)
  PROVE  Caused'
<1>1. /\ failed' = [x \in Blocks |-> IF x \in Cleared(b) THEN {} ELSE failed[x]]
      /\ known' = known
  BY DEF Reconsider
<1> SUFFICES ASSUME NEW y \in Blocks, failed'[y] # {}
             PROVE  y \in known /\ \E a \in Chain[y] : "valid" \in failed'[a]
  BY <1>1 DEF Caused, Clean
<1>2. y \notin Cleared(b) /\ failed'[y] = failed[y] /\ failed[y] # {}
  <2> HIDE DEF Cleared
  <2> QED  BY <1>1
<1>3. PICK a \in Chain[y] : y \in known /\ "valid" \in failed[a]
  BY <1>2 DEF Caused, Clean
<1>4. a \in Blocks /\ failed[a] # {}
  BY <1>3, ChainSelf
<1>5. b \notin Chain[y]
  BY <1>2, <1>3 DEF Cleared, Below, IsValid
<1>6. a \notin Below(b)
  <2>1. Chain[a] \subseteq Chain[y]
    BY <1>3, ChainTransitive
  <2> QED  BY <1>5, <2>1 DEF Below
<1>7. a \notin Chain[b]
  BY <1>3, <1>4, <1>5, <1>6, ChainSelf DEF BelowFailed
<1>8. a \notin Cleared(b)
  BY <1>6, <1>7 DEF Cleared
<1>9. failed'[a] = failed[a]
  <2> HIDE DEF Cleared
  <2> QED  BY <1>1, <1>4, <1>8
<1> QED  BY <1>3, <1>9

\* While a block is being invalidated it is marked.
Marked == pc[Rpc] \in {"invalidate", "marked"} => "valid" \in failed[target[Rpc]]

CausedInv == Marked /\ (spent["reconsiderBelow"] = 0 => Caused)

LEMMA CausedByTipMark ==
  ASSUME ChainInv, Marked, Caused, InvalidateMark
  PROVE  Caused'
<1>1. /\ pc[Rpc] = "invalidate" /\ target[Rpc] \in Chain[tip]
      /\ failed' = [failed EXCEPT ![tip] = @ \cup {"child"}] /\ known' = known
  BY DEF InvalidateMark
<1>2. /\ failed \in [Blocks -> SUBSET Fail] /\ tip \in known /\ tip \in Blocks
      /\ \A a \in Blocks : failed[a] \subseteq failed'[a]
  BY <1>1, Facts DEF ChainInv, TypeOK
<1>3. "valid" \in failed[target[Rpc]]
  BY <1>1 DEF Marked
<1> SUFFICES ASSUME NEW x \in Blocks, failed'[x] # {}
             PROVE  x \in known /\ \E a \in Chain[x] : "valid" \in failed[a]
  BY <1>1, <1>2, ChainSelf DEF Caused, Clean
<1>4. CASE x = tip
  BY <1>1, <1>2, <1>3, <1>4
<1>5. CASE x # tip
  BY <1>1, <1>2, <1>5 DEF Caused, Clean
<1> QED  BY <1>4, <1>5

LEMMA MarkedNext ==
  ASSUME ChainInv, Marked, [Next]_vars
  PROVE  Marked'
<1>1. pc \in [Thread -> {"idle", "find", "step", "check", "invalidate", "marked", "reprocess"}]
      /\ target \in [Thread -> Blocks] /\ failed \in [Blocks -> SUBSET Fail] /\ Rpc \in Thread
  BY DEF ChainInv, TypeOK, Thread
<1>2. ASSUME pc[Rpc] \notin {"invalidate", "marked"}, pc'[Rpc] \in {"invalidate", "marked"}
      PROVE  "valid" \in failed'[target'[Rpc]]
  <2> DEFINE Quiet == pc' = pc \/ \E t \in Thread, w \in {"idle", "find", "check", "reprocess"} : Goto(t, w)
  <2>1. ~Quiet
    BY <1>1, <1>2 DEF Goto
  <2>2. ASSUME NEW t \in Thread, NEW b \in Blocks,
               ReceiveBlock(t, b) \/ RefuseBlock(t, b) \/ LoseBlock(t, b)
        PROVE  Quiet
    BY <2>2, Zenon DEF ReceiveBlock, RefuseBlock, LoseBlock
  <2>3. ASSUME NEW t \in Thread, NEW b \in Blocks, Connect(t, b) \/ ConnectInvalid(t, b)
        PROVE  Quiet
    BY <2>3, Zenon DEF Connect, ConnectInvalid, StepReturns
  <2>4. ASSUME NEW t \in Thread, FindMostWorkChain(t)  PROVE FALSE
    <3>1. Goto(t, "idle") \/ Goto(t, "step")
      BY <2>4, Zenon DEF FindMostWorkChain
    <3> QED  BY <1>1, <1>2, <3>1 DEF Goto
  <2>5. ASSUME NEW t \in Thread, DisconnectForReorg(t) \/ StepFails(t)  PROVE Quiet
    BY <2>5, Zenon DEF DisconnectForReorg, StepFails, StepReturns
  <2>6. ASSUME NEW t \in Thread, CheckLoop(t)  PROVE FALSE
    BY <1>1, <1>2, <2>6 DEF CheckLoop, Goto
  <2>7. ASSUME NEW b \in Blocks, ReconsiderBlock(b) \/ ReconsiderRejected(b)  PROVE Quiet
    BY <1>1, <2>7, Zenon DEF ReconsiderBlock, ReconsiderRejected
  <2>8. BeginReprocess \/ EndReprocess => Quiet
    BY Zenon DEF BeginReprocess, EndReprocess, Thread
  <2>9. ~Invalidate
    BY <1>2 DEF Invalidate, InvalidateMark, InvalidateDisconnect, EndInvalidate, Goto
  <2>10. UNCHANGED vars => Quiet
    BY DEF vars
  <2> HIDE DEF Quiet
  <2>11. PICK b \in Blocks : BeginInvalidate(b)
    BY <2>1, <2>2, <2>3, <2>4, <2>5, <2>6, <2>7, <2>8, <2>9, <2>10, Zenon DEF Next, Activate
  <2> QED  BY <1>1, <2>11 DEF BeginInvalidate
<1>3. ASSUME pc[Rpc] \in {"invalidate", "marked"}, pc'[Rpc] \in {"invalidate", "marked"}
      PROVE  "valid" \in failed'[target'[Rpc]]
  <2>1. ~Free /\ \A t \in Thread : pc[t] # "step"
    BY <1>1, <1>3, Alone DEF Free, Locked
  <2>2. \/ InvalidateMark \/ InvalidateDisconnect \/ EndInvalidate \/ BeginReprocess
        \/ (\E t \in Thread : CheckLoop(t)) \/ UNCHANGED vars
    BY <1>1, <1>3, <2>1, Zenon DEF Next, ReceiveBlock, RefuseBlock, LoseBlock, Acceptable, Activate,
       FindMostWorkChain, DisconnectForReorg, Connect, ConnectInvalid, Connecting, StepFails,
       BeginInvalidate, ReconsiderBlock, Invalidate, ReconsiderRejected, EndReprocess
  <2>3. CASE InvalidateMark
    BY <1>1, <1>3, <2>3 DEF InvalidateMark, locals, Marked
  <2>4. CASE InvalidateDisconnect \/ BeginReprocess
    BY <1>3, <2>4 DEF InvalidateDisconnect, BeginReprocess, locals, index, Marked
  <2>5. CASE EndInvalidate
    BY <1>1, <1>3, <2>5 DEF EndInvalidate, Goto
  <2>6. ASSUME NEW t \in Thread, CheckLoop(t)  PROVE "valid" \in failed'[target'[Rpc]]
    BY <1>1, <1>3, <2>6 DEF CheckLoop, index, Marked
  <2>7. CASE UNCHANGED vars
    BY <1>3, <2>7 DEF vars, Marked
  <2> QED  BY <2>2, <2>3, <2>4, <2>5, <2>6, <2>7
<1> QED  BY <1>2, <1>3 DEF Marked

LEMMA CausedNext ==
  ASSUME ChainInv, Marked, Caused, [Next]_vars, spent'["reconsiderBelow"] = 0
  PROVE  Caused'
<1>1. "reconsiderBelow" \in Rare /\ "reconsider" \in Rare /\ TypeOK
  BY DEF Rare, ChainInv
<1>2. ASSUME UNCHANGED failed, known \subseteq known'  PROVE Caused'
  BY <1>2 DEF Caused, Clean
<1>3. ASSUME NEW t \in Thread, NEW b \in Blocks, ReceiveBlock(t, b) \/ LoseBlock(t, b)
      PROVE  Caused'
  BY <1>2, <1>3 DEF ReceiveBlock, LoseBlock
<1>4. ASSUME NEW t \in Thread, NEW b \in Blocks, RefuseBlock(t, b)  PROVE Caused'
  BY <1>4, CausedByMark DEF RefuseBlock
<1>5. ASSUME NEW t \in Thread, FindMostWorkChain(t)  PROVE Caused'
  BY <1>5, CausedByFind
<1>6. ASSUME NEW t \in Thread, NEW b \in Blocks, ConnectInvalid(t, b)  PROVE Caused'
  <2>1. b \in known /\ known' = known /\ failed' = [failed EXCEPT ![b] = @ \cup {"valid"}]
    BY <1>6, FollowingFacts DEF ConnectInvalid, ChainInv, TypeOK
  <2> QED  BY <2>1, CausedByMark
<1>7. ASSUME NEW b \in Blocks, BeginInvalidate(b)  PROVE Caused'
  BY <1>7, CausedByMark DEF BeginInvalidate
<1>8. ASSUME InvalidateMark  PROVE Caused'
  BY <1>8, CausedByTipMark
<1>9. ASSUME NEW b \in Blocks, ReconsiderBlock(b) \/ ReconsiderRejected(b)  PROVE Caused'
  <2>1. Reconsider(b)
    BY <1>9 DEF ReconsiderBlock, ReconsiderRejected
  <2>2. ~BelowFailed(b)
    <3> SUFFICES ASSUME BelowFailed(b)  PROVE FALSE
      OBVIOUS
    <3>1. Spend("reconsiderBelow")
      BY <1>9 DEF ReconsiderBlock, ReconsiderRejected
    <3> QED  BY <1>1, <3>1, SpendGrows
  <2> QED  BY <2>1, <2>2, CausedByReconsider
<1>10. ASSUME NEW t \in Thread, NEW b \in Blocks,
              \/ DisconnectForReorg(t) \/ Connect(t, b) \/ StepFails(t) \/ CheckLoop(t)
              \/ InvalidateDisconnect \/ EndInvalidate \/ BeginReprocess \/ EndReprocess
              \/ UNCHANGED vars
       PROVE  Caused'
  <2>1. failed' = failed /\ known' = known
    BY <1>10 DEF DisconnectForReorg, Connect, StepFails, CheckLoop, InvalidateDisconnect,
       EndInvalidate, BeginReprocess, EndReprocess, index, vars
  <2> QED  BY <1>2, <2>1
<1> QED  BY <1>3, <1>4, <1>5, <1>6, <1>7, <1>8, <1>9, <1>10, TreeAssumption, Zenon
         DEF Next, Activate, Invalidate, Thread

LEMMA CausedHolds == Spec => [](ChainInv /\ CleanInv /\ CausedInv)
<1>1. Init => CausedInv
  BY DEF Init, CausedInv, Marked, Caused, Thread
<1>2. ChainInv /\ CausedInv /\ [Next]_vars => CausedInv'
  <2> SUFFICES ASSUME ChainInv, CausedInv, [Next]_vars  PROVE CausedInv'
    OBVIOUS
  <2>1. spent'["reconsiderBelow"] = 0 => Caused'
    BY CalmBefore, CausedNext DEF CausedInv, Rare
  <2> QED  BY <2>1, MarkedNext DEF CausedInv
<1> QED  BY <1>1, <1>2, CleanHolds, PTL DEF Spec

-----------------------------------------------------------------------------
(* The best chain. *)

\* Nothing happened that may leave the node on another chain than the best.
Calm == \A e \in {"reconsiderBelow", "change", "system"} : spent[e] = 0

\* A block that can be switched to and cannot be refused.
Proven(b) == Clean(b) /\ Chain[b] \subseteq connected

\* Every block FindMostWorkChain could choose is a candidate, or a proven candidate is
\* at least as good.
Covered ==
  \A b \in linked : failed[b] = {} =>
    \E c \in candidates : ~Worse(c, b) /\ (c = b \/ Proven(c))

Best(b) == \A c \in linked : Clean(c) => ~Worse(b, c)

\* A thread that does not return to FindMostWorkChain.
Done(t) == pc[t] = "idle" \/ (pc[t] = "check" /\ target[t] = tip)

\* While one thread goes on, the other may find another chain; the last to end has found
\* the best one.
SearchInv ==
  /\ Chain[tip] \subseteq connected
  /\ pc[Rpc] \notin {"invalidate", "marked"} => Covered
  /\ \A t \in Thread : pc[t] = "step" => Best(target[t])
  /\ (\A t \in Thread : Done(t)) => Best(tip)

\* The order is total.
LEMMA NotWorse ==
  ASSUME NEW s \in [Blocks -> Nat], NEW x \in Blocks, NEW y \in Blocks, NEW z \in Blocks
  PROVE  /\ ~WorseBy(s, x, y) /\ ~WorseBy(s, y, z) => ~WorseBy(s, x, z)
         /\ ~WorseBy(s, x, y) /\ ~WorseBy(s, y, x) => x = y
BY WorkAssumption, AddressAssumption DEF WorseBy

\* What is so far known to be the best stays so as long as blocks and flags do.
LEMMA SearchKept ==
  ASSUME UNCHANGED <<linked, seq, candidates, connected>>,
         \A c \in linked : Clean(c)' <=> Clean(c),
         \A c \in linked : failed'[c] = {} => failed[c] = {},
         candidates \subseteq linked
  PROVE  /\ Covered => Covered'
         /\ \A b \in Blocks : Best(b) => Best(b)'
<1>1. \A x, y : Worse(x, y)' <=> Worse(x, y)
  BY DEF Worse, WorseBy
<1>2. \A c \in linked : Proven(c)' <=> Proven(c)
  BY DEF Proven
<1>3. Covered => Covered'
  BY <1>1, <1>2 DEF Covered
<1>4. \A b : Best(b) => Best(b)'
  BY <1>1 DEF Best
<1> QED  BY <1>3, <1>4

\* A candidate at least as good as the tip cannot be refused.
LEMMA TipCovered ==
  ASSUME ChainInv, CleanInv, Caused, Chain[tip] \subseteq connected, Covered,
         pc[Rpc] \notin {"invalidate", "marked"}
  PROVE  /\ Clean(tip) /\ failed[tip] = {}
         /\ \E c \in candidates : c \in linked /\ c \in Blocks /\ ~Worse(c, tip) /\ Proven(c)
<1>1. Clean(tip)
  BY DEF CleanInv, CleanTip, Clean
<1>2. failed[tip] = {}
  BY <1>1, Facts DEF Caused
<1>3. PICK c \in candidates : ~Worse(c, tip) /\ (c = tip \/ Proven(c))
  BY <1>2, Facts DEF Covered
<1>4. Proven(c)
  BY <1>1, <1>3 DEF Proven
<1>5. c \in linked /\ c \in Blocks
  BY Facts DEF ChainInv, GoodCandidates
<1> QED  BY <1>1, <1>2, <1>3, <1>4, <1>5

LEMMA RefuseSearch ==
  ASSUME ChainInv, SearchInv, NEW t \in Thread, NEW b \in Blocks,
         RefuseBlock(t, b) \/ LoseBlock(t, b)
  PROVE  SearchInv'
<1>1. Acceptable(t, b)
  BY DEF RefuseBlock, LoseBlock
<1>2. /\ failed' = [failed EXCEPT ![b] = @ \cup {"valid"}] \/ failed' = failed
      /\ UNCHANGED <<data, linked, seq, candidates, unlinked, tip, refused, connected,
                     pc, target, oldTip, passed>>
  BY DEF RefuseBlock, LoseBlock, sets, history, locals
<1>3. \A c \in linked : \A a \in Chain[c] : failed'[a] = failed[a]
  <2>1. \A c \in linked : b \notin Chain[c] /\ Chain[c] \subseteq Blocks
    BY <1>1, AcceptableFacts, Facts, ChainSelf
  <2> QED  BY <1>2, <2>1 DEF ChainInv, TypeOK
<1>4. \A c \in linked : (Clean(c)' <=> Clean(c)) /\ failed'[c] = failed[c]
  BY <1>3, Facts, ChainSelf DEF Clean
<1>5. (Covered => Covered') /\ \A x \in Blocks : Best(x) => Best(x)'
  BY <1>2, <1>4, SearchKept DEF ChainInv, GoodCandidates
<1>6. \A u \in Thread : (Done(u)' <=> Done(u)) /\ target[u] \in Blocks
  BY <1>2 DEF Done, ChainInv, TypeOK
<1> QED  BY <1>2, <1>5, <1>6, Facts DEF SearchInv, Best

LEMMA ReceiveSearch ==
  ASSUME ChainInv, CleanInv, ChainInv', Caused, SearchInv, NEW t \in Thread, NEW b \in Blocks,
         ReceiveBlock(t, b)
  PROVE  SearchInv'
<1>1. /\ Acceptable(t, b) /\ pc' = [pc EXCEPT ![t] = "find"]
      /\ UNCHANGED <<failed, tip, refused, connected, target, oldTip, passed, spent>>
  BY DEF ReceiveBlock, Goto, history, locals
<1>2. Free /\ pc[Rpc] \notin {"invalidate", "marked"} /\ b # Genesis /\ b \notin data
  BY <1>1, AcceptableFacts DEF Free, Locked, Thread
<1>3. pc'[t] = "find" /\ \A u \in Thread : pc'[u] # "step"
  BY <1>1, <1>2 DEF ChainInv, TypeOK, Free, Locked
<1>4. ~Done(t)'
  BY <1>3 DEF Done
<1>5. Covered'
  <2>1. CASE LinkBlock(b)
    <3>1. /\ linked' = linked \cup LinkedBy(b)
          /\ candidates' = candidates \cup {x \in LinkedBy(b) : ~WorseBy(seq', x, tip)}
      BY <2>1 DEF LinkBlock
    <3>2. PICK s \in Numberings(LinkedBy(b)) :
            seq' = [x \in Blocks |-> IF x \in LinkedBy(b) THEN s[x] ELSE seq[x]]
      BY <2>1 DEF LinkBlock
    <3>3. \A x \in LinkedBy(b) : x \in Blocks /\ x \notin linked
      BY <1>2, Facts DEF LinkedBy
    <3>4. \A x \in linked : seq'[x] = seq[x]
      BY <3>2, <3>3, Facts
    <3>5. \A x, y \in linked : Worse(x, y)' <=> Worse(x, y)
      BY <3>4 DEF Worse, WorseBy
    <3>6. \A x : Proven(x)' <=> Proven(x)
      BY <1>1 DEF Proven, Clean
    <3>7. candidates \subseteq linked /\ tip \in linked /\ tip \in Blocks
      BY Facts DEF ChainInv, GoodCandidates
    <3>8. PICK c \in candidates : c \in linked /\ c \in Blocks /\ ~Worse(c, tip) /\ Proven(c)
      BY <1>2, TipCovered DEF SearchInv
    <3>9. seq' \in [Blocks -> Nat]
      BY DEF ChainInv, TypeOK
    <3> SUFFICES ASSUME NEW y \in linked', failed[y] = {}
                 PROVE  \E d \in candidates' : ~Worse(d, y)' /\ (d = y \/ Proven(d))
      BY <1>1, <3>6 DEF Covered
    <3>10. CASE y \in linked
      <4>1. PICK d \in candidates : ~Worse(d, y) /\ (d = y \/ Proven(d))
        BY <1>2, <3>10 DEF SearchInv, Covered
      <4> QED  BY <3>1, <3>5, <3>7, <3>10, <4>1
    <3>11. CASE y \in LinkedBy(b)
      <4>1. y \in Blocks
        BY <3>3, <3>11
      <4>2. CASE ~WorseBy(seq', y, tip)
        <5>1. ~Worse(y, y)'
          BY <3>9, <4>1, WorseOrder DEF Worse
        <5> QED  BY <3>1, <3>11, <4>2, <5>1
      <4>3. CASE WorseBy(seq', y, tip)
        <5>1. ~WorseBy(seq', tip, y)
          BY <3>7, <3>9, <4>1, <4>3, WorseOrder
        <5>2. ~WorseBy(seq', c, tip)
          BY <3>5, <3>7, <3>8, <1>1 DEF Worse
        <5>3. ~WorseBy(seq', c, y)
          BY <3>7, <3>8, <3>9, <4>1, <5>1, <5>2, NotWorse
        <5> QED  BY <3>1, <3>8, <5>3 DEF Worse
      <4> QED  BY <4>2, <4>3
    <3> QED  BY <3>1, <3>10, <3>11
  <2>2. CASE KeepUnlinked(b)
    <3>1. UNCHANGED <<linked, seq, candidates>>
      BY <2>2 DEF KeepUnlinked
    <3>2. \A c \in linked : (Clean(c)' <=> Clean(c)) /\ failed'[c] = failed[c]
      BY <1>1 DEF Clean
    <3>3. candidates \subseteq linked
      BY DEF ChainInv, GoodCandidates
    <3> QED  BY <1>1, <1>2, <3>1, <3>2, <3>3, SearchKept DEF SearchInv
  <2> QED  BY <2>1, <2>2 DEF ReceiveBlock
<1> QED  BY <1>1, <1>3, <1>4, <1>5 DEF SearchInv

\* Nothing stands between the active chain and a clean candidate.
LEMMA CleanUsable ==
  ASSUME ChainInv, Caused, NEW c \in candidates, Clean(c)
  PROVE  c \in Usable
<1> SUFFICES ASSUME NEW x \in Obstacles(c)  PROVE FALSE
  BY DEF Usable
<1>1. c \in linked /\ c \in Blocks /\ Chain[c] \subseteq data
  BY Facts DEF ChainInv, GoodCandidates
<1>2. x \in Chain[c] /\ failed[x] # {}
  BY <1>1 DEF Obstacles
<1>3. Chain[x] \subseteq Chain[c] /\ x \in Blocks
  BY <1>1, <1>2, ChainTransitive, ChainSelf
<1> QED  BY <1>2, <1>3 DEF Caused, Clean

LEMMA FindSearch ==
  ASSUME ChainInv, CleanInv, ChainInv', Caused, Caused', SearchInv, NEW t \in Thread, FindMostWorkChain(t)
  PROVE  SearchInv'
<1>1. /\ Free /\ pc[t] = "find"
      /\ failed' = [b \in Blocks |-> IF b \in FailedAbove THEN failed[b] \cup {"child"}
                                                          ELSE failed[b]]
      /\ candidates' = candidates \ UNION {Above(c) \cup {Obstacle(c)} : c \in Discarded}
      /\ UNCHANGED <<known, data, linked, seq, tip, refused, connected, passed, spent>>
  BY DEF FindMostWorkChain, history, locals
<1>2. \/ /\ Usable = {} \/ BestOf(Usable) = tip
         /\ pc' = [pc EXCEPT ![t] = "idle"] /\ UNCHANGED <<target, oldTip>>
      \/ /\ Usable # {}
         /\ pc' = [pc EXCEPT ![t] = "step"]
         /\ target' = [target EXCEPT ![t] = BestOf(Usable)]
  BY Zenon DEF FindMostWorkChain, Goto, locals
<1>3. pc[Rpc] \notin {"invalidate", "marked"} /\ Covered
  BY <1>1 DEF Free, Locked, Thread, SearchInv
<1>4. \A b \in Blocks : /\ failed[b] \subseteq failed'[b]
                        /\ "valid" \in failed'[b] <=> "valid" \in failed[b]
  <2> HIDE DEF FailedAbove
  <2> QED  BY <1>1 DEF ChainInv, TypeOK, Fail
<1>5. \A c \in linked : c \in Blocks /\ Chain[c] \subseteq Blocks /\ Chain[c] \subseteq linked
  BY Facts, ChainSelf
<1>6. \A c \in linked : (Clean(c)' <=> Clean(c)) /\ (Proven(c)' <=> Proven(c))
  BY <1>1, <1>4, <1>5 DEF Clean, Proven
<1>7. \A x, y : Worse(x, y)' <=> Worse(x, y)
  BY <1>1 DEF Worse, WorseBy
<1>8. candidates \subseteq linked
  BY DEF ChainInv, GoodCandidates
\* Nothing it discards is a block it could choose.
<1>9. ASSUME NEW c \in Discarded, NEW x \in Above(c) \cup {Obstacle(c)}  PROVE failed'[x] # {}
  <2>1. c \in candidates /\ c \in linked /\ Obstacles(c) # {}
    BY <1>8 DEF Discarded, Usable
  <2>2. Obstacles(c) \in SUBSET Chain[c] /\ \A y \in Obstacles(c) : failed[y] # {}
    BY <2>1, Facts DEF Obstacles
  <2>3. Obstacle(c) \in Obstacles(c)
    BY <1>5, <2>1, <2>2, TopOfWorks DEF Obstacle
  <2>4. failed[Obstacle(c)] # {} /\ Obstacle(c) \in Blocks
    BY <1>5, <2>1, <2>2, <2>3
  <2>5. CASE x = Obstacle(c)
    BY <1>4, <2>4, <2>5
  <2>6. CASE x \in Above(c)
    <3>1. x \in FailedAbove
      BY <2>4, <2>6 DEF FailedAbove
    <3>2. x \in Blocks
      BY <1>5, <2>1, <2>6 DEF Above
    <3> HIDE DEF FailedAbove
    <3> QED  BY <1>1, <3>1, <3>2
  <2> QED  BY <2>5, <2>6
<1>10. \A c \in candidates : failed'[c] = {} => c \in candidates'
  BY <1>1, <1>9
<1>11. \A c \in linked : Clean(c) => failed'[c] = {}
  BY <1>5, <1>6 DEF Caused
<1>12. \A b \in linked : failed'[b] = {} => failed[b] = {}
  BY <1>4, <1>5
<1>13. Covered'
  <2> SUFFICES ASSUME NEW b \in linked, failed'[b] = {}
               PROVE  \E c \in candidates' : ~Worse(c, b) /\ (c = b \/ Proven(c))
    BY <1>1, <1>6, <1>7, <1>8, <1>10 DEF Covered
  <2>1. PICK c \in candidates : ~Worse(c, b) /\ (c = b \/ Proven(c))
    BY <1>3, <1>12 DEF Covered
  <2>2. failed'[c] = {}
    BY <1>8, <1>11, <2>1 DEF Proven
  <2> QED  BY <1>10, <2>1, <2>2
\* A clean candidate is usable, so that the best of them is the best of all.
<1>14. Usable \in SUBSET Blocks /\ Usable # {}
  <2>1. \E c \in candidates : c \in linked /\ Proven(c)
    BY <1>3, TipCovered DEF SearchInv
  <2> QED  BY <1>5, <1>8, <2>1, CleanUsable DEF Proven, Usable
<1>15. Best(BestOf(Usable))
  <2> DEFINE u == BestOf(Usable)
  <2>1. u \in Usable /\ \A c \in Usable : ~Worse(u, c)
    BY <1>14, BestOfWorks DEF ChainInv, TypeOK
  <2> HIDE DEF u
  <2> SUFFICES ASSUME NEW b \in linked, Clean(b)  PROVE ~Worse(u, b)
    BY DEF u, Best
  <2>2. failed[b] = {}
    BY <1>11, <1>12
  <2>3. PICK c \in candidates : ~Worse(c, b) /\ (c = b \/ Proven(c))
    BY <1>3, <2>2 DEF Covered
  <2>4. Clean(c) /\ c \in linked
    BY <1>8, <2>3 DEF Proven
  <2>5. c \in Usable
    BY <2>4, CleanUsable
  <2>6. ~Worse(u, c) /\ u \in Blocks /\ c \in Blocks /\ b \in Blocks
    BY <1>5, <1>14, <2>1, <2>5
  <2> QED  BY <2>3, <2>6, NotWorse DEF Worse, ChainInv, TypeOK
<1>16. \A x : Best(x) => Best(x)'
  BY <1>1, <1>6, <1>7 DEF Best
<1>17. CASE BestOf(Usable) = tip /\ pc' = [pc EXCEPT ![t] = "idle"] /\ UNCHANGED <<target, oldTip>>
  <2>1. Best(tip)'
    BY <1>1, <1>15, <1>16, <1>17
  <2>2. \A u \in Thread : pc'[u] # "step"
    BY <1>1, <1>17 DEF ChainInv, TypeOK, Free, Locked
  <2> QED  BY <1>1, <1>3, <1>13, <2>1, <2>2 DEF SearchInv
<1>18. CASE /\ pc' = [pc EXCEPT ![t] = "step"]
            /\ target' = [target EXCEPT ![t] = BestOf(Usable)]
  <2>1. pc'[t] = "step" /\ target'[t] = BestOf(Usable)
        /\ \A u \in Thread : u # t => pc'[u] # "step"
    BY <1>1, <1>18 DEF ChainInv, TypeOK, Free, Locked
  <2>2. Best(target[t])'
    <3>1. PICK u \in Blocks : u = BestOf(Usable)
      BY <1>14, BestOfWorks DEF ChainInv, TypeOK
    <3>2. Best(u)'
      BY <1>15, <1>16, <3>1
    <3>3. target'[t] = u
      BY <2>1, <3>1
    <3> QED  BY <3>2, <3>3 DEF Best, Worse, WorseBy, Clean
  <2>3. ~Done(t)'
    BY <2>1 DEF Done
  <2>4. \A u \in Thread : (pc[u] = "step")' => Best(target[u])'
    <3> SUFFICES ASSUME NEW u \in Thread, pc'[u] = "step"  PROVE Best(target[u])'
      OBVIOUS
    <3>1. u = t
      BY <2>1
    <3> QED  BY <2>2, <3>1, Zenon
  <2> HIDE DEF Covered, Best, Done
  <2> QED  BY <1>1, <1>3, <1>13, <2>3, <2>4 DEF SearchInv
<1> QED  BY <1>2, <1>14, <1>17, <1>18

LEMMA DisconnectSearch ==
  ASSUME ChainInv, SearchInv, NEW t \in Thread, DisconnectForReorg(t)
  PROVE  SearchInv'
<1>1. /\ pc[t] = "step" /\ tip \notin Chain[target[t]] /\ tip' = Parent[tip]
      /\ UNCHANGED <<known, data, failed, linked, seq, candidates, unlinked, refused,
                     connected, pc, target, oldTip, passed, spent>>
  BY DEF DisconnectForReorg, index, sets, history, locals
<1>2. Chain[tip'] \subseteq Chain[tip]
  BY <1>1, StepFacts, Facts, ChainGenesis, ParentChain
<1>3. (Covered => Covered') /\ \A x \in Blocks : Best(x) => Best(x)'
  BY <1>1, SearchKept DEF ChainInv, GoodCandidates, Clean
<1>4. ~Done(t)' /\ \A u \in Thread : target[u] \in Blocks
  BY <1>1 DEF Done, ChainInv, TypeOK
<1> QED  BY <1>1, <1>2, <1>3, <1>4 DEF SearchInv, Best

LEMMA ConnectSearch ==
  ASSUME ChainInv, CleanInv, ChainInv', Caused, SearchInv, NEW t \in Thread, NEW b \in Blocks, Connect(t, b)
  PROVE  SearchInv'
<1>1. /\ Connecting(t, b) /\ tip' = b /\ candidates' = Pruned(b) /\ connected' = connected \cup {b}
      /\ UNCHANGED <<known, data, failed, linked, seq, unlinked, refused, target, passed, spent>>
  BY DEF Connect, index
<1>2. \/ /\ pc' = [pc EXCEPT ![t] = "check"]
      \/ b # target[t] /\ UNCHANGED <<pc, oldTip>>
  BY DEF Connect, StepReturns, Goto
<1>3. /\ pc[t] = "step" /\ b \in linked /\ Chain[b] = Chain[tip] \cup {b} /\ Chain[b] \subseteq Chain[target[t]]
  BY <1>1, FollowingFacts
<1>4. pc[Rpc] \notin {"invalidate", "marked"} /\ Covered
  BY <1>3, StepFacts DEF Locked, Thread, SearchInv
<1>5. Chain[b] \subseteq connected'
  BY <1>1, <1>3 DEF SearchInv
<1>6. Clean(b) /\ failed[b] = {}
  BY <1>3, StepFacts DEF CleanInv, Clean, Caused
<1>7. \A x, y : Worse(x, y)' <=> Worse(x, y)
  BY <1>1 DEF Worse, WorseBy
<1>8. \A x : (Clean(x)' <=> Clean(x)) /\ (Proven(x) => Proven(x)')
  BY <1>1 DEF Clean, Proven
<1>9. PICK d \in candidates : ~Worse(d, b) /\ Proven(d)'
  <2>1. PICK d \in candidates : ~Worse(d, b) /\ (d = b \/ Proven(d))
    BY <1>3, <1>4, <1>6 DEF Covered
  <2>2. Proven(b)'
    BY <1>5, <1>6, <1>8 DEF Proven
  <2> QED  BY <1>8, <2>1, <2>2
<1>10. candidates \subseteq Blocks /\ linked \in SUBSET Blocks /\ seq \in [Blocks -> Nat]
  BY Facts DEF ChainInv, GoodCandidates, TypeOK
<1>11. d \in candidates' /\ \A c \in candidates : ~Worse(c, b) => c \in candidates'
  BY <1>1, <1>9 DEF Pruned
<1>12. Covered'
  <2> SUFFICES ASSUME NEW y \in linked, failed[y] = {}
               PROVE  \E c \in candidates' : ~Worse(c, y) /\ (c = y \/ Proven(c)')
    BY <1>1, <1>7 DEF Covered
  <2>1. PICK c \in candidates : ~Worse(c, y) /\ (c = y \/ Proven(c))
    BY <1>4 DEF Covered
  <2>2. CASE ~Worse(c, b)
    BY <1>8, <1>11, <2>1, <2>2
  <2>3. CASE Worse(c, b)
    <3>1. ~Worse(b, c)
      BY <1>10, <2>3, WorseOrder DEF Worse
    <3>2. ~Worse(d, c)
      BY <1>9, <1>10, <3>1, NotWorse DEF Worse
    <3>3. ~Worse(d, y)
      BY <1>10, <2>1, <3>2, NotWorse DEF Worse
    <3> QED  BY <1>9, <1>11, <3>3
  <2> QED  BY <2>2, <2>3
<1>13. \A x : Best(x) => Best(x)'
  BY <1>1, <1>7, <1>8 DEF Best
<1>14. pc'[Rpc] \notin {"invalidate", "marked"} /\ \A u \in Thread : pc'[u] = "step" => pc[u] = "step"
  BY <1>2, <1>4 DEF ChainInv, TypeOK, Thread
<1>15. Done(t)' => Best(b)
  <2> SUFFICES ASSUME Done(t)'  PROVE b = target[t]
    BY <1>3 DEF SearchInv
  <2>1. pc' = [pc EXCEPT ![t] = "check"]
    BY <1>2, <1>3 DEF Done
  <2>2. pc'[t] = "check"
    BY <2>1 DEF ChainInv, TypeOK
  <2> QED  BY <1>1, <2>2 DEF Done
<1> QED  BY <1>1, <1>5, <1>12, <1>13, <1>14, <1>15 DEF SearchInv

LEMMA ConnectInvalidSearch ==
  ASSUME ChainInv, CleanInv, SearchInv, NEW t \in Thread, NEW b \in Blocks, ConnectInvalid(t, b),
         spent'["change"] = 0
  PROVE  SearchInv'
<1>1. /\ Connecting(t, b) /\ failed' = [failed EXCEPT ![b] = @ \cup {"valid"}]
      /\ candidates' = candidates \ {b}
      /\ pc' = [pc EXCEPT ![t] = "check"]
      /\ UNCHANGED <<known, data, linked, seq, unlinked, tip, connected, target, passed>>
  BY DEF ConnectInvalid, StepReturns, Goto
<1>2. b \notin connected
  <2> SUFFICES ASSUME b \in connected  PROVE FALSE
    OBVIOUS
  <2>1. Spend("change")
    BY DEF ConnectInvalid
  <2> QED  BY <2>1, SpendGrows DEF Rare, ChainInv
<1>3. pc[t] = "step" /\ b \in Chain[target[t]] /\ b \notin Chain[tip] /\ tip \in Blocks
  BY <1>1, FollowingFacts, Facts
<1>4. pc[Rpc] \notin {"invalidate", "marked"} /\ Covered
  BY <1>3, StepFacts DEF Locked, Thread, SearchInv
<1>5. pc'[t] = "check" /\ \A u \in Thread : pc'[u] # "step"
  BY <1>1, <1>3, StepFacts DEF ChainInv, TypeOK, Locked
<1>6. ~Done(t)'
  <2>1. target[t] # tip
    BY <1>3
  <2> QED  BY <1>1, <1>5, <2>1 DEF Done
<1>7. \A c \in Blocks : /\ failed'[c] = {} => failed[c] = {} /\ c # b
                        /\ Proven(c) => Proven(c)'
  <2> SUFFICES ASSUME NEW c \in Blocks
               PROVE  /\ failed'[c] = {} => failed[c] = {} /\ c # b
                      /\ Proven(c) => Proven(c)'
    OBVIOUS
  <2>1. failed'[c] = {} => failed[c] = {} /\ c # b
    BY <1>1 DEF ChainInv, TypeOK
  <2>2. ASSUME Proven(c)  PROVE Proven(c)'
    <3>1. \A a \in Chain[c] : a # b /\ a \in Blocks
      BY <1>2, <2>2, ChainSelf DEF Proven
    <3> QED  BY <1>1, <2>2, <3>1 DEF Proven, Clean, ChainInv, TypeOK
  <2> QED  BY <2>1, <2>2
<1>8. Covered'
  <2> SUFFICES ASSUME NEW y \in linked, failed'[y] = {}
               PROVE  \E c \in candidates' : ~Worse(c, y) /\ (c = y \/ Proven(c)')
    BY <1>1 DEF Covered, Worse, WorseBy
  <2>1. y \in Blocks /\ y # b /\ failed[y] = {}
    BY <1>7, Facts
  <2>2. PICK c \in candidates : ~Worse(c, y) /\ (c = y \/ Proven(c))
    BY <1>4, <2>1 DEF Covered
  <2>3. c \in Blocks
    BY Facts DEF ChainInv, GoodCandidates
  <2>4. c # b
    BY <1>2, <2>1, <2>2, <2>3, ChainSelf DEF Proven
  <2> QED  BY <1>1, <1>7, <2>2, <2>3, <2>4
<1> QED  BY <1>1, <1>5, <1>6, <1>8 DEF SearchInv

LEMMA CheckSearch ==
  ASSUME ChainInv, SearchInv, NEW t \in Thread, CheckLoop(t)
  PROVE  SearchInv'
<1>1. /\ pc[t] = "check" /\ target' = [target EXCEPT ![t] = Genesis]
      /\ pc' = [pc EXCEPT ![t] = IF target[t] = tip THEN "idle" ELSE "find"]
      /\ UNCHANGED <<known, data, failed, linked, seq, candidates, unlinked, tip, refused,
                     connected, oldTip, passed, spent>>
  BY DEF CheckLoop, Goto, index, sets, history
<1>2. /\ pc'[t] = (IF target[t] = tip THEN "idle" ELSE "find")
      /\ \A u \in Thread : u # t => pc'[u] = pc[u] /\ target'[u] = target[u]
      /\ \A u \in Thread : target[u] \in Blocks
  BY <1>1 DEF ChainInv, TypeOK
<1>3. (Covered => Covered') /\ \A x \in Blocks : Best(x) => Best(x)'
  BY <1>1, SearchKept DEF ChainInv, GoodCandidates, Clean
<1>4. pc'[Rpc] \notin {"invalidate", "marked"} => pc[Rpc] \notin {"invalidate", "marked"}
  BY <1>1, <1>2 DEF Thread
<1>5. \A u \in Thread : Done(u)' => Done(u)
  <2> SUFFICES ASSUME NEW u \in Thread, Done(u)'  PROVE Done(u)
    OBVIOUS
  <2>1. CASE u = t
    BY <1>1, <1>2, <2>1 DEF Done
  <2>2. CASE u # t
    BY <1>1, <1>2, <2>2 DEF Done
  <2> QED  BY <2>1, <2>2
<1>6. \A u \in Thread : pc'[u] = "step" => Best(target[u])'
  <2> SUFFICES ASSUME NEW u \in Thread, pc'[u] = "step"  PROVE Best(target[u])'
    OBVIOUS
  <2>1. pc[u] = "step" /\ target'[u] = target[u] /\ target[u] \in Blocks
    BY <1>2
  <2>2. PICK x \in Blocks : x = target[u]
    BY <2>1
  <2>3. Best(x)'
    BY <1>3, <2>1, <2>2 DEF SearchInv
  <2> QED  BY <2>1, <2>2, <2>3 DEF Best, Worse, WorseBy, Clean
<1>7. Best(tip) => Best(tip)'
  BY <1>1, <1>3, Facts DEF Best
<1> QED  BY <1>1, <1>3, <1>4, <1>5, <1>6, <1>7 DEF SearchInv

\* invalidateblock keeps cs_main until it has put back the candidates.
LEMMA InvalidateSearch ==
  ASSUME ChainInv, SearchInv, NEW b \in Blocks,
         BeginInvalidate(b) \/ InvalidateMark \/ InvalidateDisconnect
  PROVE  SearchInv'
<1>1. pc'[Rpc] \in {"invalidate", "marked"} /\ \A u \in Thread : pc'[u] # "step"
  <2>1. \A u \in Thread : u # Rpc => pc[u] \notin Locked
    BY InvalidatingFacts DEF BeginInvalidate, InvalidateMark, InvalidateDisconnect, Free, Thread
  <2> QED  BY <2>1 DEF BeginInvalidate, InvalidateMark, InvalidateDisconnect, Goto, ChainInv,
              TypeOK, Thread, Locked
<1>2. Chain[tip'] \subseteq Chain[tip] /\ connected' = connected
  <2>1. CASE InvalidateDisconnect
    <3>1. target[Rpc] \in Chain[tip] /\ target[Rpc] # Genesis /\ tip' = Parent[tip]
      BY <2>1, InvalidatingFacts DEF InvalidateDisconnect
    <3>2. tip \in Blocks \ {Genesis}
      BY <3>1, Facts, TreeAssumption
    <3> QED  BY <2>1, <3>1, <3>2, ParentChain DEF InvalidateDisconnect, history
  <2>2. CASE BeginInvalidate(b) \/ InvalidateMark
    BY <2>2 DEF BeginInvalidate, InvalidateMark, history
  <2> QED  BY <2>1, <2>2
<1>3. ~Done(Rpc)' /\ Rpc \in Thread
  BY <1>1 DEF Done, Thread
<1> QED  BY <1>1, <1>2, <1>3 DEF SearchInv

LEMMA EndInvalidateSearch ==
  ASSUME ChainInv, CleanInv, ChainInv', Caused, SearchInv, EndInvalidate
  PROVE  SearchInv'
<1>1. /\ pc[Rpc] = "invalidate" /\ target[Rpc] \notin Chain[tip]
      /\ candidates' = candidates \cup Restored
      /\ pc' = [pc EXCEPT ![Rpc] = "find"]
      /\ UNCHANGED <<known, data, failed, linked, seq, unlinked, tip, refused, connected,
                     oldTip, passed, spent>>
  BY DEF EndInvalidate, Goto, index, history
<1>2. Rpc \in Thread /\ pc'[Rpc] = "find" /\ \A u \in Thread : pc'[u] # "step"
  BY <1>1, InvalidatingFacts DEF ChainInv, TypeOK, Locked
<1>3. ~Done(Rpc)'
  BY <1>2 DEF Done
<1>4. tip \in linked /\ tip \in Blocks /\ Clean(tip) /\ failed[tip] = {} /\ Proven(tip)
  <2>1. Clean(tip)
    BY <1>1 DEF CleanInv, CleanTip, Clean
  <2> QED  BY <2>1, Facts DEF Proven, SearchInv, Caused
<1>5. linked \in SUBSET Blocks /\ linked \subseteq known /\ linked \subseteq data /\ seq \in [Blocks -> Nat]
  BY Facts DEF ChainInv, TypeOK
<1>6. \A y \in linked : failed[y] = {} /\ ~Worse(y, tip) => y \in candidates'
  BY <1>1, <1>5 DEF Restored, IsValid
<1>7. \A x \in Blocks : ~Worse(x, x)
  BY <1>5, WorseOrder DEF Worse
<1>8. Covered'
  <2> SUFFICES ASSUME NEW y \in linked, failed[y] = {}
               PROVE  \E c \in candidates' : ~Worse(c, y) /\ (c = y \/ Proven(c))
    BY <1>1 DEF Covered, Worse, WorseBy, Proven, Clean
  <2>1. CASE ~Worse(y, tip)
    BY <1>5, <1>6, <1>7, <2>1
  <2>2. CASE Worse(y, tip)
    <3>1. ~Worse(tip, y)
      BY <1>4, <1>5, <2>2, WorseOrder DEF Worse
    <3> QED  BY <1>4, <1>6, <1>7, <3>1
  <2> QED  BY <2>1, <2>2
<1> QED  BY <1>1, <1>2, <1>3, <1>8 DEF SearchInv

LEMMA ReconsiderSearch ==
  ASSUME ChainInv, CleanInv, Caused, SearchInv, Calm', NEW b \in Blocks,
         ReconsiderBlock(b) \/ ReconsiderRejected(b)
  PROVE  SearchInv'
<1>1. /\ failed' = [x \in Blocks |-> IF x \in Cleared(b) THEN {} ELSE failed[x]]
      /\ candidates' = candidates \cup
           {x \in Below(b) : ~IsValid(x) /\ x \in data \cap linked /\ Worse(tip, x)}
      /\ UNCHANGED <<known, data, linked, seq, unlinked, tip, refused, connected, target, oldTip>>
  BY DEF ReconsiderBlock, ReconsiderRejected, Reconsider, history
<1>2. ~BelowFailed(b)
  <2> SUFFICES ASSUME BelowFailed(b)  PROVE FALSE
    OBVIOUS
  <2>1. Spend("reconsiderBelow")
    BY DEF ReconsiderBlock, ReconsiderRejected
  <2> QED  BY <2>1, SpendGrows DEF Rare, ChainInv, Calm
<1>3. Free /\ pc[Rpc] \notin {"invalidate", "marked"} /\ Covered
  BY DEF ReconsiderBlock, ReconsiderRejected, Free, Locked, Thread, SearchInv
<1>4. \E u \in Thread : pc'[u] \in {"find", "reprocess"}
  BY DEF ReconsiderBlock, ReconsiderRejected, Goto, ChainInv, TypeOK, Thread
<1>5. \A u \in Thread : pc'[u] # "step"
  BY <1>3 DEF ReconsiderBlock, ReconsiderRejected, Goto, ChainInv, TypeOK, Free, Locked
<1>6. \A a \in Blocks : failed'[a] \subseteq failed[a]
  <2> HIDE DEF Cleared
  <2> QED  BY <1>1
<1>7. \A x \in Blocks : Proven(x) => Proven(x)'
  <2>1. \A x \in Blocks : Clean(x) => Clean(x)'
    BY <1>6, ChainSelf DEF Clean
  <2> QED  BY <1>1, <2>1 DEF Proven
<1>8. PICK d \in candidates : d \in Blocks /\ ~Worse(d, tip) /\ Proven(d)
  BY <1>3, TipCovered DEF SearchInv
<1>9. seq \in [Blocks -> Nat] /\ tip \in Blocks /\ linked \in SUBSET Blocks /\ linked \subseteq data
      /\ candidates \subseteq Blocks
  BY Facts DEF ChainInv, TypeOK, GoodCandidates
<1>10. Covered'
  <2> SUFFICES ASSUME NEW y \in linked, failed'[y] = {}
               PROVE  \E c \in candidates' : ~Worse(c, y) /\ (c = y \/ Proven(c)')
    BY <1>1 DEF Covered, Worse, WorseBy
  <2>1. CASE failed[y] = {}
    <3>1. PICK c \in candidates : ~Worse(c, y) /\ (c = y \/ Proven(c))
      BY <1>3, <2>1 DEF Covered
    <3> QED  BY <1>1, <1>7, <1>9, <3>1
  <2>2. CASE failed[y] # {}
    <3>1. y \in Cleared(b)
      <4> HIDE DEF Cleared
      <4> QED  BY <1>1, <1>9, <2>2
    <3>2. y \in Below(b)
      <4>1. y \in Chain[b] => y = b
        BY <1>2, <2>2 DEF BelowFailed
      <4>2. b \in linked => b \in Below(b)
        BY ChainSelf DEF Below, ChainInv, TypeOK
      <4> QED  BY <3>1, <4>1, <4>2 DEF Cleared
    <3>3. ~IsValid(y) /\ y \in data \cap linked
      BY <1>9, <2>2 DEF IsValid
    <3>4. CASE Worse(tip, y)
      <4>1. ~Worse(y, y)
        BY <1>9, WorseOrder DEF Worse
      <4> QED  BY <1>1, <3>2, <3>3, <3>4, <4>1
    <3>5. CASE ~Worse(tip, y)
      <4>1. ~Worse(d, y)
        BY <1>8, <1>9, <3>5, NotWorse DEF Worse
      <4> QED  BY <1>1, <1>7, <1>8, <4>1
    <3> QED  BY <3>4, <3>5
  <2> QED  BY <2>1, <2>2
<1>11. \E u \in Thread : ~Done(u)'
  BY <1>4 DEF Done
<1> QED  BY <1>1, <1>5, <1>10, <1>11 DEF SearchInv

LEMMA ReprocessSearch ==
  ASSUME ChainInv, SearchInv, BeginReprocess \/ EndReprocess
  PROVE  SearchInv'
<1>1. UNCHANGED <<known, data, failed, linked, seq, candidates, unlinked, connected, target>>
  BY DEF BeginReprocess, EndReprocess, index, sets, history, locals
<1>2. Net \in Thread /\ pc'[Net] \in {"find", "reprocess"}
      /\ \A u \in Thread : pc'[u] = pc[u] \/ pc'[u] \in {"find", "reprocess"}
  BY DEF BeginReprocess, EndReprocess, Goto, ChainInv, TypeOK, Thread
<1>3. pc[Rpc] \in {"invalidate", "marked"} => pc'[Rpc] = pc[Rpc]
  BY DEF BeginReprocess, EndReprocess, Goto, ChainInv, TypeOK, Thread, Free, Locked
<1>4. Chain[tip'] \subseteq Chain[tip]
  <2>1. CASE BeginReprocess
    BY <2>1 DEF BeginReprocess
  <2>2. CASE EndReprocess
    <3>1. Depth \in Nat /\ Height(tip) \in Nat /\ Depth <= Height(tip) /\ tip' = AncestorAt(tip, Depth)
      BY <2>2, BudgetAssumption, HeightType, Facts DEF EndReprocess
    <3> QED  BY <3>1, AncestorAtWorks, Facts, ChainTransitive
  <2> QED  BY <2>1, <2>2
<1>5. (Covered => Covered') /\ \A x \in Blocks : Best(x) => Best(x)'
  BY <1>1, SearchKept DEF ChainInv, GoodCandidates, Clean
<1>6. ~Done(Net)'
  BY <1>2 DEF Done
<1>7. \A u \in Thread : pc'[u] = "step" => Best(target[u])'
  <2> SUFFICES ASSUME NEW u \in Thread, pc'[u] = "step"  PROVE Best(target[u])'
    OBVIOUS
  <2>1. Best(target[u]) /\ target[u] \in Blocks /\ target' = target
    BY <1>1, <1>2 DEF SearchInv, ChainInv, TypeOK
  <2> QED  BY <1>1, <2>1 DEF Best, Worse, WorseBy, Clean
<1> QED  BY <1>1, <1>2, <1>3, <1>4, <1>5, <1>6, <1>7 DEF SearchInv

LEMMA SearchNext ==
  ASSUME ChainInv, CleanInv, ChainInv', Caused, Caused', SearchInv, Calm', [Next]_vars
  PROVE  SearchInv'
<1>1. ASSUME NEW t \in Thread, NEW b \in Blocks,
             ReceiveBlock(t, b) \/ RefuseBlock(t, b) \/ LoseBlock(t, b)
      PROVE  SearchInv'
  BY <1>1, ReceiveSearch, RefuseSearch
<1>2. ASSUME NEW t \in Thread, Activate(t)  PROVE SearchInv'
  <2>1. ~StepFails(t)
    BY SpendGrows DEF StepFails, Calm, Rare, ChainInv
  <2>2. ASSUME NEW b \in Blocks, ConnectInvalid(t, b)  PROVE SearchInv'
    BY <2>2, ConnectInvalidSearch DEF Calm
  <2> QED  BY <1>2, <2>1, <2>2, FindSearch, DisconnectSearch, ConnectSearch, CheckSearch DEF Activate
<1>3. ASSUME NEW b \in Blocks, BeginInvalidate(b) \/ InvalidateMark \/ InvalidateDisconnect
      PROVE  SearchInv'
  BY <1>3, InvalidateSearch
<1>4. ASSUME NEW b \in Blocks, ReconsiderBlock(b) \/ ReconsiderRejected(b)
      PROVE  SearchInv'
  BY <1>4, ReconsiderSearch
<1>5. CASE EndInvalidate
  BY <1>5, EndInvalidateSearch
<1>6. CASE BeginReprocess \/ EndReprocess
  BY <1>6, ReprocessSearch
<1>7. CASE UNCHANGED vars
  BY <1>7 DEF vars, SearchInv, Covered, Proven, Best, Done, Worse, WorseBy, Clean
<1> QED  BY <1>1, <1>2, <1>3, <1>4, <1>5, <1>6, <1>7, TreeAssumption, Zenon DEF Next, Invalidate

LEMMA CalmInit ==
  ASSUME Init
  PROVE  CleanInv /\ CausedInv /\ SearchInv /\ Marked
<1>1. linked = {Genesis} /\ candidates = {Genesis} /\ tip = Genesis /\ Genesis \in Blocks
      /\ connected = {Genesis} /\ Chain[Genesis] = {Genesis} /\ seq \in [Blocks -> Nat]
  BY TreeAssumption DEF Init
<1>2. ~Worse(Genesis, Genesis)
  BY <1>1, WorseOrder DEF Worse
<1>3. Covered /\ Best(tip)
  BY <1>1, <1>2 DEF Covered, Best
<1>4. \A t \in Thread : pc[t] # "step"
  BY DEF Init
<1>5. SearchInv
  BY <1>1, <1>3, <1>4 DEF SearchInv
<1>6. CausedInv /\ Marked
  BY DEF Init, CausedInv, Marked, Caused, Thread
<1>7. CleanInv
  BY TreeAssumption DEF Init, CleanInv, CleanTip
<1> QED  BY <1>5, <1>6, <1>7

LEMMA SearchHolds == Spec => [](ChainInv /\ CleanInv /\ CausedInv /\ (Calm => SearchInv))
<1>1. Init => SearchInv
  BY CalmInit
<1>2. ChainInv /\ ChainInv' /\ CleanInv /\ CausedInv /\ CausedInv' /\ (Calm => SearchInv) /\ [Next]_vars
        => (Calm => SearchInv)'
  <2> SUFFICES ASSUME ChainInv, ChainInv', CleanInv, CausedInv, CausedInv', Calm => SearchInv, [Next]_vars,
                      Calm'
               PROVE  SearchInv'
    OBVIOUS
  <2>1. Calm
    BY CalmBefore DEF Calm, Rare
  <2> QED  BY <2>1, SearchNext DEF CausedInv, Calm
<1> QED  BY <1>1, <1>2, CausedHolds, PTL DEF Spec

LEMMA BestFound ==
  ASSUME ChainInv, SearchInv
  PROVE  BestChainIsActive
<1> SUFFICES ASSUME Idle, NEW b \in known, Complete(b), Clean(b)
             PROVE  ~Worse(tip, b)
  BY DEF BestChainIsActive
<1>1. b \in linked
  BY DEF ChainInv, Linking, LinkedIsComplete
<1> QED  BY <1>1 DEF SearchInv, Idle, Done, Best

LEMMA CandidatesFound ==
  ASSUME ChainInv, CleanInv, Caused, SearchInv
  PROVE  CandidatesAreComplete /\ CandidatesNeverEmpty
<1>1. ASSUME Idle, NEW b \in known, ~Worse(b, tip), Complete(b), Clean(b)
      PROVE  b \in candidates
  <2>1. b \in linked /\ b \in Blocks /\ tip \in Blocks /\ seq \in [Blocks -> Nat]
    BY <1>1, Facts DEF ChainInv, Linking, LinkedIsComplete, TypeOK
  <2>2. Best(tip) /\ Covered
    BY <1>1 DEF SearchInv, Idle, Done, Thread
  <2>3. b = tip
    BY <1>1, <2>1, <2>2, NotWorse DEF Best, Worse
  <2>4. PICK c \in candidates : c \in linked /\ c \in Blocks /\ ~Worse(c, tip) /\ Proven(c)
    BY <1>1, <2>2, TipCovered DEF SearchInv, Idle, Thread
  <2>5. c = tip
    BY <2>1, <2>2, <2>4, NotWorse DEF Best, Worse, Proven
  <2> QED  BY <2>3, <2>4, <2>5
<1>2. CandidatesNeverEmpty
  BY TipCovered DEF SearchInv, CandidatesNeverEmpty, Free, Locked, Thread
<1> QED  BY <1>1, <1>2 DEF CandidatesAreComplete

\* A failure flag has a cause, until a block with a failed ancestor is reconsidered.
THEOREM FlagsCorrect == Spec => [](spent["reconsiderBelow"] = 0 => FailedHasCause)
<1>1. ChainInv /\ CausedInv => (spent["reconsiderBelow"] = 0 => FailedHasCause)
  BY DEF CausedInv, Caused, FailedHasCause, ChainInv, TypeOK
<1> QED  BY <1>1, CausedHolds, PTL

\* When both threads are out of ActivateBestChain, the active chain is the best of the
\* complete chains without an invalid block, whatever blocks were refused, lost,
\* invalidated, reconsidered or disconnected on the way.
THEOREM BestChainCorrect == Spec => [](Calm => BestChainIsActive)
<1> QED  BY BestFound, SearchHolds, PTL

\* Then, too, no block the node could switch to, or must come back to, is missing in
\* setBlockIndexCandidates.
THEOREM CandidatesCompleteCorrect == Spec => [](Calm => CandidatesAreComplete)
<1>1. ChainInv /\ CleanInv /\ CausedInv /\ (Calm => SearchInv) => (Calm => CandidatesAreComplete)
  BY CandidatesFound DEF CausedInv, Calm
<1> QED  BY <1>1, SearchHolds, PTL

\* The assertion of PruneBlockIndexCandidates holds whenever cs_main is free.
THEOREM CandidatesRemain == Spec => [](Calm => CandidatesNeverEmpty)
<1>1. ChainInv /\ CleanInv /\ CausedInv /\ (Calm => SearchInv) => (Calm => CandidatesNeverEmpty)
  BY CandidatesFound DEF CausedInv, Calm
<1> QED  BY <1>1, SearchHolds, PTL

-------------------------------------------------------------------------------
(***************************************************************************)
(* Proofs about ChainRestart.  Between two starts its steps are those of   *)
(* ChainState, whose invariants carry over; what is new is how the disk    *)
(* follows the memory, and that what is loaded satisfies the invariants    *)
(* again.                                                                  *)
(***************************************************************************)

\* The index database: entries, their data and flags, and the best block of the coins.
Disks == [known : SUBSET Blocks, data : SUBSET Blocks, failed : [Blocks -> SUBSET Fail],
          best : Blocks]

\* The disk is behind the memory by the dirty entries, and holds the chain of its coins.
DiskFits ==
  /\ disk \in Disks /\ dirty \in SUBSET Blocks
  /\ disk.data \subseteq data \cap disk.known
  /\ data \ dirty \subseteq disk.data
  /\ Chain[disk.best] \subseteq disk.data
  /\ connected \subseteq disk.known
  /\ Chain[tip] \cup Chain[disk.best] \subseteq connected

\* An entry that is not dirty differs from the one on disk by BLOCK_FAILED_CHILD only.
FlagsFit ==
  /\ \A b \in Blocks \ disk.known : disk.failed[b] = {}
  /\ \A b \in Blocks \ dirty : /\ disk.failed[b] \subseteq failed[b]
                               /\ "valid" \in failed[b] => "valid" \in disk.failed[b]

RestartInv == ChainInv /\ DiskFits /\ FlagsFit

-------------------------------------------------------------------------------
(* What is written, and what is loaded. *)

LEMMA DiskTypes ==
  ASSUME DiskFits
  PROVE  /\ disk.known \in SUBSET Blocks /\ disk.data \in SUBSET Blocks
         /\ disk.failed \in [Blocks -> SUBSET Fail] /\ disk.best \in Blocks
         /\ disk = [known |-> disk.known, data |-> disk.data, failed |-> disk.failed,
                    best |-> disk.best]
BY DEF DiskFits, Disks

LEMMA WrittenIs ==
  ASSUME ChainInv, DiskFits, NEW S \in SUBSET Blocks
  PROVE  /\ Written(S).known = disk.known \cup S
         /\ Written(S).data = (disk.data \ S) \cup (data \cap S)
         /\ Written(S).failed = [b \in Blocks |-> IF b \in S THEN failed[b] ELSE disk.failed[b]]
         /\ Written(S).best = disk.best
         /\ Written(S) \in Disks
         /\ \A x \in Blocks : /\ [Written(S) EXCEPT !.best = x] \in Disks
                              /\ [Written(S) EXCEPT !.best = x].known = Written(S).known
                              /\ [Written(S) EXCEPT !.best = x].data = Written(S).data
                              /\ [Written(S) EXCEPT !.best = x].failed = Written(S).failed
                              /\ [Written(S) EXCEPT !.best = x].best = x
<1> DEFINE k == disk.known \cup S
           d == (disk.data \ S) \cup (data \cap S)
           f == [b \in Blocks |-> IF b \in S THEN failed[b] ELSE disk.failed[b]]
<1>1. k \in SUBSET Blocks /\ d \in SUBSET Blocks /\ f \in [Blocks -> SUBSET Fail]
  BY DiskTypes DEF ChainInv, TypeOK
<1>2. Written(S) = [disk EXCEPT !.known = k, !.data = d, !.failed = f]
  BY DEF Written
<1>3. disk \in Disks
  BY DEF DiskFits
<1> HIDE DEF k, d, f
<1>4. /\ Written(S).known = k /\ Written(S).data = d /\ Written(S).failed = f
      /\ Written(S).best = disk.best /\ Written(S) \in Disks
  BY <1>1, <1>2, <1>3 DEF Disks
<1>5. ASSUME NEW x \in Blocks
      PROVE  /\ [Written(S) EXCEPT !.best = x] \in Disks
             /\ [Written(S) EXCEPT !.best = x].known = Written(S).known
             /\ [Written(S) EXCEPT !.best = x].data = Written(S).data
             /\ [Written(S) EXCEPT !.best = x].failed = Written(S).failed
             /\ [Written(S) EXCEPT !.best = x].best = x
  BY <1>4 DEF Disks
<1> QED  BY <1>4, <1>5 DEF k, d, f

\* The disk after a flush, when the coins are at the block x.
LEMMA FlushedIs ==
  ASSUME ChainInv, DiskFits, NEW x \in Blocks
  PROVE  /\ Flushed(x) \in Disks
         /\ Flushed(x).known = disk.known \cup dirty
         /\ Flushed(x).data = data
         /\ Flushed(x).failed = [b \in Blocks |-> IF b \in dirty THEN failed[b] ELSE disk.failed[b]]
         /\ Flushed(x).best = x
<1>1. dirty \in SUBSET Blocks /\ data \ dirty \subseteq disk.data /\ disk.data \subseteq data
  BY DEF DiskFits
<1>2. (disk.data \ dirty) \cup (data \cap dirty) = data
  BY <1>1
<1> QED  BY <1>1, <1>2, WrittenIs DEF Flushed

\* What LoadBlockIndexDB needs of a disk.
Loadable(d) ==
  /\ d \in Disks
  /\ d.data \subseteq d.known /\ Chain[d.best] \subseteq d.data
  /\ connected \subseteq d.known /\ Chain[d.best] \subseteq connected
  /\ \A b \in Blocks \ d.known : d.failed[b] = {}

\* The index that is loaded is linked from scratch, and its candidates are chosen anew.
LEMMA LoadStep ==
  ASSUME NEW d, Loadable(d), Load(d), spent' \in [Rare -> Nat]
  PROVE  RestartInv'
<1>1. /\ d.known \in SUBSET Blocks /\ d.data \in SUBSET Blocks
      /\ d.failed \in [Blocks -> SUBSET Fail] /\ d.best \in Blocks
  BY DEF Loadable, Disks
<1>2. /\ known' = d.known /\ data' = d.data /\ failed' = d.failed
      /\ linked' = {b \in d.data : Chain[b] \subseteq d.data}
      /\ unlinked' = d.data \ linked'
      /\ seq' = [b \in Blocks |-> 0] /\ tip' = d.best
      /\ candidates' = {b \in LoadCandidates(d) : ~WorseBy(seq', b, tip')}
      /\ refused' = {} /\ passed' = {} /\ connected' = connected
      /\ target' = [t \in Thread |-> Genesis] /\ oldTip' = [t \in Thread |-> Genesis]
      /\ dirty' = {} /\ disk' = d
  BY DEF Load
<1>3. pc' = [t \in Thread |-> IF t = Net THEN "find" ELSE "idle"]
  BY DEF Load, Started
<1>4. \A t \in Thread : pc'[t] \notin Locked
  BY <1>3 DEF Locked
<1>5. d.data \subseteq d.known /\ Chain[d.best] \subseteq d.data /\ connected \subseteq d.known
  BY DEF Loadable
<1>6. d.best \in d.data
  BY <1>1, <1>5, ChainSelf
<1>7. candidates' \subseteq linked'
  BY <1>2 DEF LoadCandidates
<1>8. TypeOK'
  <2>1. known' \subseteq Blocks /\ data' \subseteq known' /\ linked' \subseteq data' /\ tip' \in linked'
    BY <1>1, <1>2, <1>5, <1>6
  <2>2. candidates' \subseteq known' /\ unlinked' \subseteq known'
    BY <1>2, <1>7, <2>1
  <2>3. /\ pc' \in [Thread -> {"idle", "find", "step", "check", "invalidate", "marked", "reprocess"}]
        /\ target' \in [Thread -> Blocks] /\ oldTip' \in [Thread -> Blocks]
        /\ seq' \in [Blocks -> Nat]
    BY <1>2, <1>3, TreeAssumption
  <2>4. refused' \subseteq known' /\ connected' \subseteq known' /\ passed' \subseteq refused'
        /\ failed' \in [Blocks -> SUBSET Fail]
    BY <1>1, <1>2, <1>5
  <2> QED  BY <1>4, <2>1, <2>2, <2>3, <2>4 DEF TypeOK
<1>9. Linking'
  <2>1. \A b \in Blocks : Chain[b] \subseteq d.data => b \in d.data
    BY ChainSelf
  <2> QED  BY <1>1, <1>2, <1>5, <2>1 DEF Linking, LinkedIsComplete, Complete
<1>10. GoodCandidates'
  BY <1>2, <1>7 DEF GoodCandidates, Worse
<1>11. Invalidating' /\ Stepping'
  BY <1>4 DEF Invalidating, Stepping, Locked
<1>12. DiskFits' /\ FlagsFit'
  BY <1>2 DEF Loadable, DiskFits, FlagsFit
<1> QED  BY <1>8, <1>9, <1>10, <1>11, <1>12 DEF RestartInv, ChainInv

LEMMA StopLoads ==
  ASSUME RestartInv
  PROVE  Loadable(Flushed(tip))
<1>1. /\ tip \in Blocks /\ Chain[tip] \subseteq data
      /\ data \subseteq known /\ known \subseteq Blocks
  BY Facts DEF RestartInv, ChainInv, TypeOK
<1>2. /\ Flushed(tip) \in Disks
      /\ Flushed(tip).known = disk.known \cup dirty /\ Flushed(tip).data = data
      /\ Flushed(tip).failed = [b \in Blocks |-> IF b \in dirty THEN failed[b] ELSE disk.failed[b]]
      /\ Flushed(tip).best = tip
  BY <1>1, FlushedIs DEF RestartInv
<1>3. data \subseteq disk.known \cup dirty
  BY DEF RestartInv, DiskFits
<1> QED  BY <1>1, <1>2, <1>3 DEF Loadable, RestartInv, DiskFits, FlagsFit

LEMMA CrashLoads ==
  ASSUME RestartInv, NEW S \in SUBSET Blocks
  PROVE  Loadable(Written(S))
<1>1. /\ Written(S).known = disk.known \cup S
      /\ Written(S).data = (disk.data \ S) \cup (data \cap S)
      /\ Written(S).failed = [b \in Blocks |-> IF b \in S THEN failed[b] ELSE disk.failed[b]]
      /\ Written(S).best = disk.best
      /\ Written(S) \in Disks
  BY WrittenIs DEF RestartInv
<1>2. Chain[disk.best] \subseteq (disk.data \ S) \cup (data \cap S)
  BY DEF RestartInv, DiskFits
<1>3. (disk.data \ S) \cup (data \cap S) \subseteq disk.known \cup S
  BY DEF RestartInv, DiskFits
<1> QED  BY <1>1, <1>2, <1>3 DEF Loadable, RestartInv, DiskFits, FlagsFit

-------------------------------------------------------------------------------
(* The disk follows the memory. *)

\* Entries that change are put into setDirtyBlockIndex.
LEMMA TouchKeeps ==
  ASSUME RestartInv, NEW S \in SUBSET Blocks, Touch(S), UNCHANGED <<connected, tip>>,
         data \subseteq data', data' \subseteq data \cup S,
         \A b \in Blocks \ S : /\ failed[b] \subseteq failed'[b]
                               /\ "valid" \in failed'[b] => "valid" \in failed[b]
  PROVE  DiskFits' /\ FlagsFit'
<1>1. dirty' = dirty \cup S /\ disk' = disk
  BY DEF Touch
<1>2. DiskFits'
  BY <1>1 DEF RestartInv, DiskFits
<1>3. FlagsFit'
  BY <1>1 DEF RestartInv, FlagsFit
<1> QED  BY <1>2, <1>3

LEMMA FlushKeeps ==
  ASSUME RestartInv, NEW x \in Blocks, FlushAt(x), tip' = x, UNCHANGED <<data, failed>>,
         Chain[x] \subseteq data \cap connected', connected' \subseteq connected \cup data
  PROVE  DiskFits' /\ FlagsFit'
<1>1. dirty' = {} /\ disk' = Flushed(x)
  BY DEF FlushAt
<1>2. /\ disk' \in Disks /\ disk'.known = disk.known \cup dirty
      /\ disk'.data = data /\ disk'.best = x
      /\ disk'.failed = [b \in Blocks |-> IF b \in dirty THEN failed[b] ELSE disk.failed[b]]
  BY <1>1, FlushedIs DEF RestartInv
<1>3. data \subseteq disk.known \cup dirty
  BY DEF RestartInv, DiskFits
<1>4. DiskFits'
  BY <1>1, <1>2, <1>3 DEF RestartInv, DiskFits
<1>5. FlagsFit'
  BY <1>1, <1>2 DEF RestartInv, FlagsFit
<1> QED  BY <1>4, <1>5

LEMMA WriteThroughKeeps ==
  ASSUME RestartInv, NEW b \in Blocks, b \in data, WriteThrough(b), UNCHANGED data,
         connected \subseteq connected', connected' \subseteq connected \cup {b},
         Chain[tip'] \subseteq connected',
         \A x \in Blocks \ {b} : failed'[x] = failed[x]
  PROVE  DiskFits' /\ FlagsFit'
<1>1. dirty' = dirty \cup {b} /\ disk' = Written({b})
  BY DEF WriteThrough
<1>2. /\ disk'.known = disk.known \cup {b}
      /\ disk'.data = (disk.data \ {b}) \cup (data \cap {b})
      /\ disk'.failed = [x \in Blocks |-> IF x \in {b} THEN failed[x] ELSE disk.failed[x]]
      /\ disk'.best = disk.best /\ disk' \in Disks
  BY <1>1, WrittenIs DEF RestartInv
<1>3. disk'.data = disk.data \cup {b}
  BY <1>2
<1>4. DiskFits'
  BY <1>1, <1>2, <1>3 DEF RestartInv, DiskFits
<1>5. FlagsFit'
  <2>1. /\ disk'.failed[b] = failed[b]
        /\ \A x \in Blocks \ {b} : disk'.failed[x] = disk.failed[x]
    BY <1>2
  <2>2. /\ \A x \in Blocks \ disk.known : disk.failed[x] = {}
        /\ \A x \in Blocks \ dirty : /\ disk.failed[x] \subseteq failed[x]
                                     /\ "valid" \in failed[x] => "valid" \in disk.failed[x]
    BY DEF RestartInv, FlagsFit
  <2>3. \A x \in Blocks \ disk'.known : disk'.failed[x] = {}
    BY <1>2, <2>1, <2>2
  <2>4. \A x \in Blocks \ dirty' : /\ disk'.failed[x] \subseteq failed'[x]
                                   /\ "valid" \in failed'[x] => "valid" \in disk'.failed[x]
    BY <1>1, <2>1, <2>2
  <2> QED  BY <2>3, <2>4 DEF FlagsFit
<1> QED  BY <1>4, <1>5

LEMMA ArriveDisk ==
  ASSUME RestartInv, NEW t \in Thread, NEW b \in Blocks, Arrive(t, b)
  PROVE  DiskFits' /\ FlagsFit'
<1>1. Touch({b})
  BY DEF Arrive
<1>2. /\ UNCHANGED <<connected, tip>>
      /\ data \subseteq data' /\ data' \subseteq data \cup {b}
      /\ failed' = failed \/ failed' = [failed EXCEPT ![b] = @ \cup {"valid"}]
  BY DEF Arrive, ReceiveBlock, RefuseBlock, LoseBlock, history
<1>3. \A x \in Blocks \ {b} : failed'[x] = failed[x]
  BY <1>2 DEF RestartInv, ChainInv, TypeOK
<1> QED  BY <1>1, <1>2, <1>3, TouchKeeps

LEMMA MemoryDisk ==
  ASSUME RestartInv, StepInMemory
  PROVE  DiskFits' /\ FlagsFit'
<1>1. Touch({}) /\ UNCHANGED <<connected, tip, data>>
  BY DEF StepInMemory, FindMostWorkChain, StepFails, CheckLoop, EndInvalidate, BeginReprocess,
     history, index
<1>2. \/ failed' = failed
      \/ failed' = [b \in Blocks |-> IF b \in FailedAbove THEN failed[b] \cup {"child"}
                                                         ELSE failed[b]]
  BY DEF StepInMemory, FindMostWorkChain, StepFails, CheckLoop, EndInvalidate, BeginReprocess,
     index
<1>3. \A b \in Blocks : /\ failed[b] \subseteq failed'[b]
                        /\ "valid" \in failed'[b] => "valid" \in failed[b]
  <2> HIDE DEF FailedAbove
  <2> QED  BY <1>2
<1>4. PICK S \in SUBSET Blocks : S = {}
  OBVIOUS
<1>5. /\ Touch(S) /\ UNCHANGED <<connected, tip>>
      /\ data \subseteq data' /\ data' \subseteq data \cup S
  BY <1>1, <1>4
<1>6. \A b \in Blocks \ S : /\ failed[b] \subseteq failed'[b]
                            /\ "valid" \in failed'[b] => "valid" \in failed[b]
  BY <1>3
<1> QED  BY <1>5, <1>6, TouchKeeps

\* The steps that disconnect blocks change nothing else that is on disk.
LEMMA DisconnectFacts ==
  ASSUME ChainInv, Disconnect
  PROVE  /\ FlushAt(tip') /\ tip' \in Chain[tip] /\ tip' \in Blocks
         /\ Chain[tip'] \subseteq Chain[tip]
         /\ UNCHANGED <<known, data, failed, linked, connected>>
<1>1. FlushAt(tip')
  BY DEF Disconnect
<1>2. ASSUME NEW t \in Thread, DisconnectForReorg(t)  PROVE tip' \in Chain[tip]
  <2>1. tip \in Blocks \ {Genesis} /\ tip' = Parent[tip]
    BY <1>2, StepFacts, Facts, ChainGenesis DEF DisconnectForReorg
  <2> QED  BY <2>1, ParentChain, ChainSelf
<1>3. ASSUME InvalidateDisconnect  PROVE tip' \in Chain[tip]
  <2>1. target[Rpc] \in Chain[tip] /\ target[Rpc] # Genesis /\ tip' = Parent[tip]
    BY <1>3, InvalidatingFacts DEF InvalidateDisconnect
  <2>2. tip \in Blocks \ {Genesis}
    BY <2>1, Facts, TreeAssumption
  <2> QED  BY <2>1, <2>2, ParentChain, ChainSelf
<1>4. ASSUME EndReprocess  PROVE tip' \in Chain[tip]
  <2>1. Depth \in Nat /\ Height(tip) \in Nat /\ Depth <= Height(tip) /\ tip' = AncestorAt(tip, Depth)
    BY <1>4, BudgetAssumption, HeightType, Facts DEF EndReprocess
  <2> QED  BY <2>1, AncestorAtWorks, Facts
<1>5. tip' \in Chain[tip]
  BY <1>2, <1>3, <1>4 DEF Disconnect
<1>6. tip' \in Blocks /\ Chain[tip'] \subseteq Chain[tip]
  BY <1>5, Facts, ChainSelf, ChainTransitive
<1>7. UNCHANGED <<known, data, failed, linked, connected>>
  BY DEF Disconnect, DisconnectForReorg, InvalidateDisconnect, EndReprocess, index, history
<1> QED  BY <1>1, <1>5, <1>6, <1>7

LEMMA DisconnectDisk ==
  ASSUME RestartInv, Disconnect
  PROVE  DiskFits' /\ FlagsFit'
<1>1. /\ FlushAt(tip') /\ tip' \in Chain[tip] /\ tip' \in Blocks
      /\ Chain[tip'] \subseteq Chain[tip]
      /\ UNCHANGED <<data, failed, connected>>
  BY DisconnectFacts DEF RestartInv
<1>2. Chain[tip] \subseteq data \cap connected
  BY Facts DEF RestartInv, DiskFits
<1> QED  BY <1>1, <1>2, FlushKeeps

LEMMA ConnectDisk ==
  ASSUME RestartInv, NEW t \in Thread, NEW b \in Blocks, ConnectOnDisk(t, b)
  PROVE  DiskFits' /\ FlagsFit'
<1>1. ChainInv /\ Connecting(t, b)
  BY DEF RestartInv, ConnectOnDisk, Connect, ConnectInvalid
<1>2. b \in linked /\ Chain[b] = Chain[tip] \cup {b} /\ Chain[b] \subseteq data /\ b \in data
  BY <1>1, FollowingFacts, Facts, ChainSelf
<1>3. Chain[tip] \subseteq connected
  BY DEF RestartInv, DiskFits
<1>4. CASE Connect(t, b) /\ (WriteThrough(b) \/ FlushAt(b))
  <2>1. tip' = b /\ connected' = connected \cup {b} /\ UNCHANGED <<data, failed>>
    BY <1>4 DEF Connect, index
  <2>2. CASE WriteThrough(b)
    BY <1>2, <1>3, <2>1, <2>2, WriteThroughKeeps
  <2>3. CASE FlushAt(b)
    BY <1>2, <1>3, <2>1, <2>3, FlushKeeps
  <2> QED  BY <1>4, <2>2, <2>3
<1>5. CASE ConnectInvalid(t, b) /\ (WriteThrough(b) \/ Touch({b}))
  <2>1. UNCHANGED <<data, connected, tip>> /\ failed' = [failed EXCEPT ![b] = @ \cup {"valid"}]
    BY <1>5 DEF ConnectInvalid
  <2>2. \A x \in Blocks \ {b} : failed'[x] = failed[x]
    BY <2>1 DEF RestartInv, ChainInv, TypeOK
  <2>3. CASE WriteThrough(b)
    BY <1>2, <1>3, <2>1, <2>2, <2>3, WriteThroughKeeps
  <2>4. CASE Touch({b})
    BY <2>1, <2>2, <2>4, TouchKeeps
  <2> QED  BY <1>5, <2>3, <2>4
<1> QED  BY <1>4, <1>5 DEF ConnectOnDisk

\* BeginInvalidate, ReconsiderBlock and the blocks ReprocessBlocks reconsiders.
LEMMA MarkDisk ==
  ASSUME RestartInv, NEW b \in Blocks, MarkOnDisk(b)
  PROVE  DiskFits' /\ FlagsFit'
<1>1. ASSUME BeginInvalidate(b), Touch({b})  PROVE DiskFits' /\ FlagsFit'
  <2>1. UNCHANGED <<data, connected, tip>> /\ failed' = [failed EXCEPT ![b] = @ \cup {"valid"}]
    BY <1>1 DEF BeginInvalidate, history
  <2>2. \A x \in Blocks \ {b} : failed'[x] = failed[x]
    BY <2>1 DEF RestartInv, ChainInv, TypeOK
  <2> QED  BY <1>1, <2>1, <2>2, TouchKeeps
<1>2. ASSUME Reconsider(b), Touch(Cleared(b))  PROVE DiskFits' /\ FlagsFit'
  <2>1. Cleared(b) \in SUBSET Blocks
    BY ChainSelf DEF Cleared, Below, RestartInv, ChainInv, TypeOK
  <2>2. UNCHANGED <<data, connected, tip>>
        /\ failed' = [x \in Blocks |-> IF x \in Cleared(b) THEN {} ELSE failed[x]]
    BY <1>2 DEF Reconsider, history
  <2> HIDE DEF Cleared
  <2>3. \A x \in Blocks \ Cleared(b) : failed'[x] = failed[x]
    BY <2>2
  <2> QED  BY <1>2, <2>1, <2>2, <2>3, TouchKeeps
<1> QED  BY <1>1, <1>2 DEF MarkOnDisk, ReconsiderBlock, ReconsiderRejected

LEMMA TipMarkDisk ==
  ASSUME RestartInv, InvalidateMark, Touch({tip})
  PROVE  DiskFits' /\ FlagsFit'
<1>1. UNCHANGED <<data, connected, tip>> /\ failed' = [failed EXCEPT ![tip] = @ \cup {"child"}]
  BY DEF InvalidateMark, history
<1>2. tip \in Blocks /\ \A x \in Blocks \ {tip} : failed'[x] = failed[x]
  BY <1>1, Facts DEF RestartInv, ChainInv, TypeOK
<1> QED  BY <1>1, <1>2, TouchKeeps

LEMMA FlushDisk ==
  ASSUME RestartInv, Flush
  PROVE  DiskFits' /\ FlagsFit'
<1>1. FlushAt(tip) /\ UNCHANGED <<data, connected, tip, failed>>
  BY DEF Flush, vars
<1>2. tip \in Blocks /\ Chain[tip] \subseteq data \cap connected
  BY Facts DEF RestartInv, DiskFits
<1> QED  BY <1>1, <1>2, FlushKeeps

-------------------------------------------------------------------------------
(* Every step is one of ChainState, a shutdown or a crash. *)

LEMMA RestartCases ==
  ASSUME [RestartNext]_restartVars
  PROVE  \/ /\ [Next]_vars
            /\ \/ \E t \in Thread, b \in Blocks : Arrive(t, b) \/ ConnectOnDisk(t, b)
               \/ StepInMemory \/ Disconnect \/ Flush
               \/ InvalidateMark /\ Touch({tip})
               \/ \E b \in Blocks : MarkOnDisk(b)
               \/ UNCHANGED restartVars
         \/ Stop \/ Crash
<1>1. ASSUME NEW t \in Thread, NEW b \in Blocks, Arrive(t, b) \/ ConnectOnDisk(t, b)
      PROVE  Next
  BY <1>1, Zenon DEF Arrive, ConnectOnDisk, Next, Activate
<1>2. ASSUME StepInMemory  PROVE Next
  BY <1>2, Zenon DEF StepInMemory, Next, Activate, Invalidate
<1>3. ASSUME Disconnect  PROVE Next
  BY <1>3, Zenon DEF Disconnect, Next, Activate, Invalidate
<1>4. ASSUME InvalidateMark  PROVE Next
  BY <1>4, Zenon DEF Next, Invalidate
<1>5. ASSUME NEW b \in Blocks, MarkOnDisk(b)  PROVE Next
  BY <1>5, Zenon DEF MarkOnDisk, Next
<1>6. ASSUME Flush \/ UNCHANGED restartVars  PROVE UNCHANGED vars
  BY <1>6 DEF Flush, restartVars
<1> QED  BY <1>1, <1>2, <1>3, <1>4, <1>5, <1>6, Zenon DEF RestartNext

LEMMA RestartInvNext == RestartInv /\ [RestartNext]_restartVars => RestartInv'
<1> SUFFICES ASSUME RestartInv, [RestartNext]_restartVars  PROVE RestartInv'
  OBVIOUS
<1>1. CASE /\ [Next]_vars
           /\ \/ \E t \in Thread, b \in Blocks : Arrive(t, b) \/ ConnectOnDisk(t, b)
              \/ StepInMemory \/ Disconnect \/ Flush
              \/ InvalidateMark /\ Touch({tip})
              \/ \E b \in Blocks : MarkOnDisk(b)
              \/ UNCHANGED restartVars
  <2>1. ChainInv'
    BY <1>1, NextInv DEF RestartInv
  <2>2. UNCHANGED restartVars => DiskFits' /\ FlagsFit'
    BY DEF restartVars, vars, RestartInv, DiskFits, FlagsFit
  <2>3. DiskFits' /\ FlagsFit'
    BY <1>1, <2>2, ArriveDisk, ConnectDisk, MemoryDisk, DisconnectDisk, FlushDisk, TipMarkDisk,
       MarkDisk, Zenon
  <2> QED  BY <2>1, <2>3 DEF RestartInv
<1>2. CASE Stop
  <2>1. Load(Flushed(tip)) /\ spent' \in [Rare -> Nat]
    BY <1>2, SpendType DEF Stop, Rare, RestartInv, ChainInv
  <2> QED  BY <2>1, StopLoads, LoadStep
<1>3. CASE Crash
  <2>1. PICK S \in CutOff : Load(Written(S))
    BY <1>3 DEF Crash
  <2>2. S \in SUBSET Blocks
    BY DEF CutOff, RestartInv, DiskFits
  <2>3. spent' \in [Rare -> Nat]
    BY <1>3, SpendType DEF Crash, Rare, RestartInv, ChainInv
  <2> QED  BY <2>1, <2>2, <2>3, CrashLoads, LoadStep
<1> QED  BY <1>1, <1>2, <1>3, RestartCases, Zenon

LEMMA RestartInvInit == RestartInit => RestartInv
<1> SUFFICES ASSUME RestartInit  PROVE RestartInv
  OBVIOUS
<1>1. ChainInv
  BY InitInv DEF RestartInit
<1>2. /\ known = {Genesis} /\ data = {Genesis} /\ failed = [b \in Blocks |-> {}]
      /\ tip = Genesis /\ connected = {Genesis} /\ dirty = {}
      /\ disk = [known |-> known, data |-> data, failed |-> failed, best |-> tip]
      /\ Genesis \in Blocks /\ Chain[Genesis] = {Genesis}
  BY TreeAssumption DEF RestartInit, Init
<1>3. disk.known = {Genesis} /\ disk.data = {Genesis} /\ disk.failed = [b \in Blocks |-> {}]
      /\ disk.best = Genesis /\ disk \in Disks
  BY <1>2 DEF Disks
<1> QED  BY <1>1, <1>2, <1>3 DEF RestartInv, DiskFits, FlagsFit

LEMMA RestartInvHolds == RestartSpec => []RestartInv
<1> QED  BY RestartInvInit, RestartInvNext, PTL DEF RestartSpec

\* Wherever the node is cut off, the best block of the coins and its ancestors are in
\* the index that is loaded, with their transactions.
THEOREM CoinsIndexed == RestartSpec => []CoinsAreIndexed
<1>1. RestartInv => CoinsAreIndexed
  BY DEF RestartInv, DiskFits, CoinsAreIndexed
<1> QED  BY <1>1, RestartInvHolds, PTL

\* Also in a node that stops and crashes, the links are those of the stored blocks, the
\* waiting blocks wait, and candidates are complete and as good as the tip.
THEOREM IndexRestarts ==
  RestartSpec => [](TypeOK /\ LinkedIsComplete /\ UnlinkedIsExact /\ CandidatesAreGood)
<1>1. RestartInv => TypeOK /\ LinkedIsComplete /\ UnlinkedIsExact /\ CandidatesAreGood
  BY Facts DEF RestartInv, ChainInv, Linking, GoodCandidates, UnlinkedIsExact,
     CandidatesAreGood, Complete
<1> QED  BY <1>1, RestartInvHolds, PTL

-------------------------------------------------------------------------------
(* The best chain is found again.  A crash may store some of the changed   *)
(* entries without the others, so the flags on disk are followed too, in   *)
(* the behaviours where nothing clears a flag.                             *)

Trusted == Calm /\ Orderly

Undisturbed ==
  \A e \in {"invalidate", "reconsider", "reconsiderBelow", "reprocess"} : spent[e] = 0

\* The flags on disk have causes on disk, and the chain of the coins is not refused.
CalmDisk ==
  /\ \A b \in Blocks : disk.failed[b] \subseteq failed[b]
  /\ \A b \in Blocks : disk.failed[b] # {} => \E a \in Chain[b] : "valid" \in disk.failed[a]
  /\ Clean(disk.best)
  /\ pc[Rpc] \notin {"invalidate", "marked"} /\ pc[Net] # "reprocess"

TrustedInv ==
  /\ Marked
  /\ Trusted => CleanInv /\ Caused /\ SearchInv /\ (Undisturbed => CalmDisk)

\* What happened stays happened.
LEMMA RestartSpends ==
  ASSUME RestartInv, [RestartNext]_restartVars, NEW e \in Rare, spent'[e] = 0
  PROVE  spent[e] = 0
<1>1. ASSUME NEW event \in Rare, Spend(event)  PROVE spent[e] = 0
  <2>1. TypeOK /\ spent[e] \in Nat
    BY DEF RestartInv, ChainInv, TypeOK
  <2>2. spent[e] <= spent'[e]
    BY <1>1, <2>1, SpendGrows
  <2> QED  BY <2>1, <2>2
<1>2. CASE [Next]_vars
  BY <1>2, CalmBefore DEF RestartInv
<1>3. CASE Stop \/ Crash
  BY <1>1, <1>3 DEF Stop, Crash, Rare
<1> QED  BY <1>2, <1>3, RestartCases

LEMMA TrustedBefore ==
  ASSUME RestartInv, [RestartNext]_restartVars
  PROVE  (Trusted' => Trusted) /\ (Undisturbed' => Undisturbed)
<1>1. \A e \in Rare : spent'[e] = 0 => spent[e] = 0
  BY RestartSpends
<1>2. {"reconsiderBelow", "change", "system", "crash", "invalidate", "reconsider", "reprocess"}
        \subseteq Rare
  BY DEF Rare
<1> QED  BY <1>1, <1>2 DEF Trusted, Calm, Orderly, Undisturbed

-------------------------------------------------------------------------------
(* Starting again. *)

\* The disk that is loaded has causes for its flags, and coins of a chain that is not
\* refused.
LEMMA LoadSearch ==
  ASSUME NEW d, Loadable(d), Load(d), RestartInv',
         \A b \in Blocks : d.failed[b] # {} => \E a \in Chain[b] : "valid" \in d.failed[a],
         \A a \in Chain[d.best] : "valid" \notin d.failed[a]
  PROVE  Marked' /\ CleanInv' /\ Caused' /\ SearchInv' /\ CalmDisk'
<1>1. d.best \in Blocks /\ Chain[d.best] \subseteq connected /\ d.best \in Chain[d.best]
      /\ Chain[d.best] \subseteq d.data
      /\ \A b \in Blocks \ d.known : d.failed[b] = {}
  BY ChainSelf DEF Loadable, Disks
<1>2. /\ known' = d.known /\ failed' = d.failed /\ tip' = d.best
      /\ linked' = {b \in d.data : Chain[b] \subseteq d.data}
      /\ seq' = [b \in Blocks |-> 0]
      /\ candidates' = {b \in LoadCandidates(d) : ~WorseBy(seq', b, tip')}
      /\ connected' = connected /\ disk' = d
  BY DEF Load
<1>3. pc' = [t \in Thread |-> IF t = Net THEN "find" ELSE "idle"]
  BY DEF Load, Started
<1>4. /\ pc'[Net] = "find" /\ pc'[Rpc] \in {"find", "idle"} /\ Net \in Thread
      /\ \A t \in Thread : pc'[t] # "step"
  BY <1>3 DEF Thread
<1>5. Marked' /\ CleanInv' /\ Clean(tip)'
  BY <1>2, <1>4 DEF Marked, CleanInv, CleanTip, Clean
<1>6. Caused'
  BY <1>1, <1>2 DEF Caused, Clean
<1>7. CalmDisk'
  BY <1>2, <1>4 DEF CalmDisk, Clean
<1>8. tip' \in candidates'
  <2>1. d.failed[d.best] = {}
    BY <1>1, <1>2, <1>5, <1>6 DEF Caused
  <2>2. ~WorseBy(seq', d.best, d.best)
    BY <1>1, <1>2, WorseOrder
  <2> QED  BY <1>1, <1>2, <2>1, <2>2 DEF LoadCandidates
<1>9. Proven(tip)'
  BY <1>1, <1>2, <1>5 DEF Proven
<1>10. Covered'
  <2> SUFFICES ASSUME NEW b \in linked', failed'[b] = {}
               PROVE  \E c \in candidates' : ~WorseBy(seq', c, b) /\ (c = b \/ Proven(c)')
    BY DEF Covered, Worse
  <2>1. b \in Blocks /\ seq' \in [Blocks -> Nat] /\ tip' \in Blocks
    BY <1>1, <1>2, Facts DEF RestartInv, ChainInv, TypeOK
  <2>2. CASE WorseBy(seq', b, tip')
    <3>1. ~WorseBy(seq', tip', b)
      BY <2>1, <2>2, WorseOrder
    <3> QED  BY <1>8, <1>9, <3>1
  <2>3. CASE ~WorseBy(seq', b, tip')
    <3>1. b \in candidates'
      BY <1>2, <2>3 DEF LoadCandidates
    <3>2. ~WorseBy(seq', b, b)
      BY <2>1, WorseOrder
    <3> QED  BY <3>1, <3>2
  <2> QED  BY <2>2, <2>3
<1>11. SearchInv'
  <2>1. ~Done(Net)'
    BY <1>4 DEF Done
  <2> QED  BY <1>1, <1>2, <1>4, <1>10, <2>1 DEF SearchInv
<1> QED  BY <1>5, <1>6, <1>7, <1>11

\* A flush brings the flags on disk up to the memory.
LEMMA FlushedFlags ==
  ASSUME RestartInv, Caused, NEW x \in Blocks
  PROVE  /\ \A b \in Blocks : /\ Flushed(x).failed[b] \subseteq failed[b]
                              /\ "valid" \in failed[b] => "valid" \in Flushed(x).failed[b]
         /\ \A b \in Blocks : Flushed(x).failed[b] # {} =>
              \E a \in Chain[b] : "valid" \in Flushed(x).failed[a]
<1>1. Flushed(x).failed = [b \in Blocks |-> IF b \in dirty THEN failed[b] ELSE disk.failed[b]]
  BY FlushedIs DEF RestartInv
<1>2. \A b \in Blocks : /\ Flushed(x).failed[b] \subseteq failed[b]
                        /\ "valid" \in failed[b] => "valid" \in Flushed(x).failed[b]
  BY <1>1 DEF RestartInv, FlagsFit
<1>3. ASSUME NEW b \in Blocks, Flushed(x).failed[b] # {}
      PROVE  \E a \in Chain[b] : "valid" \in Flushed(x).failed[a]
  <2>1. failed[b] # {}
    BY <1>2, <1>3
  <2>2. PICK a \in Chain[b] : "valid" \in failed[a]
    BY <2>1 DEF Caused, Clean
  <2> QED  BY <1>2, <2>2, ChainSelf
<1> QED  BY <1>2, <1>3

LEMMA StopSearch ==
  ASSUME RestartInv, RestartInv', CleanInv, Caused, Stop
  PROVE  Marked' /\ CleanInv' /\ Caused' /\ SearchInv' /\ CalmDisk'
<1>1. Free /\ Load(Flushed(tip)) /\ tip \in Blocks /\ Loadable(Flushed(tip))
  BY StopLoads, Facts DEF Stop, RestartInv
<1>2. Clean(tip) /\ Flushed(tip).best = tip
  BY <1>1, TipIsClean, FlushedIs DEF RestartInv
<1>3. \A a \in Chain[Flushed(tip).best] : "valid" \notin Flushed(tip).failed[a]
  BY <1>1, <1>2, FlushedFlags, ChainSelf DEF Clean
<1> QED  BY <1>1, <1>3, FlushedFlags, LoadSearch

\* Ancestors are written before their descendants.
LEMMA AddressOrder ==
  ASSUME InTreeOrder
  PROVE  \A b \in Blocks : \A a \in Chain[b] : a \in Blocks /\ Address[a] <= Address[b]
<1> DEFINE S == {b \in Blocks : \A a \in Chain[b] : Address[a] <= Address[b]}
<1>1. Genesis \in S
  BY TreeAssumption, AddressAssumption
<1>2. ASSUME NEW b \in Blocks \ {Genesis}, Parent[b] \in S  PROVE b \in S
  <2>1. ASSUME NEW a \in Chain[b]  PROVE Address[a] <= Address[b]
    <3>1. a \in Blocks /\ Address[a] \in Nat /\ Address[b] \in Nat /\ Address[Parent[b]] \in Nat
      BY ParentChain, ChainSelf, AddressAssumption
    <3>2. Address[Parent[b]] < Address[b]
      BY DEF InTreeOrder
    <3>3. CASE a \in Chain[Parent[b]]
      <4>1. Address[a] <= Address[Parent[b]]
        BY <1>2, <3>3
      <4> QED  BY <3>1, <3>2, <4>1
    <3>4. CASE a = b
      BY <3>1, <3>4
    <3> QED  BY <3>3, <3>4, ParentChain
  <2> QED  BY <2>1
<1>3. S \in SUBSET Blocks
  OBVIOUS
<1> HIDE DEF S
<1>4. S = Blocks
  BY <1>1, <1>2, <1>3, TreeInduction
<1> QED  BY <1>4, ChainSelf DEF S

\* Where nothing clears a flag and parents are written first, the causes of the flags
\* that are written are on disk too.
LEMMA CrashSearch ==
  ASSUME RestartInv, RestartInv', Caused, CalmDisk, InTreeOrder, Crash
  PROVE  Marked' /\ CleanInv' /\ Caused' /\ SearchInv' /\ CalmDisk'
<1>1. PICK S \in CutOff : Load(Written(S))
  BY DEF Crash
<1>2. S \in SUBSET Blocks /\ S \subseteq dirty
  BY <1>1 DEF CutOff, RestartInv, DiskFits
<1>3. \A b \in S : \A a \in dirty : Address[a] <= Address[b] => a \in S
  <2>1. CASE S = {}
    BY <2>1
  <2>2. ASSUME NEW c \in dirty, S = {b \in dirty : Address[b] <= Address[c]}
        PROVE  \A b \in S : \A a \in dirty : Address[a] <= Address[b] => a \in S
    BY <2>2, AddressAssumption DEF RestartInv, DiskFits
  <2> QED  BY <1>1, <2>1, <2>2 DEF CutOff
<1>4. Loadable(Written(S)) /\ Written(S).best = disk.best
      /\ Written(S).failed = [b \in Blocks |-> IF b \in S THEN failed[b] ELSE disk.failed[b]]
  BY <1>2, CrashLoads, WrittenIs DEF RestartInv
<1>5. \A b \in Blocks : \A a \in Chain[b] : a \in Blocks /\ Address[a] <= Address[b]
  BY AddressOrder
<1>6. ASSUME NEW b \in Blocks, Written(S).failed[b] # {}
      PROVE  \E a \in Chain[b] : "valid" \in Written(S).failed[a]
  <2>1. CASE b \in S
    <3>1. failed[b] # {}
      BY <1>4, <1>6, <2>1
    <3>2. PICK a \in Chain[b] : "valid" \in failed[a]
      BY <3>1 DEF Caused, Clean
    <3>3. a \in Blocks /\ Address[a] <= Address[b]
      BY <1>5, <3>2
    <3>4. CASE a \in dirty
      BY <1>3, <1>4, <2>1, <3>2, <3>3, <3>4
    <3>5. CASE a \notin dirty
      BY <1>2, <1>4, <3>2, <3>3, <3>5 DEF RestartInv, FlagsFit
    <3> QED  BY <3>4, <3>5
  <2>2. CASE b \notin S
    <3>1. disk.failed[b] # {}
      BY <1>4, <1>6, <2>2
    <3>2. PICK a \in Chain[b] : "valid" \in disk.failed[a]
      BY <3>1 DEF CalmDisk
    <3>3. "valid" \in failed[a] /\ a \in Blocks
      BY <1>5, <3>2 DEF CalmDisk
    <3> QED  BY <1>4, <3>2, <3>3
  <2> QED  BY <2>1, <2>2
<1>7. \A a \in Chain[Written(S).best] : "valid" \notin Written(S).failed[a]
  <2>1. \A a \in Chain[disk.best] : a \in Blocks /\ "valid" \notin failed[a]
    BY <1>5, DiskTypes DEF CalmDisk, Clean, RestartInv
  <2> QED  BY <1>4, <2>1 DEF CalmDisk
<1> QED  BY <1>1, <1>4, <1>6, <1>7, LoadSearch

-------------------------------------------------------------------------------
(* The flags on disk, while nothing clears a flag. *)

LEMMA CalmThreads ==
  ASSUME RestartInv, CalmDisk,
         \/ pc' = pc
         \/ \E t \in Thread, where \in {"idle", "find", "step", "check"} :
              pc' = [pc EXCEPT ![t] = where]
  PROVE  pc'[Rpc] \notin {"invalidate", "marked"} /\ pc'[Net] # "reprocess"
BY DEF RestartInv, ChainInv, TypeOK, CalmDisk, Thread

LEMMA TouchCalm ==
  ASSUME CalmDisk, UNCHANGED disk, disk.best \in Blocks,
         \A b \in Blocks : failed[b] \subseteq failed'[b],
         \A a \in Chain[disk.best] : "valid" \in failed'[a] => "valid" \in failed[a],
         pc'[Rpc] \notin {"invalidate", "marked"} /\ pc'[Net] # "reprocess"
  PROVE  CalmDisk'
BY DEF CalmDisk, Clean

LEMMA FlushCalm ==
  ASSUME RestartInv, Caused, NEW x \in Blocks, FlushAt(x), UNCHANGED failed, Clean(x),
         pc'[Rpc] \notin {"invalidate", "marked"} /\ pc'[Net] # "reprocess"
  PROVE  CalmDisk'
<1>1. disk' = Flushed(x) /\ Flushed(x).best = x
  BY FlushedIs DEF FlushAt, RestartInv
<1>2. /\ \A b \in Blocks : Flushed(x).failed[b] \subseteq failed[b]
      /\ \A b \in Blocks : Flushed(x).failed[b] # {} =>
            \E a \in Chain[b] : "valid" \in Flushed(x).failed[a]
  BY FlushedFlags
<1> QED  BY <1>1, <1>2 DEF CalmDisk, Clean

LEMMA WriteCalm ==
  ASSUME RestartInv, CalmDisk, NEW b \in Blocks, WriteThrough(b), failed[b] = {},
         \A x \in Blocks : failed[x] \subseteq failed'[x],
         \A a \in Chain[disk.best] : "valid" \in failed'[a] => "valid" \in failed[a],
         pc'[Rpc] \notin {"invalidate", "marked"} /\ pc'[Net] # "reprocess"
  PROVE  CalmDisk'
<1>1. disk' = Written({b}) /\ Written({b}).best = disk.best
      /\ Written({b}).failed = [x \in Blocks |-> IF x \in {b} THEN failed[x] ELSE disk.failed[x]]
  BY WrittenIs DEF WriteThrough, RestartInv
<1>2. disk.failed[b] = {}
  BY DEF CalmDisk
<1>3. disk'.best = disk.best /\ \A x \in Blocks : disk'.failed[x] = disk.failed[x]
  BY <1>1, <1>2
<1>4. \A x \in Blocks : Chain[x] \subseteq Blocks
  BY ChainSelf
<1> QED  BY <1>3, <1>4 DEF CalmDisk, Clean

LEMMA ArriveCalm ==
  ASSUME RestartInv, CalmDisk, NEW t \in Thread, NEW b \in Blocks, Arrive(t, b)
  PROVE  CalmDisk'
<1>1. disk' = disk /\ Acceptable(t, b)
  BY DEF Arrive, Touch, ReceiveBlock, RefuseBlock, LoseBlock
<1>2. b \notin Chain[disk.best] /\ disk.best \in Blocks
  BY <1>1, AcceptableFacts, DiskTypes DEF RestartInv, DiskFits
<1>3. failed' = failed \/ failed' = [failed EXCEPT ![b] = @ \cup {"valid"}]
  BY DEF Arrive, ReceiveBlock, RefuseBlock, LoseBlock
<1>4. /\ \A x \in Blocks : failed[x] \subseteq failed'[x]
      /\ \A a \in Chain[disk.best] : failed'[a] = failed[a]
  BY <1>2, <1>3, ChainSelf DEF RestartInv, ChainInv, TypeOK
<1>5. pc'[Rpc] \notin {"invalidate", "marked"} /\ pc'[Net] # "reprocess"
  BY CalmThreads DEF Arrive, ReceiveBlock, RefuseBlock, LoseBlock, Goto
<1> QED  BY <1>1, <1>2, <1>4, <1>5, TouchCalm

LEMMA MemoryCalm ==
  ASSUME RestartInv, CalmDisk, StepInMemory, Undisturbed'
  PROVE  CalmDisk'
<1>1. disk' = disk
  BY DEF StepInMemory, Touch
<1>2. ~EndInvalidate /\ ~BeginReprocess
  <2>1. ~EndInvalidate
    BY DEF EndInvalidate, CalmDisk
  <2>2. ~BeginReprocess
    BY SpendGrows DEF BeginReprocess, Undisturbed, Rare, RestartInv, ChainInv
  <2> QED  BY <2>1, <2>2
<1>3. PICK t \in Thread : FindMostWorkChain(t) \/ StepFails(t) \/ CheckLoop(t)
  BY <1>2 DEF StepInMemory
<1>4. \/ failed' = failed
      \/ failed' = [b \in Blocks |-> IF b \in FailedAbove THEN failed[b] \cup {"child"}
                                                         ELSE failed[b]]
  BY <1>3 DEF FindMostWorkChain, StepFails, CheckLoop, index
<1>5. \A b \in Blocks : /\ failed[b] \subseteq failed'[b]
                        /\ "valid" \in failed'[b] => "valid" \in failed[b]
  <2> HIDE DEF FailedAbove
  <2> QED  BY <1>4
<1>6. pc'[Rpc] \notin {"invalidate", "marked"} /\ pc'[Net] # "reprocess"
  BY <1>3, CalmThreads DEF FindMostWorkChain, StepFails, CheckLoop, StepReturns, Goto
<1>7. disk.best \in Blocks /\ Chain[disk.best] \subseteq Blocks
  BY DiskTypes, ChainSelf DEF RestartInv
<1> QED  BY <1>1, <1>5, <1>6, <1>7, TouchCalm

\* Only a reorganization disconnects blocks then.
LEMMA DisconnectCalm ==
  ASSUME RestartInv, CleanInv, Caused, CalmDisk, Disconnect
  PROVE  CalmDisk'
<1>1. PICK t \in Thread : DisconnectForReorg(t)
  BY DEF Disconnect, InvalidateDisconnect, EndReprocess, CalmDisk
<1>2. pc[t] = "step" /\ pc' = pc
  BY <1>1 DEF DisconnectForReorg
<1>3. /\ FlushAt(tip') /\ tip' \in Blocks /\ Chain[tip'] \subseteq Chain[tip] /\ failed' = failed
  BY DisconnectFacts DEF RestartInv
<1>4. Clean(tip)
  BY <1>2, TipIsClean DEF RestartInv
<1>5. Clean(tip')
  BY <1>3, <1>4 DEF Clean
<1>6. pc'[Rpc] \notin {"invalidate", "marked"} /\ pc'[Net] # "reprocess"
  BY <1>2 DEF CalmDisk
<1>7. PICK x \in Blocks : x = tip'
  BY <1>3
<1>8. FlushAt(x) /\ Clean(x)
  BY <1>3, <1>5, <1>7 DEF Clean
<1> QED  BY <1>3, <1>6, <1>8, FlushCalm

LEMMA ConnectCalm ==
  ASSUME RestartInv, CleanInv, Caused, CalmDisk, Calm', NEW t \in Thread, NEW b \in Blocks,
         ConnectOnDisk(t, b)
  PROVE  CalmDisk'
<1>1. ChainInv /\ Connecting(t, b)
  BY DEF RestartInv, ConnectOnDisk, Connect, ConnectInvalid
<1>2. pc[t] = "step" /\ Chain[b] \subseteq Chain[target[t]]
  BY <1>1, FollowingFacts
<1>3. Clean(b) /\ failed[b] = {}
  <2>1. Clean(b)
    BY <1>2 DEF CleanInv, Clean
  <2> QED  BY <2>1 DEF Caused
<1>4. pc'[Rpc] \notin {"invalidate", "marked"} /\ pc'[Net] # "reprocess"
  BY CalmThreads DEF ConnectOnDisk, Connect, ConnectInvalid, StepReturns, Goto
<1>5. disk.best \in Blocks /\ Chain[disk.best] \subseteq Blocks /\ Chain[disk.best] \subseteq connected
  BY DiskTypes, ChainSelf DEF RestartInv, DiskFits
<1>6. CASE Connect(t, b) /\ (WriteThrough(b) \/ FlushAt(b))
  <2>1. failed' = failed
    BY <1>6 DEF Connect, index
  <2>2. CASE WriteThrough(b)
    BY <1>3, <1>4, <2>1, <2>2, WriteCalm
  <2>3. CASE FlushAt(b)
    BY <1>3, <1>4, <2>1, <2>3, FlushCalm
  <2> QED  BY <1>6, <2>2, <2>3
<1>7. CASE ConnectInvalid(t, b) /\ (WriteThrough(b) \/ Touch({b}))
  <2>1. failed' = [failed EXCEPT ![b] = @ \cup {"valid"}]
    BY <1>7 DEF ConnectInvalid
  <2>2. b \notin connected
    BY <1>7, SpendGrows DEF ConnectInvalid, Calm, Rare, RestartInv, ChainInv
  <2>3. /\ \A x \in Blocks : failed[x] \subseteq failed'[x]
        /\ \A a \in Chain[disk.best] : failed'[a] = failed[a]
    BY <1>5, <2>1, <2>2 DEF RestartInv, ChainInv, TypeOK
  <2>4. CASE WriteThrough(b)
    BY <1>3, <1>4, <2>3, <2>4, WriteCalm
  <2>5. CASE Touch({b})
    BY <1>4, <1>5, <2>3, <2>5, TouchCalm DEF Touch
  <2> QED  BY <1>7, <2>4, <2>5
<1> QED  BY <1>6, <1>7 DEF ConnectOnDisk

LEMMA FlushStepCalm ==
  ASSUME RestartInv, CleanInv, Caused, CalmDisk, Flush
  PROVE  CalmDisk'
<1>1. Free /\ FlushAt(tip) /\ UNCHANGED <<failed, pc>>
  BY DEF Flush, vars
<1>2. Clean(tip) /\ tip \in Blocks
  BY <1>1, TipIsClean, Facts DEF RestartInv
<1>3. pc'[Rpc] \notin {"invalidate", "marked"} /\ pc'[Net] # "reprocess"
  BY <1>1 DEF CalmDisk
<1> QED  BY <1>1, <1>2, <1>3, FlushCalm

LEMMA MarkCalm ==
  ASSUME RestartInv, CalmDisk, Undisturbed', NEW b \in Blocks
  PROVE  ~MarkOnDisk(b) /\ ~InvalidateMark
<1>1. {"invalidate", "reconsider", "reconsiderBelow", "reprocess"} \subseteq Rare /\ TypeOK
  BY DEF Rare, RestartInv, ChainInv
<1>2. \A e \in {"invalidate", "reconsider", "reconsiderBelow", "reprocess"} : ~Spend(e)
  BY <1>1, SpendGrows DEF Undisturbed
<1>3. ~BeginInvalidate(b) /\ ~ReconsiderBlock(b)
  BY <1>2 DEF BeginInvalidate, ReconsiderBlock
<1>4. ~ReconsiderRejected(b) /\ ~InvalidateMark
  BY DEF ReconsiderRejected, InvalidateMark, CalmDisk
<1> QED  BY <1>3, <1>4 DEF MarkOnDisk

-------------------------------------------------------------------------------
LEMMA TrustedInvNext ==
  ASSUME RestartInv, RestartInv', TrustedInv, [RestartNext]_restartVars
  PROVE  TrustedInv'
<1>1. CASE /\ [Next]_vars
           /\ \/ \E t \in Thread, b \in Blocks : Arrive(t, b) \/ ConnectOnDisk(t, b)
              \/ StepInMemory \/ Disconnect \/ Flush
              \/ InvalidateMark /\ Touch({tip})
              \/ \E b \in Blocks : MarkOnDisk(b)
              \/ UNCHANGED restartVars
  <2>1. Marked'
    BY <1>1, MarkedNext DEF RestartInv, TrustedInv
  <2>2. ASSUME Trusted'  PROVE CleanInv' /\ Caused' /\ SearchInv' /\ (Undisturbed' => CalmDisk')
    <3>1. Trusted /\ CleanInv /\ Caused /\ SearchInv /\ (Undisturbed => CalmDisk) /\ Marked
      BY <2>2, TrustedBefore DEF TrustedInv
    <3>2. CleanInv' /\ ChainInv /\ ChainInv'
      BY <1>1, <3>1, CleanNext DEF RestartInv
    <3>3. Calm' /\ spent'["reconsiderBelow"] = 0
      BY <2>2 DEF Trusted, Calm
    <3>4. Caused'
      BY <1>1, <3>1, <3>2, <3>3, CausedNext
    <3>5. SearchInv'
      BY <1>1, <3>1, <3>2, <3>3, <3>4, SearchNext
    <3>6. ASSUME Undisturbed'  PROVE CalmDisk'
      <4>1. CalmDisk
        BY <3>1, <3>6, TrustedBefore
      <4>2. UNCHANGED restartVars => CalmDisk'
        BY <4>1 DEF restartVars, vars, CalmDisk, Clean
      <4> QED  BY <1>1, <3>1, <3>3, <3>6, <4>1, <4>2, ArriveCalm, MemoryCalm, DisconnectCalm,
                  ConnectCalm, FlushStepCalm, MarkCalm, TreeAssumption
    <3> QED  BY <3>2, <3>4, <3>5, <3>6
  <2> QED  BY <2>1, <2>2 DEF TrustedInv
<1>2. CASE Stop
  <2>1. Marked'
    BY <1>2 DEF Stop, Load, Started, Marked, Thread
  <2>2. ASSUME Trusted'  PROVE CleanInv' /\ Caused' /\ SearchInv' /\ CalmDisk'
    BY <1>2, <2>2, TrustedBefore, StopSearch DEF TrustedInv
  <2> QED  BY <2>1, <2>2 DEF TrustedInv
<1>3. CASE Crash
  <2>1. Marked'
    BY <1>3 DEF Crash, Load, Started, Marked, Thread
  <2>2. ASSUME Trusted'  PROVE CleanInv' /\ Caused' /\ SearchInv' /\ CalmDisk'
    <3>1. spent'["crash"] # 0
      BY <1>3, SpendGrows DEF Crash, Rare, RestartInv, ChainInv
    <3>2. InTreeOrder /\ Undisturbed'
      BY <2>2, <3>1 DEF Trusted, Orderly, Undisturbed
    <3>3. Trusted /\ Undisturbed
      BY <2>2, <3>2, TrustedBefore
    <3> QED  BY <1>3, <3>2, <3>3, CrashSearch DEF TrustedInv
  <2> QED  BY <2>1, <2>2 DEF TrustedInv
<1> QED  BY <1>1, <1>2, <1>3, RestartCases, Zenon

LEMMA TrustedInvHolds == RestartSpec => [](RestartInv /\ TrustedInv)
<1>1. RestartInit => TrustedInv
  <2> SUFFICES ASSUME RestartInit  PROVE TrustedInv
    OBVIOUS
  <2>1. Init /\ Marked /\ CleanInv /\ SearchInv /\ pc = [t \in Thread |-> "idle"]
    BY CalmInit DEF RestartInit, Init
  <2>2. /\ failed = [b \in Blocks |-> {}] /\ Genesis \in Blocks
        /\ disk = [known |-> known, data |-> data, failed |-> failed, best |-> Genesis]
    BY TreeAssumption DEF RestartInit, Init
  <2>3. disk.failed = [b \in Blocks |-> {}] /\ disk.best = Genesis
    BY <2>2
  <2>4. Caused /\ CalmDisk
    BY <2>1, <2>2, <2>3, ChainSelf DEF Caused, CalmDisk, Clean, Thread
  <2> QED  BY <2>1, <2>4 DEF TrustedInv
<1>2. RestartInv /\ RestartInv' /\ TrustedInv /\ [RestartNext]_restartVars => TrustedInv'
  BY TrustedInvNext
<1> QED  BY <1>1, <1>2, RestartInvHolds, PTL DEF RestartSpec

\* After any shutdown, and any crash while nothing cleared flags, the index is as good as
\* before: blocks that wait for an ancestor still do, and no block the node could switch
\* to is forgotten.
THEOREM IndexKept == RestartSpec => [](Calm => RestartKeepsIndex)
<1>1. RestartInv /\ TrustedInv => (Calm => RestartKeepsIndex)
  BY CandidatesFound DEF RestartInv, TrustedInv, Trusted, RestartKeepsIndex, ChainInv, Linking,
     UnlinkedIsExact
<1> QED  BY <1>1, TrustedInvHolds, PTL

\* The node ends on the best of its valid chains although it was cut off anywhere.
THEOREM BestChainFound == RestartSpec => [](Calm => RestartFindsBestChain)
<1>1. RestartInv /\ TrustedInv => (Calm => RestartFindsBestChain)
  BY BestFound DEF RestartInv, TrustedInv, Trusted, RestartFindsBestChain
<1> QED  BY <1>1, TrustedInvHolds, PTL
=============================================================================
