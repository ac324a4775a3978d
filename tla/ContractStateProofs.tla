------------------------ MODULE ContractStateProofs ------------------------
(***************************************************************************)
(* Proofs about ContractState for any finite tree of blocks, any contract  *)
(* transactions in them and any budgets.  The first two parts are about    *)
(* the constants: the tree, and the roots its chains give.                 *)
(***************************************************************************)
EXTENDS ContractState, FiniteSetTheorems, SequenceTheorems, WellFoundedInduction, TLAPS

-------------------------------------------------------------------------------
(* The tree of blocks. *)

LEMMA LeastNatural ==
  ASSUME NEW T \in SUBSET Nat, T # {}
  PROVE  \E n \in T : \A m \in T : n <= m
<1> DEFINE R == OpToRel(<, Nat)
<1>1. IsWellFoundedOn(R, Nat)
  BY NatLessThanWellFounded
<1>2. \A m, n \in Nat : m < n => <<m, n>> \in R
  BY DEF OpToRel
<1> HIDE DEF R
<1>3. PICK n \in T : \A m \in T : ~(<<m, n>> \in R)
  BY <1>1, WFMin, Zenon
<1>4. ASSUME NEW m \in T  PROVE n <= m
  <2>1. ~(m < n)
    BY <1>2, <1>3
  <2> QED  BY <2>1
<1> QED  BY <1>4

LEMMA ParentChain ==
  ASSUME NEW b \in Blocks \ {Genesis}
  PROVE  /\ Parent[b] \in Blocks /\ Chain[b] = Chain[Parent[b]] \cup {b}
         /\ b \notin Chain[Parent[b]]
BY TreeAssumption

LEMMA ChainIsFinite ==
  ASSUME NEW b \in Blocks
  PROVE  b \in Chain[b] /\ Chain[b] \in SUBSET Blocks /\ IsFiniteSet(Chain[b])
<1>1. b \in Chain[b] /\ Chain[b] \in SUBSET Blocks
  BY TreeAssumption
<1>2. IsFiniteSet(Chain[b])
  BY <1>1, TreeAssumption, FS_Subset
<1> QED  BY <1>1, <1>2

LEMMA Heights ==
  /\ \A b \in Blocks : Height(b) \in Nat
  /\ Height(Genesis) = 0
  /\ \A b \in Blocks \ {Genesis} : Height(b) = Height(Parent[b]) + 1
<1>1. ASSUME NEW b \in Blocks  PROVE Height(b) \in Nat
  <2>1. Cardinality(Chain[b]) \in Nat /\ Cardinality(Chain[b]) # 0
    BY ChainIsFinite, FS_CardinalityType, FS_EmptySet
  <2> QED  BY <2>1 DEF Height
<1>2. Height(Genesis) = 0
  <2>1. Cardinality({Genesis}) = 1
    BY FS_Singleton, Zenon
  <2> QED  BY <2>1, TreeAssumption DEF Height
<1>3. ASSUME NEW b \in Blocks \ {Genesis}  PROVE Height(b) = Height(Parent[b]) + 1
  <2>1. /\ Parent[b] \in Blocks /\ Chain[b] = Chain[Parent[b]] \cup {b}
        /\ b \notin Chain[Parent[b]]
    BY ParentChain
  <2>2. IsFiniteSet(Chain[Parent[b]])
    BY <2>1, ChainIsFinite
  <2>3. Cardinality(Chain[b]) = Cardinality(Chain[Parent[b]]) + 1
    BY <2>1, <2>2, FS_AddElement
  <2>4. Cardinality(Chain[Parent[b]]) \in Nat
    BY <2>2, FS_CardinalityType
  <2> QED  BY <2>3, <2>4 DEF Height
<1> QED  BY <1>1, <1>2, <1>3

\* What holds of the genesis block, and of a block when it holds of its parent, holds
\* of every block.
LEMMA TreeInduction ==
  ASSUME NEW S \in SUBSET Blocks, Genesis \in S,
         \A b \in Blocks \ {Genesis} : Parent[b] \in S => b \in S
  PROVE  S = Blocks
<1> DEFINE T == {Height(b) : b \in Blocks \ S}
<1> SUFFICES ASSUME Blocks \ S # {}  PROVE FALSE
  OBVIOUS
<1>1. T \in SUBSET Nat /\ T # {}
  BY Heights
<1> HIDE DEF T
<1>2. PICK n \in T : \A m \in T : n <= m
  BY <1>1, LeastNatural
<1> USE DEF T
<1>3. PICK b \in Blocks \ S : n = Height(b)
  BY <1>2
<1>4. b # Genesis /\ Parent[b] \in Blocks \ S
  BY ParentChain
<1>5. Height(b) = Height(Parent[b]) + 1 /\ Height(b) <= Height(Parent[b])
  BY <1>2, <1>3, <1>4, Heights
<1>6. Height(Parent[b]) \in Nat
  BY <1>4, Heights
<1> QED  BY <1>5, <1>6

\* An ancestor's ancestors are ancestors.
LEMMA ChainTransitive ==
  \A b \in Blocks : \A c \in Chain[b] : Chain[c] \subseteq Chain[b]
<1> DEFINE S == {b \in Blocks : \A c \in Chain[b] : Chain[c] \subseteq Chain[b]}
<1>1. Genesis \in S
  BY TreeAssumption
<1>2. ASSUME NEW b \in Blocks \ {Genesis}, Parent[b] \in S  PROVE b \in S
  BY <1>2, ParentChain
<1> HIDE DEF S
<1>3. S \in SUBSET Blocks
  BY DEF S
<1>4. S = Blocks
  BY <1>1, <1>2, <1>3, TreeInduction
<1> QED  BY <1>4 DEF S

\* A strict ancestor is lower, and an ancestor of the parent.
LEMMA Ancestors ==
  ASSUME NEW b \in Blocks, NEW c \in Chain[b]
  PROVE  /\ c \in Blocks /\ Height(c) <= Height(b)
         /\ c # b => b # Genesis /\ c \in Chain[Parent[b]] /\ Height(c) < Height(b)
<1> DEFINE S == {a \in Blocks : \A e \in Chain[a] : Height(e) <= Height(a)}
<1>1. Genesis \in S
  BY TreeAssumption, Heights
<1>2. ASSUME NEW a \in Blocks \ {Genesis}, Parent[a] \in S  PROVE a \in S
  <2>1. ASSUME NEW e \in Chain[a]  PROVE Height(e) <= Height(a)
    <3>1. e = a \/ e \in Chain[Parent[a]]
      BY ParentChain
    <3>2. e \in Blocks /\ Height(e) \in Nat /\ Height(a) \in Nat
      BY ChainIsFinite, Heights
    <3>3. Height(Parent[a]) \in Nat /\ Height(a) = Height(Parent[a]) + 1
      BY Heights, ParentChain
    <3>4. e \in Chain[Parent[a]] => Height(e) <= Height(Parent[a])
      BY <1>2
    <3> QED  BY <3>1, <3>2, <3>3, <3>4
  <2> QED  BY <2>1
<1> HIDE DEF S
<1>3. S \in SUBSET Blocks
  BY DEF S
<1>4. S = Blocks
  BY <1>1, <1>2, <1>3, TreeInduction
<1>5. \A a \in Blocks : \A e \in Chain[a] : Height(e) <= Height(a)
  BY <1>4 DEF S
<1>6. c \in Blocks /\ Height(c) \in Nat /\ Height(c) <= Height(b)
  BY <1>5, ChainIsFinite, Heights
<1>7. ASSUME c # b  PROVE b # Genesis /\ c \in Chain[Parent[b]] /\ Height(c) < Height(b)
  <2>1. b # Genesis /\ c \in Chain[Parent[b]] /\ Parent[b] \in Blocks
    BY <1>7, TreeAssumption, ParentChain
  <2>2. Height(c) <= Height(Parent[b]) /\ Height(Parent[b]) \in Nat
    BY <1>5, <2>1, Heights
  <2>3. Height(b) = Height(Parent[b]) + 1
    BY <2>1, Heights
  <2> QED  BY <1>6, <2>1, <2>2, <2>3
<1> QED  BY <1>6, <1>7

\* Of two blocks of a chain one is an ancestor of the other.
LEMMA ChainIsLinear ==
  ASSUME NEW b \in Blocks, NEW c \in Chain[b], NEW d \in Chain[b]
  PROVE  c \in Chain[d] \/ d \in Chain[c]
<1> DEFINE S == {a \in Blocks : \A e, f \in Chain[a] : e \in Chain[f] \/ f \in Chain[e]}
<1>1. Genesis \in S
  BY TreeAssumption
<1>2. ASSUME NEW a \in Blocks \ {Genesis}, Parent[a] \in S  PROVE a \in S
  BY <1>2, ParentChain
<1> HIDE DEF S
<1>3. S \in SUBSET Blocks
  BY DEF S
<1>4. S = Blocks
  BY <1>1, <1>2, <1>3, TreeInduction
<1> QED  BY <1>4 DEF S

LEMMA GenesisInChains ==
  \A b \in Blocks : Genesis \in Chain[b]
<1> DEFINE S == {b \in Blocks : Genesis \in Chain[b]}
<1>1. Genesis \in S
  BY TreeAssumption
<1>2. ASSUME NEW b \in Blocks \ {Genesis}, Parent[b] \in S  PROVE b \in S
  BY <1>2, ParentChain
<1> HIDE DEF S
<1>3. S \in SUBSET Blocks
  BY DEF S
<1>4. S = Blocks
  BY <1>1, <1>2, <1>3, TreeInduction
<1> QED  BY <1>4 DEF S

\* The blocks of a chain above one of its blocks are the higher ones.
LEMMA AboveIsHigher ==
  ASSUME NEW b \in Blocks, NEW p \in Chain[b], NEW c \in Above(p, b)
  PROVE  /\ c \in Blocks /\ c # Genesis /\ Height(p) < Height(c) /\ p \in Chain[Parent[c]]
         /\ Parent[c] \in Chain[b]
         /\ Parent[c] = p \/ Parent[c] \in Above(p, b)
<1>1. p \in Blocks /\ c \in Blocks /\ c \in Chain[b] /\ c \notin Chain[p]
  BY ChainIsFinite DEF Above
<1>2. p \in Chain[c] /\ p # c
  BY <1>1, ChainIsLinear, ChainIsFinite
<1>3. c # Genesis /\ p \in Chain[Parent[c]] /\ Height(p) < Height(c)
  BY <1>1, <1>2, Ancestors
<1>4. Parent[c] \in Blocks /\ Parent[c] \in Chain[c] /\ Parent[c] \in Chain[b]
  BY <1>1, <1>3, ParentChain, ChainIsFinite, ChainTransitive
<1>5. ASSUME Parent[c] \in Chain[p], Parent[c] # p  PROVE FALSE
  <2>1. Height(Parent[c]) < Height(p) /\ Height(p) <= Height(Parent[c])
    BY <1>1, <1>3, <1>4, <1>5, Ancestors
  <2> QED  BY <2>1, <1>1, <1>4, Heights
<1> QED  BY <1>1, <1>3, <1>4, <1>5 DEF Above

-------------------------------------------------------------------------------
(* The roots that the chains give. *)

LEMMA Empty ==
  ASSUME NEW a \in Seq(Tx)
  PROVE  /\ a \o <<>> = a /\ <<>> \o a = a /\ SubSeq(a, 1, 0) = <<>>
         /\ SubSeq(a, 1, Len(a)) = a
BY ConcatEmptySeq, SubSeqEmpty, SubSeqFull

LEMMA Associates ==
  ASSUME NEW a \in Seq(Tx), NEW b \in Seq(Tx), NEW c \in Seq(Tx)
  PROVE  (a \o b) \o c = a \o (b \o c)
<1>1. /\ a \o b \in Seq(Tx) /\ b \o c \in Seq(Tx)
      /\ (a \o b) \o c \in Seq(Tx) /\ a \o (b \o c) \in Seq(Tx)
  BY ConcatProperties
<1> QED  BY <1>1, ConcatAssociative

LEMMA Joined ==
  ASSUME NEW a \in Seq(Tx), NEW b \in Seq(Tx)
  PROVE  /\ a \o b \in Seq(Tx) /\ Len(a) \in Nat /\ Len(a) <= Len(a \o b)
         /\ ToSet(a \o b) = ToSet(a) \cup ToSet(b)
<1>1. /\ a \o b \in Seq(Tx) /\ Len(a \o b) = Len(a) + Len(b)
      /\ Len(a) \in Nat /\ Len(b) \in Nat
      /\ \A i \in 1 .. Len(a) + Len(b) :
           (a \o b)[i] = IF i <= Len(a) THEN a[i] ELSE b[i - Len(a)]
  BY ConcatProperties, LenProperties
<1>2. /\ ToSet(a \o b) = {(a \o b)[i] : i \in 1 .. Len(a) + Len(b)}
      /\ ToSet(a) = {a[i] : i \in 1 .. Len(a)} /\ ToSet(b) = {b[i] : i \in 1 .. Len(b)}
  BY <1>1, LenProperties DEF ToSet
<1>3. ASSUME NEW i \in 1 .. Len(a)  PROVE a[i] \in ToSet(a \o b)
  BY <1>1, <1>2
<1>4. ASSUME NEW i \in 1 .. Len(b)  PROVE b[i] \in ToSet(a \o b)
  <2>1. i + Len(a) \in 1 .. Len(a) + Len(b) /\ ~(i + Len(a) <= Len(a))
        /\ (i + Len(a)) - Len(a) = i
    BY <1>1
  <2>2. (a \o b)[i + Len(a)] = b[i]
    BY <1>1, <2>1
  <2> QED  BY <1>2, <2>1, <2>2
<1>5. ASSUME NEW i \in 1 .. Len(a) + Len(b)  PROVE (a \o b)[i] \in ToSet(a) \cup ToSet(b)
  <2>1. (a \o b)[i] = IF i <= Len(a) THEN a[i] ELSE b[i - Len(a)]
    BY <1>1
  <2>2. i <= Len(a) => i \in 1 .. Len(a)
    BY <1>1
  <2>3. ~(i <= Len(a)) => i - Len(a) \in 1 .. Len(b)
    BY <1>1
  <2> QED  BY <1>2, <2>1, <2>2, <2>3
<1>6. ToSet(a \o b) \subseteq ToSet(a) \cup ToSet(b)
  BY <1>2, <1>5
<1>7. ToSet(a) \subseteq ToSet(a \o b)
  BY <1>2, <1>3
<1>8. ToSet(b) \subseteq ToSet(a \o b)
  BY <1>2, <1>4
<1>9. Len(a) <= Len(a \o b)
  BY <1>1
<1> QED  BY <1>1, <1>6, <1>7, <1>8, <1>9

\* What is behind a prefix.
LEMMA Rest ==
  ASSUME NEW a \in Seq(Tx), NEW b \in Seq(Tx)
  PROVE  SubSeq(a \o b, Len(a) + 1, Len(a \o b)) = b
<1>1. /\ a \o b \in Seq(Tx) /\ Len(a \o b) = Len(a) + Len(b)
      /\ Len(a) \in Nat /\ Len(b) \in Nat
      /\ \A i \in 1 .. Len(a) + Len(b) :
           (a \o b)[i] = IF i <= Len(a) THEN a[i] ELSE b[i - Len(a)]
  BY ConcatProperties, LenProperties
<1> DEFINE m == Len(a) + 1  n == Len(a) + Len(b)  s == a \o b
<1>2. m \in Int /\ n \in Int /\ n - m + 1 = Len(b)
  BY <1>1
<1>3. \A i \in m .. n : s[i] \in Tx
  BY <1>1, ElementOfSeq
<1>4. /\ SubSeq(s, m, n) \in Seq(Tx)
      /\ Len(SubSeq(s, m, n)) = IF m <= n THEN n - m + 1 ELSE 0
      /\ \A i \in 1 .. n - m + 1 : SubSeq(s, m, n)[i] = s[m + i - 1]
  <2> HIDE DEF m, n, s
  <2> QED  BY <1>2, <1>3, SubSeqProperties
<1>5. Len(SubSeq(s, m, n)) = Len(b)
  BY <1>1, <1>4
<1>6. ASSUME NEW i \in 1 .. Len(SubSeq(s, m, n))  PROVE SubSeq(s, m, n)[i] = b[i]
  <2>1. SubSeq(s, m, n)[i] = s[m + i - 1]
    BY <1>2, <1>4, <1>5
  <2>2. m + i - 1 = Len(a) + i /\ Len(a) + i \in 1 .. Len(a) + Len(b)
        /\ ~(Len(a) + i <= Len(a)) /\ (Len(a) + i) - Len(a) = i
    BY <1>1, <1>5
  <2> QED  BY <1>1, <2>1, <2>2
<1>7. SubSeq(s, m, n) = b
  <2> HIDE DEF m, n, s
  <2> QED  BY <1>4, <1>5, <1>6, SeqEqual
<1> QED  BY <1>1, <1>7

LEMMA RootsAreSequences ==
  ASSUME NEW b \in Blocks
  PROVE  /\ RootAfter[b] \in Seq(Tx) /\ Contracts[b] \in Seq(Tx)
         /\ ToSet(Contracts[b]) \subseteq Tx
         /\ b # Genesis => RootAfter[b] = RootAfter[Parent[b]] \o Contracts[b]
<1>1. RootAfter[b] \in Seq(Tx) /\ Contracts[b] \in Seq(Tx)
  BY RootAssumption
<1>2. ToSet(Contracts[b]) \subseteq Tx
  BY <1>1, LenProperties, ElementOfSeq DEF ToSet
<1>3. b # Genesis => RootAfter[b] = RootAfter[Parent[b]] \o Contracts[b]
  BY RootAssumption
<1> QED  BY <1>1, <1>2, <1>3

\* The root of a block is that of an ancestor and what the blocks between execute.
LEMMA RootsExtend ==
  ASSUME NEW b \in Blocks, NEW p \in Chain[b]
  PROVE  /\ Executed(p, b) \in Seq(Tx)
         /\ RootAfter[b] = RootAfter[p] \o Executed(p, b)
<1> DEFINE S == {a \in Blocks :
                   \A e \in Chain[a] : \E s \in Seq(Tx) : RootAfter[a] = RootAfter[e] \o s}
<1>1. ASSUME NEW a \in Blocks  PROVE RootAfter[a] = RootAfter[a] \o <<>> /\ <<>> \in Seq(Tx)
  BY RootsAreSequences, Empty, EmptySeq
<1>2. Genesis \in S
  BY <1>1, TreeAssumption
<1>3. ASSUME NEW a \in Blocks \ {Genesis}, Parent[a] \in S  PROVE a \in S
  <2>1. ASSUME NEW e \in Chain[a]  PROVE \E s \in Seq(Tx) : RootAfter[a] = RootAfter[e] \o s
    <3>1. CASE e = a
      BY <1>1, <3>1
    <3>2. CASE e # a
      <4>1. e \in Chain[Parent[a]] /\ e \in Blocks /\ Parent[a] \in Blocks
        BY <3>2, ParentChain, ChainIsFinite
      <4>2. PICK s \in Seq(Tx) : RootAfter[Parent[a]] = RootAfter[e] \o s
        BY <1>3, <4>1
      <4>3. /\ RootAfter[a] = RootAfter[Parent[a]] \o Contracts[a]
            /\ RootAfter[e] \in Seq(Tx) /\ Contracts[a] \in Seq(Tx)
        BY <4>1, RootsAreSequences
      <4>6. s \in Seq(Tx)
        BY <4>2
      <4>4. (RootAfter[e] \o s) \o Contracts[a] = RootAfter[e] \o (s \o Contracts[a])
        BY <4>3, <4>6, Associates
      <4>5. s \o Contracts[a] \in Seq(Tx)
        BY <4>2, <4>3, ConcatProperties
      <4> QED  BY <4>2, <4>3, <4>4, <4>5
    <3> QED  BY <3>1, <3>2
  <2> QED  BY <2>1
<1> HIDE DEF S
<1>4. S \in SUBSET Blocks
  BY DEF S
<1>5. S = Blocks
  BY <1>2, <1>3, <1>4, TreeInduction
<1>6. PICK s \in Seq(Tx) : RootAfter[b] = RootAfter[p] \o s
  BY <1>5 DEF S
<1>7. RootAfter[p] \in Seq(Tx)
  BY RootsAreSequences, ChainIsFinite
<1>8. Executed(p, b) = s
  BY <1>6, <1>7, Rest DEF Executed
<1> QED  BY <1>6, <1>8

\* The transactions of a root are those of the blocks of its chain.
LEMMA RootContents ==
  \A b \in Blocks : ToSet(RootAfter[b]) = UNION {ToSet(Contracts[c]) : c \in Chain[b]}
<1> DEFINE S == {b \in Blocks :
                   ToSet(RootAfter[b]) = UNION {ToSet(Contracts[c]) : c \in Chain[b]}}
<1>1. Genesis \in S
  <2>1. Contracts[Genesis] = <<>> /\ RootAfter[Genesis] = <<>> /\ Chain[Genesis] = {Genesis}
    BY TreeAssumption, RootAssumption, ContractAssumption DEF Default
  <2> QED  BY <2>1, TreeAssumption
<1>2. ASSUME NEW b \in Blocks \ {Genesis}, Parent[b] \in S  PROVE b \in S
  <2>1. /\ Parent[b] \in Blocks /\ Chain[b] = Chain[Parent[b]] \cup {b}
    BY ParentChain
  <2>2. ToSet(RootAfter[b]) = ToSet(RootAfter[Parent[b]]) \cup ToSet(Contracts[b])
    BY <2>1, RootsAreSequences, Joined
  <2>3. ToSet(RootAfter[Parent[b]]) = UNION {ToSet(Contracts[c]) : c \in Chain[Parent[b]]}
    BY <1>2
  <2> QED  BY <2>1, <2>2, <2>3
<1> HIDE DEF S
<1>3. S \in SUBSET Blocks
  BY DEF S
<1>4. S = Blocks
  BY <1>1, <1>2, <1>3, TreeInduction
<1> QED  BY <1>4 DEF S

-------------------------------------------------------------------------------
(* Chains that ConnectBlock accepts. *)

Clean(b) == Chain[b] \cap Faulty = {}

LEMMA CleanAncestors ==
  ASSUME NEW b \in Blocks, Clean(b), NEW c \in Chain[b]
  PROVE  c \in Blocks /\ Clean(c) /\ c \notin Faulty
BY ChainTransitive, ChainIsFinite DEF Clean

\* Before the contract version there are no contracts.
LEMMA NoContractsBefore ==
  ASSUME NEW b \in Blocks, Clean(b), b \notin Enabled
  PROVE  /\ RootAfter[b] = Default
         /\ \A c \in Chain[b] : c \notin Enabled /\ Contracts[c] = <<>>
<1> DEFINE S == {a \in Blocks : Clean(a) /\ a \notin Enabled =>
                   /\ RootAfter[a] = Default
                   /\ \A c \in Chain[a] : c \notin Enabled /\ Contracts[c] = <<>>}
<1>1. Genesis \in S
  BY TreeAssumption, RootAssumption, ContractAssumption
<1>2. ASSUME NEW a \in Blocks \ {Genesis}, Parent[a] \in S  PROVE a \in S
  <2> SUFFICES ASSUME Clean(a), a \notin Enabled
               PROVE  /\ RootAfter[a] = Default
                      /\ \A c \in Chain[a] : c \notin Enabled /\ Contracts[c] = <<>>
    OBVIOUS
  <2>1. Parent[a] \in Blocks /\ Chain[a] = Chain[Parent[a]] \cup {a}
    BY ParentChain
  <2>2. a \notin Faulty /\ Clean(Parent[a])
    BY <2>1 DEF Clean
  <2>3. Parent[a] \notin Enabled /\ Contracts[a] = <<>>
    BY <2>2, ContractAssumption
  <2>4. RootAfter[Parent[a]] = Default
    BY <1>2, <2>2, <2>3
  <2>5. RootAfter[a] = RootAfter[Parent[a]] \o Contracts[a] /\ RootAfter[Parent[a]] \in Seq(Tx)
    BY <2>1, RootsAreSequences
  <2>6. RootAfter[a] = Default
    BY <2>3, <2>4, <2>5, Empty
  <2> QED  BY <1>2, <2>1, <2>2, <2>3, <2>6
<1> HIDE DEF S
<1>3. S \in SUBSET Blocks
  BY DEF S
<1>4. S = Blocks
  BY <1>1, <1>2, <1>3, TreeInduction
<1> QED  BY <1>4 DEF S

\* A block without contract transactions leaves the root.
LEMMA EmptyBlock ==
  ASSUME NEW b \in Blocks \ {Genesis}, Contracts[b] = <<>>
  PROVE  RootAfter[b] = RootAfter[Parent[b]]
BY RootsAreSequences, Empty, ParentChain

\* GetVMState gives the root of the block, or the block has the default root, and so
\* has a block on it.
LEMMA RecordedRoots ==
  ASSUME NEW b \in Blocks, Clean(b)
  PROVE  /\ Recorded[b] # Null => Recorded[b] = RootAfter[b]
         /\ Recorded[b] = Null => RootAfter[b] = Default
         /\ b # Genesis /\ Recorded[Parent[b]] = Null => Contracts[b] = <<>>
<1>1. RootAfter[b] # Null
  BY RootAssumption
<1>2. Recorded[b] = IF b \notin Enabled \/ First(b) THEN Null ELSE RootAfter[b]
  BY DEF Recorded
<1>3. ASSUME First(b)  PROVE RootAfter[b] = Default
  <2>1. b # Genesis /\ b \notin Faulty
    BY <1>3, ContractAssumption, ChainIsFinite DEF First, Clean
  <2>2. Parent[b] \in Blocks /\ Parent[b] \in Chain[b]
    BY <2>1, ParentChain, ChainIsFinite
  <2>3. RootAfter[Parent[b]] = Default
    BY <1>3, <2>2, CleanAncestors, NoContractsBefore DEF First
  <2>4. Contracts[b] = <<>>
    BY <1>3, <2>1, ContractAssumption
  <2> QED  BY <2>1, <2>3, <2>4, EmptyBlock
<1>4. ASSUME b # Genesis, Recorded[Parent[b]] = Null  PROVE Contracts[b] = <<>>
  <2>1. Parent[b] \in Blocks /\ b \notin Faulty
    BY <1>4, ParentChain, ChainIsFinite DEF Clean
  <2>2. Parent[b] \notin Enabled \/ First(Parent[b])
    BY <1>4, <2>1, RootAssumption DEF Recorded
  <2>3. CASE First(Parent[b])
    BY <1>4, <2>1, <2>3, ContractAssumption
  <2>4. CASE Parent[b] \notin Enabled
    BY <1>4, <2>1, <2>4, ContractAssumption DEF First
  <2> QED  BY <2>2, <2>3, <2>4
<1>5. ASSUME b \notin Enabled  PROVE RootAfter[b] = Default
  BY <1>5, NoContractsBefore
<1> QED  BY <1>1, <1>2, <1>3, <1>4, <1>5

\* A transaction is in one block of a chain.
LEMMA OnceInChain ==
  ASSUME NEW b \in Blocks, Clean(b), NEW c \in Chain[b], NEW d \in Chain[b],
         NEW t \in ToSet(Contracts[c]), t \in ToSet(Contracts[d])
  PROVE  c = d
<1>1. ASSUME NEW e \in Chain[b], NEW f \in Chain[e], f # e,
             t \in ToSet(Contracts[e]), t \in ToSet(Contracts[f])
      PROVE  FALSE
  <2>1. e \in Blocks /\ e \notin Faulty /\ e # Genesis /\ f \in Chain[Parent[e]]
    BY <1>1, CleanAncestors, Ancestors
  <2>2. ToSet(Contracts[e]) \cap ToSet(Contracts[f]) = {}
    BY <2>1, ContractAssumption
  <2> QED  BY <1>1, <2>2
<1>2. c \in Chain[d] \/ d \in Chain[c]
  BY ChainIsLinear
<1> QED  BY <1>1, <1>2

\* VerifyDB's disconnections down to an ancestor give the ancestor's root: when that
\* block records none, its root is the default one, and so is that of the lowest block
\* above it that records one.
LEMMA DisconnectedRoots ==
  ASSUME NEW b \in Blocks, Clean(b), NEW p \in Chain[b]
  PROVE  Disconnected(p, b) = RootAfter[p]
<1> DEFINE C == {p} \cup Above(p, b)
           R == {c \in C : Recorded[c] # Null}
           m == CHOOSE c \in R : \A d \in R : Height(c) <= Height(d)
<1>1. \A c \in C : c \in Blocks /\ c \in Chain[b] /\ Clean(c) /\ Height(c) \in Nat
  BY CleanAncestors, Heights DEF Above
<1>2. Disconnected(p, b) = IF R = {} THEN Default ELSE Recorded[m]
  BY DEF Disconnected
<1>3. \A c \in C : /\ Recorded[c] # Null => Recorded[c] = RootAfter[c]
                   /\ Recorded[c] = Null => RootAfter[c] = Default
  BY <1>1, RecordedRoots
<1>4. CASE R = {}
  BY <1>2, <1>3, <1>4
<1>5. CASE R # {}
  <2>1. \E c \in R : \A d \in R : Height(c) <= Height(d)
    <3> DEFINE T == {Height(d) : d \in R}
    <3>1. T \in SUBSET Nat /\ T # {}
      BY <1>1, <1>5
    <3> HIDE DEF T
    <3>2. PICK n \in T : \A i \in T : n <= i
      BY <3>1, LeastNatural
    <3> QED  BY <3>2 DEF T
  <2>2. m \in R /\ \A d \in R : Height(m) <= Height(d)
    <3> HIDE DEF R
    <3> QED  BY <2>1
  <2> HIDE DEF m
  <2>3. m \in C /\ Disconnected(p, b) = RootAfter[m]
    BY <1>2, <1>3, <1>5, <2>2
  <2>4. ASSUME m # p  PROVE RootAfter[m] = RootAfter[p]
    <3>1. m \in Above(p, b)
      BY <2>3, <2>4
    <3>2. /\ m \in Blocks \ {Genesis} /\ Height(p) < Height(m)
          /\ Parent[m] \in C /\ Height(Parent[m]) < Height(m)
      <4>1. m \in Blocks /\ m # Genesis /\ Height(p) < Height(m)
            /\ (Parent[m] = p \/ Parent[m] \in Above(p, b))
        BY <3>1, AboveIsHigher
      <4>2. Height(m) = Height(Parent[m]) + 1 /\ Height(Parent[m]) \in Nat
        BY <4>1, Heights, ParentChain
      <4> QED  BY <4>1, <4>2
    <3>3. \A c \in C : Height(c) < Height(m) => c \notin R
      <4>1. \A c \in C : Height(c) \in Nat
        BY <1>1
      <4>2. Height(m) \in Nat
        BY <1>1, <2>3
      <4> HIDE DEF C, R
      <4> QED  BY <2>2, <4>1, <4>2
    <3>4. Recorded[p] = Null /\ Recorded[Parent[m]] = Null
      BY <3>2, <3>3
    <3>5. RootAfter[p] = Default /\ RootAfter[Parent[m]] = Default
      BY <1>3, <3>2, <3>4
    <3>6. Contracts[m] = <<>>
      BY <1>1, <2>3, <3>2, <3>4, RecordedRoots
    <3>7. RootAfter[m] = RootAfter[Parent[m]]
      BY <3>2, <3>6, EmptyBlock
    <3> QED  BY <3>5, <3>7
  <2> QED  BY <2>3, <2>4
<1> QED  BY <1>4, <1>5

\* Wherever VerifyDB stops, the blocks executed again give the root of the tip.
LEMMA ExecutedAgain ==
  ASSUME NEW b \in Blocks, Clean(b), NEW p \in Chain[b]
  PROVE  Disconnected(p, b) \o Executed(p, b) = RootAfter[b]
BY DisconnectedRoots, RootsExtend

-------------------------------------------------------------------------------
(* The inductive invariant. *)

\* The block whose state the roots and receipts have: DisconnectBlock has taken the
\* tip's back before the tip changes.
Standing == IF busy.step = "disconnect" THEN Parent[tip] ELSE tip

\* The transactions executed of the block that is being connected.
Pending ==
  IF busy.step = "connect" THEN {Contracts[busy.block][i] : i \in 1 .. busy.done} ELSE {}

Held(t) == \E b \in Chain[Standing] : t \in ToSet(Contracts[b])

\* The coins on disk are never ahead, and no block of the chain is faulty.
ChainFits ==
  /\ best \in Chain[tip]
  /\ Clean(tip)
  /\ busy.step = "connect" =>
       /\ busy.block \in Blocks \ {Genesis} /\ Parent[busy.block] = tip
       /\ busy.done <= Len(Contracts[busy.block])
  /\ busy.step = "disconnect" => tip # Genesis

Undisturbed == up /\ FirstWasFine /\ spent["overtaken"] = 0

RootsFit ==
  Undisturbed =>
    /\ busy.step # "connect" => roots = RootAfter[Standing]
    /\ busy.step = "connect" =>
         /\ roots = RootAfter[tip] \o SubSeq(Contracts[busy.block], 1, busy.done)
         /\ busy.saved = IF tip \in Enabled THEN RootAfter[tip] ELSE Null

\* What ReceiptsSurvive needs between the steps: the receipts that a commit is to
\* write are in memory.
ReceiptsKept ==
  up =>
    /\ \A b \in Chain[Standing] : \A t \in ToSet(Contracts[b]) :
         db[t] # None /\ <<Height(b), t>> \in index
    /\ \A t \in Pending : cache[t] # None

\* No template and no crash yet.
Plain == up /\ FirstWasFine /\ spent["template"] = 0 /\ spent["crash"] = 0

\* A receipt in memory is of the block in the chain that holds its transaction, or of
\* the one being connected.
CacheFits ==
  \A t \in Tx : \/ cache[t] = None
                \/ \E b \in Chain[Standing] : t \in ToSet(Contracts[b]) /\ cache[t] = b
                \/ t \in Pending /\ cache[t] = busy.block

ReceiptsFit ==
  Plain =>
    /\ ~miner.on
    /\ \A b \in Chain[Standing] : \A t \in ToSet(Contracts[b]) : db[t] = b
    /\ \A t \in Tx : ~Held(t) => db[t] = None
    /\ CacheFits
    /\ index = UNION {Indexed(b) : b \in Chain[Standing]}

Inv == TypeOK /\ ChainFits

LEMMA Spends ==
  ASSUME TypeOK, NEW E, SpendAll(E)
  PROVE  /\ spent' \in [Rare -> Nat]
         /\ \A e \in Rare : spent'[e] = 0 => spent[e] = 0 /\ e \notin E
BY DEF TypeOK, SpendAll

LEMMA TypeInit == Init => Inv
<1> SUFFICES ASSUME Init  PROVE Inv
  OBVIOUS
<1>1. Genesis \in Blocks /\ Chain[Genesis] = {Genesis} /\ Genesis \notin Faulty
  BY TreeAssumption, ContractAssumption
<1>2. <<>> \in Seq(Tx)
  BY EmptySeq
<1>3. NoReceipts \in [Tx -> Blocks \cup {None, Template}]
  BY DEF NoReceipts
<1>4. Idle \in [step : {"idle", "connect", "disconnect"}, block : Blocks \cup {None},
                done : Nat, saved : Seq(Tx) \cup {Null}]
  BY DEF Idle
<1>5. Resting \in [on : BOOLEAN, old : Seq(Tx) \cup {Null}]
  BY DEF Resting
<1>6. TypeOK
  BY <1>1, <1>2, <1>3, <1>4, <1>5 DEF Init, TypeOK, Default
<1>7. ChainFits
  BY <1>1 DEF Init, ChainFits, Clean, Idle
<1> QED  BY <1>6, <1>7 DEF Inv

\* A start sets the roots of the block it starts at, or fails.
LEMMA StartCases ==
  ASSUME Inv, NEW b \in Chain[tip], StartAt(b)
  PROVE  /\ b \in Blocks /\ Clean(b)
         /\ tip' = b /\ best' = b /\ busy' = Idle /\ miner' = Resting /\ cache' = NoReceipts
         /\ \/ up' = FALSE /\ UNCHANGED <<roots, db, index>>
            \/ /\ up' = TRUE /\ roots' = RootAfter[b]
               /\ \E p \in Chain[b] : (p = b => b = Genesis) /\ Verified(p, b)
<1>1. b \in Blocks /\ Clean(b)
  BY CleanAncestors DEF Inv, TypeOK, ChainFits
<1>2. tip' = b /\ best' = b /\ busy' = Idle /\ miner' = Resting /\ cache' = NoReceipts
  BY DEF StartAt
<1>3. \/ up' = FALSE /\ UNCHANGED <<roots, db, index>>
      \/ up' = TRUE /\ \E p \in Chain[b] : (p = b => b = Genesis) /\ Verified(p, b)
  BY <1>1, ChainIsFinite DEF StartAt
<1>4. ASSUME NEW p \in Chain[b], Verified(p, b)  PROVE roots' = RootAfter[b]
  BY <1>1, <1>4, ExecutedAgain DEF Verified
<1> QED  BY <1>1, <1>2, <1>3, <1>4

\* The state after a start, without the count of the events.
LEMMA StartFits ==
  ASSUME Inv, NEW b \in Chain[tip], StartAt(b), spent' \in [Rare -> Nat]
  PROVE  Inv'
<1>1. /\ b \in Blocks /\ Clean(b)
      /\ tip' = b /\ best' = b /\ busy' = Idle /\ miner' = Resting /\ cache' = NoReceipts
      /\ \/ up' = FALSE /\ UNCHANGED <<roots, db, index>>
         \/ /\ up' = TRUE /\ roots' = RootAfter[b]
            /\ \E p \in Chain[b] : (p = b => b = Genesis) /\ Verified(p, b)
  BY StartCases
<1>2. roots' \in Seq(Tx) /\ up' \in BOOLEAN
  <2>1. RootAfter[b] \in Seq(Tx)
    BY <1>1, RootsAreSequences
  <2>2. roots \in Seq(Tx)
    BY DEF Inv, TypeOK
  <2> QED  BY <1>1, <2>1, <2>2
<1>3. ASSUME NEW p \in Chain[b], Verified(p, b)
      PROVE  db' \in [Tx -> Blocks \cup {None, Template}] /\ index' \in SUBSET (Nat \X Tx)
  <2>1. \A c \in Above(p, b) : c \in Blocks
    BY <1>1, ChainIsFinite DEF Above
  <2>2. ASSUME NEW c \in Above(p, b)  PROVE Indexed(c) \in SUBSET (Nat \X Tx)
    <3>1. Height(c) \in Nat /\ ToSet(Contracts[c]) \subseteq Tx
      BY <2>1, Heights, RootsAreSequences
    <3> QED  BY <3>1 DEF Indexed
  <2>3. index' \in SUBSET (Nat \X Tx)
    <3> DEFINE U == UNION {Indexed(c) : c \in Above(p, b)}
    <3>1. U \in SUBSET (Nat \X Tx)
      BY <2>2
    <3>2. index' = index \cup U
      BY <1>3 DEF Verified
    <3> HIDE DEF U
    <3> QED  BY <3>1, <3>2 DEF Inv, TypeOK
  <2>4. ASSUME NEW of \in SUBSET Above(p, b), of # {}  PROVE (CHOOSE c \in of : TRUE) \in Blocks
    BY <2>1, <2>4
  <2>5. db' \in [Tx -> Blocks \cup {None, Template}]
    <3>1. CASE b \notin Enabled
      BY <1>3, <3>1 DEF Inv, TypeOK, Verified
    <3>2. CASE b \in Enabled
      <4> DEFINE of(t) == {c \in Above(p, b) : t \in ToSet(Contracts[c])}
      <4>1. db' = [t \in Tx |-> IF db[t] # None \/ of(t) = {} THEN db[t]
                                ELSE CHOOSE c \in of(t) : TRUE]
        BY <1>3, <3>2 DEF Verified
      <4>2. \A t \in Tx : of(t) \in SUBSET Above(p, b)
        OBVIOUS
      <4> HIDE DEF of
      <4>3. \A t \in Tx : db[t] \in Blocks \cup {None, Template}
        BY DEF Inv, TypeOK
      <4> QED  BY <2>4, <4>1, <4>2, <4>3
    <3> QED  BY <3>1, <3>2
  <2> QED  BY <2>3, <2>5
<1>4. db' \in [Tx -> Blocks \cup {None, Template}] /\ index' \in SUBSET (Nat \X Tx)
  BY <1>1, <1>3 DEF Inv, TypeOK
<1>5. NoReceipts \in [Tx -> Blocks \cup {None, Template}]
  BY DEF NoReceipts
<1>6. Idle \in [step : {"idle", "connect", "disconnect"}, block : Blocks \cup {None},
                done : Nat, saved : Seq(Tx) \cup {Null}]
  BY DEF Idle
<1>7. Resting \in [on : BOOLEAN, old : Seq(Tx) \cup {Null}]
  BY DEF Resting
<1>8. TypeOK'
  BY <1>1, <1>2, <1>4, <1>5, <1>6, <1>7 DEF TypeOK
<1>9. ChainFits'
  BY <1>1, ChainIsFinite DEF ChainFits, Clean, Idle
<1> QED  BY <1>8, <1>9 DEF Inv

\* What the operations leave in the receipts.
LEMMA ReceiptTypes ==
  ASSUME TypeOK, NEW E \in [Tx -> Blocks \cup {None, Template}]
  PROVE  /\ NoReceipts \in [Tx -> Blocks \cup {None, Template}]
         /\ Cleared \in [Tx -> Blocks \cup {None, Template}]
         /\ Stored(E) \in [Tx -> Blocks \cup {None, Template}]
         /\ \A b : Without(E, b) \in [Tx -> Blocks \cup {None, Template}]
         /\ \A t : \A b \in Blocks \cup {Template} :
              Added(E, t, b) \in [Tx -> Blocks \cup {None, Template}]
         /\ \A txs : AddedAll(E, txs, Template) \in [Tx -> Blocks \cup {None, Template}]
<1>1. NoReceipts \in [Tx -> Blocks \cup {None, Template}]
  BY DEF NoReceipts
<1>2. Cleared \in [Tx -> Blocks \cup {None, Template}]
  BY <1>1 DEF Cleared, TypeOK
<1>3. Stored(E) \in [Tx -> Blocks \cup {None, Template}]
  BY DEF Stored, TypeOK
<1>4. ASSUME NEW b  PROVE Without(E, b) \in [Tx -> Blocks \cup {None, Template}]
  BY DEF Without
<1>5. ASSUME NEW t, NEW b \in Blocks \cup {Template}
      PROVE  Added(E, t, b) \in [Tx -> Blocks \cup {None, Template}]
  BY DEF Added
<1>6. ASSUME NEW txs  PROVE AddedAll(E, txs, Template) \in [Tx -> Blocks \cup {None, Template}]
  <2>1. \A t \in Tx : Added(E, t, Template)[t] \in Blocks \cup {None, Template}
    BY <1>5
  <2> HIDE DEF Added
  <2> QED  BY <2>1 DEF AddedAll
<1> QED  BY <1>1, <1>2, <1>3, <1>4, <1>5, <1>6

\* A template has one transaction of the pool or none.
LEMMA TemplateSequences ==
  ASSUME TypeOK, NEW txs \in TemplateTxs
  PROVE  txs \in Seq(Tx) /\ (miner.old = Null => txs = <<>>)
<1>1. txs = <<>> \/ \E t \in Tx : txs = <<t>>
  BY DEF TemplateTxs
<1>2. \A t \in Tx : <<t>> \in Seq(Tx)
  OBVIOUS
<1>3. miner.old = Null => txs = <<>>
  BY DEF TemplateTxs
<1> QED  BY <1>1, <1>2, <1>3, EmptySeq

\* Whatever the miner does with the roots, they are those of executed transactions.
LEMMA TemplateRoots ==
  ASSUME Inv, NEW txs \in TemplateTxs, TemplateFails(txs) \/ TemplatePasses(txs)
  PROVE  /\ roots' \in Seq(Tx)
         /\ cache' \in [Tx -> Blocks \cup {None, Template}]
         /\ spent' \in [Rare -> Nat]
<1>1. TypeOK /\ tip \in Blocks /\ roots \in Seq(Tx) /\ miner.old \in Seq(Tx) \cup {Null}
      /\ cache \in [Tx -> Blocks \cup {None, Template}]
  BY DEF Inv, TypeOK
<1>2. txs \in Seq(Tx)
  BY <1>1, TemplateSequences
<1>3. ASSUME NEW from \in Seq(Tx), NEW to \in Seq(Tx) \cup {Null}
      PROVE  Updated(from, to) \in Seq(Tx)
  BY DEF Updated
<1>4. roots \o txs \in Seq(Tx)
  BY <1>1, <1>2, ConcatProperties
<1>5. Offered(txs) \in Seq(Tx)
  BY <1>1, <1>3, <1>4 DEF Offered
<1>6. ASSUME NEW s \in Seq(Tx)  PROVE Offered(txs) \o s \in Seq(Tx)
  BY <1>5, ConcatProperties
<1>7. ASSUME NEW n \in 0 .. Len(txs)  PROVE SubSeq(txs, 1, n) \in Seq(Tx)
  <2>1. \A i \in 1 .. n : txs[i] \in Tx
    BY <1>2, ElementOfSeq, LenProperties
  <2>2. 1 \in Int /\ n \in Int
    BY <1>2, LenProperties
  <2> QED  BY <2>1, <2>2, SubSeqProperties
<1>8. ASSUME TemplateFails(txs)
      PROVE  roots' \in Seq(Tx) /\ cache' \in [Tx -> Blocks \cup {None, Template}]
  <2>1. CASE roots' = Offered(txs) /\ cache' = cache
    BY <1>1, <1>5, <2>1
  <2>2. ASSUME NEW n \in 0 .. Len(txs),
               roots' = IF Active THEN Offered(txs) ELSE Offered(txs) \o SubSeq(txs, 1, n),
               cache' = IF Active THEN NoReceipts
                                  ELSE AddedAll(cache, SubSeq(txs, 1, n), Template)
        PROVE  roots' \in Seq(Tx) /\ cache' \in [Tx -> Blocks \cup {None, Template}]
    <3>1. Offered(txs) \o SubSeq(txs, 1, n) \in Seq(Tx)
      BY <1>6, <1>7
    <3>2. /\ NoReceipts \in [Tx -> Blocks \cup {None, Template}]
          /\ AddedAll(cache, SubSeq(txs, 1, n), Template) \in [Tx -> Blocks \cup {None, Template}]
      BY <1>1, ReceiptTypes
    <3>3. roots' \in Seq(Tx)
      BY <1>5, <2>2, <3>1
    <3>4. cache' \in [Tx -> Blocks \cup {None, Template}]
      BY <2>2, <3>2
    <3> QED  BY <3>3, <3>4
  <2> QED  BY <1>8, <2>1, <2>2 DEF TemplateFails
<1>9. ASSUME TemplatePasses(txs)
      PROVE  roots' \in Seq(Tx) /\ cache' \in [Tx -> Blocks \cup {None, Template}]
  <2>1. (IF Recorded[tip] = Null THEN Default ELSE Recorded[tip]) \in Seq(Tx)
    BY <1>1, EmptySeq, RootsAreSequences DEF Recorded, Default
  <2>2. Offered(txs) \o txs \in Seq(Tx)
    BY <1>2, <1>6
  <2>3. cache' = AddedAll(cache, txs, Template)
    BY <1>9 DEF TemplatePasses
  <2>4. cache' \in [Tx -> Blocks \cup {None, Template}]
    BY <1>1, <2>3, ReceiptTypes
  <2> DEFINE to == IF Recorded[tip] = Null THEN Default ELSE Recorded[tip]
  <2>5. roots' = Updated(Offered(txs) \o txs, to)
    BY <1>9 DEF TemplatePasses
  <2> HIDE DEF to
  <2>6. to \in Seq(Tx)
    BY <2>1 DEF to
  <2>7. roots' \in Seq(Tx)
    BY <1>3, <2>2, <2>5, <2>6
  <2> QED  BY <2>4, <2>7
<1>10. spent' \in [Rare -> Nat]
  <2>1. \E E : SpendAll(E)
    BY DEF TemplateFails, TemplatePasses
  <2> QED  BY <1>1, <2>1, Spends
<1> QED  BY <1>8, <1>9, <1>10

\* Types, and where the tip and the block being connected are, are kept by every step.
LEMMA InvStep ==
  ASSUME Inv, [Next]_vars
  PROVE  Inv'
<1> USE DEF Inv
<1> DEFINE Receipts == [Tx -> Blocks \cup {None, Template}]
           Jobs == [step : {"idle", "connect", "disconnect"}, block : Blocks \cup {None},
                    done : Nat, saved : Seq(Tx) \cup {Null}]
<1>1. TypeOK /\ ChainFits /\ tip \in Blocks /\ cache \in Receipts /\ db \in Receipts
      /\ roots \in Seq(Tx) /\ busy \in Jobs
  BY DEF TypeOK
<1>2. Idle \in Jobs /\ [Idle EXCEPT !.step = "disconnect"] \in Jobs
      /\ Resting \in [on : BOOLEAN, old : Seq(Tx) \cup {Null}]
      /\ State \in Seq(Tx) \cup {Null}
  BY <1>1 DEF Idle, Resting, State
<1> HIDE DEF Receipts, Jobs
<1>3. CASE UNCHANGED vars
  BY <1>3 DEF TypeOK, ChainFits, vars
<1>4. ASSUME NEW b \in Blocks, BeginConnect(b)  PROVE Inv'
  <2>1. busy' = [step |-> "connect", block |-> b, done |-> 0, saved |-> State]
        /\ b # Genesis /\ Parent[b] = tip
    BY <1>4 DEF BeginConnect
  <2>2. busy' \in Jobs
    BY <1>2, <2>1 DEF Jobs
  <2>3. TypeOK'
    BY <1>4, <2>2 DEF BeginConnect, TypeOK, Jobs
  <2>4. Len(Contracts[b]) \in Nat
    BY RootsAreSequences, LenProperties
  <2>5. ChainFits'
    BY <1>1, <1>4, <2>1, <2>4 DEF BeginConnect, ChainFits
  <2> QED  BY <2>3, <2>5
<1>5. CASE ContractTxConnectBlock
  <2>1. /\ busy.step = "connect" /\ busy.done < Len(Contracts[busy.block])
        /\ busy.block \in Blocks /\ busy.done \in Nat
    BY <1>1, <1>5 DEF ContractTxConnectBlock, ChainFits, Jobs
  <2> DEFINE t == Contracts[busy.block][busy.done + 1]
  <2>2. Contracts[busy.block] \in Seq(Tx) /\ Len(Contracts[busy.block]) \in Nat
    BY <2>1, RootsAreSequences, LenProperties
  <2>3. t \in Tx
    BY <2>1, <2>2, ElementOfSeq
  <2>4. /\ roots' = Append(roots, t) /\ cache' = Added(cache, t, busy.block)
        /\ busy' = [busy EXCEPT !.done = @ + 1]
        /\ UNCHANGED <<tip, best, db, index, miner, up, spent>>
    BY <1>5 DEF ContractTxConnectBlock
  <2> HIDE DEF t
  <2>5. roots' \in Seq(Tx) /\ cache' \in Receipts
    BY <1>1, <2>1, <2>3, <2>4, ReceiptTypes, AppendProperties DEF Receipts
  <2>6. /\ busy' \in Jobs /\ busy'.step = "connect" /\ busy'.block = busy.block
        /\ busy'.done = busy.done + 1 /\ busy'.done <= Len(Contracts[busy.block])
    BY <1>1, <2>1, <2>2, <2>4 DEF Jobs
  <2>7. TypeOK'
    BY <2>4, <2>5, <2>6 DEF TypeOK, Receipts, Jobs
  <2>8. ChainFits'
    BY <1>1, <2>1, <2>4, <2>6 DEF ChainFits
  <2> QED  BY <2>7, <2>8
<1>6. CASE RefuseBlock
  <2>1. roots' \in Seq(Tx)
    BY <1>1, <1>6 DEF RefuseBlock, Updated, Jobs
  <2>2. cache' \in Receipts
    BY <1>1, <1>6, ReceiptTypes DEF RefuseBlock, Receipts
  <2>3. \E E : SpendAll(E)
    BY <1>6 DEF RefuseBlock
  <2>4. spent' \in [Rare -> Nat]
    BY <1>1, <2>3, Spends
  <2>5. busy' = Idle /\ UNCHANGED <<tip, best, db, index, miner, up>>
    BY <1>6 DEF RefuseBlock
  <2>6. TypeOK'
    BY <1>2, <2>1, <2>2, <2>4, <2>5 DEF TypeOK, Receipts, Jobs
  <2>7. ChainFits'
    BY <1>1, <2>5 DEF ChainFits, Idle
  <2> QED  BY <2>6, <2>7
<1>7. CASE AcceptBlock
  <2>1. /\ busy.block \in Blocks \ {Genesis} /\ Parent[busy.block] = tip
        /\ busy.block \notin Faulty /\ Clean(tip) /\ best \in Chain[tip]
    BY <1>1, <1>7 DEF AcceptBlock, ChainFits
  <2>2. /\ tip' = busy.block /\ best' \in {best, busy.block} /\ busy' = Idle
        /\ index' = index \cup Indexed(busy.block) /\ cache' = Cleared
        /\ db' = IF Active THEN Stored(cache) ELSE db
        /\ UNCHANGED <<roots, miner, up, spent>>
    BY <1>7 DEF AcceptBlock
  <2>3. cache' \in Receipts /\ db' \in Receipts
    BY <1>1, <2>2, ReceiptTypes DEF Receipts
  <2>4. Height(busy.block) \in Nat /\ ToSet(Contracts[busy.block]) \subseteq Tx
    BY <2>1, Heights, RootsAreSequences
  <2>5. index' \in SUBSET (Nat \X Tx)
    BY <1>1, <2>2, <2>4 DEF TypeOK, Indexed
  <2>6. TypeOK'
    BY <1>1, <1>2, <2>1, <2>2, <2>3, <2>5 DEF TypeOK, Receipts, Jobs
  <2>7. Chain[busy.block] = Chain[tip] \cup {busy.block}
    BY <2>1, ParentChain
  <2>8. ChainFits'
    BY <2>1, <2>2, <2>7 DEF ChainFits, Clean, Idle
  <2> QED  BY <2>6, <2>8
<1>8. CASE DisconnectBlock
  <2>1. /\ tip # Genesis /\ roots' = Updated(roots, PreviousRoots(tip))
        /\ cache' = Without(cache, tip) /\ db' = Without(db, tip)
        /\ index' = Erased(Height(tip)) /\ busy' = [Idle EXCEPT !.step = "disconnect"]
        /\ UNCHANGED <<tip, best, miner, up, spent>>
    BY <1>8 DEF DisconnectBlock
  <2>2. PreviousRoots(tip) \in Seq(Tx) \cup {Null}
    BY <1>1, <2>1, ParentChain, RootsAreSequences DEF PreviousRoots, Recorded
  <2>3. roots' \in Seq(Tx)
    BY <1>1, <2>1, <2>2 DEF Updated
  <2>4. cache' \in Receipts /\ db' \in Receipts
    BY <1>1, <2>1, ReceiptTypes DEF Receipts
  <2>5. index' \in SUBSET (Nat \X Tx)
    BY <1>1, <2>1 DEF TypeOK, Erased
  <2>6. TypeOK'
    BY <1>1, <1>2, <2>1, <2>3, <2>4, <2>5 DEF TypeOK, Receipts, Jobs
  <2>7. ChainFits'
    BY <1>1, <2>1 DEF ChainFits, Idle
  <2> QED  BY <2>6, <2>7
<1>9. CASE EndDisconnect
  <2>1. /\ tip # Genesis /\ tip' = Parent[tip] /\ best' = Parent[tip] /\ busy' = Idle
        /\ UNCHANGED <<roots, cache, db, index, miner, up, spent>>
    BY <1>1, <1>9 DEF EndDisconnect, ChainFits
  <2>2. /\ Parent[tip] \in Blocks /\ Parent[tip] \in Chain[Parent[tip]]
        /\ Parent[tip] \in Chain[tip] /\ Clean(Parent[tip])
    BY <1>1, <2>1, ParentChain, ChainIsFinite, CleanAncestors DEF ChainFits
  <2>3. TypeOK'
    BY <1>1, <1>2, <2>1, <2>2 DEF TypeOK, Jobs
  <2>4. ChainFits'
    BY <2>1, <2>2 DEF ChainFits, Idle
  <2> QED  BY <2>3, <2>4
<1>10. CASE Flush
  BY <1>1, <1>10, ChainIsFinite DEF Flush, TypeOK, ChainFits
<1>11. ASSUME NEW t \in Tx, GetResult(t)  PROVE Inv'
  <2>1. cache' \in Receipts
    BY <1>1, <1>11 DEF GetResult, Receipts
  <2>2. UNCHANGED <<tip, best, roots, db, index, busy, miner, up, spent>>
    BY <1>11 DEF GetResult
  <2>3. TypeOK'
    BY <1>1, <2>1, <2>2 DEF TypeOK, Receipts
  <2>4. ChainFits'
    BY <1>1, <2>2 DEF ChainFits
  <2> QED  BY <2>3, <2>4
<1>12. CASE BeginTemplate
  <2>1. /\ miner' = [on |-> TRUE, old |-> State] /\ SpendAll({"template"})
        /\ UNCHANGED <<tip, best, roots, cache, db, index, busy, up>>
    BY <1>12 DEF BeginTemplate
  <2>2. spent' \in [Rare -> Nat]
    BY <1>1, <2>1, Spends
  <2>3. miner' \in [on : BOOLEAN, old : Seq(Tx) \cup {Null}]
    BY <1>2, <2>1
  <2>4. TypeOK'
    BY <1>1, <2>1, <2>2, <2>3 DEF TypeOK
  <2>5. ChainFits'
    BY <1>1, <2>1 DEF ChainFits
  <2> QED  BY <2>4, <2>5
<1>13. CASE EndTemplate
  <2>1. PICK txs \in TemplateTxs : TemplateFails(txs) \/ TemplatePasses(txs)
    BY <1>13 DEF EndTemplate
  <2>2. roots' \in Seq(Tx) /\ cache' \in Receipts /\ spent' \in [Rare -> Nat]
    BY <2>1, TemplateRoots DEF Receipts
  <2>3. miner' = Resting /\ UNCHANGED <<tip, best, db, index, busy, up>>
    BY <1>13 DEF EndTemplate
  <2>4. TypeOK'
    BY <1>1, <1>2, <2>2, <2>3 DEF TypeOK, Receipts
  <2>5. ChainFits'
    BY <1>1, <2>3 DEF ChainFits
  <2> QED  BY <2>4, <2>5
<1>14. CASE Stop
  <2>1. StartAt(tip) /\ SpendAll({"stop"}) /\ tip \in Chain[tip]
    BY <1>1, <1>14, ChainIsFinite DEF Stop
  <2>2. spent' \in [Rare -> Nat]
    BY <1>1, <2>1, Spends
  <2> QED  BY <2>1, <2>2, StartFits
<1>15. CASE Crash
  <2>1. StartAt(best) /\ SpendAll({"crash"}) /\ best \in Chain[tip]
    BY <1>1, <1>15 DEF Crash, ChainFits
  <2>2. spent' \in [Rare -> Nat]
    BY <1>1, <2>1, Spends
  <2> QED  BY <2>1, <2>2, StartFits
<1> QED
  BY <1>3, <1>4, <1>5, <1>6, <1>7, <1>8, <1>9, <1>10, <1>11, <1>12, <1>13, <1>14, <1>15
     DEF Next

\* TypeOK holds whatever chain, contracts and events there are: the thread that
\* connects is always at a block on the tip.
THEOREM TypeCorrect == Spec => []TypeOK
<1>1. Init => Inv
  BY TypeInit
<1>2. Inv /\ [Next]_vars => Inv'
  BY InvStep
<1>3. Inv => TypeOK
  BY DEF Inv
<1> QED  BY <1>1, <1>2, <1>3, PTL DEF Spec

-------------------------------------------------------------------------------
(* The roots. *)

LEMMA RootsInit == Init => RootsFit
<1> SUFFICES ASSUME Init  PROVE RootsFit
  OBVIOUS
<1>1. busy.step = "idle" /\ roots = RootAfter[tip]
  BY RootAssumption DEF Init, Idle
<1> QED  BY <1>1 DEF RootsFit, Standing

\* A template that the chain did not overtake leaves the roots as they were, or as
\* the tip records them.
LEMMA TemplateKeepsRoots ==
  ASSUME Inv, roots = RootAfter[tip], spent'["overtaken"] = 0,
         NEW txs \in TemplateTxs, TemplateFails(txs) \/ TemplatePasses(txs)
  PROVE  roots' = RootAfter[tip]
<1>1. /\ TypeOK /\ tip \in Blocks /\ Clean(tip) /\ txs \in Seq(Tx)
      /\ miner.old = Null => txs = <<>>
  BY TemplateSequences DEF Inv, TypeOK, ChainFits
<1>2. roots \in Seq(Tx) /\ roots # Null
  BY <1>1, RootAssumption, RootsAreSequences
<1>3. ASSUME ~Overtaken  PROVE Offered(txs) = roots /\ (~Active => txs = <<>>)
  <2>1. CASE miner.old = Null
    BY <1>1, <1>2, <2>1, Empty DEF Offered, Updated
  <2>2. CASE miner.old # Null
    <3>1. Active /\ miner.old = roots
      BY <1>3, <2>2 DEF Overtaken, State
    <3> QED  BY <1>2, <3>1 DEF Offered, Updated
  <2> QED  BY <2>1, <2>2
<1>4. ASSUME ~Active, txs = <<>>, Offered(txs) = roots, NEW n \in 0 .. Len(txs)
      PROVE  Offered(txs) \o SubSeq(txs, 1, n) = roots /\ Offered(txs) \o txs = roots
  <2>1. n = 0
    BY <1>4, EmptySeq
  <2>2. SubSeq(txs, 1, 0) = <<>>
    BY <1>1, Empty
  <2> QED  BY <1>2, <1>4, <2>1, <2>2, Empty
<1>5. CASE TemplateFails(txs)
  <2>1. SpendAll(IF Overtaken THEN {"overtaken"} ELSE {})
    BY <1>5 DEF TemplateFails
  <2>2. ~Overtaken
    BY <1>1, <2>1, Spends DEF Rare
  <2>3. Offered(txs) = roots /\ (~Active => txs = <<>>)
    BY <1>3, <2>2
  <2>4. \/ roots' = Offered(txs)
        \/ \E n \in 0 .. Len(txs) : ~Active /\ roots' = Offered(txs) \o SubSeq(txs, 1, n)
    BY <1>5 DEF TemplateFails
  <2> QED  BY <1>4, <2>3, <2>4
<1>6. CASE TemplatePasses(txs)
  <2>1. /\ SpendAll(IF Overtaken /\ ~Active THEN {"overtaken"} ELSE {})
        /\ roots' = Updated(Offered(txs) \o txs,
                            IF Recorded[tip] = Null THEN Default ELSE Recorded[tip])
    BY <1>6 DEF TemplatePasses
  <2>2. (IF Recorded[tip] = Null THEN Default ELSE Recorded[tip]) = RootAfter[tip]
    BY <1>1, RecordedRoots
  <2>3. CASE Active
    BY <1>2, <2>1, <2>2, <2>3 DEF Updated
  <2>4. CASE ~Active
    <3>1. ~Overtaken
      BY <1>1, <2>1, <2>4, Spends DEF Rare
    <3>2. Offered(txs) = roots /\ txs = <<>>
      BY <1>3, <2>4, <3>1
    <3>3. Offered(txs) \o txs = roots
      BY <1>2, <3>2, Empty
    <3> QED  BY <2>1, <2>4, <3>3 DEF Updated
  <2> QED  BY <2>3, <2>4
<1> QED  BY <1>5, <1>6

LEMMA RootsStep ==
  ASSUME Inv, Inv', RootsFit, [Next]_vars
  PROVE  RootsFit'
<1>1. TypeOK /\ ChainFits /\ tip \in Blocks
  BY DEF Inv, TypeOK
<1>2. CASE UNCHANGED vars
  BY <1>2 DEF RootsFit, Undisturbed, FirstWasFine, Standing, vars
<1>3. ASSUME NEW b \in Blocks, BeginConnect(b)  PROVE RootsFit'
  <2>1. /\ busy' = [step |-> "connect", block |-> b, done |-> 0, saved |-> State]
        /\ busy.step = "idle" /\ UNCHANGED <<tip, roots, up, spent>>
    BY <1>3 DEF BeginConnect, Free, Idle
  <2>2. ASSUME Undisturbed  PROVE roots = RootAfter[tip]
    BY <2>1, <2>2 DEF RootsFit, Standing
  <2>3. /\ RootAfter[tip] \in Seq(Tx) /\ Contracts[b] \in Seq(Tx)
        /\ RootAfter[tip] = RootAfter[tip] \o SubSeq(Contracts[b], 1, 0)
    BY <1>1, RootsAreSequences, Empty
  <2> QED  BY <2>1, <2>2, <2>3 DEF RootsFit, Undisturbed, FirstWasFine, State, Active
<1>4. CASE ContractTxConnectBlock
  <2> DEFINE c == Contracts[busy.block]  n == busy.done
  <2>1. /\ busy.step = "connect" /\ roots' = Append(roots, c[n + 1])
        /\ busy' = [busy EXCEPT !.done = @ + 1]
        /\ UNCHANGED <<tip, up, spent>>
        /\ n < Len(c)
    BY <1>4 DEF ContractTxConnectBlock
  <2>2. c \in Seq(Tx) /\ n \in Nat /\ RootAfter[tip] \in Seq(Tx)
    BY <1>1, <2>1, RootsAreSequences DEF TypeOK, ChainFits
  <2>3. busy'.step = "connect" /\ busy'.block = busy.block /\ busy'.saved = busy.saved
        /\ busy'.done = n + 1
    BY <1>1, <2>1 DEF TypeOK
  <2> HIDE DEF c, n
  <2>4. Append(RootAfter[tip] \o SubSeq(c, 1, n), c[n + 1])
          = RootAfter[tip] \o SubSeq(c, 1, n + 1)
    <3>1. n + 1 \in 1 .. Len(c) /\ 1 \in 1 .. n + 1 /\ 1 \in 1 .. Len(c) /\ Len(c) \in Nat
      BY <2>1, <2>2, LenProperties
    <3>2. SubSeq(c, 1, n + 1) = SubSeq(c, 1, n) \o <<c[n + 1]>>
      <4>1. n + 1 - 1 = n
        BY <2>2
      <4>2. SubSeq(c, 1, n + 1) = SubSeq(c, 1, n + 1 - 1) \o <<c[n + 1]>>
        BY <2>2, <3>1, SubSeqRecursiveSecond
      <4> QED  BY <4>1, <4>2
    <3>3. c[n + 1] \in Tx /\ <<c[n + 1]>> \in Seq(Tx)
      BY <2>2, <3>1, ElementOfSeq
    <3>4. SubSeq(c, 1, n) \in Seq(Tx)
      <4>1. \A i \in 1 .. n : c[i] \in Tx
        BY <2>1, <2>2, <3>1, ElementOfSeq
      <4> QED  BY <2>2, <4>1, SubSeqProperties
    <3>5. Append(RootAfter[tip] \o SubSeq(c, 1, n), c[n + 1])
            = (RootAfter[tip] \o SubSeq(c, 1, n)) \o <<c[n + 1]>>
      <4>1. RootAfter[tip] \o SubSeq(c, 1, n) \in Seq(Tx)
        BY <2>2, <3>4, ConcatProperties
      <4> QED  BY <3>3, <4>1, AppendIsConcat
    <3>6. (RootAfter[tip] \o SubSeq(c, 1, n)) \o <<c[n + 1]>>
            = RootAfter[tip] \o (SubSeq(c, 1, n) \o <<c[n + 1]>>)
      BY <2>2, <3>3, <3>4, Associates
    <3> QED  BY <3>2, <3>5, <3>6, Zenon
  <2>5. ASSUME Undisturbed
        PROVE  /\ roots = RootAfter[tip] \o SubSeq(c, 1, n)
               /\ busy.saved = IF tip \in Enabled THEN RootAfter[tip] ELSE Null
    BY <2>1, <2>5 DEF RootsFit, c, n
  <2>6. Contracts[busy.block] = c
    BY DEF c
  <2> QED  BY <2>1, <2>3, <2>4, <2>5, <2>6 DEF RootsFit, Undisturbed, FirstWasFine
<1>5. CASE RefuseBlock
  <2>1. /\ busy.step = "connect" /\ roots' = Updated(roots, busy.saved) /\ busy' = Idle
        /\ SpendAll(IF busy.done > 0 /\ ~Active THEN {"refusedFirst"} ELSE {})
        /\ UNCHANGED <<tip, up>>
    BY <1>5 DEF RefuseBlock
  <2>2. /\ Contracts[busy.block] \in Seq(Tx) /\ busy.done \in Nat
        /\ RootAfter[tip] \in Seq(Tx) /\ RootAfter[tip] # Null
    BY <1>1, <2>1, RootsAreSequences, RootAssumption DEF TypeOK, ChainFits
  <2>3. ASSUME Undisturbed'
        PROVE  /\ Undisturbed /\ ~(busy.done > 0 /\ ~Active)
    BY <1>1, <2>1, <2>3, Spends DEF Undisturbed, FirstWasFine, Rare
  <2>4. ASSUME Undisturbed'  PROVE roots' = RootAfter[tip]
    <3>1. /\ roots = RootAfter[tip] \o SubSeq(Contracts[busy.block], 1, busy.done)
          /\ busy.saved = IF tip \in Enabled THEN RootAfter[tip] ELSE Null
      BY <2>1, <2>3, <2>4 DEF RootsFit
    <3>2. CASE Active
      BY <2>1, <2>2, <3>1, <3>2 DEF Updated, Active
    <3>3. CASE ~Active
      <4>1. busy.done = 0 /\ roots' = roots
        BY <2>1, <2>2, <2>3, <2>4, <3>3 DEF Updated
      <4> QED  BY <2>2, <3>1, <4>1, Empty
    <3> QED  BY <3>2, <3>3
  <2> QED  BY <2>1, <2>4 DEF RootsFit, Standing, Idle
<1>6. CASE AcceptBlock
  <2>1. /\ busy.step = "connect" /\ busy.done = Len(Contracts[busy.block])
        /\ tip' = busy.block /\ busy' = Idle /\ UNCHANGED <<roots, up, spent>>
    BY <1>6 DEF AcceptBlock
  <2>2. /\ busy.block \in Blocks \ {Genesis} /\ Parent[busy.block] = tip
        /\ Contracts[busy.block] \in Seq(Tx)
        /\ RootAfter[busy.block] = RootAfter[tip] \o Contracts[busy.block]
    BY <1>1, <2>1, RootsAreSequences DEF ChainFits
  <2>3. SubSeq(Contracts[busy.block], 1, busy.done) = Contracts[busy.block]
    BY <2>1, <2>2, Empty
  <2>4. ASSUME Undisturbed'  PROVE roots' = RootAfter[busy.block]
    BY <2>1, <2>2, <2>3, <2>4 DEF RootsFit, Undisturbed, FirstWasFine
  <2> QED  BY <2>1, <2>4 DEF RootsFit, Standing, Idle
<1>7. CASE DisconnectBlock
  <2>1. /\ tip # Genesis /\ busy.step = "idle" /\ roots' = Updated(roots, Recorded[Parent[tip]])
        /\ busy'.step = "disconnect" /\ UNCHANGED <<tip, up, spent>>
    BY <1>7 DEF DisconnectBlock, PreviousRoots, Free, Idle
  <2>2. /\ Parent[tip] \in Blocks /\ Clean(Parent[tip]) /\ Clean(tip) /\ tip \notin Faulty
    BY <1>1, <2>1, ParentChain, CleanAncestors, ChainIsFinite DEF ChainFits
  <2>3. /\ Recorded[Parent[tip]] # Null => Recorded[Parent[tip]] = RootAfter[Parent[tip]]
        /\ Recorded[Parent[tip]] = Null => Contracts[tip] = <<>>
    BY <1>1, <2>1, <2>2, RecordedRoots
  <2>4. ~Active => Contracts[tip] = <<>>
    BY <1>1, ContractAssumption DEF Active
  <2>5. Contracts[tip] = <<>> => RootAfter[tip] = RootAfter[Parent[tip]]
    BY <1>1, <2>1, EmptyBlock
  <2>6. ASSUME Undisturbed'  PROVE roots' = RootAfter[Parent[tip]]
    <3>1. roots = RootAfter[tip]
      BY <2>1, <2>6 DEF RootsFit, Undisturbed, FirstWasFine, Standing
    <3> QED  BY <2>1, <2>3, <2>4, <2>5, <3>1 DEF Updated
  <2> QED  BY <2>1, <2>6 DEF RootsFit, Standing
<1>8. CASE EndDisconnect
  BY <1>8 DEF EndDisconnect, RootsFit, Undisturbed, FirstWasFine, Standing, Idle
<1>9. CASE Flush
  BY <1>9 DEF Flush, RootsFit, Undisturbed, FirstWasFine, Standing
<1>10. ASSUME NEW t \in Tx, GetResult(t)  PROVE RootsFit'
  BY <1>10 DEF GetResult, RootsFit, Undisturbed, FirstWasFine, Standing
<1>11. CASE BeginTemplate
  <2>1. SpendAll({"template"}) /\ UNCHANGED <<tip, roots, busy, up>>
    BY <1>11 DEF BeginTemplate
  <2>2. Undisturbed' => Undisturbed
    BY <1>1, <2>1, Spends DEF Undisturbed, FirstWasFine, Rare
  <2> QED  BY <2>1, <2>2 DEF RootsFit, Standing
<1>12. CASE EndTemplate
  <2>1. PICK txs \in TemplateTxs : TemplateFails(txs) \/ TemplatePasses(txs)
    BY <1>12 DEF EndTemplate
  <2>2. busy.step = "idle" /\ UNCHANGED <<tip, busy, up>>
    BY <1>12 DEF EndTemplate, Free, Idle
  <2>3. ASSUME Undisturbed'  PROVE roots' = RootAfter[tip]
    <3>1. \E E : SpendAll(E)
      BY <2>1 DEF TemplateFails, TemplatePasses
    <3>2. Undisturbed /\ spent'["overtaken"] = 0
      BY <1>1, <2>2, <2>3, <3>1, Spends DEF Undisturbed, FirstWasFine, Rare
    <3>3. roots = RootAfter[tip]
      BY <2>2, <3>2 DEF RootsFit, Standing
    <3> QED  BY <2>1, <3>2, <3>3, TemplateKeepsRoots
  <2> QED  BY <2>2, <2>3 DEF RootsFit, Standing
<1>13. ASSUME NEW b \in Chain[tip], StartAt(b)  PROVE RootsFit'
  <2>1. tip' = b /\ busy' = Idle /\ (up' = FALSE \/ roots' = RootAfter[b])
    BY <1>13, StartCases
  <2> QED  BY <2>1 DEF RootsFit, Undisturbed, Standing, Idle
<1>14. CASE Stop
  BY <1>1, <1>13, <1>14, ChainIsFinite DEF Stop
<1>15. CASE Crash
  BY <1>1, <1>13, <1>15 DEF Crash, ChainFits
<1> QED
  BY <1>2, <1>3, <1>4, <1>5, <1>6, <1>7, <1>8, <1>9, <1>10, <1>11, <1>12, <1>14, <1>15
     DEF Next

\* RootsFollowTip for any chain of contracts: whenever cs_main is free, the roots of
\* globalState are those of the tip.
THEOREM RootsAreTips == Spec => []RootsFollowTip
<1>1. Init => Inv /\ RootsFit
  BY TypeInit, RootsInit
<1>2. Inv /\ RootsFit /\ [Next]_vars => (Inv /\ RootsFit)'
  BY InvStep, RootsStep
<1>3. RootsFit => RootsFollowTip
  BY DEF RootsFit, RootsFollowTip, Undisturbed, Free, Standing, Idle
<1> QED  BY <1>1, <1>2, <1>3, PTL DEF Spec

-------------------------------------------------------------------------------
(* The receipts and the height index. *)

LEMMA StandingInChain ==
  ASSUME Inv
  PROVE  /\ Standing \in Blocks /\ Clean(Standing) /\ Chain[Standing] \subseteq Chain[tip]
         /\ tip \in Blocks /\ Clean(tip) /\ TypeOK /\ ChainFits
         /\ busy.step = "disconnect" => tip # Genesis /\ Standing = Parent[tip]
         /\ busy.step # "disconnect" => Standing = tip
<1>1. tip \in Blocks /\ Clean(tip) /\ TypeOK /\ ChainFits
  BY DEF Inv, TypeOK, ChainFits
<1>2. CASE busy.step # "disconnect"
  BY <1>1, <1>2 DEF Standing
<1>3. CASE busy.step = "disconnect"
  <2>1. tip # Genesis /\ Standing = Parent[tip]
    BY <1>1, <1>3 DEF Standing, ChainFits
  <2>2. Parent[tip] \in Blocks /\ Parent[tip] \in Chain[tip]
    BY <1>1, <2>1, ParentChain, ChainIsFinite
  <2> QED  BY <1>1, <1>3, <2>1, <2>2, CleanAncestors, ChainTransitive
<1> QED  BY <1>2, <1>3

\* The transactions executed so far, step by step.
LEMMA PendingSteps ==
  ASSUME Inv, busy.step = "connect"
  PROVE  /\ Pending \subseteq ToSet(Contracts[busy.block])
         /\ ToSet(Contracts[busy.block]) \subseteq Tx
         /\ busy.done = 0 => Pending = {}
         /\ busy.done = Len(Contracts[busy.block]) => Pending = ToSet(Contracts[busy.block])
         /\ ContractTxConnectBlock =>
              LET t == Contracts[busy.block][busy.done + 1]
              IN  t \in ToSet(Contracts[busy.block]) /\ Pending' = Pending \cup {t}
<1> DEFINE c == Contracts[busy.block]
<1>1. busy.block \in Blocks /\ busy.done \in Nat /\ busy.done <= Len(c)
  BY DEF Inv, TypeOK, ChainFits
<1>2. c \in Seq(Tx) /\ Len(c) \in Nat /\ DOMAIN c = 1 .. Len(c) /\ ToSet(c) \subseteq Tx
  BY <1>1, RootsAreSequences, LenProperties
<1>3. ToSet(c) = {c[i] : i \in 1 .. Len(c)}
  BY <1>2 DEF ToSet
<1>4. Pending = {c[i] : i \in 1 .. busy.done}
  BY DEF Pending
<1>5. ASSUME ContractTxConnectBlock
      PROVE  c[busy.done + 1] \in ToSet(c) /\ Pending' = Pending \cup {c[busy.done + 1]}
  <2>1. busy.done < Len(c) /\ busy' = [busy EXCEPT !.done = @ + 1]
    BY <1>5 DEF ContractTxConnectBlock
  <2>2. busy'.step = "connect" /\ busy'.block = busy.block /\ busy'.done = busy.done + 1
    BY <2>1 DEF Inv, TypeOK
  <2>3. busy.done + 1 \in 1 .. Len(c)
    BY <1>1, <1>2, <2>1
  <2>4. Pending' = {c[i] : i \in 1 .. busy.done + 1}
    BY <2>2 DEF Pending
  <2>5. \A i : i \in 1 .. busy.done + 1 <=> i \in 1 .. busy.done \/ i = busy.done + 1
    BY <1>1
  <2> HIDE DEF c
  <2> QED  BY <1>3, <1>4, <2>3, <2>4, <2>5
<1>6. busy.done = 0 => Pending = {}
  BY <1>4
<1>7. busy.done = Len(c) => Pending = ToSet(c)
  BY <1>3, <1>4
<1>8. Pending \subseteq ToSet(c)
  BY <1>1, <1>2, <1>3, <1>4
<1> QED  BY <1>2, <1>5, <1>6, <1>7, <1>8

\* A block that can be connected on the tip shares no transaction with its chain, and
\* has none when the contracts are not active yet.
LEMMA BlockOnTip ==
  ASSUME Inv, NEW b \in Blocks \ {Genesis}, Parent[b] = tip, b \notin Faulty
  PROVE  /\ Chain[b] = Chain[tip] \cup {b} /\ Clean(b)
         /\ \A c \in Chain[tip] : ToSet(Contracts[b]) \cap ToSet(Contracts[c]) = {}
         /\ ~Active => Contracts[b] = <<>>
<1>1. Chain[b] = Chain[tip] \cup {b} /\ Clean(tip)
  BY ParentChain DEF Inv, ChainFits
<1>2. Clean(b)
  BY <1>1 DEF Clean
<1>3. \A c \in Chain[tip] : ToSet(Contracts[b]) \cap ToSet(Contracts[c]) = {}
  BY ContractAssumption
<1>4. ~Active => Contracts[b] = <<>>
  BY ContractAssumption DEF Active, First
<1> QED  BY <1>1, <1>2, <1>3, <1>4

\* The same of the tip and the chain below it, and the tip's entries in the height
\* index are the only ones of its height.
LEMMA TipAndBelow ==
  ASSUME Inv, tip # Genesis
  PROVE  /\ Parent[tip] \in Blocks /\ Chain[tip] = Chain[Parent[tip]] \cup {tip}
         /\ ~Active => Contracts[tip] = <<>>
         /\ \A c \in Chain[Parent[tip]] : /\ c \in Blocks /\ Height(c) # Height(tip)
                                          /\ ToSet(Contracts[tip]) \cap ToSet(Contracts[c]) = {}
<1>1. tip \in Blocks \ {Genesis} /\ Clean(tip) /\ tip \notin Faulty
  BY ChainIsFinite DEF Inv, TypeOK, ChainFits, Clean
<1>2. Parent[tip] \in Blocks /\ Chain[tip] = Chain[Parent[tip]] \cup {tip}
      /\ tip \notin Chain[Parent[tip]]
  BY <1>1, ParentChain
<1>3. ~Active => Contracts[tip] = <<>>
  BY <1>1, ContractAssumption DEF Active
<1>4. ASSUME NEW c \in Chain[Parent[tip]]
      PROVE  /\ c \in Blocks /\ Height(c) # Height(tip)
             /\ ToSet(Contracts[tip]) \cap ToSet(Contracts[c]) = {}
  <2>1. c \in Chain[tip] /\ c # tip /\ c \in Blocks
    BY <1>2, ChainIsFinite
  <2>2. Height(c) < Height(tip) /\ Height(c) \in Nat /\ Height(tip) \in Nat
    BY <1>1, <2>1, Ancestors, Heights
  <2>3. ToSet(Contracts[tip]) \cap ToSet(Contracts[c]) = {}
    BY <1>1, ContractAssumption
  <2> QED  BY <2>1, <2>2, <2>3
<1> QED  BY <1>2, <1>3, <1>4

LEMMA KeptInit == Init => ReceiptsKept
<1> SUFFICES ASSUME Init  PROVE ReceiptsKept
  OBVIOUS
<1>1. busy.step = "idle" /\ Standing = Genesis /\ Pending = {}
  BY DEF Init, Idle, Standing, Pending
<1>2. Contracts[Genesis] = <<>> /\ Chain[Genesis] = {Genesis}
  BY TreeAssumption, ContractAssumption
<1>3. ToSet(Contracts[Genesis]) = {}
  BY <1>2 DEF ToSet
<1> QED  BY <1>1, <1>2, <1>3 DEF ReceiptsKept

\* A start executes again what is above the block that VerifyDB goes back to, and
\* writes the receipts that are not there.
LEMMA StartKeeps ==
  ASSUME Inv, ReceiptsKept, NEW b \in Chain[tip], StartAt(b), up
  PROVE  ReceiptsKept'
<1>1. /\ b \in Blocks /\ Clean(b) /\ tip' = b /\ busy' = Idle
      /\ \/ up' = FALSE
         \/ \E p \in Chain[b] : (p = b => b = Genesis) /\ Verified(p, b)
  BY StartCases
<1>2. Standing' = b /\ Pending' = {}
  BY <1>1 DEF Standing, Pending, Idle
<1>3. ASSUME NEW p \in Chain[b], p = b => b = Genesis, Verified(p, b)
      PROVE  ReceiptsKept'
  <2>1. Chain[p] \subseteq Chain[Standing]
    <3>1. Chain[p] \subseteq Chain[b] /\ Chain[b] \subseteq Chain[tip]
      BY <1>1, StandingInChain, ChainTransitive
    <3>2. CASE busy.step # "disconnect"
      BY <3>1, <3>2, StandingInChain
    <3>3. CASE busy.step = "disconnect"
      <4>1. tip # Genesis /\ Standing = Parent[tip] /\ tip \in Blocks /\ Parent[tip] \in Blocks
        BY <3>3, StandingInChain, ParentChain
      <4>2. p \in Chain[tip]
        BY <3>1
      <4>3. p # tip
        <5> SUFFICES ASSUME p = tip  PROVE FALSE
          OBVIOUS
        <5>1. b # tip
          BY <1>3, <4>1
        <5>2. Height(b) < Height(tip) /\ Height(tip) <= Height(b)
          BY <1>1, <4>1, <5>1, Ancestors
        <5> QED  BY <1>1, <4>1, <5>2, Heights
      <4>4. p \in Chain[Parent[tip]]
        BY <4>1, <4>2, <4>3, Ancestors
      <4> QED  BY <4>1, <4>4, ChainTransitive
    <3> QED  BY <3>2, <3>3
  <2>2. ASSUME NEW c \in Chain[b], NEW t \in ToSet(Contracts[c])
        PROVE  db'[t] # None /\ <<Height(c), t>> \in index'
    <3>1. c \in Blocks /\ t \in Tx /\ index \subseteq index'
      BY <1>1, <1>3, ChainIsFinite, RootsAreSequences DEF Verified
    <3>2. db[t] # None => db'[t] # None
      BY <1>3, <3>1 DEF Verified
    <3>3. CASE c \in Chain[p]
      BY <2>1, <3>1, <3>2, <3>3 DEF ReceiptsKept
    <3>4. CASE c \notin Chain[p]
      <4>1. c \in Above(p, b) /\ b \in Enabled
        BY <1>1, <3>4, NoContractsBefore DEF Above, ToSet
      <4>2. <<Height(c), t>> \in index'
        BY <1>3, <4>1 DEF Verified, Indexed
      <4> DEFINE of == {d \in Above(p, b) : t \in ToSet(Contracts[d])}
      <4>3. db'[t] = IF db[t] # None \/ of = {} THEN db[t] ELSE CHOOSE d \in of : TRUE
        BY <1>3, <3>1, <4>1 DEF Verified
      <4>4. of # {} /\ of \subseteq Blocks
        BY <1>1, <4>1, ChainIsFinite DEF Above
      <4> HIDE DEF of
      <4>5. (CHOOSE d \in of : TRUE) # None
        BY <4>4, RootAssumption
      <4> QED  BY <4>2, <4>3, <4>4, <4>5
    <3> QED  BY <3>3, <3>4
  <2> QED  BY <1>2, <2>2 DEF ReceiptsKept
<1> QED  BY <1>1, <1>3 DEF ReceiptsKept

LEMMA KeptStep ==
  ASSUME Inv, Inv', ReceiptsKept, [Next]_vars
  PROVE  ReceiptsKept'
<1> DEFINE KeptFor(S) == \A b \in S : \A t \in ToSet(Contracts[b]) :
                           db[t] # None /\ <<Height(b), t>> \in index
<1>1. /\ TypeOK /\ tip \in Blocks /\ Standing \in Blocks
      /\ \A b \in Chain[tip] : b \in Blocks /\ ToSet(Contracts[b]) \subseteq Tx
      /\ \A b \in Chain[Standing] : b \in Blocks /\ ToSet(Contracts[b]) \subseteq Tx
  BY StandingInChain, ChainIsFinite, RootsAreSequences
<1>2. up => KeptFor(Chain[Standing]) /\ \A t \in Pending : cache[t] # None
  BY DEF ReceiptsKept
<1>3. CASE UNCHANGED vars
  BY <1>3 DEF ReceiptsKept, Standing, Pending, vars
<1>4. ASSUME NEW b \in Blocks, BeginConnect(b)  PROVE ReceiptsKept'
  <2>1. /\ busy'.step = "connect" /\ busy'.done = 0 /\ busy.step = "idle"
        /\ UNCHANGED <<tip, cache, db, index, up>>
    BY <1>4 DEF BeginConnect, Free, Idle
  <2>2. Pending' = {} /\ Standing' = Standing
    BY <2>1 DEF Pending, Standing
  <2> QED  BY <1>2, <2>1, <2>2 DEF ReceiptsKept
<1>5. CASE ContractTxConnectBlock
  <2> DEFINE t == Contracts[busy.block][busy.done + 1]
  <2>1. /\ busy.step = "connect" /\ cache' = Added(cache, t, busy.block)
        /\ busy' = [busy EXCEPT !.done = @ + 1] /\ UNCHANGED <<tip, db, index, up>>
        /\ busy.block \in Blocks
    BY <1>5 DEF ContractTxConnectBlock, Inv, ChainFits
  <2>2. /\ t \in Tx /\ Pending' = Pending \cup {t} /\ Pending \subseteq Tx
    BY <1>5, <2>1, PendingSteps
  <2> HIDE DEF t
  <2>3. Standing' = Standing
    BY <1>1, <2>1 DEF Standing, TypeOK
  <2>4. \A u \in Tx : cache'[u] = None => cache[u] = None /\ u # t
    BY <1>1, <2>1, RootAssumption DEF Added, TypeOK
  <2>5. up => \A u \in Pending' : cache'[u] # None
    BY <1>2, <2>2, <2>4
  <2> QED  BY <1>2, <2>1, <2>3, <2>5 DEF ReceiptsKept
<1>6. CASE RefuseBlock
  <2>1. busy.step = "connect" /\ busy' = Idle /\ UNCHANGED <<tip, db, index, up>>
    BY <1>6 DEF RefuseBlock
  <2>2. Pending' = {} /\ Standing' = Standing
    BY <2>1 DEF Pending, Standing, Idle
  <2> QED  BY <1>2, <2>1, <2>2 DEF ReceiptsKept
<1>7. CASE AcceptBlock
  <2> DEFINE b == busy.block
  <2>1. /\ busy.step = "connect" /\ b \in Blocks \ {Genesis} /\ Parent[b] = tip /\ b \notin Faulty
        /\ busy.done = Len(Contracts[b]) /\ tip' = b /\ busy' = Idle
        /\ index' = index \cup Indexed(b) /\ db' = IF Active THEN Stored(cache) ELSE db
        /\ UNCHANGED up
    BY <1>7 DEF AcceptBlock, Inv, ChainFits
  <2>2. Pending = ToSet(Contracts[b])
    BY <2>1, PendingSteps
  <2> HIDE DEF b
  <2>3. Pending' = {} /\ Standing' = b /\ Standing = tip
    BY <2>1 DEF Pending, Standing, Idle
  <2>4. Chain[b] = Chain[tip] \cup {b} /\ (~Active => Contracts[b] = <<>>)
    BY <2>1, BlockOnTip
  <2>5. \A t \in Tx : db[t] # None => db'[t] # None
    BY <2>1 DEF Stored
  <2>6. ASSUME up, NEW t \in ToSet(Contracts[b])
        PROVE  db'[t] # None /\ <<Height(b), t>> \in index'
    <3>1. Active
      BY <2>4, <2>6 DEF ToSet
    <3>2. t \in Tx /\ cache[t] # None
      BY <1>2, <2>1, <2>2, <2>6, RootsAreSequences
    <3> QED  BY <2>1, <2>6, <3>1, <3>2 DEF Stored, Indexed
  <2>7. ASSUME up, NEW c \in Chain[tip], NEW t \in ToSet(Contracts[c])
        PROVE  db'[t] # None /\ <<Height(c), t>> \in index'
    BY <1>1, <1>2, <2>1, <2>3, <2>5, <2>7
  <2> QED  BY <2>1, <2>3, <2>4, <2>6, <2>7 DEF ReceiptsKept
<1>8. CASE DisconnectBlock
  <2>1. /\ tip # Genesis /\ busy.step = "idle" /\ busy'.step = "disconnect"
        /\ db' = Without(db, tip) /\ index' = Erased(Height(tip)) /\ UNCHANGED <<tip, up>>
    BY <1>8 DEF DisconnectBlock, Free, Idle
  <2>2. Pending' = {} /\ Standing = tip /\ Standing' = Parent[tip]
    BY <2>1 DEF Pending, Standing
  <2>3. ASSUME up, NEW c \in Chain[Parent[tip]], NEW t \in ToSet(Contracts[c])
        PROVE  db'[t] # None /\ <<Height(c), t>> \in index'
    <3>1. /\ c \in Chain[tip] /\ c \in Blocks /\ Height(c) # Height(tip)
          /\ t \notin ToSet(Contracts[tip])
      BY <2>1, <2>3, TipAndBelow
    <3>2. t \in Tx /\ db[t] # None /\ <<Height(c), t>> \in index
      BY <1>1, <1>2, <2>2, <2>3, <3>1
    <3> QED  BY <2>1, <3>1, <3>2 DEF Without, Erased
  <2> QED  BY <2>1, <2>2, <2>3 DEF ReceiptsKept
<1>9. CASE EndDisconnect
  <2>1. /\ busy.step = "disconnect" /\ tip' = Parent[tip] /\ busy' = Idle
        /\ UNCHANGED <<db, index, up>>
    BY <1>9 DEF EndDisconnect
  <2>2. Pending' = {} /\ Standing' = Standing
    BY <2>1 DEF Pending, Standing, Idle
  <2> QED  BY <1>2, <2>1, <2>2 DEF ReceiptsKept
<1>10. CASE Flush
  BY <1>10 DEF Flush, ReceiptsKept, Standing, Pending
<1>11. ASSUME NEW b \in Chain[tip], StartAt(b), up  PROVE ReceiptsKept'
  BY <1>11, StartKeeps
<1>12. ASSUME UNCHANGED <<tip, db, index, busy, up>>, busy.step = "idle"  PROVE ReceiptsKept'
  <2>1. Pending' = {} /\ Standing' = Standing
    BY <1>12 DEF Pending, Standing
  <2> QED  BY <1>2, <1>12, <2>1 DEF ReceiptsKept
<1>13. ASSUME NEW t \in Tx, GetResult(t)  PROVE ReceiptsKept'
  BY <1>12, <1>13 DEF GetResult, Free, Idle
<1>14. CASE BeginTemplate
  BY <1>14 DEF BeginTemplate, ReceiptsKept, Standing, Pending
<1>15. CASE EndTemplate
  BY <1>12, <1>15 DEF EndTemplate, Free, Idle
<1>16. CASE Stop
  BY <1>1, <1>11, <1>16, ChainIsFinite DEF Stop, Free
<1>17. CASE Crash
  BY <1>11, <1>17 DEF Crash, Inv, ChainFits
<1> QED
  BY <1>3, <1>4, <1>5, <1>6, <1>7, <1>8, <1>9, <1>10, <1>13, <1>14, <1>15, <1>16, <1>17
     DEF Next

\* ReceiptsSurvive for any chain of contracts and any number of crashes: no receipt of
\* the active chain and no entry of its height index is lost.
THEOREM ReceiptsRemain == Spec => []ReceiptsSurvive
<1>1. Init => Inv /\ ReceiptsKept
  BY TypeInit, KeptInit
<1>2. Inv /\ ReceiptsKept /\ [Next]_vars => (Inv /\ ReceiptsKept)'
  BY InvStep, KeptStep
<1>3. ReceiptsKept => ReceiptsSurvive
  BY DEF ReceiptsKept, ReceiptsSurvive, Free, Standing, Idle
<1> QED  BY <1>1, <1>2, <1>3, PTL DEF Spec

LEMMA FitInit == Init => ReceiptsFit
<1> SUFFICES ASSUME Init  PROVE ReceiptsFit
  OBVIOUS
<1>1. /\ busy.step = "idle" /\ Standing = Genesis /\ ~miner.on /\ index = {}
      /\ db = NoReceipts /\ cache = NoReceipts
  BY DEF Init, Idle, Resting, Standing
<1>2. Contracts[Genesis] = <<>> /\ Chain[Genesis] = {Genesis}
  BY TreeAssumption, ContractAssumption
<1>3. ToSet(Contracts[Genesis]) = {}
  BY <1>2 DEF ToSet
<1>4. UNION {Indexed(b) : b \in Chain[Genesis]} = {}
  BY <1>2, <1>3 DEF Indexed
<1>5. CacheFits
  BY <1>1 DEF CacheFits, NoReceipts
<1>6. \A t \in Tx : db[t] = None
  BY <1>1 DEF NoReceipts
<1> QED  BY <1>1, <1>2, <1>3, <1>4, <1>5, <1>6 DEF ReceiptsFit

LEMMA FitStep ==
  ASSUME Inv, Inv', ReceiptsKept, ReceiptsFit, [Next]_vars
  PROVE  ReceiptsFit'
<1>1. /\ TypeOK /\ tip \in Blocks /\ Clean(tip) /\ Standing \in Blocks
      /\ \A b \in Chain[tip] : b \in Blocks /\ ToSet(Contracts[b]) \subseteq Tx
      /\ \A b \in Chain[Standing] : b \in Blocks /\ ToSet(Contracts[b]) \subseteq Tx
  BY StandingInChain, ChainIsFinite, RootsAreSequences
<1>2. ASSUME Plain
      PROVE  /\ ~miner.on
             /\ \A b \in Chain[Standing] : \A t \in ToSet(Contracts[b]) : db[t] = b
             /\ \A t \in Tx : ~Held(t) => db[t] = None
             /\ CacheFits
             /\ index = UNION {Indexed(b) : b \in Chain[Standing]}
  BY <1>2 DEF ReceiptsFit
<1>3. CASE UNCHANGED vars
  BY <1>3 DEF ReceiptsFit, Plain, FirstWasFine, CacheFits, Held, Standing, Pending, vars
<1>4. ASSUME NEW b \in Blocks, BeginConnect(b)  PROVE ReceiptsFit'
  <2>1. /\ busy'.step = "connect" /\ busy'.done = 0 /\ busy.step = "idle"
        /\ UNCHANGED <<tip, cache, db, index, miner, up, spent>>
    BY <1>4 DEF BeginConnect, Free, Idle
  <2>2. Standing' = Standing /\ Pending = {} /\ (Plain' => Plain)
    BY <2>1 DEF Pending, Standing, Plain, FirstWasFine
  <2>3. CacheFits => CacheFits'
    BY <2>1, <2>2 DEF CacheFits
  <2>4. \A t : Held(t)' <=> Held(t)
    BY <2>2 DEF Held
  <2> QED  BY <1>2, <2>1, <2>2, <2>3, <2>4 DEF ReceiptsFit
<1>5. CASE ContractTxConnectBlock
  <2> DEFINE t == Contracts[busy.block][busy.done + 1]
  <2>1. /\ busy.step = "connect" /\ cache' = Added(cache, t, busy.block)
        /\ busy' = [busy EXCEPT !.done = @ + 1]
        /\ UNCHANGED <<tip, db, index, miner, up, spent>>
    BY <1>5 DEF ContractTxConnectBlock
  <2>2. /\ t \in Tx /\ Pending' = Pending \cup {t} /\ Pending \subseteq Tx
    BY <1>5, <2>1, PendingSteps
  <2> HIDE DEF t
  <2>3. Standing' = Standing /\ busy'.block = busy.block
    BY <1>1, <2>1 DEF Standing, TypeOK
  <2>4. \A u \in Tx : cache'[u] = cache[u] \/ (u = t /\ cache'[u] = busy.block)
    BY <1>1, <2>1 DEF Added, TypeOK
  <2>5. CacheFits => CacheFits'
    BY <2>2, <2>3, <2>4 DEF CacheFits
  <2>6. (\A u : Held(u)' <=> Held(u)) /\ (Plain' => Plain)
    BY <2>1, <2>3 DEF Held, Plain, FirstWasFine
  <2> QED  BY <1>2, <2>1, <2>3, <2>5, <2>6 DEF ReceiptsFit
<1>6. CASE RefuseBlock
  <2>1. /\ busy.step = "connect" /\ busy' = Idle /\ cache' = Cleared
        /\ SpendAll(IF busy.done > 0 /\ ~Active THEN {"refusedFirst"} ELSE {})
        /\ UNCHANGED <<tip, db, index, miner, up>>
    BY <1>6 DEF RefuseBlock
  <2>2. Standing' = Standing /\ \A t : Held(t)' <=> Held(t)
    BY <2>1 DEF Standing, Held, Idle
  <2>3. ASSUME Plain'  PROVE Plain /\ ~(busy.done > 0 /\ ~Active)
    BY <1>1, <2>1, <2>3, Spends DEF Plain, FirstWasFine, Rare
  <2>4. ASSUME Plain'  PROVE CacheFits'
    <3>1. CASE Active
      BY <2>1, <3>1 DEF CacheFits, Cleared, NoReceipts
    <3>2. CASE ~Active
      <4>1. busy.done = 0 /\ cache' = cache /\ CacheFits
        BY <1>1, <1>2, <2>1, <2>3, <2>4, <3>2 DEF Cleared, TypeOK
      <4>2. Pending = {}
        BY <2>1, <4>1, PendingSteps
      <4> QED  BY <2>2, <4>1, <4>2 DEF CacheFits
    <3> QED  BY <3>1, <3>2
  <2> QED  BY <1>2, <2>1, <2>2, <2>3, <2>4 DEF ReceiptsFit
<1>7. CASE AcceptBlock
  <2> DEFINE b == busy.block
  <2>1. /\ busy.step = "connect" /\ b \in Blocks \ {Genesis} /\ Parent[b] = tip /\ b \notin Faulty
        /\ busy.done = Len(Contracts[b]) /\ tip' = b /\ busy' = Idle
        /\ index' = index \cup Indexed(b) /\ db' = IF Active THEN Stored(cache) ELSE db
        /\ cache' = Cleared /\ UNCHANGED <<miner, up, spent>>
    BY <1>7 DEF AcceptBlock, Inv, ChainFits
  <2>2. Pending = ToSet(Contracts[b])
    BY <2>1, PendingSteps
  <2> HIDE DEF b
  <2>3. Standing' = b /\ Standing = tip /\ (Plain' => Plain)
    BY <2>1 DEF Standing, Idle, Plain, FirstWasFine
  <2>4. /\ Chain[b] = Chain[tip] \cup {b} /\ (~Active => Contracts[b] = <<>>)
        /\ \A c \in Chain[tip] : ToSet(Contracts[b]) \cap ToSet(Contracts[c]) = {}
        /\ ToSet(Contracts[b]) \subseteq Tx
    BY <2>1, BlockOnTip, RootsAreSequences
  <2>5. ~Active => ToSet(Contracts[b]) = {}
    BY <2>4 DEF ToSet
  <2> SUFFICES ASSUME Plain'  PROVE ReceiptsFit'
    BY DEF ReceiptsFit
  <2>6. /\ ~miner.on /\ CacheFits
        /\ \A c \in Chain[tip] : \A t \in ToSet(Contracts[c]) : db[t] = c
        /\ \A t \in Tx : ~Held(t) => db[t] = None
        /\ index = UNION {Indexed(c) : c \in Chain[tip]}
    BY <1>2, <2>3
  <2>7. ASSUME NEW c \in Chain[tip], NEW t \in ToSet(Contracts[c])  PROVE db'[t] = c
    <3>1. db[t] = c /\ t \in Tx /\ c # None
      BY <1>1, <2>6, <2>7, RootAssumption
    <3> QED  BY <2>1, <3>1 DEF Stored
  <2>8. ASSUME NEW t \in ToSet(Contracts[b])  PROVE db'[t] = b
    <3>1. Active /\ t \in Tx /\ t \in Pending
      BY <2>2, <2>4, <2>5, <2>8
    <3>2. ~Held(t)
      BY <2>3, <2>4, <2>8 DEF Held
    <3>3. db[t] = None /\ db'[t] = cache[t]
      BY <2>1, <2>6, <3>1, <3>2 DEF Stored
    <3>4. cache[t] # None
      BY <2>3, <3>1 DEF ReceiptsKept, Plain
    <3>5. cache[t] = b
      BY <2>6, <3>1, <3>2, <3>4 DEF CacheFits, Held, b
    <3> QED  BY <3>3, <3>5
  <2>9. ASSUME NEW t \in Tx, ~Held(t)'  PROVE db'[t] = None
    <3>1. ~Held(t) /\ t \notin Pending
      BY <2>2, <2>3, <2>4, <2>9 DEF Held
    <3>2. db[t] = None /\ cache[t] = None
      BY <2>6, <3>1 DEF CacheFits, Held
    <3> QED  BY <2>1, <3>2 DEF Stored
  <2>10. CacheFits'
    <3>1. CASE Active
      BY <2>1, <3>1 DEF CacheFits, Cleared, NoReceipts
    <3>2. CASE ~Active
      <4>1. cache' = cache /\ Pending = {} /\ Chain[Standing] \subseteq Chain[b]
        BY <2>1, <2>2, <2>3, <2>4, <2>5, <3>2 DEF Cleared
      <4> QED  BY <2>3, <2>6, <4>1 DEF CacheFits
    <3> QED  BY <3>1, <3>2
  <2>11. index' = UNION {Indexed(c) : c \in Chain[b]}
    BY <2>1, <2>4, <2>6
  <2> QED  BY <2>1, <2>3, <2>4, <2>6, <2>7, <2>8, <2>9, <2>10, <2>11 DEF ReceiptsFit
<1>8. CASE DisconnectBlock
  <2>1. /\ tip # Genesis /\ busy.step = "idle" /\ busy'.step = "disconnect"
        /\ cache' = Without(cache, tip) /\ db' = Without(db, tip)
        /\ index' = Erased(Height(tip)) /\ UNCHANGED <<tip, miner, up, spent>>
    BY <1>8 DEF DisconnectBlock, Free, Idle
  <2>2. Pending = {} /\ Standing = tip /\ Standing' = Parent[tip] /\ (Plain' => Plain)
    BY <2>1 DEF Pending, Standing, Plain, FirstWasFine
  <2>3. /\ Chain[tip] = Chain[Parent[tip]] \cup {tip}
        /\ ~Active => Contracts[tip] = <<>>
        /\ \A c \in Chain[Parent[tip]] : /\ c \in Blocks /\ Height(c) # Height(tip)
                                         /\ ToSet(Contracts[tip]) \cap ToSet(Contracts[c]) = {}
    BY <2>1, TipAndBelow
  <2>4. ~Active => ToSet(Contracts[tip]) = {}
    BY <2>3 DEF ToSet
  <2> SUFFICES ASSUME Plain'  PROVE ReceiptsFit'
    BY DEF ReceiptsFit
  <2>5. /\ ~miner.on /\ CacheFits
        /\ \A c \in Chain[tip] : \A t \in ToSet(Contracts[c]) : db[t] = c
        /\ \A t \in Tx : ~Held(t) => db[t] = None
        /\ index = UNION {Indexed(c) : c \in Chain[tip]}
    BY <1>2, <2>2
  <2>6. \A t \in Tx : /\ db'[t] = IF t \in ToSet(Contracts[tip]) THEN None ELSE db[t]
                      /\ cache'[t] = IF t \in ToSet(Contracts[tip]) THEN None ELSE cache[t]
    BY <2>1, <2>4 DEF Without
  <2>7. ASSUME NEW c \in Chain[Parent[tip]], NEW t \in ToSet(Contracts[c])  PROVE db'[t] = c
    BY <1>1, <2>3, <2>5, <2>6, <2>7
  <2>8. ASSUME NEW t \in Tx, ~Held(t)'  PROVE db'[t] = None
    <3>1. t \in ToSet(Contracts[tip]) \/ ~Held(t)
      BY <2>2, <2>3, <2>8 DEF Held
    <3> QED  BY <2>5, <2>6, <3>1
  <2>9. CacheFits'
    <3> SUFFICES ASSUME NEW t \in Tx, cache'[t] # None
                 PROVE  \E c \in Chain[Parent[tip]] : t \in ToSet(Contracts[c]) /\ cache'[t] = c
      BY <2>2 DEF CacheFits
    <3>1. t \notin ToSet(Contracts[tip]) /\ cache'[t] = cache[t] /\ cache[t] # None
      BY <2>6
    <3>2. PICK c \in Chain[tip] : t \in ToSet(Contracts[c]) /\ cache[t] = c
      BY <2>2, <2>5, <3>1 DEF CacheFits
    <3> QED  BY <2>3, <3>1, <3>2
  <2>10. index' = UNION {Indexed(c) : c \in Chain[Parent[tip]]}
    <3>1. index' = {e \in index : e[1] # Height(tip)}
      BY <2>1 DEF Erased
    <3>2. \A c : \A e \in Indexed(c) : e[1] = Height(c)
      BY DEF Indexed
    <3>3. \A e : e \in index <=> \E c \in Chain[tip] : e \in Indexed(c)
      BY <2>5
    <3>4. \A c \in Chain[tip] : c = tip \/ c \in Chain[Parent[tip]]
      BY <2>3
    <3>5. \A c \in Chain[Parent[tip]] : c \in Chain[tip] /\ Height(c) # Height(tip)
      BY <2>3
    <3>6. \A e : e \in index' <=> \E c \in Chain[Parent[tip]] : e \in Indexed(c)
      BY <3>1, <3>2, <3>3, <3>4, <3>5
    <3> QED  BY <3>6
  <2> QED  BY <2>1, <2>2, <2>5, <2>7, <2>8, <2>9, <2>10 DEF ReceiptsFit
<1>9. CASE EndDisconnect
  <2>1. /\ busy.step = "disconnect" /\ tip' = Parent[tip] /\ busy' = Idle
        /\ UNCHANGED <<cache, db, index, miner, up, spent>>
    BY <1>9 DEF EndDisconnect
  <2>2. Pending = {} /\ Standing' = Standing /\ (Plain' => Plain)
    BY <2>1 DEF Pending, Standing, Idle, Plain, FirstWasFine
  <2>3. (CacheFits => CacheFits') /\ \A t : Held(t)' <=> Held(t)
    BY <2>1, <2>2 DEF CacheFits, Held
  <2> QED  BY <1>2, <2>1, <2>2, <2>3 DEF ReceiptsFit
<1>10. CASE Flush
  BY <1>10 DEF Flush, ReceiptsFit, Plain, FirstWasFine, CacheFits, Held, Standing, Pending
<1>11. ASSUME NEW t \in Tx, GetResult(t)  PROVE ReceiptsFit'
  <2>1. /\ db[t] # None /\ cache' = [cache EXCEPT ![t] = db[t]] /\ busy.step = "idle"
        /\ UNCHANGED <<tip, db, index, busy, miner, up, spent>>
    BY <1>11 DEF GetResult, Free, Idle
  <2>2. Standing' = Standing /\ Pending' = Pending /\ (Plain' => Plain)
    BY <2>1 DEF Standing, Pending, Plain, FirstWasFine
  <2>3. \A u : Held(u)' <=> Held(u)
    BY <2>2 DEF Held
  <2>4. ASSUME Plain'  PROVE CacheFits'
    <3>1. Held(t)
      BY <1>2, <2>1, <2>2, <2>4
    <3>2. PICK b \in Chain[Standing] : t \in ToSet(Contracts[b]) /\ db[t] = b
      BY <1>2, <2>2, <2>4, <3>1 DEF Held
    <3>3. CacheFits
      BY <1>2, <2>2, <2>4
    <3>4. \A u \in Tx : cache'[u] = IF u = t THEN db[t] ELSE cache[u]
      BY <1>1, <2>1 DEF TypeOK
    <3> QED  BY <2>1, <2>2, <3>2, <3>3, <3>4 DEF CacheFits
  <2> QED  BY <1>2, <2>1, <2>2, <2>3, <2>4 DEF ReceiptsFit
<1>12. CASE BeginTemplate
  <2>1. SpendAll({"template"})
    BY <1>12 DEF BeginTemplate
  <2>2. ~Plain'
    BY <1>1, <2>1, Spends DEF Plain, Rare
  <2> QED  BY <2>2 DEF ReceiptsFit
<1>13. CASE EndTemplate
  <2>1. PICK txs \in TemplateTxs : TemplateFails(txs) \/ TemplatePasses(txs)
    BY <1>13 DEF EndTemplate
  <2>2. \E E : SpendAll(E)
    BY <2>1 DEF TemplateFails, TemplatePasses
  <2>3. miner.on /\ UNCHANGED up
    BY <1>13 DEF EndTemplate
  <2>4. Plain' => Plain
    BY <1>1, <2>2, <2>3, Spends DEF Plain, FirstWasFine, Rare
  <2> QED  BY <1>2, <2>3, <2>4 DEF ReceiptsFit
<1>14. CASE Stop
  <2>1. StartAt(tip) /\ SpendAll({"stop"}) /\ tip \in Chain[tip] /\ busy.step = "idle" /\ up
    BY <1>1, <1>14, ChainIsFinite DEF Stop, Free, Idle
  <2>2. /\ tip' = tip /\ busy' = Idle /\ miner' = Resting /\ cache' = NoReceipts
        /\ \/ up' = FALSE
           \/ \E p \in Chain[tip] : Verified(p, tip)
    BY <2>1, StartCases
  <2>3. Standing = tip /\ Standing' = tip /\ \A t : Held(t)' <=> Held(t)
    BY <2>1, <2>2 DEF Standing, Held, Idle
  <2>4. ~miner'.on /\ CacheFits'
    BY <2>2 DEF Resting, CacheFits, NoReceipts
  <2> SUFFICES ASSUME Plain'  PROVE ReceiptsFit'
    BY DEF ReceiptsFit
  <2>5. Plain
    BY <1>1, <2>1, Spends DEF Plain, FirstWasFine, Rare
  <2>6. /\ \A c \in Chain[tip] : \A t \in ToSet(Contracts[c]) : db[t] = c
        /\ \A t \in Tx : ~Held(t) => db[t] = None
        /\ index = UNION {Indexed(c) : c \in Chain[tip]}
    BY <1>2, <2>3, <2>5
  <2>7. PICK p \in Chain[tip] : Verified(p, tip)
    BY <2>2 DEF Plain
  <2>8. \A t \in Tx : db'[t] = db[t]
    <3> SUFFICES ASSUME NEW t \in Tx  PROVE db'[t] = db[t]
      OBVIOUS
    <3>1. CASE tip \notin Enabled
      BY <2>7, <3>1 DEF Verified
    <3>2. CASE tip \in Enabled
      <4> DEFINE of == {c \in Above(p, tip) : t \in ToSet(Contracts[c])}
      <4>1. db'[t] = IF db[t] # None \/ of = {} THEN db[t] ELSE CHOOSE c \in of : TRUE
        BY <2>7, <3>2 DEF Verified
      <4>2. ASSUME of # {}  PROVE db[t] # None
        <5>1. PICK c \in Chain[tip] : t \in ToSet(Contracts[c])
          BY <4>2 DEF Above
        <5>2. db[t] = c /\ c \in Blocks
          BY <1>1, <2>6, <5>1
        <5> QED  BY <5>2, RootAssumption
      <4> HIDE DEF of
      <4> QED  BY <4>1, <4>2
    <3> QED  BY <3>1, <3>2
  <2>9. index' = index
    BY <2>6, <2>7 DEF Verified, Above
  <2> QED  BY <1>1, <2>3, <2>4, <2>6, <2>8, <2>9 DEF ReceiptsFit
<1>15. CASE Crash
  <2>1. SpendAll({"crash"})
    BY <1>15 DEF Crash
  <2>2. ~Plain'
    BY <1>1, <2>1, Spends DEF Plain, Rare
  <2> QED  BY <2>2 DEF ReceiptsFit
<1> QED
  BY <1>3, <1>4, <1>5, <1>6, <1>7, <1>8, <1>9, <1>10, <1>11, <1>12, <1>13, <1>14, <1>15
     DEF Next

\* ReceiptsAreOfChain for any chain of contracts: without templates and crashes, the
\* receipts in memory and in resultsDB and the height index are those of the active
\* chain, and there are no others.
THEOREM ReceiptsMatchChain == Spec => []ReceiptsAreOfChain
<1>1. Init => Inv /\ ReceiptsKept /\ ReceiptsFit
  BY TypeInit, KeptInit, FitInit
<1>2. Inv /\ ReceiptsKept /\ ReceiptsFit /\ [Next]_vars => (Inv /\ ReceiptsKept /\ ReceiptsFit)'
  BY InvStep, KeptStep, FitStep
<1>3. ASSUME Inv, ReceiptsFit  PROVE ReceiptsAreOfChain
  <2> SUFFICES ASSUME Free, FirstWasFine, spent["template"] = 0, spent["crash"] = 0
               PROVE  /\ \A b \in Chain[tip] : \A t \in ToSet(Contracts[b]) :
                           db[t] = b /\ cache[t] \in {None, b}
                      /\ \A t \in Tx \ ToSet(RootAfter[tip]) : db[t] = None /\ cache[t] = None
                      /\ index = UNION {Indexed(b) : b \in Chain[tip]}
    BY DEF ReceiptsAreOfChain
  <2>1. Plain /\ Standing = tip /\ Pending = {} /\ tip \in Blocks /\ Clean(tip)
    BY <1>3 DEF Plain, Free, Standing, Pending, Idle, Inv, TypeOK, ChainFits
  <2>2. /\ \A b \in Chain[tip] : \A t \in ToSet(Contracts[b]) : db[t] = b
        /\ \A t \in Tx : ~Held(t) => db[t] = None
        /\ CacheFits
        /\ index = UNION {Indexed(b) : b \in Chain[tip]}
    BY <1>3, <2>1 DEF ReceiptsFit
  <2>3. \A t \in Tx : \/ cache[t] = None
                      \/ \E b \in Chain[tip] : t \in ToSet(Contracts[b]) /\ cache[t] = b
    BY <2>1, <2>2 DEF CacheFits
  <2>4. ASSUME NEW b \in Chain[tip], NEW t \in ToSet(Contracts[b])
        PROVE  cache[t] \in {None, b}
    <3>1. t \in Tx
      BY <2>1, <2>4, ChainIsFinite, RootsAreSequences
    <3>2. \A c \in Chain[tip] : t \in ToSet(Contracts[c]) => c = b
      BY <2>1, <2>4, OnceInChain
    <3> QED  BY <2>3, <3>1, <3>2
  <2>5. ASSUME NEW t \in Tx \ ToSet(RootAfter[tip])  PROVE db[t] = None /\ cache[t] = None
    <3>1. \A b \in Chain[tip] : t \notin ToSet(Contracts[b])
      BY <2>1, <2>5, RootContents
    <3> QED  BY <2>1, <2>2, <2>3, <3>1 DEF Held
  <2> QED  BY <2>2, <2>4, <2>5
<1> QED  BY <1>1, <1>2, <1>3, PTL DEF Spec
==============================================================================
