---------------------------- MODULE BlockStoreProofs ----------------------------
(***************************************************************************)
(* Proofs about BlockStore for any tree of blocks, any order of the index  *)
(* entries in memory, any size of the files and any number of crashes and  *)
(* shutdowns: what is not exposed is never overwritten; without exposure,  *)
(* replay and orphaned entries a node starts again; and on one chain the   *)
(* coins are those of their block.                                         *)
(***************************************************************************)
EXTENDS BlockStore, FiniteSetTheorems, SequenceTheorems, WellFoundedInduction, TLAPS

Info == [size : Nat, usize : Nat, top : Nat]
Entry == [file : Nat, pos : Nat, undo : Nat \cup {None}]

\* The file info on disk, which may be missing.
DiskInfo(d, n) == IF n \in DOMAIN d.info THEN d.info[n] ELSE NoInfo

EntriesIn(f) == DOMAIN f \subseteq Blocks /\ IsFiniteSet(DOMAIN f) /\ \A b \in DOMAIN f : f[b] \in Entry

IsDisk(d) == d = [blk |-> d.blk, rev |-> d.rev, index |-> d.index, info |-> d.info,
                  last |-> d.last, coins |-> d.coins, clean |-> d.clean]

DiskType(d) ==
  /\ IsDisk(d)
  /\ EntriesIn(d.index)
  /\ DOMAIN d.info \subseteq Nat /\ IsFiniteSet(DOMAIN d.info)
  /\ \A n \in DOMAIN d.info : d.info[n] \in Info
  /\ d.last \in Nat

StoreType ==
  /\ EntriesIn(index) /\ dirty \subseteq DOMAIN index
  /\ info \in Seq(Info) /\ last \in Nat
  /\ dirtyFiles \subseteq Nat /\ IsFiniteSet(dirtyFiles)
  /\ DiskType(disk)

\* An entry on disk is the one in memory, or that from before it had undo data; only a
\* dirty one differs.
Behind ==
  /\ DOMAIN disk.index \subseteq DOMAIN index
  /\ \A b \in DOMAIN disk.index :
       \/ disk.index[b] = index[b]
       \/ disk.index[b] = NewEntry(index[b].file, index[b].pos)
  /\ \A b \in DOMAIN index \ dirty : b \in DOMAIN disk.index /\ disk.index[b] = index[b]

\* A file info that is not dirty is the one on disk, or that of a file not in use.
Synced == \A n \in Nat : \/ n \in dirtyFiles
                         \/ InfoOf(info, n) = NoInfo
                         \/ InfoOf(info, n) = DiskInfo(disk, n)

Exposed(b) == Place(index[b]) \in exposed

\* What an entry points at lies before the end of its file
InUse ==
  \A b \in DOMAIN index :
    \/ Exposed(b)
    \/ LET r == InfoOf(info, index[b].file)
       IN  index[b].pos < r.size /\ (index[b].undo # None => index[b].undo < r.usize)

\* On disk, that is so of the undo data.
UndoCounted ==
  \A b \in DOMAIN disk.index :
    \/ Exposed(b)
    \/ disk.index[b].undo = None
    \/ disk.index[b].undo < DiskInfo(disk, index[b].file).usize

\* Undo data that the file info on disk does not count are those of the active chain.
NewUndoIsActive ==
  \A b \in DOMAIN index :
    \/ Exposed(b)
    \/ index[b].undo = None
    \/ up /\ b \in Chain[tip]
    \/ index[b].undo < DiskInfo(disk, index[b].file).usize

\* While the node runs, both indexes hold the parents of what they hold, and the one on
\* disk holds the tip.
Rooted ==
  up => Closed(DOMAIN index) /\ Closed(DOMAIN disk.index) /\ tip \in DOMAIN disk.index

StoreInv ==
  /\ StoreType /\ Behind /\ Rooted /\ Synced /\ InUse /\ UndoCounted /\ NewUndoIsActive
  /\ OnlyExposedAreLost

Connected(f, x) == \A b \in Chain[x] : b \in DOMAIN f /\ (b # Genesis => f[b].undo # None)

\* As long as nothing is exposed, no blocks were replayed and no entry was found without
\* its parent, the coins are those of the tip, and the ones on disk are those of a block
\* that the index on disk knows.
Ready ==
  starts \cap {"replayed", "orphaned"} = {} /\ exposed = {} =>
    /\ up
    /\ coins.best = tip /\ tip \in Blocks
    /\ coins.applied = Chain[tip] \ {Genesis}
    /\ disk.coins.best \in Blocks
    /\ disk.coins.applied = Chain[disk.coins.best] \ {Genesis}
    /\ Connected(index, tip)
    /\ Connected(disk.index, disk.coins.best)

-------------------------------------------------------------------------------
(* Numbers, the tree and the file infos. *)

LEMMA LeastNatural ==
  ASSUME NEW T \in SUBSET Nat, T # {}
  PROVE  \E n \in T : \A m \in T : n <= m
<1> DEFINE R == OpToRel(<, Nat)
<1>1. IsWellFoundedOn(R, Nat)
  BY NatLessThanWellFounded
<1>2. \A m, n \in Nat : m < n => <<m, n>> \in R
  BY DEF OpToRel
<1> HIDE DEF R
<1>3. PICK n \in T : \A m \in T : ~(<<m, n>> \in R)
  BY <1>1, WFMin, Zenon
<1>4. ASSUME NEW m \in T  PROVE n <= m
  <2>1. ~(m < n)
    BY <1>2, <1>3
  <2> QED  BY <2>1
<1> QED  BY <1>4

\* What holds of a block when it is the genesis block, or when it holds of the parent,
\* holds of every block.
LEMMA TreeInduction ==
  ASSUME NEW S \in SUBSET Blocks, Genesis \in S,
         \A b \in Blocks \ {Genesis} : Parent[b] \in S => b \in S
  PROVE  S = Blocks
<1> DEFINE T == {Cardinality(Chain[b]) : b \in Blocks \ S}
<1> SUFFICES ASSUME Blocks \ S # {}  PROVE FALSE
  OBVIOUS
<1>1. \A b \in Blocks : IsFiniteSet(Chain[b]) /\ Cardinality(Chain[b]) \in Nat
  BY FS_CardinalityType, BlockStoreAssumption DEF BlockStoreAssumption
<1>2. T \in SUBSET Nat /\ T # {}
  BY <1>1
<1> HIDE DEF T
<1>3. PICK n \in T : \A m \in T : n <= m
  BY <1>2, LeastNatural
<1> USE DEF T
<1>4. PICK b \in Blocks \ S : n = Cardinality(Chain[b])
  BY <1>3
<1>5. /\ Parent[b] \in Blocks \ S /\ b \notin Chain[Parent[b]]
      /\ Chain[b] = Chain[Parent[b]] \cup {b}
  BY <1>4, BlockStoreAssumption DEF BlockStoreAssumption
<1>6. Cardinality(Chain[b]) = Cardinality(Chain[Parent[b]]) + 1
  BY <1>1, <1>5, FS_AddElement
<1>7. Cardinality(Chain[b]) <= Cardinality(Chain[Parent[b]])
  BY <1>3, <1>4, <1>5
<1> QED  BY <1>1, <1>4, <1>5, <1>6, <1>7

LEMMA ChainIs ==
  /\ Genesis \in Blocks /\ Chain[Genesis] = {Genesis}
  /\ \A b \in Blocks : b \in Chain[b] /\ Chain[b] \subseteq Blocks /\ IsFiniteSet(Chain[b])
  /\ \A b \in Blocks \ {Genesis} : /\ Parent[b] \in Blocks
                                   /\ Chain[b] = {b} \cup Chain[Parent[b]]
                                   /\ b \notin Chain[Parent[b]]
<1> DEFINE S == {b \in Blocks : b \in Chain[b] /\ Chain[b] \subseteq Blocks}
<1>1. /\ Genesis \in Blocks /\ Chain[Genesis] = {Genesis}
      /\ \A b \in Blocks : IsFiniteSet(Chain[b])
      /\ \A b \in Blocks \ {Genesis} : /\ Parent[b] \in Blocks
                                       /\ Chain[b] = {b} \cup Chain[Parent[b]]
                                       /\ b \notin Chain[Parent[b]]
  BY BlockStoreAssumption DEF BlockStoreAssumption
<1>2. Genesis \in S
  BY <1>1
<1>3. ASSUME NEW b \in Blocks \ {Genesis}, Parent[b] \in S  PROVE b \in S
  BY <1>1, <1>3
<1>4. S = Blocks
  <2>1. S \in SUBSET Blocks
    OBVIOUS
  <2> HIDE DEF S
  <2> QED  BY <1>2, <1>3, <2>1, TreeInduction
<1> QED  BY <1>1, <1>4

LEMMA HeightType ==
  ASSUME NEW b \in Blocks
  PROVE  Height(b) \in Nat
<1>1. b \in Chain[b] /\ IsFiniteSet(Chain[b])
  BY ChainIs
<1>2. Cardinality(Chain[b]) \in Nat /\ Cardinality(Chain[b]) # 0
  BY <1>1, FS_CardinalityType, FS_EmptySet
<1> QED  BY <1>2 DEF Height

LEMMA InfoOfType ==
  ASSUME NEW s \in Seq(Info), NEW n \in Nat
  PROVE  InfoOf(s, n) \in Info
<1>1. NoInfo \in Info
  BY DEF NoInfo, Info
<1>2. n < Len(s) => n + 1 \in 1 .. Len(s)
  OBVIOUS
<1> QED  BY <1>1, <1>2 DEF InfoOf

LEMMA WithInfoIs ==
  ASSUME NEW s \in Seq(Info), NEW n \in Nat, NEW r \in Info
  PROVE  /\ WithInfo(s, n, r) \in Seq(Info)
         /\ InfoOf(WithInfo(s, n, r), n) = r
         /\ \A m \in Nat : m # n => InfoOf(WithInfo(s, n, r), m) = InfoOf(s, m)
<1> DEFINE k == IF n < Len(s) THEN Len(s) ELSE n + 1
           f == [i \in 1 .. k |-> IF i = n + 1 THEN r ELSE InfoOf(s, i - 1)]
<1>1. k \in Nat /\ n < k /\ Len(s) <= k /\ Len(s) \in Nat
  OBVIOUS
<1>2. WithInfo(s, n, r) = f
  BY DEF WithInfo
<1> HIDE DEF k
<1>3. \A i \in 1 .. k : f[i] \in Info
  BY InfoOfType
<1>4. f \in Seq(Info) /\ Len(f) = k
  <2>1. f \in [1 .. k -> Info]
    BY <1>3
  <2> HIDE DEF f
  <2> QED  BY <1>1, <2>1
<1>5. ASSUME NEW m \in Nat  PROVE InfoOf(f, m) = IF m = n THEN r ELSE InfoOf(s, m)
  <2>1. CASE m < k
    <3>1. InfoOf(f, m) = f[m + 1] /\ m + 1 \in 1 .. k
      BY <1>4, <1>1, <2>1 DEF InfoOf
    <3>2. f[m + 1] = IF m + 1 = n + 1 THEN r ELSE InfoOf(s, m + 1 - 1)
      BY <3>1
    <3>3. m + 1 - 1 = m /\ (m + 1 = n + 1 <=> m = n)
      OBVIOUS
    <3> QED  BY <3>1, <3>2, <3>3
  <2>2. CASE ~(m < k)
    <3>1. InfoOf(f, m) = NoInfo
      BY <2>2, <1>4 DEF InfoOf
    <3>2. ~(m < Len(s)) /\ m # n
      BY <1>1, <2>2
    <3> QED  BY <3>1, <3>2 DEF InfoOf
  <2> QED  BY <2>1, <2>2
<1> QED  BY <1>2, <1>4, <1>5

\* FindBlockPos finds a file, and one that is not full.
LEMMA FileWithRoomIs ==
  ASSUME info \in Seq(Info), last \in Nat
  PROVE  /\ FileWithRoom \in Nat /\ FileWithRoom >= last
         /\ \A m \in last .. FileWithRoom - 1 : InfoOf(info, m).size >= PerFile
<1> DEFINE T == {n \in last .. last + Len(info) : InfoOf(info, n).size < PerFile}
<1>1. Len(info) \in Nat /\ PerFile \in Nat \ {0}
  BY BlockStoreAssumption DEF BlockStoreAssumption
<1>2. last + Len(info) \in T
  <2>1. InfoOf(info, last + Len(info)) = NoInfo
    BY <1>1 DEF InfoOf
  <2> QED  BY <1>1, <2>1 DEF NoInfo
<1>3. T \in SUBSET Nat
  BY <1>1
<1>4. PICK n \in T : \A m \in T : n <= m
  <2> HIDE DEF T
  <2> QED  BY <1>2, <1>3, LeastNatural
<1>5. ASSUME NEW m \in last .. n - 1  PROVE InfoOf(info, m).size >= PerFile
  <2>1. m \in last .. last + Len(info) /\ m < n /\ m \in Nat
    BY <1>1, <1>4
  <2>2. ~(InfoOf(info, m).size < PerFile)
    BY <2>1, <1>4
  <2>3. InfoOf(info, m).size \in Nat
    BY <2>1, InfoOfType DEF Info
  <2> QED  BY <1>1, <2>2, <2>3
<1>6. \E x \in last .. last + Len(info) :
        /\ InfoOf(info, x).size < PerFile
        /\ \A m \in last .. x - 1 : InfoOf(info, m).size >= PerFile
  BY <1>4, <1>5
<1>7. /\ FileWithRoom \in last .. last + Len(info)
      /\ \A m \in last .. FileWithRoom - 1 : InfoOf(info, m).size >= PerFile
  <2> DEFINE Room(x) == /\ InfoOf(info, x).size < PerFile
                        /\ \A m \in last .. x - 1 : InfoOf(info, m).size >= PerFile
  <2>1. FileWithRoom = CHOOSE x \in last .. last + Len(info) : Room(x)
    BY DEF FileWithRoom
  <2>2. \E x \in last .. last + Len(info) : Room(x)
    BY <1>6
  <2> HIDE DEF Room
  <2>3. FileWithRoom \in last .. last + Len(info) /\ Room(FileWithRoom)
    BY <2>1, <2>2
  <2> QED  BY <2>3 DEF Room
<1> QED  BY <1>1, <1>7

\* LoadBlockIndexDB reads the infos up to the last file, and those that follow it.
LEMMA InfoFromIs ==
  ASSUME NEW d, DiskType(d)
  PROVE  /\ InfoFrom(d) \in Seq(Info)
         /\ \A n \in Nat : InfoOf(InfoFrom(d), n) \in {NoInfo, DiskInfo(d, n)}
         /\ \A n \in Nat : 0 .. n \subseteq DOMAIN d.info =>
                            InfoOf(InfoFrom(d), n) = DiskInfo(d, n)
<1> DEFINE D == DOMAIN d.info
           l == d.last
           K == Cardinality(D)
           Good(m) == m + 1 \notin D /\ l + 1 .. m \subseteq D
           T == {m \in Nat : m >= l /\ m + 1 \notin D}
<1>1. l \in Nat /\ D \subseteq Nat /\ IsFiniteSet(D) /\ K \in Nat
  BY FS_CardinalityType DEF DiskType
<1> HIDE DEF K, D, l
<1>2. T # {}
  <2>1. SUFFICES ASSUME \A m \in Nat : m >= l => m + 1 \in D  PROVE FALSE
    OBVIOUS
  <2>2. l + 1 .. l + K + 1 \subseteq D
    <3> SUFFICES ASSUME NEW i \in l + 1 .. l + K + 1  PROVE i \in D
      OBVIOUS
    <3>1. i - 1 \in Nat /\ i - 1 >= l /\ i = (i - 1) + 1
      BY <1>1
    <3> QED  BY <2>1, <3>1
  <2>3. Cardinality(l + 1 .. l + K + 1) = K + 1
    <3>1. l + 1 \in Int /\ l + K + 1 \in Int /\ ~(l + 1 > l + K + 1)
      BY <1>1
    <3>2. Cardinality(l + 1 .. l + K + 1) = (l + K + 1) - (l + 1) + 1
      BY <3>1, FS_Interval
    <3> QED  BY <1>1, <3>2
  <2>4. Cardinality(l + 1 .. l + K + 1) <= K
    <3> DEFINE I == l + 1 .. l + K + 1
    <3>1. I \in SUBSET D
      BY <2>2
    <3> HIDE DEF I
    <3>2. Cardinality(I) <= Cardinality(D)
      BY <1>1, <3>1, FS_Subset
    <3> QED  BY <3>2 DEF I, K
  <2> QED  BY <1>1, <2>3, <2>4
<1>3. PICK m \in T : \A x \in T : m <= x
  <2>1. T \in SUBSET Nat
    OBVIOUS
  <2> HIDE DEF T
  <2> QED  BY <1>2, <2>1, LeastNatural
<1>4. m \in Nat /\ m >= l /\ m + 1 \notin D
  BY <1>3
<1>5. l + 1 .. m \subseteq D
  <2> SUFFICES ASSUME NEW i \in l + 1 .. m  PROVE i \in D
    OBVIOUS
  <2>1. i - 1 \in Nat /\ i - 1 >= l /\ i = (i - 1) + 1 /\ ~(m <= i - 1)
    BY <1>1, <1>4
  <2>2. i - 1 \notin T
    BY <1>3, <2>1
  <2> QED  BY <2>1, <2>2
<1>6. m \in l .. l + K
  <2>1. CASE m = l  BY <2>1, <1>1
  <2>2. CASE m > l
    <3> DEFINE I == l + 1 .. m
    <3>1. l + 1 \in Int /\ m \in Int /\ ~(l + 1 > m)
      BY <1>1, <1>4, <2>2
    <3>2. Cardinality(I) = m - (l + 1) + 1
      BY <3>1, FS_Interval
    <3>3. I \in SUBSET D
      BY <1>5
    <3>4. Cardinality(I) <= K
      <4> HIDE DEF I
      <4> QED  BY <1>1, <3>3, FS_Subset DEF K
    <3> HIDE DEF I
    <3> QED  BY <1>1, <1>4, <3>2, <3>4
  <2> QED  BY <1>1, <1>4, <2>1, <2>2
<1>7. \E x \in l .. l + K : Good(x)
  BY <1>4, <1>5, <1>6
<1> DEFINE n == CHOOSE x \in l .. l + K : Good(x)
           f == [i \in 1 .. n + 1 |-> IF i - 1 \in D THEN d.info[i - 1] ELSE NoInfo]
<1>8. n \in Nat /\ n + 1 \notin D
  <2>1. n \in l .. l + K /\ Good(n)
    BY <1>7
  <2> QED  BY <1>1, <2>1
<1>9. InfoFrom(d) = f
  BY DEF InfoFrom, D, K, l
<1> HIDE DEF n
<1>10. NoInfo \in Info /\ \A i \in D : d.info[i] \in Info
  BY DEF DiskType, NoInfo, Info, D
<1>11. f \in [1 .. n + 1 -> Info]
  BY <1>10
<1>12. f \in Seq(Info) /\ Len(f) = n + 1
  <2> HIDE DEF f
  <2> QED  BY <1>8, <1>11
<1>13. ASSUME NEW k \in Nat  PROVE InfoOf(f, k) \in {NoInfo, DiskInfo(d, k)}
  <2>1. CASE k < n + 1
    <3>1. InfoOf(f, k) = f[k + 1] /\ k + 1 \in 1 .. n + 1
      BY <1>12, <1>8, <2>1 DEF InfoOf
    <3>2. f[k + 1] = IF k + 1 - 1 \in D THEN d.info[k + 1 - 1] ELSE NoInfo
      BY <3>1
    <3>3. k + 1 - 1 = k
      OBVIOUS
    <3> QED  BY <3>1, <3>2, <3>3 DEF DiskInfo, D
  <2>2. CASE ~(k < n + 1)
    BY <2>2, <1>12 DEF InfoOf
  <2> QED  BY <2>1, <2>2
<1>14. ASSUME NEW k \in Nat, 0 .. k \subseteq D  PROVE InfoOf(f, k) = DiskInfo(d, k)
  <2>1. k < n + 1
    <3>1. n + 1 \notin 0 .. k
      BY <1>8, <1>14
    <3> QED  BY <1>8, <3>1
  <2>2. InfoOf(f, k) = f[k + 1] /\ k + 1 \in 1 .. n + 1
    BY <1>12, <1>8, <2>1 DEF InfoOf
  <2>3. k + 1 - 1 = k /\ k \in D
    BY <1>14
  <2>4. f[k + 1] = d.info[k]
    BY <2>2, <2>3
  <2> QED  BY <2>2, <2>3, <2>4 DEF DiskInfo, D
<1> QED  BY <1>9, <1>12, <1>13, <1>14 DEF D

-------------------------------------------------------------------------------
(* vSortedByHeight, and the blocks that a start replays. *)

LEMMA BeforeIsOrder ==
  /\ \A b \in Blocks : ~Before(b, b)
  /\ \A b, c \in Blocks : b # c => Before(b, c) \/ Before(c, b)
  /\ \A a, b, c \in Blocks : Before(a, b) /\ Before(b, c) => Before(a, c)
  /\ \A b, c \in Blocks : Before(b, c) => Height(b) <= Height(c) /\ ~Before(c, b)
<1>1. \A b \in Blocks : Height(b) \in Nat /\ Address[b] \in Nat
  BY HeightType, BlockStoreAssumption DEF BlockStoreAssumption
<1>2. \A b, c \in Blocks : b # c => Address[b] # Address[c]
  BY BlockStoreAssumption DEF BlockStoreAssumption
<1> QED  BY <1>1, <1>2 DEF Before

\* Among finitely many blocks every rank is taken.
LEMMA RankIsTaken ==
  ASSUME NEW S \in SUBSET Blocks, IsFiniteSet(S), NEW i \in 1 .. Cardinality(S)
  PROVE  \E b \in S : Cardinality({c \in S : Before(c, b)}) = i - 1
<1> DEFINE N == Cardinality(S)
           Pre(b) == {c \in S : Before(c, b)}
           rank == [b \in S |-> Cardinality(Pre(b)) + 1]
           T == (1 .. N) \ {i}
<1>1. N \in Nat
  BY FS_CardinalityType
<1>2. ASSUME NEW b \in S  PROVE IsFiniteSet(Pre(b)) /\ Cardinality(Pre(b)) \in 0 .. N - 1
  <2>1. Pre(b) \in SUBSET (S \ {b})
    BY BeforeIsOrder
  <2>2. IsFiniteSet(S \ {b}) /\ Cardinality(S \ {b}) = N - 1
    BY FS_RemoveElement
  <2>3. IsFiniteSet(Pre(b)) /\ Cardinality(Pre(b)) <= N - 1
    <3> HIDE DEF Pre
    <3> QED  BY <2>1, <2>2, FS_Subset
  <2>4. Cardinality(Pre(b)) \in Nat
    <3> HIDE DEF Pre
    <3> QED  BY <2>3, FS_CardinalityType
  <2> QED  BY <1>1, <2>3, <2>4
<1>3. ASSUME NEW b \in S, NEW c \in S, Before(b, c)  PROVE Cardinality(Pre(b)) < Cardinality(Pre(c))
  <2>1. Pre(b) \cup {b} \in SUBSET Pre(c) /\ b \notin Pre(b)
    BY <1>3, BeforeIsOrder
  <2>2. Cardinality(Pre(b) \cup {b}) = Cardinality(Pre(b)) + 1
    <3> HIDE DEF Pre
    <3> QED  BY <1>2, <2>1, FS_AddElement
  <2>3. Cardinality(Pre(b) \cup {b}) <= Cardinality(Pre(c))
    <3> HIDE DEF Pre
    <3> QED  BY <1>2, <2>1, FS_Subset
  <2> HIDE DEF Pre, N
  <2>4. Cardinality(Pre(b)) \in Nat /\ Cardinality(Pre(c)) \in Nat
    BY <1>1, <1>2
  <2> QED  BY <2>2, <2>3, <2>4
<1> HIDE DEF Pre
<1>4. SUFFICES ASSUME \A b \in S : Cardinality(Pre(b)) # i - 1  PROVE FALSE
  BY DEF Pre
<1>5. rank \in [S -> T]
  <2>1. ASSUME NEW b \in S  PROVE Cardinality(Pre(b)) + 1 \in T
    <3>1. Cardinality(Pre(b)) \in 0 .. N - 1 /\ Cardinality(Pre(b)) # i - 1
      BY <1>2, <1>4
    <3> HIDE DEF N
    <3> QED  BY <1>1, <3>1
  <2> QED  BY <2>1
<1>6. IsFiniteSet(T) /\ Cardinality(T) < N
  <2>1. IsFiniteSet(1 .. N) /\ Cardinality(1 .. N) = N
    <3> HIDE DEF N
    <3>1. IsFiniteSet(1 .. N) /\ Cardinality(1 .. N) = IF 1 > N THEN 0 ELSE N - 1 + 1
      BY <1>1, FS_Interval
    <3> QED  BY <1>1, <3>1
  <2>2. IsFiniteSet(T) /\ Cardinality(T) = Cardinality(1 .. N) - 1
    BY <2>1, FS_RemoveElement
  <2> QED  BY <1>1, <2>1, <2>2
<1>7. PICK b \in S, c \in S : b # c /\ rank[b] = rank[c]
  <2> HIDE DEF rank, T
  <2> QED  BY <1>5, <1>6, FS_PigeonHole
<1>8. Cardinality(Pre(b)) = Cardinality(Pre(c))
  <2>1. Cardinality(Pre(b)) \in Nat /\ Cardinality(Pre(c)) \in Nat
    <3> HIDE DEF N
    <3> QED  BY <1>1, <1>2
  <2>2. Cardinality(Pre(b)) + 1 = Cardinality(Pre(c)) + 1
    BY <1>7
  <2> QED  BY <2>1, <2>2
<1>9. Cardinality(Pre(b)) \in Nat /\ Cardinality(Pre(c)) \in Nat
  <2> HIDE DEF N
  <2> QED  BY <1>1, <1>2
<1>10. Before(b, c) \/ Before(c, b)
  BY <1>7, BeforeIsOrder
<1> QED  BY <1>3, <1>8, <1>9, <1>10

\* The entries of the index, each at its height.
LEMMA SortedIs ==
  ASSUME NEW d, DiskType(d)
  PROVE  /\ Cardinality(DOMAIN d.index) \in Nat
         /\ Sorted(d) \in [1 .. Cardinality(DOMAIN d.index) -> DOMAIN d.index]
         /\ Len(Sorted(d)) = Cardinality(DOMAIN d.index)
         /\ \A i, j \in 1 .. Cardinality(DOMAIN d.index) :
              i < j => Height(Sorted(d)[i]) <= Height(Sorted(d)[j])
         /\ \A i \in 1 .. Cardinality(DOMAIN d.index) :
              Cardinality({c \in DOMAIN d.index : Before(c, Sorted(d)[i])}) = i - 1
<1> DEFINE S == DOMAIN d.index
           N == Cardinality(S)
           Rank(b) == Cardinality({c \in S : Before(c, b)})
           s == [i \in 1 .. N |-> CHOOSE b \in S : Rank(b) = i - 1]
<1>1. S \in SUBSET Blocks /\ IsFiniteSet(S)
  BY DEF DiskType, EntriesIn
<1>2. Sorted(d) = s
  BY DEF Sorted
<1> HIDE DEF S
<1>3. N \in Nat
  BY <1>1, FS_CardinalityType
<1> HIDE DEF N
<1>4. ASSUME NEW i \in 1 .. N  PROVE s[i] \in S /\ Rank(s[i]) = i - 1
  <2>1. \E b \in S : Rank(b) = i - 1
    BY <1>1, RankIsTaken DEF N
  <2>2. s[i] = CHOOSE b \in S : Rank(b) = i - 1
    OBVIOUS
  <2> HIDE DEF Rank, s
  <2> QED  BY <2>1, <2>2
<1>5. s \in [1 .. N -> S]
  <2>1. s = [i \in 1 .. N |-> s[i]]
    OBVIOUS
  <2> HIDE DEF s
  <2> QED  BY <1>4, <2>1
<1>6. Len(s) = N
  <2> HIDE DEF s
  <2>1. s \in Seq(S)
    BY <1>3, <1>5
  <2> QED  BY <1>3, <1>5, <2>1
<1>7. ASSUME NEW i \in 1 .. N, NEW j \in 1 .. N, i < j  PROVE Height(s[i]) <= Height(s[j])
  <2> DEFINE Pre(b) == {c \in S : Before(c, b)}
  <2>1. s[i] \in S /\ s[j] \in S /\ Rank(s[i]) = i - 1 /\ Rank(s[j]) = j - 1
    BY <1>4
  <2> HIDE DEF s
  <2>2. ~Before(s[j], s[i])
    <3> SUFFICES ASSUME Before(s[j], s[i])  PROVE FALSE
      OBVIOUS
    <3>1. Pre(s[j]) \in SUBSET Pre(s[i])
      BY <1>1, <2>1, BeforeIsOrder
    <3>2. IsFiniteSet(Pre(s[i]))
      <4>1. Pre(s[i]) \in SUBSET S
        OBVIOUS
      <4> HIDE DEF Pre
      <4> QED  BY <1>1, <4>1, FS_Subset
    <3>3. Cardinality(Pre(s[j])) <= Cardinality(Pre(s[i]))
      <4> HIDE DEF Pre
      <4> QED  BY <3>1, <3>2, FS_Subset
    <3>4. Rank(s[j]) <= Rank(s[i])
      BY <3>3
    <3> HIDE DEF Rank
    <3> QED  BY <2>1, <3>4, <1>3, <1>7
  <2>3. s[i] # s[j]
    <3> HIDE DEF Rank
    <3> QED  BY <2>1, <1>3, <1>7
  <2>4. Before(s[i], s[j])
    BY <1>1, <2>1, <2>2, <2>3, BeforeIsOrder
  <2> QED  BY <1>1, <2>1, <2>4, BeforeIsOrder
<1>8. \A i \in 1 .. N : Rank(s[i]) = i - 1
  BY <1>4
<1> HIDE DEF s
<1> QED  BY <1>2, <1>3, <1>5, <1>6, <1>7, <1>8 DEF N, S

\* What is replayed are entries of the index, and there is at least one.
LEMMA ReplayIs ==
  ASSUME NEW d, DiskType(d), NeedsReplay(d)
  PROVE  /\ Replay(d) \in Seq(DOMAIN d.index)
         /\ Last(Replay(d)) \in DOMAIN d.index
<1> DEFINE S == DOMAIN d.index
           N == Cardinality(S)
           s == Sorted(d)
           M == LastMeta(d)
<1>1. /\ N \in Nat /\ s \in [1 .. N -> S] /\ Len(s) = N
      /\ \A i, j \in 1 .. N : i < j => Height(s[i]) <= Height(s[j])
  BY SortedIs
<1>2. S \subseteq Blocks
  BY DEF DiskType, EntriesIn
<1>3. M \in 1 .. N
  <2>1. M \in Nat /\ M >= 2
    <3>1. CASE d.last \in DOMAIN d.info
      <4>1. d.info[d.last].top \in Nat
        BY <3>1 DEF DiskType, Info
      <4> QED  BY <3>1, <4>1 DEF LastMeta
    <3>2. CASE d.last \notin DOMAIN d.info
      BY <3>2 DEF LastMeta
    <3> QED  BY <3>1, <3>2
  <2>2. Len(s) >= M
    BY DEF NeedsReplay
  <2> HIDE DEF N, s, M
  <2> QED  BY <1>1, <2>1, <2>2
<1>4. CASE FirstAbove(d) = {}
  <2>1. Replay(d) = <<s[1]>>
    BY <1>4 DEF Replay
  <2>2. 1 \in 1 .. N
    <3> HIDE DEF N, M
    <3> QED  BY <1>1, <1>3
  <2>3. s[1] \in S
    BY <1>1, <2>2
  <2> HIDE DEF s, S
  <2>4. <<s[1]>> \in Seq(S) /\ Last(<<s[1]>>) = s[1]
    BY <2>3 DEF Last
  <2> QED  BY <2>1, <2>3, <2>4 DEF S
<1>5. CASE FirstAbove(d) # {}
  <2> DEFINE first == CHOOSE i \in FirstAbove(d) : TRUE
             Ends(i) == /\ Height(s[i]) = Height(s[M])
                        /\ \A j \in first .. i - 1 : Height(s[j]) < Height(s[i])
             end == IF first > M THEN first ELSE CHOOSE i \in first .. M : Ends(i)
  <2>1. Replay(d) = SubSeq(s, first, end)
    BY <1>5 DEF Replay
  <2>2. first \in 1 .. N
    <3>1. first \in FirstAbove(d)
      BY <1>5
    <3>2. FirstAbove(d) \subseteq DOMAIN s
      BY DEF FirstAbove
    <3> QED  BY <1>1, <3>1, <3>2
  <2> HIDE DEF first
  <2>3. end \in first .. N
    <3>1. CASE first > M
      BY <2>2, <3>1, <1>1
    <3>2. CASE ~(first > M)
      <4> DEFINE T == {i \in first .. M : Height(s[i]) = Height(s[M])}
      <4>0. \A i \in 1 .. N : Height(s[i]) \in Nat
        <5> SUFFICES ASSUME NEW i \in 1 .. N  PROVE Height(s[i]) \in Nat
          OBVIOUS
        <5>1. s[i] \in Blocks
          BY <1>1, <1>2
        <5> QED  BY <5>1, HeightType
      <4> HIDE DEF s, M, N
      <4>1. T \in SUBSET Nat /\ M \in T /\ \A i \in first .. M : i \in 1 .. N
        BY <1>1, <1>3, <2>2, <3>2
      <4>2. PICK i \in T : \A j \in T : i <= j
        <5> HIDE DEF T
        <5> QED  BY <4>1, LeastNatural
      <4>3. ASSUME NEW j \in first .. i - 1  PROVE Height(s[j]) < Height(s[i])
        <5>1. j \in first .. M /\ j < i /\ j \in 1 .. N /\ j < M
          BY <1>1, <1>3, <2>2, <3>2, <4>1, <4>2
        <5>2. j \notin T
          BY <4>2, <5>1
        <5>3. Height(s[j]) # Height(s[M])
          BY <5>1, <5>2
        <5>4. Height(s[j]) <= Height(s[M])
          BY <1>1, <1>3, <5>1
        <5>5. Height(s[j]) \in Nat /\ Height(s[M]) \in Nat
          BY <4>0, <5>1, <1>3
        <5>6. Height(s[i]) = Height(s[M])
          BY <4>2
        <5> QED  BY <5>3, <5>4, <5>5, <5>6
      <4>4. i \in first .. M /\ Ends(i)
        BY <4>2, <4>3
      <4> HIDE DEF Ends
      <4>5. end \in first .. M
        BY <3>2, <4>4
      <4> QED  BY <4>5, <1>1, <1>3, <2>2
    <3> QED  BY <3>1, <3>2
  <2> HIDE DEF end, s, S, N
  <2>4. \A i \in first .. end : s[i] \in S
    BY <1>1, <2>2, <2>3
  <2>5. first \in Int /\ end \in Int /\ first <= end
    BY <1>1, <2>2, <2>3
  <2>6. /\ SubSeq(s, first, end) \in Seq(S)
        /\ Len(SubSeq(s, first, end)) = end - first + 1
        /\ \A i \in 1 .. end - first + 1 : SubSeq(s, first, end)[i] = s[first + i - 1]
    <3>1. Len(SubSeq(s, first, end)) = IF first <= end THEN end - first + 1 ELSE 0
      BY <2>4, <2>5, SubSeqProperties
    <3> QED  BY <2>4, <2>5, <3>1, SubSeqProperties
  <2>7. SubSeq(s, first, end)[end - first + 1] = s[end]
    <3>1. end - first + 1 \in 1 .. end - first + 1 /\ first + (end - first + 1) - 1 = end
      BY <2>5
    <3> QED  BY <2>6, <3>1
  <2>8. s[end] \in S
    BY <2>4, <2>5
  <2> QED  BY <2>1, <2>6, <2>7, <2>8 DEF Last, S
<1> QED  BY <1>4, <1>5

-------------------------------------------------------------------------------
(* What a flush leaves on disk, complete or cut off. *)

LastSaved(d) == /\ dirtyFiles = {} => d.last = disk.last
                /\ dirtyFiles # {} => d.last = last

\* d is the disk with the file infos of S and the entries of T written to it, and the
\* number of the last file between them.
Saved(d, S, T) ==
  /\ S \subseteq dirtyFiles /\ T \subseteq dirty
  /\ T # {} => S = dirtyFiles
  /\ \A m \in S, n \in dirtyFiles : n <= m => n \in S
  /\ \/ T = {} /\ d.last = disk.last
     \/ S = dirtyFiles /\ LastSaved(d)
  /\ DiskType(d)
  /\ d.blk = disk.blk /\ d.rev = disk.rev
  /\ DOMAIN d.info = DOMAIN disk.info \cup S
  /\ \A n \in DOMAIN d.info : d.info[n] = IF n \in S THEN InfoOf(info, n) ELSE disk.info[n]
  /\ DOMAIN d.index = DOMAIN disk.index \cup T
  /\ \A b \in DOMAIN d.index : d.index[b] = IF b \in T THEN index[b] ELSE disk.index[b]

LEMMA InfosWritten ==
  ASSUME StoreType, NEW d, DiskType(d), NEW S \in SUBSET dirtyFiles
  PROVE  /\ DiskType(WithInfos(d, S))
         /\ WithInfos(d, S).blk = d.blk /\ WithInfos(d, S).rev = d.rev
         /\ WithInfos(d, S).index = d.index /\ WithInfos(d, S).coins = d.coins
         /\ WithInfos(d, S).last = d.last /\ WithInfos(d, S).clean = d.clean
         /\ WithInfos(d, S).info = [n \in DOMAIN d.info \cup S |->
                                      IF n \in S THEN InfoOf(info, n) ELSE d.info[n]]
<1> DEFINE f == [n \in DOMAIN d.info \cup S |-> IF n \in S THEN InfoOf(info, n) ELSE d.info[n]]
           w == [blk |-> d.blk, rev |-> d.rev, index |-> d.index, info |-> f,
                 last |-> d.last, coins |-> d.coins, clean |-> d.clean]
<1>1. /\ IsDisk(d) /\ EntriesIn(d.index) /\ d.last \in Nat
      /\ DOMAIN d.info \subseteq Nat /\ IsFiniteSet(DOMAIN d.info)
      /\ \A n \in DOMAIN d.info : d.info[n] \in Info
  BY DEF DiskType
<1>2. info \in Seq(Info) /\ S \subseteq Nat /\ IsFiniteSet(S)
  BY FS_Subset DEF StoreType
<1>3. DOMAIN f \subseteq Nat /\ IsFiniteSet(DOMAIN f) /\ \A n \in DOMAIN f : f[n] \in Info
  <2>1. DOMAIN f = DOMAIN d.info \cup S
    OBVIOUS
  <2>2. IsFiniteSet(DOMAIN d.info \cup S)
    BY <1>1, <1>2, FS_Union
  <2>3. ASSUME NEW n \in DOMAIN f  PROVE f[n] \in Info
    <3>1. CASE n \in S
      <4>1. InfoOf(info, n) \in Info
        BY <1>2, <3>1, InfoOfType
      <4> QED  BY <3>1, <4>1
    <3>2. CASE n \notin S
      <4>1. n \in DOMAIN d.info
        BY <3>2
      <4>2. f[n] = d.info[n]
        BY <3>2
      <4> QED  BY <1>1, <4>1, <4>2
    <3> QED  BY <3>1, <3>2
  <2> QED  BY <1>1, <1>2, <2>1, <2>2, <2>3
<1>4. WithInfos(d, S) = [d EXCEPT !.info = f]
  BY DEF WithInfos
<1> HIDE DEF f
<1>5. WithInfos(d, S) = w
  BY <1>1, <1>4 DEF IsDisk
<1>6. DiskType(w)
  BY <1>1, <1>3 DEF DiskType, IsDisk
<1> QED  BY <1>5, <1>6 DEF f

LEMMA EntriesWrittenAs ==
  ASSUME StoreType, NEW d, DiskType(d), NEW T \in SUBSET DOMAIN index, NEW f,
         f = [b \in DOMAIN d.index \cup T |-> IF b \in T THEN index[b] ELSE d.index[b]]
  PROVE  /\ DiskType(WithEntries(d, T)) /\ WithEntries(d, T).index = f
         /\ WithEntries(d, T).blk = d.blk /\ WithEntries(d, T).rev = d.rev
         /\ WithEntries(d, T).info = d.info /\ WithEntries(d, T).coins = d.coins
         /\ WithEntries(d, T).last = d.last /\ WithEntries(d, T).clean = d.clean
<1> DEFINE w == [blk |-> d.blk, rev |-> d.rev, index |-> f, info |-> d.info,
                 last |-> d.last, coins |-> d.coins, clean |-> d.clean]
<1>1. /\ IsDisk(d) /\ d.last \in Nat
      /\ DOMAIN d.index \subseteq Blocks /\ IsFiniteSet(DOMAIN d.index)
      /\ \A b \in DOMAIN d.index : d.index[b] \in Entry
      /\ DOMAIN d.info \subseteq Nat /\ IsFiniteSet(DOMAIN d.info)
      /\ \A n \in DOMAIN d.info : d.info[n] \in Info
  BY DEF DiskType, EntriesIn
<1>2. /\ IsFiniteSet(T) /\ DOMAIN index \subseteq Blocks
      /\ \A b \in DOMAIN index : index[b] \in Entry
  BY FS_Subset DEF StoreType, EntriesIn
<1>3. EntriesIn(f)
  <2>1. DOMAIN f = DOMAIN d.index \cup T
    OBVIOUS
  <2>2. IsFiniteSet(DOMAIN d.index \cup T)
    BY <1>1, <1>2, FS_Union
  <2>3. \A b \in DOMAIN f : f[b] \in Entry
    BY <1>1, <1>2
  <2> QED  BY <1>1, <1>2, <2>1, <2>2, <2>3 DEF EntriesIn
<1>4. WithEntries(d, T) = [d EXCEPT !.index = f]
  BY DEF WithEntries
<1>5. WithEntries(d, T) = w
  BY <1>1, <1>4 DEF IsDisk
<1>6. DiskType(w)
  BY <1>1, <1>3 DEF DiskType, IsDisk
<1> QED  BY <1>5, <1>6

LEMMA EntriesWritten ==
  ASSUME StoreType, NEW d, DiskType(d), NEW T \in SUBSET DOMAIN index
  PROVE  /\ DiskType(WithEntries(d, T))
         /\ WithEntries(d, T).blk = d.blk /\ WithEntries(d, T).rev = d.rev
         /\ WithEntries(d, T).info = d.info /\ WithEntries(d, T).coins = d.coins
         /\ WithEntries(d, T).last = d.last /\ WithEntries(d, T).clean = d.clean
         /\ WithEntries(d, T).index = [b \in DOMAIN d.index \cup T |->
                                         IF b \in T THEN index[b] ELSE d.index[b]]
<1> DEFINE f == [b \in DOMAIN d.index \cup T |-> IF b \in T THEN index[b] ELSE d.index[b]]
<1>2. /\ DiskType(WithEntries(d, T)) /\ WithEntries(d, T).index = f
      /\ WithEntries(d, T).blk = d.blk /\ WithEntries(d, T).rev = d.rev
      /\ WithEntries(d, T).info = d.info /\ WithEntries(d, T).coins = d.coins
      /\ WithEntries(d, T).last = d.last /\ WithEntries(d, T).clean = d.clean
  BY EntriesWrittenAs
<1> QED  BY <1>2

LEMMA LastWritten ==
  ASSUME StoreType, NEW d, DiskType(d)
  PROVE  /\ DiskType(WithLast(d))
         /\ WithLast(d).blk = d.blk /\ WithLast(d).rev = d.rev /\ WithLast(d).index = d.index
         /\ WithLast(d).info = d.info /\ WithLast(d).coins = d.coins
         /\ WithLast(d).clean = d.clean
         /\ dirtyFiles = {} => WithLast(d).last = d.last
         /\ dirtyFiles # {} => WithLast(d).last = last
<1> DEFINE l == IF dirtyFiles = {} THEN d.last ELSE last
           w == [blk |-> d.blk, rev |-> d.rev, index |-> d.index, info |-> d.info,
                 last |-> l, coins |-> d.coins, clean |-> d.clean]
<1>1. /\ IsDisk(d) /\ EntriesIn(d.index) /\ d.last \in Nat
      /\ DOMAIN d.info \subseteq Nat /\ IsFiniteSet(DOMAIN d.info)
      /\ \A n \in DOMAIN d.info : d.info[n] \in Info
  BY DEF DiskType
<1>2. l \in Nat
  BY <1>1 DEF StoreType
<1>3. WithLast(d) = [d EXCEPT !.last = l]
  BY <1>1 DEF WithLast, IsDisk
<1>6. (dirtyFiles = {} => l = d.last) /\ (dirtyFiles # {} => l = last)
  OBVIOUS
<1> HIDE DEF l
<1>4. WithLast(d) = w
  BY <1>1, <1>3 DEF IsDisk
<1>5. DiskType(w)
  BY <1>1, <1>2 DEF DiskType, IsDisk
<1> QED  BY <1>4, <1>5, <1>6

LEMMA InfosSaved ==
  ASSUME StoreType
  PROVE  LET w == WithInfos(disk, dirtyFiles)
         IN  /\ DiskType(w) /\ w.blk = disk.blk /\ w.rev = disk.rev /\ w.index = disk.index
             /\ w.info = [n \in DOMAIN disk.info \cup dirtyFiles |->
                            IF n \in dirtyFiles THEN InfoOf(info, n) ELSE disk.info[n]]
             /\ w.coins = disk.coins /\ w.last = disk.last /\ w.clean = disk.clean
<1>1. DiskType(disk) /\ dirtyFiles \in SUBSET dirtyFiles
  BY DEF StoreType
<1> QED  BY <1>1, InfosWritten

\* A flush that gets as far as the entries of T.
LEMMA UpToEntries ==
  ASSUME StoreType, NEW T \in SUBSET dirty
  PROVE  LET d == WithEntries(WithLast(WithInfos(disk, dirtyFiles)), T)
         IN  Saved(d, dirtyFiles, T) /\ d.coins = disk.coins /\ d.clean = disk.clean /\ LastSaved(d)
<1> DEFINE w == WithInfos(disk, dirtyFiles)
           l == WithLast(w)
           d == WithEntries(l, T)
<1>1. DiskType(disk) /\ T \subseteq DOMAIN index
  BY DEF StoreType
<1>2. /\ DiskType(w) /\ w.blk = disk.blk /\ w.rev = disk.rev /\ w.index = disk.index
      /\ w.info = [n \in DOMAIN disk.info \cup dirtyFiles |->
                     IF n \in dirtyFiles THEN InfoOf(info, n) ELSE disk.info[n]]
      /\ w.coins = disk.coins /\ w.last = disk.last /\ w.clean = disk.clean
  BY InfosSaved
<1> HIDE DEF w
<1>3. /\ DiskType(l) /\ l.blk = w.blk /\ l.rev = w.rev /\ l.index = w.index
      /\ l.info = w.info /\ l.coins = w.coins /\ l.clean = w.clean
      /\ dirtyFiles = {} => l.last = w.last
      /\ dirtyFiles # {} => l.last = last
  BY <1>2, LastWritten
<1> HIDE DEF l
<1>4. /\ DiskType(d) /\ d.blk = l.blk /\ d.rev = l.rev
      /\ d.index = [b \in DOMAIN l.index \cup T |-> IF b \in T THEN index[b] ELSE l.index[b]]
      /\ d.info = l.info /\ d.coins = l.coins /\ d.last = l.last /\ d.clean = l.clean
  BY <1>1, <1>3, EntriesWritten
<1> HIDE DEF d
<1>5. Saved(d, dirtyFiles, T) /\ LastSaved(d)
  BY <1>2, <1>3, <1>4 DEF Saved, LastSaved
<1> QED  BY <1>2, <1>3, <1>4, <1>5 DEF d, l, w

LEMMA CutOffIs ==
  ASSUME StoreType, NEW d \in CutOff
  PROVE  d.coins = disk.coins /\ d.clean = disk.clean /\ \E S, T : Saved(d, S, T)
<1> DEFINE counted == WithLast(WithInfos(disk, dirtyFiles))
           Old(b) == {c \in dirty : Address[c] <= Address[b]}
<1>1. DiskType(disk)
  BY DEF StoreType
<1>2. \/ d = disk
      \/ d = counted
      \/ \E n \in dirtyFiles : d = WithInfos(disk, UpTo(dirtyFiles, n))
      \/ \E b \in dirty : d = WithEntries(counted, Old(b))
  BY DEF CutOff
<1>3. CASE d = disk
  <2>1. Saved(disk, {}, {})
    BY <1>1 DEF Saved
  <2> QED  BY <1>3, <2>1
<1>4. ASSUME NEW n \in dirtyFiles, d = WithInfos(disk, UpTo(dirtyFiles, n))
      PROVE  d.coins = disk.coins /\ d.clean = disk.clean /\ \E S, T : Saved(d, S, T)
  <2> DEFINE S == UpTo(dirtyFiles, n)
             w == WithInfos(disk, S)
  <2>1. S \in SUBSET dirtyFiles
    BY DEF UpTo
  <2>4. \A m \in S, k \in dirtyFiles : k <= m => k \in S
    BY DEF UpTo, StoreType
  <2> HIDE DEF S
  <2>2. /\ DiskType(w) /\ w.blk = disk.blk /\ w.rev = disk.rev /\ w.index = disk.index
        /\ w.info = [m \in DOMAIN disk.info \cup S |->
                       IF m \in S THEN InfoOf(info, m) ELSE disk.info[m]]
        /\ w.coins = disk.coins /\ w.last = disk.last /\ w.clean = disk.clean
    BY <1>1, <2>1, InfosWritten
  <2> HIDE DEF w
  <2>3. Saved(w, S, {})
    BY <2>1, <2>2, <2>4 DEF Saved
  <2> QED  BY <1>4, <2>2, <2>3 DEF S, w
<1>5. ASSUME NEW b \in dirty, d = WithEntries(counted, Old(b))
      PROVE  d.coins = disk.coins /\ d.clean = disk.clean /\ \E S, T : Saved(d, S, T)
  <2>1. Old(b) \in SUBSET dirty
    OBVIOUS
  <2> HIDE DEF Old
  <2> QED  BY <1>5, <2>1, UpToEntries
<1>6. CASE d = counted
  <2> DEFINE w == WithInfos(disk, dirtyFiles)
  <2>1. /\ DiskType(w) /\ w.blk = disk.blk /\ w.rev = disk.rev /\ w.index = disk.index
        /\ w.info = [m \in DOMAIN disk.info \cup dirtyFiles |->
                       IF m \in dirtyFiles THEN InfoOf(info, m) ELSE disk.info[m]]
        /\ w.coins = disk.coins /\ w.last = disk.last /\ w.clean = disk.clean
    BY InfosSaved
  <2> HIDE DEF w
  <2>2. /\ DiskType(WithLast(w)) /\ WithLast(w).blk = w.blk /\ WithLast(w).rev = w.rev
        /\ WithLast(w).index = w.index /\ WithLast(w).info = w.info
        /\ WithLast(w).coins = w.coins /\ WithLast(w).clean = w.clean
        /\ dirtyFiles = {} => WithLast(w).last = w.last
        /\ dirtyFiles # {} => WithLast(w).last = last
    BY <2>1, LastWritten
  <2>3. Saved(WithLast(w), dirtyFiles, {})
    BY <2>1, <2>2 DEF Saved, LastSaved
  <2> QED  BY <1>6, <2>1, <2>2, <2>3 DEF w
<1> QED  BY <1>2, <1>3, <1>4, <1>5, <1>6

LEMMA FlushedIs ==
  ASSUME StoreType, NEW c
  PROVE  /\ Saved(Flushed(c), dirtyFiles, dirty)
         /\ Saved([Flushed(c) EXCEPT !.clean = TRUE], dirtyFiles, dirty)
         /\ Flushed(c).coins = c
         /\ [Flushed(c) EXCEPT !.clean = TRUE].coins = c
         /\ Flushed(c).clean = disk.clean
         /\ LastSaved(Flushed(c)) /\ LastSaved([Flushed(c) EXCEPT !.clean = TRUE])
<1> DEFINE d == BeforeCoins
           e == [blk |-> d.blk, rev |-> d.rev, index |-> d.index, info |-> d.info,
                 last |-> d.last, coins |-> c, clean |-> d.clean]
           f == [blk |-> d.blk, rev |-> d.rev, index |-> d.index, info |-> d.info,
                 last |-> d.last, coins |-> c, clean |-> TRUE]
<1>1. Saved(d, dirtyFiles, dirty) /\ d.clean = disk.clean /\ LastSaved(d)
  BY UpToEntries DEF BeforeCoins
<1>2. IsDisk(d) /\ DiskType(d)
  BY <1>1 DEF Saved, DiskType
<1>3. Flushed(c) = [d EXCEPT !.coins = c]
  BY DEF Flushed
<1> HIDE DEF d
<1>4. Flushed(c) = e
  BY <1>2, <1>3 DEF IsDisk
<1>5. ASSUME NEW t
      PROVE  [e EXCEPT !.clean = t] = [blk |-> d.blk, rev |-> d.rev, index |-> d.index,
                                       info |-> d.info, last |-> d.last, coins |-> c,
                                       clean |-> t]
  OBVIOUS
<1>6. DiskType(e) /\ DiskType(f)
  BY <1>2 DEF DiskType, IsDisk
<1>7. Saved(e, dirtyFiles, dirty) /\ Saved(f, dirtyFiles, dirty)
  BY <1>1, <1>6 DEF Saved, LastSaved
<1>8. [e EXCEPT !.clean = TRUE] = f
  BY <1>5, Zenon
<1>9. /\ e.coins = c /\ f.coins = c /\ e.clean = d.clean
      /\ LastSaved(e) /\ LastSaved(f)
  BY <1>1 DEF LastSaved
<1> HIDE DEF e, f
<1> QED  BY <1>1, <1>4, <1>7, <1>8, <1>9

\* What is saved is behind the memory, and its undo data are counted.
LEMMA SavedFits ==
  ASSUME StoreInv, NEW d, NEW S, NEW T, Saved(d, S, T)
  PROVE  /\ DOMAIN d.index \subseteq DOMAIN index
         /\ \A b \in DOMAIN d.index :
              /\ \/ d.index[b] = index[b]
                 \/ d.index[b] = NewEntry(index[b].file, index[b].pos)
              /\ \/ Exposed(b)
                 \/ d.index[b].undo = None
                 \/ d.index[b].undo < DiskInfo(d, index[b].file).usize
<1> USE DEF StoreInv
<1>1. /\ S \subseteq dirtyFiles /\ T \subseteq dirty /\ (T # {} => S = dirtyFiles)
      /\ DOMAIN d.info = DOMAIN disk.info \cup S
      /\ \A n \in DOMAIN d.info : d.info[n] = IF n \in S THEN InfoOf(info, n) ELSE disk.info[n]
      /\ DOMAIN d.index = DOMAIN disk.index \cup T
      /\ \A b \in DOMAIN d.index : d.index[b] = IF b \in T THEN index[b] ELSE disk.index[b]
  BY DEF Saved
<1>2. DOMAIN d.index \subseteq DOMAIN index
  BY <1>1 DEF Behind, StoreType
<1>3. ASSUME NEW b \in DOMAIN d.index
      PROVE  \/ d.index[b] = index[b]
             \/ d.index[b] = NewEntry(index[b].file, index[b].pos)
  BY <1>1 DEF Behind
<1>4. \A n : DiskInfo(d, n) = IF n \in S THEN InfoOf(info, n) ELSE DiskInfo(disk, n)
  BY <1>1 DEF DiskInfo
<1>5. ASSUME NEW b \in DOMAIN d.index, ~Exposed(b), d.index[b].undo # None
      PROVE  d.index[b].undo < DiskInfo(d, index[b].file).usize
  <2> DEFINE n == index[b].file
  <2>1. b \in DOMAIN index
    BY <1>2
  <2>2. n \in Nat /\ index[b].pos \in Nat
    BY <2>1 DEF StoreType, EntriesIn, Entry
  <2>3. d.index[b].undo = index[b].undo
    <3>1. NewEntry(index[b].file, index[b].pos).undo = None
      BY DEF NewEntry
    <3> QED  BY <1>3, <1>5, <3>1
  <2>4. index[b].pos < InfoOf(info, n).size /\ index[b].undo < InfoOf(info, n).usize
    BY <1>5, <2>1, <2>3 DEF InUse
  <2>5. CASE n \in S
    BY <1>4, <2>3, <2>4, <2>5
  <2>6. CASE n \notin S /\ b \in T
    <3>1. n \notin dirtyFiles
      BY <1>1, <2>6
    <3>2. InfoOf(info, n) # NoInfo
      BY <2>2, <2>4 DEF NoInfo
    <3>3. InfoOf(info, n) = DiskInfo(disk, n)
      BY <2>2, <3>1, <3>2 DEF Synced
    <3> QED  BY <1>4, <2>3, <2>4, <2>6, <3>3
  <2>7. CASE n \notin S /\ b \notin T
    <3>1. b \in DOMAIN disk.index /\ d.index[b] = disk.index[b]
      BY <1>1, <2>7
    <3>2. disk.index[b].undo < DiskInfo(disk, n).usize
      BY <1>5, <3>1 DEF UndoCounted
    <3> QED  BY <1>4, <2>7, <3>1, <3>2
  <2> QED  BY <2>5, <2>6, <2>7
<1> QED  BY <1>2, <1>3, <1>5

\* A flush that is not cut off leaves nothing behind.
LEMMA FlushedIsMemory ==
  ASSUME StoreInv, NEW d, Saved(d, dirtyFiles, dirty)
  PROVE  /\ DOMAIN d.index = DOMAIN index
         /\ \A b \in DOMAIN index : d.index[b] = index[b]
         /\ \A n \in Nat : InfoOf(info, n) = NoInfo \/ InfoOf(info, n) = DiskInfo(d, n)
<1> USE DEF StoreInv
<1>1. /\ DOMAIN d.info = DOMAIN disk.info \cup dirtyFiles
      /\ \A n \in DOMAIN d.info :
           d.info[n] = IF n \in dirtyFiles THEN InfoOf(info, n) ELSE disk.info[n]
      /\ DOMAIN d.index = DOMAIN disk.index \cup dirty
      /\ \A b \in DOMAIN d.index : d.index[b] = IF b \in dirty THEN index[b] ELSE disk.index[b]
  BY DEF Saved
<1>2. DOMAIN d.index = DOMAIN index /\ \A b \in DOMAIN index : d.index[b] = index[b]
  BY <1>1 DEF Behind, StoreType
<1>3. \A n \in Nat : InfoOf(info, n) = NoInfo \/ InfoOf(info, n) = DiskInfo(d, n)
  BY <1>1 DEF Synced, DiskInfo
<1> QED  BY <1>2, <1>3

-------------------------------------------------------------------------------
(* A start. *)

LEMMA PairIs ==
  ASSUME NEW p, NEW c, NEW o, o = <<p, c>>
  PROVE  o[1] = p /\ o[2] = c
OBVIOUS

LEMMA CheckedIs ==
  ASSUME NEW d, NEW c, NEW o \in Checked(d, c)
  PROVE  o[2] = c /\ (o[1] => Verified(d, c))
<1>1. o = <<Verified(d, c), c>> \/ o = <<FALSE, c>>
  BY Zenon DEF Checked
<1>2. CASE o = <<Verified(d, c), c>>
  <2>1. o[1] = Verified(d, c) /\ o[2] = c
    BY <1>2, PairIs, Zenon
  <2> QED  BY <2>1, Zenon
<1>3. CASE o = <<FALSE, c>>
  <2>1. o[1] = FALSE /\ o[2] = c
    BY <1>3, PairIs, Zenon
  <2> QED  BY <2>1, Zenon
<1> QED  BY <1>1, <1>2, <1>3

LEMMA RefusedIs ==
  ASSUME NEW d, NEW o \in Refused(d)
  PROVE  ~o[1] /\ o[2] = d.coins
<1>1. o = <<FALSE, d.coins>>
  BY Zenon DEF Refused
<1>2. o[1] = FALSE /\ o[2] = d.coins
  BY <1>1, PairIs, Zenon
<1> QED  BY <1>2, Zenon

\* A node that starts does so on a block that it knows, and has verified its coins.
LEMMA OutcomeIs ==
  ASSUME NEW d, DiskType(d),
         NEW how \in Ways(d), NEW o \in Outcomes(d, how)
  PROVE  o[1] => Closed(DOMAIN d.index) /\ o[2].best \in DOMAIN d.index /\ Verified(d, o[2])
<1>0. \/ ~Closed(DOMAIN d.index) /\ how = "orphaned"
      \/ /\ Closed(DOMAIN d.index) /\ how # "orphaned"
         /\ how = "replayed" => NeedsReplay(d)
  BY DEF Ways
<1>3. \/ how = "orphaned" /\ o \in Refused(d)
      \/ how = "replayed" /\ o \in ReplayOutcomes(d)
      \/ how \notin {"orphaned", "replayed"} /\ o \in PlainOutcomes(d)
  BY DEF Outcomes
<1>4. CASE o \in Refused(d)
  BY <1>4, RefusedIs
<1>1. CASE o \in PlainOutcomes(d) /\ Closed(DOMAIN d.index)
  <2>1. CASE d.coins.best \notin DOMAIN d.index
    <3>1. o \in Refused(d)
      BY <1>1, <2>1 DEF PlainOutcomes
    <3> QED  BY <3>1, RefusedIs
  <2>2. CASE d.coins.best \in DOMAIN d.index
    <3>1. o \in Checked(d, d.coins)
      BY <1>1, <2>2 DEF PlainOutcomes
    <3>2. o[2] = d.coins /\ (o[1] => Verified(d, d.coins))
      BY <3>1, CheckedIs
    <3> QED  BY <1>1, <2>2, <3>2
  <2> QED  BY <2>1, <2>2
<1>2. CASE NeedsReplay(d) /\ o \in ReplayOutcomes(d) /\ Closed(DOMAIN d.index)
  <2>1. o \in Refused(d) \/ o \in Checked(d, Replayed(d))
    BY <1>2 DEF ReplayOutcomes
  <2>2. CASE o \in Refused(d)
    BY <2>2, RefusedIs
  <2>3. CASE o \in Checked(d, Replayed(d))
    <3>1. o[2] = Replayed(d) /\ (o[1] => Verified(d, Replayed(d)))
      BY <2>3, CheckedIs
    <3>2. Last(Replay(d)) \in DOMAIN d.index
      BY <1>2, ReplayIs
    <3>3. Replayed(d).best = Last(Replay(d))
      BY DEF Replayed
    <3> QED  BY <1>2, <3>1, <3>2, <3>3
  <2> QED  BY <2>1, <2>2, <2>3
<1> QED  BY <1>0, <1>1, <1>2, <1>3, <1>4

\* What a start takes from the disk.
LEMMA LoadIs ==
  ASSUME NEW d, DiskType(d), Load(d)
  PROVE  /\ index' = d.index /\ info' = InfoFrom(d) /\ last' = d.last
         /\ dirtyFiles' = {} /\ dirty' = {}
         /\ up' => /\ tip' \in DOMAIN d.index /\ Verified(d, coins') /\ coins'.best = tip'
                   /\ Closed(DOMAIN d.index)
         /\ DiskType(disk')
         /\ disk'.blk = d.blk /\ disk'.rev = d.rev /\ disk'.index = d.index /\ disk'.info = d.info
         /\ disk'.coins = coins' /\ disk'.last = d.last /\ disk'.clean = FALSE
         /\ exposed \subseteq exposed'
         /\ \A b \in DOMAIN d.index :
              \/ Place(d.index[b]) \in exposed'
              \/ d.index[b].pos < InfoOf(info', d.index[b].file).size
<1>1. PICK how \in Ways(d) : \E o \in Outcomes(d, how) :
          /\ up' = o[1]
          /\ index' = d.index
          /\ info' = InfoFrom(d)
          /\ last' = d.last
          /\ dirtyFiles' = {} /\ dirty' = {}
          /\ tip' = o[2].best
          /\ coins' = o[2]
          /\ disk' = [d EXCEPT !.coins = o[2], !.clean = FALSE]
          /\ exposed' = exposed \cup
               {Place(d.index[b]) : b \in {c \in DOMAIN d.index :
                                             d.index[c].pos >= InfoOf(info', d.index[c].file).size}}
  BY DEF Load
<1>2. PICK o \in Outcomes(d, how) :
          /\ up' = o[1]
          /\ index' = d.index
          /\ info' = InfoFrom(d)
          /\ last' = d.last
          /\ dirtyFiles' = {} /\ dirty' = {}
          /\ tip' = o[2].best
          /\ coins' = o[2]
          /\ disk' = [d EXCEPT !.coins = o[2], !.clean = FALSE]
          /\ exposed' = exposed \cup
               {Place(d.index[b]) : b \in {c \in DOMAIN d.index :
                                             d.index[c].pos >= InfoOf(info', d.index[c].file).size}}
  BY <1>1
<1>4. o[1] => Closed(DOMAIN d.index) /\ o[2].best \in DOMAIN d.index /\ Verified(d, o[2])
  BY <1>1, <1>2, OutcomeIs
<1>5. up' => /\ tip' \in DOMAIN d.index /\ Verified(d, coins') /\ coins'.best = tip'
             /\ Closed(DOMAIN d.index)
  BY <1>2, <1>4, Zenon
<1>6. ASSUME NEW c, NEW t
      PROVE  [d EXCEPT !.coins = c, !.clean = t] =
               [blk |-> d.blk, rev |-> d.rev, index |-> d.index, info |-> d.info,
                last |-> d.last, coins |-> c, clean |-> t]
  <2>1. IsDisk(d)
    BY DEF DiskType
  <2>2. d \in [blk : {d.blk}, rev : {d.rev}, index : {d.index}, info : {d.info},
              last : {d.last}, coins : {d.coins}, clean : {d.clean}]
    BY <2>1 DEF IsDisk
  <2> DEFINE y == [d EXCEPT !.coins = c, !.clean = t]
  <2>3. y \in [blk : {d.blk}, rev : {d.rev}, index : {d.index}, info : {d.info},
              last : {d.last}, coins : {c}, clean : {t}]
    BY <2>2
  <2> HIDE DEF y
  <2>4. y = [blk |-> d.blk, rev |-> d.rev, index |-> d.index, info |-> d.info,
             last |-> d.last, coins |-> c, clean |-> t]
    BY <2>3
  <2> QED  BY <2>4 DEF y
<1>7. disk' = [blk |-> d.blk, rev |-> d.rev, index |-> d.index, info |-> d.info,
               last |-> d.last, coins |-> coins', clean |-> FALSE]
  <2>1. disk' = [d EXCEPT !.coins = coins', !.clean = FALSE]
    BY <1>2, Zenon
  <2> QED  BY <1>6, <2>1, Zenon
<1>8. /\ disk'.blk = d.blk /\ disk'.rev = d.rev /\ disk'.index = d.index /\ disk'.info = d.info
      /\ disk'.coins = coins' /\ disk'.last = d.last /\ disk'.clean = FALSE /\ IsDisk(disk')
  BY <1>7 DEF IsDisk
<1>9. DiskType(disk')
  BY <1>8 DEF DiskType
<1>10. exposed \subseteq exposed'
  BY <1>2
<1>11. ASSUME NEW b \in DOMAIN d.index
       PROVE  \/ Place(d.index[b]) \in exposed'
              \/ d.index[b].pos < InfoOf(info', d.index[b].file).size
  <2>1. CASE d.index[b].pos >= InfoOf(info', d.index[b].file).size
    BY <1>2, <2>1
  <2>2. CASE ~(d.index[b].pos >= InfoOf(info', d.index[b].file).size)
    <3>1. d.index[b].pos \in Nat /\ d.index[b].file \in Nat
      BY DEF DiskType, EntriesIn, Entry
    <3>2. info' \in Seq(Info)
      BY <1>2, InfoFromIs
    <3>3. InfoOf(info', d.index[b].file).size \in Nat
      BY <3>1, <3>2, InfoOfType DEF Info
    <3> QED  BY <2>2, <3>1, <3>3
  <2> QED  BY <2>1, <2>2
<1> QED  BY <1>2, <1>5, <1>8, <1>9, <1>10, <1>11

LEMMA LoadKeeps ==
  ASSUME StoreInv, NEW d, NEW S, NEW T, Saved(d, S, T), Load(d)
  PROVE  StoreInv'
<1>1. DiskType(d) /\ d.blk = disk.blk /\ d.rev = disk.rev
  BY DEF Saved
<1>2. /\ index' = d.index /\ info' = InfoFrom(d) /\ last' = d.last
      /\ dirtyFiles' = {} /\ dirty' = {}
      /\ up' => /\ tip' \in DOMAIN d.index /\ Verified(d, coins') /\ coins'.best = tip'
                /\ Closed(DOMAIN d.index)
      /\ DiskType(disk')
      /\ disk'.blk = d.blk /\ disk'.rev = d.rev /\ disk'.index = d.index /\ disk'.info = d.info
      /\ exposed \subseteq exposed'
      /\ \A b \in DOMAIN d.index :
           \/ Place(d.index[b]) \in exposed'
           \/ d.index[b].pos < InfoOf(info', d.index[b].file).size
  BY <1>1, LoadIs
<1>3. /\ DOMAIN d.index \subseteq DOMAIN index
      /\ \A b \in DOMAIN d.index :
           /\ \/ d.index[b] = index[b]
              \/ d.index[b] = NewEntry(index[b].file, index[b].pos)
           /\ \/ Exposed(b)
              \/ d.index[b].undo = None
              \/ d.index[b].undo < DiskInfo(d, index[b].file).usize
  BY SavedFits
<1>4. EntriesIn(d.index) /\ d.last \in Nat
  BY <1>1 DEF DiskType
<1>5. /\ info' \in Seq(Info)
      /\ \A n \in Nat : InfoOf(info', n) \in {NoInfo, DiskInfo(d, n)}
  BY <1>1, <1>2, InfoFromIs
<1>6. \A n : DiskInfo(disk', n) = DiskInfo(d, n)
  BY <1>2 DEF DiskInfo
<1>7. ASSUME NEW b \in DOMAIN d.index
      PROVE  /\ d.index[b].file = index[b].file /\ d.index[b].pos = index[b].pos
             /\ Place(d.index[b]) = Place(index[b])
             /\ d.index[b].undo # None => d.index[b] = index[b]
             /\ d.index[b].file \in Nat /\ d.index[b].pos \in Nat
  <2>1. index[b] \in Entry /\ d.index[b] \in Entry
    BY <1>3, <1>4 DEF StoreInv, StoreType, EntriesIn
  <2>2. CASE d.index[b] = index[b]
    BY <2>1, <2>2 DEF Entry
  <2>3. CASE d.index[b] = NewEntry(index[b].file, index[b].pos)
    <3>1. d.index[b].file = index[b].file /\ d.index[b].pos = index[b].pos /\ d.index[b].undo = None
      BY <2>3 DEF NewEntry
    <3> QED  BY <2>1, <3>1 DEF Entry, Place
  <2> QED  BY <1>3, <2>2, <2>3
<1>8. StoreType'
  <2>1. IsFiniteSet({})
    BY FS_EmptySet
  <2> QED  BY <1>2, <1>4, <1>5, <2>1 DEF StoreType
<1>9. Behind'
  BY <1>2 DEF Behind
<1>10. Rooted'
  BY <1>2, <1>3 DEF Rooted
<1>11. Synced'
  BY <1>2, <1>5, <1>6 DEF Synced
<1>12. ASSUME NEW b \in DOMAIN d.index, Place(d.index[b]) \notin exposed'
       PROVE  /\ d.index[b].pos < InfoOf(info', d.index[b].file).size
              /\ d.index[b].undo # None =>
                   /\ d.index[b].undo < DiskInfo(d, d.index[b].file).usize
                   /\ d.index[b].undo < InfoOf(info', d.index[b].file).usize
  <2>1. d.index[b].pos < InfoOf(info', d.index[b].file).size
    BY <1>2, <1>12
  <2>2. ~Exposed(b)
    BY <1>2, <1>7, <1>12 DEF Exposed
  <2>3. d.index[b].undo # None => d.index[b].undo < DiskInfo(d, d.index[b].file).usize
    BY <1>3, <1>7, <2>2
  <2>4. InfoOf(info', d.index[b].file) # NoInfo
    BY <1>7, <2>1 DEF NoInfo
  <2>5. InfoOf(info', d.index[b].file) = DiskInfo(d, d.index[b].file)
    BY <1>5, <1>7, <2>4
  <2> QED  BY <2>1, <2>3, <2>5
<1>13. InUse'
  BY <1>2, <1>12 DEF InUse, Exposed
<1>14. UndoCounted'
  BY <1>2, <1>6, <1>12 DEF UndoCounted, Exposed
<1>15. NewUndoIsActive'
  BY <1>2, <1>6, <1>12 DEF NewUndoIsActive, Exposed
<1>16. OnlyExposedAreLost'
  <2> SUFFICES ASSUME NEW b \in DOMAIN d.index, Place(d.index[b]) \notin exposed'
               PROVE  /\ HasBlock(disk', d.index[b], b)
                      /\ d.index[b].undo # None \/ (up' /\ b \in Chain[tip'] \ {Genesis})
                           => HasUndo(disk', d.index[b], b)
    BY <1>2 DEF OnlyExposedAreLost
  <2>1. ~Exposed(b) /\ b \in DOMAIN index
    BY <1>2, <1>3, <1>7 DEF Exposed
  <2>2. /\ HasBlock(disk, index[b], b)
        /\ index[b].undo # None => HasUndo(disk, index[b], b)
    BY <2>1 DEF StoreInv, OnlyExposedAreLost, Exposed
  <2>3. HasBlock(disk', d.index[b], b)
    BY <1>1, <1>2, <1>7, <2>2 DEF HasBlock
  <2>4. ASSUME d.index[b].undo # None  PROVE HasUndo(disk', d.index[b], b)
    BY <1>1, <1>2, <1>7, <2>2, <2>4 DEF HasUndo
  <2>5. ASSUME up', b \in Chain[tip'] \ {Genesis}  PROVE HasUndo(disk', d.index[b], b)
    <3>1. HasUndo(d, d.index[b], b)
      BY <1>2, <2>5 DEF Verified
    <3> QED  BY <1>2, <3>1 DEF HasUndo
  <2> QED  BY <2>3, <2>4, <2>5
<1> QED  BY <1>8, <1>9, <1>11, <1>13, <1>14, <1>15, <1>16, <1>10 DEF StoreInv

-------------------------------------------------------------------------------
(* Blocks come and go. *)

\* The chain of the tip is in the index.
LEMMA TipKnown ==
  ASSUME StoreInv, up
  PROVE  tip \in DOMAIN index /\ tip \in Blocks /\ Chain[tip] \subseteq DOMAIN index
<1> DEFINE S == {b \in Blocks : b \in DOMAIN index => Chain[b] \subseteq DOMAIN index}
<1>1. tip \in DOMAIN index /\ tip \in Blocks
  BY DEF StoreInv, StoreType, EntriesIn, Rooted, Behind
<1>2. Genesis \in S
  BY ChainIs
<1>3. ASSUME NEW b \in Blocks \ {Genesis}, Parent[b] \in S  PROVE b \in S
  BY <1>3, ChainIs DEF StoreInv, Rooted, Closed
<1>4. S = Blocks
  <2>1. S \in SUBSET Blocks
    OBVIOUS
  <2> HIDE DEF S
  <2> QED  BY <1>2, <1>3, <2>1, TreeInduction
<1> QED  BY <1>1, <1>4

\* Leaving a file cuts off only what is not in use.
LEMMA LeftIs ==
  ASSUME StoreInv, NEW n \in Nat
  PROVE  /\ DiskType(Left(n)) /\ Left(n).index = disk.index /\ Left(n).info = disk.info
         /\ \A p : \/ p[1] = last /\ ~(p[2] < InfoOf(info, last).size)
                   \/ p \notin DOMAIN disk.blk
                   \/ p \in DOMAIN Left(n).blk /\ Left(n).blk[p] = disk.blk[p]
         /\ \A p : \/ p[1] = last /\ ~(p[2] < InfoOf(info, last).usize)
                   \/ p \notin DOMAIN disk.rev
                   \/ p \in DOMAIN Left(n).rev /\ Left(n).rev[p] = disk.rev[p]
         /\ Left(n).coins = disk.coins /\ Left(n).last = disk.last /\ Left(n).clean = disk.clean
<1>1. DiskType(disk) /\ IsDisk(disk)
  BY DEF StoreInv, StoreType, DiskType
<1>2. CASE n = last
  BY <1>1, <1>2 DEF Left
<1>3. CASE n # last
  <2> DEFINE x == Truncated(disk.blk, last, InfoOf(info, last).size)
             y == Truncated(disk.rev, last, InfoOf(info, last).usize)
             w == [blk |-> x, rev |-> y, index |-> disk.index, info |-> disk.info,
                   last |-> disk.last, coins |-> disk.coins, clean |-> disk.clean]
  <2>1. /\ \A p : \/ p[1] = last /\ ~(p[2] < InfoOf(info, last).size)
                  \/ p \notin DOMAIN disk.blk
                  \/ p \in DOMAIN x /\ x[p] = disk.blk[p]
        /\ \A p : \/ p[1] = last /\ ~(p[2] < InfoOf(info, last).usize)
                  \/ p \notin DOMAIN disk.rev
                  \/ p \in DOMAIN y /\ y[p] = disk.rev[p]
    BY DEF Truncated
  <2>2. Left(n) = [disk EXCEPT !.blk = x, !.rev = y]
    BY <1>3 DEF Left
  <2> HIDE DEF x, y
  <2>3. Left(n) = w
    BY <1>1, <2>2 DEF IsDisk
  <2>4. DiskType(w)
    BY <1>1 DEF DiskType, IsDisk
  <2> QED  BY <2>1, <2>3, <2>4
<1> QED  BY <1>2, <1>3

LEMMA BlkWith ==
  ASSUME NEW d, DiskType(d), NEW x
  PROVE  /\ DiskType([d EXCEPT !.blk = x])
         /\ [d EXCEPT !.blk = x].blk = x
         /\ [d EXCEPT !.blk = x].rev = d.rev
         /\ [d EXCEPT !.blk = x].index = d.index
         /\ [d EXCEPT !.blk = x].info = d.info
         /\ [d EXCEPT !.blk = x].coins = d.coins /\ [d EXCEPT !.blk = x].last = d.last
         /\ [d EXCEPT !.blk = x].clean = d.clean
<1> DEFINE w == [blk |-> x, rev |-> d.rev, index |-> d.index, info |-> d.info,
                 last |-> d.last, coins |-> d.coins, clean |-> d.clean]
<1>1. IsDisk(d)
  BY DEF DiskType
<1>2. [d EXCEPT !.blk = x] = w
  BY <1>1 DEF IsDisk
<1>3. DiskType(w)
  BY DEF DiskType, IsDisk
<1> QED  BY <1>2, <1>3

LEMMA RevWith ==
  ASSUME NEW d, DiskType(d), NEW x
  PROVE  /\ DiskType([d EXCEPT !.rev = x])
         /\ [d EXCEPT !.rev = x].blk = d.blk
         /\ [d EXCEPT !.rev = x].rev = x
         /\ [d EXCEPT !.rev = x].index = d.index
         /\ [d EXCEPT !.rev = x].info = d.info
         /\ [d EXCEPT !.rev = x].coins = d.coins /\ [d EXCEPT !.rev = x].last = d.last
         /\ [d EXCEPT !.rev = x].clean = d.clean
<1> DEFINE w == [blk |-> d.blk, rev |-> x, index |-> d.index, info |-> d.info,
                 last |-> d.last, coins |-> d.coins, clean |-> d.clean]
<1>1. IsDisk(d)
  BY DEF DiskType
<1>2. [d EXCEPT !.rev = x] = w
  BY <1>1 DEF IsDisk
<1>3. DiskType(w)
  BY DEF DiskType, IsDisk
<1> QED  BY <1>2, <1>3

LEMMA InfoWith ==
  ASSUME NEW x \in Info, NEW s \in Nat, NEW t \in Nat,
         NEW y, y = [x EXCEPT !.size = s, !.top = t]
  PROVE  y \in Info /\ y.size = s /\ y.usize = x.usize /\ y.top = t
BY DEF Info

\* FindBlockPos: the new block has the place after the last one of its file.
LEMMA ReceiveIs ==
  ASSUME StoreInv, NEW b \in Blocks, Receive(b)
  PROVE  \E n \in Nat, r \in Info :
           /\ n >= last /\ \A m \in last .. n - 1 : InfoOf(info, m).size >= PerFile
           /\ r.size = InfoOf(info, n).size + 1 /\ r.usize = InfoOf(info, n).usize
           /\ r.top >= Height(b) /\ r.top >= InfoOf(info, n).top
           /\ info' = WithInfo(info, n, r)
           /\ last' = n /\ dirtyFiles' = dirtyFiles \cup {n}
           /\ index' = Put(index, b, NewEntry(n, InfoOf(info, n).size))
           /\ disk' = [Left(n) EXCEPT !.blk =
                         Put(Left(n).blk, <<n, InfoOf(info, n).size>>, b)]
<1> DEFINE n == FileWithRoom
           q == InfoOf(info, n)
           r == [q EXCEPT !.size = q.size + 1, !.top = IF Height(b) > q.top THEN Height(b) ELSE q.top]
<1>1. n \in Nat /\ n >= last /\ \A m \in last .. n - 1 : InfoOf(info, m).size >= PerFile
  BY FileWithRoomIs DEF StoreInv, StoreType
<1>2. q \in Info
  BY <1>1, InfoOfType DEF StoreInv, StoreType
<1>3. /\ info' = WithInfo(info, n, r)
      /\ last' = n /\ dirtyFiles' = dirtyFiles \cup {n}
      /\ index' = Put(index, b, NewEntry(n, q.size))
      /\ disk' = [Left(n) EXCEPT !.blk = Put(Left(n).blk, Place(NewEntry(n, q.size)), b)]
  BY DEF Receive
<1>4. Place(NewEntry(n, q.size)) = <<n, q.size>>
  BY DEF Place, NewEntry
<1> HIDE DEF n, q
<1>5. /\ r \in Info /\ r.size = q.size + 1 /\ r.usize = q.usize
      /\ r.top >= Height(b) /\ r.top >= q.top
  <2>1. Height(b) \in Nat
    BY HeightType
  <2> DEFINE t == IF Height(b) > q.top THEN Height(b) ELSE q.top
  <2>2. t \in Nat /\ t >= Height(b) /\ t >= q.top
    BY <1>2, <2>1 DEF Info
  <2> HIDE DEF t
  <2>3. q.size + 1 \in Nat
    BY <1>2 DEF Info
  <2> DEFINE s == q.size + 1
  <2>4. s \in Nat /\ r = [q EXCEPT !.size = s, !.top = t]
    BY <2>3 DEF t
  <2> HIDE DEF s, r
  <2>5. r \in Info /\ r.size = s /\ r.usize = q.usize /\ r.top = t
    BY <1>2, <2>2, <2>4 DEF Info
  <2> QED  BY <2>2, <2>5 DEF s
<1> HIDE DEF r
<1> QED  BY <1>1, <1>3, <1>4, <1>5 DEF q

LEMMA ReceiveKeeps ==
  ASSUME StoreInv, NEW b \in Blocks, Receive(b)
  PROVE  StoreInv'
<1>1. PICK n \in Nat, r \in Info :
           /\ r.size = InfoOf(info, n).size + 1 /\ r.usize = InfoOf(info, n).usize
           /\ info' = WithInfo(info, n, r)
           /\ last' = n /\ dirtyFiles' = dirtyFiles \cup {n}
           /\ index' = Put(index, b, NewEntry(n, InfoOf(info, n).size))
           /\ disk' = [Left(n) EXCEPT !.blk =
                         Put(Left(n).blk, <<n, InfoOf(info, n).size>>, b)]
  BY ReceiveIs
<1> DEFINE q == InfoOf(info, n)
           p == <<n, q.size>>
<1>2. q \in Info /\ info \in Seq(Info) /\ last \in Nat
  BY InfoOfType DEF StoreInv, StoreType
<1>3. /\ up /\ b \notin DOMAIN index /\ Parent[b] \in DOMAIN index
      /\ dirty' = dirty \cup {b} /\ up' = up /\ tip' = tip /\ exposed' = exposed
  BY DEF Receive
<1>4. /\ info' \in Seq(Info)
      /\ InfoOf(info', n) = r
      /\ \A m \in Nat : m # n => InfoOf(info', m) = InfoOf(info, m)
  BY <1>1, <1>2, WithInfoIs
<1>5. /\ DOMAIN index' = DOMAIN index \cup {b}
      /\ index'[b] = NewEntry(n, q.size)
      /\ \A c \in DOMAIN index : index'[c] = index[c]
  <2> DEFINE e == NewEntry(n, q.size)
  <2>1. index' = Put(index, b, e)
    BY <1>1
  <2> HIDE DEF e
  <2>2. DOMAIN index' = DOMAIN index \cup {b} /\ index'[b] = e
    BY <2>1 DEF Put
  <2>3. \A c \in DOMAIN index : index'[c] = index[c]
    BY <1>3, <2>1 DEF Put
  <2> QED  BY <2>2, <2>3 DEF e
<1>6. /\ DiskType(disk') /\ disk'.blk = Put(Left(n).blk, p, b) /\ disk'.rev = Left(n).rev
      /\ disk'.index = disk.index /\ disk'.info = disk.info
  <2>1. DiskType(Left(n)) /\ Left(n).index = disk.index /\ Left(n).info = disk.info
    BY LeftIs
  <2> QED  BY <1>1, <2>1, BlkWith
<1>7. \A m : DiskInfo(disk', m) = DiskInfo(disk, m)
  BY <1>6 DEF DiskInfo
<1>8. EntriesIn(index) /\ DOMAIN disk.index \subseteq DOMAIN index
  BY DEF StoreInv, StoreType, Behind
<1>9. EntriesIn(index')
  <2>1. NewEntry(n, q.size) \in Entry
    BY <1>2 DEF NewEntry, Entry, Info
  <2>2. IsFiniteSet(DOMAIN index \cup {b})
    BY <1>8, FS_AddElement DEF EntriesIn
  <2> QED  BY <1>5, <1>8, <2>1, <2>2 DEF EntriesIn
<1>10. StoreType'
  <2>1. IsFiniteSet(dirtyFiles \cup {n}) /\ dirtyFiles \cup {n} \subseteq Nat
    BY FS_AddElement DEF StoreInv, StoreType
  <2>2. dirty' \subseteq DOMAIN index'
    BY <1>3, <1>5 DEF StoreInv, StoreType
  <2> QED  BY <1>1, <1>4, <1>6, <1>9, <2>1, <2>2 DEF StoreType
<1>11. Behind'
  BY <1>3, <1>5, <1>6 DEF StoreInv, Behind
<1>12. Rooted'
  BY <1>3, <1>5, <1>6 DEF StoreInv, Rooted, Closed
<1>13. Synced'
  BY <1>1, <1>4, <1>7 DEF StoreInv, Synced
<1>14. ASSUME NEW c \in DOMAIN index
       PROVE  /\ index[c].file \in Nat /\ index[c].pos \in Nat
              /\ (index[c].undo # None => index[c].undo \in Nat)
              /\ InfoOf(info, index[c].file) \in Info
              /\ InfoOf(info, index[c].file).size <= InfoOf(info', index[c].file).size
              /\ InfoOf(info, index[c].file).usize = InfoOf(info', index[c].file).usize
  <2>1. index[c] \in Entry
    BY <1>8 DEF EntriesIn
  <2>2. InfoOf(info, index[c].file) \in Info
    BY <1>2, <2>1, InfoOfType DEF Entry
  <2>3. index[c].file \in Nat /\ index[c].pos \in Nat /\ index[c].undo \in Nat \cup {None}
    BY <2>1 DEF Entry
  <2>4. CASE index[c].file = n
    <3>1. InfoOf(info', n) = r
      BY <1>4
    <3>2. q.size <= r.size /\ q.usize = r.usize
      BY <1>1, <1>2 DEF Info
    <3> HIDE DEF q
    <3> QED  BY <2>2, <2>3, <2>4, <3>1, <3>2 DEF q
  <2>5. CASE index[c].file # n
    <3>1. InfoOf(info', index[c].file) = InfoOf(info, index[c].file)
      BY <1>4, <2>3, <2>5
    <3>2. InfoOf(info, index[c].file).size \in Nat
      BY <2>2 DEF Info
    <3> QED  BY <2>2, <2>3, <3>1, <3>2
  <2> QED  BY <2>4, <2>5
<1>15. InUse'
  <2>1. ASSUME NEW c \in DOMAIN index, ~Exposed(c)
        PROVE  /\ index[c].pos < InfoOf(info', index[c].file).size
               /\ (index[c].undo # None => index[c].undo < InfoOf(info', index[c].file).usize)
               /\ InfoOf(info', index[c].file) \in Info
    <3>1. /\ index[c].pos < InfoOf(info, index[c].file).size
          /\ (index[c].undo # None => index[c].undo < InfoOf(info, index[c].file).usize)
      BY <2>1 DEF StoreInv, InUse
    <3>2. InfoOf(info', index[c].file) \in Info
      BY <1>4, <1>14, InfoOfType
    <3> QED  BY <1>14, <3>1, <3>2 DEF Info
  <2>2. index'[b].pos < InfoOf(info', index'[b].file).size /\ index'[b].undo = None
    <3>1. index'[b].pos = q.size /\ index'[b].file = n /\ index'[b].undo = None
      BY <1>5 DEF NewEntry
    <3>2. InfoOf(info', n).size = q.size + 1 /\ q.size \in Nat
      BY <1>1, <1>2, <1>4 DEF Info
    <3> QED  BY <3>1, <3>2
  <2> QED  BY <1>3, <1>5, <2>1, <2>2 DEF InUse, Exposed
<1>16. UndoCounted'
  BY <1>3, <1>5, <1>6, <1>7, <1>8 DEF StoreInv, UndoCounted, Exposed
<1>17. NewUndoIsActive'
  <2>1. index'[b].undo = None
    BY <1>5 DEF NewEntry
  <2> QED  BY <1>3, <1>5, <1>7, <2>1 DEF StoreInv, NewUndoIsActive, Exposed
<1>18. OnlyExposedAreLost'
  <2>1. ASSUME NEW c \in DOMAIN index, ~Exposed(c)
        PROVE  /\ HasBlock(disk', index[c], c)
               /\ index[c].undo # None \/ (up /\ c \in Chain[tip] \ {Genesis})
                    => HasUndo(disk', index[c], c)
    <3>1. /\ index[c].pos < InfoOf(info, index[c].file).size
          /\ (index[c].undo # None => index[c].undo < InfoOf(info, index[c].file).usize)
      BY <2>1 DEF StoreInv, InUse
    <3>2. /\ HasBlock(disk, index[c], c)
          /\ index[c].undo # None \/ (up /\ c \in Chain[tip] \ {Genesis})
               => HasUndo(disk, index[c], c)
      BY <2>1 DEF StoreInv, OnlyExposedAreLost, Exposed
    <3>3. Place(index[c])[1] = index[c].file /\ Place(index[c])[2] = index[c].pos
      BY DEF Place
    <3>4. Place(index[c]) # p
      <4>1. ~(index[c].file = n /\ index[c].pos = q.size)
        BY <1>2, <1>14, <3>1 DEF Info
      <4> QED  BY <3>3, <4>1
    <3>5. Place(index[c]) \in DOMAIN Left(n).blk /\ Left(n).blk[Place(index[c])] = c
      <4>1. ~(Place(index[c])[1] = last /\ ~(Place(index[c])[2] < InfoOf(info, last).size))
        BY <3>1, <3>3
      <4>2. Place(index[c]) \in DOMAIN disk.blk /\ disk.blk[Place(index[c])] = c
        BY <3>2 DEF HasBlock
      <4> QED  BY <4>1, <4>2, LeftIs
    <3>6. HasBlock(disk', index[c], c)
      <4> DEFINE z == Place(index[c])
                 f == Left(n).blk
      <4>1. z # p /\ z \in DOMAIN f /\ f[z] = c /\ disk'.blk = Put(f, p, b)
        BY <1>6, <3>4, <3>5
      <4> HIDE DEF z, f, p
      <4>2. z \in DOMAIN disk'.blk /\ disk'.blk[z] = c
        BY <4>1 DEF Put
      <4> QED  BY <4>2 DEF HasBlock, z
    <3>7. ASSUME HasUndo(disk, index[c], c)  PROVE HasUndo(disk', index[c], c)
      <4> DEFINE u == UndoPlace(index[c])
      <4>1. index[c].undo # None /\ u \in DOMAIN disk.rev /\ disk.rev[u] = c
        BY <3>7 DEF HasUndo
      <4>2. u[1] = index[c].file /\ u[2] = index[c].undo
        BY DEF UndoPlace
      <4>3. ~(u[1] = last /\ ~(u[2] < InfoOf(info, last).usize))
        BY <3>1, <4>1, <4>2
      <4> HIDE DEF u
      <4>4. u \in DOMAIN Left(n).rev /\ Left(n).rev[u] = c
        BY <4>1, <4>3, LeftIs
      <4> QED  BY <1>6, <4>1, <4>4 DEF HasUndo, u
    <3> QED  BY <3>2, <3>6, <3>7
  <2>2. HasBlock(disk', index'[b], b) /\ index'[b].undo = None
    <3>1. Place(index'[b]) = p /\ index'[b].undo = None
      BY <1>5 DEF NewEntry, Place
    <3> DEFINE f == Left(n).blk
    <3> HIDE DEF p, f
    <3>2. p \in DOMAIN Put(f, p, b) /\ Put(f, p, b)[p] = b
      BY DEF Put
    <3> QED  BY <1>6, <3>1, <3>2 DEF HasBlock, f
  <2>3. b \notin Chain[tip]
    BY <1>3, TipKnown
  <2> QED  BY <1>3, <1>5, <2>1, <2>2, <2>3 DEF OnlyExposedAreLost, Exposed
<1> QED  BY <1>10, <1>11, <1>12, <1>13, <1>15, <1>16, <1>17, <1>18 DEF StoreInv

LEMMA UndoWith ==
  ASSUME NEW x \in Info, NEW u \in Nat
  PROVE  /\ [x EXCEPT !.usize = u] \in Info
         /\ [x EXCEPT !.usize = u].size = x.size
         /\ [x EXCEPT !.usize = u].usize = u
BY DEF Info

\* The undo data of a block are there already.
LEMMA ReconnectKeeps ==
  ASSUME StoreInv, NEW b \in Blocks, Connect(b), index[b].undo # None
  PROVE  StoreInv'
<1>1. /\ up /\ b \in DOMAIN index /\ b # Genesis /\ Parent[b] = tip
      /\ disk' = WithEntries(disk, {b}) /\ tip' = b
      /\ index' = index /\ info' = info /\ last' = last /\ up' = up
      /\ dirtyFiles' = dirtyFiles /\ dirty' = dirty /\ exposed' = exposed
  BY DEF Connect
<1>2. /\ DiskType(disk') /\ disk'.blk = disk.blk /\ disk'.rev = disk.rev /\ disk'.info = disk.info
      /\ disk'.index = [c \in DOMAIN disk.index \cup {b} |->
                          IF c \in {b} THEN index[c] ELSE disk.index[c]]
  <2> DEFINE T == {b}
  <2>1. DiskType(disk) /\ T \in SUBSET DOMAIN index /\ disk' = WithEntries(disk, T)
    BY <1>1 DEF StoreInv, StoreType
  <2> HIDE DEF T
  <2>2. /\ DiskType(disk') /\ disk'.blk = disk.blk /\ disk'.rev = disk.rev
        /\ disk'.info = disk.info
        /\ disk'.index = [c \in DOMAIN disk.index \cup T |->
                            IF c \in T THEN index[c] ELSE disk.index[c]]
    BY <2>1, EntriesWritten DEF StoreInv
  <2> QED  BY <2>2 DEF T
<1>3. /\ DOMAIN disk'.index = DOMAIN disk.index \cup {b}
      /\ disk'.index[b] = index[b]
      /\ \A c \in DOMAIN disk.index : c # b => disk'.index[c] = disk.index[c]
  BY <1>2
<1>4. \A m : DiskInfo(disk', m) = DiskInfo(disk, m)
  BY <1>2 DEF DiskInfo
<1>5. Chain[b] = {b} \cup Chain[tip] /\ b \notin Chain[tip]
  BY <1>1, ChainIs
<1>6. StoreType'
  BY <1>1, <1>2 DEF StoreInv, StoreType
<1>7. Behind'
  BY <1>1, <1>3 DEF StoreInv, Behind
<1>8. Rooted'
  BY <1>1, <1>3 DEF StoreInv, Rooted, Closed
<1>9. Synced' /\ InUse'
  BY <1>1, <1>4 DEF StoreInv, Synced, InUse, Exposed
<1>10. UndoCounted'
  <2>1. Exposed(b) \/ index[b].undo < DiskInfo(disk, index[b].file).usize
    BY <1>1, <1>5 DEF StoreInv, NewUndoIsActive
  <2> QED  BY <1>1, <1>3, <1>4, <2>1 DEF StoreInv, UndoCounted, Exposed
<1>11. NewUndoIsActive'
  BY <1>1, <1>4, <1>5 DEF StoreInv, NewUndoIsActive, Exposed
<1>12. OnlyExposedAreLost'
  <2>1. \A c \in DOMAIN index : /\ HasBlock(disk, index[c], c) => HasBlock(disk', index[c], c)
                                /\ HasUndo(disk, index[c], c) => HasUndo(disk', index[c], c)
    BY <1>2 DEF HasBlock, HasUndo
  <2> QED  BY <1>1, <1>5, <2>1 DEF StoreInv, OnlyExposedAreLost
<1> QED  BY <1>6, <1>7, <1>8, <1>9, <1>10, <1>11, <1>12 DEF StoreInv

\* The entry is written as it was, and then the undo data take their place.
LEMMA FirstConnectKeeps ==
  ASSUME StoreInv, NEW b \in Blocks, Connect(b), index[b].undo = None
  PROVE  StoreInv'
<1> DEFINE n == index[b].file
           q == InfoOf(info, n)
           r == [q EXCEPT !.usize = q.usize + 1]
           w == WithEntries(disk, {b})
           p == <<n, q.usize>>
<1>1. /\ up /\ b \in DOMAIN index /\ b # Genesis /\ Parent[b] = tip
      /\ disk' = [w EXCEPT !.rev = Put(w.rev, p, b)] /\ tip' = b
      /\ index' = [index EXCEPT ![b].undo = q.usize]
      /\ info' = WithInfo(info, n, r)
      /\ dirtyFiles' = dirtyFiles \cup {n} /\ dirty' = dirty \cup {b}
      /\ last' = last /\ up' = up /\ exposed' = exposed
  BY DEF Connect, UndoMarks
<1>2. /\ EntriesIn(index) /\ info \in Seq(Info) /\ dirtyFiles \subseteq Nat
      /\ IsFiniteSet(dirtyFiles) /\ dirty \subseteq DOMAIN index /\ DiskType(disk) /\ last \in Nat
  BY DEF StoreInv, StoreType
<1>3. index[b] \in Entry /\ n \in Nat
  BY <1>1, <1>2 DEF EntriesIn, Entry
<1>4. q \in Info
  BY <1>2, <1>3, InfoOfType
<1>5. q.size \in Nat /\ q.usize \in Nat /\ q.usize # None
  BY <1>4, BlockStoreAssumption DEF BlockStoreAssumption, Info
<1>6. r \in Info /\ r.size = q.size /\ r.usize = q.usize + 1
  <2>1. q.usize + 1 \in Nat
    BY <1>5
  <2> HIDE DEF q
  <2> QED  BY <1>4, <2>1, UndoWith
<1> HIDE DEF r
<1>7. /\ info' \in Seq(Info)
      /\ InfoOf(info', n) = r
      /\ \A m \in Nat : m # n => InfoOf(info', m) = InfoOf(info, m)
  <2>1. info \in Seq(Info) /\ n \in Nat /\ r \in Info /\ info' = WithInfo(info, n, r)
    BY <1>1, <1>2, <1>3, <1>6
  <2> HIDE DEF n, q, w, p
  <2> QED  BY <2>1, WithInfoIs
<1>8. /\ DOMAIN index' = DOMAIN index
      /\ index'[b] \in Entry /\ index'[b].file = n /\ index'[b].pos = index[b].pos
      /\ index'[b].undo = q.usize
      /\ \A c \in DOMAIN index : c # b => index'[c] = index[c]
  <2>1. DOMAIN index' = DOMAIN index /\ \A c \in DOMAIN index : c # b => index'[c] = index[c]
    BY <1>1
  <2>2. index'[b] = [index[b] EXCEPT !.undo = q.usize]
    BY <1>1
  <2> DEFINE u == q.usize
  <2> HIDE DEF u
  <2>3. u \in Nat
    BY <1>5 DEF u
  <2>4. /\ [index[b] EXCEPT !.undo = u] \in Entry
        /\ [index[b] EXCEPT !.undo = u].file = index[b].file
        /\ [index[b] EXCEPT !.undo = u].pos = index[b].pos
        /\ [index[b] EXCEPT !.undo = u].undo = u
    BY <1>3, <2>3 DEF Entry
  <2> QED  BY <2>1, <2>2, <2>4 DEF u
<1>9. \A c \in DOMAIN index : Place(index'[c]) = Place(index[c]) /\ index'[c].file = index[c].file
  BY <1>8 DEF Place
<1>10. /\ DiskType(w) /\ w.blk = disk.blk /\ w.rev = disk.rev /\ w.info = disk.info
       /\ w.index = [c \in DOMAIN disk.index \cup {b} |->
                       IF c \in {b} THEN index[c] ELSE disk.index[c]]
  <2> DEFINE T == {b}
             v == WithEntries(disk, T)
  <2>1. T \in SUBSET DOMAIN index
    BY <1>1
  <2> HIDE DEF T
  <2>2. /\ DiskType(v) /\ v.blk = disk.blk /\ v.rev = disk.rev /\ v.info = disk.info
        /\ v.index = [c \in DOMAIN disk.index \cup T |->
                        IF c \in T THEN index[c] ELSE disk.index[c]]
    <3>1. StoreType /\ DiskType(disk)
      BY <1>2 DEF StoreInv
    <3> QED  BY <2>1, <3>1, EntriesWritten
  <2> QED  BY <2>2 DEF T
<1> HIDE DEF w
<1>11. /\ DiskType(disk') /\ disk'.blk = disk.blk /\ disk'.rev = Put(disk.rev, p, b)
       /\ disk'.index = w.index /\ disk'.info = disk.info
  <2> DEFINE f == Put(w.rev, p, b)
  <2>1. disk' = [w EXCEPT !.rev = f] /\ f = Put(disk.rev, p, b)
    BY <1>1, <1>10
  <2> HIDE DEF f
  <2> QED  BY <1>10, <2>1, RevWith
<1>12. /\ DOMAIN disk'.index = DOMAIN disk.index \cup {b}
       /\ disk'.index[b] = index[b]
       /\ \A c \in DOMAIN disk.index : c # b => disk'.index[c] = disk.index[c]
  BY <1>10, <1>11
<1>13. \A m : DiskInfo(disk', m) = DiskInfo(disk, m)
  BY <1>11 DEF DiskInfo
<1>14. Chain[b] = {b} \cup Chain[tip] /\ b \notin Chain[tip]
  BY <1>1, ChainIs
<1>15. \A c \in DOMAIN index : c \in Blocks /\ index[c] \in Entry /\ index[c].file \in Nat
  BY <1>2 DEF EntriesIn, Entry
<1>16. StoreType'
  <2>1. EntriesIn(index')
    BY <1>2, <1>8 DEF EntriesIn
  <2>2. IsFiniteSet(dirtyFiles') /\ dirtyFiles' \subseteq Nat
    BY <1>1, <1>2, <1>3, FS_AddElement
  <2>3. dirty' \subseteq DOMAIN index'
    BY <1>1, <1>2, <1>8
  <2> QED  BY <1>1, <1>2, <1>7, <1>11, <2>1, <2>2, <2>3 DEF StoreType
<1>17. Behind'
  <2>1. index[b] = NewEntry(index'[b].file, index'[b].pos)
    BY <1>3, <1>8 DEF NewEntry, Entry
  <2>2. ASSUME NEW c \in DOMAIN disk'.index
        PROVE  \/ disk'.index[c] = index'[c]
               \/ disk'.index[c] = NewEntry(index'[c].file, index'[c].pos)
    <3>1. CASE c = b  BY <1>12, <2>1, <3>1
    <3>2. CASE c # b
      <4>1. c \in DOMAIN disk.index
        BY <1>12, <3>2
      <4>2. c \in DOMAIN index
        BY <4>1 DEF StoreInv, Behind
      <4> QED  BY <1>8, <1>12, <3>2, <4>1, <4>2 DEF StoreInv, Behind
    <3> QED  BY <3>1, <3>2
  <2>3. ASSUME NEW c \in DOMAIN index' \ dirty'
        PROVE  c \in DOMAIN disk'.index /\ disk'.index[c] = index'[c]
    BY <1>1, <1>8, <1>12 DEF StoreInv, Behind
  <2>4. DOMAIN disk'.index \subseteq DOMAIN index'
    BY <1>1, <1>8, <1>12 DEF StoreInv, Behind
  <2> QED  BY <2>2, <2>3, <2>4 DEF Behind
<1>18. Rooted'
  BY <1>1, <1>8, <1>12 DEF StoreInv, Rooted, Closed
<1>19. Synced'
  BY <1>1, <1>7, <1>13 DEF StoreInv, Synced
<1>20. InUse'
  <2> SUFFICES ASSUME NEW c \in DOMAIN index, ~Exposed(c)
               PROVE  /\ index'[c].pos < InfoOf(info', index[c].file).size
                      /\ (index'[c].undo # None =>
                            index'[c].undo < InfoOf(info', index[c].file).usize)
    BY <1>1, <1>8, <1>9 DEF InUse, Exposed
  <2>1. /\ index[c].pos < InfoOf(info, index[c].file).size
        /\ (index[c].undo # None => index[c].undo < InfoOf(info, index[c].file).usize)
    BY DEF StoreInv, InUse
  <2>2. CASE c = b
    BY <1>3, <1>5, <1>6, <1>7, <1>8, <2>1, <2>2
  <2>3. CASE c # b /\ index[c].file = n
    <3>1. index[c].undo # None => index[c].undo \in Nat
      BY <1>15 DEF Entry
    <3> QED  BY <1>3, <1>5, <1>6, <1>7, <1>8, <2>1, <2>3, <3>1
  <2>4. CASE c # b /\ index[c].file # n
    BY <1>7, <1>8, <1>15, <2>1, <2>4
  <2> QED  BY <2>2, <2>3, <2>4
<1>21. UndoCounted'
  <2> SUFFICES ASSUME NEW c \in DOMAIN disk'.index, Place(index'[c]) \notin exposed,
                      disk'.index[c].undo # None
               PROVE  disk'.index[c].undo < DiskInfo(disk, index'[c].file).usize
    BY <1>1, <1>13 DEF UndoCounted, Exposed
  <2>1. c # b
    BY <1>12
  <2>2. c \in DOMAIN disk.index /\ disk'.index[c] = disk.index[c]
    BY <1>12, <2>1
  <2>3. c \in DOMAIN index /\ index'[c] = index[c]
    BY <1>8, <2>1, <2>2 DEF StoreInv, Behind
  <2> QED  BY <2>2, <2>3 DEF StoreInv, UndoCounted, Exposed
<1>22. NewUndoIsActive'
  <2> SUFFICES ASSUME NEW c \in DOMAIN index, ~Exposed(c), index'[c].undo # None, c \notin Chain[b]
               PROVE  index'[c].undo < DiskInfo(disk, index[c].file).usize
    BY <1>1, <1>8, <1>9, <1>13 DEF NewUndoIsActive, Exposed
  <2>1. c # b /\ c \notin Chain[tip]
    BY <1>14
  <2>2. index'[c] = index[c]
    BY <1>8, <2>1
  <2> QED  BY <2>1, <2>2 DEF StoreInv, NewUndoIsActive
<1>23. OnlyExposedAreLost'
  <2>1. ASSUME NEW c \in DOMAIN index, ~Exposed(c)
        PROVE  HasBlock(disk', index'[c], c)
    <3>1. HasBlock(disk, index[c], c)
      BY <2>1 DEF StoreInv, OnlyExposedAreLost, Exposed
    <3> QED  BY <1>9, <1>11, <3>1 DEF HasBlock
  <2>2. HasUndo(disk', index'[b], b)
    <3>1. UndoPlace(index'[b]) = p
      BY <1>8 DEF UndoPlace
    <3> HIDE DEF p
    <3>2. p \in DOMAIN disk'.rev /\ disk'.rev[p] = b
      BY <1>11 DEF Put
    <3> QED  BY <1>5, <1>8, <3>1, <3>2 DEF HasUndo
  <2>3. ASSUME NEW c \in DOMAIN index, ~Exposed(c), c # b,
               index[c].undo # None \/ c \in Chain[tip] \ {Genesis}
        PROVE  HasUndo(disk', index'[c], c)
    <3> DEFINE u == UndoPlace(index[c])
    <3>1. HasUndo(disk, index[c], c)
      BY <1>1, <2>3 DEF StoreInv, OnlyExposedAreLost, Exposed
    <3>2. index[c].undo # None /\ u \in DOMAIN disk.rev /\ disk.rev[u] = c
      BY <3>1 DEF HasUndo
    <3>3. index[c].undo < InfoOf(info, index[c].file).usize
      BY <2>3, <3>2 DEF StoreInv, InUse
    <3>4. u # p
      <4>1. u[1] = index[c].file /\ u[2] = index[c].undo
        BY DEF UndoPlace
      <4>2. ~(index[c].file = n /\ index[c].undo = q.usize)
        BY <1>5, <3>3
      <4> HIDE DEF u
      <4> QED  BY <4>1, <4>2
    <3> HIDE DEF u, p
    <3>5. u \in DOMAIN disk'.rev /\ disk'.rev[u] = c
      BY <1>11, <3>2, <3>4 DEF Put
    <3>6. index'[c] = index[c]
      BY <1>8, <2>3
    <3> QED  BY <3>2, <3>5, <3>6 DEF HasUndo, u
  <2> SUFFICES ASSUME NEW c \in DOMAIN index, ~Exposed(c),
                      index'[c].undo # None \/ c \in Chain[b] \ {Genesis}
               PROVE  HasUndo(disk', index'[c], c)
    BY <1>1, <1>8, <1>9, <2>1 DEF OnlyExposedAreLost, Exposed
  <2>4. CASE c # b
    BY <1>8, <1>14, <2>3, <2>4
  <2> QED  BY <2>2, <2>4
<1> QED  BY <1>16, <1>17, <1>18, <1>19, <1>20, <1>21, <1>22, <1>23 DEF StoreInv

\* A flush that is not cut off, after which the tip may be an ancestor of what it was.
LEMMA FlushKeeps ==
  ASSUME StoreInv, up, NEW c, disk' = Flushed(c), dirtyFiles' = {}, dirty' = {},
         UNCHANGED <<up, index, info, last, exposed>>,
         tip' \in DOMAIN index, Chain[tip'] \subseteq Chain[tip]
  PROVE  StoreInv'
<1> DEFINE d == Flushed(c)
<1>1. Saved(d, dirtyFiles, dirty) /\ disk' = d
  BY FlushedIs DEF StoreInv
<1> HIDE DEF d
<1>2. DiskType(d) /\ d.blk = disk.blk /\ d.rev = disk.rev
  BY <1>1 DEF Saved
<1>3. /\ DOMAIN d.index = DOMAIN index
      /\ \A b \in DOMAIN index : d.index[b] = index[b]
      /\ \A n \in Nat : InfoOf(info, n) = NoInfo \/ InfoOf(info, n) = DiskInfo(d, n)
  BY <1>1, FlushedIsMemory
<1>4. Closed(DOMAIN d.index)
  BY <1>3 DEF StoreInv, Rooted
<1>5. up' = up /\ index' = index /\ info' = info /\ last' = last /\ exposed' = exposed
  OBVIOUS
<1>6. StoreType'
  BY <1>1, <1>2, <1>5, FS_EmptySet DEF StoreInv, StoreType
<1>7. Behind' /\ Rooted'
  BY <1>1, <1>3, <1>4, <1>5 DEF StoreInv, Behind, Rooted
<1>8. Synced'
  BY <1>1, <1>3, <1>5 DEF Synced
<1>9. InUse'
  BY <1>5 DEF StoreInv, InUse, Exposed
<1>10. ASSUME NEW b \in DOMAIN index, ~Exposed(b), index[b].undo # None
       PROVE  index[b].undo < DiskInfo(d, index[b].file).usize
  <2>1. index[b].file \in Nat /\ index[b].pos \in Nat
    BY DEF StoreInv, StoreType, EntriesIn, Entry
  <2>2. /\ index[b].pos < InfoOf(info, index[b].file).size
        /\ index[b].undo < InfoOf(info, index[b].file).usize
    BY <1>10 DEF StoreInv, InUse
  <2>3. InfoOf(info, index[b].file) # NoInfo
    BY <2>1, <2>2 DEF NoInfo
  <2> QED  BY <1>3, <2>1, <2>2, <2>3
<1>11. UndoCounted' /\ NewUndoIsActive'
  BY <1>1, <1>3, <1>5, <1>10 DEF UndoCounted, NewUndoIsActive, Exposed
<1>12. OnlyExposedAreLost'
  <2>1. \A b \in DOMAIN index : /\ HasBlock(disk, index[b], b) => HasBlock(disk', index[b], b)
                                /\ HasUndo(disk, index[b], b) => HasUndo(disk', index[b], b)
    BY <1>1, <1>2 DEF HasBlock, HasUndo
  <2> QED  BY <1>5, <2>1 DEF StoreInv, OnlyExposedAreLost
<1> QED  BY <1>6, <1>7, <1>8, <1>9, <1>11, <1>12 DEF StoreInv

LEMMA DisconnectKeeps ==
  ASSUME StoreInv, Disconnect
  PROVE  StoreInv'
<1>1. /\ up /\ tip # Genesis /\ tip' = Parent[tip] /\ disk' = Flushed(coins')
      /\ dirtyFiles' = {} /\ dirty' = {} /\ UNCHANGED <<up, index, info, last, exposed>>
  BY DEF Disconnect
<1>2. tip \in DOMAIN index /\ tip \in Blocks
  BY <1>1, TipKnown
<1>3. tip' \in DOMAIN index
  BY <1>1, <1>2 DEF StoreInv, Rooted, Closed
<1>4. Chain[tip'] \subseteq Chain[tip]
  BY <1>1, <1>2, ChainIs
<1> DEFINE c == coins'
<1>5. disk' = Flushed(c)
  BY <1>1
<1> HIDE DEF c
<1> QED  BY <1>1, <1>3, <1>4, <1>5, FlushKeeps

LEMMA InitHolds ==
  ASSUME Init
  PROVE  StoreInv
<1> DEFINE e == NewEntry(0, 0)
           r == [size |-> 1, usize |-> 0, top |-> 0]
<1>1. /\ index = [b \in {Genesis} |-> e] /\ info = <<r>> /\ last = 0
      /\ dirtyFiles = {} /\ dirty = {} /\ tip = Genesis /\ exposed = {}
      /\ disk = [blk |-> [p \in {<<0, 0>>} |-> Genesis], rev |-> <<>>,
                 index |-> index, info |-> [n \in {0} |-> info[1]], last |-> 0,
                 coins |-> coins, clean |-> FALSE]
  BY Zenon DEF Init
<1>2. e \in Entry /\ e.file = 0 /\ e.pos = 0 /\ e.undo = None /\ r \in Info
  BY DEF NewEntry, Entry, Info
<1>3. /\ IsDisk(disk) /\ disk.blk = [p \in {<<0, 0>>} |-> Genesis] /\ disk.index = index
      /\ disk.info = [n \in {0} |-> info[1]] /\ disk.last = 0
  BY <1>1 DEF IsDisk
<1> HIDE DEF e, r
<1>4. /\ info \in Seq(Info) /\ Len(info) = 1 /\ info[1] = r
  BY <1>1, <1>2
<1>5. /\ DOMAIN index = {Genesis} /\ index[Genesis] = e /\ Genesis \in Blocks
      /\ DOMAIN disk.info = {0} /\ disk.info[0] = r
  BY <1>1, <1>3, <1>4, ChainIs
<1>6. IsFiniteSet({Genesis}) /\ IsFiniteSet({0}) /\ IsFiniteSet({})
  BY FS_Singleton, FS_EmptySet
<1>7. EntriesIn(index)
  BY <1>2, <1>5, <1>6 DEF EntriesIn
<1>8. DiskType(disk)
  BY <1>2, <1>3, <1>5, <1>6, <1>7 DEF DiskType
<1>9. StoreType
  BY <1>1, <1>4, <1>6, <1>7, <1>8 DEF StoreType
<1>10. Behind /\ Rooted
  BY <1>1, <1>3, <1>5 DEF Behind, Rooted, Closed
<1>11. /\ InfoOf(info, 0) = r /\ DiskInfo(disk, 0) = r
       /\ \A n \in Nat : n # 0 => InfoOf(info, n) = NoInfo
  BY <1>4, <1>5 DEF InfoOf, DiskInfo
<1>12. Synced
  BY <1>11 DEF Synced
<1>13. InUse
  <2>1. r.size = 1
    BY DEF r
  <2> QED  BY <1>2, <1>5, <1>11, <2>1 DEF InUse
<1>14. UndoCounted /\ NewUndoIsActive
  BY <1>2, <1>3, <1>5 DEF UndoCounted, NewUndoIsActive
<1>15. OnlyExposedAreLost
  <2>1. Place(index[Genesis]) = <<0, 0>>
    BY <1>2, <1>5 DEF Place
  <2>2. HasBlock(disk, index[Genesis], Genesis)
    BY <1>3, <2>1 DEF HasBlock
  <2>3. Chain[tip] \ {Genesis} = {}
    BY <1>1, ChainIs
  <2> QED  BY <1>2, <1>5, <2>2, <2>3 DEF OnlyExposedAreLost
<1> QED  BY <1>9, <1>10, <1>12, <1>13, <1>14, <1>15 DEF StoreInv

LEMMA StepKeeps ==
  ASSUME StoreInv, [Next]_vars
  PROVE  StoreInv'
<1>1. ASSUME NEW b \in Blocks, Receive(b)  PROVE StoreInv'
  BY <1>1, ReceiveKeeps
<1>2. ASSUME NEW b \in Blocks, Connect(b)  PROVE StoreInv'
  BY <1>2, ReconnectKeeps, FirstConnectKeeps
<1>3. CASE Disconnect
  BY <1>3, DisconnectKeeps
<1>4. CASE Flush
  <2>1. /\ up /\ disk' = Flushed(coins) /\ dirtyFiles' = {} /\ dirty' = {} /\ tip' = tip
        /\ UNCHANGED <<up, index, info, last, exposed>>
    BY <1>4 DEF Flush
  <2>2. tip' \in DOMAIN index /\ Chain[tip'] \subseteq Chain[tip]
    BY <2>1, TipKnown
  <2> QED  BY <2>1, <2>2, FlushKeeps
<1>5. CASE Stop
  <2> DEFINE d == [Flushed(coins) EXCEPT !.clean = TRUE]
  <2>1. Load(d) /\ Saved(d, dirtyFiles, dirty)
    BY <1>5, FlushedIs DEF Stop, StoreInv
  <2> HIDE DEF d
  <2> QED  BY <2>1, LoadKeeps
<1>6. CASE Crash
  <2>1. PICK d \in CutOff : Load(d)
    BY <1>6 DEF Crash
  <2>2. PICK S, T : Saved(d, S, T)
    BY CutOffIs DEF StoreInv
  <2> QED  BY <2>1, <2>2, LoadKeeps
<1>7. CASE UNCHANGED vars
  BY <1>7 DEF vars, memory, StoreInv, StoreType, Behind, Rooted, Synced, InUse, UndoCounted,
              NewUndoIsActive, OnlyExposedAreLost, Exposed
<1> QED  BY <1>1, <1>2, <1>3, <1>4, <1>5, <1>6, <1>7 DEF Next

LEMMA StoreInvariant == Spec => []StoreInv
<1>1. Init => StoreInv
  BY InitHolds
<1>2. StoreInv /\ [Next]_vars => StoreInv'
  BY StepKeeps
<1> QED  BY <1>1, <1>2, PTL DEF Spec

\* In whatever order FlushStateToDisk writes the entries and wherever a crash cuts it off,
\* what is stored is read back as it was written, and every connected block can be undone;
\* the only blocks and undo data that FindBlockPos and FindUndoPos write over are those
\* that a crash left beyond the end of their file.  (A start that finds an entry without
\* its parent's is the last step that is modelled.)
THEOREM BlocksAreKept == Spec => []OnlyExposedAreLost
<1>1. StoreInv => OnlyExposedAreLost
  BY DEF StoreInv
<1> QED  BY <1>1, StoreInvariant, PTL

-------------------------------------------------------------------------------
(* Without exposure and replay, a node starts again. *)

LEMMA NewHasNoUndo == \A n, p : NewEntry(n, p).undo = None
BY DEF NewEntry

LEMMA ConnectIs ==
  ASSUME StoreInv, NEW b \in Blocks, Connect(b)
  PROVE  /\ b \in DOMAIN index /\ b # Genesis /\ Parent[b] = tip /\ up /\ tip' = b /\ up' = up
         /\ starts' = starts /\ exposed' = exposed
         /\ coins'.best = b /\ coins'.applied = coins.applied \cup {b}
         /\ DOMAIN index' = DOMAIN index /\ index'[b].undo # None
         /\ \A c \in DOMAIN index : c # b => index'[c] = index[c]
         /\ DOMAIN disk'.index = DOMAIN disk.index \cup {b} /\ disk'.index[b] = index[b]
         /\ \A c \in DOMAIN disk.index : c # b => disk'.index[c] = disk.index[c]
         /\ disk'.coins = disk.coins /\ disk'.blk = disk.blk /\ disk'.info = disk.info
         /\ disk'.last = disk.last /\ disk'.clean = disk.clean
         /\ last' = last /\ dirtyFiles \subseteq dirtyFiles'
         /\ \A c \in DOMAIN index : index'[c].file = index[c].file /\ index'[c].pos = index[c].pos
         /\ \A n \in Nat : /\ InfoOf(info', n).size = InfoOf(info, n).size
                            /\ InfoOf(info', n).top = InfoOf(info, n).top
<1> DEFINE T == {b}
           w == WithEntries(disk, T)
           e == index[b]
           q == InfoOf(info, e.file)
<1>1. /\ b \in DOMAIN index /\ b # Genesis /\ Parent[b] = tip /\ up /\ tip' = b /\ up' = up
      /\ starts' = starts /\ exposed' = exposed
      /\ coins'.best = b /\ coins'.applied = coins.applied \cup {b}
  BY DEF Connect
<1>6. last' = last /\ dirtyFiles \subseteq dirtyFiles'
  BY DEF Connect, UndoMarks
<1>2. /\ DiskType(w) /\ w.coins = disk.coins /\ w.blk = disk.blk /\ w.info = disk.info
      /\ w.last = disk.last /\ w.clean = disk.clean
      /\ w.index = [c \in DOMAIN disk.index \cup T |-> IF c \in T THEN index[c] ELSE disk.index[c]]
  <2>1. T \in SUBSET DOMAIN index /\ StoreType /\ DiskType(disk)
    BY <1>1 DEF StoreInv, StoreType
  <2> HIDE DEF T
  <2> DEFINE f == [c \in DOMAIN disk.index \cup T |-> IF c \in T THEN index[c] ELSE disk.index[c]]
  <2>2. /\ w = WithEntries(disk, T)
        /\ f = [c \in DOMAIN disk.index \cup T |-> IF c \in T THEN index[c] ELSE disk.index[c]]
    BY DEF w
  <2> HIDE DEF w, f
  <2>3. /\ DiskType(w) /\ w.coins = disk.coins /\ w.blk = disk.blk /\ w.info = disk.info
        /\ w.last = disk.last /\ w.clean = disk.clean /\ w.index = f
    BY <2>1, <2>2, EntriesWrittenAs
  <2> QED  BY <2>2, <2>3
<1>3. /\ DOMAIN w.index = DOMAIN disk.index \cup {b} /\ w.index[b] = index[b]
      /\ \A c \in DOMAIN disk.index : c # b => w.index[c] = disk.index[c]
  BY <1>2
<1>4. CASE e.undo # None
  <2>1. disk' = w /\ index' = index /\ info' = info
    BY <1>4 DEF Connect
  <2> HIDE DEF w, q
  <2> QED  BY <1>1, <1>2, <1>3, <1>4, <1>6, <2>1
<1>5. CASE e.undo = None
  <2> DEFINE f == Put(w.rev, <<e.file, q.usize>>, b)
  <2>1. disk' = [w EXCEPT !.rev = f] /\ index' = [index EXCEPT ![b].undo = q.usize]
    BY <1>5 DEF Connect
  <2> HIDE DEF w, f
  <2>2. /\ disk'.index = w.index /\ disk'.coins = w.coins /\ disk'.blk = w.blk
        /\ disk'.info = w.info /\ disk'.last = w.last /\ disk'.clean = w.clean
    BY <1>2, <2>1, RevWith
  <2>3. q.usize \in Nat /\ e \in Entry /\ q \in Info /\ e.file \in Nat /\ info \in Seq(Info)
    <3>1. e \in Entry /\ e.file \in Nat /\ info \in Seq(Info)
      BY <1>1 DEF StoreInv, StoreType, EntriesIn, Entry
    <3> QED  BY <3>1, InfoOfType DEF Info
  <2>4. index'[b].undo = q.usize /\ index'[b].file = e.file /\ index'[b].pos = e.pos
    <3>1. index'[b] = [e EXCEPT !.undo = q.usize]
      BY <1>1, <2>1
    <3> HIDE DEF e, q
    <3> QED  BY <2>3, <3>1 DEF Entry
  <2>5. index'[b].undo # None
    BY <2>3, <2>4, BlockStoreAssumption DEF BlockStoreAssumption
  <2>6. DOMAIN index' = DOMAIN index /\ \A c \in DOMAIN index : c # b => index'[c] = index[c]
    BY <2>1
  <2>7. \A c \in DOMAIN index : index'[c].file = index[c].file /\ index'[c].pos = index[c].pos
    BY <2>4, <2>6
  <2>8. \A n \in Nat : /\ InfoOf(info', n).size = InfoOf(info, n).size
                       /\ InfoOf(info', n).top = InfoOf(info, n).top
    <3> DEFINE n == e.file
               u == q.usize + 1
               r == [q EXCEPT !.usize = u]
    <3>1. info' = WithInfo(info, n, r)
      BY <1>5 DEF Connect
    <3>2. u \in Nat
      BY <2>3
    <3> HIDE DEF u, q
    <3>3. r \in Info /\ r.size = q.size /\ r.top = q.top
      BY <2>3, <3>2 DEF Info
    <3> HIDE DEF r, n
    <3>4. n \in Nat /\ q = InfoOf(info, n)
      BY <2>3 DEF n, q
    <3>5. InfoOf(info', n) = r /\ \A m \in Nat : m # n => InfoOf(info', m) = InfoOf(info, m)
      BY <2>3, <3>1, <3>3, <3>4, WithInfoIs
    <3> QED  BY <3>3, <3>4, <3>5
  <2> HIDE DEF w, q
  <2> QED  BY <1>1, <1>2, <1>3, <1>6, <2>2, <2>5, <2>6, <2>7, <2>8
<1> QED  BY <1>4, <1>5

LEMMA ReadyConnect ==
  ASSUME StoreInv, Ready, NEW b \in Blocks, Connect(b)
  PROVE  Ready'
<1>1. /\ b \in DOMAIN index /\ b # Genesis /\ Parent[b] = tip /\ up /\ tip' = b /\ up' = up
      /\ starts' = starts /\ exposed' = exposed
      /\ coins'.best = b /\ coins'.applied = coins.applied \cup {b}
      /\ DOMAIN index' = DOMAIN index /\ index'[b].undo # None
      /\ \A c \in DOMAIN index : c # b => index'[c] = index[c]
      /\ DOMAIN disk'.index = DOMAIN disk.index \cup {b} /\ disk'.index[b] = index[b]
      /\ \A c \in DOMAIN disk.index : c # b => disk'.index[c] = disk.index[c]
      /\ disk'.coins = disk.coins
  BY ConnectIs
<1>2. SUFFICES ASSUME starts \cap {"replayed", "orphaned"} = {}, exposed = {}
               PROVE  /\ up'
                      /\ coins'.best = tip' /\ tip' \in Blocks
                      /\ coins'.applied = Chain[tip'] \ {Genesis}
                      /\ disk'.coins.best \in Blocks
                      /\ disk'.coins.applied = Chain[disk'.coins.best] \ {Genesis}
                      /\ Connected(index', tip')
                      /\ Connected(disk'.index, disk'.coins.best)
  BY <1>1 DEF Ready
<1>3. /\ coins.applied = Chain[tip] \ {Genesis}
      /\ disk.coins.best \in Blocks
      /\ disk.coins.applied = Chain[disk.coins.best] \ {Genesis}
      /\ Connected(index, tip)
      /\ Connected(disk.index, disk.coins.best)
  BY <1>2 DEF Ready
<1>4. Chain[b] = {b} \cup Chain[tip]
  BY <1>1, ChainIs
<1>5. coins'.applied = Chain[tip'] \ {Genesis}
  BY <1>1, <1>3, <1>4
<1>6. Connected(index', tip')
  BY <1>1, <1>3, <1>4 DEF Connected
<1>7. Connected(disk'.index, disk'.coins.best)
  <2> SUFFICES ASSUME NEW c \in Chain[disk.coins.best]
               PROVE  c \in DOMAIN disk'.index /\ (c # Genesis => disk'.index[c].undo # None)
    BY <1>1 DEF Connected
  <2>1. c \in DOMAIN disk.index /\ (c # Genesis => disk.index[c].undo # None)
    BY <1>3 DEF Connected
  <2>2. CASE c # b
    BY <1>1, <2>1, <2>2
  <2>3. CASE c = b
    <3>1. disk.index[b] = index[b] \/ disk.index[b].undo = None
      BY <2>1, <2>3, NewHasNoUndo DEF StoreInv, Behind
    <3> QED  BY <1>1, <2>1, <2>3, <3>1
  <2> QED  BY <2>2, <2>3
<1> QED  BY <1>1, <1>3, <1>5, <1>6, <1>7

LEMMA ReadyReceive ==
  ASSUME StoreInv, Ready, NEW b \in Blocks, Receive(b)
  PROVE  Ready'
<1>1. PICK n \in Nat, r \in Info :
           /\ index' = Put(index, b, NewEntry(n, InfoOf(info, n).size))
           /\ disk' = [Left(n) EXCEPT !.blk =
                         Put(Left(n).blk, <<n, InfoOf(info, n).size>>, b)]
  BY ReceiveIs
<1>2. /\ up /\ b \notin DOMAIN index /\ up' = up /\ tip' = tip /\ coins' = coins
      /\ exposed' = exposed /\ starts' = starts
  BY DEF Receive
<1>3. disk'.index = disk.index /\ disk'.coins = disk.coins
  <2>1. DiskType(Left(n)) /\ Left(n).index = disk.index /\ Left(n).coins = disk.coins
    BY LeftIs
  <2> QED  BY <1>1, <2>1, BlkWith
<1>4. ASSUME Connected(index, tip)  PROVE Connected(index', tip)
  BY <1>1, <1>2, <1>4 DEF Connected, Put
<1> QED  BY <1>2, <1>3, <1>4 DEF Ready

\* A flush that is not cut off, with the coins at the tip.
LEMMA ReadyFlush ==
  ASSUME StoreInv, Ready, NEW c, disk' = Flushed(c), c = coins',
         UNCHANGED <<up, index, exposed, starts>>,
         tip' = tip \/ (tip \in Blocks \ {Genesis} /\ tip' = Parent[tip]),
         coins'.best = tip',
         coins'.applied = IF tip' = tip THEN coins.applied ELSE coins.applied \ {tip}
  PROVE  Ready'
<1> DEFINE d == Flushed(c)
<1>1. Saved(d, dirtyFiles, dirty) /\ d.coins = c /\ disk' = d
  BY FlushedIs DEF StoreInv
<1> HIDE DEF d
<1>2. DOMAIN d.index = DOMAIN index /\ \A b \in DOMAIN index : d.index[b] = index[b]
  BY <1>1, FlushedIsMemory
<1>3. SUFFICES ASSUME starts \cap {"replayed", "orphaned"} = {}, exposed = {}
               PROVE  /\ tip' \in Blocks
                      /\ coins'.applied = Chain[tip'] \ {Genesis}
                      /\ Connected(index, tip')
                      /\ Connected(d.index, tip')
  BY <1>1, ChainIs DEF Ready
<1>4. tip \in Blocks /\ coins.applied = Chain[tip] \ {Genesis} /\ Connected(index, tip)
  BY <1>3 DEF Ready
<1>5. tip' \in Blocks /\ Chain[tip'] \subseteq Chain[tip]
  BY <1>4, ChainIs
<1>6. coins'.applied = Chain[tip'] \ {Genesis}
  BY <1>4, ChainIs
<1>7. Connected(index, tip') /\ Connected(d.index, tip')
  BY <1>2, <1>4, <1>5 DEF Connected
<1> QED  BY <1>5, <1>6, <1>7

\* What a node needs of the disk to start without a replay.
LEMMA ReadyLoad ==
  ASSUME StoreInv, Ready, NEW d, NEW S, NEW T, Saved(d, S, T), Load(d),
         d.coins = disk.coins \/ (d.coins = coins /\ S = dirtyFiles /\ T = dirty)
  PROVE  Ready'
<1> DEFINE c == d.coins
<1>1. DiskType(d) /\ d.blk = disk.blk /\ d.rev = disk.rev
  BY DEF Saved
<1>2. /\ index' = d.index /\ disk'.index = d.index /\ disk'.coins = coins'
      /\ exposed \subseteq exposed'
  BY <1>1, LoadIs
<1>3. PICK how \in Ways(d) : \E o \in Outcomes(d, how) :
          /\ up' = o[1] /\ tip' = o[2].best /\ coins' = o[2]
          /\ starts' = starts \cup ({how} \ {"plain"})
  BY Zenon DEF Load
<1>4. PICK o \in Outcomes(d, how) :
        /\ up' = o[1] /\ tip' = o[2].best /\ coins' = o[2]
        /\ starts' = starts \cup ({how} \ {"plain"})
  BY <1>3, Zenon
<1>5. SUFFICES ASSUME starts' \cap {"replayed", "orphaned"} = {}, exposed' = {}
               PROVE  /\ up'
                      /\ coins'.best = tip' /\ tip' \in Blocks
                      /\ coins'.applied = Chain[tip'] \ {Genesis}
                      /\ Connected(d.index, tip')
  BY <1>2 DEF Ready
<1>6. /\ o \in PlainOutcomes(d) /\ exposed = {}
      /\ starts \cap {"replayed", "orphaned"} = {}
  <2>1. how \notin {"replayed", "orphaned"} /\ starts \subseteq starts'
    BY <1>4, <1>5
  <2> QED  BY <1>2, <1>4, <1>5, <2>1 DEF Outcomes
<1>7. /\ coins.best = tip /\ tip \in Blocks
      /\ coins.applied = Chain[tip] \ {Genesis}
      /\ disk.coins.best \in Blocks
      /\ disk.coins.applied = Chain[disk.coins.best] \ {Genesis}
      /\ Connected(index, tip)
      /\ Connected(disk.index, disk.coins.best)
  BY <1>6 DEF Ready
<1>8. /\ DOMAIN d.index \subseteq DOMAIN index
      /\ \A b \in DOMAIN d.index :
           d.index[b] = index[b] \/ d.index[b] = NewEntry(index[b].file, index[b].pos)
  BY SavedFits
<1>9. c.best \in Blocks /\ c.applied = Chain[c.best] \ {Genesis}
  BY <1>7
<1>10. Connected(d.index, c.best)
  <2>1. CASE d.coins = disk.coins
    <3> SUFFICES ASSUME NEW b \in Chain[disk.coins.best]
                 PROVE  b \in DOMAIN d.index /\ (b # Genesis => d.index[b].undo # None)
      BY <2>1 DEF Connected
    <3>1. b \in DOMAIN disk.index /\ (b # Genesis => disk.index[b].undo # None)
      BY <1>7 DEF Connected
    <3>2. b \in DOMAIN d.index /\ (d.index[b] = index[b] \/ d.index[b] = disk.index[b])
      BY <3>1 DEF Saved
    <3>3. disk.index[b] = index[b] \/ disk.index[b].undo = None
      BY <3>1, NewHasNoUndo DEF StoreInv, Behind
    <3> QED  BY <3>1, <3>2, <3>3
  <2>2. CASE d.coins = coins /\ S = dirtyFiles /\ T = dirty
    <3>1. DOMAIN d.index = DOMAIN index /\ \A b \in DOMAIN index : d.index[b] = index[b]
      BY <2>2, FlushedIsMemory
    <3> QED  BY <1>7, <2>2, <3>1 DEF Connected
  <2> QED  BY <2>1, <2>2
<1> HIDE DEF c
<1>11. Verified(d, c)
  <2> SUFFICES ASSUME NEW b \in Chain[c.best] \ {Genesis}
               PROVE  b \in c.applied /\ HasBlock(d, d.index[b], b) /\ HasUndo(d, d.index[b], b)
    BY DEF Verified
  <2>1. b \in DOMAIN d.index /\ d.index[b].undo # None /\ b \in DOMAIN index
    BY <1>8, <1>10 DEF Connected
  <2>2. d.index[b] = index[b]
    BY <1>8, <2>1, NewHasNoUndo
  <2>3. HasBlock(disk, index[b], b) /\ HasUndo(disk, index[b], b)
    BY <1>6, <2>1, <2>2 DEF StoreInv, OnlyExposedAreLost
  <2> QED  BY <1>1, <1>9, <2>2, <2>3 DEF HasBlock, HasUndo
<1>12. c.best \in DOMAIN d.index
  BY <1>9, <1>10, ChainIs DEF Connected
<1>13. o \in Checked(d, c)
  BY <1>6, <1>12 DEF PlainOutcomes, c
<1>14. ~Overfull(c)
  BY <1>9 DEF Overfull
<1>15. o = <<Verified(d, c), c>>
  BY <1>13, <1>14, Zenon DEF Checked
<1>16. o[1] = Verified(d, c) /\ o[2] = c
  BY <1>15, PairIs, Zenon
<1>17. up' /\ coins' = c /\ tip' = c.best
  BY <1>4, <1>11, <1>16, Zenon
<1> QED  BY <1>9, <1>10, <1>17

LEMMA ReadyStep ==
  ASSUME StoreInv, Ready, [Next]_vars
  PROVE  Ready'
<1>1. ASSUME NEW b \in Blocks, Receive(b)  PROVE Ready'
  BY <1>1, ReadyReceive
<1>2. ASSUME NEW b \in Blocks, Connect(b)  PROVE Ready'
  BY <1>2, ReadyConnect
<1>3. CASE Disconnect
  <2> DEFINE c == coins'
  <2>1. /\ up /\ tip # Genesis /\ tip' = Parent[tip] /\ disk' = Flushed(c)
        /\ coins' = [best |-> tip', applied |-> coins.applied \ {tip}]
        /\ UNCHANGED <<up, index, exposed, starts>>
    BY <1>3 DEF Disconnect
  <2>2. tip \in Blocks
    BY <2>1, TipKnown
  <2>3. tip' # tip
    BY <2>1, <2>2, ChainIs
  <2>4. c = coins' /\ coins'.best = tip' /\ coins'.applied = coins.applied \ {tip}
    BY <2>1
  <2> HIDE DEF c
  <2> QED  BY <2>1, <2>2, <2>3, <2>4, ReadyFlush
<1>4. CASE Flush
  <2>1. /\ up /\ disk' = Flushed(coins) /\ tip' = tip /\ coins' = coins
        /\ UNCHANGED <<up, index, exposed, starts>>
    BY <1>4 DEF Flush
  <2>2. CASE starts \cap {"replayed", "orphaned"} # {} \/ exposed # {}
    BY <2>1, <2>2 DEF Ready
  <2>3. CASE starts \cap {"replayed", "orphaned"} = {} /\ exposed = {}
    <3>1. coins'.best = tip' /\ coins'.applied = coins.applied
      BY <2>1, <2>3 DEF Ready
    <3> QED  BY <2>1, <3>1, ReadyFlush
  <2> QED  BY <2>2, <2>3
<1>5. CASE Stop
  <2> DEFINE d == [Flushed(coins) EXCEPT !.clean = TRUE]
  <2>1. Load(d) /\ Saved(d, dirtyFiles, dirty) /\ d.coins = coins
    BY <1>5, FlushedIs DEF Stop, StoreInv
  <2> HIDE DEF d
  <2> QED  BY <2>1, ReadyLoad
<1>6. CASE Crash
  <2>1. PICK d \in CutOff : Load(d)
    BY <1>6 DEF Crash
  <2>2. PICK S, T : Saved(d, S, T)
    BY CutOffIs DEF StoreInv
  <2>3. d.coins = disk.coins
    BY CutOffIs DEF StoreInv
  <2> QED  BY <2>1, <2>2, <2>3, ReadyLoad
<1>7. CASE UNCHANGED vars
  BY <1>7 DEF vars, memory, Ready, Connected
<1> QED  BY <1>1, <1>2, <1>3, <1>4, <1>5, <1>6, <1>7 DEF Next

\* However often a node crashes, and wherever in a flush, it starts again from what is on
\* disk, unless a crash left a block beyond the end of its file or stored an entry and not
\* that of its parent, or the start replays blocks: what FlushStateToDisk writes before
\* the coins is enough to undo and redo them.
THEOREM NodeStarts == Spec => []StartsUnlessExposed
<1>1. Init => Ready
  <2> SUFFICES ASSUME Init  PROVE Ready
    OBVIOUS
  <2>1. /\ up /\ tip = Genesis /\ coins = [best |-> Genesis, applied |-> {}]
        /\ DOMAIN index = {Genesis} /\ disk.index = index /\ disk.coins = coins
    BY DEF Init
  <2> QED  BY <2>1, ChainIs DEF Ready, Connected
<1>2. StoreInv /\ Ready /\ [Next]_vars => Ready'
  BY ReadyStep
<1>3. Ready => StartsUnlessExposed
  BY DEF Ready, StartsUnlessExposed
<1> QED  BY <1>1, <1>2, <1>3, StoreInvariant, PTL DEF Spec

-------------------------------------------------------------------------------
(* The coins of a node that has received one chain only. *)

\* The block at a place in the block files.
At(d, n, k, b) == <<n, k>> \in DOMAIN d.blk /\ d.blk[<<n, k>>] = b

\* The blocks that the file infos count.
Counted(d) == {b \in Blocks : \E n, k \in Nat : k < DiskInfo(d, n).size /\ At(d, n, k, b)}

\* What a start can come to know of.
Live(d) == DOMAIN d.index \cup Counted(d)

\* The height that the last file info on disk gives.
Top(d) == DiskInfo(d, d.last).top

Single(S) == \A b, c \in S : Height(b) = Height(c) => b = c

\* A block that the index on disk misses is stored, before the end of its file.
Fresh ==
  \A b \in DOMAIN index \ DOMAIN disk.index :
    HasBlock(disk, index[b], b) /\ index[b].pos < InfoOf(info, index[b].file).size

\* A file info only grows.
Grown == \A n \in Nat : /\ DiskInfo(disk, n).size <= InfoOf(info, n).size
                        /\ DiskInfo(disk, n).top <= InfoOf(info, n).top

\* Files are taken in the order of their numbers.
InOrder ==
  \A n \in Nat : /\ InfoOf(info, n).size > 0 => 0 .. n \subseteq DOMAIN disk.info \cup dirtyFiles
                 /\ InfoOf(info, n).size = 0 => InfoOf(info, n).top = 0
                 /\ DiskInfo(disk, n).size > 0 => 0 .. n \subseteq DOMAIN disk.info
                 /\ DiskInfo(disk, n).size = 0 => DiskInfo(disk, n).top = 0

LastInUse ==
  /\ InfoOf(info, last).size > 0 /\ DiskInfo(disk, disk.last).size > 0
  /\ dirtyFiles = {} => disk.last = last

FileInv == Fresh /\ Grown /\ InOrder /\ LastInUse /\ disk.clean = FALSE

\* The coins are those of their block, which is no higher than the last file info
\* says, nor is any block that has undo data.
OneDisk(d) ==
  /\ d.coins.best \in DOMAIN d.index /\ Height(d.coins.best) <= Top(d)
  /\ d.coins.applied = Chain[d.coins.best] \ {Genesis}
  /\ \A b \in DOMAIN d.index : d.index[b].undo # None => Height(b) <= Top(d)

OneMemory ==
  /\ coins.applied = Chain[coins.best] \ {Genesis} /\ coins.best \in DOMAIN index
  /\ up => /\ coins.best = tip
           /\ \A b \in DOMAIN index \ Chain[tip] : index[b].undo # None => Height(b) <= Top(disk)

Counts == \A b \in DOMAIN index : Height(b) <= InfoOf(info, last).top

OneInv ==
  "forced" \notin starts =>
    /\ Single(Live(disk)) => OneMemory /\ (up => OneDisk(disk))
    /\ up /\ Single(DOMAIN index \cup Live(disk)) => Counts

LEMMA HasBlockIsAt ==
  \A d, e, b : HasBlock(d, e, b) <=> At(d, e.file, e.pos, b)
BY DEF HasBlock, At, Place

LEMMA DiskInfoType ==
  ASSUME NEW d, DiskType(d), NEW n \in Nat
  PROVE  DiskInfo(d, n) \in Info
<1>1. NoInfo \in Info
  BY DEF NoInfo, Info
<1> QED  BY <1>1 DEF DiskType, DiskInfo

LEMMA SingleOfSubset ==
  ASSUME NEW S, NEW T, S \subseteq T, Single(T)
  PROVE  Single(S)
BY DEF Single

\* With more infos and the same blocks, more is counted.
LEMMA LiveGrows ==
  ASSUME NEW d, NEW e, DiskType(d), DiskType(e), DOMAIN d.index \subseteq DOMAIN e.index,
         \A n \in Nat : DiskInfo(d, n).size <= DiskInfo(e, n).size,
         \A n, k \in Nat, b \in Blocks :
           k < DiskInfo(d, n).size /\ At(d, n, k, b) => At(e, n, k, b)
  PROVE  Live(d) \subseteq Live(e)
<1>1. ASSUME NEW b \in Counted(d)  PROVE b \in Counted(e)
  <2>1. PICK n \in Nat, k \in Nat : k < DiskInfo(d, n).size /\ At(d, n, k, b)
    BY <1>1 DEF Counted
  <2>2. b \in Blocks
    BY <1>1 DEF Counted
  <2>3. DiskInfo(d, n).size \in Nat /\ DiskInfo(e, n).size \in Nat
    BY DiskInfoType DEF Info
  <2>4. k < DiskInfo(e, n).size /\ At(e, n, k, b)
    BY <2>1, <2>2, <2>3
  <2> QED  BY <2>2, <2>4 DEF Counted
<1> QED  BY <1>1 DEF Live

\* The info on disk after a flush, complete or cut off.
LEMMA SavedInfo ==
  ASSUME StoreInv, FileInv, NEW d, NEW S, NEW T, Saved(d, S, T)
  PROVE  /\ \A n \in Nat : /\ n \in S => DiskInfo(d, n) = InfoOf(info, n)
                           /\ n \notin S => DiskInfo(d, n) = DiskInfo(disk, n)
                           /\ DiskInfo(disk, n).size <= DiskInfo(d, n).size
                           /\ DiskInfo(disk, n).top <= DiskInfo(d, n).top
         /\ S = dirtyFiles => \A n \in Nat : InfoOf(info, n).size > 0 => DiskInfo(d, n) = InfoOf(info, n)
         /\ Live(disk) \subseteq Live(d)
<1>1. /\ S \subseteq dirtyFiles /\ DiskType(d) /\ d.blk = disk.blk
      /\ DOMAIN d.info = DOMAIN disk.info \cup S
      /\ \A n \in DOMAIN d.info : d.info[n] = IF n \in S THEN InfoOf(info, n) ELSE disk.info[n]
      /\ DOMAIN disk.index \subseteq DOMAIN d.index
  BY DEF Saved
<1>2. DiskType(disk)
  BY DEF StoreInv, StoreType
<1>3. ASSUME NEW n \in Nat
      PROVE  /\ n \in S => DiskInfo(d, n) = InfoOf(info, n)
             /\ n \notin S => DiskInfo(d, n) = DiskInfo(disk, n)
             /\ DiskInfo(disk, n).size <= DiskInfo(d, n).size
             /\ DiskInfo(disk, n).top <= DiskInfo(d, n).top
  <2>1. n \in S => DiskInfo(d, n) = InfoOf(info, n)
    BY <1>1 DEF DiskInfo
  <2>2. n \notin S => DiskInfo(d, n) = DiskInfo(disk, n)
    BY <1>1 DEF DiskInfo
  <2>3. DiskInfo(disk, n).size \in Nat /\ DiskInfo(disk, n).top \in Nat
    BY <1>2, DiskInfoType DEF Info
  <2> QED  BY <2>1, <2>2, <2>3 DEF FileInv, Grown
<1>4. ASSUME S = dirtyFiles, NEW n \in Nat, InfoOf(info, n).size > 0
      PROVE  DiskInfo(d, n) = InfoOf(info, n)
  <2>1. InfoOf(info, n) # NoInfo
    BY <1>4 DEF NoInfo
  <2>2. n \notin dirtyFiles => InfoOf(info, n) = DiskInfo(disk, n)
    BY <2>1 DEF StoreInv, Synced
  <2> QED  BY <1>3, <1>4, <2>2
<1>5. Live(disk) \subseteq Live(d)
  <2>1. \A n, k \in Nat, b \in Blocks :
          k < DiskInfo(disk, n).size /\ At(disk, n, k, b) => At(d, n, k, b)
    BY <1>1 DEF At
  <2>2. \A n \in Nat : DiskInfo(disk, n).size <= DiskInfo(d, n).size
    BY <1>3
  <2> QED  BY <1>1, <1>2, <2>1, <2>2, LiveGrows
<1> QED  BY <1>3, <1>4, <1>5

\* The places that are in use keep their blocks when a block is received.
LEMMA ReceiveDisk ==
  ASSUME StoreInv, FileInv, NEW b \in Blocks, Receive(b)
  PROVE  \E n \in Nat, r \in Info :
           /\ n >= last /\ \A m \in last .. n - 1 : InfoOf(info, m).size >= PerFile
           /\ r.size = InfoOf(info, n).size + 1
           /\ r.top >= Height(b) /\ r.top >= InfoOf(info, n).top
           /\ InfoOf(info', n) = r
           /\ \A m \in Nat : m # n => InfoOf(info', m) = InfoOf(info, m)
           /\ last' = n /\ dirtyFiles' = dirtyFiles \cup {n}
           /\ DOMAIN index' = DOMAIN index \cup {b}
           /\ index'[b] = NewEntry(n, InfoOf(info, n).size)
           /\ \A c \in DOMAIN index : index'[c] = index[c]
           /\ DiskType(disk') /\ disk'.index = disk.index /\ disk'.info = disk.info
           /\ disk'.coins = disk.coins /\ disk'.last = disk.last /\ disk'.clean = disk.clean
           /\ At(disk', n, InfoOf(info, n).size, b)
           /\ \A m, k \in Nat : \A c : k < InfoOf(info, m).size /\ At(disk, m, k, c) => At(disk', m, k, c)
<1>1. PICK n \in Nat, r \in Info :
           /\ n >= last /\ \A m \in last .. n - 1 : InfoOf(info, m).size >= PerFile
           /\ r.size = InfoOf(info, n).size + 1 /\ r.usize = InfoOf(info, n).usize
           /\ r.top >= Height(b) /\ r.top >= InfoOf(info, n).top
           /\ info' = WithInfo(info, n, r)
           /\ last' = n /\ dirtyFiles' = dirtyFiles \cup {n}
           /\ index' = Put(index, b, NewEntry(n, InfoOf(info, n).size))
           /\ disk' = [Left(n) EXCEPT !.blk =
                         Put(Left(n).blk, <<n, InfoOf(info, n).size>>, b)]
  BY ReceiveIs
<1> DEFINE q == InfoOf(info, n)
           p == <<n, q.size>>
           w == Left(n)
           f == Put(w.blk, p, b)
<1>2. info \in Seq(Info) /\ last \in Nat /\ b \notin DOMAIN index
  BY DEF StoreInv, StoreType, Receive
<1>3. q.size \in Nat
  BY <1>2, InfoOfType DEF Info
<1>4. InfoOf(info', n) = r /\ \A m \in Nat : m # n => InfoOf(info', m) = InfoOf(info, m)
  BY <1>1, <1>2, WithInfoIs
<1>5. /\ DOMAIN index' = DOMAIN index \cup {b}
      /\ index'[b] = NewEntry(n, q.size)
      /\ \A c \in DOMAIN index : index'[c] = index[c]
  <2> DEFINE e == NewEntry(n, q.size)
  <2>1. index' = Put(index, b, e)
    BY <1>1
  <2> HIDE DEF e
  <2>2. DOMAIN index' = DOMAIN index \cup {b} /\ index'[b] = e
    BY <2>1 DEF Put
  <2>3. \A c \in DOMAIN index : index'[c] = index[c]
    BY <1>2, <2>1 DEF Put
  <2> QED  BY <2>2, <2>3 DEF e
<1>6. /\ DiskType(w) /\ w.index = disk.index /\ w.info = disk.info
      /\ w.coins = disk.coins /\ w.last = disk.last /\ w.clean = disk.clean
      /\ \A z : \/ z[1] = last /\ ~(z[2] < InfoOf(info, last).size)
                \/ z \notin DOMAIN disk.blk
                \/ z \in DOMAIN w.blk /\ w.blk[z] = disk.blk[z]
  BY LeftIs
<1>7. disk' = [w EXCEPT !.blk = f]
  BY <1>1
<1> HIDE DEF w
<1>8. f = Put(w.blk, p, b)
  OBVIOUS
<1> HIDE DEF f, p
<1>9. /\ DiskType(disk') /\ disk'.blk = f /\ disk'.index = disk.index /\ disk'.info = disk.info
      /\ disk'.coins = disk.coins /\ disk'.last = disk.last /\ disk'.clean = disk.clean
  BY <1>6, <1>7, BlkWith
<1>10. At(disk', n, q.size, b)
  <2>1. p \in DOMAIN disk'.blk /\ disk'.blk[p] = b
    BY <1>8, <1>9 DEF Put
  <2> QED  BY <2>1 DEF At, p
<1>11. ASSUME NEW m \in Nat, NEW k \in Nat, NEW c, k < InfoOf(info, m).size, At(disk, m, k, c)
       PROVE  At(disk', m, k, c)
  <2> DEFINE z == <<m, k>>
  <2>1. z \in DOMAIN disk.blk /\ disk.blk[z] = c
    BY <1>11 DEF At
  <2>2. z # p
    <3>1. ~(m = n /\ k = q.size)
      BY <1>3, <1>11
    <3> QED  BY <3>1 DEF p
  <2>3. ~(z[1] = last /\ ~(z[2] < InfoOf(info, last).size))
    BY <1>11
  <2> HIDE DEF z
  <2>4. z \in DOMAIN w.blk /\ w.blk[z] = c
    BY <1>6, <2>1, <2>3
  <2>5. z \in DOMAIN disk'.blk /\ disk'.blk[z] = c
    BY <1>8, <1>9, <2>2, <2>4 DEF Put
  <2> QED  BY <2>5 DEF At, z
<1> QED  BY <1>1, <1>4, <1>5, <1>9, <1>10, <1>11 DEF q

LEMMA FilesReceive ==
  ASSUME StoreInv, FileInv, NEW b \in Blocks, Receive(b)
  PROVE  FileInv'
<1>1. PICK n \in Nat, r \in Info :
           /\ n >= last /\ \A m \in last .. n - 1 : InfoOf(info, m).size >= PerFile
           /\ r.size = InfoOf(info, n).size + 1
           /\ r.top >= Height(b) /\ r.top >= InfoOf(info, n).top
           /\ InfoOf(info', n) = r
           /\ \A m \in Nat : m # n => InfoOf(info', m) = InfoOf(info, m)
           /\ last' = n /\ dirtyFiles' = dirtyFiles \cup {n}
           /\ DOMAIN index' = DOMAIN index \cup {b}
           /\ index'[b] = NewEntry(n, InfoOf(info, n).size)
           /\ \A c \in DOMAIN index : index'[c] = index[c]
           /\ DiskType(disk') /\ disk'.index = disk.index /\ disk'.info = disk.info
           /\ disk'.coins = disk.coins /\ disk'.last = disk.last /\ disk'.clean = disk.clean
           /\ At(disk', n, InfoOf(info, n).size, b)
           /\ \A m, k \in Nat : \A c : k < InfoOf(info, m).size /\ At(disk, m, k, c) => At(disk', m, k, c)
  BY ReceiveDisk
<1>2. info \in Seq(Info) /\ last \in Nat /\ EntriesIn(index) /\ PerFile \in Nat \ {0} /\ DiskType(disk)
  BY BlockStoreAssumption DEF StoreInv, StoreType, BlockStoreAssumption
<1>3. \A m \in Nat : InfoOf(info, m) \in Info /\ DiskInfo(disk, m) \in Info
  BY <1>2, InfoOfType, DiskInfoType
<1>4. \A m \in Nat : /\ InfoOf(info, m).size \in Nat /\ InfoOf(info, m).top \in Nat
                     /\ DiskInfo(disk, m).size \in Nat /\ DiskInfo(disk, m).top \in Nat
  BY <1>3 DEF Info
<1>5. r.size \in Nat /\ r.top \in Nat /\ r.size > 0
  BY <1>1, <1>4 DEF Info
<1>6. \A m : DiskInfo(disk', m) = DiskInfo(disk, m)
  BY <1>1 DEF DiskInfo
<1>7. \A m \in Nat : /\ InfoOf(info, m).size <= InfoOf(info', m).size
                     /\ InfoOf(info, m).top <= InfoOf(info', m).top
  BY <1>1, <1>4, <1>5
<1>8. Fresh'
  <2> SUFFICES ASSUME NEW c \in DOMAIN index', c \notin DOMAIN disk.index
               PROVE  HasBlock(disk', index'[c], c) /\ index'[c].pos < InfoOf(info', index'[c].file).size
    BY <1>1 DEF Fresh
  <2>1. CASE c = b
    <3>1. index'[b].file = n /\ index'[b].pos = InfoOf(info, n).size
      BY <1>1 DEF NewEntry
    <3>2. HasBlock(disk', index'[b], b)
      BY <1>1, <3>1, HasBlockIsAt
    <3>3. InfoOf(info, n).size < r.size
      BY <1>1, <1>4
    <3> QED  BY <1>1, <2>1, <3>1, <3>2, <3>3
  <2>2. CASE c # b
    <3> DEFINE m == index[c].file
               k == index[c].pos
    <3>1. c \in DOMAIN index /\ index'[c] = index[c]
      BY <1>1, <2>2
    <3>2. HasBlock(disk, index[c], c) /\ k < InfoOf(info, m).size
      BY <3>1 DEF FileInv, Fresh
    <3>3. m \in Nat /\ k \in Nat
      BY <1>2, <3>1 DEF EntriesIn, Entry
    <3>4. At(disk', m, k, c)
      BY <1>1, <3>2, <3>3, HasBlockIsAt
    <3>5. InfoOf(info', m).size \in Nat
      BY <1>1, <1>4, <1>5, <3>3
    <3>6. k < InfoOf(info', m).size
      BY <1>4, <1>7, <3>2, <3>3, <3>5
    <3> QED  BY <3>1, <3>4, <3>6, HasBlockIsAt
  <2> QED  BY <2>1, <2>2
<1>9. Grown'
  <2> SUFFICES ASSUME NEW m \in Nat
               PROVE  /\ DiskInfo(disk, m).size <= InfoOf(info', m).size
                      /\ DiskInfo(disk, m).top <= InfoOf(info', m).top
    BY <1>6 DEF Grown
  <2>1. /\ DiskInfo(disk, m).size <= InfoOf(info, m).size
        /\ DiskInfo(disk, m).top <= InfoOf(info, m).top
    BY DEF FileInv, Grown
  <2>2. InfoOf(info', m).size \in Nat /\ InfoOf(info', m).top \in Nat
    BY <1>1, <1>4, <1>5
  <2> QED  BY <1>4, <1>7, <2>1, <2>2
<1>10. InOrder'
  <2>1. 0 .. n \subseteq DOMAIN disk.info \cup dirtyFiles'
    <3>1. CASE n = last
      BY <1>1, <1>2, <3>1 DEF FileInv, InOrder, LastInUse
    <3>2. CASE n # last
      <4>1. n - 1 \in Nat /\ n - 1 \in last .. n - 1
        BY <1>1, <1>2, <3>2
      <4>2. InfoOf(info, n - 1).size > 0
        BY <1>1, <1>2, <1>4, <4>1
      <4>3. 0 .. n - 1 \subseteq DOMAIN disk.info \cup dirtyFiles
        BY <4>1, <4>2 DEF FileInv, InOrder
      <4>4. \A i \in 0 .. n : i = n \/ i \in 0 .. n - 1
        OBVIOUS
      <4> QED  BY <1>1, <4>3, <4>4
    <3> QED  BY <3>1, <3>2
  <2> SUFFICES ASSUME NEW m \in Nat
               PROVE  /\ InfoOf(info', m).size > 0 => 0 .. m \subseteq DOMAIN disk.info \cup dirtyFiles'
                      /\ InfoOf(info', m).size = 0 => InfoOf(info', m).top = 0
                      /\ DiskInfo(disk, m).size > 0 => 0 .. m \subseteq DOMAIN disk.info
                      /\ DiskInfo(disk, m).size = 0 => DiskInfo(disk, m).top = 0
    BY <1>1, <1>6 DEF InOrder
  <2>2. CASE m = n
    BY <1>1, <1>5, <2>1, <2>2 DEF FileInv, InOrder
  <2>3. CASE m # n
    <3>1. InfoOf(info', m) = InfoOf(info, m)
      BY <1>1, <2>3
    <3> QED  BY <1>1, <3>1 DEF FileInv, InOrder
  <2> QED  BY <2>2, <2>3
<1>11. LastInUse'
  BY <1>1, <1>5, <1>6 DEF FileInv, LastInUse
<1> QED  BY <1>1, <1>8, <1>9, <1>10, <1>11 DEF FileInv

LEMMA FilesConnect ==
  ASSUME StoreInv, FileInv, NEW b \in Blocks, Connect(b)
  PROVE  FileInv'
<1>1. /\ b \in DOMAIN index /\ DOMAIN index' = DOMAIN index
      /\ DOMAIN disk'.index = DOMAIN disk.index \cup {b}
      /\ disk'.blk = disk.blk /\ disk'.info = disk.info
      /\ disk'.last = disk.last /\ disk'.clean = disk.clean
      /\ last' = last /\ dirtyFiles \subseteq dirtyFiles'
      /\ \A c \in DOMAIN index : index'[c].file = index[c].file /\ index'[c].pos = index[c].pos
      /\ \A n \in Nat : /\ InfoOf(info', n).size = InfoOf(info, n).size
                        /\ InfoOf(info', n).top = InfoOf(info, n).top
  BY ConnectIs
<1>2. \A m : DiskInfo(disk', m) = DiskInfo(disk, m)
  BY <1>1 DEF DiskInfo
<1>3. last \in Nat /\ \A c \in DOMAIN index : index[c].file \in Nat
  BY DEF StoreInv, StoreType, EntriesIn, Entry
<1>4. Fresh'
  <2> SUFFICES ASSUME NEW c \in DOMAIN index, c \notin DOMAIN disk.index
               PROVE  HasBlock(disk', index'[c], c) /\ index'[c].pos < InfoOf(info', index'[c].file).size
    BY <1>1 DEF Fresh
  <2>1. HasBlock(disk, index[c], c) /\ index[c].pos < InfoOf(info, index[c].file).size
    BY DEF FileInv, Fresh
  <2>2. HasBlock(disk', index'[c], c)
    BY <1>1, <2>1, HasBlockIsAt DEF At
  <2> QED  BY <1>1, <1>3, <2>1, <2>2
<1>5. Grown'
  BY <1>1, <1>2 DEF FileInv, Grown
<1>6. InOrder'
  BY <1>1, <1>2 DEF FileInv, InOrder
<1>7. LastInUse'
  BY <1>1, <1>2, <1>3 DEF FileInv, LastInUse
<1> QED  BY <1>1, <1>4, <1>5, <1>6, <1>7 DEF FileInv

\* What every flush and every start leaves of the file infos.
LEMMA SavedFiles ==
  ASSUME StoreInv, FileInv, NEW d, NEW S, NEW T, Saved(d, S, T)
  PROVE  /\ \A n \in Nat : /\ DiskInfo(d, n).size > 0 => 0 .. n \subseteq DOMAIN d.info
                           /\ DiskInfo(d, n).size = 0 => DiskInfo(d, n).top = 0
                           /\ DiskInfo(d, n).size \in Nat /\ DiskInfo(d, n).top \in Nat
         /\ DiskInfo(d, d.last).size > 0 /\ d.last \in Nat
         /\ (T = {} /\ d.last = disk.last) \/ (S = dirtyFiles /\ d.last = last)
<1>1. /\ S \subseteq dirtyFiles /\ DiskType(d)
      /\ DOMAIN d.info = DOMAIN disk.info \cup S
      /\ \A m \in S, n \in dirtyFiles : n <= m => n \in S
  BY DEF Saved
<1>2. /\ \A n \in Nat : /\ n \in S => DiskInfo(d, n) = InfoOf(info, n)
                        /\ n \notin S => DiskInfo(d, n) = DiskInfo(disk, n)
                        /\ DiskInfo(disk, n).size <= DiskInfo(d, n).size
      /\ S = dirtyFiles => \A n \in Nat : InfoOf(info, n).size > 0 => DiskInfo(d, n) = InfoOf(info, n)
  BY SavedInfo
<1>3. dirtyFiles \subseteq Nat /\ DiskType(disk) /\ last \in Nat /\ d.last \in Nat /\ disk.last \in Nat
  BY <1>1 DEF StoreInv, StoreType, DiskType
<1>4. ASSUME NEW n \in Nat
      PROVE  /\ DiskInfo(d, n).size > 0 => 0 .. n \subseteq DOMAIN d.info
             /\ DiskInfo(d, n).size = 0 => DiskInfo(d, n).top = 0
             /\ DiskInfo(d, n).size \in Nat /\ DiskInfo(d, n).top \in Nat
  <2>1. DiskInfo(d, n).size \in Nat /\ DiskInfo(d, n).top \in Nat
    BY <1>1, DiskInfoType DEF Info
  <2>2. CASE n \in S
    <3>1. DiskInfo(d, n) = InfoOf(info, n)
      BY <1>2, <2>2
    <3>2. ASSUME InfoOf(info, n).size > 0, NEW i \in 0 .. n  PROVE i \in DOMAIN d.info
      <4>1. i \in DOMAIN disk.info \cup dirtyFiles
        BY <3>2 DEF FileInv, InOrder
      <4>2. i <= n
        OBVIOUS
      <4> QED  BY <1>1, <2>2, <4>1, <4>2
    <3> QED  BY <2>1, <3>1, <3>2 DEF FileInv, InOrder
  <2>3. CASE n \notin S
    <3>1. DiskInfo(d, n) = DiskInfo(disk, n)
      BY <1>2, <2>3
    <3> QED  BY <1>1, <2>1, <3>1 DEF FileInv, InOrder
  <2> QED  BY <2>2, <2>3
<1>5. (T = {} /\ d.last = disk.last) \/ (S = dirtyFiles /\ d.last = last)
  BY DEF Saved, LastSaved, FileInv, LastInUse
<1>6. DiskInfo(d, d.last).size > 0
  <2>1. CASE d.last = disk.last
    <3>1. DiskInfo(disk, d.last).size > 0 /\ DiskInfo(disk, d.last).size <= DiskInfo(d, d.last).size
      BY <1>2, <1>3, <2>1 DEF FileInv, LastInUse
    <3>2. DiskInfo(disk, d.last).size \in Nat /\ DiskInfo(d, d.last).size \in Nat
      BY <1>1, <1>3, DiskInfoType DEF Info
    <3> QED  BY <3>1, <3>2
  <2>2. CASE S = dirtyFiles /\ d.last = last
    BY <1>2, <1>3, <2>2 DEF FileInv, LastInUse
  <2> QED  BY <1>5, <2>1, <2>2
<1> QED  BY <1>3, <1>4, <1>5, <1>6

LEMMA FilesFlush ==
  ASSUME StoreInv, FileInv, NEW c, disk' = Flushed(c), dirtyFiles' = {},
         UNCHANGED <<index, info, last>>
  PROVE  FileInv'
<1> DEFINE d == Flushed(c)
<1>1. Saved(d, dirtyFiles, dirty) /\ LastSaved(d) /\ d.clean = FALSE /\ disk' = d
  BY FlushedIs DEF StoreInv, FileInv
<1> HIDE DEF d
<1>2. /\ \A n \in Nat : /\ DiskInfo(d, n).size > 0 => 0 .. n \subseteq DOMAIN d.info
                        /\ DiskInfo(d, n).size = 0 => DiskInfo(d, n).top = 0
      /\ DiskInfo(d, d.last).size > 0
  BY <1>1, SavedFiles
<1>3. \A n \in Nat : /\ n \in dirtyFiles => DiskInfo(d, n) = InfoOf(info, n)
                     /\ n \notin dirtyFiles => DiskInfo(d, n) = DiskInfo(disk, n)
  BY <1>1, SavedInfo
<1>4. DOMAIN d.index = DOMAIN index /\ DOMAIN d.info = DOMAIN disk.info \cup dirtyFiles
  BY <1>1, FlushedIsMemory DEF Saved
<1>5. d.last = last
  BY <1>1 DEF LastSaved, FileInv, LastInUse
<1>6. \A n \in Nat : InfoOf(info, n).size \in Nat /\ InfoOf(info, n).top \in Nat
  BY InfoOfType DEF StoreInv, StoreType, Info
<1>7. index' = index /\ info' = info /\ last' = last
  OBVIOUS
<1>8. Fresh'
  BY <1>1, <1>4, <1>7 DEF Fresh
<1>9. Grown'
  <2> SUFFICES ASSUME NEW n \in Nat
               PROVE  /\ DiskInfo(d, n).size <= InfoOf(info, n).size
                      /\ DiskInfo(d, n).top <= InfoOf(info, n).top
    BY <1>1, <1>7 DEF Grown
  <2>1. CASE n \in dirtyFiles  BY <1>3, <1>6, <2>1
  <2>2. CASE n \notin dirtyFiles  BY <1>3, <2>2 DEF FileInv, Grown
  <2> QED  BY <2>1, <2>2
<1>10. InOrder'
  BY <1>1, <1>2, <1>4, <1>7 DEF FileInv, InOrder
<1>11. LastInUse'
  BY <1>1, <1>2, <1>5, <1>7 DEF FileInv, LastInUse
<1> QED  BY <1>1, <1>8, <1>9, <1>10, <1>11 DEF FileInv

LEMMA FilesLoad ==
  ASSUME StoreInv, FileInv, NEW d, NEW S, NEW T, Saved(d, S, T), Load(d)
  PROVE  FileInv' /\ InfoOf(info', last') = DiskInfo(d, d.last)
<1>1. DiskType(d)
  BY DEF Saved
<1>2. /\ index' = d.index /\ info' = InfoFrom(d) /\ last' = d.last /\ dirtyFiles' = {}
      /\ disk'.index = d.index /\ disk'.info = d.info /\ disk'.last = d.last /\ disk'.clean = FALSE
  BY <1>1, LoadIs
<1>3. /\ \A n \in Nat : /\ DiskInfo(d, n).size > 0 => 0 .. n \subseteq DOMAIN d.info
                        /\ DiskInfo(d, n).size = 0 => DiskInfo(d, n).top = 0
                        /\ DiskInfo(d, n).size \in Nat /\ DiskInfo(d, n).top \in Nat
      /\ DiskInfo(d, d.last).size > 0 /\ d.last \in Nat
  BY SavedFiles
<1>4. /\ \A n \in Nat : InfoOf(info', n) \in {NoInfo, DiskInfo(d, n)}
      /\ \A n \in Nat : 0 .. n \subseteq DOMAIN d.info => InfoOf(info', n) = DiskInfo(d, n)
      /\ info' \in Seq(Info)
  BY <1>1, <1>2, InfoFromIs
<1>5. \A m : DiskInfo(disk', m) = DiskInfo(d, m)
  BY <1>2 DEF DiskInfo
<1>6. NoInfo.size = 0 /\ NoInfo.top = 0
  BY DEF NoInfo
<1>7. Fresh'
  BY <1>2 DEF Fresh
<1>8. Grown'
  <2> SUFFICES ASSUME NEW n \in Nat
               PROVE  /\ DiskInfo(d, n).size <= InfoOf(info', n).size
                      /\ DiskInfo(d, n).top <= InfoOf(info', n).top
    BY <1>5 DEF Grown
  <2>1. CASE DiskInfo(d, n).size > 0
    BY <1>3, <1>4, <2>1
  <2>2. CASE DiskInfo(d, n).size = 0
    <3>1. InfoOf(info', n).size \in Nat /\ InfoOf(info', n).top \in Nat
      BY <1>4, InfoOfType DEF Info
    <3> QED  BY <1>3, <2>2, <3>1
  <2> QED  BY <1>3, <2>1, <2>2
<1>9. InOrder'
  <2> SUFFICES ASSUME NEW n \in Nat
               PROVE  /\ InfoOf(info', n).size > 0 => 0 .. n \subseteq DOMAIN d.info
                      /\ InfoOf(info', n).size = 0 => InfoOf(info', n).top = 0
                      /\ DiskInfo(d, n).size > 0 => 0 .. n \subseteq DOMAIN d.info
                      /\ DiskInfo(d, n).size = 0 => DiskInfo(d, n).top = 0
    BY <1>2, <1>5 DEF InOrder
  <2>1. CASE InfoOf(info', n) = NoInfo
    BY <1>3, <1>6, <2>1
  <2>2. CASE InfoOf(info', n) = DiskInfo(d, n)
    BY <1>3, <2>2
  <2> QED  BY <1>4, <2>1, <2>2
<1>10. InfoOf(info', last') = DiskInfo(d, d.last)
  BY <1>2, <1>3, <1>4
<1>11. LastInUse'
  BY <1>2, <1>3, <1>5, <1>10 DEF LastInUse
<1> QED  BY <1>2, <1>7, <1>8, <1>9, <1>10, <1>11 DEF FileInv

-------------------------------------------------------------------------------
(* One chain. *)

LEMMA HeightIs ==
  /\ Height(Genesis) = 0
  /\ \A b \in Blocks : Height(b) \in Nat
  /\ \A b \in Blocks \ {Genesis} : Height(b) = Height(Parent[b]) + 1
<1>1. Height(Genesis) = 0
  <2>1. Cardinality({Genesis}) = 1
    BY FS_Singleton
  <2>2. Cardinality(Chain[Genesis]) = 1
    BY <2>1, ChainIs, Zenon
  <2> QED  BY <2>2 DEF Height
<1>2. ASSUME NEW b \in Blocks \ {Genesis}  PROVE Height(b) = Height(Parent[b]) + 1
  <2> DEFINE C == Chain[Parent[b]]
  <2>1. IsFiniteSet(C) /\ b \notin C /\ Chain[b] = C \cup {b}
    BY ChainIs
  <2> HIDE DEF C
  <2>2. Cardinality(C \cup {b}) = Cardinality(C) + 1 /\ Cardinality(C) \in Nat
    BY <2>1, FS_AddElement, FS_CardinalityType
  <2> QED  BY <2>1, <2>2 DEF Height, C
<1> QED  BY <1>1, <1>2, HeightType

\* A block has one ancestor at every height up to its own.
LEMMA AncestorAt ==
  ASSUME NEW b \in Blocks, NEW h \in 0 .. Height(b)
  PROVE  \E a \in Chain[b] : Height(a) = h
<1> DEFINE Has(x) == \A k \in 0 .. Height(x) : \E a \in Chain[x] : Height(a) = k
           S == {x \in Blocks : Has(x)}
<1>1. Genesis \in S
  <2>1. Height(Genesis) = 0 /\ Genesis \in Chain[Genesis] /\ Genesis \in Blocks
    BY HeightIs, ChainIs
  <2> QED  BY <2>1
<1>2. ASSUME NEW x \in Blocks \ {Genesis}, Parent[x] \in S  PROVE x \in S
  <2> SUFFICES ASSUME NEW k \in 0 .. Height(x)  PROVE \E a \in Chain[x] : Height(a) = k
    OBVIOUS
  <2>1. /\ Parent[x] \in Blocks /\ Chain[x] = {x} \cup Chain[Parent[x]] /\ x \in Chain[x]
        /\ Height(x) = Height(Parent[x]) + 1 /\ Height(Parent[x]) \in Nat
    BY ChainIs, HeightIs
  <2>2. CASE k = Height(x)  BY <2>1, <2>2
  <2>3. CASE k # Height(x)
    <3>1. k \in 0 .. Height(Parent[x])
      BY <2>1, <2>3
    <3>2. PICK a \in Chain[Parent[x]] : Height(a) = k
      BY <1>2, <3>1
    <3> QED  BY <2>1, <3>2
  <2> QED  BY <2>2, <2>3
<1>3. S = Blocks
  <2>1. S \in SUBSET Blocks
    OBVIOUS
  <2> HIDE DEF S
  <2> QED  BY <1>1, <1>2, <2>1, TreeInduction
<1> QED  BY <1>3

\* An ancestor is lower, and its ancestors are ancestors.
LEMMA AncestorIs ==
  ASSUME NEW b \in Blocks, NEW a \in Chain[b]
  PROVE  Height(a) <= Height(b) /\ (a # b => Height(a) < Height(b))
<1> DEFINE S == {x \in Blocks : \A c \in Chain[x] \ {x} : Height(c) < Height(x)}
<1>1. Genesis \in S
  BY ChainIs
<1>2. ASSUME NEW x \in Blocks \ {Genesis}, Parent[x] \in S  PROVE x \in S
  <2> SUFFICES ASSUME NEW c \in Chain[x] \ {x}  PROVE Height(c) < Height(x)
    OBVIOUS
  <2>1. /\ Parent[x] \in Blocks /\ Chain[x] = {x} \cup Chain[Parent[x]]
        /\ Height(x) = Height(Parent[x]) + 1 /\ Height(Parent[x]) \in Nat
        /\ Chain[Parent[x]] \subseteq Blocks
    BY ChainIs, HeightIs
  <2>2. c \in Chain[Parent[x]] /\ Height(c) \in Nat
    BY <2>1, HeightIs
  <2>3. c = Parent[x] \/ Height(c) < Height(Parent[x])
    BY <1>2, <2>2
  <2> QED  BY <2>1, <2>2, <2>3
<1>3. S = Blocks
  <2>1. S \in SUBSET Blocks
    OBVIOUS
  <2> HIDE DEF S
  <2> QED  BY <1>1, <1>2, <2>1, TreeInduction
<1>4. Height(a) \in Nat /\ Height(b) \in Nat
  BY ChainIs, HeightIs
<1> QED  BY <1>3, <1>4

LEMMA ChainInClosed ==
  ASSUME NEW S \in SUBSET Blocks, Closed(S), NEW b \in S
  PROVE  Chain[b] \subseteq S
<1> DEFINE U == {x \in Blocks : x \in S => Chain[x] \subseteq S}
<1>1. Genesis \in U
  BY ChainIs
<1>2. ASSUME NEW x \in Blocks \ {Genesis}, Parent[x] \in U  PROVE x \in U
  BY <1>2, ChainIs DEF Closed
<1>3. U = Blocks
  <2>1. U \in SUBSET Blocks
    OBVIOUS
  <2> HIDE DEF U
  <2> QED  BY <1>1, <1>2, <2>1, TreeInduction
<1> QED  BY <1>3

\* Of one chain, the blocks that are not higher are the ancestors.
LEMMA OneChainIs ==
  ASSUME NEW S \in SUBSET Blocks, Closed(S), Single(S), NEW b \in S, NEW c \in S,
         Height(c) <= Height(b)
  PROVE  c \in Chain[b]
<1>1. Height(c) \in 0 .. Height(b)
  BY HeightIs
<1>2. PICK a \in Chain[b] : Height(a) = Height(c)
  BY <1>1, AncestorAt
<1>3. a \in S
  BY ChainInClosed
<1> QED  BY <1>2, <1>3 DEF Single

\* A closed index has no block higher than the number of its entries allows.
LEMMA HeightInClosed ==
  ASSUME NEW S \in SUBSET Blocks, IsFiniteSet(S), Closed(S), NEW b \in S
  PROVE  Height(b) + 1 \in 1 .. Cardinality(S)
<1>1. Chain[b] \in SUBSET S
  BY ChainInClosed
<1>2. IsFiniteSet(Chain[b]) /\ Cardinality(Chain[b]) <= Cardinality(S)
  BY <1>1, FS_Subset
<1>3. Cardinality(Chain[b]) \in Nat /\ Cardinality(S) \in Nat /\ Height(b) \in Nat
  BY <1>2, FS_CardinalityType, HeightIs
<1> QED  BY <1>2, <1>3 DEF Height

\* vSortedByHeight holds each block at its height.
LEMMA OneSorted ==
  ASSUME NEW d, DiskType(d), Closed(DOMAIN d.index), Single(DOMAIN d.index)
  PROVE  /\ \A i \in 1 .. Cardinality(DOMAIN d.index) : Height(Sorted(d)[i]) = i - 1
         /\ \A b \in DOMAIN d.index : /\ Height(b) + 1 \in 1 .. Cardinality(DOMAIN d.index)
                                      /\ Sorted(d)[Height(b) + 1] = b
<1> DEFINE S == DOMAIN d.index
           N == Cardinality(S)
           s == Sorted(d)
<1>1. /\ N \in Nat /\ s \in [1 .. N -> S]
      /\ \A i \in 1 .. N : Cardinality({c \in S : Before(c, s[i])}) = i - 1
  BY SortedIs
<1>2. S \in SUBSET Blocks /\ IsFiniteSet(S)
  BY DEF DiskType, EntriesIn
<1> HIDE DEF S, N, s
<1>3. ASSUME NEW b \in S  PROVE {c \in S : Before(c, b)} = Chain[b] \ {b}
  <2>1. b \in Blocks /\ Chain[b] \subseteq S
    BY <1>2, ChainInClosed DEF S
  <2>2. ASSUME NEW c \in S, Before(c, b)  PROVE c \in Chain[b] \ {b}
    <3>1. c \in Blocks /\ c # b /\ Height(c) <= Height(b)
      BY <1>2, <2>1, <2>2, BeforeIsOrder
    <3>2. c \in Chain[b]
      BY <1>2, <3>1, OneChainIs DEF S
    <3> QED  BY <3>1, <3>2
  <2>3. ASSUME NEW c \in Chain[b] \ {b}  PROVE c \in S /\ Before(c, b)
    <3>1. Height(c) < Height(b)
      BY <2>1, AncestorIs
    <3> QED  BY <2>1, <3>1 DEF Before
  <2> QED  BY <2>2, <2>3
<1>4. ASSUME NEW i \in 1 .. N  PROVE Height(s[i]) = i - 1
  <2> DEFINE b == s[i]
  <2>1. b \in S /\ b \in Blocks
    BY <1>1, <1>2
  <2>2. Cardinality(Chain[b] \ {b}) = i - 1
    <3>1. Cardinality({c \in S : Before(c, b)}) = i - 1
      BY <1>1
    <3> HIDE DEF b
    <3> QED  BY <1>3, <2>1, <3>1
  <2> HIDE DEF b
  <2>3. IsFiniteSet(Chain[b]) /\ b \in Chain[b]
    BY <2>1, ChainIs
  <2>4. Cardinality(Chain[b] \ {b}) = Cardinality(Chain[b]) - 1
    BY <2>3, FS_RemoveElement
  <2> QED  BY <2>2, <2>4 DEF Height, b
<1>5. ASSUME NEW b \in S  PROVE Height(b) + 1 \in 1 .. N /\ s[Height(b) + 1] = b
  <2>1. Height(b) + 1 \in 1 .. N /\ Height(b) \in Nat
    BY <1>2, HeightInClosed, HeightIs DEF S, N
  <2>2. s[Height(b) + 1] \in S /\ Height(s[Height(b) + 1]) = Height(b) + 1 - 1
    BY <1>1, <1>4, <2>1
  <2>3. Height(s[Height(b) + 1]) = Height(b)
    BY <2>1, <2>2
  <2> QED  BY <2>1, <2>2, <2>3 DEF Single, S
<1> QED  BY <1>4, <1>5 DEF S, N, s

\* A replay of one chain goes from the block after the coins to one above what the last
\* file info on disk counts, and no undo data can be read for that one.
LEMMA OneReplay ==
  ASSUME NEW d, DiskType(d), Closed(DOMAIN d.index), Single(DOMAIN d.index), OneDisk(d),
         DiskInfo(d, d.last).size > 0, NeedsReplay(d)
  PROVE  /\ Replayed(d).best \in DOMAIN d.index
         /\ Replayed(d).applied = Chain[Replayed(d).best] \ {Genesis}
         /\ ~Verified(d, Replayed(d))
<1> DEFINE S == DOMAIN d.index
           N == Cardinality(S)
           s == Sorted(d)
           M == LastMeta(d)
           x == d.coins.best
           h == Height(x)
           seq == Replay(d)
<1>1. N \in Nat /\ s \in [1 .. N -> S] /\ Len(s) = N
  BY SortedIs
<1>2. /\ \A i \in 1 .. N : Height(s[i]) = i - 1
      /\ \A b \in S : Height(b) + 1 \in 1 .. N /\ s[Height(b) + 1] = b
  BY OneSorted
<1>3. S \in SUBSET Blocks /\ Closed(S) /\ Single(S)
  BY DEF DiskType, EntriesIn
<1>4. /\ x \in S /\ h <= Top(d) /\ d.coins.applied = Chain[x] \ {Genesis}
      /\ \A b \in S : d.index[b].undo # None => Height(b) <= Top(d)
  BY DEF OneDisk
<1>5. M = Top(d) + 2 /\ Top(d) \in Nat
  <2>1. d.last \in DOMAIN d.info /\ d.last \in Nat
    BY DEF DiskInfo, NoInfo, DiskType
  <2>2. Top(d) \in Nat
    BY <2>1, DiskInfoType DEF Top, Info
  <2> QED  BY <2>1, <2>2 DEF LastMeta, Top, DiskInfo
<1>6. M \in 1 .. N
  <2>1. Len(s) >= M
    BY DEF NeedsReplay
  <2> HIDE DEF s, M, N
  <2> QED  BY <1>1, <1>5, <2>1
<1>7. h \in Nat /\ h + 2 \in 1 .. M /\ h + 2 \in 1 .. N
  <2>1. h \in Nat
    BY <1>3, <1>4, HeightIs
  <2> HIDE DEF h, M, N
  <2> QED  BY <1>1, <1>4, <1>5, <1>6, <2>1
<1>8. FirstAbove(d) = {h + 2}
  <2>1. FirstAbove(d) = {i \in DOMAIN s : /\ Height(s[i]) = h + 1
                                          /\ \A j \in 1 .. i - 1 : Height(s[j]) # h + 1}
    BY DEF FirstAbove
  <2> HIDE DEF s, h, N
  <2>2. DOMAIN s = 1 .. N
    BY <1>1
  <2>3. ASSUME NEW i \in DOMAIN s, Height(s[i]) = h + 1  PROVE i = h + 2
    BY <1>2, <1>7, <2>2, <2>3
  <2>4. h + 2 \in DOMAIN s /\ Height(s[h + 2]) = h + 1
    BY <1>2, <1>7, <2>2
  <2>5. ASSUME NEW j \in 1 .. (h + 2) - 1  PROVE Height(s[j]) # h + 1
    <3>1. j \in 1 .. N /\ Height(s[j]) = j - 1
      BY <1>1, <1>2, <1>7
    <3> QED  BY <1>7, <3>1
  <2> QED  BY <2>1, <2>3, <2>4, <2>5
<1>9. seq = SubSeq(s, h + 2, M)
  <2> DEFINE first == CHOOSE i \in FirstAbove(d) : TRUE
             Ends(i) == /\ Height(s[i]) = Height(s[M])
                        /\ \A j \in first .. i - 1 : Height(s[j]) < Height(s[i])
             end == IF first > M THEN first ELSE CHOOSE i \in first .. M : Ends(i)
  <2>1. seq = SubSeq(s, first, end)
    BY <1>8 DEF Replay
  <2> HIDE DEF s, h, M, N, seq
  <2>2. first = h + 2
    BY <1>8
  <2> HIDE DEF first
  <2>3. \A i \in first .. M : i \in 1 .. N /\ Height(s[i]) = i - 1
    BY <1>1, <1>2, <1>6, <1>7, <2>2
  <2>4. M \in first .. M /\ ~(first > M)
    BY <1>6, <1>7, <2>2
  <2>5. Ends(M)
    <3> SUFFICES ASSUME NEW j \in first .. M - 1  PROVE Height(s[j]) < Height(s[M])
      OBVIOUS
    <3>1. j \in first .. M /\ j < M
      BY <1>6, <1>7, <2>2
    <3> QED  BY <1>6, <2>3, <2>4, <3>1
  <2>6. \A i \in first .. M : Ends(i) => i = M
    <3> SUFFICES ASSUME NEW i \in first .. M, Height(s[i]) = Height(s[M])  PROVE i = M
      OBVIOUS
    <3> QED  BY <1>6, <1>7, <2>2, <2>3, <2>4
  <2> HIDE DEF Ends
  <2>7. end = M
    BY <2>4, <2>5, <2>6
  <2> QED  BY <2>1, <2>2, <2>7
<1> HIDE DEF S, N, s, M, x, h, seq
<1> DEFINE L == M - (h + 2) + 1
<1>10. /\ seq \in Seq(S) /\ Len(seq) = L /\ L \in Nat \ {0}
       /\ \A i \in 1 .. L : seq[i] = s[h + 2 + i - 1]
  <2>1. h + 2 \in Int /\ M \in Int /\ h + 2 <= M
    BY <1>6, <1>7
  <2>2. \A i \in h + 2 .. M : s[i] \in S
    BY <1>1, <1>6, <1>7
  <2> DEFINE m == h + 2
  <2>3. m \in Int /\ m <= M /\ \A i \in m .. M : s[i] \in S
    BY <2>1, <2>2
  <2> HIDE DEF m
  <2>4. /\ SubSeq(s, m, M) \in Seq(S)
        /\ Len(SubSeq(s, m, M)) = M - m + 1
        /\ \A i \in 1 .. M - m + 1 : SubSeq(s, m, M)[i] = s[m + i - 1]
    <3>1. Len(SubSeq(s, m, M)) = IF m <= M THEN M - m + 1 ELSE 0
      BY <2>1, <2>3, SubSeqProperties
    <3> QED  BY <2>1, <2>3, <3>1, SubSeqProperties
  <2>5. M - m + 1 \in Nat \ {0}
    BY <2>1, <2>3
  <2> QED  BY <1>9, <2>4, <2>5 DEF m
<1>11. Last(seq) = s[M]
  <2>1. seq[L] = s[h + 2 + L - 1] /\ h + 2 + L - 1 = M
    BY <1>6, <1>7, <1>10
  <2> HIDE DEF L
  <2>2. Last(seq) = seq[L]
    BY <1>10 DEF Last
  <2> QED  BY <2>1, <2>2
<1>12. ToSet(seq) = {s[i] : i \in h + 2 .. M}
  <2>1. ToSet(seq) = {seq[i] : i \in 1 .. L}
    <3> HIDE DEF L
    <3>1. DOMAIN seq = 1 .. L
      BY <1>10
    <3> QED  BY <3>1 DEF ToSet
  <2>2. ASSUME NEW i \in 1 .. L  PROVE \E j \in h + 2 .. M : seq[i] = s[j]
    <3>1. h + 2 + i - 1 \in h + 2 .. M
      BY <1>6, <1>7
    <3> HIDE DEF L
    <3> QED  BY <1>10, <3>1
  <2>3. ASSUME NEW j \in h + 2 .. M  PROVE \E i \in 1 .. L : seq[i] = s[j]
    <3>1. j - (h + 2) + 1 \in 1 .. L /\ h + 2 + (j - (h + 2) + 1) - 1 = j
      BY <1>6, <1>7
    <3> HIDE DEF L
    <3> QED  BY <1>10, <3>1
  <2> QED  BY <2>1, <2>2, <2>3
<1> DEFINE y == s[M]
<1>13. y \in S /\ y \in Blocks /\ Height(y) = M - 1
  BY <1>1, <1>2, <1>3, <1>6
<1> HIDE DEF y
<1>14. Chain[x] \cup {s[i] : i \in h + 2 .. M} = Chain[y]
  <2>1. x \in Blocks /\ Chain[x] \subseteq S /\ Chain[y] \subseteq S
    BY <1>3, <1>4, <1>13, ChainInClosed
  <2>2. ASSUME NEW c \in S, Height(c) <= M - 1  PROVE c \in Chain[y]
    BY <1>3, <1>13, <2>2, OneChainIs
  <2>3. ASSUME NEW c \in Chain[x]  PROVE c \in Chain[y]
    <3>1. c \in S /\ Height(c) <= h /\ Height(c) \in Nat
      BY <1>3, <2>1, AncestorIs, HeightIs DEF h
    <3>2. Height(c) <= M - 1
      BY <1>6, <1>7, <3>1
    <3> QED  BY <2>2, <3>1, <3>2
  <2>4. ASSUME NEW i \in h + 2 .. M  PROVE s[i] \in Chain[y]
    <3>1. i \in 1 .. N /\ i - 1 <= M - 1
      BY <1>1, <1>6, <1>7
    <3>2. s[i] \in S /\ Height(s[i]) = i - 1
      BY <1>1, <1>2, <3>1
    <3> QED  BY <2>2, <3>1, <3>2
  <2>5. ASSUME NEW c \in Chain[y], c \notin Chain[x]  PROVE \E i \in h + 2 .. M : c = s[i]
    <3>1. c \in S /\ c \in Blocks /\ Height(c) <= M - 1 /\ Height(c) \in Nat
      BY <1>3, <1>13, <2>1, AncestorIs, HeightIs
    <3>2. ~(Height(c) <= h)
      <4> SUFFICES ASSUME Height(c) <= Height(x)  PROVE FALSE
        BY DEF h
      <4> QED  BY <1>3, <1>4, <2>5, <3>1, OneChainIs
    <3>3. Height(c) + 1 \in h + 2 .. M /\ s[Height(c) + 1] = c
      BY <1>2, <1>6, <1>7, <3>1, <3>2
    <3> QED  BY <3>3
  <2> QED  BY <2>3, <2>4, <2>5
<1>15. Genesis \notin {s[i] : i \in h + 2 .. M}
  <2> SUFFICES ASSUME NEW i \in h + 2 .. M, s[i] = Genesis  PROVE FALSE
    OBVIOUS
  <2>1. i \in 1 .. N /\ i - 1 # 0
    BY <1>1, <1>6, <1>7
  <2> QED  BY <1>2, <2>1, HeightIs
<1>16. Replayed(d).best = y /\ Replayed(d).applied = d.coins.applied \cup ToSet(seq)
  BY <1>11 DEF Replayed, seq, y
<1>17. Replayed(d).applied = Chain[y] \ {Genesis}
  BY <1>4, <1>12, <1>14, <1>15, <1>16
<1>18. ~Verified(d, Replayed(d))
  <2> SUFFICES ASSUME Verified(d, Replayed(d))  PROVE FALSE
    OBVIOUS
  <2>1. y \in Chain[y] /\ y # Genesis
    BY <1>6, <1>7, <1>13, ChainIs, HeightIs
  <2>2. HasUndo(d, d.index[y], y)
    BY <1>16, <2>1 DEF Verified
  <2>3. Height(y) <= Top(d)
    BY <1>4, <1>13, <2>2 DEF HasUndo
  <2> QED  BY <1>5, <1>13, <2>3
<1> QED  BY <1>13, <1>16, <1>17, <1>18 DEF S

-------------------------------------------------------------------------------
(* The coins of one chain. *)

\* What a crash or a shutdown leaves on disk, if there is one chain.
LEMMA SavedOne ==
  ASSUME StoreInv, FileInv, OneInv, up, "forced" \notin starts,
         NEW d, NEW S, NEW T, Saved(d, S, T), Single(Live(d)),
         \/ d.coins = disk.coins /\ d.clean = FALSE
         \/ d.coins = coins /\ S = dirtyFiles /\ T = dirty /\ LastSaved(d)
  PROVE  OneDisk(d) /\ (d.clean # FALSE => \A b \in DOMAIN d.index : Height(b) <= Top(d))
<1>1. /\ S \subseteq dirtyFiles /\ DiskType(d) /\ d.blk = disk.blk
      /\ DOMAIN d.index = DOMAIN disk.index \cup T
      /\ \A b \in DOMAIN d.index : d.index[b] = IF b \in T THEN index[b] ELSE disk.index[b]
  BY DEF Saved
<1>2. /\ \A n \in Nat : DiskInfo(disk, n).top <= DiskInfo(d, n).top
      /\ S = dirtyFiles => \A n \in Nat : InfoOf(info, n).size > 0 => DiskInfo(d, n) = InfoOf(info, n)
      /\ Live(disk) \subseteq Live(d)
  BY SavedInfo
<1>3. Single(Live(disk))
  BY <1>2, SingleOfSubset
<1>4. OneMemory /\ OneDisk(disk)
  BY <1>3 DEF OneInv
<1>5. /\ DOMAIN d.index \subseteq DOMAIN index /\ DOMAIN index \subseteq Blocks
      /\ last \in Nat /\ disk.last \in Nat /\ DiskType(disk) /\ EntriesIn(index)
  BY SavedFits DEF StoreInv, StoreType, DiskType, EntriesIn
<1>6. (T = {} /\ d.last = disk.last) \/ (S = dirtyFiles /\ d.last = last)
  BY SavedFiles
\* When all infos are saved, everything in memory is counted.
<1>7. ASSUME S = dirtyFiles, d.last = last
      PROVE  \A b \in DOMAIN index : Height(b) <= Top(d)
  <2>1. DOMAIN index \subseteq Live(d)
    <3> SUFFICES ASSUME NEW b \in DOMAIN index, b \notin DOMAIN d.index
                 PROVE  b \in Counted(d)
      BY DEF Live
    <3> DEFINE n == index[b].file
               k == index[b].pos
    <3>1. b \notin DOMAIN disk.index
      BY <1>1
    <3>2. HasBlock(disk, index[b], b) /\ k < InfoOf(info, n).size
      BY <3>1 DEF FileInv, Fresh
    <3>3. n \in Nat /\ k \in Nat /\ b \in Blocks
      BY <1>5 DEF EntriesIn, Entry
    <3>4. InfoOf(info, n).size \in Nat
      BY <3>3, InfoOfType DEF StoreInv, StoreType, Info
    <3>5. InfoOf(info, n).size > 0
      BY <3>2, <3>3, <3>4
    <3>6. DiskInfo(d, n) = InfoOf(info, n)
      BY <1>2, <1>7, <3>3, <3>5
    <3>7. At(disk, n, k, b)
      BY <3>2, HasBlockIsAt
    <3>8. At(d, n, k, b) /\ k < DiskInfo(d, n).size
      BY <1>1, <3>2, <3>6, <3>7 DEF At
    <3> HIDE DEF n, k
    <3> QED  BY <3>3, <3>8 DEF Counted
  <2>2. Single(DOMAIN index \cup Live(disk))
    BY <1>2, <2>1, SingleOfSubset
  <2>3. Counts
    BY <2>2 DEF OneInv
  <2>4. InfoOf(info, last) = DiskInfo(d, last)
    BY <1>2, <1>5, <1>7 DEF FileInv, LastInUse
  <2> QED  BY <1>7, <2>3, <2>4 DEF Counts, Top
<1>8. CASE d.coins = disk.coins /\ d.clean = FALSE
  <2>1. /\ disk.coins.best \in DOMAIN disk.index /\ Height(disk.coins.best) <= Top(disk)
        /\ disk.coins.applied = Chain[disk.coins.best] \ {Genesis}
        /\ \A b \in DOMAIN disk.index : disk.index[b].undo # None => Height(b) <= Top(disk)
    BY <1>4 DEF OneDisk
  <2>2. disk.coins.best \in DOMAIN d.index
    BY <1>1, <2>1
  <2>3. CASE T = {} /\ d.last = disk.last
    <3>1. DOMAIN d.index = DOMAIN disk.index /\ \A b \in DOMAIN d.index : d.index[b] = disk.index[b]
      BY <1>1, <2>3
    <3>2. Top(disk) <= Top(d) /\ Top(disk) \in Nat /\ Top(d) \in Nat
      BY <1>1, <1>2, <1>5, <2>3, DiskInfoType DEF Top, Info
    <3>3. \A b \in DOMAIN d.index : Height(b) \in Nat
      BY <1>5, HeightIs
    <3>4. \A b \in DOMAIN d.index : Height(b) <= Top(disk) => Height(b) <= Top(d)
      BY <3>2, <3>3
    <3>5. Height(disk.coins.best) <= Top(d)
      BY <2>1, <2>2, <3>4
    <3>6. \A b \in DOMAIN d.index : d.index[b].undo # None => Height(b) <= Top(d)
      BY <2>1, <3>1, <3>4
    <3> QED  BY <1>8, <2>1, <2>2, <3>5, <3>6 DEF OneDisk
  <2>4. CASE S = dirtyFiles /\ d.last = last
    <3>1. \A b \in DOMAIN index : Height(b) <= Top(d)
      BY <1>7, <2>4
    <3> QED  BY <1>5, <1>8, <2>1, <2>2, <3>1 DEF OneDisk
  <2> QED  BY <1>6, <2>3, <2>4
<1>9. CASE d.coins = coins /\ S = dirtyFiles /\ T = dirty /\ LastSaved(d)
  <2>1. d.last = last
    BY <1>9 DEF LastSaved, FileInv, LastInUse
  <2>2. \A b \in DOMAIN index : Height(b) <= Top(d)
    BY <1>7, <1>9, <2>1
  <2>3. DOMAIN d.index = DOMAIN index
    BY <1>9, FlushedIsMemory
  <2> QED  BY <1>4, <1>9, <2>2, <2>3 DEF OneMemory, OneDisk
<1> QED  BY <1>8, <1>9

\* A start keeps the coins of one chain, replayed or not.
LEMMA LoadOne ==
  ASSUME NEW d, DiskType(d), Single(DOMAIN d.index), OneDisk(d),
         DiskInfo(d, d.last).size > 0,
         d.clean # FALSE => \A b \in DOMAIN d.index : Height(b) <= Top(d),
         Load(d), "forced" \notin starts'
  PROVE  /\ coins'.applied = Chain[coins'.best] \ {Genesis} /\ coins'.best \in DOMAIN d.index
         /\ up' => /\ coins' = d.coins
                   /\ \A b \in DOMAIN d.index : Height(b) <= Top(d)
<1>1. PICK how \in Ways(d) : \E o \in Outcomes(d, how) :
          /\ up' = o[1] /\ coins' = o[2]
          /\ starts' = starts \cup ({how} \ {"plain"})
  BY Zenon DEF Load
<1>2. PICK o \in Outcomes(d, how) :
        /\ up' = o[1] /\ coins' = o[2]
        /\ starts' = starts \cup ({how} \ {"plain"})
  BY <1>1, Zenon
<1>3. how # "forced"
  BY <1>2
<1>7. \/ ~Closed(DOMAIN d.index) /\ how = "orphaned"
      \/ Closed(DOMAIN d.index) /\ ~NeedsReplay(d) /\ how = "plain"
      \/ Closed(DOMAIN d.index) /\ NeedsReplay(d) /\ how = "replayed"
  BY <1>1, <1>3 DEF Ways
<1>4. /\ d.coins.best \in DOMAIN d.index /\ Height(d.coins.best) <= Top(d)
      /\ d.coins.applied = Chain[d.coins.best] \ {Genesis}
  BY DEF OneDisk
<1>8. CASE how = "orphaned"
  <2>1. o \in Refused(d)
    BY <1>2, <1>8 DEF Outcomes
  <2>2. ~o[1] /\ o[2] = d.coins
    BY <2>1, RefusedIs
  <2>3. ~up' /\ coins' = d.coins
    BY <1>2, <2>2, Zenon
  <2> QED  BY <1>4, <2>3
<1>5. CASE Closed(DOMAIN d.index) /\ ~NeedsReplay(d) /\ how = "plain"
  <2>1. o \in PlainOutcomes(d)
    BY <1>2, <1>5 DEF Outcomes
  <2>2. o[2] = d.coins
    BY <1>4, <2>1, CheckedIs DEF PlainOutcomes
  <2>3. coins' = d.coins
    BY <1>2, <2>2, Zenon
  <2> DEFINE S == DOMAIN d.index
             N == Cardinality(S)
             s == Sorted(d)
             M == LastMeta(d)
  <2>4. N \in Nat /\ s \in [1 .. N -> S] /\ Len(s) = N
    BY SortedIs
  <2>5. S \in SUBSET Blocks /\ IsFiniteSet(S)
    BY DEF DiskType, EntriesIn
  <2>6. M = Top(d) + 2 /\ Top(d) \in Nat
    <3>1. d.last \in DOMAIN d.info /\ d.last \in Nat
      BY DEF DiskInfo, NoInfo, DiskType
    <3>2. Top(d) \in Nat
      BY <3>1, DiskInfoType DEF Top, Info
    <3> QED  BY <3>1, <3>2 DEF LastMeta, Top, DiskInfo
  <2>7. d.clean # FALSE \/ ~(Len(s) >= M) \/ d.coins.best = s[M]
    BY <1>5 DEF NeedsReplay
  <2>8. \A b \in S : Height(b) + 1 \in 1 .. N /\ Height(b) \in Nat
    BY <1>5, <2>5, HeightInClosed, HeightIs
  <2>9. ASSUME NEW b \in S  PROVE Height(b) <= Top(d)
    <3>1. CASE d.clean # FALSE
      BY <3>1
    <3>2. CASE ~(Len(s) >= M)
      <4> HIDE DEF s, M, N, S
      <4>1. N < Top(d) + 2
        BY <2>4, <2>6, <3>2
      <4> QED  BY <2>4, <2>6, <2>8, <4>1
    <3>3. CASE Len(s) >= M /\ d.coins.best = s[M]
      <4>1. \A i \in 1 .. N : Height(s[i]) = i - 1
        BY <1>5, OneSorted
      <4> HIDE DEF s, M, N, S
      <4>2. M \in 1 .. N
        BY <2>4, <2>6, <3>3
      <4>3. Height(d.coins.best) = M - 1
        BY <3>3, <4>1, <4>2
      <4> QED  BY <1>4, <2>6, <4>3
    <3> QED  BY <2>7, <3>1, <3>2, <3>3
  <2> QED  BY <1>4, <2>3, <2>9
<1>6. CASE Closed(DOMAIN d.index) /\ NeedsReplay(d) /\ how = "replayed"
  <2>1. o \in ReplayOutcomes(d)
    BY <1>2, <1>6 DEF Outcomes
  <2>2. o \in Refused(d) \/ o \in Checked(d, Replayed(d))
    BY <2>1 DEF ReplayOutcomes
  <2>3. CASE o \in Refused(d)
    <3>1. ~o[1] /\ o[2] = d.coins
      BY <2>3, RefusedIs
    <3>2. ~up' /\ coins' = d.coins
      BY <1>2, <3>1, Zenon
    <3> QED  BY <1>4, <3>2
  <2>4. CASE o \in Checked(d, Replayed(d))
    <3>1. /\ Replayed(d).best \in DOMAIN d.index
          /\ Replayed(d).applied = Chain[Replayed(d).best] \ {Genesis}
          /\ ~Verified(d, Replayed(d))
      BY <1>6, OneReplay
    <3>2. o[2] = Replayed(d) /\ (o[1] => Verified(d, Replayed(d)))
      BY <2>4, CheckedIs
    <3>3. ~up' /\ coins' = Replayed(d)
      BY <1>2, <3>1, <3>2, Zenon
    <3> QED  BY <3>1, <3>3
  <2> QED  BY <2>2, <2>3, <2>4
<1> QED  BY <1>5, <1>6, <1>7, <1>8

LEMMA OneReceive ==
  ASSUME StoreInv, FileInv, OneInv, NEW b \in Blocks, Receive(b)
  PROVE  OneInv'
<1>1. PICK n \in Nat, r \in Info :
           /\ n >= last /\ \A m \in last .. n - 1 : InfoOf(info, m).size >= PerFile
           /\ r.size = InfoOf(info, n).size + 1
           /\ r.top >= Height(b) /\ r.top >= InfoOf(info, n).top
           /\ InfoOf(info', n) = r
           /\ \A m \in Nat : m # n => InfoOf(info', m) = InfoOf(info, m)
           /\ last' = n /\ dirtyFiles' = dirtyFiles \cup {n}
           /\ DOMAIN index' = DOMAIN index \cup {b}
           /\ index'[b] = NewEntry(n, InfoOf(info, n).size)
           /\ \A c \in DOMAIN index : index'[c] = index[c]
           /\ DiskType(disk') /\ disk'.index = disk.index /\ disk'.info = disk.info
           /\ disk'.coins = disk.coins /\ disk'.last = disk.last /\ disk'.clean = disk.clean
           /\ At(disk', n, InfoOf(info, n).size, b)
           /\ \A m, k \in Nat : \A c : k < InfoOf(info, m).size /\ At(disk, m, k, c) => At(disk', m, k, c)
  BY ReceiveDisk
<1>2. /\ up /\ b \notin DOMAIN index /\ Parent[b] \in DOMAIN index
      /\ up' = up /\ tip' = tip /\ coins' = coins /\ starts' = starts
  BY DEF Receive
<1>3. info \in Seq(Info) /\ EntriesIn(index) /\ DiskType(disk) /\ Closed(DOMAIN index)
  BY <1>2 DEF StoreInv, StoreType, Rooted
<1>4. \A m : DiskInfo(disk', m) = DiskInfo(disk, m)
  BY <1>1 DEF DiskInfo
<1>5. Top(disk') = Top(disk)
  BY <1>1, <1>4 DEF Top
<1>6. Live(disk) \subseteq Live(disk')
  <2>1. ASSUME NEW m \in Nat, NEW k \in Nat, NEW c \in Blocks,
               k < DiskInfo(disk, m).size, At(disk, m, k, c)
        PROVE  At(disk', m, k, c)
    <3>1. DiskInfo(disk, m).size <= InfoOf(info, m).size
      BY DEF FileInv, Grown
    <3>2. DiskInfo(disk, m).size \in Nat /\ InfoOf(info, m).size \in Nat
      BY <1>3, DiskInfoType, InfoOfType DEF Info
    <3>3. k < InfoOf(info, m).size
      BY <2>1, <3>1, <3>2
    <3> QED  BY <1>1, <2>1, <3>3
  <2>2. ASSUME NEW m \in Nat  PROVE DiskInfo(disk, m).size <= DiskInfo(disk', m).size
    <3>1. DiskInfo(disk, m).size \in Nat
      BY <1>3, DiskInfoType DEF Info
    <3>2. DiskInfo(disk', m) = DiskInfo(disk, m)
      BY <1>4
    <3> QED  BY <3>1, <3>2
  <2> QED  BY <1>1, <1>3, <2>1, <2>2, LiveGrows
<1> SUFFICES ASSUME "forced" \notin starts
             PROVE  /\ Single(Live(disk')) => OneMemory' /\ OneDisk(disk')
                    /\ Single(DOMAIN index' \cup Live(disk')) => Counts'
  BY <1>2 DEF OneInv
<1>7. ASSUME Single(Live(disk'))  PROVE OneMemory' /\ OneDisk(disk')
  <2>1. Single(Live(disk))
    BY <1>6, <1>7, SingleOfSubset
  <2>2. OneMemory /\ OneDisk(disk)
    BY <1>2, <2>1 DEF OneInv
  <2>3. OneDisk(disk')
    BY <1>1, <1>5, <2>2 DEF OneDisk
  <2>4. index'[b].undo = None
    BY <1>1 DEF NewEntry
  <2>5. OneMemory'
    BY <1>1, <1>2, <1>5, <2>2, <2>4 DEF OneMemory
  <2> QED  BY <2>3, <2>5
\* Nothing is above the block, which is a child of the one below it.
<1>8. ASSUME Single(DOMAIN index' \cup Live(disk')), NEW c \in DOMAIN index'
      PROVE  Height(c) <= InfoOf(info', last').top
  <2> DEFINE U == DOMAIN index'
  <2>1. U \in SUBSET Blocks /\ b \in U /\ Closed(U) /\ Single(U)
    <3>1. Single(U)
      BY <1>8, SingleOfSubset
    <3> QED  BY <1>1, <1>2, <1>3, <3>1 DEF EntriesIn, Closed
  <2>2. Height(c) \in Nat /\ Height(b) \in Nat /\ r.top \in Nat
    BY <2>1, HeightIs DEF Info
  <2>3. Height(c) <= Height(b)
    <3> SUFFICES ASSUME Height(b) <= Height(c), b # c  PROVE FALSE
      BY <2>2
    <3>1. b \in Chain[c]
      BY <2>1, OneChainIs
    <3>2. c \in DOMAIN index /\ DOMAIN index \in SUBSET Blocks
      BY <1>1, <1>3 DEF EntriesIn
    <3>3. Chain[c] \subseteq DOMAIN index
      BY <1>3, <3>2, ChainInClosed
    <3> QED  BY <1>2, <3>1, <3>3
  <2>4. r.top >= Height(b)
    BY <1>1
  <2>5. Height(c) <= r.top
    BY <2>2, <2>3, <2>4
  <2> QED  BY <1>1, <2>5
<1> QED  BY <1>7, <1>8 DEF Counts

LEMMA OneConnect ==
  ASSUME StoreInv, FileInv, OneInv, NEW b \in Blocks, Connect(b)
  PROVE  OneInv'
<1>1. /\ b \in DOMAIN index /\ b # Genesis /\ Parent[b] = tip /\ up /\ tip' = b /\ up' = up
      /\ starts' = starts
      /\ coins'.best = b /\ coins'.applied = coins.applied \cup {b}
      /\ DOMAIN index' = DOMAIN index
      /\ \A c \in DOMAIN index : c # b => index'[c] = index[c]
      /\ DOMAIN disk'.index = DOMAIN disk.index \cup {b} /\ disk'.index[b] = index[b]
      /\ \A c \in DOMAIN disk.index : c # b => disk'.index[c] = disk.index[c]
      /\ disk'.coins = disk.coins /\ disk'.blk = disk.blk /\ disk'.info = disk.info
      /\ disk'.last = disk.last /\ last' = last
      /\ \A n \in Nat : InfoOf(info', n).top = InfoOf(info, n).top
  BY ConnectIs
<1>2. \A m : DiskInfo(disk', m) = DiskInfo(disk, m)
  BY <1>1 DEF DiskInfo
<1>3. Top(disk') = Top(disk)
  BY <1>1, <1>2 DEF Top
<1>4. Counted(disk') = Counted(disk)
  BY <1>1, <1>2 DEF Counted, At
<1>5. Live(disk) \subseteq Live(disk') /\ Live(disk') \subseteq DOMAIN index \cup Live(disk)
  BY <1>1, <1>4 DEF Live
<1>6. last \in Nat /\ Chain[b] = {b} \cup Chain[tip] /\ b \notin Chain[tip]
  BY <1>1, ChainIs DEF StoreInv, StoreType
<1> SUFFICES ASSUME "forced" \notin starts
             PROVE  /\ Single(Live(disk')) => OneMemory' /\ OneDisk(disk')
                    /\ Single(DOMAIN index' \cup Live(disk')) => Counts'
  BY <1>1 DEF OneInv
<1>7. ASSUME Single(Live(disk'))  PROVE OneMemory' /\ OneDisk(disk')
  <2>1. Single(Live(disk))
    BY <1>5, <1>7, SingleOfSubset
  <2>2. OneMemory /\ OneDisk(disk)
    BY <1>1, <2>1 DEF OneInv
  <2>3. index[b].undo # None => Height(b) <= Top(disk)
    BY <1>1, <1>6, <2>2 DEF OneMemory
  <2>4. OneDisk(disk')
    BY <1>1, <1>3, <2>2, <2>3 DEF OneDisk
  <2>5. coins.applied = Chain[tip] \ {Genesis}
    BY <1>1, <2>2 DEF OneMemory
  <2>6. coins'.applied = Chain[b] \ {Genesis}
    BY <1>1, <1>6, <2>5
  <2>7. ASSUME NEW c \in DOMAIN index \ Chain[b], index'[c].undo # None  PROVE Height(c) <= Top(disk)
    BY <1>1, <1>6, <2>2, <2>7 DEF OneMemory
  <2>8. OneMemory'
    BY <1>1, <1>3, <2>6, <2>7 DEF OneMemory
  <2> QED  BY <2>4, <2>8
<1>8. ASSUME Single(DOMAIN index' \cup Live(disk'))  PROVE Counts'
  <2>1. Single(DOMAIN index \cup Live(disk))
    BY <1>1, <1>5, <1>8, SingleOfSubset
  <2>2. Counts
    BY <1>1, <2>1 DEF OneInv
  <2> QED  BY <1>1, <1>6, <2>2 DEF Counts
<1> QED  BY <1>7, <1>8

\* A flush that is not cut off, after which the tip may be the parent of what it was.
LEMMA OneFlush ==
  ASSUME StoreInv, FileInv, OneInv, up, NEW c, disk' = Flushed(c), c = coins',
         UNCHANGED <<up, index, info, last, starts>>,
         tip' = tip \/ (tip \in Blocks \ {Genesis} /\ tip' = Parent[tip]),
         coins'.best = IF tip' = tip THEN coins.best ELSE tip',
         coins'.applied = IF tip' = tip THEN coins.applied ELSE coins.applied \ {tip}
  PROVE  OneInv'
<1> DEFINE d == Flushed(c)
<1>1. Saved(d, dirtyFiles, dirty) /\ LastSaved(d) /\ d.coins = c /\ disk' = d
  BY FlushedIs DEF StoreInv
<1> HIDE DEF d
<1>2. DOMAIN d.index = DOMAIN index /\ Live(disk) \subseteq Live(d)
  BY <1>1, FlushedIsMemory, SavedInfo
<1>3. \A n \in Nat : InfoOf(info, n).size > 0 => DiskInfo(d, n) = InfoOf(info, n)
  BY <1>1, SavedInfo
<1>4. d.last = last /\ last \in Nat
  BY <1>1 DEF LastSaved, FileInv, LastInUse, StoreInv, StoreType
<1>5. Top(d) = InfoOf(info, last).top
  BY <1>3, <1>4 DEF Top, FileInv, LastInUse
<1>6. DOMAIN index \cup Live(disk) \subseteq Live(d)
  BY <1>2 DEF Live
<1>7. up' = up /\ index' = index /\ info' = info /\ last' = last /\ starts' = starts
  OBVIOUS
<1> SUFFICES ASSUME "forced" \notin starts
             PROVE  /\ Single(Live(d)) => OneMemory' /\ OneDisk(d)
                    /\ Single(DOMAIN index \cup Live(d)) => Counts
  BY <1>1, <1>7 DEF OneInv, Counts
<1>8. ASSUME Single(Live(d))  PROVE OneMemory' /\ OneDisk(d) /\ Counts
  <2>1. Single(Live(disk)) /\ Single(DOMAIN index \cup Live(disk))
    BY <1>2, <1>6, <1>8, SingleOfSubset
  <2>2. OneMemory /\ Counts
    BY <2>1 DEF OneInv
  <2>3. \A b \in DOMAIN index : Height(b) <= Top(d)
    BY <1>5, <2>2 DEF Counts
  <2>4. /\ coins.applied = Chain[coins.best] \ {Genesis} /\ coins.best \in DOMAIN index
        /\ coins.best = tip
    BY <2>2 DEF OneMemory
  <2>5. /\ coins'.applied = Chain[tip'] \ {Genesis} /\ coins'.best = tip' /\ tip' \in DOMAIN index
    <3>1. CASE tip' = tip
      BY <2>4, <3>1
    <3>2. CASE tip' # tip
      <4>1. /\ tip \in Blocks \ {Genesis} /\ tip' = Parent[tip]
            /\ Chain[tip] = {tip} \cup Chain[tip'] /\ tip \notin Chain[tip']
        BY <3>2, ChainIs
      <4>2. tip' \in DOMAIN index
        BY <2>4, <4>1 DEF StoreInv, Rooted, Closed
      <4> QED  BY <2>4, <3>2, <4>1, <4>2
    <3> QED  BY <3>1, <3>2
  <2>6. OneMemory'
    BY <1>1, <1>7, <2>3, <2>5 DEF OneMemory
  <2>7. OneDisk(d)
    BY <1>1, <1>2, <2>3, <2>5 DEF OneDisk
  <2> QED  BY <2>2, <2>6, <2>7
<1>9. ASSUME Single(DOMAIN index \cup Live(d))  PROVE Single(Live(d))
  BY <1>9, SingleOfSubset
<1> QED  BY <1>8, <1>9

LEMMA OneLoad ==
  ASSUME StoreInv, FileInv, OneInv, up, NEW d, NEW S, NEW T, Saved(d, S, T), Load(d),
         \/ d.coins = disk.coins /\ d.clean = FALSE
         \/ d.coins = coins /\ S = dirtyFiles /\ T = dirty /\ LastSaved(d)
  PROVE  OneInv'
<1>1. DiskType(d)
  BY DEF Saved
<1>2. /\ index' = d.index /\ last' = d.last
      /\ up' => coins'.best = tip'
      /\ disk'.index = d.index /\ disk'.info = d.info /\ disk'.blk = d.blk /\ disk'.coins = coins'
      /\ disk'.last = d.last
  BY <1>1, LoadIs
<1>3. InfoOf(info', last') = DiskInfo(d, d.last) /\ DiskInfo(d, d.last).size > 0
  BY FilesLoad, SavedFiles
<1>4. \A m : DiskInfo(disk', m) = DiskInfo(d, m)
  BY <1>2 DEF DiskInfo
<1>5. Top(disk') = Top(d) /\ Top(d) = InfoOf(info', last').top
  BY <1>2, <1>3, <1>4 DEF Top
<1>6. Live(disk') = Live(d)
  BY <1>2, <1>4 DEF Live, Counted, At
<1>7. starts \subseteq starts'
  BY DEF Load
<1>8. SUFFICES ASSUME "forced" \notin starts', Single(Live(d))
               PROVE  OneMemory' /\ (up' => OneDisk(disk') /\ Counts')
  <2>1. Single(DOMAIN index' \cup Live(d)) => Single(Live(d))
    BY SingleOfSubset
  <2> QED  BY <1>6, <1>8, <2>1 DEF OneInv
<1>9. "forced" \notin starts
  BY <1>7, <1>8
<1>10. OneDisk(d) /\ (d.clean # FALSE => \A b \in DOMAIN d.index : Height(b) <= Top(d))
  BY <1>8, <1>9, SavedOne
<1>11. Single(DOMAIN d.index)
  BY <1>8, SingleOfSubset DEF Live
<1>12. /\ coins'.applied = Chain[coins'.best] \ {Genesis} /\ coins'.best \in DOMAIN d.index
       /\ up' => /\ coins' = d.coins
                 /\ \A b \in DOMAIN d.index : Height(b) <= Top(d)
  BY <1>1, <1>3, <1>8, <1>10, <1>11, LoadOne
<1>13. OneMemory'
  BY <1>2, <1>5, <1>12 DEF OneMemory
<1>14. up' => Counts'
  BY <1>2, <1>5, <1>12 DEF Counts
<1>15. up' => OneDisk(disk')
  BY <1>2, <1>5, <1>10, <1>12 DEF OneDisk
<1> QED  BY <1>13, <1>14, <1>15

LEMMA OneStep ==
  ASSUME StoreInv, FileInv, OneInv, [Next]_vars
  PROVE  FileInv' /\ OneInv'
<1>1. ASSUME NEW b \in Blocks, Receive(b)  PROVE FileInv' /\ OneInv'
  BY <1>1, FilesReceive, OneReceive
<1>2. ASSUME NEW b \in Blocks, Connect(b)  PROVE FileInv' /\ OneInv'
  BY <1>2, FilesConnect, OneConnect
<1>3. CASE Disconnect
  <2> DEFINE c == coins'
  <2>1. /\ up /\ tip # Genesis /\ tip' = Parent[tip] /\ disk' = Flushed(c) /\ dirtyFiles' = {}
        /\ coins' = [best |-> tip', applied |-> coins.applied \ {tip}]
        /\ UNCHANGED <<up, index, info, last, starts>>
    BY <1>3 DEF Disconnect
  <2>2. tip \in Blocks
    BY <2>1, TipKnown
  <2>3. tip' # tip
    BY <2>1, <2>2, ChainIs
  <2>4. c = coins' /\ coins'.best = tip' /\ coins'.applied = coins.applied \ {tip}
    BY <2>1
  <2> HIDE DEF c
  <2>5. FileInv'
    BY <2>1, FilesFlush
  <2>6. OneInv'
    BY <2>1, <2>2, <2>3, <2>4, OneFlush
  <2> QED  BY <2>5, <2>6
<1>4. CASE Flush
  <2>1. /\ up /\ disk' = Flushed(coins) /\ dirtyFiles' = {} /\ tip' = tip /\ coins' = coins
        /\ UNCHANGED <<up, index, info, last, starts>>
    BY <1>4 DEF Flush
  <2>2. coins'.best = coins.best /\ coins'.applied = coins.applied
    BY <2>1
  <2>3. FileInv'
    BY <2>1, FilesFlush
  <2>4. OneInv'
    BY <2>1, <2>2, OneFlush
  <2> QED  BY <2>3, <2>4
<1>5. CASE Stop
  <2> DEFINE d == [Flushed(coins) EXCEPT !.clean = TRUE]
  <2>1. up /\ Load(d) /\ Saved(d, dirtyFiles, dirty) /\ d.coins = coins /\ LastSaved(d)
    BY <1>5, FlushedIs DEF Stop, StoreInv
  <2> HIDE DEF d
  <2> QED  BY <2>1, FilesLoad, OneLoad
<1>6. CASE Crash
  <2>1. PICK d \in CutOff : Load(d)
    BY <1>6 DEF Crash
  <2>2. PICK S, T : Saved(d, S, T)
    BY CutOffIs DEF StoreInv
  <2>3. up /\ d.coins = disk.coins /\ d.clean = FALSE
    BY <1>6, CutOffIs DEF StoreInv, FileInv, Crash
  <2> QED  BY <2>1, <2>2, <2>3, FilesLoad, OneLoad
<1>7. CASE UNCHANGED vars
  <2>1. FileInv'
    BY <1>7 DEF vars, memory, FileInv, Fresh, Grown, InOrder, LastInUse
  <2>2. OneInv'
    BY <1>7 DEF vars, memory, OneInv, OneMemory, Counts
  <2> QED  BY <2>1, <2>2
<1> QED  BY <1>1, <1>2, <1>3, <1>4, <1>5, <1>6, <1>7 DEF Next

LEMMA OneInit ==
  ASSUME Init
  PROVE  FileInv /\ OneInv
<1> DEFINE e == NewEntry(0, 0)
           r == [size |-> 1, usize |-> 0, top |-> 0]
<1>1. /\ index = [b \in {Genesis} |-> e] /\ info = <<r>> /\ last = 0
      /\ dirtyFiles = {} /\ tip = Genesis /\ coins = [best |-> Genesis, applied |-> {}]
      /\ disk = [blk |-> [p \in {<<0, 0>>} |-> Genesis], rev |-> <<>>,
                 index |-> index, info |-> [n \in {0} |-> info[1]], last |-> 0,
                 coins |-> coins, clean |-> FALSE]
  BY Zenon DEF Init
<1>2. e.undo = None /\ r \in Info /\ r.size = 1 /\ r.top = 0
  BY DEF NewEntry, Info
<1>3. /\ disk.index = index /\ disk.info = [n \in {0} |-> info[1]] /\ disk.last = 0
      /\ disk.coins = coins /\ disk.clean = FALSE
  BY <1>1
<1> HIDE DEF e, r
<1>4. Len(info) = 1 /\ info[1] = r
  BY <1>1, <1>2
<1>5. /\ DOMAIN index = {Genesis} /\ index[Genesis] = e
      /\ DOMAIN disk.info = {0} /\ disk.info[0] = r
  BY <1>1, <1>3, <1>4
<1>6. /\ InfoOf(info, 0) = r /\ DiskInfo(disk, 0) = r
      /\ \A n \in Nat : n # 0 => InfoOf(info, n) = NoInfo /\ DiskInfo(disk, n) = NoInfo
  BY <1>4, <1>5 DEF InfoOf, DiskInfo
<1>7. NoInfo.size = 0 /\ NoInfo.top = 0
  BY DEF NoInfo
<1>8. Fresh
  BY <1>3 DEF Fresh
<1>9. Grown
  <2> SUFFICES ASSUME NEW n \in Nat
               PROVE  /\ DiskInfo(disk, n).size <= InfoOf(info, n).size
                      /\ DiskInfo(disk, n).top <= InfoOf(info, n).top
    BY DEF Grown
  <2>1. CASE n = 0  BY <1>2, <1>6, <2>1
  <2>2. CASE n # 0  BY <1>6, <1>7, <2>2
  <2> QED  BY <2>1, <2>2
<1>10. InOrder
  <2> SUFFICES ASSUME NEW n \in Nat
               PROVE  /\ InfoOf(info, n).size > 0 => 0 .. n \subseteq DOMAIN disk.info \cup dirtyFiles
                      /\ InfoOf(info, n).size = 0 => InfoOf(info, n).top = 0
                      /\ DiskInfo(disk, n).size > 0 => 0 .. n \subseteq DOMAIN disk.info
                      /\ DiskInfo(disk, n).size = 0 => DiskInfo(disk, n).top = 0
    BY DEF InOrder
  <2>1. CASE n = 0  BY <1>2, <1>5, <1>6, <2>1
  <2>2. CASE n # 0  BY <1>6, <1>7, <2>2
  <2> QED  BY <2>1, <2>2
<1>11. LastInUse
  <2>1. last = 0 /\ disk.last = 0
    BY <1>1, <1>3
  <2>2. InfoOf(info, 0).size > 0 /\ DiskInfo(disk, 0).size > 0
    BY <1>2, <1>6
  <2> QED  BY <2>1, <2>2 DEF LastInUse
<1>12. FileInv
  BY <1>3, <1>8, <1>9, <1>10, <1>11 DEF FileInv
<1>13. Height(Genesis) = 0 /\ Chain[Genesis] = {Genesis}
  BY HeightIs, ChainIs
<1>14. Top(disk) = 0 /\ InfoOf(info, last).top = 0
  BY <1>1, <1>2, <1>3, <1>6 DEF Top
<1>15. coins.best = Genesis /\ coins.applied = {}
  BY <1>1
<1>16. OneMemory
  BY <1>1, <1>2, <1>5, <1>13, <1>15 DEF OneMemory
<1>17. OneDisk(disk)
  BY <1>2, <1>3, <1>5, <1>13, <1>14, <1>15 DEF OneDisk
<1>18. Counts
  BY <1>5, <1>13, <1>14 DEF Counts
<1> QED  BY <1>12, <1>16, <1>17, <1>18 DEF OneInv

\* As long as a node has received one chain, however often it crashed, in the middle of
\* a flush too, and was started again with the replays that this made necessary, its
\* coins are those of the block they name, in memory as on disk, unless a start found an
\* entry without that of its parent.
THEOREM OneChainCoins == Spec => []CoinsOfOneChain
<1>1. Init => FileInv /\ OneInv
  BY OneInit
<1>2. StoreInv /\ FileInv /\ OneInv /\ [Next]_vars => FileInv' /\ OneInv'
  BY OneStep
<1>3. StoreInv /\ OneInv => CoinsOfOneChain
  <2> SUFFICES ASSUME StoreInv, OneInv, OneChain, starts \cap {"forced", "orphaned"} = {}
               PROVE  coins.applied = Chain[coins.best] \ {Genesis}
    BY DEF CoinsOfOneChain
  <2>1. Live(disk) \subseteq DOMAIN index \cup Range(disk.blk)
    BY DEF Live, Counted, At, Range, StoreInv, Behind
  <2>2. Single(Live(disk))
    BY <2>1 DEF Single, OneChain
  <2> QED  BY <2>2 DEF OneInv, OneMemory
<1> QED  BY <1>1, <1>2, <1>3, StoreInvariant, PTL DEF Spec
===============================================================================
