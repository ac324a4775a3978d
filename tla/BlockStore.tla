------------------------------ MODULE BlockStore ------------------------------
(***************************************************************************)
(* The block and undo files with their index: FindBlockPos, FindUndoPos,   *)
(* ConnectBlock's own write of an index entry, the order of                *)
(* FlushStateToDisk, shutdown and crash, and what a start makes of it: the *)
(* replay of LoadBlockIndexDB and VerifyDB.                                *)
(*                                                                         *)
(* A block and its undo data take one place in their files.  Which blocks  *)
(* are connected is ChainState's matter: here the tip moves to any child   *)
(* that is stored, and back.  A crash is that of the process: what it      *)
(* wrote to a file or a database before is there afterwards.               *)
(***************************************************************************)
EXTENDS Naturals, SequencesExt

CONSTANTS
  Blocks, Genesis, Parent,
  Chain,     \* Chain[b]: b and its ancestors
  Address,   \* the order of the index entries in memory
  PerFile,   \* blocks in a file: MAX_BLOCKFILE_SIZE
  None,
  Budgets    \* how often each event happens

Events == {"block", "stop", "crash"}

BlockStoreAssumption ==
  /\ Genesis \in Blocks /\ None \notin Nat
  /\ Parent \in [Blocks \ {Genesis} -> Blocks]
  /\ Chain[Genesis] = {Genesis}
  /\ \A b \in Blocks \ {Genesis} : /\ Chain[b] = {b} \cup Chain[Parent[b]]
                                   /\ b \notin Chain[Parent[b]]
  /\ \A b \in Blocks : IsFiniteSet(Chain[b])
  /\ Address \in [Blocks -> Nat]
  /\ \A b, c \in Blocks : b # c => Address[b] # Address[c]
  /\ PerFile \in Nat \ {0}
ASSUME BlockStoreAssumption

VARIABLES
  up,          \* the node has started
  index,       \* mapBlockIndex: file, position and undo position of a block
  info,        \* vinfoBlockFile, from file 0
  last,        \* nLastBlockFile
  dirtyFiles,  \* setDirtyFileInfo
  dirty,       \* setDirtyBlockIndex
  tip,         \* chainActive.Tip()
  coins,       \* pcoinsTip: its best block, and the blocks that are in it
  disk,        \* the files, the block index database and the coins on disk
  exposed,     \* history: positions of entries beyond the end of their file at a start
  starts,      \* history: whether a start replayed blocks, was forced not to, or
               \* found an entry without that of its parent
  left         \* how often each event may still happen

memory == <<up, index, info, last, dirtyFiles, dirty, tip, coins>>
vars == <<memory, disk, exposed, starts, left>>

Height(b) == Cardinality(Chain[b]) - 1
Put(f, x, y) == [z \in DOMAIN f \cup {x} |-> IF z = x THEN y ELSE f[z]]

NoInfo == [size |-> 0, usize |-> 0, top |-> 0]
InfoOf(files, n) == IF n < Len(files) THEN files[n + 1] ELSE NoInfo
WithInfo(files, n, r) ==
  [i \in 1 .. IF n < Len(files) THEN Len(files) ELSE n + 1 |->
     IF i = n + 1 THEN r ELSE InfoOf(files, i - 1)]

Place(e) == <<e.file, e.pos>>
UndoPlace(e) == <<e.file, e.undo>>
HasBlock(d, e, b) == Place(e) \in DOMAIN d.blk /\ d.blk[Place(e)] = b
HasUndo(d, e, b) ==
  e.undo # None /\ UndoPlace(e) \in DOMAIN d.rev /\ d.rev[UndoPlace(e)] = b

NewEntry(n, p) == [file |-> n, pos |-> p, undo |-> None]

Init ==
  /\ up = TRUE
  /\ index = [b \in {Genesis} |-> NewEntry(0, 0)]
  /\ info = <<[size |-> 1, usize |-> 0, top |-> 0]>>
  /\ last = 0
  /\ dirtyFiles = {} /\ dirty = {}
  /\ tip = Genesis
  /\ coins = [best |-> Genesis, applied |-> {}]
  /\ disk = [blk |-> [p \in {<<0, 0>>} |-> Genesis], rev |-> <<>>,
             index |-> index, info |-> [n \in {0} |-> info[1]], last |-> 0,
             coins |-> coins, clean |-> FALSE]
  /\ exposed = {} /\ starts = {}
  /\ left \in Budgets

Spend(e) == left[e] > 0 /\ left' = [left EXCEPT ![e] = @ - 1]

-------------------------------------------------------------------------------
(* FlushStateToDisk, and what is on disk when it is cut off. *)

WithInfos(d, S) ==
  [d EXCEPT !.info = [n \in DOMAIN d.info \cup S |->
                        IF n \in S THEN InfoOf(info, n) ELSE d.info[n]]]

WithLast(d) == [d EXCEPT !.last = IF dirtyFiles = {} THEN @ ELSE last]

WithEntries(d, S) ==
  [d EXCEPT !.index = [b \in DOMAIN d.index \cup S |->
                         IF b \in S THEN index[b] ELSE d.index[b]]]

\* File infos, the number of the last file, index entries, and then the coins.
BeforeCoins == WithEntries(WithLast(WithInfos(disk, dirtyFiles)), dirty)
Flushed(c) == [BeforeCoins EXCEPT !.coins = c]

UpTo(S, x) == {y \in S : y <= x}

\* Faulty variant: the coins go first.
CutOffCoinsFirst ==
  LET before == [disk EXCEPT !.coins = coins]
      counted == WithLast(WithInfos(before, dirtyFiles))
  IN  {before, counted} \cup {WithInfos(before, UpTo(dirtyFiles, n)) : n \in dirtyFiles}
      \cup {WithEntries(counted, {c \in dirty : Address[c] <= Address[b]}) : b \in dirty}

CutOff ==
  LET counted == WithLast(WithInfos(disk, dirtyFiles))
  IN  {disk, counted} \cup {WithInfos(disk, UpTo(dirtyFiles, n)) : n \in dirtyFiles}
      \cup {WithEntries(counted, {c \in dirty : Address[c] <= Address[b]}) : b \in dirty}

-------------------------------------------------------------------------------
(* Blocks come and go. *)

\* The first file that is not full, from the last one that was written to.
FileWithRoom ==
  CHOOSE n \in last .. last + Len(info) :
    /\ InfoOf(info, n).size < PerFile
    /\ \A m \in last .. n - 1 : InfoOf(info, m).size >= PerFile

\* FlushBlockFile(true): a file that is left is cut after what is in use.
Truncated(f, n, size) == [p \in {q \in DOMAIN f : q[1] # n \/ q[2] < size} |-> f[p]]

Left(n) ==
  IF n = last THEN disk
  ELSE [disk EXCEPT !.blk = Truncated(@, last, InfoOf(info, last).size),
                    !.rev = Truncated(@, last, InfoOf(info, last).usize)]

\* AcceptBlock.
Receive(b) ==
  /\ up /\ Spend("block")
  /\ b \notin DOMAIN index /\ Parent[b] \in DOMAIN index
  /\ LET n == FileWithRoom
         r == InfoOf(info, n)
         e == NewEntry(n, r.size)
     IN  /\ info' = WithInfo(info, n, [r EXCEPT !.size = @ + 1,
                                                !.top = IF Height(b) > @ THEN Height(b) ELSE @])
         /\ last' = n
         /\ dirtyFiles' = dirtyFiles \cup {n}
         /\ index' = Put(index, b, e)
         /\ disk' = [Left(n) EXCEPT !.blk = Put(@, Place(e), b)]
  /\ dirty' = dirty \cup {b}
  /\ UNCHANGED <<up, tip, coins, exposed, starts>>

\* Faulty variant: FindUndoPos does not mark the file info.
UndoMarksNothing(n) == dirtyFiles

UndoMarks(n) == dirtyFiles \cup {n}

\* ConnectBlock: the entry is written before the undo data have their place.  A
\* block whose transactions are in the coins already is refused.
Connect(b) ==
  /\ up
  /\ b \in DOMAIN index /\ b # Genesis /\ Parent[b] = tip
  /\ b \notin coins.applied
  /\ HasBlock(disk, index[b], b)
  /\ LET e == index[b]
         r == InfoOf(info, e.file)
         written == WithEntries(disk, {b})
     IN  IF e.undo # None
         THEN /\ disk' = written
              /\ UNCHANGED <<index, info, dirtyFiles, dirty>>
         ELSE /\ index' = [index EXCEPT ![b].undo = r.usize]
              /\ info' = WithInfo(info, e.file, [r EXCEPT !.usize = @ + 1])
              /\ dirtyFiles' = UndoMarks(e.file)
              /\ dirty' = dirty \cup {b}
              /\ disk' = [written EXCEPT !.rev = Put(@, <<e.file, r.usize>>, b)]
  /\ tip' = b
  /\ coins' = [best |-> b, applied |-> coins.applied \cup {b}]
  /\ UNCHANGED <<up, last, exposed, starts, left>>

\* DisconnectTip, which flushes.
Disconnect ==
  /\ up /\ tip # Genesis
  /\ HasBlock(disk, index[tip], tip) /\ HasUndo(disk, index[tip], tip)
  /\ tip' = Parent[tip]
  /\ coins' = [best |-> tip', applied |-> coins.applied \ {tip}]
  /\ disk' = Flushed(coins')
  /\ dirtyFiles' = {} /\ dirty' = {}
  /\ UNCHANGED <<up, index, info, last, exposed, starts, left>>

\* When the cache is full, at the end of ActivateBestChain, from RPC.
Flush ==
  /\ up /\ disk # Flushed(coins)
  /\ disk' = Flushed(coins)
  /\ dirtyFiles' = {} /\ dirty' = {}
  /\ UNCHANGED <<up, index, info, last, tip, coins, exposed, starts, left>>

-------------------------------------------------------------------------------
(* A start from d. *)

Before(b, c) == Height(b) < Height(c) \/ (Height(b) = Height(c) /\ Address[b] < Address[c])

\* vSortedByHeight.
Sorted(d) ==
  [i \in 1 .. Cardinality(DOMAIN d.index) |->
     CHOOSE b \in DOMAIN d.index : Cardinality({c \in DOMAIN d.index : Before(c, b)}) = i - 1]

\* The index in Sorted(d) of pindexLastMeta.
LastMeta(d) == IF d.last \in DOMAIN d.info THEN d.info[d.last].top + 2 ELSE 2

NeedsReplay(d) ==
  /\ ~d.clean
  /\ Len(Sorted(d)) >= LastMeta(d)
  /\ d.coins.best # Sorted(d)[LastMeta(d)]

\* Faulty variant: the search starts where it is to end.
FirstAtLastMeta(d) == {LastMeta(d)}

\* The first entry above the coins, if there is one.
FirstAbove(d) ==
  {i \in DOMAIN Sorted(d) :
     /\ Height(Sorted(d)[i]) = Height(d.coins.best) + 1
     /\ \A j \in 1 .. i - 1 : Height(Sorted(d)[j]) # Height(d.coins.best) + 1}

\* The blocks that are replayed.  Without an entry above the coins pindex keeps
\* its first value, the genesis block, and the position is behind the last entry.
Replay(d) ==
  IF FirstAbove(d) = {} THEN <<Sorted(d)[1]>>
  ELSE LET first == CHOOSE i \in FirstAbove(d) : TRUE
       IN  SubSeq(Sorted(d), first, IF first > LastMeta(d) THEN first ELSE
             CHOOSE i \in first .. LastMeta(d) :
               /\ Height(Sorted(d)[i]) = Height(Sorted(d)[LastMeta(d)])
               /\ \A j \in first .. i - 1 : Height(Sorted(d)[j]) < Height(Sorted(d)[i]))

Readable(d, S) == \A b \in S : HasBlock(d, d.index[b], b)

\* A block that does not follow on the coins spends what is not there, and an
\* assertion of UpdateCoins stops the node, unless it is by chance there.  The
\* genesis block spends nothing.
Follows(d) ==
  LET seq == Replay(d)
      before(i) == IF i = 1 THEN d.coins.best ELSE seq[i - 1]
  IN  \A i \in DOMAIN seq : seq[i] = Genesis \/ Parent[seq[i]] = before(i)

Replayed(d) == [best |-> Last(Replay(d)), applied |-> d.coins.applied \cup ToSet(Replay(d))]

\* VerifyDB at level 4: blocks are read, disconnected and connected again.
Verified(d, c) ==
  \A b \in Chain[c.best] \ {Genesis} :
    b \in c.applied /\ HasBlock(d, d.index[b], b) /\ HasUndo(d, d.index[b], b)

\* More than the chain is in the coins: VerifyDB need not notice.
Overfull(c) == c.best # Genesis /\ c.applied # Chain[c.best] \ {Genesis}

\* Whether the node starts with the coins c, and which coins are left on disk.
Checked(d, c) == {<<Verified(d, c), c>>} \cup (IF Overfull(c) THEN {<<FALSE, c>>} ELSE {})
Refused(d) == {<<FALSE, d.coins>>}

ReplayOutcomes(d) ==
  IF d.coins.best \notin DOMAIN d.index \/ ~Readable(d, ToSet(Replay(d))) THEN Refused(d)
  ELSE Checked(d, Replayed(d)) \cup (IF Follows(d) THEN {} ELSE Refused(d))

PlainOutcomes(d) ==
  IF d.coins.best \notin DOMAIN d.index THEN Refused(d) ELSE Checked(d, d.coins)

\* vinfoBlockFile: up to the last file, and the files after it.
InfoFrom(d) ==
  LET n == CHOOSE m \in d.last .. d.last + Cardinality(DOMAIN d.info) :
             m + 1 \notin DOMAIN d.info /\ d.last + 1 .. m \subseteq DOMAIN d.info
  IN  [i \in 1 .. n + 1 |-> IF i - 1 \in DOMAIN d.info THEN d.info[i - 1] ELSE NoInfo]

\* The parent of every entry is there.
Closed(S) == \A b \in S \ {Genesis} : Parent[b] \in S

\* -forcestart is the operator's way around a replay.  An entry stored without that of
\* its parent has one made up for it, without data and at height 0 (InsertBlockIndex):
\* what becomes of such a node is left out, its behaviours end with that start.
Ways(d) ==
  IF ~Closed(DOMAIN d.index) THEN {"orphaned"}
  ELSE IF NeedsReplay(d) THEN {"replayed", "forced"} ELSE {"plain"}
Outcomes(d, how) ==
  CASE how = "orphaned" -> Refused(d)
    [] how = "replayed" -> ReplayOutcomes(d)
    [] OTHER -> PlainOutcomes(d)

Load(d) ==
  \E how \in Ways(d) : \E o \in Outcomes(d, how) :
    /\ up' = o[1]
    /\ index' = d.index
    /\ info' = InfoFrom(d)
    /\ last' = d.last
    /\ dirtyFiles' = {} /\ dirty' = {}
    /\ tip' = o[2].best
    /\ coins' = o[2]
    /\ disk' = [d EXCEPT !.coins = o[2], !.clean = FALSE]
    /\ exposed' = exposed \cup
         {Place(d.index[b]) : b \in {c \in DOMAIN d.index :
                                       d.index[c].pos >= InfoOf(info', d.index[c].file).size}}
    /\ starts' = starts \cup ({how} \ {"plain"})

\* A shutdown and the next start.
Stop ==
  /\ up /\ Spend("stop")
  /\ Load([Flushed(coins) EXCEPT !.clean = TRUE])

\* A crash, which may cut a flush off, and the next start.
Crash ==
  /\ up /\ Spend("crash")
  /\ \E d \in CutOff : Load(d)

Next ==
  \/ \E b \in Blocks : Receive(b)
  \/ \E b \in Blocks : Connect(b)
  \/ Disconnect
  \/ Flush
  \/ Stop
  \/ Crash

Spec == Init /\ [][Next]_vars

-------------------------------------------------------------------------------
(* Properties. *)

\* A block may be in the files only: a crash can lose its entry after the information
\* on its file is written.
OneChain == \A b, c \in DOMAIN index \cup Range(disk.blk) : Height(b) = Height(c) => b = c

\* On a node that has received one chain only, and that was never made to start
\* without the replay it needed, nor with an entry whose parent a crash left out, the
\* coins are those of the block they name after any crashes, in the middle of flushes
\* too, and after the replays that follow.
CoinsOfOneChain ==
  OneChain /\ starts \cap {"forced", "orphaned"} = {}
    => coins.applied = Chain[coins.best] \ {Genesis}

\* Every block is read back as it was written, and every block that was
\* connected can be undone; only what a crash left beyond the end of the file that
\* the block index knows is written over.
OnlyExposedAreLost ==
  \A b \in DOMAIN index :
    \/ Place(index[b]) \in exposed
    \/ /\ HasBlock(disk, index[b], b)
       /\ index[b].undo # None \/ (up /\ b \in Chain[tip] \ {Genesis}) => HasUndo(disk, index[b], b)

\* Unless it replays blocks, a node starts again from whatever is on disk, if no
\* crash left a block beyond the end of its file, or stored an entry and not its parent.
StartsUnlessExposed == up \/ starts \cap {"replayed", "orphaned"} # {} \/ exposed # {}

\* LoadBlockIndexDB: "Start at the last block that was successfully added to the
\* txdb (pcoinsTip) and manually add all transactions that occurred for each block
\* up until the best known block from the block index db."
ReplayFollowsCoins == coins.applied = Chain[coins.best] \ {Genesis}
===============================================================================
