----------------------------- MODULE ChainRestart -----------------------------
(***************************************************************************)
(* ChainState with what is on disk: the block index database and the best  *)
(* block of the coin database, as FlushStateToDisk and ConnectBlock write  *)
(* them, a clean shutdown and a crash at any point, and LoadBlockIndexDB.  *)
(*                                                                         *)
(* A crash may interrupt FlushStateToDisk, which writes the entries of     *)
(* setDirtyBlockIndex one by one in the order of their addresses before it *)
(* writes the coins, in one batch.  The restart after a crash is one with  *)
(* -forcestart, which skips the replay of LoadBlockIndexDB.                *)
(***************************************************************************)
EXTENDS ChainState

VARIABLES
  dirty,  \* setDirtyBlockIndex
  disk    \* the index entries on disk, and the best block of the coins

restartVars == <<vars, dirty, disk>>

RestartInit ==
  /\ Init
  /\ dirty = {}
  /\ disk = [known |-> known, data |-> data, failed |-> failed, best |-> tip]

\* WriteBlockIndex for the entries of S, as they are in memory.
Written(S) ==
  [disk EXCEPT !.known = @ \cup S,
               !.data = (@ \ S) \cup (data \cap S),
               !.failed = [b \in Blocks |-> IF b \in S THEN failed[b] ELSE @[b]]]

\* Faulty variant: the coins are written without the index.
FlushedCoinsOnly(best) == [disk EXCEPT !.best = best]

\* FlushStateToDisk, when pcoinsTip is at the block best.
Flushed(best) == [Written(dirty) EXCEPT !.best = best]
FlushAt(best) == dirty' = {} /\ disk' = Flushed(best)

\* The entries of S are put into setDirtyBlockIndex.
Touch(S) == dirty' = dirty \cup S /\ UNCHANGED disk

\* ConnectBlock writes the entry on its own, before its last checks.
WriteThrough(b) == dirty' = dirty \cup {b} /\ disk' = Written({b})

Arrive(t, b) ==
  /\ ReceiveBlock(t, b) \/ RefuseBlock(t, b) \/ LoseBlock(t, b)
  /\ Touch({b})

\* FindMostWorkChain does not note the flags it sets.
StepInMemory ==
  /\ \/ \E t \in Thread : FindMostWorkChain(t) \/ StepFails(t) \/ CheckLoop(t)
     \/ EndInvalidate
     \/ BeginReprocess
  /\ Touch({})

\* DisconnectTip flushes, between its changes to the coins and to chainActive.
Disconnect ==
  /\ \/ \E t \in Thread : DisconnectForReorg(t)
     \/ InvalidateDisconnect
     \/ EndReprocess
  /\ FlushAt(tip')

ConnectOnDisk(t, b) ==
  \/ Connect(t, b) /\ (WriteThrough(b) \/ FlushAt(b))
  \/ ConnectInvalid(t, b) /\ (WriteThrough(b) \/ Touch({b}))

MarkOnDisk(b) ==
  \/ BeginInvalidate(b) /\ Touch({b})
  \/ ReconsiderBlock(b) /\ Touch(Cleared(b))
  \/ ReconsiderRejected(b) /\ Touch(Cleared(b))

\* FLUSH_STATE_PERIODIC at the end of ActivateBestChain, or gettxoutsetinfo.
Flush ==
  /\ Free /\ dirty # {}
  /\ FlushAt(tip)
  /\ UNCHANGED vars

LoadCandidatesBeyond(d) ==
  {b \in d.data : Chain[b] \subseteq d.data /\ d.failed[b] = {} /\ b # d.best}

\* LoadBlockIndexDB, from d, before PruneBlockIndexCandidates.
LoadCandidates(d) == {b \in d.data : Chain[b] \subseteq d.data /\ d.failed[b] = {}}

\* Faulty variant: the node waits for a block before it goes on.
StartedIdle == [t \in Thread |-> "idle"]

\* The node starts with ActivateBestChain.
Started == [t \in Thread |-> IF t = Net THEN "find" ELSE "idle"]

Load(d) ==
  /\ known' = d.known
  /\ data' = d.data
  /\ failed' = d.failed
  /\ linked' = {b \in d.data : Chain[b] \subseteq d.data}
  /\ unlinked' = d.data \ linked'
  /\ seq' = [b \in Blocks |-> 0]
  /\ tip' = d.best
  /\ candidates' = {b \in LoadCandidates(d) : ~WorseBy(seq', b, tip')}
  /\ refused' = {}
  /\ pc' = Started
  /\ target' = [t \in Thread |-> Genesis]
  /\ oldTip' = [t \in Thread |-> Genesis]
  /\ passed' = {}
  /\ dirty' = {}
  /\ disk' = d
  /\ UNCHANGED connected

\* A shutdown, which flushes, and the next start.
Stop ==
  /\ Free
  /\ Spend("stop")
  /\ Load(Flushed(tip))

\* The entries FlushStateToDisk has written when it is cut off.
FlushRuns == Free \/ \E t \in Thread : pc[t] \in {"step", "marked"}
CutOff == {{}} \cup IF FlushRuns THEN {{b \in dirty : Address[b] <= Address[c]} : c \in dirty}
                                 ELSE {}
Crash ==
  /\ Spend("crash")
  /\ \E S \in CutOff : Load(Written(S))

RestartNext ==
  \/ \E t \in Thread, b \in Blocks : Arrive(t, b) \/ ConnectOnDisk(t, b)
  \/ StepInMemory
  \/ Disconnect
  \/ InvalidateMark /\ Touch({tip})
  \/ \E b \in Blocks : MarkOnDisk(b)
  \/ Flush
  \/ Stop
  \/ Crash

RestartSpec == RestartInit /\ [][RestartNext]_restartVars

-------------------------------------------------------------------------------
(* Properties. *)

\* The coins are never ahead of the index: their best block and its ancestors
\* are in the index with their transactions, wherever the node is cut off.
CoinsAreIndexed == Chain[disk.best] \subseteq disk.known \cap disk.data

\* The heap gives an entry a higher address than its parent's.
InTreeOrder == \A b \in Blocks \ {Genesis} : Address[Parent[b]] < Address[b]

\* No step ended in a system error, which leaves the node between two chains.  A crash
\* may store some of the changed entries without the others: in a behaviour with one,
\* no operator or spork changed flags, and parents are written before their children.
Orderly ==
  /\ spent["system"] = 0
  /\ \/ spent["crash"] = 0
     \/ /\ InTreeOrder
        /\ \A e \in {"invalidate", "reconsider", "reconsiderBelow", "reprocess"} : spent[e] = 0

\* After any restart the index is as good as before it: blocks that wait for an
\* ancestor still do, and no block the node could switch to is forgotten.
RestartKeepsIndex ==
  Orderly => UnlinkedIsExact /\ CandidatesAreComplete /\ CandidatesNeverEmpty

\* The node ends on the best of its valid chains although it was cut off
\* anywhere, and may have lost blocks, their links or their flags.
RestartFindsBestChain == Orderly => BestChainIsActive
===============================================================================
