------------------------------ MODULE ChainState ------------------------------
(***************************************************************************)
(* Best-chain selection of main.cpp: the block index mapBlockIndex with    *)
(* its failure flags, setBlockIndexCandidates, mapBlocksUnlinked and the   *)
(* active chain.  ChainRestart adds what of them is on disk.               *)
(*                                                                         *)
(* Two threads call ActivateBestChain: Net, the message handler (blocks,   *)
(* and ReprocessBlocks of spork.cpp), and Rpc, the RPC server              *)
(* (submitblock, invalidateblock, reconsiderblock).  cs_main is held at    *)
(* every pc in Locked and is free between the steps of the loop of         *)
(* ActivateBestChain.                                                      *)
(*                                                                         *)
(* The nStatus of a block is failed[b] (its BLOCK_FAILED bits) and b \in   *)
(* data (BLOCK_HAVE_DATA, which stands for BLOCK_VALID_TRANSACTIONS too).  *)
(* nChainTx # 0 is b \in linked.  An active chain is its tip.  Whether a   *)
(* block connects is chosen at each attempt; that a block which connected  *)
(* once is refused later is a rare event ("change"): CheckBlock depends on *)
(* the time, the transaction locks and the masternode votes.               *)
(***************************************************************************)
EXTENDS Integers, FiniteSets

CONSTANTS
  Blocks,    \* every block that can arrive
  Genesis,   \* the block the node starts with
  Parent,    \* pprev of the others
  Chain,     \* Chain[b]: b and its ancestors
  Work,      \* nChainWork
  Address,   \* where the CBlockIndex is allocated: the last tie breaker
  Net, Rpc,  \* the threads
  MaxReorg,  \* -maxreorg
  Depth,     \* blocks disconnected by ReprocessBlocks
  Budgets    \* bounds on the rare events of a behaviour: each vector is one

Thread == {Net, Rpc}
Rare == {"invalidate", "reconsider", "reconsiderBelow", "reprocess",
         "contextual", "write", "system", "change", "stop", "crash"}

ASSUME TreeAssumption ==
  /\ Genesis \in Blocks /\ IsFiniteSet(Blocks)
  /\ Parent \in [Blocks \ {Genesis} -> Blocks]
  /\ Chain \in [Blocks -> SUBSET Blocks]
  /\ Chain[Genesis] = {Genesis}
  /\ \A b \in Blocks \ {Genesis} : /\ Chain[b] = Chain[Parent[b]] \cup {b}
                                   /\ b \notin Chain[Parent[b]]
ASSUME WorkAssumption ==
  /\ Work \in [Blocks -> Nat]
  /\ \A b \in Blocks \ {Genesis} : Work[Parent[b]] < Work[b]
ASSUME AddressAssumption ==
  /\ Address \in [Blocks -> Nat]
  /\ \A b, c \in Blocks : Address[b] = Address[c] => b = c
ASSUME BudgetAssumption ==
  Budgets \subseteq [Rare -> Nat] /\ MaxReorg \in Nat /\ Depth \in Nat

Fail == {"valid", "child"}   \* BLOCK_FAILED_VALID, BLOCK_FAILED_CHILD

VARIABLES
  known,       \* mapBlockIndex
  data,        \* entries with BLOCK_HAVE_DATA
  failed,      \* BLOCK_FAILED bits of an entry
  linked,      \* entries with nChainTx # 0
  seq,         \* nSequenceId
  candidates,  \* setBlockIndexCandidates
  unlinked,    \* mapBlocksUnlinked, keyed by the second of each pair
  tip,         \* chainActive.Tip()
  refused,     \* blocks ConnectBlock refused; mapRejectedBlocks is among them
  connected,   \* history: blocks ConnectBlock accepted once
  pc,          \* where each thread is
  target,      \* pindexMostWork, or the block InvalidateBlock is about
  oldTip,      \* pindexOldTip
  passed,      \* blocks ReprocessBlocks has reconsidered in its loop
  spent        \* how often each rare event happened

index == <<known, data, failed, linked, seq>>
sets == <<candidates, unlinked>>
history == <<refused, connected>>
locals == <<target, oldTip, passed>>
vars == <<known, data, failed, linked, seq, candidates, unlinked, tip, refused,
          connected, pc, target, oldTip, passed, spent>>

Locked == {"step", "invalidate", "marked"}
\* cs_main can be taken.
Free == \A t \in Thread : pc[t] \notin Locked
Idle == \A t \in Thread : pc[t] = "idle"
Goto(t, where) == pc' = [pc EXCEPT ![t] = where]

Height(b) == Cardinality(Chain[b]) - 1

\* Faulty variant: of two blocks with the same work the later one is better.
WorseByEarlier(s, a, b) ==
  \/ Work[a] < Work[b]
  \/ Work[a] = Work[b] /\ s[a] < s[b]
  \/ Work[a] = Work[b] /\ s[a] = s[b] /\ Address[a] > Address[b]

\* CBlockIndexWorkComparator(a, b), with the sequence numbers s.
WorseBy(s, a, b) ==
  \/ Work[a] < Work[b]
  \/ Work[a] = Work[b] /\ s[a] > s[b]
  \/ Work[a] = Work[b] /\ s[a] = s[b] /\ Address[a] > Address[b]
Worse(a, b) == WorseBy(seq, a, b)

\* The best element of a set of entries.
BestOf(S) == CHOOSE b \in S : \A c \in S : ~Worse(b, c)

\* The highest element of a set of blocks of one chain.
TopOf(S) == CHOOSE b \in S : S \subseteq Chain[b]

IsValid(b) == b \in data /\ failed[b] = {}

Spend(event) ==
  /\ spent' = [spent EXCEPT ![event] = @ + 1]
  /\ \E budget \in Budgets : \A e \in Rare : spent'[e] <= budget[e]

Init ==
  /\ known = {Genesis}
  /\ data = {Genesis}
  /\ failed = [b \in Blocks |-> {}]
  /\ linked = {Genesis}
  /\ seq = [b \in Blocks |-> IF b = Genesis THEN 1 ELSE 0]
  /\ candidates = {Genesis}
  /\ unlinked = {}
  /\ tip = Genesis
  /\ refused = {}
  /\ connected = {Genesis}
  /\ pc = [t \in Thread |-> "idle"]
  /\ target = [t \in Thread |-> Genesis]
  /\ oldTip = [t \in Thread |-> Genesis]
  /\ passed = {}
  /\ spent = [e \in Rare |-> 0]

-------------------------------------------------------------------------------
(* Blocks arrive: ProcessNewBlock, AcceptBlock. *)

\* The checks of AcceptBlock before the block's transactions are looked at.
\* The block message skips a block it knows, submitblock does not.
Acceptable(t, b) ==
  /\ pc[t] = "idle" /\ Free
  /\ b # Genesis
  /\ Parent[b] \in known
  /\ failed[Parent[b]] = {}
  /\ \/ b \notin known /\ Height(tip) - Height(b) < MaxReorg
     \/ t = Rpc /\ b \in known \ data /\ failed[b] = {}

\* Faulty variant: the blocks that wait in mapBlocksUnlinked stay there.
LinkedByAlone(b) == {b}

\* The blocks that nChainTx reaches once b has its transactions.
LinkedBy(b) ==
  {x \in Blocks : b \in Chain[x] /\ Chain[x] \ Chain[b] \subseteq unlinked}

\* Sequence numbers go to them in breadth-first order.
LastSequence == CHOOSE n \in {seq[b] : b \in Blocks} : \A b \in Blocks : seq[b] <= n
Numberings(S) ==
  {s \in [S -> LastSequence + 1 .. LastSequence + Cardinality(S)] :
     \A x, y \in S : /\ s[x] = s[y] => x = y
                     /\ Height(x) < Height(y) => s[x] < s[y]}

\* ReceivedBlockTransactions.
LinkBlock(b) ==
  \E s \in Numberings(LinkedBy(b)) :
    /\ linked' = linked \cup LinkedBy(b)
    /\ seq' = [x \in Blocks |-> IF x \in LinkedBy(b) THEN s[x] ELSE seq[x]]
    /\ candidates' = candidates \cup {x \in LinkedBy(b) : ~WorseBy(seq', x, tip)}
    /\ unlinked' = unlinked \ LinkedBy(b)

\* Faulty variant: a block without its ancestors is not noted.
KeepUnnoted(b) == UNCHANGED <<unlinked, linked, seq, candidates>>

\* The block waits for its ancestors' transactions.
KeepUnlinked(b) ==
  /\ unlinked' = unlinked \cup (IF failed[Parent[b]] = {} THEN {b} ELSE {})
  /\ UNCHANGED <<linked, seq, candidates>>

\* The block is stored, and the thread goes on to ActivateBestChain.
ReceiveBlock(t, b) ==
  /\ Acceptable(t, b)
  /\ known' = known \cup {b}
  /\ data' = data \cup {b}
  /\ IF Parent[b] \in linked THEN LinkBlock(b) ELSE KeepUnlinked(b)
  /\ Goto(t, "find")
  /\ UNCHANGED <<failed, tip, history, locals, spent>>

\* ContextualCheckBlock refuses the block: its entry stays, marked.
RefuseBlock(t, b) ==
  /\ Acceptable(t, b)
  /\ Spend("contextual")
  /\ known' = known \cup {b}
  /\ failed' = [failed EXCEPT ![b] = @ \cup {"valid"}]
  /\ UNCHANGED <<data, linked, seq, sets, tip, history, pc, locals>>

\* FindBlockPos or WriteBlockToDisk fails: the entry stays, without its block.
LoseBlock(t, b) ==
  /\ Acceptable(t, b)
  /\ Spend("write")
  /\ known' = known \cup {b}
  /\ UNCHANGED <<data, failed, linked, seq, sets, tip, history, pc, locals>>

-------------------------------------------------------------------------------
(* ActivateBestChain, FindMostWorkChain, ActivateBestChainStep. *)

\* Faulty variant: the failure flags of the ancestors are not looked at.
MissingObstacles(c) == {x \in Chain[c] \ Chain[tip] : x \notin data}

\* What FindMostWorkChain trips over on the way from c to the active chain.
Obstacles(c) == {x \in Chain[c] \ Chain[tip] : failed[x] # {} \/ x \notin data}
Usable == {c \in candidates : Obstacles(c) = {}}

\* The candidates it discards before it finds a usable one, the entries above
\* the highest obstacle of each, and that obstacle.
Discarded == {c \in candidates \ Usable : \A u \in Usable : ~Worse(c, u)}
Obstacle(c) == TopOf(Obstacles(c))
Above(c) == Chain[c] \ Chain[Obstacle(c)]
FailedAbove == UNION {Above(c) : c \in {d \in Discarded : failed[Obstacle(d)] # {}}}
MissingAbove == UNION {Above(c) : c \in {d \in Discarded : failed[Obstacle(d)] = {}}}

FindMostWorkChain(t) ==
  /\ pc[t] = "find" /\ Free
  /\ failed' = [b \in Blocks |-> IF b \in FailedAbove THEN failed[b] \cup {"child"}
                                                      ELSE failed[b]]
  /\ candidates' = candidates \ UNION {Above(c) \cup {Obstacle(c)} : c \in Discarded}
  /\ unlinked' = unlinked \cup MissingAbove
  /\ IF Usable = {} \/ BestOf(Usable) = tip
     THEN Goto(t, "idle") /\ UNCHANGED locals
     ELSE /\ Goto(t, "step")
          /\ target' = [target EXCEPT ![t] = BestOf(Usable)]
          /\ oldTip' = [oldTip EXCEPT ![t] = tip]
          /\ UNCHANGED passed
  /\ UNCHANGED <<known, data, linked, seq, tip, history, spent>>

\* DisconnectTip, up to the fork.
DisconnectForReorg(t) ==
  /\ pc[t] = "step"
  /\ tip \notin Chain[target[t]]
  /\ tip' = Parent[tip]
  /\ UNCHANGED <<index, sets, history, pc, locals, spent>>

\* The next block to connect on the way to the target.
Following(t) == CHOOSE b \in Chain[target[t]] : b # Genesis /\ Parent[b] = tip
Connecting(t, b) ==
  /\ pc[t] = "step"
  /\ tip \in Chain[target[t]]
  /\ b = Following(t)

\* Faulty variant: nothing is deleted.
Unpruned(b) == candidates

\* PruneBlockIndexCandidates, for the new tip b.
Pruned(b) == {c \in candidates : ~Worse(c, b)}

\* ActivateBestChainStep returns: pindexOldTip goes out of scope.
StepReturns(t, where) ==
  /\ Goto(t, where)
  /\ oldTip' = [oldTip EXCEPT ![t] = Genesis]

\* The loop of ActivateBestChainStep is left at the target, or as soon as the
\* new tip has more work than the old one.
Connect(t, b) ==
  /\ Connecting(t, b)
  /\ tip' = b
  /\ candidates' = Pruned(b)
  /\ connected' = connected \cup {b}
  /\ IF b = target[t] \/ Work[b] > Work[oldTip[t]]
     THEN StepReturns(t, "check") ELSE UNCHANGED <<pc, oldTip>>
  /\ UNCHANGED <<index, unlinked, refused, target, passed, spent>>

\* ConnectBlock finds the block invalid: InvalidBlockFound.
ConnectInvalid(t, b) ==
  /\ Connecting(t, b)
  /\ IF b \in connected THEN Spend("change") ELSE UNCHANGED spent
  /\ failed' = [failed EXCEPT ![b] = @ \cup {"valid"}]
  /\ candidates' = candidates \ {b}
  /\ refused' = refused \cup {b}
  /\ StepReturns(t, "check")
  /\ UNCHANGED <<known, data, linked, seq, unlinked, tip, connected, target,
                 passed>>

\* A read, disk or database error: ActivateBestChain returns false.
StepFails(t) ==
  /\ pc[t] = "step"
  /\ Spend("system")
  /\ StepReturns(t, "idle")
  /\ target' = [target EXCEPT ![t] = Genesis]
  /\ UNCHANGED <<index, sets, tip, history, passed>>

\* Faulty variant: ActivateBestChain makes one step only.
CheckNothing(t) ==
  /\ pc[t] = "check"
  /\ Goto(t, "idle")
  /\ target' = [target EXCEPT ![t] = Genesis]
  /\ UNCHANGED <<index, sets, tip, history, oldTip, passed, spent>>

\* The condition of the do-while loop, read without cs_main.
CheckLoop(t) ==
  /\ pc[t] = "check"
  /\ Goto(t, IF target[t] = tip THEN "idle" ELSE "find")
  /\ target' = [target EXCEPT ![t] = Genesis]
  /\ UNCHANGED <<index, sets, tip, history, oldTip, passed, spent>>

-------------------------------------------------------------------------------
(* invalidateblock, reconsiderblock, and ReprocessBlocks of spork.cpp. *)

BeginInvalidate(b) ==
  /\ pc[Rpc] = "idle" /\ Free
  /\ b \in known \ {Genesis}
  /\ Spend("invalidate")
  /\ failed' = [failed EXCEPT ![b] = @ \cup {"valid"}]
  /\ candidates' = candidates \ {b}
  /\ target' = [target EXCEPT ![Rpc] = b]
  /\ Goto(Rpc, "invalidate")
  /\ UNCHANGED <<known, data, linked, seq, unlinked, tip, history, oldTip, passed>>

\* One turn of its loop: the tip is marked, then disconnected.
InvalidateMark ==
  /\ pc[Rpc] = "invalidate"
  /\ target[Rpc] \in Chain[tip]
  /\ failed' = [failed EXCEPT ![tip] = @ \cup {"child"}]
  /\ candidates' = candidates \ {tip}
  /\ Goto(Rpc, "marked")
  /\ UNCHANGED <<known, data, linked, seq, unlinked, tip, history, locals, spent>>
InvalidateDisconnect ==
  /\ pc[Rpc] = "marked"
  /\ tip' = Parent[tip]
  /\ Goto(Rpc, "invalidate")
  /\ UNCHANGED <<index, sets, history, locals, spent>>

\* Faulty variant: only better entries are added.
RestoredBetter == {x \in known : IsValid(x) /\ x \in linked /\ Worse(tip, x)}

\* Entries as good as the new tip become candidates again.
Restored == {x \in known : IsValid(x) /\ x \in linked /\ ~Worse(x, tip)}
EndInvalidate ==
  /\ pc[Rpc] = "invalidate"
  /\ target[Rpc] \notin Chain[tip]
  /\ candidates' = candidates \cup Restored
  /\ target' = [target EXCEPT ![Rpc] = Genesis]
  /\ Goto(Rpc, "find")
  /\ UNCHANGED <<index, unlinked, tip, history, oldTip, passed, spent>>

\* ReconsiderBlock: the descendants of b, and its ancestors, lose their flags.
Below(b) == {x \in known : b \in Chain[x]}

\* Faulty variant: the descendants keep their flags.
ClearedAncestors(b) == {x \in Chain[b] : failed[x] # {}}
Cleared(b) == {x \in Below(b) : ~IsValid(x)} \cup {x \in Chain[b] : failed[x] # {}}
Reconsider(b) ==
  /\ failed' = [x \in Blocks |-> IF x \in Cleared(b) THEN {} ELSE failed[x]]
  /\ candidates' = candidates \cup
       {x \in Below(b) : ~IsValid(x) /\ x \in data \cap linked /\ Worse(tip, x)}
  /\ UNCHANGED <<known, data, linked, seq, unlinked, tip, history, target, oldTip>>

\* Reconsidering a block below a failed one is counted apart.
BelowFailed(b) == \E a \in Chain[b] \ {b} : failed[a] # {}
ReconsiderBlock(b) ==
  /\ pc[Rpc] = "idle" /\ Free
  /\ b \in known
  /\ Spend(IF BelowFailed(b) THEN "reconsiderBelow" ELSE "reconsider")
  /\ Reconsider(b)
  /\ Goto(Rpc, "find")
  /\ UNCHANGED passed

\* ReprocessBlocks(Depth - 1), called by the swifttx messages: blocks that were
\* rejected lately are reconsidered, each under a cs_main of its own, ...
BeginReprocess ==
  /\ pc[Net] = "idle"
  /\ Spend("reprocess")
  /\ Goto(Net, "reprocess")
  /\ UNCHANGED <<index, sets, tip, history, locals>>
ReconsiderRejected(b) ==
  /\ pc[Net] = "reprocess" /\ Free
  /\ b \in refused \ passed
  /\ passed' = passed \cup {b}
  /\ IF BelowFailed(b) THEN Spend("reconsiderBelow") ELSE UNCHANGED spent
  /\ Reconsider(b)
  /\ UNCHANGED pc

\* The ancestor of b that is n blocks below it.
AncestorAt(b, n) == CHOOSE a \in Chain[b] : Cardinality(Chain[b] \ Chain[a]) = n

\* ... then DisconnectBlocksAndReprocess disconnects one block more than it is
\* asked to.
EndReprocess ==
  /\ pc[Net] = "reprocess" /\ Free
  /\ Height(tip) >= Depth
  /\ tip' = AncestorAt(tip, Depth)
  /\ Goto(Net, "find")
  /\ passed' = {}
  /\ UNCHANGED <<index, sets, history, target, oldTip, spent>>

-------------------------------------------------------------------------------
Activate(t) ==
  \/ FindMostWorkChain(t)
  \/ DisconnectForReorg(t)
  \/ \E b \in Blocks : Connect(t, b) \/ ConnectInvalid(t, b)
  \/ StepFails(t)
  \/ CheckLoop(t)

Invalidate == InvalidateMark \/ InvalidateDisconnect \/ EndInvalidate

Next ==
  \/ \E t \in Thread, b \in Blocks :
       ReceiveBlock(t, b) \/ RefuseBlock(t, b) \/ LoseBlock(t, b)
  \/ \E t \in Thread : Activate(t)
  \/ \E b \in Blocks : BeginInvalidate(b) \/ ReconsiderBlock(b)
  \/ Invalidate
  \/ BeginReprocess
  \/ \E b \in Blocks : ReconsiderRejected(b)
  \/ EndReprocess

Fairness == /\ \A t \in Thread : WF_vars(Activate(t))
            /\ WF_vars(Invalidate)

Spec == Init /\ [][Next]_vars /\ Fairness

-------------------------------------------------------------------------------
(* Properties.  CheckBlockIndex asserts most of them, on the networks where   *)
(* fCheckBlockIndex is set.                                                   *)

\* The index, the active chain and the program counters keep their types: data
\* only of known blocks, links only of blocks with data, the tip linked, and
\* cs_main never held by two threads.
TypeOK ==
  /\ known \subseteq Blocks /\ data \subseteq known /\ linked \subseteq data
  /\ failed \in [Blocks -> SUBSET Fail]
  /\ seq \in [Blocks -> Nat]
  /\ candidates \subseteq known /\ unlinked \subseteq known
  /\ refused \subseteq known /\ connected \subseteq known
  /\ tip \in linked
  /\ pc \in [Thread -> {"idle", "find", "step", "check", "invalidate", "marked", "reprocess"}]
  /\ \A t, u \in Thread : pc[t] \in Locked /\ pc[u] \in Locked => t = u
  /\ target \in [Thread -> Blocks] /\ oldTip \in [Thread -> Blocks]
  /\ passed \subseteq refused
  /\ spent \in [Rare -> Nat]

\* A block and its ancestors are stored; none of them is invalid itself.
Complete(b) == Chain[b] \subseteq data
Clean(b) == \A a \in Chain[b] : "valid" \notin failed[a]

\* nChainTx is set exactly when the transactions of the block and of all its
\* ancestors are there, in whatever order they came.
LinkedIsComplete == linked = {b \in known : Complete(b)}

\* mapBlocksUnlinked holds the blocks that wait for an ancestor's transactions,
\* and none that would be linked twice; only invalid ones may be left out.
UnlinkedIsExact ==
  Free => \A b \in known \ {Genesis} :
    /\ b \in unlinked => b \in data /\ ~Complete(b)
    /\ b \in data /\ ~Complete(b) /\ Clean(b) => b \in unlinked

\* A failure flag has a cause: the block or an ancestor was found invalid or was
\* invalidated, and was not reconsidered since.
FailedHasCause == Free => \A b \in known : failed[b] # {} => ~Clean(b)

\* setBlockIndexCandidates misses no block the node could switch to, or must be
\* able to come back to, when no thread is in ActivateBestChain.
CandidatesAreComplete ==
  Idle => \A b \in known : ~Worse(b, tip) /\ Complete(b) /\ Clean(b) => b \in candidates

\* Every candidate is at least as good as the tip and complete: none that is worse
\* survives a reorganization, an invalidation or a pruning.  It may have failed.
CandidatesAreGood ==
  Free => \A b \in candidates : ~Worse(b, tip) /\ Complete(b)

\* The assertion of PruneBlockIndexCandidates, at all times.
CandidatesNeverEmpty == Free => candidates # {}

\* The node never leaves its chain for one with less work, nor for one with the
\* same work that it heard of later.
NoReorgToWorse ==
  \A t \in Thread : pc[t] = "step" =>
    \/ Work[oldTip[t]] < Work[target[t]]
    \/ Work[oldTip[t]] = Work[target[t]] /\ seq[target[t]] <= seq[oldTip[t]]

\* When both threads are out of ActivateBestChain, the active chain is the best
\* of the complete chains without an invalid block, whatever was refused,
\* invalidated, reconsidered or disconnected on the way.
BestChainIsActive ==
  Idle => \A b \in known : Complete(b) /\ Clean(b) => ~Worse(tip, b)

\* The active chain never contains a block that is known to be invalid.
ActiveChainIsClean == Free => Complete(tip) /\ Clean(tip)

\* ActivateBestChain returns: each of its turns connects the best chain or
\* marks a block.
ActivationEnds == \A t \in Thread : pc[t] = "find" ~> pc[t] = "idle"
=============================================================================
