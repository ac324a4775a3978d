-------------------------- MODULE MasternodePayments --------------------------
(***************************************************************************)
(* The votes of masternodes for whom a future block has to pay, as in      *)
(* masternode-payments.cpp: the mnw message, the vote of this node after a *)
(* block, the removal of old votes and mnpayments.dat.                     *)
(*                                                                         *)
(* A vote is stored and counted in two critical sections.  Net is the      *)
(* thread of the message handler, Rpc one that makes blocks; CleanPayments *)
(* is called by a third.  Any masternode of the list may vote for a height *)
(* as far as this module knows: IsValid refuses a rank beyond ten, but     *)
(* takes the rank -1 of one that is not enabled or too young, and ranks    *)
(* change with the list.  Whether a vote is known, ranked and signed right *)
(* is an input.                                                            *)
(***************************************************************************)
EXTENDS Integers, FiniteSets

CONSTANTS
  Masternode,  \* those of the list
  Self,        \* the masternode this node runs
  Payee,
  Nobody,      \* the empty script
  Required,    \* MNPAYMENTS_SIGNATURES_REQUIRED
  MaxHeight,   \* bound: no vote is for a height beyond
  Tips,        \* bound: the heights of the tip
  Back, Far,   \* a vote may be for a height from tip - Back to tip + Far
  Ahead,       \* this node votes for tip + Ahead
  Keep,        \* votes for heights below tip - Keep are removed
  MaxRestarts, \* bound: how often the node stops or crashes
  MaxVotes,    \* bound: how many votes are stored after so many restarts
  None

ASSUME PaymentsAssumption ==
  /\ IsFiniteSet(Masternode)
  /\ Self \in Masternode
  /\ Nobody \notin Payee
  /\ None \notin [vote : [mn : Masternode, height : Nat, payee : Payee \cup {Nobody}], block : Nat]
  /\ None \notin [votes : SUBSET [mn : Masternode, height : Nat, payee : Payee \cup {Nobody}],
                  blocks : [0 .. MaxHeight -> [Payee \cup {Nobody} -> Nat]]]
  /\ Required \in Nat
  /\ MaxHeight \in Nat /\ Tips \subseteq Nat
  /\ Back \in Nat /\ Far \in Nat /\ Ahead \in Nat /\ Keep \in Nat
  /\ Back <= Keep /\ \A h \in Tips : h > Back
  /\ MaxRestarts \in Nat /\ MaxVotes \in [0 .. MaxRestarts -> Nat]

Thread == {"Net", "Rpc"}
Height == 0 .. MaxHeight

\* CMasternodePaymentWinner; its hash is over these three.  The empty one is for
\* height 0 and comes from this node only.
Winner(m, heights, payees) == [mn : m, height : heights, payee : payees]
Empty == Winner({Self}, {0}, {Nobody})
Vote == Winner(Masternode, Height, Payee) \cup Empty

VARIABLES
  tip,       \* the height of the active chain
  votes,     \* mapMasternodePayeeVotes
  blocks,    \* mapMasternodeBlocks; a payee without votes has none
  lastVote,  \* mapMasternodesLastVote, -1 for no entry
  lastBlock, \* nLastBlockHeight
  adding,    \* the vote a thread has stored and not yet counted, and the height this
             \* node's own vote is to set nLastBlockHeight to
  file,      \* mnpayments.dat, or None when it cannot be read
  made,      \* history: the votes this node signed
  hopped,    \* history, until a restart: the masternodes that voted for two heights, and
             \* this one if two threads voted at once
  restarts   \* history: how often the node was started again

memory == <<votes, blocks, lastVote, lastBlock, adding>>
vars == <<tip, memory, file, made, hopped, restarts>>

-----------------------------------------------------------------------------
Busy(t) == adding[t] # None
NoVotes == [h \in Height |-> [p \in Payee \cup {Nobody} |-> 0]]

Init ==
  /\ tip \in Tips
  /\ votes = {} /\ blocks = NoVotes
  /\ lastVote = [m \in Masternode |-> -1] /\ lastBlock = 0
  /\ adding = [t \in Thread |-> None]
  /\ file = [votes |-> {}, blocks |-> NoVotes]
  /\ made = {} /\ hopped = {} /\ restarts = 0

\* Blocks are connected and disconnected.  Between the two critical sections of
\* AddWinningMasternode the chain does not outgrow the vote, a bound: it would take
\* more than Keep - Back blocks.  They are hundreds on a small list, and none when
\* all of 800 or more masternodes are enabled.  The empty vote is old from the start.
MoveTip ==
  /\ tip' \in Tips \cap {tip - 1, tip + 1}
  /\ \A t \in Thread : Busy(t) /\ adding[t].vote \notin Empty => tip' - adding[t].vote.height <= Keep
  /\ UNCHANGED <<memory, file, made, hopped, restarts>>

-----------------------------------------------------------------------------
InRange(v) == v.height \in tip - Back .. tip + Far

\* Whether a masternode may vote for a height: only its last one is remembered.
CanVote(v) == lastVote[v.mn] # v.height
\* Faulty variant: nothing is remembered.
NotedNot(v) == lastVote
Noted(v) == [lastVote EXCEPT ![v.mn] = v.height]
Hop(v) ==
  hopped' = IF restarts = 0 /\ lastVote[v.mn] \notin {-1, v.height} THEN hopped \cup {v.mn} ELSE hopped

\* Faulty variant: AddWinningMasternode does not ask again whether a vote is known.
UnseenOrNot(v) == v \in Vote
\* A vote is known by its masternode, height and payee.
Unseen(v) == v \notin votes

\* The first critical section of AddWinningMasternode.
Store(t, v, block) ==
  /\ ~Busy(t)
  /\ Cardinality(votes) < MaxVotes[restarts]
  /\ votes' = votes \cup {v}
  /\ adding' = [adding EXCEPT ![t] = [vote |-> v, block |-> block]]

\* A mnw message that passes all tests.  Votes of this node are its own, sent back.
ReceiveVote(v) ==
  /\ v.mn = Self => v \in made
  /\ Unseen(v) /\ InRange(v) /\ CanVote(v)
  /\ Store("Net", v, 0)
  /\ lastVote' = Noted(v)
  /\ Hop(v)
  /\ UNCHANGED <<tip, blocks, lastBlock, file, made, restarts>>

\* One whose signature fails, perhaps because the key of the masternode is not
\* known yet, is noted all the same.
SpendVote(v) ==
  /\ ~Busy("Net")
  /\ Unseen(v) /\ InRange(v) /\ CanVote(v)
  /\ lastVote' = Noted(v)
  /\ Hop(v)
  /\ UNCHANGED <<tip, votes, blocks, lastBlock, adding, file, made, restarts>>

\* The vote of this node after a block.  For a budget payment block, or when there
\* is no masternode to pay, it is an empty one for height 0.
OwnVote(t) ==
  /\ tip + Ahead \in Height /\ tip + Ahead > lastBlock
  /\ \E v \in Winner({Self}, {tip + Ahead}, Payee) \cup Empty :
       /\ Unseen(v)
       /\ Store(t, v, tip + Ahead)
       /\ made' = made \cup {v}
  /\ hopped' = IF restarts = 0 /\ \E u \in Thread : Busy(u) /\ adding[u].block > 0
               THEN hopped \cup {Self} ELSE hopped
  /\ UNCHANGED <<tip, blocks, lastVote, lastBlock, file, restarts>>

\* CMasternodeBlockPayees::AddPayee
Counted(v) == [blocks EXCEPT ![v.height][v.payee] = @ + 1]

CountVote(t) ==
  /\ Busy(t)
  /\ blocks' = Counted(adding[t].vote)
  /\ adding' = [adding EXCEPT ![t] = None]
  /\ lastBlock' = IF adding[t].block > 0 THEN adding[t].block ELSE lastBlock
  /\ UNCHANGED <<tip, votes, lastVote, file, made, hopped, restarts>>

-----------------------------------------------------------------------------
Old(h) == tip - h > Keep
KeptVotes(vs) == {v \in vs : ~Old(v.height)}

\* Faulty variant: the payees are kept.
KeptAllBlocks(vs, bs) == [h \in Height |-> IF vs = {} THEN NoVotes[h] ELSE bs[h]]
\* Erasing a vote erases the payees of its height, if it had one.
KeptBlocks(vs, bs) ==
  [h \in Height |-> IF Old(h) /\ \E v \in vs : v.height = h THEN NoVotes[h] ELSE bs[h]]

CleanPaymentList ==
  /\ votes' = KeptVotes(votes)
  /\ blocks' = KeptBlocks(votes, blocks)
  /\ UNCHANGED <<tip, lastVote, lastBlock, adding, file, made, hopped, restarts>>

\* CMasternodePaymentDB::Read as the node starts; old votes are removed, unless
\* cs_main is taken.  A file that cannot be read loads nothing.
Start(f) ==
  LET read == IF f = None THEN [votes |-> {}, blocks |-> NoVotes] ELSE f
  IN  /\ restarts < MaxRestarts /\ restarts' = restarts + 1
      /\ Cardinality(votes) <= MaxVotes[restarts + 1]
      /\ \/ votes' = KeptVotes(read.votes) /\ blocks' = KeptBlocks(read.votes, read.blocks)
         \/ votes' = read.votes /\ blocks' = read.blocks
      /\ lastVote' = [m \in Masternode |-> -1] /\ lastBlock' = 0
      /\ adding' = [t \in Thread |-> None]
      /\ hopped' = {}
      /\ UNCHANGED <<tip, made>>

\* DumpMasternodePayments: a file that cannot be read is left for the user to fix.
Dumped == IF file = None THEN None ELSE [votes |-> votes, blocks |-> blocks]

\* The threads have ended when PrepareShutdown writes the file.
Restart ==
  /\ \A t \in Thread : ~Busy(t)
  /\ file' = Dumped
  /\ Start(file')

Crash == file' = file /\ Start(file)

\* The node dies while it writes the file.
CrashInDump ==
  /\ \A t \in Thread : ~Busy(t)
  /\ file' = None
  /\ Start(file')

Next ==
  \/ \E v \in Winner(Masternode, Height, Payee) : ReceiveVote(v) \/ SpendVote(v)
  \/ \E t \in Thread : OwnVote(t) \/ CountVote(t)
  \/ MoveTip \/ CleanPaymentList \/ Restart \/ Crash \/ CrashInDump

Spec == Init /\ [][Next]_vars

-----------------------------------------------------------------------------
File == [votes : SUBSET Vote, blocks : [Height -> [Payee \cup {Nobody} -> Nat]]]

TypeOK ==
  /\ tip \in Tips
  /\ votes \subseteq Vote
  /\ blocks \in [Height -> [Payee \cup {Nobody} -> Nat]]
  /\ lastVote \in [Masternode -> Height \cup {-1}]
  /\ lastBlock \in Nat
  /\ adding \in [Thread -> [vote : Vote, block : Nat] \cup {None}]
  /\ file \in File \cup {None}
  /\ made \subseteq Vote
  /\ hopped \subseteq Masternode
  /\ restarts \in 0 .. MaxRestarts

VotesFor(vs, h, p) == {v \in vs : v.height = h /\ v.payee = p}
InFlight == {adding[t].vote : t \in {u \in Thread : Busy(u)}}

\* What a payee is credited with for a height is the number of votes that are stored
\* for it, but for those a thread has still to count: whatever is received twice, from
\* a peer and as this node's own, by two threads, removed, dumped and read again.
TallyIsVotes ==
  \A h \in Height, p \in Payee : blocks[h][p] = Cardinality(VotesFor(votes \ InFlight, h, p))

VotesTwice(m, h) == \E v, w \in votes : v # w /\ {v.mn, w.mn} = {m} /\ {v.height, w.height} = {h}
MayVoteTwice(m) == restarts > 0 \/ m \in hopped

\* A masternode has two votes for one height only if the node was started again, or if
\* it voted for another height in between: CanVote (masternode-payments.h:272) remembers
\* the last height of each masternode, and not on disk.  This node may sign two votes
\* only where two threads are in ProcessBlock at once, or after a start.
VotesAreSingle ==
  \A m \in Masternode, h \in Height : VotesTwice(m, h) => MayVoteTwice(m)

Voters(h) == {v.mn : v \in {w \in votes : w.height = h}}

\* Two payees are both required for a height (IsTransactionValid) only if a masternode
\* voted twice, or if votes of so many masternodes were taken for that height that both
\* could have had theirs; ten, of which six are required, are not enough.
RequiredPayeeIsUnique ==
  \A h \in Height : \A p, q \in Payee :
    p # q /\ blocks[h][p] >= Required /\ blocks[h][q] >= Required
      => \/ \E m \in Masternode : VotesTwice(m, h)
         \/ Cardinality(Voters(h)) >= 2 * Required
===============================================================================
