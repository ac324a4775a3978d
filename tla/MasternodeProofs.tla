--------------------------- MODULE MasternodeProofs ---------------------------
(***************************************************************************)
(* Proofs about the two masternode modules.                                *)
(*                                                                         *)
(* MasternodePayments, for any finite set of masternodes, any payees and   *)
(* any heights: the counters follow the stored votes because a vote that a *)
(* thread has stored and not counted stays apart: it is in votes, is no    *)
(* vote another thread is counting, and is too young to be removed         *)
(* meanwhile.                                                              *)
(*                                                                         *)
(* MasternodeSync, for any networks: any number of peers that come and go, *)
(* and any rare events.  A turn of Process is looked at as what it makes   *)
(* of the members and of the peers' flags.                                 *)
(***************************************************************************)
EXTENDS MasternodePayments, MasternodeSync, FiniteSetTheorems, TLAPS

(* MasternodePayments *)

Counters == [Height -> [Payee \cup {Nobody} -> Nat]]

\* The counters bs are the numbers of the votes vs.
Matches(bs, vs) ==
  \A h \in Height, p \in Payee : bs[h][p] = Cardinality(VotesFor(vs, h, p))

\* A thread that counts a vote for a payee; the empty vote is for none.
Counts(t) == Busy(t) /\ adding[t].vote \notin Empty

\* Threads count different votes, all of them stored and young.
ThreadsOK ==
  /\ \A t \in Thread : Counts(t) => adding[t].vote \in votes
  /\ \A t, u \in Thread : t # u /\ Counts(t) /\ Counts(u) => adding[t].vote # adding[u].vote
  /\ \A t \in Thread : Counts(t) => tip - adding[t].vote.height <= Keep

FileOK == file # None => IsFiniteSet(file.votes) /\ Matches(file.blocks, file.votes)

CountInv ==
  /\ TypeOK
  /\ IsFiniteSet(votes)
  /\ ThreadsOK
  /\ FileOK
  /\ Matches(blocks, votes \ InFlight)

-----------------------------------------------------------------------------
\* A vote of type Vote is the empty one or for a payee.
LEMMA VoteShape ==
  ASSUME NEW v \in Vote
  PROVE  /\ v.mn \in Masternode /\ v.height \in Height /\ v.payee \in Payee \cup {Nobody}
         /\ v \in Empty => v.height = 0 /\ v.payee = Nobody /\ v.mn = Self
         /\ v \notin Empty => v.payee \in Payee
BY PaymentsAssumption DEF Vote, Winner, Empty, Height

\* What the votes of one height and payee are after one vote more.
LEMMA OneMore ==
  ASSUME NEW vs, IsFiniteSet(vs), NEW v, v \notin vs, NEW h, NEW p
  PROVE  /\ IsFiniteSet(VotesFor(vs, h, p))
         /\ Cardinality(VotesFor(vs \cup {v}, h, p)) =
              Cardinality(VotesFor(vs, h, p)) + (IF v.height = h /\ v.payee = p THEN 1 ELSE 0)
<1>1. IsFiniteSet(VotesFor(vs, h, p))
  BY FS_Subset DEF VotesFor
<1>2. Cardinality(VotesFor(vs, h, p)) \in Nat
  BY <1>1, FS_CardinalityType
<1>3. CASE v.height = h /\ v.payee = p
  <2>1. VotesFor(vs \cup {v}, h, p) = VotesFor(vs, h, p) \cup {v}
    BY <1>3 DEF VotesFor
  <2>2. v \notin VotesFor(vs, h, p)
    BY DEF VotesFor
  <2> DEFINE V == VotesFor(vs, h, p)
  <2>3. IsFiniteSet(V) /\ v \notin V
    BY <1>1, <2>2
  <2> HIDE DEF V
  <2>4. Cardinality(V \cup {v}) = Cardinality(V) + 1
    BY <2>3, FS_AddElement
  <2> USE DEF V
  <2>5. Cardinality(VotesFor(vs \cup {v}, h, p)) = Cardinality(VotesFor(vs, h, p)) + 1
    BY <2>1, <2>4
  <2> QED  BY <1>1, <1>3, <2>5
<1>4. CASE ~(v.height = h /\ v.payee = p)
  <2>1. VotesFor(vs \cup {v}, h, p) = VotesFor(vs, h, p)
    BY <1>4 DEF VotesFor
  <2> QED  BY <1>1, <1>2, <1>4, <2>1
<1> QED  BY <1>3, <1>4

\* The empty vote is in no counter of a payee.
LEMMA EmptyUncounted ==
  ASSUME NEW bs, NEW vs, NEW ws, vs \ Empty = ws \ Empty, Matches(bs, vs)
  PROVE  Matches(bs, ws)
<1> SUFFICES ASSUME NEW h, NEW p \in Payee
             PROVE  VotesFor(vs, h, p) = VotesFor(ws, h, p)
  BY DEF Matches
<1>1. \A v \in Empty : v.payee # p
  BY PaymentsAssumption DEF Empty, Winner
<1> QED  BY <1>1 DEF VotesFor

\* Removing old votes removes their counters and no others.
LEMMA CleanMatches ==
  ASSUME NEW bs \in Counters, NEW vs, NEW out, Matches(bs, vs \ out)
  PROVE  /\ KeptBlocks(vs, bs) \in Counters
         /\ Matches(KeptBlocks(vs, bs), KeptVotes(vs) \ out)
<1>1. NoVotes \in Counters
  BY DEF NoVotes, Counters
<1>2. KeptBlocks(vs, bs) \in Counters
  BY <1>1 DEF KeptBlocks, Counters
<1>3. ASSUME NEW h \in Height, NEW p \in Payee
      PROVE  KeptBlocks(vs, bs)[h][p] = Cardinality(VotesFor(KeptVotes(vs) \ out, h, p))
  <2>1. CASE ~Old(h)
    <3>1. VotesFor(KeptVotes(vs) \ out, h, p) = VotesFor(vs \ out, h, p)
      BY <2>1 DEF VotesFor, KeptVotes
    <3>2. KeptBlocks(vs, bs)[h] = bs[h]
      BY <2>1 DEF KeptBlocks
    <3> QED  BY <3>1, <3>2 DEF Matches
  <2>2. CASE Old(h)
    <3>1. VotesFor(KeptVotes(vs) \ out, h, p) = {}
      BY <2>2 DEF VotesFor, KeptVotes
    <3>2. CASE \E v \in vs : v.height = h
      <4>1. KeptBlocks(vs, bs)[h] = NoVotes[h]
        BY <2>2, <3>2 DEF KeptBlocks
      <4> QED  BY <3>1, <4>1, FS_EmptySet DEF NoVotes
    <3>3. CASE ~\E v \in vs : v.height = h
      <4>1. KeptBlocks(vs, bs)[h] = bs[h]
        BY <3>3 DEF KeptBlocks
      <4>2. VotesFor(vs \ out, h, p) = {}
        BY <3>3 DEF VotesFor
      <4> QED  BY <3>1, <4>1, <4>2 DEF Matches
    <3> QED  BY <3>2, <3>3
  <2> QED  BY <2>1, <2>2
<1> QED  BY <1>2, <1>3 DEF Matches

\* A vote that is stored and not counted changes no counter's meaning.
LEMMA StoreKeeps ==
  ASSUME CountInv, NEW t \in Thread, NEW v \in Vote, NEW block \in Nat,
         v \notin Empty => tip - v.height <= Keep,
         Unseen(v), Store(t, v, block), UNCHANGED <<tip, blocks, file>>
  PROVE  /\ votes' \subseteq Vote /\ IsFiniteSet(votes')
         /\ adding' \in [Thread -> [vote : Vote, block : Nat] \cup {None}]
         /\ ThreadsOK' /\ FileOK'
         /\ Matches(blocks, votes \ InFlight)'
<1> USE DEF CountInv, TypeOK, Busy, Counts
<1>1. IsFiniteSet(votes') /\ votes' \subseteq Vote
  BY FS_AddElement DEF Store
<1>2. adding' \in [Thread -> [vote : Vote, block : Nat] \cup {None}]
  BY DEF Store
<1>3. [vote |-> v, block |-> block] # None
  <2> DEFINE W == [mn : Masternode, height : Nat, payee : Payee \cup {Nobody}]
  <2>1. ASSUME v \in Winner(Masternode, Height, Payee)  PROVE v \in W
    BY <2>1 DEF Winner, Height
  <2>2. ASSUME v \in Empty  PROVE v \in W
    BY <2>2, PaymentsAssumption DEF Winner, Empty
  <2>3. v \in W
    BY <2>1, <2>2 DEF Vote
  <2>4. None \notin [vote : W, block : Nat]
    BY PaymentsAssumption
  <2> HIDE DEF W
  <2> QED  BY <2>3, <2>4
<1>4. Busy(t)' /\ adding'[t].vote = v /\ \A u \in Thread \ {t} : adding'[u] = adding[u]
  BY <1>3 DEF Store
<1>5. ThreadsOK'
  <2>1. ASSUME NEW u \in Thread, Counts(u)'
        PROVE  \/ u = t /\ adding'[u].vote = v /\ v \notin Empty
               \/ u # t /\ Counts(u) /\ adding'[u].vote = adding[u].vote
    <3>1. CASE u = t
      BY <1>4, <2>1, <3>1 DEF Empty
    <3>2. CASE u # t
      <4>1. adding'[u] = adding[u]
        BY <1>4, <3>2
      <4> QED  BY <2>1, <3>2, <4>1 DEF Empty
    <3> QED  BY <3>1, <3>2
  <2>2. v \notin votes /\ votes' = votes \cup {v}
    BY DEF Unseen, Store
  <2> QED  BY <2>1, <2>2 DEF ThreadsOK
<1>6. InFlight' = InFlight \cup {v}
  BY <1>4 DEF InFlight, Store
<1>7. votes' \ InFlight' = votes \ InFlight
  BY <1>6 DEF Store, Unseen
<1> QED  BY <1>1, <1>2, <1>5, <1>7 DEF FileOK, Matches

-----------------------------------------------------------------------------
LEMMA InitCount == Init => CountInv
<1> SUFFICES ASSUME Init PROVE CountInv
  OBVIOUS
<1> USE DEF Init
<1>1. NoVotes \in Counters
  BY DEF NoVotes, Counters
<1>2. Matches(NoVotes, {})
  <2>1. \A h, p : VotesFor({}, h, p) = {}
    BY DEF VotesFor
  <2> QED  BY <2>1, FS_EmptySet DEF Matches, NoVotes
<1>3. TypeOK
  <2>1. file \in File
    BY <1>1 DEF File, Counters
  <2>2. 0 \in 0 .. MaxRestarts
    BY PaymentsAssumption
  <2> QED  BY <1>1, <2>1, <2>2 DEF TypeOK, Counters
<1>4. votes \ InFlight = {} /\ IsFiniteSet(votes)
  BY FS_EmptySet
<1> QED  BY <1>2, <1>3, <1>4 DEF CountInv, ThreadsOK, FileOK, Busy, Counts

\* Reading a file gives counters that match its votes.
LEMMA StartKeeps ==
  ASSUME CountInv, NEW f \in File \cup {None}, file' = f, Start(f),
         f # None => IsFiniteSet(f.votes) /\ Matches(f.blocks, f.votes)
  PROVE  CountInv'
<1> DEFINE read == IF f = None THEN [votes |-> {}, blocks |-> NoVotes] ELSE f
<1> USE DEF CountInv
<1>1. NoVotes \in Counters
  BY DEF NoVotes, Counters
<1>2. /\ read.votes \in SUBSET Vote /\ read.blocks \in Counters
      /\ IsFiniteSet(read.votes) /\ Matches(read.blocks, read.votes \ {})
  <2>1. CASE f = None
    <3>1. \A h, p : VotesFor({}, h, p) = {}
      BY DEF VotesFor
    <3> QED  BY <1>1, <2>1, <3>1, FS_EmptySet DEF Matches, NoVotes
  <2>2. CASE f # None
    <3>1. f \in File /\ read = f /\ f.votes \ {} = f.votes
      BY <2>2
    <3> QED  BY <2>2, <3>1 DEF File, Counters
  <2> QED  BY <2>1, <2>2
<1>3. /\ KeptBlocks(read.votes, read.blocks) \in Counters
      /\ Matches(KeptBlocks(read.votes, read.blocks), KeptVotes(read.votes) \ {})
  BY <1>2, CleanMatches
<1>4. IsFiniteSet(KeptVotes(read.votes)) /\ KeptVotes(read.votes) \subseteq Vote
  BY <1>2, FS_Subset DEF KeptVotes
<1>5. \/ votes' = KeptVotes(read.votes) /\ blocks' = KeptBlocks(read.votes, read.blocks)
      \/ votes' = read.votes /\ blocks' = read.blocks
  BY DEF Start
<1>6. adding' = [t \in Thread |-> None] /\ UNCHANGED <<tip, made>> /\ hopped' = {}
      /\ lastVote' = [m \in Masternode |-> -1] /\ lastBlock' = 0
      /\ restarts < MaxRestarts /\ restarts' = restarts + 1
  BY DEF Start
<1>7. InFlight' = {} /\ ThreadsOK'
  BY <1>6 DEF InFlight, ThreadsOK, Busy, Counts
<1>8. votes' \subseteq Vote /\ IsFiniteSet(votes') /\ blocks' \in Counters
  BY <1>2, <1>3, <1>4, <1>5
<1>9. Matches(blocks, votes \ InFlight)'
  <2>1. Matches(blocks', votes' \ {})
    BY <1>2, <1>3, <1>5
  <2> QED  BY <1>7, <2>1 DEF Matches
<1>10. TypeOK'
  <2>1. restarts' \in 0 .. MaxRestarts
    BY <1>6, PaymentsAssumption DEF TypeOK
  <2> QED  BY <1>6, <1>8, <2>1 DEF TypeOK, Counters
<1>11. FileOK'
  BY DEF FileOK, Matches
<1> QED  BY <1>7, <1>8, <1>9, <1>10, <1>11

LEMMA NextCount == CountInv /\ [Next]_vars => CountInv'
<1> SUFFICES ASSUME CountInv, [Next]_vars PROVE CountInv'
  OBVIOUS
<1> USE DEF CountInv
<1>1. ASSUME NEW v \in Winner(Masternode, Height, Payee), ReceiveVote(v) PROVE CountInv'
  <2>1. v \in Vote /\ v.height \in Height /\ v.mn \in Masternode
    BY DEF Vote, Winner
  <2>2. tip - v.height <= Keep
    <3>1. v.height \in tip - Back .. tip + Far
      BY <1>1 DEF ReceiveVote, InRange
    <3>2. tip \in Nat /\ v.height \in Nat
      BY <2>1, PaymentsAssumption DEF TypeOK, Height
    <3>3. Back \in Nat /\ Keep \in Nat /\ Back <= Keep
      BY PaymentsAssumption
    <3> QED  BY <3>1, <3>2, <3>3
  <2>3. Store("Net", v, 0) /\ Unseen(v) /\ UNCHANGED <<tip, blocks, file>>
    BY <1>1 DEF ReceiveVote
  <2>4. /\ votes' \subseteq Vote /\ IsFiniteSet(votes')
        /\ adding' \in [Thread -> [vote : Vote, block : Nat] \cup {None}]
        /\ ThreadsOK' /\ FileOK' /\ Matches(blocks, votes \ InFlight)'
    BY <2>1, <2>2, <2>3, StoreKeeps DEF Thread
  <2>5. TypeOK'
    BY <1>1, <2>1, <2>4 DEF ReceiveVote, TypeOK, Noted, Hop
  <2> QED  BY <2>4, <2>5
<1>2. ASSUME NEW v \in Winner(Masternode, Height, Payee), SpendVote(v) PROVE CountInv'
  <2>1. v.height \in Height /\ v.mn \in Masternode
    BY DEF Winner
  <2>2. TypeOK'
    BY <1>2, <2>1 DEF SpendVote, TypeOK, Noted, Hop
  <2> QED  BY <1>2, <2>2 DEF SpendVote, ThreadsOK, FileOK, Matches, InFlight, Busy, Counts
<1>3. ASSUME NEW t \in Thread, OwnVote(t) PROVE CountInv'
  <2>1. PICK v \in Winner({Self}, {tip + Ahead}, Payee) \cup Empty :
          Unseen(v) /\ Store(t, v, tip + Ahead) /\ made' = made \cup {v}
    BY <1>3 DEF OwnVote
  <2>2. UNCHANGED <<tip, blocks, lastVote, lastBlock, file, restarts>> /\ tip + Ahead \in Height
        /\ hopped' \subseteq Masternode
    BY <1>3, PaymentsAssumption DEF OwnVote, TypeOK
  <2>3. v \in Vote /\ tip + Ahead \in Nat /\ (v \notin Empty => v.height = tip + Ahead)
    BY <2>1, <2>2, PaymentsAssumption DEF Vote, Winner, Height
  <2>4. v \notin Empty => tip - v.height <= Keep
    BY <2>3, PaymentsAssumption DEF TypeOK
  <2>5. /\ votes' \subseteq Vote /\ IsFiniteSet(votes')
        /\ adding' \in [Thread -> [vote : Vote, block : Nat] \cup {None}]
        /\ ThreadsOK' /\ FileOK' /\ Matches(blocks, votes \ InFlight)'
    BY <2>1, <2>2, <2>3, <2>4, StoreKeeps
  <2>6. TypeOK'
    BY <2>1, <2>2, <2>3, <2>5 DEF TypeOK
  <2> QED  BY <2>5, <2>6
<1>4. ASSUME NEW t \in Thread, CountVote(t) PROVE CountInv'
  <2> DEFINE v == adding[t].vote
  <2>1. Busy(t) /\ blocks' = Counted(v) /\ adding' = [adding EXCEPT ![t] = None]
        /\ UNCHANGED <<tip, votes, lastVote, file, made, hopped, restarts>>
    BY <1>4 DEF CountVote
  <2>2. v \in Vote /\ adding[t].block \in Nat
    BY <2>1 DEF TypeOK, Busy
  <2>3. v.height \in Height /\ v.payee \in Payee \cup {Nobody}
    BY <2>2, VoteShape
  <2>4. /\ blocks' \in Counters
        /\ \A h \in Height, p \in Payee :
             blocks'[h][p] = blocks[h][p] + (IF v.height = h /\ v.payee = p THEN 1 ELSE 0)
    <3>1. blocks \in Counters /\ blocks' = [blocks EXCEPT ![v.height][v.payee] = @ + 1]
      BY <2>1 DEF Counted, TypeOK, Counters
    <3>2. blocks[v.height] \in [Payee \cup {Nobody} -> Nat] /\ blocks[v.height][v.payee] + 1 \in Nat
      <4>1. \A h \in Height : blocks[h] \in [Payee \cup {Nobody} -> Nat]
        BY <3>1 DEF Counters
      <4>2. \A p \in Payee \cup {Nobody} : blocks[v.height][p] \in Nat
        BY <2>3, <4>1
      <4> QED  BY <2>3, <4>1, <4>2
    <3>3. blocks' \in Counters
      BY <2>3, <3>1, <3>2 DEF Counters
    <3>4. ASSUME NEW h \in Height, NEW p \in Payee
          PROVE  blocks'[h][p] = blocks[h][p] + (IF v.height = h /\ v.payee = p THEN 1 ELSE 0)
      <4>1. CASE h = v.height
        <5>1. blocks'[h] = [blocks[h] EXCEPT ![v.payee] = @ + 1]
          BY <3>1, <4>1 DEF Counters
        <5> DEFINE g == blocks[h]
        <5>2. g \in [Payee \cup {Nobody} -> Nat] /\ v.payee \in DOMAIN g
          BY <2>3, <3>2, <4>1
        <5>3. blocks'[h] = [g EXCEPT ![v.payee] = g[v.payee] + 1]
          BY <5>1
        <5> HIDE DEF g
        <5>4. blocks'[h][p] = IF p = v.payee THEN g[p] + 1 ELSE g[p]
          BY <5>2, <5>3
        <5>5. g[p] \in Nat
          BY <5>2
        <5> QED  BY <4>1, <5>4, <5>5 DEF g
      <4>2. CASE h # v.height
        <5>1. blocks'[h] = blocks[h] /\ blocks[h][p] \in Nat
          BY <3>1, <4>2 DEF Counters
        <5> QED  BY <4>2, <5>1
      <4> QED  BY <4>1, <4>2
    <3> QED  BY <3>3, <3>4
  <2>5. InFlight' = {adding[u].vote : u \in {w \in Thread \ {t} : Busy(w)}}
        /\ InFlight = InFlight' \cup {v}
    BY <2>1 DEF InFlight, Busy, TypeOK
  <2>6. ASSUME v \in Empty PROVE Matches(blocks, votes \ InFlight)'
    <3>1. (votes \ InFlight)' \ Empty = (votes \ InFlight) \ Empty
      BY <2>1, <2>5, <2>6
    <3>2. \A p \in Payee : v.payee # p
      BY <2>2, <2>6, VoteShape, PaymentsAssumption
    <3>3. \A h \in Height, p \in Payee : blocks'[h][p] = blocks[h][p]
      BY <2>4, <3>2 DEF TypeOK
    <3>4. Matches(blocks', votes \ InFlight)
      BY <3>3 DEF Matches
    <3>5. Matches(blocks', votes' \ InFlight')
      BY <3>1, <3>4, EmptyUncounted
    <3> QED  BY <3>5 DEF Matches
  <2>7. ASSUME v \notin Empty PROVE Matches(blocks, votes \ InFlight)'
    <3>1. v \in votes /\ \A u \in Thread \ {t} : Busy(u) => adding[u].vote # v
      BY <2>1, <2>7 DEF ThreadsOK, Counts
    <3>2. votes' \ InFlight' = (votes \ InFlight) \cup {v} /\ v \notin votes \ InFlight
      BY <2>1, <2>5, <3>1
    <3>3. IsFiniteSet(votes \ InFlight)
      BY FS_Subset
    <3> SUFFICES ASSUME NEW h \in Height, NEW p \in Payee
                 PROVE  blocks'[h][p] = Cardinality(VotesFor((votes \ InFlight) \cup {v}, h, p))
      BY <3>2 DEF Matches
    <3>4. Cardinality(VotesFor((votes \ InFlight) \cup {v}, h, p)) =
            Cardinality(VotesFor(votes \ InFlight, h, p))
              + (IF v.height = h /\ v.payee = p THEN 1 ELSE 0)
      BY <3>2, <3>3, OneMore
    <3> QED  BY <2>4, <3>4 DEF Matches
  <2>8. TypeOK'
    BY <1>4, <2>1, <2>2, <2>4 DEF TypeOK, Counters, CountVote
  <2>9. ThreadsOK' /\ FileOK'
    <3>1. \A u \in Thread : Counts(u)' => u # t /\ Counts(u) /\ adding'[u] = adding[u]
      BY <2>1 DEF Counts, Busy, TypeOK
    <3> QED  BY <2>1, <3>1 DEF ThreadsOK, FileOK, Matches
  <2> QED  BY <2>1, <2>6, <2>7, <2>8, <2>9
<1>5. CASE MoveTip
  <2>1. TypeOK' /\ ThreadsOK'
    BY <1>5 DEF MoveTip, memory, TypeOK, ThreadsOK, Busy, Counts
  <2> QED  BY <1>5, <2>1 DEF MoveTip, memory, FileOK, Matches, InFlight, Busy
<1>6. CASE CleanPaymentList
  <2>1. votes' = KeptVotes(votes) /\ blocks' = KeptBlocks(votes, blocks)
        /\ UNCHANGED <<tip, lastVote, lastBlock, adding, file, made, hopped, restarts>>
    BY <1>6 DEF CleanPaymentList
  <2> DEFINE out == InFlight
  <2>2. \A t \in Thread : Counts(t) => ~Old(adding[t].vote.height)
    <3>1. \A t \in Thread : Counts(t) => adding[t].vote.height \in Nat /\ tip - adding[t].vote.height <= Keep
      BY VoteShape DEF TypeOK, Height, ThreadsOK, Counts, Busy
    <3> QED  BY <3>1, PaymentsAssumption DEF Old, TypeOK
  <2>3. blocks' \in Counters /\ Matches(blocks', votes' \ out)
    BY <2>1, CleanMatches DEF TypeOK, Counters
  <2>4. Matches(blocks, votes \ InFlight)'
    BY <2>1, <2>3 DEF Matches, InFlight, Busy
  <2>5. IsFiniteSet(votes') /\ votes' \subseteq Vote
    BY <2>1, FS_Subset DEF KeptVotes, TypeOK
  <2>6. TypeOK'
    BY <2>1, <2>3, <2>5 DEF TypeOK, Counters
  <2>7. ThreadsOK'
    BY <2>1, <2>2 DEF ThreadsOK, Busy, Counts, KeptVotes
  <2>8. FileOK'
    BY <2>1 DEF FileOK, Matches
  <2> QED  BY <2>4, <2>5, <2>6, <2>7, <2>8
<1>7. CASE Restart
  <2>1. file' = Dumped /\ Start(file') /\ InFlight = {}
    BY <1>7 DEF Restart, InFlight
  <2>2. Dumped \in File \cup {None} /\ votes \ {} = votes
    BY DEF Dumped, File, TypeOK
  <2>3. Dumped # None => IsFiniteSet(Dumped.votes) /\ Matches(Dumped.blocks, Dumped.votes)
    BY <2>1, <2>2 DEF Dumped, Matches
  <2> QED  BY <2>1, <2>2, <2>3, StartKeeps
<1>8. CASE Crash
  BY <1>8, StartKeeps DEF Crash, TypeOK, FileOK
<1>9. CASE CrashInDump
  BY <1>9, StartKeeps DEF CrashInDump
<1>10. CASE UNCHANGED vars
  <2>1. /\ tip' = tip /\ votes' = votes /\ blocks' = blocks /\ lastVote' = lastVote
        /\ lastBlock' = lastBlock /\ adding' = adding /\ file' = file /\ made' = made
        /\ hopped' = hopped /\ restarts' = restarts
    BY <1>10 DEF vars, memory
  <2>2. TypeOK' /\ ThreadsOK' /\ InFlight' = InFlight
    BY <2>1 DEF TypeOK, ThreadsOK, InFlight, Busy, Counts
  <2>3. FileOK' /\ Matches(blocks, votes \ InFlight)'
    BY <2>1, <2>2 DEF FileOK, Matches
  <2> QED  BY <2>1, <2>2, <2>3
<1> QED  BY <1>1, <1>2, <1>3, <1>4, <1>5, <1>6, <1>7, <1>8, <1>9, <1>10 DEF Next

\* Every state has the types, and the counters follow the votes, whatever the order in
\* which votes arrive, are removed, dumped and read.
LEMMA CountCorrect == Spec => []CountInv
BY InitCount, NextCount, PTL DEF Spec

\* Every variable keeps its type.
THEOREM TypeCorrect == Spec => []TypeOK
BY CountCorrect, PTL DEF CountInv

\* For any masternodes, payees and heights, the votes a payee is credited with are the
\* votes stored for it that no thread has still to count.
THEOREM TallyCorrect == Spec => []TallyIsVotes
<1>1. CountInv => TallyIsVotes
  BY DEF CountInv, Matches, TallyIsVotes
<1> QED  BY <1>1, CountCorrect, PTL

-----------------------------------------------------------------------------
(* Who may vote twice, while the node has not been started again. *)

\* A masternode that voted for one height only has one vote, at the height that is
\* remembered of it.
OthersOK ==
  \A m \in Masternode \ ({Self} \cup hopped) : \A v, w \in votes :
    v.mn = m /\ w.mn = m => v = w /\ lastVote[m] = v.height

OwnInFlight(t) == Busy(t) /\ adding[t].block > 0

\* This node's votes are for heights it noted or is about to note, and one thread at a
\* time is in ProcessBlock.
SelfOK ==
  Self \notin hopped =>
    /\ \A v, w \in made : v.height = w.height => v = w
    /\ \A v \in made : v \notin Empty => v.height > 0
    /\ \A v \in made : \/ v \in Empty
                       \/ v.height <= lastBlock
                       \/ \E t \in Thread : OwnInFlight(t) /\ adding[t].block = v.height
    /\ \A t, u \in Thread : OwnInFlight(t) /\ OwnInFlight(u) => t = u
    /\ \A t \in Thread : OwnInFlight(t) => adding[t].block > lastBlock

SingleInv ==
  /\ CountInv
  /\ \A v \in votes : restarts = 0 /\ v.mn = Self => v \in made
  /\ restarts = 0 => OthersOK /\ SelfOK

LEMMA InitSingle == Init => SingleInv
<1> SUFFICES ASSUME Init PROVE SingleInv
  OBVIOUS
<1>1. CountInv
  BY InitCount
<1> QED  BY <1>1 DEF Init, SingleInv, OthersOK, SelfOK, OwnInFlight, Busy

\* A vote noted by CanVote marks its masternode, or is its first.
LEMMA NotedOthers ==
  ASSUME TypeOK, restarts = 0, OthersOK, NEW v \in Winner(Masternode, Height, Payee),
         CanVote(v), lastVote' = Noted(v), Hop(v),
         votes' = votes \cup {v} \/ votes' = votes
  PROVE  OthersOK' /\ hopped \subseteq hopped'
<1>1. v.mn \in Masternode /\ v.height \in Height
  BY DEF Winner
<1>2. hopped' = IF lastVote[v.mn] \notin {-1, v.height} THEN hopped \cup {v.mn} ELSE hopped
  BY DEF Hop
<1>3. ASSUME NEW m \in Masternode \ ({Self} \cup hopped'), NEW x \in votes', NEW y \in votes',
             x.mn = m, y.mn = m
      PROVE  x = y /\ lastVote'[m] = x.height
  <2>1. m \notin hopped /\ m \in Masternode \ ({Self} \cup hopped)
    BY <1>2, <1>3
  <2>2. CASE m # v.mn
    <3>1. x \in votes /\ y \in votes
      BY <1>3, <2>2
    <3>2. lastVote'[m] = lastVote[m]
      BY <1>1, <2>1, <2>2 DEF Noted, TypeOK
    <3> QED  BY <1>3, <2>1, <3>1, <3>2 DEF OthersOK
  <2>3. CASE m = v.mn
    <3>1. lastVote[m] = -1
      BY <1>2, <1>3, <2>1, <2>3 DEF CanVote
    <3>2. \A z \in votes : z.mn # m
      <4> SUFFICES ASSUME NEW z \in votes, z.mn = m PROVE FALSE
        OBVIOUS
      <4>1. lastVote[m] = z.height
        BY <2>1 DEF OthersOK
      <4>2. z.height \in Nat
        BY VoteShape DEF TypeOK, Height
      <4> QED  BY <3>1, <4>1, <4>2
    <3>3. x = v /\ y = v
      BY <1>3, <3>2
    <3>4. lastVote'[m] = v.height
      BY <1>1, <2>3 DEF Noted, TypeOK
    <3> QED  BY <3>3, <3>4
  <2> QED  BY <2>2, <2>3
<1> QED  BY <1>2, <1>3 DEF OthersOK

\* What a thread of this node is counting is not the absence of a vote.
LEMMA OwnIsNotNone ==
  ASSUME NEW v \in Winner({Self}, {tip + Ahead}, Payee) \cup Empty, tip + Ahead \in Height
  PROVE  [vote |-> v, block |-> tip + Ahead] # None
<1>1. v \in [mn : Masternode, height : Nat, payee : Payee \cup {Nobody}] /\ tip + Ahead \in Nat
  BY PaymentsAssumption DEF Winner, Empty, Height
<1> QED  BY <1>1, PaymentsAssumption

LEMMA NextSingle == SingleInv /\ [Next]_vars => SingleInv'
<1> SUFFICES ASSUME SingleInv, [Next]_vars PROVE SingleInv'
  OBVIOUS
<1> USE DEF SingleInv
<1>1. CountInv' /\ TypeOK /\ TypeOK'
  BY NextCount DEF CountInv
<1>2. ASSUME NEW v \in Winner(Masternode, Height, Payee), ReceiveVote(v) PROVE SingleInv'
  <2>1. /\ CanVote(v) /\ lastVote' = Noted(v) /\ Hop(v) /\ votes' = votes \cup {v}
        /\ (v.mn = Self => v \in made) /\ UNCHANGED <<lastBlock, made, restarts>>
        /\ ~Busy("Net") /\ adding' = [adding EXCEPT !["Net"] = [vote |-> v, block |-> 0]]
    BY <1>2 DEF ReceiveVote, Store
  <2>2. restarts = 0 => OthersOK' /\ hopped \subseteq hopped'
    BY <1>1, <2>1, NotedOthers
  <2>3. \A t \in Thread : OwnInFlight(t)' => OwnInFlight(t) /\ adding'[t] = adding[t]
    BY <1>1, <2>1 DEF OwnInFlight, Busy, TypeOK
  <2>4. \A t \in Thread : OwnInFlight(t) => OwnInFlight(t)' /\ adding'[t] = adding[t]
    BY <1>1, <2>1 DEF OwnInFlight, Busy, TypeOK
  <2>5. restarts = 0 => SelfOK'
    BY <2>1, <2>2, <2>3, <2>4 DEF SelfOK
  <2> QED  BY <1>1, <2>1, <2>2, <2>5
<1>3. ASSUME NEW v \in Winner(Masternode, Height, Payee), SpendVote(v) PROVE SingleInv'
  <2>1. /\ CanVote(v) /\ lastVote' = Noted(v) /\ Hop(v)
        /\ UNCHANGED <<votes, lastBlock, made, restarts, adding>>
    BY <1>3 DEF SpendVote
  <2>2. restarts = 0 => OthersOK' /\ hopped \subseteq hopped'
    BY <1>1, <2>1, NotedOthers
  <2>3. restarts = 0 => SelfOK'
    BY <2>1, <2>2 DEF SelfOK, OwnInFlight, Busy
  <2> QED  BY <1>1, <2>1, <2>2, <2>3
<1>4. ASSUME NEW t \in Thread, OwnVote(t) PROVE SingleInv'
  <2>1. PICK v \in Winner({Self}, {tip + Ahead}, Payee) \cup Empty :
          Store(t, v, tip + Ahead) /\ made' = made \cup {v}
    BY <1>4 DEF OwnVote
  <2>2. /\ UNCHANGED <<lastVote, lastBlock, restarts>> /\ tip + Ahead \in Height /\ tip + Ahead > lastBlock
        /\ hopped' = IF restarts = 0 /\ \E u \in Thread : OwnInFlight(u)
                     THEN hopped \cup {Self} ELSE hopped
    BY <1>4 DEF OwnVote, OwnInFlight
  <2>3. votes' = votes \cup {v} /\ v.mn = Self /\ ~Busy(t)
        /\ adding' = [adding EXCEPT ![t] = [vote |-> v, block |-> tip + Ahead]]
    BY <2>1 DEF Store, Winner, Empty
  <2>4. restarts = 0 => OthersOK'
    BY <2>2, <2>3 DEF OthersOK
  <2>5. ASSUME restarts = 0, Self \notin hopped'
        PROVE  SelfOK'
    <3>1. Self \notin hopped /\ \A u \in Thread : ~OwnInFlight(u)
      BY <2>2, <2>5
    <3>2. \A x \in made : x \in Empty \/ x.height <= lastBlock
      BY <2>5, <3>1 DEF SelfOK
    <3>3. tip + Ahead \in Nat /\ lastBlock \in Nat /\ tip + Ahead > 0
      BY <1>1, <2>2 DEF TypeOK, Height
    <3>4. v \in Empty \/ v.height = tip + Ahead
      BY <2>1 DEF Winner
    <3>5. \A x, y \in Empty : x = y /\ x.height = 0
      BY DEF Empty, Winner
    <3>6. \A x \in made : x.height \in Nat
      BY <1>1, VoteShape DEF TypeOK, Height
    <3>7. \A x \in made : x.height = v.height => x = v
      <4>1. CASE v \in Empty
        <5>1. \A x \in made : x.height = 0 => x \in Empty
          BY <2>5, <3>1, <3>6 DEF SelfOK
        <5> QED  BY <3>5, <4>1, <5>1
      <4>2. CASE v \notin Empty
        BY <2>2, <3>2, <3>3, <3>4, <3>5, <3>6, <4>2
      <4> QED  BY <4>1, <4>2
    <3>8. \A x, y \in made' : x.height = y.height => x = y
      BY <2>1, <2>5, <3>1, <3>7 DEF SelfOK
    <3>9. \A x \in made' : x \notin Empty => x.height > 0
      BY <2>1, <2>5, <3>1, <3>3, <3>4 DEF SelfOK
    <3>10. OwnInFlight(t)' /\ adding'[t].block = tip + Ahead /\ \A u \in Thread \ {t} : ~OwnInFlight(u)'
      <4>1. adding'[t] = [vote |-> v, block |-> tip + Ahead] /\ \A u \in Thread \ {t} : adding'[u] = adding[u]
        BY <1>1, <2>3 DEF TypeOK
      <4>2. adding'[t] # None
        BY <1>1, <2>1, <2>2, <3>3, <4>1, OwnIsNotNone
      <4> QED  BY <3>1, <3>3, <4>1, <4>2 DEF OwnInFlight, Busy
    <3>11. \A x \in made' : \/ x \in Empty
                             \/ x.height <= lastBlock'
                             \/ \E u \in Thread : OwnInFlight(u)' /\ adding'[u].block = x.height
      BY <2>1, <2>2, <3>2, <3>4, <3>10
    <3> QED  BY <2>2, <3>8, <3>9, <3>10, <3>11 DEF SelfOK
  <2>6. \A x \in votes' : restarts' = 0 /\ x.mn = Self => x \in made'
    BY <2>1, <2>2, <2>3
  <2> QED  BY <1>1, <2>2, <2>4, <2>5, <2>6 DEF SelfOK
<1>5. ASSUME NEW t \in Thread, CountVote(t) PROVE SingleInv'
  <2>1. /\ Busy(t) /\ adding' = [adding EXCEPT ![t] = None]
        /\ lastBlock' = IF adding[t].block > 0 THEN adding[t].block ELSE lastBlock
        /\ UNCHANGED <<votes, lastVote, made, hopped, restarts>>
    BY <1>5 DEF CountVote
  <2>2. restarts = 0 => OthersOK'
    BY <2>1 DEF OthersOK
  <2>3. ASSUME restarts = 0, Self \notin hopped
        PROVE  SelfOK'
    <3>1. adding'[t] = None /\ \A u \in Thread \ {t} : adding'[u] = adding[u]
      BY <1>1, <2>1 DEF TypeOK
    <3>2. ~OwnInFlight(t)' /\ \A u \in Thread \ {t} : OwnInFlight(u)' <=> OwnInFlight(u)
      BY <3>1 DEF OwnInFlight, Busy
    <3>3. CASE OwnInFlight(t)
      <4>1. lastBlock' = adding[t].block /\ lastBlock' > lastBlock /\ lastBlock \in Nat /\ lastBlock' \in Nat
        BY <1>1, <2>1, <2>3, <3>3 DEF OwnInFlight, SelfOK, TypeOK
      <4>2. \A u \in Thread : ~OwnInFlight(u)'
        BY <2>3, <3>2, <3>3 DEF SelfOK
      <4>3. \A x \in made : x \in Empty \/ x.height <= lastBlock \/ x.height = lastBlock'
        BY <2>3, <3>3, <4>1 DEF SelfOK
      <4>4. \A x \in made : x.height \in Nat
        BY <1>1, VoteShape DEF TypeOK, Height
      <4>5. \A x \in made : x \in Empty \/ x.height <= lastBlock'
        BY <4>1, <4>3, <4>4
      <4> QED  BY <2>1, <2>3, <4>2, <4>5 DEF SelfOK
    <3>4. CASE ~OwnInFlight(t)
      <4>1. lastBlock' = lastBlock
        BY <2>1, <3>4 DEF OwnInFlight
      <4>2. \A u \in Thread : OwnInFlight(u)' <=> OwnInFlight(u)
        BY <3>2, <3>4
      <4>3. \A u \in Thread : OwnInFlight(u) => adding'[u] = adding[u]
        BY <3>1, <3>4
      <4> QED  BY <2>1, <2>3, <4>1, <4>2, <4>3 DEF SelfOK
    <3> QED  BY <3>3, <3>4
  <2> QED  BY <1>1, <2>1, <2>2, <2>3 DEF SelfOK
<1>6. CASE MoveTip \/ UNCHANGED vars
  BY <1>1, <1>6 DEF MoveTip, vars, memory, OthersOK, SelfOK, OwnInFlight, Busy
<1>7. CASE CleanPaymentList
  <2>1. votes' \subseteq votes /\ UNCHANGED <<lastVote, lastBlock, adding, made, hopped, restarts>>
    BY <1>7 DEF CleanPaymentList, KeptVotes
  <2> QED  BY <1>1, <2>1 DEF OthersOK, SelfOK, OwnInFlight, Busy
<1>8. CASE Restart \/ Crash \/ CrashInDump
  <2>1. restarts' = restarts + 1 /\ restarts \in Nat
    BY <1>1, <1>8 DEF Restart, Crash, CrashInDump, Start, TypeOK
  <2> QED  BY <1>1, <2>1
<1> QED  BY <1>2, <1>3, <1>4, <1>5, <1>6, <1>7, <1>8 DEF Next

\* For any masternodes, payees and heights, a masternode has two votes for one height
\* only if it voted for another height in between, if this node was started again, or
\* if it is this node and two threads voted at once.
THEOREM SingleCorrect == Spec => []VotesAreSingle
<1>1. SingleInv => VotesAreSingle
  <2> SUFFICES ASSUME SingleInv, NEW m \in Masternode, NEW h \in Height,
                      VotesTwice(m, h), ~MayVoteTwice(m)
               PROVE  FALSE
    BY DEF VotesAreSingle
  <2>1. PICK v, w \in votes : v # w /\ v.mn = m /\ w.mn = m /\ v.height = h /\ w.height = h
    BY DEF VotesTwice
  <2>2. restarts = 0 /\ m \notin hopped
    BY DEF MayVoteTwice, SingleInv, CountInv, TypeOK
  <2>3. CASE m = Self
    BY <2>1, <2>2, <2>3 DEF SingleInv, SelfOK
  <2>4. CASE m # Self
    BY <2>1, <2>2, <2>4 DEF SingleInv, OthersOK
  <2> QED  BY <2>3, <2>4
<1> QED  BY <1>1, InitSingle, NextSingle, PTL DEF Spec

-----------------------------------------------------------------------------
\* Two payees cannot both have the required votes of masternodes that vote once, unless
\* there are as many of them as that takes.
LEMMA PigeonHole ==
  ASSUME CountInv, NEW h \in Height, NEW p \in Payee, NEW q \in Payee, p # q,
         blocks[h][p] >= Required, blocks[h][q] >= Required,
         ~(Cardinality(Voters(h)) >= 2 * Required)
  PROVE  \E m \in Masternode : VotesTwice(m, h)
<1> DEFINE counted == votes \ InFlight
           P == VotesFor(counted, h, p)
           Q == VotesFor(counted, h, q)
<1>1. IsFiniteSet(P) /\ IsFiniteSet(Q)
  BY FS_Subset DEF VotesFor, CountInv
<1>2. Cardinality(P) >= Required /\ Cardinality(Q) >= Required
  BY DEF CountInv, Matches
<1>3. P \cap Q = {}
  BY DEF VotesFor
<1>4. Cardinality(P \cup Q) = Cardinality(P) + Cardinality(Q) /\ IsFiniteSet(P \cup Q)
  <2>1. /\ IsFiniteSet(P \cup Q)
        /\ Cardinality(P \cup Q) = Cardinality(P) + Cardinality(Q) - Cardinality(P \cap Q)
    BY <1>1, FS_Union
  <2>2. Cardinality(P \cap Q) = 0
    BY <1>3, FS_EmptySet
  <2>3. Cardinality(P) \in Nat /\ Cardinality(Q) \in Nat
    BY <1>1, FS_CardinalityType
  <2> HIDE DEF P, Q
  <2> QED  BY <2>1, <2>2, <2>3
<1>5. Voters(h) \subseteq Masternode /\ IsFiniteSet(Voters(h))
  <2>1. Voters(h) \subseteq Masternode
    BY VoteShape DEF Voters, CountInv, TypeOK
  <2>2. IsFiniteSet(Masternode)
    BY PaymentsAssumption
  <2> QED  BY <2>1, <2>2, FS_Subset
<1>6. Cardinality(Voters(h)) < Cardinality(P \cup Q)
  <2>1. /\ Cardinality(P) \in Nat /\ Cardinality(Q) \in Nat /\ Cardinality(Voters(h)) \in Nat
        /\ Required \in Nat
    BY <1>1, <1>5, FS_CardinalityType, PaymentsAssumption
  <2> HIDE DEF P, Q
  <2> QED  BY <1>2, <1>4, <2>1
<1> DEFINE voter == [v \in P \cup Q |-> v.mn]
<1>7. voter \in [P \cup Q -> Voters(h)]
  BY DEF VotesFor, Voters
<1> HIDE DEF voter
<1>8. PICK v \in P \cup Q, w \in P \cup Q : v # w /\ voter[v] = voter[w]
  <2> DEFINE S == P \cup Q
  <2>1. IsFiniteSet(S) /\ Cardinality(Voters(h)) < Cardinality(S) /\ voter \in [S -> Voters(h)]
    BY <1>4, <1>6, <1>7
  <2> HIDE DEF S
  <2>2. \E x, y \in S : x # y /\ voter[x] = voter[y]
    BY <1>5, <2>1, FS_PigeonHole
  <2> QED  BY <2>2 DEF S
<1>9. v.mn = w.mn /\ v.mn \in Masternode
  BY <1>5, <1>7, <1>8 DEF voter
<1>10. v \in votes /\ w \in votes /\ v.height = h /\ w.height = h
  BY DEF VotesFor
<1> QED  BY <1>8, <1>9, <1>10 DEF VotesTwice

\* For any masternodes and any number that is required, a block has to pay two payees
\* only if a masternode voted twice for its height, or if the votes of twice as many as
\* are required were taken.
THEOREM UniqueCorrect == Spec => []RequiredPayeeIsUnique
<1>1. CountInv => RequiredPayeeIsUnique
  BY PigeonHole DEF RequiredPayeeIsUnique
<1> QED  BY <1>1, CountCorrect, PTL

-------------------------------------------------------------------------------
(* MasternodeSync *)

LEMMA ConcatIs ==
  ASSUME NEW S, NEW a \in Seq(S), NEW b \in Seq(S), NEW k \in DOMAIN (a \o b)
  PROVE  /\ k \in 1 .. Len(a) + Len(b)
         /\ k <= Len(a) => (a \o b)[k] = a[k]
         /\ ~(k <= Len(a)) => (a \o b)[k] = b[k - Len(a)]
OBVIOUS

Member == [stage : Stages, attempt : Nat, started : Nat, failure : Nat,
           last : [Kind -> Nat \cup {Never}], open : [Kind -> Nat], skipped : SUBSET Stages]
Peer == [current : BOOLEAN, asked : SUBSET Request]

\* The flags of the peers are among S.
AskedOnly(nodes, S) == \A i \in DOMAIN nodes : nodes[i].asked \subseteq S

\* A stage after the list has one, and one after the winners has some, unless they were
\* given up without enforcement.
HasAssets(s) ==
  /\ s.stage \in {"winner", "budget", "finished"} => s.last["list"] # Never \/ "list" \in s.skipped
  /\ s.stage \in {"budget", "finished"} => s.last["winner"] # Never \/ "winner" \in s.skipped

FlagsOf(stage) ==
  CASE stage = "sporks" -> {"getspork"}
    [] stage = "list" -> {"getspork", "mnsync"}
    [] stage = "winner" -> {"getspork", "mnsync", "mnwsync"}
    [] OTHER -> Request

FlagsFit(stage, nodes, events) == events["uncleared"] = 0 => AskedOnly(nodes, FlagsOf(stage))

SyncInv == SyncTypeOK /\ HasAssets(sync) /\ FlagsFit(sync.stage, vNodes, spent)

-----------------------------------------------------------------------------
LEMMA FreshType == Fresh \in Member
BY DEF Fresh, Member, Stages

LEMMA NextAssetType ==
  ASSUME NEW s \in Member, s.stage \in DOMAIN After
  PROVE  /\ GetNextAsset(s) \in Member /\ GetNextAsset(s).stage = After[s.stage]
         /\ GetNextAsset(s).last = s.last /\ GetNextAsset(s).skipped = s.skipped
<1>1. After[s.stage] \in Stages
  BY DEF After, Stages
<1>2. PICK stage \in Stages : stage = After[s.stage]
  BY <1>1
<1>3. GetNextAsset(s) = [s EXCEPT !.stage = stage, !.attempt = 0, !.started = 0]
  BY <1>2 DEF GetNextAsset
<1>4. GetNextAsset(s) = [stage |-> stage, attempt |-> 0, started |-> 0, failure |-> s.failure,
                         last |-> s.last, open |-> s.open, skipped |-> s.skipped]
  BY <1>3 DEF Member
<1> QED  BY <1>2, <1>4 DEF Member

LEMMA AttemptType ==
  ASSUME NEW s \in Member
  PROVE  /\ [s EXCEPT !.attempt = @ + 1] \in Member
         /\ [s EXCEPT !.attempt = @ + 1].stage = s.stage
         /\ [s EXCEPT !.attempt = @ + 1].last = s.last
         /\ [s EXCEPT !.attempt = @ + 1].skipped = s.skipped
<1>1. [s EXCEPT !.attempt = @ + 1] =
        [stage |-> s.stage, attempt |-> s.attempt + 1, started |-> s.started,
         failure |-> s.failure, last |-> s.last, open |-> s.open, skipped |-> s.skipped]
  BY DEF Member
<1> QED  BY <1>1 DEF Member

\* A sequence of peers is a function whose values are peers.
LEMMA PeersAre ==
  ASSUME NEW nodes \in Seq(Peer)
  PROVE  /\ DOMAIN nodes = 1 .. Len(nodes) /\ Len(nodes) \in Nat
         /\ \A i \in 1 .. Len(nodes) : nodes[i] \in Peer
OBVIOUS

LEMMA PeersFrom ==
  ASSUME NEW n \in Nat, NEW f, f = [i \in 1 .. n |-> f[i]], \A i \in 1 .. n : f[i] \in Peer
  PROVE  f \in Seq(Peer)
OBVIOUS

LEMMA MarkedType ==
  ASSUME NEW nodes \in Seq(Peer), NEW i, NEW request \in Request, NEW S, AskedOnly(nodes, S)
  PROVE  /\ Marked(nodes, i, request) \in Seq(Peer)
         /\ AskedOnly(Marked(nodes, i, request), S \cup {request})
<1> DEFINE after == Marked(nodes, i, request)
<1>1. DOMAIN nodes = 1 .. Len(nodes) /\ Len(nodes) \in Nat /\ \A j \in 1 .. Len(nodes) : nodes[j] \in Peer
  BY PeersAre
<1>2. /\ after = [j \in 1 .. Len(nodes) |-> after[j]]
      /\ \A j \in 1 .. Len(nodes) : after[j] = nodes[j] \/
           after[j] = [nodes[j] EXCEPT !.asked = @ \cup {request}]
  BY <1>1 DEF Marked
<1>3. \A j \in 1 .. Len(nodes) : after[j] \in Peer /\ after[j].asked \subseteq S \cup {request}
  <2> SUFFICES ASSUME NEW j \in 1 .. Len(nodes)
               PROVE  after[j] \in Peer /\ after[j].asked \subseteq S \cup {request}
    OBVIOUS
  <2>1. nodes[j] \in Peer /\ nodes[j].asked \subseteq S
    BY <1>1 DEF AskedOnly
  <2>2. after[j] = nodes[j] \/ after[j] = [nodes[j] EXCEPT !.asked = @ \cup {request}]
    BY <1>2
  <2> HIDE DEF after
  <2> QED  BY <2>1, <2>2 DEF Peer
<1> HIDE DEF after
<1>4. after \in Seq(Peer)
  BY <1>1, <1>2, <1>3, PeersFrom
<1>5. AskedOnly(after, S \cup {request})
  BY <1>2, <1>3 DEF AskedOnly
<1> QED  BY <1>4, <1>5 DEF after

LEMMA ClearedType ==
  ASSUME SyncTypeOK
  PROVE  Cleared \in Seq(Peer) /\ AskedOnly(Cleared, {})
<1>1. vNodes \in Seq(Peer)
  BY DEF SyncTypeOK, Peer
<1>2. DOMAIN vNodes = 1 .. Len(vNodes) /\ Len(vNodes) \in Nat /\ \A j \in 1 .. Len(vNodes) : vNodes[j] \in Peer
  BY <1>1, PeersAre
<1>3. Cleared = [i \in 1 .. Len(vNodes) |-> [vNodes[i] EXCEPT !.asked = {}]]
  BY <1>2 DEF Cleared
<1>4. \A i \in 1 .. Len(vNodes) : Cleared[i] \in Peer /\ Cleared[i].asked = {}
  BY <1>2, <1>3 DEF Peer
<1>5. Cleared \in Seq(Peer)
  BY <1>2, <1>3, <1>4, PeersFrom
<1> QED  BY <1>3, <1>4, <1>5 DEF AskedOnly

LEMMA SpendType ==
  ASSUME SyncTypeOK, NEW event \in Rare, Spend(event)
  PROVE  /\ spent' \in [Rare -> Nat]
         /\ spent'["uncleared"] = 0 => spent["uncleared"] = 0 /\ event # "uncleared"
BY DEF SyncTypeOK, Spend, Rare

\* The invariant of a turn follows from what it makes of the members and the flags.
TurnFits(s, nodes) ==
  /\ s \in Member /\ nodes \in Seq(Peer)
  /\ HasAssets(s)
  /\ spent'["uncleared"] = 0 => AskedOnly(nodes, FlagsOf(s.stage))

\* Asking for sporks, in the sporks stage, fits it.
LEMMA AskSporksFits ==
  ASSUME NEW s \in Member, s.stage = "sporks", NEW nodes \in Seq(Peer),
         spent'["uncleared"] = 0 => AskedOnly(nodes, {"getspork"}),
         AskSporks(s, nodes)
  PROVE  TurnFits(sync', vNodes')
<1>1. CASE sync' = s /\ vNodes' = nodes
  BY <1>1 DEF TurnFits, HasAssets, FlagsOf
<1>2. CASE /\ sync' = [(IF s.attempt >= THRESHOLD THEN GetNextAsset(s) ELSE s) EXCEPT !.attempt = @ + 1]
           /\ \E i : vNodes' = Marked(nodes, i, "getspork")
  <2>1. PICK r : r = IF s.attempt >= THRESHOLD THEN GetNextAsset(s) ELSE s
    OBVIOUS
  <2>2. r \in Member /\ r.stage \in {"sporks", "list"}
    BY <2>1, NextAssetType DEF After
  <2>3. sync' = [r EXCEPT !.attempt = @ + 1]
    BY <1>2, <2>1
  <2>4. sync' \in Member /\ sync'.stage = r.stage
    BY <2>2, <2>3, AttemptType
  <2>5. PICK i : vNodes' = Marked(nodes, i, "getspork")
    BY <1>2
  <2>6. vNodes' \in Seq(Peer)
    <3>1. AskedOnly(nodes, Request)
      BY PeersAre DEF AskedOnly, Peer
    <3> QED  BY <2>5, <3>1, MarkedType DEF Request
  <2>7. spent'["uncleared"] = 0 => AskedOnly(vNodes', {"getspork"} \cup {"getspork"})
    BY <2>5, MarkedType DEF Request
  <2>8. spent'["uncleared"] = 0 => AskedOnly(vNodes', FlagsOf(r.stage))
    BY <2>2, <2>7 DEF AskedOnly, FlagsOf
  <2> QED  BY <2>2, <2>4, <2>6, <2>8 DEF TurnFits, HasAssets
<1> QED  BY <1>1, <1>2 DEF AskSporks, Turn

LEMMA AttemptedType ==
  ASSUME NEW s \in Member
  PROVE  /\ Attempted(s) \in Member /\ Attempted(s).stage = s.stage
         /\ Attempted(s).last = s.last /\ Attempted(s).skipped = s.skipped
BY AttemptType DEF Attempted

\* A stage that is given up fails, or is remembered as skipped.
LEMMA NoItemType ==
  ASSUME NEW s \in Member, s.stage \in DOMAIN After
  PROVE  /\ NoItem(s) \in Member /\ NoItem(s).last = s.last
         /\ \/ NoItem(s).stage = "failed"
            \/ NoItem(s).stage = After[s.stage] /\ NoItem(s).skipped = s.skipped \cup {s.stage}
<1>1. CASE enforced
  <2>1. NoItem(s) = [stage |-> "failed", attempt |-> 0, started |-> s.started, failure |-> 0,
                     last |-> s.last, open |-> s.open, skipped |-> s.skipped]
    BY <1>1 DEF NoItem, Member
  <2> QED  BY <2>1 DEF Member, Stages
<1>2. CASE ~enforced
  <2> DEFINE r == [s EXCEPT !.skipped = @ \cup {s.stage}]
  <2>1. r = [stage |-> s.stage, attempt |-> s.attempt, started |-> s.started,
             failure |-> s.failure, last |-> s.last, open |-> s.open,
             skipped |-> s.skipped \cup {s.stage}]
    BY DEF Member
  <2>2. r \in Member /\ r.stage = s.stage /\ r.last = s.last /\ r.skipped = s.skipped \cup {s.stage}
    BY <2>1 DEF Member
  <2>3. NoItem(s) = GetNextAsset(r)
    BY <1>2 DEF NoItem, Skipping
  <2> HIDE DEF r
  <2> QED  BY <2>2, <2>3, NextAssetType
<1> QED  BY <1>1, <1>2

LEMMA InvFacts ==
  ASSUME SyncInv
  PROVE  /\ sync \in Member /\ vNodes \in Seq(Peer) /\ HasAssets(sync)
         /\ spent["uncleared"] = 0 => AskedOnly(vNodes, FlagsOf(sync.stage))
         /\ enforced \in BOOLEAN /\ AskedOnly(vNodes, Request)
<1>1. sync \in Member /\ vNodes \in Seq(Peer) /\ enforced \in BOOLEAN
  BY DEF SyncInv, SyncTypeOK, Member, Peer
<1>2. AskedOnly(vNodes, Request)
  BY <1>1, PeersAre DEF AskedOnly, Peer
<1> QED  BY <1>1, <1>2 DEF SyncInv, FlagsFit

\* The peers after one of them was asked, or none.
LEMMA AskedFits ==
  ASSUME SyncInv, spent'["uncleared"] = 0 => spent["uncleared"] = 0,
         NEW request \in Request, NEW stage, FlagsOf(sync.stage) \cup {request} \subseteq FlagsOf(stage),
         vNodes' = vNodes \/ \E i : vNodes' = Marked(vNodes, i, request)
  PROVE  vNodes' \in Seq(Peer) /\ (spent'["uncleared"] = 0 => AskedOnly(vNodes', FlagsOf(stage)))
<1>1. CASE vNodes' = vNodes
  BY <1>1, InvFacts DEF AskedOnly
<1>2. CASE \E i : vNodes' = Marked(vNodes, i, request)
  <2>1. PICK i : vNodes' = Marked(vNodes, i, request)
    BY <1>2
  <2>2. vNodes' \in Seq(Peer)
    BY <2>1, InvFacts, MarkedType
  <2>3. ASSUME spent'["uncleared"] = 0  PROVE AskedOnly(vNodes', FlagsOf(sync.stage) \cup {request})
    BY <2>1, <2>3, InvFacts, MarkedType
  <2> QED  BY <2>2, <2>3 DEF AskedOnly
<1> QED  BY <1>1, <1>2

LEMMA AskForFits ==
  ASSUME SyncInv, spent'["uncleared"] = 0 => spent["uncleared"] = 0,
         NEW kind, NEW request,
         <<kind, request>> \in {<<"list", "mnsync">>, <<"winner", "mnwsync">>},
         sync.stage = kind, AskFor(kind, request)
  PROVE  TurnFits(sync', vNodes')
<1>1. /\ kind \in {"list", "winner"} /\ kind \in DOMAIN After /\ request \in Request
      /\ After[kind] = IF kind = "list" THEN "winner" ELSE "budget"
      /\ FlagsOf(kind) \cup {request} \subseteq FlagsOf(kind)
      /\ FlagsOf(kind) \cup {request} \subseteq FlagsOf(After[kind])
      /\ FlagsOf(kind) \cup {request} \subseteq FlagsOf("failed")
  BY DEF After, FlagsOf, Request
<1>2. \/ sync' = GetNextAsset(sync) /\ Settled(kind) /\ vNodes' = vNodes
      \/ sync' = sync /\ vNodes' = vNodes
      \/ sync' = NoItem(sync) /\ \E i : vNodes' = Marked(vNodes, i, request)
      \/ sync' = Attempted(sync) /\ \E i : vNodes' = Marked(vNodes, i, request)
  BY DEF AskFor, Turn
<1>3. CASE sync' = GetNextAsset(sync) /\ Settled(kind) /\ vNodes' = vNodes
  <2>1. /\ sync' \in Member /\ sync'.stage = After[kind]
        /\ sync'.last = sync.last /\ sync'.skipped = sync.skipped
    BY <1>1, <1>3, InvFacts, NextAssetType
  <2>2. sync.last[kind] # Never
    BY <1>3, SyncAssumption DEF Settled, QuietTurns
  <2>3. HasAssets(sync')
    BY <1>1, <2>1, <2>2, InvFacts DEF HasAssets
  <2>4. vNodes' \in Seq(Peer) /\ (spent'["uncleared"] = 0 => AskedOnly(vNodes', FlagsOf(After[kind])))
    BY <1>1, <1>3, AskedFits
  <2> QED  BY <2>1, <2>3, <2>4 DEF TurnFits
<1>4. CASE sync'.stage = kind /\ sync' \in Member /\ sync'.last = sync.last
           /\ sync'.skipped = sync.skipped
           /\ (vNodes' = vNodes \/ \E i : vNodes' = Marked(vNodes, i, request))
  <2>1. HasAssets(sync')
    BY <1>1, <1>4, InvFacts DEF HasAssets
  <2>2. vNodes' \in Seq(Peer) /\ (spent'["uncleared"] = 0 => AskedOnly(vNodes', FlagsOf(kind)))
    BY <1>1, <1>4, AskedFits
  <2> QED  BY <1>4, <2>1, <2>2 DEF TurnFits
<1>5. CASE sync' = NoItem(sync) /\ \E i : vNodes' = Marked(vNodes, i, request)
  <2>1. /\ sync' \in Member /\ sync'.last = sync.last
        /\ \/ sync'.stage = "failed"
           \/ sync'.stage = After[kind] /\ sync'.skipped = sync.skipped \cup {kind}
    BY <1>1, <1>5, InvFacts, NoItemType
  <2>2. HasAssets(sync')
    BY <1>1, <2>1, InvFacts DEF HasAssets
  <2>3. FlagsOf(sync.stage) \cup {request} \subseteq FlagsOf(sync'.stage)
    BY <1>1, <2>1
  <2>4. vNodes' \in Seq(Peer) /\ (spent'["uncleared"] = 0 => AskedOnly(vNodes', FlagsOf(sync'.stage)))
    BY <1>1, <1>5, <2>3, AskedFits
  <2> QED  BY <2>1, <2>2, <2>4 DEF TurnFits
<1> QED  BY <1>2, <1>3, <1>4, <1>5, AttemptedType, InvFacts

LEMMA AskBudgetFits ==
  ASSUME SyncInv, spent'["uncleared"] = 0 => spent["uncleared"] = 0,
         sync.stage = "budget", AskBudget
  PROVE  TurnFits(sync', vNodes')
<1>1. /\ "budget" \in DOMAIN After /\ After["budget"] = "finished" /\ "busync" \in Request
      /\ \A stage \in {"budget", "finished"} : FlagsOf(stage) = Request
  BY DEF After, FlagsOf, Request
<1>2. \/ sync' = GetNextAsset(sync) /\ vNodes' = vNodes
      \/ sync' = sync /\ vNodes' = vNodes
      \/ sync' = Attempted(sync) /\ \E i : vNodes' = Marked(vNodes, i, "busync")
  BY DEF AskBudget, Turn
<1>3. /\ sync' \in Member /\ sync'.stage \in {"budget", "finished"}
      /\ sync'.last = sync.last /\ sync'.skipped = sync.skipped
  BY <1>1, <1>2, NextAssetType, AttemptedType, InvFacts
<1>4. HasAssets(sync')
  BY <1>3, InvFacts DEF HasAssets
<1>5. FlagsOf(sync.stage) \cup {"busync"} \subseteq FlagsOf(sync'.stage)
  BY <1>1, <1>3
<1>6. vNodes' \in Seq(Peer) /\ (spent'["uncleared"] = 0 => AskedOnly(vNodes', FlagsOf(sync'.stage)))
  BY <1>1, <1>2, <1>5, AskedFits
<1> QED  BY <1>3, <1>4, <1>6 DEF TurnFits

LEMMA BeginFits ==
  ASSUME SyncInv, NEW s \in Member, s.stage = "initial", Begin(s)
  PROVE  TurnFits(sync', vNodes') /\ spent' \in [Rare -> Nat]
<1> DEFINE r == GetNextAsset(s)
<1>1. r \in Member /\ r.stage = "sporks"
  BY NextAssetType DEF After
<1>2. Cleared \in Seq(Peer) /\ AskedOnly(Cleared, {"getspork"})
  BY ClearedType DEF SyncInv, AskedOnly
<1>3. CASE AskSporks(r, Cleared) /\ UNCHANGED spent
  <2>1. TurnFits(sync', vNodes')
    BY <1>1, <1>2, <1>3, AskSporksFits
  <2> QED  BY <1>3, <2>1 DEF SyncInv, SyncTypeOK
<1>4. CASE Turn(r, Cleared) /\ Spend("contention")
  <2>1. sync' = r /\ vNodes' = Cleared
    BY <1>4 DEF Turn
  <2> HIDE DEF r
  <2>2. TurnFits(sync', vNodes')
    BY <1>1, <1>2, <2>1 DEF TurnFits, HasAssets, FlagsOf
  <2>3. spent' \in [Rare -> Nat]
    BY <1>4, SpendType DEF SyncInv, Rare
  <2> QED  BY <2>2, <2>3
<1>5. CASE AskSporks(r, vNodes) /\ Spend("uncleared")
  <2>1. spent' \in [Rare -> Nat] /\ spent'["uncleared"] # 0
    BY <1>5, SpendType DEF SyncInv, Rare
  <2>2. TurnFits(sync', vNodes')
    BY <1>1, <1>5, <2>1, InvFacts, AskSporksFits
  <2> QED  BY <2>1, <2>2
<1> QED  BY <1>3, <1>4, <1>5 DEF Begin

LEMMA TurnInv ==
  ASSUME SyncInv, TurnFits(sync', vNodes'), spent' \in [Rare -> Nat],
         UNCHANGED <<network, chainSynced, enforced, enabled>>, due' \in BOOLEAN
  PROVE  SyncInv'
<1>1. SyncTypeOK'
  BY DEF SyncInv, SyncTypeOK, TurnFits, Member, Peer
<1>2. HasAssets(sync') /\ FlagsFit(sync'.stage, vNodes', spent')
  BY DEF TurnFits, FlagsFit
<1> QED  BY <1>1, <1>2 DEF SyncInv, HasAssets, FlagsFit, AskedOnly, FlagsOf

LEMMA ProcessStep ==
  ASSUME SyncInv, Process
  PROVE  SyncInv'
<1>1. UNCHANGED <<network, chainSynced, enforced, enabled>> /\ due' = FALSE
  BY DEF Process
<1>2. CASE sync' = sync /\ vNodes' = vNodes
           /\ (UNCHANGED spent \/ Spend("contention"))
  <2>1. spent' \in [Rare -> Nat] /\ (spent'["uncleared"] = 0 => spent["uncleared"] = 0)
    BY <1>2, SpendType DEF SyncInv, SyncTypeOK, Rare
  <2>2. TurnFits(sync', vNodes')
    BY <1>2, <2>1, InvFacts DEF TurnFits
  <2> QED  BY <1>1, <2>1, <2>2, TurnInv
<1>3. CASE sync.stage = "initial" /\ Begin(sync)
  BY <1>1, <1>3, BeginFits, InvFacts, TurnInv
<1>4. CASE Begin(Fresh)
  <2>1. Fresh.stage = "initial"
    BY DEF Fresh
  <2> QED  BY <1>1, <1>4, <2>1, BeginFits, FreshType, TurnInv
<1>5. CASE /\ \/ sync.stage = "sporks" /\ AskSporks(sync, vNodes)
              \/ sync.stage = "list" /\ AskFor("list", "mnsync")
              \/ sync.stage = "winner" /\ AskFor("winner", "mnwsync")
              \/ sync.stage = "budget" /\ AskBudget
           /\ UNCHANGED spent
  <2>1. spent' \in [Rare -> Nat] /\ (spent'["uncleared"] = 0 => spent["uncleared"] = 0)
    BY <1>5 DEF SyncInv, SyncTypeOK
  <2>2. CASE sync.stage = "sporks" /\ AskSporks(sync, vNodes)
    <3>1. spent'["uncleared"] = 0 => AskedOnly(vNodes, {"getspork"})
      BY <2>1, <2>2, InvFacts DEF FlagsOf
    <3>2. TurnFits(sync', vNodes')
      BY <2>2, <3>1, InvFacts, AskSporksFits
    <3> QED  BY <1>1, <2>1, <3>2, TurnInv
  <2>3. CASE sync.stage = "list" /\ AskFor("list", "mnsync")
    <3>1. TurnFits(sync', vNodes')
      BY <2>1, <2>3, AskForFits
    <3> QED  BY <1>1, <2>1, <3>1, TurnInv
  <2>4. CASE sync.stage = "winner" /\ AskFor("winner", "mnwsync")
    <3>1. TurnFits(sync', vNodes')
      BY <2>1, <2>4, AskForFits
    <3> QED  BY <1>1, <2>1, <3>1, TurnInv
  <2>5. CASE sync.stage = "budget" /\ AskBudget
    BY <1>1, <2>1, <2>5, AskBudgetFits, TurnInv
  <2> QED  BY <1>5, <2>2, <2>3, <2>4, <2>5
<1>6. ASSUME Continue
      PROVE  \/ /\ sync' = sync /\ vNodes' = vNodes
                /\ (UNCHANGED spent \/ Spend("contention"))
             \/ /\ \/ sync.stage = "sporks" /\ AskSporks(sync, vNodes)
                   \/ sync.stage = "list" /\ AskFor("list", "mnsync")
                   \/ sync.stage = "winner" /\ AskFor("winner", "mnwsync")
                   \/ sync.stage = "budget" /\ AskBudget
                /\ UNCHANGED spent
  BY <1>6, Zenon DEF Continue, Turn
<1> QED  BY <1>2, <1>3, <1>4, <1>5, <1>6, Zenon DEF Process, Turn

-----------------------------------------------------------------------------
LEMMA PassStep ==
  ASSUME SyncInv, Pass
  PROVE  SyncInv'
<1>1. /\ due' = TRUE /\ UNCHANGED <<network, vNodes, chainSynced, enforced, enabled, spent>>
      /\ sync' = [sync EXCEPT !.started = Older(@, TimeoutTurns),
                              !.failure = IF sync.stage = "failed" THEN Older(@, RetryTurns) ELSE 0,
                              !.last = [k \in Kind |->
                                          IF sync.stage \in Until[k] THEN Older(@[k], QuietTurns)
                                          ELSE IF @[k] = Never THEN Never ELSE QuietTurns]]
  BY DEF Pass
<1> DEFINE last == [k \in Kind |-> IF sync.stage \in Until[k] THEN Older(sync.last[k], QuietTurns)
                                   ELSE IF sync.last[k] = Never THEN Never ELSE QuietTurns]
<1>2. QuietTurns \in Nat /\ \A n \in Nat : \A bound : Older(n, bound) \in Nat
  BY SyncAssumption DEF Older, QuietTurns
<1>3. \A bound : Older(Never, bound) = Never
  BY DEF Older
<1>4. sync \in Member
  BY InvFacts
<1>5. /\ sync' = [stage |-> sync.stage, attempt |-> sync.attempt,
                  started |-> Older(sync.started, TimeoutTurns),
                  failure |-> IF sync.stage = "failed" THEN Older(sync.failure, RetryTurns) ELSE 0,
                  last |-> last, open |-> sync.open, skipped |-> sync.skipped]
  BY <1>1, <1>4 DEF Member
<1>6. \A k \in Kind : sync'.last[k] \in Nat \cup {Never}
                      /\ (sync.last[k] # Never => sync'.last[k] # Never)
  <2>1. \A k \in Kind : /\ sync.last[k] \in Nat \cup {Never}
                         /\ sync'.last[k] = IF sync.stage \in Until[k] THEN Older(sync.last[k], QuietTurns)
                                            ELSE IF sync.last[k] = Never THEN Never ELSE QuietTurns
    BY <1>4, <1>5 DEF Member
  <2> QED  BY <1>2, <1>3, <2>1, SyncAssumption
<1>7. sync' \in Member /\ sync'.stage = sync.stage /\ sync'.skipped = sync.skipped
  <2>1. sync'.last \in [Kind -> Nat \cup {Never}]
    BY <1>5, <1>6
  <2> QED  BY <1>2, <1>4, <1>5, <2>1 DEF Member
<1>8. HasAssets(sync')
  BY <1>6, <1>7, InvFacts DEF HasAssets, Kind
<1>9. TurnFits(sync', vNodes')
  BY <1>1, <1>7, <1>8, InvFacts DEF TurnFits
<1> QED  BY <1>1, <1>9, TurnInv DEF SyncInv, SyncTypeOK

\* The members are those of Reset, or what mattered of them is as before, and the peers
\* have no new flags.
LEMMA OtherInv ==
  ASSUME SyncInv, sync' \in Member, UNCHANGED network, enforced' \in BOOLEAN,
         sync' = Fresh \/ (/\ sync'.stage = sync.stage /\ sync'.skipped = sync.skipped
                          /\ \A k \in Kind : sync.last[k] # Never => sync'.last[k] # Never),
         vNodes' \in Seq(Peer),
         \A i \in DOMAIN vNodes' : vNodes'[i].asked = {} \/
           \E j \in DOMAIN vNodes : vNodes'[i].asked = vNodes[j].asked,
         spent' \in [Rare -> Nat], spent'["uncleared"] = 0 => spent["uncleared"] = 0,
         chainSynced' \in BOOLEAN, enabled' \in BOOLEAN, due' = due
  PROVE  SyncInv'
<1>1. SyncTypeOK'
  BY DEF SyncInv, SyncTypeOK, Member, Peer
<1>2. HasAssets(sync')
  BY InvFacts DEF HasAssets, Fresh, Kind
<1>3. \A S : AskedOnly(vNodes, S) => AskedOnly(vNodes', S)
  BY DEF AskedOnly
<1>4. sync'.stage = sync.stage \/ FlagsOf(sync'.stage) = Request
  BY DEF Fresh, FlagsOf
<1>5. FlagsFit(sync'.stage, vNodes', spent')
  BY <1>3, <1>4, InvFacts DEF FlagsFit
<1> QED  BY <1>1, <1>2, <1>5 DEF SyncInv, HasAssets, FlagsFit, AskedOnly, FlagsOf

LEMMA AddedStep ==
  ASSUME SyncInv, NEW kind \in Kind, AddedNew(kind) \/ AddedAgain(kind)
  PROVE  SyncInv'
<1>1. sync \in Member
  BY InvFacts
<1>2. PICK open \in Nat : Arrives(kind, open)
  <2>1. sync.open[kind] \in Nat
    BY <1>1 DEF Member
  <2>2. PICK more \in Nat : more = IF sync.open[kind] < MaxOpen THEN sync.open[kind] + 1 ELSE MaxOpen
    BY <2>1 DEF MaxOpen
  <2>3. PICK less \in Nat : less = IF sync.open[kind] > 0 THEN sync.open[kind] - 1 ELSE 0
    BY <2>1
  <2> QED  BY <2>2, <2>3 DEF AddedNew, AddedAgain
<1>3. /\ UNCHANGED <<network, vNodes, chainSynced, enforced, due, spent>>
      /\ enabled' \in {enabled, TRUE}
      /\ sync' = [sync EXCEPT !.last[kind] = 0, !.open[kind] = open]
  BY <1>2 DEF Arrives
<1>4. sync' = [stage |-> sync.stage, attempt |-> sync.attempt, started |-> sync.started,
               failure |-> sync.failure, last |-> [sync.last EXCEPT ![kind] = 0],
               open |-> [sync.open EXCEPT ![kind] = open], skipped |-> sync.skipped]
  BY <1>1, <1>3 DEF Member
<1>5. sync' \in Member /\ sync'.stage = sync.stage /\ sync'.skipped = sync.skipped
  BY <1>1, <1>4 DEF Member
<1>6. \A k \in Kind : sync.last[k] # Never => sync'.last[k] # Never
  BY <1>1, <1>4, SyncAssumption DEF Member
<1>7. enabled' \in BOOLEAN
  BY <1>3 DEF SyncInv, SyncTypeOK
<1> QED  BY <1>3, <1>5, <1>6, <1>7, OtherInv, InvFacts DEF SyncInv, SyncTypeOK

LEMMA LoseStep ==
  ASSUME SyncInv, LoseMasternodes
  PROVE  SyncInv'
<1>1. /\ Spend("lost") /\ enabled' = FALSE
      /\ sync' \in {sync, [sync EXCEPT !.open["list"] = 0]}
      /\ UNCHANGED <<network, vNodes, chainSynced, enforced, due>>
  BY DEF LoseMasternodes
<1>2. /\ sync' \in Member /\ sync'.stage = sync.stage
      /\ sync'.last = sync.last /\ sync'.skipped = sync.skipped
  <2>1. sync \in Member
    BY InvFacts
  <2>2. [sync EXCEPT !.open["list"] = 0] =
          [stage |-> sync.stage, attempt |-> sync.attempt, started |-> sync.started,
           failure |-> sync.failure, last |-> sync.last,
           open |-> [sync.open EXCEPT !["list"] = 0], skipped |-> sync.skipped]
    BY <2>1 DEF Member
  <2>3. [sync.open EXCEPT !["list"] = 0] \in [Kind -> Nat]
    BY <2>1 DEF Member
  <2> QED  BY <1>1, <2>1, <2>2, <2>3 DEF Member
<1>3. spent' \in [Rare -> Nat] /\ (spent'["uncleared"] = 0 => spent["uncleared"] = 0)
  BY <1>1, SpendType DEF SyncInv, Rare
<1> QED  BY <1>1, <1>2, <1>3, OtherInv, InvFacts DEF SyncInv, SyncTypeOK

\* SporkChanges, CatchUp, Sleep and ResetByUser leave the peers alone.
LEMMA ChainStep ==
  ASSUME SyncInv, SporkChanges \/ CatchUp \/ Sleep \/ ResetByUser
  PROVE  SyncInv'
<1>1. /\ sync' \in {sync, Fresh} /\ chainSynced' \in BOOLEAN /\ enforced' \in BOOLEAN
      /\ UNCHANGED <<network, vNodes, enabled, due>>
  BY DEF SporkChanges, CatchUp, Sleep, ResetByUser, SyncInv, SyncTypeOK
<1>2. spent' \in [Rare -> Nat] /\ (spent'["uncleared"] = 0 => spent["uncleared"] = 0)
  BY SpendType DEF SporkChanges, CatchUp, Sleep, ResetByUser, SyncInv, SyncTypeOK, Rare
<1> QED  BY <1>1, <1>2, FreshType, OtherInv, InvFacts DEF SyncInv, SyncTypeOK

LEMMA PeerStep ==
  ASSUME SyncInv, \/ \E current \in BOOLEAN : Connect(current)
                  \/ \E i \in DOMAIN vNodes : Disconnect(i)
  PROVE  SyncInv'
<1>1. UNCHANGED <<network, sync, chainSynced, enforced, enabled, due>>
  BY DEF Connect, Disconnect
<1>2. spent' \in [Rare -> Nat] /\ (spent'["uncleared"] = 0 => spent["uncleared"] = 0)
  BY SpendType DEF Connect, Disconnect, SyncInv, Rare
<1>3. /\ DOMAIN vNodes = 1 .. Len(vNodes) /\ Len(vNodes) \in Nat
      /\ \A i \in 1 .. Len(vNodes) : vNodes[i] \in Peer
  BY PeersAre, InvFacts
<1>4. /\ vNodes' \in Seq(Peer)
      /\ \A i \in DOMAIN vNodes' : vNodes'[i].asked = {} \/
           \E j \in DOMAIN vNodes : vNodes'[i].asked = vNodes[j].asked
  <2>1. ASSUME NEW current \in BOOLEAN, Connect(current)
        PROVE  /\ vNodes' \in Seq(Peer)
               /\ \A i \in DOMAIN vNodes' : vNodes'[i].asked = {} \/
                    \E j \in DOMAIN vNodes : vNodes'[i].asked = vNodes[j].asked
    <3>1. PICK p \in Peer : p.asked = {} /\ vNodes' = Append(vNodes, p)
      BY <2>1 DEF Connect, Peer
    <3>2. /\ vNodes' \in Seq(Peer) /\ DOMAIN vNodes' = 1 .. Len(vNodes) + 1
          /\ \A i \in 1 .. Len(vNodes) : vNodes'[i] = vNodes[i]
          /\ vNodes'[Len(vNodes) + 1] = p
      BY <1>3, <3>1, InvFacts
    <3> QED  BY <1>3, <3>1, <3>2
  <2>2. ASSUME NEW i \in DOMAIN vNodes, Disconnect(i)
        PROVE  /\ vNodes' \in Seq(Peer)
               /\ \A k \in DOMAIN vNodes' : \E j \in DOMAIN vNodes : vNodes'[k] = vNodes[j]
    <3> DEFINE front == SubSeq(vNodes, 1, i - 1)
               back == SubSeq(vNodes, i + 1, Len(vNodes))
    <3>1. i \in 1 .. Len(vNodes) /\ vNodes' = front \o back
      BY <1>3, <2>2 DEF Disconnect
    <3>2. /\ front \in Seq(Peer) /\ Len(front) = i - 1
          /\ \A k \in 1 .. Len(front) : front[k] = vNodes[k]
      BY <1>3, <3>1, InvFacts
    <3>3. /\ back \in Seq(Peer) /\ Len(back) = Len(vNodes) - i
          /\ \A k \in 1 .. Len(back) : back[k] = vNodes[i + k]
      <4> DEFINE n == Len(vNodes)
      <4>1. n \in Nat /\ i \in Nat /\ 1 <= i /\ i <= n
        BY <1>3, <3>1
      <4>2. back \in Seq(Peer)
        BY <1>3, <3>1, InvFacts
      <4>3. Len(back) = n - i
        BY <4>1, InvFacts
      <4>4. ASSUME NEW k \in 1 .. n - i  PROVE back[k] = vNodes[i + k]
        <5>1. vNodes \in Seq(Peer) /\ n = Len(vNodes)
          BY InvFacts
        <5>2. k \in Nat /\ 1 <= k /\ k <= n - i
          BY <4>1
        <5>3. (i + 1) + k - 1 = i + k /\ n - (i + 1) + 1 = n - i
          BY <4>1, <5>2
        <5> HIDE DEF n
        <5>4. SubSeq(vNodes, i + 1, n)[k] = vNodes[(i + 1) + k - 1]
          BY <4>1, <5>1, <5>2
        <5> QED  BY <5>1, <5>3, <5>4
      <4> QED  BY <4>2, <4>3, <4>4
    <3> HIDE DEF front, back
    <3>4. vNodes' \in Seq(Peer)
      BY <3>1, <3>2, <3>3
    <3>5. ASSUME NEW k \in DOMAIN vNodes'  PROVE \E j \in DOMAIN vNodes : vNodes'[k] = vNodes[j]
      <4>1. /\ k \in 1 .. Len(front) + Len(back)
            /\ k <= Len(front) => vNodes'[k] = front[k]
            /\ ~(k <= Len(front)) => vNodes'[k] = back[k - Len(front)]
        <5>1. front \in Seq(Peer) /\ back \in Seq(Peer) /\ k \in DOMAIN (front \o back)
          BY <3>1, <3>2, <3>3
        <5>2. /\ k \in 1 .. Len(front) + Len(back)
              /\ k <= Len(front) => (front \o back)[k] = front[k]
              /\ ~(k <= Len(front)) => (front \o back)[k] = back[k - Len(front)]
          BY <5>1, ConcatIs, Zenon
        <5> QED  BY <3>1, <5>2
      <4>2. CASE k <= Len(front)
        <5>1. k \in 1 .. Len(front) /\ k \in DOMAIN vNodes
          BY <1>3, <3>1, <3>2, <3>3, <4>1, <4>2
        <5>2. vNodes'[k] = vNodes[k]
          BY <3>2, <4>1, <4>2, <5>1
        <5> QED  BY <5>1, <5>2
      <4>3. CASE ~(k <= Len(front))
        <5>1. k - Len(front) \in 1 .. Len(back) /\ i + (k - Len(front)) \in DOMAIN vNodes
          <6> DEFINE f == Len(front)
                     b == Len(back)
                     n == Len(vNodes)
          <6>1. n \in Nat /\ i \in 1 .. n /\ f = i - 1 /\ b = n - i /\ DOMAIN vNodes = 1 .. n
            BY <1>3, <3>1, <3>2, <3>3
          <6>2. k \in 1 .. f + b /\ ~(k <= f)
            BY <4>1, <4>3
          <6> HIDE DEF f, b, n
          <6>3. k - f \in 1 .. b /\ i + (k - f) \in 1 .. n
            BY <6>1, <6>2
          <6> QED  BY <6>1, <6>3 DEF f, b
        <5>2. vNodes'[k] = vNodes[i + (k - Len(front))]
          BY <3>3, <4>1, <4>3, <5>1
        <5> QED  BY <5>1, <5>2
      <4> QED  BY <4>2, <4>3
    <3> QED  BY <3>4, <3>5
  <2>3. CASE \E current \in BOOLEAN : Connect(current)
    BY <2>1, <2>3
  <2>4. CASE \E i \in DOMAIN vNodes : Disconnect(i)
    BY <2>2, <2>4
  <2> QED  BY <2>3, <2>4
<1>5. /\ sync' \in Member /\ sync'.skipped = sync.skipped /\ enforced' \in BOOLEAN
      /\ \A k \in Kind : sync.last[k] # Never => sync'.last[k] # Never
  BY <1>1, InvFacts
<1>6. chainSynced' \in BOOLEAN /\ enabled' \in BOOLEAN
  BY <1>1 DEF SyncInv, SyncTypeOK
<1> QED  BY <1>1, <1>2, <1>4, <1>5, <1>6, OtherInv

-----------------------------------------------------------------------------
LEMMA InitInv == SyncInit => SyncInv
<1> SUFFICES ASSUME SyncInit  PROVE SyncInv
  OBVIOUS
<1>1. sync \in Member /\ sync.stage = "initial"
  BY FreshType DEF SyncInit, Fresh
<1>2. vNodes \in Seq(Peer)
  <2>1. network \in Networks /\ network.peers \in Seq(BOOLEAN)
    BY SyncAssumption DEF SyncInit
  <2>2. /\ DOMAIN network.peers = 1 .. Len(network.peers) /\ Len(network.peers) \in Nat
        /\ \A i \in 1 .. Len(network.peers) : network.peers[i] \in BOOLEAN
    BY <2>1
  <2>3. vNodes = [i \in 1 .. Len(network.peers) |-> [current |-> network.peers[i], asked |-> {}]]
    BY <2>2 DEF SyncInit
  <2>4. \A i \in 1 .. Len(network.peers) : vNodes[i] \in Peer
    BY <2>2, <2>3 DEF Peer
  <2> QED  BY <2>2, <2>3, <2>4, PeersFrom
<1>3. SyncTypeOK
  <2>1. network \in Networks /\ network.loaded \in BOOLEAN
    BY SyncAssumption DEF SyncInit
  <2> QED  BY <1>1, <1>2, <2>1 DEF SyncInit, SyncTypeOK, Member, Peer
<1>4. AskedOnly(vNodes, Request)
  BY <1>2, PeersAre DEF AskedOnly, Peer
<1>5. HasAssets(sync) /\ FlagsFit(sync.stage, vNodes, spent)
  BY <1>1, <1>4 DEF HasAssets, FlagsFit, FlagsOf
<1> QED  BY <1>3, <1>5 DEF SyncInv

LEMMA NextInv == SyncInv /\ [SyncNext]_syncVars => SyncInv'
<1> SUFFICES ASSUME SyncInv, [SyncNext]_syncVars  PROVE SyncInv'
  OBVIOUS
<1>1. CASE Pass \/ Process
  BY <1>1, PassStep, ProcessStep
<1>2. ASSUME NEW kind \in Kind, AddedNew(kind) \/ AddedAgain(kind)  PROVE SyncInv'
  BY <1>2, AddedStep
<1>3. CASE LoseMasternodes
  BY <1>3, LoseStep
<1>4. CASE SporkChanges \/ CatchUp \/ Sleep \/ ResetByUser
  BY <1>4, ChainStep
<1>5. CASE (\E current \in BOOLEAN : Connect(current)) \/ (\E i \in DOMAIN vNodes : Disconnect(i))
  BY <1>5, PeerStep
<1>6. CASE UNCHANGED syncVars
  BY <1>6 DEF syncVars, SyncInv, SyncTypeOK, HasAssets, FlagsFit, AskedOnly
<1> QED  BY <1>1, <1>2, <1>3, <1>4, <1>5, <1>6, Zenon DEF SyncNext

LEMMA SyncInvHolds == SyncSpec => []SyncInv
<1> QED  BY InitInv, NextInv, PTL DEF SyncSpec

\* The members of masternodeSync and the peers keep their types.
THEOREM SyncTypeCorrect == SyncSpec => []SyncTypeOK
<1>1. SyncInv => SyncTypeOK
  BY DEF SyncInv
<1> QED  BY <1>1, SyncInvHolds, PTL

\* In any network, and however the spork changes, no stage after the list is reached
\* without a list, and none after the winners without winners, except by giving them up
\* at a moment when payments were not enforced.
THEOREM AssetsCorrect == SyncSpec => []SyncedHasAssets
<1>1. SyncInv => SyncedHasAssets
  BY DEF SyncInv, HasAssets, SyncedHasAssets
<1> QED  BY <1>1, SyncInvHolds, PTL

\* As long as no round began without clearing them, no peer has a flag of a stage to come.
THEOREM FlagsCorrect == SyncSpec => []FlagsFollowStage
<1>1. SyncInv => FlagsFollowStage
  <2> SUFFICES ASSUME SyncInv, spent["uncleared"] = 0,
                      NEW i \in DOMAIN vNodes, NEW request \in vNodes[i].asked
               PROVE  /\ sync.stage = "sporks" => request \in {"getspork"}
                      /\ sync.stage = "list" => request \in {"getspork", "mnsync"}
                      /\ sync.stage = "winner" => request # "busync"
    BY DEF FlagsFollowStage
  <2>1. request \in FlagsOf(sync.stage)
    BY InvFacts DEF AskedOnly
  <2> QED  BY <2>1 DEF FlagsOf
<1> QED  BY <1>1, SyncInvHolds, PTL
===============================================================================
