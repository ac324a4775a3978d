----------------------------- MODULE SwiftTXProofs -----------------------------
(***************************************************************************)
(* Proofs about SwiftTX for any requests, outputs and masternodes.  A vote *)
(* counts once because a lock that lives has counted seen votes only:      *)
(* Clean forgets the votes of a lock together with the lock.  A refused    *)
(* request wins because each vote or refusal that completes its lock finds *)
(* one of its inputs locked for another request, or disconnects the blocks *)
(* against it; afterwards CheckBlock keeps such transactions out.  Only    *)
(* the sender completes a lock without either, which unresolved remembers. *)
(***************************************************************************)
EXTENDS SwiftTX, TLAPS

Signed(lock, m) == lock.sigs[m].right + lock.sigs[m].wrong

\* A lock has counted each masternode at most once, and nobody who was not seen.
CountedSeen ==
  \A t \in Tx, m \in Masternode :
    locks[t] # None => \/ Signed(locks[t], m) = 0
                       \/ Signed(locks[t], m) = 1 /\ <<m, t>> \in votes

SwiftInv == TypeOK /\ CountedSeen /\ RejectedLockWins

-----------------------------------------------------------------------------
\* What each operation makes of the locks.
LEMMA NewLockType ==
  ASSUME TypeOK, NEW known \in BOOLEAN
  PROVE  /\ NewLock(known) \in Lock /\ NewLock(known).expires <= now + LockTime
         /\ \A m \in Masternode : Signed(NewLock(known), m) = 0
BY SwiftAssumption DEF TypeOK, NewLock, NoVotes, Lock, Signed

LEMMA LocksWithType ==
  ASSUME TypeOK, NEW t \in Tx, NEW aged \in BOOLEAN
  PROVE  LET L == LocksWith(t, aged) IN
         /\ L \in [Tx -> Lock \cup {None}]
         /\ \A u \in Tx : L[u] # None => L[u].expires <= now + LockTime
         /\ \A u \in Tx \ {t} : L[u] = locks[u]
         /\ \A m \in Masternode : L[t] # None =>
              \/ Signed(L[t], m) = 0
              \/ locks[t] # None /\ Signed(L[t], m) = Signed(locks[t], m)
<1> DEFINE L == LocksWith(t, aged)
<1>1. CASE ~aged
  BY <1>1 DEF LocksWith, TypeOK
<1>2. CASE aged /\ locks[t] = None
  <2>1. L = [locks EXCEPT ![t] = NewLock(TRUE)]
    BY <1>2 DEF LocksWith
  <2> QED  BY <2>1, NewLockType DEF TypeOK
<1>3. CASE aged /\ locks[t] # None
  <2> DEFINE lock == [locks[t] EXCEPT !.known = TRUE]
  <2>1. L = [locks EXCEPT ![t] = lock]
    BY <1>3 DEF LocksWith
  <2>2. locks[t] \in Lock /\ locks[t].expires <= now + LockTime
    BY <1>3 DEF TypeOK
  <2>3. /\ lock \in Lock /\ lock.expires = locks[t].expires
        /\ \A m \in Masternode : Signed(lock, m) = Signed(locks[t], m)
    BY <2>2 DEF Lock, Signed
  <2> HIDE DEF lock
  <2> QED  BY <1>3, <2>1, <2>2, <2>3 DEF TypeOK
<1> QED  BY <1>1, <1>2, <1>3

LEMMA CountedType ==
  ASSUME TypeOK, NEW t \in Tx, NEW m \in Masternode, NEW right \in BOOLEAN
  PROVE  LET lock == Counted(m, t, right) IN
         /\ lock \in Lock /\ lock.expires <= now + LockTime
         /\ \A n \in Masternode :
              Signed(lock, n) = (IF locks[t] = None THEN 0 ELSE Signed(locks[t], n))
                                + (IF n = m THEN 1 ELSE 0)
<1> DEFINE before == IF locks[t] = None THEN NewLock(FALSE) ELSE locks[t]
<1>1. /\ before \in Lock /\ before.expires <= now + LockTime
      /\ \A n \in Masternode :
           Signed(before, n) = IF locks[t] = None THEN 0 ELSE Signed(locks[t], n)
  BY NewLockType DEF TypeOK
<1>2. Counted(m, t, right) = IF right THEN [before EXCEPT !.sigs[m].right = @ + 1]
                                      ELSE [before EXCEPT !.sigs[m].wrong = @ + 1]
  BY DEF Counted
<1> HIDE DEF before
<1>3. ASSUME NEW lock, lock = [before EXCEPT !.sigs[m].right = @ + 1]
      PROVE  /\ lock \in Lock /\ lock.expires = before.expires
             /\ \A n \in Masternode : Signed(lock, n) = Signed(before, n) + (IF n = m THEN 1 ELSE 0)
  <2>1. /\ lock.known = before.known /\ lock.expires = before.expires
        /\ lock.sigs = [before.sigs EXCEPT ![m].right = @ + 1]
        /\ lock = [known |-> lock.known, sigs |-> lock.sigs, expires |-> lock.expires]
    BY <1>1, <1>3 DEF Lock
  <2>2. \A n \in Masternode : before.sigs[n] \in [right : Nat, wrong : Nat]
    BY <1>1 DEF Lock
  <2>3. \A n \in Masternode :
          lock.sigs[n] = IF n = m THEN [right |-> before.sigs[n].right + 1,
                                        wrong |-> before.sigs[n].wrong]
                         ELSE before.sigs[n]
    BY <1>1, <2>1, <2>2 DEF Lock
  <2>4. lock \in Lock
    BY <1>1, <2>1, <2>2, <2>3 DEF Lock
  <2> QED  BY <2>1, <2>2, <2>3, <2>4 DEF Signed
<1>4. ASSUME NEW lock, lock = [before EXCEPT !.sigs[m].wrong = @ + 1]
      PROVE  /\ lock \in Lock /\ lock.expires = before.expires
             /\ \A n \in Masternode : Signed(lock, n) = Signed(before, n) + (IF n = m THEN 1 ELSE 0)
  <2>1. /\ lock.known = before.known /\ lock.expires = before.expires
        /\ lock.sigs = [before.sigs EXCEPT ![m].wrong = @ + 1]
        /\ lock = [known |-> lock.known, sigs |-> lock.sigs, expires |-> lock.expires]
    BY <1>1, <1>4 DEF Lock
  <2>2. \A n \in Masternode : before.sigs[n] \in [right : Nat, wrong : Nat]
    BY <1>1 DEF Lock
  <2>3. \A n \in Masternode :
          lock.sigs[n] = IF n = m THEN [right |-> before.sigs[n].right,
                                        wrong |-> before.sigs[n].wrong + 1]
                         ELSE before.sigs[n]
    BY <1>1, <2>1, <2>2 DEF Lock
  <2>4. lock \in Lock
    BY <1>1, <2>1, <2>2, <2>3 DEF Lock
  <2> QED  BY <2>1, <2>2, <2>3, <2>4 DEF Signed
<1> QED  BY <1>1, <1>2, <1>3, <1>4

\* A conflict makes locks expire and changes nothing else of them.
LEMMA CancelledType ==
  ASSUME NEW L \in [Tx -> Lock \cup {None}], NEW S, NEW t \in Tx, TypeOK,
         NEW M \in CancelledBy(t, S, L),
         \A u \in Tx : L[u] # None => L[u].expires <= now + LockTime
  PROVE  /\ M \in [Tx -> Lock \cup {None}]
         /\ \A u \in Tx : /\ M[u] = None <=> L[u] = None
                          /\ L[u] # None => /\ M[u].known = L[u].known
                                            /\ M[u].sigs = L[u].sigs
                                            /\ M[u].expires <= now + LockTime
<1>1. PICK o \in Taken(S, t) :
        M = [u \in Tx |-> IF u \in {t, lockedInputs[o]} THEN Expired(L[u]) ELSE L[u]]
  BY DEF CancelledBy
<1>2. ASSUME NEW lock \in Lock
      PROVE  /\ Expired(lock) \in Lock /\ Expired(lock).known = lock.known
             /\ Expired(lock).sigs = lock.sigs /\ Expired(lock).expires = now
  BY SwiftAssumption DEF Expired, Lock, TypeOK
<1>3. Expired(None) = None
  BY DEF Expired
<1>4. now \in Nat /\ now <= now + LockTime /\ None \notin Lock
  BY SwiftAssumption DEF TypeOK
<1> QED  BY <1>1, <1>2, <1>3, <1>4

\* Whether a lock is complete depends on its height and its votes alone.
LEMMA CompleteSame ==
  ASSUME NEW t \in Tx, NEW L, NEW M, M[t] = None <=> L[t] = None,
         L[t] # None => M[t].known = L[t].known /\ M[t].sigs = L[t].sigs
  PROVE  t \in Completed(M) <=> t \in Completed(L)
BY DEF Completed, IsComplete, CountSignatures

\* Inputs are only ever locked for a request that finds them free.
LEMMA LockedForType ==
  ASSUME TypeOK, NEW t \in Tx, NEW S
  PROVE  /\ InputsLockedFor(t, S) \in [Output -> Tx \cup {None}]
         /\ \A o \in Output : \/ InputsLockedFor(t, S)[o] = lockedInputs[o]
                              \/ lockedInputs[o] = None /\ InputsLockedFor(t, S)[o] = t
BY DEF InputsLockedFor, TypeOK

\* A block that ReprocessBlocks leaves spends no input locked for another request.
LEMMA ReprocessKeeps ==
  ASSUME NEW inputs, Reprocess(inputs), NEW t \in Tx,
         \A o \in Inputs[t] : inputs[o] = t
  PROVE  \A u \in confirmed' : ~Conflicting(t, u)
<1> SUFFICES ASSUME NEW u \in confirmed', t # u, NEW o \in Inputs[t] \cap Inputs[u]
             PROVE  FALSE
  BY DEF Conflicting
<1>1. u \in confirmed /\ ~ \E i \in Inputs[u] : inputs[i] \notin {None, u}
  BY DEF Reprocess
<1>2. inputs[o] = t /\ t # None
  BY SwiftAssumption
<1> QED  BY <1>1, <1>2

LEMMA ReprocessType ==
  ASSUME TypeOK, NEW inputs, Reprocess(inputs)
  PROVE  confirmed' \subseteq confirmed /\ mempool' = mempool
BY DEF Reprocess

-----------------------------------------------------------------------------
\* What the arrival of a request and its sending have in common.
LEMMA RequestStep ==
  ASSUME TypeOK, CountedSeen, NEW t \in Tx, NEW aged \in BOOLEAN,
         AcceptRequest(t, aged) \/ SendRequest(t, aged)
  PROVE  TypeOK' /\ CountedSeen'
<1>1. /\ locks' = LocksWith(t, aged)
      /\ mempool' \in {mempool, mempool \cup {t}}
      /\ votes' \in {votes, votes \cup OwnVote(t)}
      /\ UNCHANGED <<rejected, lockedInputs, confirmed, now>>
  BY DEF AcceptRequest, SendRequest
<1>2. /\ locks' \in [Tx -> Lock \cup {None}]
      /\ \A u \in Tx : locks'[u] # None => locks'[u].expires <= now + LockTime
      /\ \A u \in Tx \ {t} : locks'[u] = locks[u]
      /\ \A m \in Masternode : locks'[t] # None =>
           \/ Signed(locks'[t], m) = 0
           \/ locks[t] # None /\ Signed(locks'[t], m) = Signed(locks[t], m)
  BY <1>1, LocksWithType
<1>3. votes' \subseteq Masternode \X Tx /\ votes \subseteq votes'
  BY <1>1 DEF OwnVote, TypeOK
<1>4. requests' \in [Tx -> {None, "tx", "empty"}] /\ unresolved' \subseteq Tx
  BY DEF AcceptRequest, SendRequest, TypeOK, Completed
<1>5. TypeOK'
  BY <1>1, <1>2, <1>3, <1>4 DEF TypeOK
<1>6. ASSUME NEW u \in Tx, NEW m \in Masternode, locks'[u] # None
      PROVE  \/ Signed(locks'[u], m) = 0
             \/ Signed(locks'[u], m) = 1 /\ <<m, u>> \in votes'
  BY <1>2, <1>3, <1>6 DEF CountedSeen
<1> QED  BY <1>5, <1>6 DEF CountedSeen, Signed

LEMMA AcceptStep ==
  ASSUME SwiftInv, NEW t \in Tx, NEW aged \in BOOLEAN, AcceptRequest(t, aged)
  PROVE  SwiftInv'
<1>1. TypeOK' /\ CountedSeen'
  BY RequestStep DEF SwiftInv
<1>2. /\ t \notin rejected /\ locks' = LocksWith(t, aged)
      /\ UNCHANGED <<rejected, lockedInputs, confirmed, unresolved>>
  BY DEF AcceptRequest, IsNew
<1>3. ASSUME NEW u \in rejected, u \in Completed(locks')  PROVE u \in Completed(locks)
  <2>1. u \in Tx \ {t}
    BY <1>2 DEF SwiftInv, TypeOK
  <2>2. locks'[u] = locks[u]
    BY <1>2, <2>1, LocksWithType DEF SwiftInv
  <2> QED  BY <1>3, <2>1, <2>2 DEF Completed
<1>4. RejectedLockWins'
  BY <1>2, <1>3 DEF SwiftInv, RejectedLockWins
<1> QED  BY <1>1, <1>4 DEF SwiftInv

\* A lock that the sender completes is unresolved.
LEMMA SendStep ==
  ASSUME SwiftInv, NEW t \in Tx, NEW aged \in BOOLEAN, SendRequest(t, aged)
  PROVE  SwiftInv'
<1>1. TypeOK' /\ CountedSeen'
  BY RequestStep DEF SwiftInv
<1>2. /\ unresolved' = unresolved \cup (Completed(locks') \ Completed(locks))
      /\ UNCHANGED <<rejected, lockedInputs, confirmed>>
  BY DEF SendRequest
<1>3. RejectedLockWins'
  BY <1>2 DEF SwiftInv, RejectedLockWins
<1> QED  BY <1>1, <1>3 DEF SwiftInv

LEMMA RejectStep ==
  ASSUME SwiftInv, NEW t \in Tx, NEW aged \in BOOLEAN, RejectRequest(t, aged)
  PROVE  SwiftInv'
<1> DEFINE L == LocksWith(t, aged)
<1>1. /\ rejected' = rejected \cup {t} /\ votes' = votes /\ now' = now
      /\ t \notin rejected /\ unresolved' = unresolved
      /\ lockedInputs' = InputsLockedFor(t, Inputs[t])
  BY DEF RejectRequest, IsNew
<1>2. /\ L \in [Tx -> Lock \cup {None}]
      /\ \A u \in Tx : L[u] # None => L[u].expires <= now + LockTime
      /\ \A u \in Tx \ {t} : L[u] = locks[u]
      /\ \A m \in Masternode : L[t] # None =>
           \/ Signed(L[t], m) = 0
           \/ locks[t] # None /\ Signed(L[t], m) = Signed(locks[t], m)
  BY LocksWithType DEF SwiftInv
<1>3. /\ lockedInputs' \in [Output -> Tx \cup {None}]
      /\ \A o \in Output : \/ lockedInputs'[o] = lockedInputs[o]
                           \/ lockedInputs[o] = None /\ lockedInputs'[o] = t
  BY <1>1, LockedForType DEF SwiftInv
<1>4. \/ /\ locks' = L /\ t \notin Completed(L)
         /\ UNCHANGED <<requests, confirmed, mempool>>
      \/ /\ Taken(Inputs[t], t) # {} /\ locks' \in CancelledBy(t, Inputs[t], L)
         /\ UNCHANGED <<requests, confirmed, mempool>>
      \/ /\ locks' = L /\ Reprocess(lockedInputs')
         /\ requests' = [requests EXCEPT ![t] = "tx"]
  BY Zenon DEF RejectRequest
<1> HIDE DEF L
<1>5. /\ locks' \in [Tx -> Lock \cup {None}]
      /\ \A u \in Tx : /\ locks'[u] = None <=> L[u] = None
                       /\ L[u] # None => /\ locks'[u].known = L[u].known
                                         /\ locks'[u].sigs = L[u].sigs
                                         /\ locks'[u].expires <= now + LockTime
  <2>1. CASE locks' = L
    BY <1>2, <2>1
  <2>2. CASE locks' \in CancelledBy(t, Inputs[t], L)
    BY <1>2, <2>2, CancelledType, Zenon DEF SwiftInv
  <2> QED  BY <1>4, <2>1, <2>2
<1>6. confirmed' \subseteq confirmed /\ mempool' = mempool
  BY <1>4, ReprocessType DEF SwiftInv
<1>7. TypeOK'
  <2>1. requests' \in [Tx -> {None, "tx", "empty"}]
    BY <1>4 DEF SwiftInv, TypeOK
  <2>2. \A u \in Tx : locks'[u] # None => locks'[u].expires <= now' + LockTime
    BY <1>1, <1>5
  <2> QED  BY <1>1, <1>3, <1>5, <1>6, <2>1, <2>2 DEF SwiftInv, TypeOK
<1>8. CountedSeen'
  <2>1. ASSUME NEW u \in Tx, NEW m \in Masternode, locks'[u] # None
        PROVE  \/ Signed(locks'[u], m) = 0
               \/ Signed(locks'[u], m) = 1 /\ <<m, u>> \in votes'
    <3>1. L[u] # None /\ Signed(locks'[u], m) = Signed(L[u], m)
      BY <1>5, <2>1 DEF Signed
    <3>2. \/ Signed(L[u], m) = 0
          \/ locks[u] # None /\ Signed(L[u], m) = Signed(locks[u], m)
      BY <1>2, <3>1
    <3> QED  BY <1>1, <3>1, <3>2 DEF SwiftInv, CountedSeen
  <2> QED  BY <2>1 DEF CountedSeen, Signed
<1>9. RejectedLockWins'
  <2> SUFFICES ASSUME NEW u \in rejected', u \notin unresolved', u \in Completed(locks'),
                      \A o \in Inputs[u] : lockedInputs'[o] = u
               PROVE  \A w \in confirmed' : ~Conflicting(u, w)
    BY DEF RejectedLockWins
  <2>1. u \in Tx /\ Inputs[u] \subseteq Output
    BY <1>1, SwiftAssumption DEF SwiftInv, TypeOK
  <2>2. CASE u # t
    <3>1. u \in rejected /\ L[u] = locks[u]
      BY <1>1, <1>2, <2>1, <2>2
    <3>2. u \in Completed(locks)
      <4>1. u \in Completed(L)
        BY <1>5, <2>1, CompleteSame
      <4> QED  BY <3>1, <4>1 DEF Completed
    <3>3. \A o \in Inputs[u] : lockedInputs[o] = u
      BY <1>3, <2>1, <2>2
    <3>4. u \in rejected \ unresolved
      BY <1>1, <3>1
    <3>5. \A w \in confirmed : ~Conflicting(u, w)
      BY <1>1, <3>2, <3>3, <3>4 DEF SwiftInv, RejectedLockWins
    <3> QED  BY <1>6, <3>5
  <2>3. CASE u = t
    <3>1. t \in Completed(L)
      BY <1>5, <2>1, <2>3, CompleteSame
    <3>2. Taken(Inputs[t], t) = {}
      <4>1. ASSUME NEW o \in Inputs[t]  PROVE lockedInputs[o] \in {None, t}
        BY <1>3, <2>1, <2>3
      <4> QED  BY <4>1 DEF Taken
    <3>3. Reprocess(lockedInputs')
      BY <1>4, <3>1, <3>2
    <3> QED  BY <2>3, <3>3, ReprocessKeeps
  <2> QED  BY <2>2, <2>3
<1> QED  BY <1>7, <1>8, <1>9 DEF SwiftInv

LEMMA DropStep ==
  ASSUME SwiftInv, NEW m \in Masternode, NEW t \in Tx, DropVote(m, t)
  PROVE  SwiftInv'
<1>1. /\ votes' = votes \cup {<<m, t>>}
      /\ UNCHANGED <<requests, rejected, locks, lockedInputs, mempool, confirmed, unresolved, now>>
  BY DEF DropVote
<1>2. TypeOK'
  BY <1>1 DEF SwiftInv, TypeOK
<1>3. CountedSeen'
  BY <1>1 DEF SwiftInv, CountedSeen, Signed
<1>4. RejectedLockWins'
  BY <1>1 DEF SwiftInv, RejectedLockWins
<1> QED  BY <1>2, <1>3, <1>4 DEF SwiftInv

\* The cases of ProcessConsensusVote: the lock is not complete, an input is locked for
\* another request, or the request's inputs get locked.
LEMMA VoteCases ==
  ASSUME NEW m \in Masternode, NEW t \in Tx, NEW right \in BOOLEAN, CountVote(m, t, right)
  PROVE  LET L == [locks EXCEPT ![t] = Counted(m, t, right)] IN
         \/ /\ ~IsComplete(L[t]) /\ locks' = L
            /\ UNCHANGED <<requests, lockedInputs, confirmed, mempool, unresolved>>
         \/ /\ IsComplete(L[t]) /\ Taken(RequestInputs(t), t) # {}
            /\ locks' \in CancelledBy(t, RequestInputs(t), L)
            /\ UNCHANGED <<lockedInputs, confirmed, mempool>>
         \/ /\ IsComplete(L[t]) /\ locks' = L
            /\ lockedInputs' = InputsLockedFor(t, RequestInputs(t))
            /\ \/ t \in rejected /\ Reprocess(lockedInputs')
               \/ t \notin rejected /\ UNCHANGED <<confirmed, mempool>>
BY Zenon DEF CountVote

LEMMA VoteStep ==
  ASSUME SwiftInv, NEW m \in Masternode, NEW t \in Tx, NEW right \in BOOLEAN,
         CountVote(m, t, right)
  PROVE  SwiftInv'
<1> DEFINE lock == Counted(m, t, right)
           L == [locks EXCEPT ![t] = lock]
<1>1. /\ <<m, t>> \notin votes /\ votes' = votes \cup {<<m, t>>}
      /\ rejected' = rejected /\ now' = now
      /\ unresolved \ {t} \subseteq unresolved' /\ unresolved' \subseteq unresolved
  BY DEF CountVote, NotSeen
<1>2. requests' = requests \/ requests' = [requests EXCEPT ![t] = IF @ = None THEN "empty" ELSE @]
  BY Zenon DEF CountVote
<1>3. /\ lock \in Lock /\ lock.expires <= now + LockTime
      /\ \A n \in Masternode :
           Signed(lock, n) = (IF locks[t] = None THEN 0 ELSE Signed(locks[t], n))
                             + (IF n = m THEN 1 ELSE 0)
  BY CountedType DEF SwiftInv
<1>4. \/ /\ ~IsComplete(L[t]) /\ locks' = L
         /\ UNCHANGED <<requests, lockedInputs, confirmed, mempool, unresolved>>
      \/ /\ IsComplete(L[t]) /\ Taken(RequestInputs(t), t) # {}
         /\ locks' \in CancelledBy(t, RequestInputs(t), L)
         /\ UNCHANGED <<lockedInputs, confirmed, mempool>>
      \/ /\ IsComplete(L[t]) /\ locks' = L
         /\ lockedInputs' = InputsLockedFor(t, RequestInputs(t))
         /\ \/ t \in rejected /\ Reprocess(lockedInputs')
            \/ t \notin rejected /\ UNCHANGED <<confirmed, mempool>>
  BY VoteCases, Zenon
<1> HIDE DEF lock
<1>5. /\ L \in [Tx -> Lock \cup {None}] /\ L[t] = lock
      /\ \A u \in Tx \ {t} : L[u] = locks[u]
      /\ \A u \in Tx : L[u] # None => L[u].expires <= now + LockTime
  BY <1>3 DEF SwiftInv, TypeOK
<1> HIDE DEF L
<1>6. /\ locks' \in [Tx -> Lock \cup {None}]
      /\ \A u \in Tx : /\ locks'[u] = None <=> L[u] = None
                       /\ L[u] # None => /\ locks'[u].known = L[u].known
                                         /\ locks'[u].sigs = L[u].sigs
                                         /\ locks'[u].expires <= now + LockTime
  <2>1. CASE locks' = L
    BY <1>5, <2>1
  <2>2. CASE locks' \in CancelledBy(t, RequestInputs(t), L)
    BY <1>5, <2>2, CancelledType, Zenon DEF SwiftInv
  <2> QED  BY <1>4, <2>1, <2>2
<1>7. /\ lockedInputs' \in [Output -> Tx \cup {None}]
      /\ \A o \in Output : \/ lockedInputs'[o] = lockedInputs[o]
                           \/ lockedInputs[o] = None /\ lockedInputs'[o] = t
  <2>1. CASE lockedInputs' = lockedInputs
    BY <2>1 DEF SwiftInv, TypeOK
  <2>2. CASE lockedInputs' = InputsLockedFor(t, RequestInputs(t))
    BY <2>2, LockedForType DEF SwiftInv
  <2> QED  BY <1>4, <2>1, <2>2
<1>8. confirmed' \subseteq confirmed /\ mempool' = mempool
  BY <1>4, ReprocessType DEF SwiftInv
<1>9. TypeOK'
  <2>1. requests' \in [Tx -> {None, "tx", "empty"}]
    BY <1>2 DEF SwiftInv, TypeOK
  <2>2. \A u \in Tx : locks'[u] # None => locks'[u].expires <= now' + LockTime
    BY <1>1, <1>6
  <2> QED  BY <1>1, <1>6, <1>7, <1>8, <2>1, <2>2 DEF SwiftInv, TypeOK
<1>10. CountedSeen'
  <2>1. ASSUME NEW u \in Tx, NEW n \in Masternode, locks'[u] # None
        PROVE  \/ Signed(locks'[u], n) = 0
               \/ Signed(locks'[u], n) = 1 /\ <<n, u>> \in votes'
    <3>1. L[u] # None /\ Signed(locks'[u], n) = Signed(L[u], n)
      BY <1>6, <2>1 DEF Signed
    <3>2. CASE u # t
      <4>1. L[u] = locks[u]
        BY <1>5, <3>2
      <4> QED  BY <1>1, <3>1, <4>1 DEF SwiftInv, CountedSeen
    <3>3. CASE u = t
      <4>1. Signed(L[u], n) = (IF locks[t] = None THEN 0 ELSE Signed(locks[t], n))
                              + (IF n = m THEN 1 ELSE 0)
        BY <1>3, <1>5, <3>3
      <4>2. locks[t] # None =>
              Signed(locks[t], n) = 0 \/ (Signed(locks[t], n) = 1 /\ <<n, t>> \in votes)
        BY DEF SwiftInv, CountedSeen
      <4>3. CASE n = m
        <5>1. locks[t] # None => Signed(locks[t], n) = 0
          BY <1>1, <4>2, <4>3
        <5>2. Signed(L[u], n) = 1
          BY <4>1, <4>3, <5>1
        <5> QED  BY <1>1, <3>1, <3>3, <4>3, <5>2
      <4>4. CASE n # m
        <5>1. Signed(L[u], n) = 0 \/ (Signed(L[u], n) = 1 /\ <<n, t>> \in votes)
          BY <4>1, <4>2, <4>4
        <5> QED  BY <1>1, <3>1, <3>3, <5>1
      <4> QED  BY <4>3, <4>4
    <3> QED  BY <3>2, <3>3
  <2> QED  BY <2>1 DEF CountedSeen, Signed
<1>11. RejectedLockWins'
  <2> SUFFICES ASSUME NEW u \in rejected', u \notin unresolved', u \in Completed(locks'),
                      \A o \in Inputs[u] : lockedInputs'[o] = u
               PROVE  \A w \in confirmed' : ~Conflicting(u, w)
    BY DEF RejectedLockWins
  <2>1. u \in Tx /\ Inputs[u] \subseteq Output
    BY <1>1, SwiftAssumption DEF SwiftInv, TypeOK
  <2>2. CASE u # t
    <3>1. u \in rejected /\ L[u] = locks[u]
      BY <1>1, <1>5, <2>1, <2>2
    <3>2. u \in Completed(locks)
      <4>1. u \in Completed(L)
        BY <1>6, <2>1, CompleteSame
      <4> QED  BY <3>1, <4>1 DEF Completed
    <3>3. \A o \in Inputs[u] : lockedInputs[o] = u
      BY <1>7, <2>1, <2>2
    <3>4. u \in rejected \ unresolved
      BY <1>1, <2>2, <3>1
    <3>5. \A w \in confirmed : ~Conflicting(u, w)
      BY <1>1, <3>2, <3>3, <3>4 DEF SwiftInv, RejectedLockWins
    <3> QED  BY <1>8, <3>5
  <2>3. CASE u = t
    <3>1. L[t] # None /\ IsComplete(L[t])
      <4>1. t \in Completed(L)
        BY <1>6, <2>1, <2>3, CompleteSame
      <4> QED  BY <4>1 DEF Completed
    <3>2. Taken(RequestInputs(t), t) = {}
      <4>1. ASSUME NEW o \in Inputs[t]  PROVE lockedInputs[o] \in {None, t}
        BY <1>7, <2>1, <2>3
      <4> QED  BY <4>1 DEF Taken, RequestInputs
    <3>3. t \in rejected
      BY <1>1, <2>3
    <3>4. Reprocess(lockedInputs')
      BY <1>4, <3>1, <3>2, <3>3
    <3> QED  BY <2>3, <3>4, ReprocessKeeps
  <2> QED  BY <2>2, <2>3
<1> QED  BY <1>9, <1>10, <1>11 DEF SwiftInv

LEMMA ConfirmStep ==
  ASSUME SwiftInv, NEW t \in Tx, Confirm(t)
  PROVE  SwiftInv'
<1>1. /\ Taken(Inputs[t], t) = {} /\ confirmed' = confirmed \cup {t}
      /\ mempool' \subseteq mempool
      /\ UNCHANGED <<requests, rejected, votes, locks, lockedInputs, unresolved, now>>
  BY DEF Confirm
<1>2. TypeOK'
  BY <1>1 DEF SwiftInv, TypeOK
<1>3. CountedSeen'
  BY <1>1 DEF SwiftInv, CountedSeen, Signed
<1>4. RejectedLockWins'
  <2> SUFFICES ASSUME NEW u \in rejected, u \notin unresolved, u \in Completed(locks),
                      \A o \in Inputs[u] : lockedInputs[o] = u,
                      NEW w \in confirmed', Conflicting(u, w)
               PROVE  FALSE
    BY <1>1 DEF RejectedLockWins
  <2>1. w = t
    BY <1>1 DEF SwiftInv, RejectedLockWins
  <2>2. PICK o \in Inputs[t] : lockedInputs[o] = u
    BY <2>1 DEF Conflicting
  <2>3. u # None /\ u # t
    BY <2>1, SwiftAssumption DEF SwiftInv, TypeOK, Conflicting
  <2> QED  BY <1>1, <2>2, <2>3 DEF Taken
<1> QED  BY <1>2, <1>3, <1>4 DEF SwiftInv

LEMMA CleanStep ==
  ASSUME SwiftInv, Clean
  PROVE  SwiftInv'
<1> DEFINE requested == {t \in Old : requests[t] # None}
           released == UNION {RequestInputs(t) : t \in requested}
<1>1. /\ locks' = [t \in Tx |-> IF t \in Old THEN None ELSE locks[t]]
      /\ lockedInputs' = [o \in Output |-> IF o \in released THEN None ELSE lockedInputs[o]]
      /\ requests' = [t \in Tx |-> IF t \in requested THEN None ELSE requests[t]]
      /\ rejected' = rejected \ requested
      /\ votes' \subseteq votes /\ \A v \in votes : v[2] \notin requested => v \in votes'
      /\ unresolved' = unresolved \ Old
      /\ UNCHANGED <<mempool, confirmed, now>>
  BY DEF Clean
<1>2. requested \subseteq Old
  OBVIOUS
<1> HIDE DEF requested, released
<1>3. TypeOK'
  BY <1>1 DEF SwiftInv, TypeOK
<1>4. ASSUME NEW t \in Tx, locks'[t] # None
      PROVE  locks[t] = locks'[t] /\ t \notin requested
  BY <1>1, <1>2, <1>4
<1>5. CountedSeen'
  <2>1. ASSUME NEW u \in Tx, NEW m \in Masternode, locks'[u] # None
        PROVE  \/ Signed(locks'[u], m) = 0
               \/ Signed(locks'[u], m) = 1 /\ <<m, u>> \in votes'
    <3>1. locks[u] = locks'[u] /\ u \notin requested
      BY <1>4, <2>1
    <3>2. <<m, u>> \in votes => <<m, u>> \in votes'
      BY <1>1, <3>1
    <3> QED  BY <2>1, <3>1, <3>2 DEF SwiftInv, CountedSeen
  <2> QED  BY <2>1 DEF CountedSeen, Signed
<1>6. RejectedLockWins'
  <2> SUFFICES ASSUME NEW u \in rejected', u \notin unresolved', u \in Completed(locks'),
                      \A o \in Inputs[u] : lockedInputs'[o] = u
               PROVE  \A w \in confirmed' : ~Conflicting(u, w)
    BY DEF RejectedLockWins
  <2>1. u \in rejected /\ u \in Tx /\ u # None /\ Inputs[u] \subseteq Output
    BY <1>1, SwiftAssumption DEF SwiftInv, TypeOK
  <2>2. u \in Completed(locks) /\ u \notin unresolved
    <3>1. locks'[u] # None /\ IsComplete(locks'[u])
      BY DEF Completed
    <3>2. u \in Tx /\ u \notin Old
      BY <1>1, <2>1, <3>1
    <3> QED  BY <1>1, <1>4, <3>1, <3>2 DEF Completed
  <2>3. \A o \in Inputs[u] : lockedInputs[o] = u
    BY <1>1, <2>1
  <2> QED  BY <1>1, <2>1, <2>2, <2>3 DEF SwiftInv, RejectedLockWins
<1> QED  BY <1>3, <1>5, <1>6 DEF SwiftInv

LEMMA TickStep ==
  ASSUME SwiftInv, Tick \/ UNCHANGED vars
  PROVE  SwiftInv'
<1>1. /\ now' \in 0 .. MaxTime /\ now <= now'
      /\ UNCHANGED <<requests, rejected, votes, locks, lockedInputs, mempool, confirmed, unresolved>>
  BY SwiftAssumption DEF Tick, vars, SwiftInv, TypeOK
<1>2. TypeOK'
  <2>1. \A t \in Tx : locks[t] # None => locks[t].expires <= now' + LockTime
    <3>1. \A t \in Tx : locks[t] # None => locks[t] \in Lock
      BY DEF SwiftInv, TypeOK
    <3> QED  BY <1>1, <3>1, SwiftAssumption DEF SwiftInv, TypeOK, Lock
  <2> QED  BY <1>1, <2>1 DEF SwiftInv, TypeOK
<1>3. CountedSeen'
  BY <1>1 DEF SwiftInv, CountedSeen, Signed
<1>4. RejectedLockWins'
  BY <1>1 DEF SwiftInv, RejectedLockWins
<1> QED  BY <1>2, <1>3, <1>4 DEF SwiftInv

-----------------------------------------------------------------------------
LEMMA InitInv == Init => SwiftInv
<1> SUFFICES ASSUME Init  PROVE SwiftInv
  OBVIOUS
<1>1. TypeOK
  BY SwiftAssumption DEF Init, TypeOK
<1>2. CountedSeen /\ RejectedLockWins
  BY DEF Init, CountedSeen, RejectedLockWins
<1> QED  BY <1>1, <1>2 DEF SwiftInv

LEMMA NextInv == SwiftInv /\ [Next]_vars => SwiftInv'
<1> SUFFICES ASSUME SwiftInv, [Next]_vars  PROVE SwiftInv'
  OBVIOUS
<1>1. ASSUME NEW t \in Tx, NEW aged \in BOOLEAN,
             AcceptRequest(t, aged) \/ RejectRequest(t, aged) \/ SendRequest(t, aged)
      PROVE  SwiftInv'
  BY <1>1, AcceptStep, RejectStep, SendStep
<1>2. ASSUME NEW m \in Masternode, NEW t \in Tx,
             DropVote(m, t) \/ \E right \in BOOLEAN : CountVote(m, t, right)
      PROVE  SwiftInv'
  BY <1>2, DropStep, VoteStep
<1>3. ASSUME NEW t \in Tx, Confirm(t)  PROVE SwiftInv'
  BY <1>3, ConfirmStep
<1>4. CASE Clean
  BY <1>4, CleanStep
<1>5. CASE Tick \/ UNCHANGED vars
  BY <1>5, TickStep
<1> QED  BY <1>1, <1>2, <1>3, <1>4, <1>5 DEF Next

LEMMA SwiftInvHolds == Spec => []SwiftInv
<1> QED  BY InitInv, NextInv, PTL DEF Spec

\* Requests, votes, locks and locked inputs keep their types, and no lock outlives its hour.
THEOREM TypeCorrect == Spec => []TypeOK
<1>1. SwiftInv => TypeOK
  BY DEF SwiftInv
<1> QED  BY <1>1, SwiftInvHolds, PTL

\* A masternode's vote counts once towards a lock, for any number of masternodes and
\* any order of votes, expiries and conflicts.
THEOREM VotesOnce == Spec => []VotesCountOnce
<1>1. SwiftInv => VotesCountOnce
  <2> SUFFICES ASSUME SwiftInv, NEW t \in Tx, NEW m \in Masternode, locks[t] # None
               PROVE  Signed(locks[t], m) <= 1
    BY DEF VotesCountOnce, Signed
  <2>1. Signed(locks[t], m) \in {0, 1}
    BY DEF SwiftInv, CountedSeen
  <2> QED  BY <2>1
<1> QED  BY <1>1, SwiftInvHolds, PTL

\* No block keeps a transaction that spends what the lock of a refused request has, from
\* the vote or refusal that completes it on; only the sender can complete it otherwise.
THEOREM RejectedWins == Spec => []RejectedLockWins
<1>1. SwiftInv => RejectedLockWins
  BY DEF SwiftInv
<1> QED  BY <1>1, SwiftInvHolds, PTL

NotStolen(o) ==
  lockedInputs'[o] \notin {None, lockedInputs[o]} =>
       /\ lockedInputs[o] = None
       /\ LET t == lockedInputs'[o]
          IN  t \in rejected' \cup Completed(locks')

LEMMA StepSteals == SwiftInv /\ [Next]_vars => \A o \in Output : NotStolen(o)
<1> SUFFICES ASSUME SwiftInv, [Next]_vars, NEW o \in Output  PROVE NotStolen(o)
  OBVIOUS
<1>1. CASE lockedInputs' = lockedInputs
  BY <1>1 DEF NotStolen
<1>2. ASSUME NEW t \in Tx, NEW aged \in BOOLEAN, RejectRequest(t, aged)
      PROVE  NotStolen(o)
  <2>1. lockedInputs' = InputsLockedFor(t, Inputs[t]) /\ t \in rejected'
    BY <1>2 DEF RejectRequest
  <2>2. lockedInputs'[o] = lockedInputs[o] \/ (lockedInputs[o] = None /\ lockedInputs'[o] = t)
    BY <2>1, LockedForType DEF SwiftInv
  <2> QED  BY <2>1, <2>2 DEF NotStolen
<1>3. ASSUME NEW m \in Masternode, NEW t \in Tx, NEW right \in BOOLEAN,
             CountVote(m, t, right), lockedInputs' # lockedInputs
      PROVE  NotStolen(o)
  <2> DEFINE lock == Counted(m, t, right)
             L == [locks EXCEPT ![t] = lock]
  <2>1. IsComplete(L[t]) /\ locks' = L /\ lockedInputs' = InputsLockedFor(t, RequestInputs(t))
    BY <1>3, VoteCases, Zenon
  <2>2. lock \in Lock
    BY CountedType DEF SwiftInv
  <2> HIDE DEF lock
  <2>3. L[t] = lock
    BY DEF SwiftInv, TypeOK
  <2>4. t \in Completed(locks')
    BY <2>1, <2>2, <2>3, SwiftAssumption DEF Completed
  <2>5. lockedInputs'[o] = lockedInputs[o] \/ (lockedInputs[o] = None /\ lockedInputs'[o] = t)
    BY <2>1, LockedForType DEF SwiftInv
  <2> QED  BY <2>4, <2>5 DEF NotStolen
<1>4. CASE Clean
  <2>1. lockedInputs'[o] \in {None, lockedInputs[o]}
    BY <1>4 DEF Clean
  <2> QED  BY <2>1 DEF NotStolen
<1> QED
  BY <1>1, <1>2, <1>3, <1>4
  DEF Next, vars, AcceptRequest, SendRequest, DropVote, Confirm, Tick

\* An input's lock never passes from one request to another, and is had only by a
\* refused request or one with enough votes.
THEOREM LocksStay == Spec => LocksAreNotStolen
<1>1. SwiftInv /\ [Next]_vars => [\A o \in Output : NotStolen(o)]_vars
  BY StepSteals
<1>2. [\A o \in Output : NotStolen(o)]_vars =>
        [\A o \in Output : lockedInputs'[o] \notin {None, lockedInputs[o]} =>
           /\ lockedInputs[o] = None
           /\ LET t == lockedInputs'[o]
              IN  t \in rejected' \cup Completed(locks')]_vars
  BY DEF NotStolen
<1> QED  BY <1>1, <1>2, SwiftInvHolds, PTL DEF Spec, LocksAreNotStolen
================================================================================
