-------------------------------- MODULE SwiftTX --------------------------------
(***************************************************************************)
(* Transaction locks of swifttx.cpp in one node: lock requests ("ix"), the *)
(* votes of masternodes ("txlvote"), the inputs they lock, and what the    *)
(* locks do to the memory pool and to blocks.                              *)
(*                                                                         *)
(* Tx are lock requests of which some spend the same outputs.  A vote has  *)
(* the height of the request or another one (right).  A request finds its  *)
(* inputs old enough or not, and the pool may refuse it for reasons of its *)
(* own; a masternode may be unknown, or have the wrong rank or signature,  *)
(* when its vote is looked at.  SPORK_2 and SPORK_3 are active, the node   *)
(* is synchronized, and every block is among the last 16.                  *)
(***************************************************************************)
EXTENDS Integers, FiniteSetsExt

CONSTANTS
  Tx,          \* transactions that ask for a lock
  Output,      \* COutPoint
  Inputs,      \* the outputs a transaction spends
  Masternode,  \* SWIFTTX_SIGNATURES_TOTAL: the masternodes that may vote
  Self,        \* this node, when it is one of them
  Required,    \* SWIFTTX_SIGNATURES_REQUIRED
  LockTime,    \* nExpiration - GetTime()
  MaxTime,     \* bound on the clock
  None

\* A CTransactionLock: whether nBlockHeight is known, how often vecConsensusVotes
\* has a vote of a masternode with the right and with another height.
Lock == [known : BOOLEAN, sigs : [Masternode -> [right : Nat, wrong : Nat]], expires : Nat]

ASSUME SwiftAssumption ==
  /\ Inputs \in [Tx -> SUBSET Output]
  /\ Required \in Nat /\ LockTime \in Nat /\ MaxTime \in Nat
  /\ None \notin Tx /\ None \notin Lock

VARIABLES
  requests,      \* mapTxLockReq: "tx", or "empty" when operator[] made the entry
  rejected,      \* mapTxLockReqRejected
  votes,         \* mapTxLockVote, keyed by masternode and transaction
  locks,         \* mapTxLocks
  lockedInputs,  \* mapLockedInputs
  mempool,
  confirmed,     \* transactions of Tx in the active chain
  unresolved,    \* history: locks that the sender completed, with no vote counted since
  now

vars == <<requests, rejected, votes, locks, lockedInputs, mempool, confirmed, unresolved, now>>

NoVotes == [m \in Masternode |-> [right |-> 0, wrong |-> 0]]

NewLock(known) == [known |-> known, sigs |-> NoVotes, expires |-> now + LockTime]

Signatures(sigs) == MapThenSumSet(LAMBDA m : sigs[m].right, Masternode)
CountSignatures(lock) == IF lock.known THEN Signatures(lock.sigs) ELSE -1
IsComplete(lock) == CountSignatures(lock) >= Required
Completed(L) == {t \in Tx : L[t] # None /\ IsComplete(L[t])}

Init ==
  /\ requests = [t \in Tx |-> None]
  /\ rejected = {}
  /\ votes = {}
  /\ locks = [t \in Tx |-> None]
  /\ lockedInputs = [o \in Output |-> None]
  /\ mempool = {}
  /\ confirmed = {}
  /\ unresolved = {}
  /\ now = 0

\* The outputs of S that are locked for another transaction than t.
Taken(S, t) == {o \in S : lockedInputs[o] \notin {None, t}}
Conflicting(t, u) == t # u /\ Inputs[t] \cap Inputs[u] # {}

\* CreateNewLock, when the inputs are old enough.
LocksWith(t, aged) ==
  IF ~aged THEN locks
  ELSE [locks EXCEPT ![t] = IF @ = None THEN NewLock(TRUE) ELSE [@ EXCEPT !.known = TRUE]]

\* Faulty variant: an input that is locked already is locked again.
InputsTakenFor(t, S) == [o \in Output |-> IF o \in S THEN t ELSE lockedInputs[o]]

\* Those of S that are free get locked for t.
InputsLockedFor(t, S) ==
  [o \in Output |-> IF o \in S /\ lockedInputs[o] = None THEN t ELSE lockedInputs[o]]

\* CheckForConflictingLocks finds that outputs of S are locked for others.
Expired(lock) == IF lock = None THEN None ELSE [lock EXCEPT !.expires = now]
CancelledBy(t, S, L) ==
  {[u \in Tx |-> IF u \in {t, lockedInputs[o]} THEN Expired(L[u]) ELSE L[u]] : o \in Taken(S, t)}

\* Faulty variant: the blocks are left alone.
ReprocessNothing(inputs) == UNCHANGED <<confirmed, mempool>>

\* ReprocessBlocks: every block is disconnected and checked against the inputs
\* that are locked now; what they refuse cannot return to the pool either.
Reprocess(inputs) ==
  LET refused == {u \in confirmed : \E o \in Inputs[u] : inputs[o] \notin {None, u}}
  IN  /\ confirmed' = confirmed \ refused
      /\ UNCHANGED mempool

-------------------------------------------------------------------------------
\* AcceptToMemoryPool.
Acceptable(t) ==
  /\ t \notin mempool \cup confirmed
  /\ \A u \in mempool \cup confirmed : ~Conflicting(t, u)
  /\ Taken(Inputs[t], t) = {}

\* The node's own vote is stored, not counted.
OwnVote(t) == IF Self \in Masternode THEN {<<Self, t>>} ELSE {}

IsNew(t) == requests[t] = None /\ t \notin rejected
AcceptRequest(t, aged) ==
  /\ IsNew(t) /\ Acceptable(t)
  /\ locks' = LocksWith(t, aged)
  /\ mempool' = mempool \cup {t}
  /\ votes' \in {votes, votes \cup OwnVote(t)}
  /\ requests' = [requests EXCEPT ![t] = "tx"]
  /\ UNCHANGED <<rejected, lockedInputs, confirmed, unresolved, now>>

\* The pool refuses it.  Its free inputs are locked; if its lock is complete
\* already, blocks that spend them otherwise are thrown out.
RejectRequest(t, aged) ==
  /\ IsNew(t)
  /\ rejected' = rejected \cup {t}
  /\ lockedInputs' = InputsLockedFor(t, Inputs[t])
  /\ LET L == LocksWith(t, aged)
     IN  IF t \notin Completed(L)
         THEN locks' = L /\ UNCHANGED <<requests, confirmed, mempool>>
         ELSE IF Taken(Inputs[t], t) # {}
         THEN locks' \in CancelledBy(t, Inputs[t], L) /\ UNCHANGED <<requests, confirmed, mempool>>
         ELSE /\ locks' = L
              /\ Reprocess(lockedInputs')
              /\ requests' = [requests EXCEPT ![t] = "tx"]
  /\ UNCHANGED <<votes, unresolved, now>>

\* sendrawtransaction with swiftx, or the wallet.  A request that was refused before, or
\* an entry that operator[] made, does not stop it; the entry stays as it is.  When votes
\* wait under an unknown height this completes the lock, and nothing resolves conflicts.
SendRequest(t, aged) ==
  /\ t \notin mempool \cup confirmed
  /\ requests' = [requests EXCEPT ![t] = IF @ = None THEN "tx" ELSE @]
  /\ locks' = LocksWith(t, aged)
  /\ unresolved' = unresolved \cup (Completed(locks') \ Completed(locks))
  /\ mempool' \in {mempool} \cup IF Acceptable(t) THEN {mempool \cup {t}} ELSE {}
  /\ UNCHANGED <<rejected, votes, lockedInputs, confirmed, now>>

-------------------------------------------------------------------------------
\* Faulty variant: a vote is not looked up among those seen.
NotSeenOrNot(m, t) == TRUE
NotSeen(m, t) == <<m, t>> \notin votes

\* The vote of a masternode that is unknown, ranks too low, or signs wrongly.
DropVote(m, t) ==
  /\ NotSeen(m, t)
  /\ votes' = votes \cup {<<m, t>>}
  /\ UNCHANGED <<requests, rejected, locks, lockedInputs, mempool, confirmed, unresolved, now>>

\* AddSignature.
Counted(m, t, right) ==
  LET lock == IF locks[t] = None THEN NewLock(FALSE) ELSE locks[t]
  IN  IF right THEN [lock EXCEPT !.sigs[m].right = @ + 1]
               ELSE [lock EXCEPT !.sigs[m].wrong = @ + 1]

\* ProcessConsensusVote reads the request with operator[], which makes an empty
\* transaction of one that is not there.
RequestInputs(t) == IF requests[t] = "tx" THEN Inputs[t] ELSE {}

CountVote(m, t, right) ==
  /\ NotSeen(m, t)
  /\ votes' = votes \cup {<<m, t>>}
  /\ LET L == [locks EXCEPT ![t] = Counted(m, t, right)]
     IN  IF ~IsComplete(L[t])
         THEN locks' = L /\ UNCHANGED <<requests, lockedInputs, confirmed, mempool, unresolved>>
         ELSE /\ unresolved' = unresolved \ {t}
              /\ requests' = [requests EXCEPT ![t] = IF @ = None THEN "empty" ELSE @]
              /\ IF Taken(RequestInputs(t), t) # {}
                 THEN /\ locks' \in CancelledBy(t, RequestInputs(t), L)
                      /\ UNCHANGED <<lockedInputs, confirmed, mempool>>
                 ELSE /\ locks' = L
                      /\ lockedInputs' = InputsLockedFor(t, RequestInputs(t))
                      /\ IF t \in rejected THEN Reprocess(lockedInputs')
                                           ELSE UNCHANGED <<confirmed, mempool>>
  /\ UNCHANGED <<rejected, now>>

-------------------------------------------------------------------------------
\* A block with t becomes the tip, when CheckBlock finds no lock against it.
Confirm(t) ==
  /\ t \notin confirmed
  /\ \A u \in confirmed : ~Conflicting(t, u)
  /\ Taken(Inputs[t], t) = {}
  /\ confirmed' = confirmed \cup {t}
  /\ mempool' = {u \in mempool : u # t /\ ~Conflicting(t, u)}
  /\ UNCHANGED <<requests, rejected, votes, locks, lockedInputs, unresolved, now>>

\* CleanTransactionLocksList.
Old == {t \in Tx : locks[t] # None /\ now > locks[t].expires}
Clean ==
  /\ Old # {}
  /\ locks' = [t \in Tx |-> IF t \in Old THEN None ELSE locks[t]]
  /\ unresolved' = unresolved \ Old
  /\ LET requested == {t \in Old : requests[t] # None}
         released == UNION {RequestInputs(t) : t \in requested}
     IN  /\ lockedInputs' = [o \in Output |-> IF o \in released THEN None ELSE lockedInputs[o]]
         /\ requests' = [t \in Tx |-> IF t \in requested THEN None ELSE requests[t]]
         /\ rejected' = rejected \ requested
         /\ votes' = {v \in votes : v[2] \in requested => locks[v[2]].sigs[v[1]]
                                                            = [right |-> 0, wrong |-> 0]}
  /\ UNCHANGED <<mempool, confirmed, now>>

Tick ==
  /\ now < MaxTime
  /\ now' = now + 1
  /\ UNCHANGED <<requests, rejected, votes, locks, lockedInputs, mempool, confirmed, unresolved>>

Next ==
  \/ \E t \in Tx, aged \in BOOLEAN :
       AcceptRequest(t, aged) \/ RejectRequest(t, aged) \/ SendRequest(t, aged)
  \/ \E m \in Masternode, t \in Tx :
       DropVote(m, t) \/ \E right \in BOOLEAN : CountVote(m, t, right)
  \/ \E t \in Tx : Confirm(t)
  \/ Clean
  \/ Tick

Spec == Init /\ [][Next]_vars

-------------------------------------------------------------------------------
(* Properties. *)

\* The maps of requests, locks and locked inputs keep their types, and no lock
\* expires later than LockTime after the present.
TypeOK ==
  /\ requests \in [Tx -> {None, "tx", "empty"}]
  /\ rejected \subseteq Tx /\ mempool \subseteq Tx /\ confirmed \subseteq Tx
  /\ unresolved \subseteq Tx
  /\ votes \subseteq Masternode \X Tx
  /\ locks \in [Tx -> Lock \cup {None}]
  /\ \A t \in Tx : locks[t] # None => locks[t].expires <= now + LockTime
  /\ lockedInputs \in [Output -> Tx \cup {None}]
  /\ now \in 0 .. MaxTime

\* A masternode's vote counts once towards a lock, although votes are forgotten
\* and relayed again, and whatever heights they name.
VotesCountOnce ==
  \A t \in Tx, m \in Masternode :
    locks[t] # None => locks[t].sigs[m].right + locks[t].sigs[m].wrong <= 1

\* An input is locked by enough votes or by a request the pool refused, and its
\* lock never passes from one transaction to another.
LocksAreNotStolen ==
  [][\A o \in Output : lockedInputs'[o] \notin {None, lockedInputs[o]} =>
       /\ lockedInputs[o] = None
       /\ LET t == lockedInputs'[o]
          IN  t \in rejected' \cup Completed(locks')]_vars

\* A request the pool had refused wins when a vote or its own arrival completes its lock:
\* no block keeps a transaction that spends the same inputs.  A lock that the sender
\* completed, by telling the height of votes that had come before, waits for one more vote.
RejectedLockWins ==
  \A t \in rejected \ unresolved :
    t \in Completed(locks) /\ (\A o \in Inputs[t] : lockedInputs[o] = t)
    => \A u \in confirmed : ~Conflicting(t, u)
================================================================================
