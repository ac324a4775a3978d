--------------------------- MODULE CheckQueueProofs ---------------------------
(***************************************************************************)
(* Proofs about CheckQueue for any finite set of workers, any batch size   *)
(* and any number of checks.  nTotal exceeds nIdle by the threads at work, *)
(* nTodo counts what is queued or held, and while a block is checked the   *)
(* verdict so far, the queue and the batches together pass exactly when    *)
(* every added check does.  Interruptions leave nIdle and nTotal too high  *)
(* by the same amount, so that their difference stays exact.               *)
(***************************************************************************)
EXTENDS CheckQueue, FiniteSetTheorems, TLAPS

Working(states) == {t \in Thread : states[t] = "working"}
Sleeping(states) == {t \in Thread : states[t] \in {"waiting", "awake"}}

Out == {"outside", "exited"}
Checking == {"adding", "waiting", "unwinding"}

CountersOK ==
  /\ nTotal = nIdle + Cardinality(Working(state))
  /\ nIdle >= Cardinality(Sleeping(state))
  /\ TodoCountsUnfinished

\* The threads at work are those that hold checks, and the master is in Loop from Wait() or
\* the destructor on.
ThreadsOK ==
  /\ \A t \in Thread : state[t] = "working" <=> batch[t] # <<>>
  /\ state[Master] = "outside" <=> phase \in Out \cup {"adding"}

\* A queue nobody uses is as it was constructed.
OutOK ==
  phase \in Out => queue = <<>> /\ Working(state) = {} /\ fAllOk = TRUE

Passing(allOk, threads) ==
  /\ allOk /\ AllPass(queue)
  /\ \A t \in threads : fOk[t] /\ AllPass(batch[t])

VerdictOK ==
  /\ VerdictIsRight
  /\ phase \in Checking => (Passing(fAllOk, Working(state)) <=> AllPass(added))

QueueInv == TypeOK /\ CountersOK /\ ThreadsOK /\ OutOK /\ VerdictOK

-----------------------------------------------------------------------------
\* The share of a thread is within what is shared.
LEMMA ShareBounds ==
  ASSUME NEW n \in Nat, NEW k \in Nat \ {0}
  PROVE  n \div k \in 0 .. n
BY SMT

\* A thread never takes more than there is, nor nothing.
LEMMA BatchBounds ==
  ASSUME TypeOK, queue # <<>>, NEW total \in Nat, NEW idle \in Nat
  PROVE  BatchFor(total, idle) \in 1 .. Len(queue)
<1> DEFINE share == Len(queue) \div (total + idle + 1)
<1>1. Len(queue) \in Nat /\ Len(queue) >= 1
  BY DEF TypeOK
<1>2. share \in 0 .. Len(queue)
  BY <1>1, ShareBounds
<1> HIDE DEF share
<1>3. BatchSize \in Nat \ {0}
  BY ConstantsAssumption
<1>4. BatchFor(total, idle) =
        IF (IF share < BatchSize THEN share ELSE BatchSize) < 1 THEN 1
        ELSE (IF share < BatchSize THEN share ELSE BatchSize)
  BY DEF BatchFor, share
<1> QED  BY <1>1, <1>2, <1>3, <1>4

\* All checks of a sequence pass when those before and after a place do.
LEMMA SplitPasses ==
  ASSUME NEW s \in Seq(BOOLEAN), NEW n \in 0 .. Len(s)
  PROVE  /\ SubSeq(s, 1, n) \in Seq(BOOLEAN)
         /\ SubSeq(s, n + 1, Len(s)) \in Seq(BOOLEAN)
         /\ Len(SubSeq(s, 1, n)) = n
         /\ Len(SubSeq(s, n + 1, Len(s))) = Len(s) - n
         /\ AllPass(s) <=> AllPass(SubSeq(s, 1, n)) /\ AllPass(SubSeq(s, n + 1, Len(s)))
<1> DEFINE front == SubSeq(s, 1, n)
           back == SubSeq(s, n + 1, Len(s))
<1>1. /\ front \in Seq(BOOLEAN) /\ Len(front) = n
      /\ \A i \in 1 .. n : front[i] = s[i]
  OBVIOUS
<1>2. /\ back \in Seq(BOOLEAN) /\ Len(back) = Len(s) - n
      /\ \A i \in 1 .. (Len(s) - n) : back[i] = s[n + i]
  OBVIOUS
<1>3. DOMAIN s = 1 .. Len(s) /\ DOMAIN front = 1 .. n /\ DOMAIN back = 1 .. (Len(s) - n)
  BY <1>1, <1>2
<1> HIDE DEF front, back
<1>4. ASSUME AllPass(s)  PROVE AllPass(front) /\ AllPass(back)
  <2>1. \A i \in 1 .. n : i \in 1 .. Len(s)
    OBVIOUS
  <2>2. \A i \in 1 .. (Len(s) - n) : n + i \in 1 .. Len(s)
    OBVIOUS
  <2> QED  BY <1>1, <1>2, <1>3, <1>4, <2>1, <2>2, Zenon DEF AllPass
<1>5. ASSUME AllPass(front), AllPass(back), NEW i \in 1 .. Len(s)  PROVE s[i]
  <2>1. CASE i <= n
    <3>1. i \in 1 .. n
      BY <2>1
    <3> QED  BY <1>1, <1>3, <1>5, <3>1, Zenon DEF AllPass
  <2>2. CASE i > n
    <3>1. i - n \in 1 .. (Len(s) - n) /\ n + (i - n) = i
      BY <2>2
    <3>2. back[i - n] = s[i]
      BY <1>2, <3>1
    <3> QED  BY <1>3, <1>5, <3>1, <3>2, Zenon DEF AllPass
  <2> QED  BY <2>1, <2>2
<1>6. AllPass(s) <=> AllPass(front) /\ AllPass(back)
  BY <1>3, <1>4, <1>5, Zenon DEF AllPass
<1> QED  BY <1>1, <1>2, <1>6 DEF front, back

\* The same for a sequence put together from two.
LEMMA JoinPasses ==
  ASSUME NEW s \in Seq(BOOLEAN), NEW r \in Seq(BOOLEAN)
  PROVE  /\ s \o r \in Seq(BOOLEAN) /\ Len(s \o r) = Len(s) + Len(r)
         /\ AllPass(s \o r) <=> AllPass(s) /\ AllPass(r)
<1> DEFINE sr == s \o r
<1>1. /\ sr \in Seq(BOOLEAN) /\ Len(sr) = Len(s) + Len(r)
      /\ Len(s) \in 0 .. Len(sr)
  OBVIOUS
<1>2. SubSeq(sr, 1, Len(s)) = s /\ SubSeq(sr, Len(s) + 1, Len(sr)) = r
  OBVIOUS
<1> HIDE DEF sr
<1>3. AllPass(sr) <=> AllPass(SubSeq(sr, 1, Len(s)))
                      /\ AllPass(SubSeq(sr, Len(s) + 1, Len(sr)))
  BY ONLY <1>1, SplitPasses, Zenon
<1>4. AllPass(sr) <=> AllPass(s) /\ AllPass(r)
  BY ONLY <1>2, <1>3, Zenon
<1> QED  BY <1>1, <1>4 DEF sr

-----------------------------------------------------------------------------
LEMMA ThreadsFinite ==
  ASSUME NEW S \in SUBSET Thread
  PROVE  IsFiniteSet(S) /\ Cardinality(S) \in Nat
BY ConstantsAssumption, FS_AddElement, FS_Subset, FS_CardinalityType, FS_EmptySet DEF Thread

\* The number of threads in a set without one of them.
LEMMA WithoutThread ==
  ASSUME NEW S \in SUBSET Thread, NEW t \in Thread
  PROVE  /\ Cardinality(S \ {t}) \in Nat
         /\ t \in S => Cardinality(S) = Cardinality(S \ {t}) + 1
         /\ t \notin S => S \ {t} = S
<1>1. IsFiniteSet(S) /\ Cardinality(S) \in Nat
  BY ThreadsFinite
<1>2. Cardinality(S \ {t}) \in Nat
  BY ThreadsFinite
<1>3. Cardinality(S \ {t}) = IF t \in S THEN Cardinality(S) - 1 ELSE Cardinality(S)
  BY <1>1, FS_RemoveElement
<1> QED  BY <1>1, <1>2, <1>3

\* The places of n checks are n.
LEMMA FirstPlaces ==
  ASSUME NEW n \in Nat
  PROVE  IsFiniteSet(1 .. n) /\ Cardinality(1 .. n) = n
<1>1. /\ IsFiniteSet(1 .. n)
      /\ Cardinality(1 .. n) = IF 1 > n THEN 0 ELSE n - 1 + 1
  <2>1. 1 \in Int /\ n \in Int
    OBVIOUS
  <2> QED  BY <2>1, FS_Interval, Zenon
<1> DEFINE k == Cardinality(1 .. n)
<1>2. k = IF 1 > n THEN 0 ELSE n - 1 + 1
  BY <1>1
<1> HIDE DEF k
<1>3. k = n
  BY <1>2
<1> QED  BY <1>1, <1>3 DEF k

\* A thread without places holds nothing.
LEMMA NoPlaces ==
  ASSUME NEW u, NEW r \in Seq(BOOLEAN), {u} \X DOMAIN r = {}
  PROVE  r = <<>>
<1>1. ASSUME NEW i \in DOMAIN r  PROVE FALSE
  <2>1. <<u, i>> \in {u} \X DOMAIN r
    BY <1>1
  <2> QED  BY <2>1
<1>2. DOMAIN r = 1 .. Len(r) /\ Len(r) \in Nat
  OBVIOUS
<1>3. Len(r) = 0
  BY <1>1, <1>2
<1> QED  BY <1>3

\* The checks in hand when one thread changes its batch.
LEMMA HeldByOthers ==
  ASSUME NEW b \in [Thread -> Seq(BOOLEAN)], NEW t \in Thread, NEW s \in Seq(BOOLEAN)
  PROVE  LET others == Cardinality(Held([b EXCEPT ![t] = <<>>])) IN
         /\ others \in Nat
         /\ Cardinality(Held([b EXCEPT ![t] = s])) = others + Len(s)
         /\ Cardinality(Held(b)) = others + Len(b[t])
         /\ others = 0 => \A u \in Thread \ {t} : b[u] = <<>>
<1> DEFINE Own(r) == {t} \X (1 .. Len(r))
           places == {{u} \X DOMAIN b[u] : u \in Thread \ {t}}
           rest == UNION places
<1>1. ASSUME NEW r \in Seq(BOOLEAN)
      PROVE  IsFiniteSet(Own(r)) /\ Cardinality(Own(r)) = Len(r)
  <2>1. IsFiniteSet(1 .. Len(r)) /\ Cardinality(1 .. Len(r)) = Len(r) /\ Len(r) \in Nat
    BY FirstPlaces
  <2>2. IsFiniteSet({t}) /\ Cardinality({t}) = 1
    BY FS_Singleton, Zenon
  <2>3. /\ IsFiniteSet(Own(r))
        /\ Cardinality(Own(r)) = Cardinality({t}) * Cardinality(1 .. Len(r))
    BY <2>1, <2>2, FS_Product, Zenon
  <2> QED  BY <2>1, <2>2, <2>3
<1>2. IsFiniteSet(rest)
  <2> DEFINE place == [u \in Thread \ {t} |-> {u} \X DOMAIN b[u]]
  <2>1. IsFiniteSet(Thread \ {t})
    BY ThreadsFinite
  <2>2. place \in Surjection(Thread \ {t}, places)
    BY DEF Surjection
  <2>3. IsFiniteSet(places)
    BY <2>1, <2>2, FS_Surjection, Zenon
  <2>4. ASSUME NEW u \in Thread \ {t}  PROVE IsFiniteSet({u} \X DOMAIN b[u])
    <3>1. DOMAIN b[u] = 1 .. Len(b[u]) /\ Len(b[u]) \in Nat
      OBVIOUS
    <3>2. IsFiniteSet(DOMAIN b[u])
      BY <3>1, FirstPlaces
    <3>3. IsFiniteSet({u})
      BY FS_Singleton, Zenon
    <3> QED  BY <3>2, <3>3, FS_Product, Zenon
  <2>5. \A place1 \in places : IsFiniteSet(place1)
    BY <2>4, Zenon
  <2> HIDE DEF places
  <2> QED  BY <2>3, <2>5, FS_UNION, Zenon
<1>3. ASSUME NEW r \in Seq(BOOLEAN)
      PROVE  Held([b EXCEPT ![t] = r]) = rest \cup Own(r)
  <2>1. DOMAIN r = 1 .. Len(r)
    OBVIOUS
  <2>2. \A u \in Thread : [b EXCEPT ![t] = r][u] = IF u = t THEN r ELSE b[u]
    OBVIOUS
  <2> QED  BY <2>1, <2>2, Zenon DEF Held
<1>4. ASSUME NEW r \in Seq(BOOLEAN)  PROVE rest \cap Own(r) = {}
  OBVIOUS
<1>5. Cardinality(rest) \in Nat /\ Cardinality({}) = 0
  BY <1>2, FS_CardinalityType, FS_EmptySet
<1> HIDE DEF rest
<1>6. ASSUME NEW r \in Seq(BOOLEAN)
      PROVE  Cardinality(Held([b EXCEPT ![t] = r])) = Cardinality(rest) + Len(r)
  <2> HIDE DEF Own
  <2>1. IsFiniteSet(Own(r)) /\ Cardinality(Own(r)) = Len(r) /\ rest \cap Own(r) = {}
    BY <1>1, <1>4, Zenon
  <2>2. Cardinality(rest \cup Own(r)) =
          Cardinality(rest) + Cardinality(Own(r)) - Cardinality(rest \cap Own(r))
    BY <1>2, <2>1, FS_Union, Zenon
  <2>3. Cardinality(rest \cup Own(r)) = Cardinality(rest) + Len(r)
    <3>1. Cardinality(rest \cap Own(r)) = 0
      BY <1>5, <2>1, Zenon
    <3>2. Len(r) \in Nat
      OBVIOUS
    <3> QED  BY ONLY <1>5, <2>1, <2>2, <3>1, <3>2
  <2> QED  BY <1>3, <2>3, Zenon
<1>7. Cardinality(Held([b EXCEPT ![t] = <<>>])) = Cardinality(rest)
  <2>1. <<>> \in Seq(BOOLEAN) /\ Len(<<>>) = 0
    OBVIOUS
  <2>2. Cardinality(Held([b EXCEPT ![t] = <<>>])) = Cardinality(rest) + Len(<<>>)
    BY <1>6, <2>1, Zenon
  <2> QED  BY <1>5, <2>1, <2>2
<1>8. b = [b EXCEPT ![t] = b[t]] /\ b[t] \in Seq(BOOLEAN)
  OBVIOUS
<1>9. Cardinality(Held(b)) = Cardinality(rest) + Len(b[t])
  BY <1>6, <1>8, Zenon
<1>10. ASSUME Cardinality(rest) = 0, NEW u \in Thread \ {t}  PROVE b[u] = <<>>
  <2>1. rest = {}
    BY <1>2, <1>10, FS_EmptySet, Zenon
  <2>2. {u} \X DOMAIN b[u] \subseteq rest
    BY DEF rest
  <2>3. {u} \X DOMAIN b[u] = {} /\ b[u] \in Seq(BOOLEAN)
    BY <2>1, <2>2
  <2> QED  BY <2>3, NoPlaces, Zenon
<1>11. Cardinality(Held([b EXCEPT ![t] = s])) = Cardinality(rest) + Len(s)
  BY <1>6, Zenon
<1> QED  BY <1>5, <1>7, <1>9, <1>10, <1>11, Zenon

-----------------------------------------------------------------------------
OthersWorking(t) == Cardinality(Working(state) \ {t})
OthersSleeping(t) == Cardinality(Sleeping(state) \ {t})

\* What a thread leaves to the rest of its critical section once its clean-up
\* is done: the invariant without the thread, which still counts in total.
Entering(t, allOk, total, idle, todo, states) ==
  /\ allOk \in BOOLEAN /\ total \in Nat /\ idle \in Nat
  /\ total = idle + 1 + OthersWorking(t)
  /\ idle >= OthersSleeping(t)
  /\ todo = Len(queue) + Cardinality(Held([batch EXCEPT ![t] = <<>>]))
  /\ states \in [Thread -> ThreadState]
  /\ \A u \in Thread : states[u] # state[u] => state[u] = "waiting" /\ states[u] = "awake"
  /\ t = Master => phase \in {"waiting", "unwinding"}
  /\ phase \in Out => queue = <<>> /\ Working(state) \ {t} = {} /\ allOk = TRUE
  /\ phase \in Checking => (Passing(allOk, Working(state) \ {t}) <=> AllPass(added))

\* The threads at work and asleep after one thread got a new state.
LEMMA MovedThread ==
  ASSUME NEW t \in Thread, NEW states \in [Thread -> ThreadState],
         \A u \in Thread : states[u] # state[u] => state[u] = "waiting" /\ states[u] = "awake",
         NEW s, state' = [states EXCEPT ![t] = s]
  PROVE  /\ OthersWorking(t) \in Nat /\ OthersSleeping(t) \in Nat
         /\ s = "working" => /\ Working(state') = (Working(state) \ {t}) \cup {t}
                             /\ Cardinality(Working(state')) = OthersWorking(t) + 1
                             /\ Cardinality(Sleeping(state')) = OthersSleeping(t)
         /\ s = "waiting" => /\ Working(state') = Working(state) \ {t}
                             /\ Cardinality(Working(state')) = OthersWorking(t)
                             /\ Cardinality(Sleeping(state')) = OthersSleeping(t) + 1
         /\ s = "outside" => /\ Working(state') = Working(state) \ {t}
                             /\ Cardinality(Working(state')) = OthersWorking(t)
                             /\ Cardinality(Sleeping(state')) = OthersSleeping(t)
<1> DEFINE new == state'
<1>1. /\ \A u \in Thread \ {t} : new[u] = states[u]
      /\ new[t] = s
  OBVIOUS
<1> HIDE DEF new
<1>2. Working(new) \ {t} = Working(state) \ {t}
  BY <1>1 DEF Working
<1>3. Sleeping(new) \ {t} = Sleeping(state) \ {t}
  BY <1>1 DEF Sleeping
<1>4. /\ Working(new) \subseteq Thread /\ (t \in Working(new) <=> s = "working")
      /\ Sleeping(new) \subseteq Thread /\ (t \in Sleeping(new) <=> s = "waiting" \/ s = "awake")
  BY <1>1 DEF Working, Sleeping
<1>5. /\ OthersWorking(t) \in Nat
      /\ t \in Working(new) => Cardinality(Working(new)) = OthersWorking(t) + 1
      /\ t \notin Working(new) => Working(new) = Working(state) \ {t}
  <2> DEFINE now == Working(new)
  <2>1. now \in SUBSET Thread /\ now \ {t} = Working(state) \ {t}
    BY <1>2, <1>4
  <2> HIDE DEF now
  <2>2. /\ Cardinality(now \ {t}) \in Nat
        /\ t \in now => Cardinality(now) = Cardinality(now \ {t}) + 1
        /\ t \notin now => now \ {t} = now
    BY ONLY <2>1, WithoutThread, Zenon
  <2>3. OthersWorking(t) = Cardinality(now \ {t})
    BY <2>1, Zenon DEF OthersWorking
  <2>4. /\ OthersWorking(t) \in Nat
        /\ t \in now => Cardinality(now) = OthersWorking(t) + 1
        /\ t \notin now => now = Working(state) \ {t}
    BY ONLY <2>1, <2>2, <2>3, Zenon
  <2> QED  BY <2>4 DEF now
<1>6. /\ OthersSleeping(t) \in Nat
      /\ t \in Sleeping(new) => Cardinality(Sleeping(new)) = OthersSleeping(t) + 1
      /\ t \notin Sleeping(new) => Sleeping(new) = Sleeping(state) \ {t}
  <2> DEFINE now == Sleeping(new)
  <2>1. now \in SUBSET Thread /\ now \ {t} = Sleeping(state) \ {t}
    BY <1>3, <1>4
  <2> HIDE DEF now
  <2>2. /\ Cardinality(now \ {t}) \in Nat
        /\ t \in now => Cardinality(now) = Cardinality(now \ {t}) + 1
        /\ t \notin now => now \ {t} = now
    BY ONLY <2>1, WithoutThread, Zenon
  <2>3. OthersSleeping(t) = Cardinality(now \ {t})
    BY <2>1, Zenon DEF OthersSleeping
  <2>4. /\ OthersSleeping(t) \in Nat
        /\ t \in now => Cardinality(now) = OthersSleeping(t) + 1
        /\ t \notin now => now = Sleeping(state) \ {t}
    BY ONLY <2>1, <2>2, <2>3, Zenon
  <2> QED  BY <2>4 DEF now
<1>7. s = "working" => Working(new) = (Working(state) \ {t}) \cup {t}
  BY <1>2, <1>4
<1>8. /\ t \notin Working(new) => Cardinality(Working(new)) = OthersWorking(t)
      /\ t \notin Sleeping(new) => Cardinality(Sleeping(new)) = OthersSleeping(t)
  BY <1>5, <1>6, Zenon DEF OthersWorking, OthersSleeping
<1>9. CASE s = "working"
  <2>1. t \in Working(new) /\ t \notin Sleeping(new)
    BY <1>4, <1>9
  <2>2. s # "waiting" /\ s # "outside"
    BY <1>9
  <2> QED  BY <1>5, <1>6, <1>7, <1>8, <1>9, <2>1, <2>2, Zenon DEF new
<1>10. CASE s = "waiting"
  <2>1. t \notin Working(new) /\ t \in Sleeping(new)
    BY <1>4, <1>10
  <2>2. s # "working" /\ s # "outside"
    BY <1>10
  <2> QED  BY <1>5, <1>6, <1>8, <1>10, <2>1, <2>2, Zenon DEF new
<1>11. CASE s \notin {"working", "waiting"}
  <2>1. s = "outside" => t \notin Working(new) /\ t \notin Sleeping(new)
    BY <1>4
  <2> QED  BY <1>5, <1>6, <1>8, <1>11, <2>1, Zenon DEF new
<1> QED  BY <1>9, <1>10, <1>11

LEMMA TakeStep ==
  ASSUME QueueInv, NEW t \in Thread, NEW allOk, NEW total, NEW idle, NEW todo, NEW states,
         Entering(t, allOk, total, idle, todo, states),
         Take(t, allOk, total, idle, states), nTodo' = todo, UNCHANGED stopping
  PROVE  QueueInv'
<1> DEFINE n == Len(queue) - BatchFor(total, idle)
           back == SubSeq(queue, n + 1, Len(queue))
           others == Cardinality(Held([batch EXCEPT ![t] = <<>>]))
<1>1. /\ n \in 0 .. Len(queue) /\ Len(queue) - n > 0
      /\ queue \in Seq(BOOLEAN) /\ batch \in [Thread -> Seq(BOOLEAN)]
  <2>1. BatchFor(total, idle) \in 1 .. Len(queue)
    BY BatchBounds DEF QueueInv, Take, Entering
  <2>2. Len(queue) \in Nat /\ queue \in Seq(BOOLEAN) /\ batch \in [Thread -> Seq(BOOLEAN)]
    BY DEF QueueInv, TypeOK
  <2> QED  BY <2>1, <2>2
<1>2. /\ queue' = SubSeq(queue, 1, n) /\ batch' = [batch EXCEPT ![t] = back]
      /\ fOk' = [fOk EXCEPT ![t] = allOk] /\ state' = [states EXCEPT ![t] = "working"]
      /\ fAllOk' = allOk /\ nTotal' = total /\ nIdle' = idle
      /\ UNCHANGED <<phase, early, added, result, pending, shutdown>>
      /\ queue # <<>>
  <2>1. Len(queue) - BatchFor(total, idle) + 1 = n + 1
    OBVIOUS
  <2> QED  BY <2>1 DEF Take, control, stopping
<1>3. /\ queue' \in Seq(BOOLEAN) /\ Len(queue') = n
      /\ back \in Seq(BOOLEAN) /\ Len(back) = Len(queue) - n
      /\ AllPass(queue) <=> AllPass(queue') /\ AllPass(back)
  BY <1>1, <1>2, SplitPasses
<1>4. /\ others \in Nat
      /\ Cardinality(Held(batch')) = others + Len(back)
  BY <1>1, <1>2, <1>3, HeldByOthers
<1> HIDE DEF n, back, others
<1>5. /\ OthersWorking(t) \in Nat /\ OthersSleeping(t) \in Nat
      /\ Working(state') = (Working(state) \ {t}) \cup {t}
      /\ Cardinality(Working(state')) = OthersWorking(t) + 1
      /\ Cardinality(Sleeping(state')) = OthersSleeping(t)
  <2>1. /\ states \in [Thread -> ThreadState]
        /\ \A u \in Thread : states[u] # state[u] => state[u] = "waiting" /\ states[u] = "awake"
    BY DEF Entering
  <2> QED  BY <1>2, <2>1, MovedThread
<1>6. TypeOK'
  <2>1. /\ allOk \in BOOLEAN /\ total \in Nat /\ idle \in Nat
        /\ states \in [Thread -> ThreadState] /\ "working" \in ThreadState
        /\ todo = Len(queue) + others
    BY DEF Entering, ThreadState, others
  <2>2. Len(queue) \in Nat /\ TypeOK
    BY <1>1 DEF QueueInv
  <2>3. nTodo' \in Nat
    BY <1>4, <2>1, <2>2
  <2>4. state' \in [Thread -> ThreadState] /\ fOk' \in [Thread -> BOOLEAN]
    BY <1>2, <2>1, <2>2 DEF TypeOK
  <2>5. batch' \in [Thread -> Seq(BOOLEAN)]
    BY <1>2, <1>3, <2>2 DEF TypeOK
  <2>6. UNCHANGED <<phase, early, added, result, pending, shutdown>>
    BY <1>2
  <2> QED  BY <1>2, <1>3, <2>1, <2>2, <2>3, <2>4, <2>5, <2>6 DEF TypeOK
<1>7. CountersOK'
  <2>1. nTotal' = nIdle' + Cardinality(Working(state'))
    <3>1. total = idle + 1 + OthersWorking(t) /\ idle \in Nat
      BY DEF Entering
    <3> QED  BY ONLY <1>2, <1>5, <3>1
  <2>2. nIdle' >= Cardinality(Sleeping(state'))
    BY <1>2, <1>5 DEF Entering
  <2>3. nTodo' = Len(queue') + Cardinality(Held(batch'))
    BY <1>1, <1>3, <1>4 DEF Entering, others
  <2> QED  BY <2>1, <2>2, <2>3 DEF CountersOK, TodoCountsUnfinished
<1>8. ThreadsOK'
  <2>1. ASSUME NEW u \in Thread  PROVE state'[u] = "working" <=> batch'[u] # <<>>
    <3>1. CASE u = t
      <4>1. back # <<>>
        BY <1>1, <1>3
      <4> QED  BY <1>1, <1>2, <3>1, <4>1 DEF Entering
    <3>2. CASE u # t
      <4>1. state'[u] = states[u] /\ batch'[u] = batch[u]
        BY <1>1, <1>2, <3>2 DEF Entering
      <4> QED  BY <4>1 DEF QueueInv, ThreadsOK, Entering
    <3> QED  BY <3>1, <3>2
  <2>2. state'[Master] = "outside" <=> phase' \in Out \cup {"adding"}
    <3>1. CASE t = Master
      BY <1>2, <3>1 DEF Entering, Out
    <3>2. CASE t # Master
      BY <1>2, <3>2 DEF QueueInv, ThreadsOK, Entering, Thread
    <3> QED  BY <3>1, <3>2
  <2> QED  BY <2>1, <2>2 DEF ThreadsOK
<1>9. OutOK'
  BY <1>2 DEF OutOK, Entering
<1>10. VerdictOK'
  <2>1. VerdictIsRight'
    BY <1>2 DEF QueueInv, VerdictOK, VerdictIsRight, AllPass
  <2>2. ASSUME phase' \in Checking
        PROVE  Passing(fAllOk, Working(state))' <=> AllPass(added')
    <3>1. Passing(allOk, Working(state) \ {t}) <=> AllPass(added)
      BY <1>2, <2>2 DEF Entering
    <3>3. fOk'[t] = allOk /\ batch'[t] = back
      BY <1>1, <1>2 DEF QueueInv, TypeOK
    <3>4. \A u \in Working(state) \ {t} : fOk'[u] = fOk[u] /\ batch'[u] = batch[u]
      BY <1>1, <1>2 DEF QueueInv, TypeOK, Working
    <3>6. Passing(fAllOk, Working(state))' <=>
            /\ allOk /\ AllPass(queue')
            /\ \A u \in Working(state') : fOk'[u] /\ AllPass(batch'[u])
      BY <1>2 DEF Passing, AllPass
    <3>7. Passing(fAllOk, Working(state))' <=> Passing(allOk, Working(state) \ {t})
      BY ONLY <1>3, <3>3, <1>5, <3>4, <3>6, Zenon DEF Passing
    <3> QED  BY <1>2, <3>1, <3>7
  <2> QED  BY <2>1, <2>2 DEF VerdictOK
<1> QED  BY <1>6, <1>7, <1>8, <1>9, <1>10 DEF QueueInv

LEMMA ReturnStep ==
  ASSUME QueueInv, NEW t \in Thread, NEW allOk, NEW total, NEW idle, NEW todo, NEW states,
         Entering(t, allOk, total, idle, todo, states),
         Return(t, allOk, total, idle, todo), nTodo' = todo, UNCHANGED stopping
  PROVE  QueueInv'
<1> DEFINE others == Cardinality(Held([batch EXCEPT ![t] = <<>>]))
<1>1. /\ queue = <<>> /\ t = Master /\ todo = 0 /\ result' = allOk
      /\ fAllOk' = TRUE /\ nTotal' = total - 1 /\ nIdle' = idle
      /\ batch' = [batch EXCEPT ![t] = <<>>]
      /\ state' = [state EXCEPT ![t] = "outside"]
      /\ phase' = IF phase = "unwinding" THEN "exited" ELSE "outside"
      /\ UNCHANGED <<queue, fOk, early, added, pending, shutdown>>
  BY DEF Return, stopping
<1>2. /\ batch \in [Thread -> Seq(BOOLEAN)] /\ state \in [Thread -> ThreadState]
      /\ phase \in {"waiting", "unwinding"} /\ <<>> \in Seq(BOOLEAN) /\ Len(<<>>) = 0
  BY <1>1 DEF QueueInv, TypeOK, Entering
<1>3. /\ others \in Nat
      /\ others = 0 => \A u \in Thread \ {t} : batch[u] = <<>>
  BY <1>2, HeldByOthers
<1>4. others = 0
  <2>1. todo = Len(queue) + others
    BY DEF Entering
  <2> HIDE DEF others
  <2> QED  BY <1>1, <1>2, <1>3, <2>1
<1>5. /\ OthersWorking(t) \in Nat /\ OthersSleeping(t) \in Nat
      /\ Working(state') = Working(state) \ {t}
      /\ Cardinality(Working(state')) = OthersWorking(t)
      /\ Cardinality(Sleeping(state')) = OthersSleeping(t)
  BY <1>1, <1>2, MovedThread
<1>6. Working(state') = {}
  <2>1. \A u \in Thread \ {t} : state[u] # "working"
    BY <1>3, <1>4 DEF QueueInv, ThreadsOK
  <2> QED  BY <1>5, <2>1 DEF Working
<1>7. TypeOK'
  <2>1. total - 1 \in Nat
    BY <1>5 DEF Entering
  <2> QED  BY <1>1, <1>2, <2>1 DEF QueueInv, TypeOK, Entering, ThreadState
<1>8. CountersOK'
  <2>1. nTotal' = nIdle' + Cardinality(Working(state'))
    <3>1. total = idle + 1 + OthersWorking(t) /\ idle \in Nat
      BY DEF Entering
    <3> QED  BY ONLY <1>1, <1>5, <3>1
  <2>2. nIdle' >= Cardinality(Sleeping(state'))
    BY <1>1, <1>5 DEF Entering
  <2>3. nTodo' = Len(queue') + Cardinality(Held(batch'))
    BY <1>1, <1>2, <1>4
  <2> QED  BY <2>1, <2>2, <2>3 DEF CountersOK, TodoCountsUnfinished
<1>9. ThreadsOK'
  <2>1. ASSUME NEW u \in Thread  PROVE state'[u] = "working" <=> batch'[u] # <<>>
    BY <1>1, <1>2 DEF QueueInv, ThreadsOK
  <2>2. state'[Master] = "outside" /\ phase' \in Out
    BY <1>1, <1>2 DEF Out
  <2> QED  BY <2>1, <2>2 DEF ThreadsOK
<1>10. OutOK'
  BY <1>1, <1>6 DEF OutOK
<1>11. VerdictOK'
  <2>1. Passing(allOk, Working(state) \ {t}) <=> AllPass(added)
    BY <1>2 DEF Entering, Checking
  <2>2. Passing(allOk, {}) <=> allOk
    BY <1>1 DEF Passing, AllPass
  <2>3. allOk \in BOOLEAN /\ AllPass(added) \in BOOLEAN
    BY DEF Entering, AllPass
  <2>4. result' = AllPass(added')
    <3>1. allOk <=> AllPass(added)
      BY <1>5, <1>6, <2>1, <2>2
    <3>2. result' = allOk /\ added' = added
      BY <1>1
    <3> QED  BY <2>3, <3>1, <3>2
  <2>5. phase' \notin Checking
    BY <1>1 DEF Checking
  <2> QED  BY <2>4, <2>5 DEF VerdictOK, VerdictIsRight
<1> QED  BY <1>7, <1>8, <1>9, <1>10, <1>11 DEF QueueInv

LEMMA SleepStep ==
  ASSUME QueueInv, NEW t \in Thread, NEW allOk, NEW total, NEW idle, NEW todo, NEW states,
         Entering(t, allOk, total, idle, todo, states),
         Sleep(t, allOk, total, idle, todo, states), nTodo' = todo, UNCHANGED stopping
  PROVE  QueueInv'
<1> DEFINE others == Cardinality(Held([batch EXCEPT ![t] = <<>>]))
<1>1. /\ queue = <<>>
      /\ fAllOk' = allOk /\ nTotal' = total /\ nIdle' = idle + 1
      /\ batch' = [batch EXCEPT ![t] = <<>>]
      /\ state' = [states EXCEPT ![t] = "waiting"]
      /\ UNCHANGED <<queue, fOk, phase, early, added, result, pending, shutdown>>
  BY DEF Sleep, stopping, control
<1>2. /\ batch \in [Thread -> Seq(BOOLEAN)] /\ states \in [Thread -> ThreadState]
      /\ <<>> \in Seq(BOOLEAN) /\ Len(<<>>) = 0
      /\ \A u \in Thread : states[u] # state[u] => state[u] = "waiting" /\ states[u] = "awake"
  BY DEF QueueInv, TypeOK, Entering
<1>3. others \in Nat /\ todo = Len(queue) + others
  BY <1>2, HeldByOthers DEF Entering
<1>4. /\ OthersWorking(t) \in Nat /\ OthersSleeping(t) \in Nat
      /\ Working(state') = Working(state) \ {t}
      /\ Cardinality(Working(state')) = OthersWorking(t)
      /\ Cardinality(Sleeping(state')) = OthersSleeping(t) + 1
  BY <1>1, <1>2, MovedThread
<1>5. TypeOK'
  <2>1. todo \in Nat
    <3> HIDE DEF others
    <3> QED  BY <1>1, <1>2, <1>3
  <2> QED  BY <1>1, <1>2, <2>1 DEF QueueInv, TypeOK, Entering, ThreadState
<1>6. CountersOK'
  <2>1. nTotal' = nIdle' + Cardinality(Working(state'))
    <3>1. total = idle + 1 + OthersWorking(t) /\ idle \in Nat
      BY DEF Entering
    <3> QED  BY ONLY <1>1, <1>4, <3>1
  <2>2. nIdle' >= Cardinality(Sleeping(state'))
    BY <1>1, <1>4 DEF Entering
  <2>3. nTodo' = Len(queue') + Cardinality(Held(batch'))
    BY <1>1, <1>3
  <2> QED  BY <2>1, <2>2, <2>3 DEF CountersOK, TodoCountsUnfinished
<1>7. ThreadsOK'
  <2>1. ASSUME NEW u \in Thread  PROVE state'[u] = "working" <=> batch'[u] # <<>>
    BY <1>1, <1>2 DEF QueueInv, ThreadsOK
  <2>2. state'[Master] = "outside" <=> phase' \in Out \cup {"adding"}
    <3>1. CASE t = Master
      BY <1>1, <1>2, <3>1 DEF Entering, Out
    <3>2. CASE t # Master
      BY <1>1, <1>2, <3>2 DEF QueueInv, ThreadsOK, Thread
    <3> QED  BY <3>1, <3>2
  <2> QED  BY <2>1, <2>2 DEF ThreadsOK
<1>8. OutOK'
  BY <1>1, <1>4 DEF OutOK, Entering
<1>9. VerdictOK'
  <2>1. VerdictIsRight'
    BY <1>1 DEF QueueInv, VerdictOK, VerdictIsRight, AllPass
  <2>2. ASSUME phase' \in Checking
        PROVE  Passing(fAllOk, Working(state))' <=> AllPass(added')
    <3>1. Passing(allOk, Working(state) \ {t}) <=> AllPass(added)
      BY <1>1, <2>2 DEF Entering
    <3>2. \A u \in Working(state) \ {t} : batch'[u] = batch[u]
      BY <1>1, <1>2 DEF Working
    <3>3. Passing(fAllOk, Working(state))' <=>
            /\ allOk /\ AllPass(queue)
            /\ \A u \in Working(state') : fOk[u] /\ AllPass(batch'[u])
      BY <1>1 DEF Passing, AllPass
    <3>4. Passing(fAllOk, Working(state))' <=> Passing(allOk, Working(state) \ {t})
      BY ONLY <1>4, <3>2, <3>3, Zenon DEF Passing
    <3> QED  BY <1>1, <3>1, <3>4
  <2> QED  BY <2>1, <2>2 DEF VerdictOK
<1> QED  BY <1>5, <1>6, <1>7, <1>8, <1>9 DEF QueueInv

\* The rest of a critical section restores the invariant.
LEMMA ProceedStep ==
  ASSUME QueueInv, NEW t \in Thread, NEW allOk, NEW total, NEW idle, NEW todo, NEW states,
         Entering(t, allOk, total, idle, todo, states),
         Proceed(t, allOk, total, idle, todo, states)
  PROVE  QueueInv'
BY TakeStep, ReturnStep, SleepStep, Zenon DEF Proceed

-----------------------------------------------------------------------------
\* A thread that is asleep or comes for the first time holds nothing.
LEMMA IdleThread ==
  ASSUME QueueInv, NEW t \in Thread, state[t] # "working"
  PROVE  /\ Working(state) \ {t} = Working(state) /\ OthersWorking(t) = Cardinality(Working(state))
         /\ OthersWorking(t) \in Nat
         /\ Cardinality(Held([batch EXCEPT ![t] = <<>>])) = Cardinality(Held(batch))
         /\ state \in [Thread -> ThreadState] /\ nIdle \in Nat /\ nTotal \in Nat
         /\ fAllOk \in BOOLEAN
         /\ phase \in Out => queue = <<>> /\ Working(state) = {} /\ fAllOk = TRUE
         /\ phase \in Checking => (Passing(fAllOk, Working(state)) <=> AllPass(added))
<1>1. Working(state) \ {t} = Working(state)
  BY DEF Working
<1>2. OthersWorking(t) = Cardinality(Working(state))
  BY <1>1, Zenon DEF OthersWorking
<1>3. OthersWorking(t) \in Nat
  BY ThreadsFinite DEF OthersWorking, Working
<1>4. [batch EXCEPT ![t] = <<>>] = batch
  BY DEF QueueInv, TypeOK, ThreadsOK
<1>5. Cardinality(Held([batch EXCEPT ![t] = <<>>])) = Cardinality(Held(batch))
  BY <1>4, Zenon
<1> QED  BY <1>1, <1>2, <1>3, <1>5 DEF QueueInv, TypeOK, OutOK, VerdictOK

\* A master that is not outside Loop is in Wait() or in the destructor.
LEMMA MasterWaits ==
  ASSUME QueueInv, state[Master] # "outside"
  PROVE  phase \in {"waiting", "unwinding"}
BY DEF QueueInv, TypeOK, ThreadsOK, Out

LEMMA StartStep ==
  ASSUME QueueInv, NEW t \in Thread, Start(t)
  PROVE  QueueInv'
<1>1. /\ state[t] = "start"
      /\ Proceed(t, fAllOk, nTotal + 1, nIdle, nTodo, state)
  BY DEF Start
<1>2. state[t] # "working" /\ state[t] # "outside"
  BY <1>1
<1>3. nTotal + 1 = nIdle + 1 + OthersWorking(t) /\ nTotal + 1 \in Nat
  <2>1. nTotal = nIdle + Cardinality(Working(state))
    BY DEF QueueInv, CountersOK
  <2>2. /\ OthersWorking(t) = Cardinality(Working(state)) /\ OthersWorking(t) \in Nat
        /\ nIdle \in Nat /\ nTotal \in Nat
    BY <1>2, IdleThread
  <2> QED  BY ONLY <2>1, <2>2
<1>4. nIdle >= OthersSleeping(t)
  <2>1. Sleeping(state) \ {t} = Sleeping(state)
    BY <1>1 DEF Sleeping
  <2> QED  BY <2>1 DEF QueueInv, CountersOK, OthersSleeping
<1>5. nTodo = Len(queue) + Cardinality(Held([batch EXCEPT ![t] = <<>>]))
  BY <1>2, IdleThread, Zenon DEF QueueInv, CountersOK, TodoCountsUnfinished
<1>6. t = Master => phase \in {"waiting", "unwinding"}
  BY <1>2, MasterWaits
<1>7. Entering(t, fAllOk, nTotal + 1, nIdle, nTodo, state)
  BY <1>2, <1>3, <1>4, <1>5, <1>6, IdleThread, Zenon DEF Entering
<1> QED  BY <1>1, <1>7, ProceedStep, Zenon

LEMMA WakeStep ==
  ASSUME QueueInv, NEW t \in Thread, Wake(t)
  PROVE  QueueInv'
<1>1. /\ state[t] = "awake"
      /\ Proceed(t, fAllOk, nTotal, nIdle - 1, nTodo, state)
  BY DEF Wake
<1>2. state[t] # "working" /\ state[t] # "outside"
  BY <1>1
<1>3. OthersSleeping(t) \in Nat /\ Cardinality(Sleeping(state)) = OthersSleeping(t) + 1
  <2>1. Sleeping(state) \in SUBSET Thread /\ t \in Sleeping(state)
    BY <1>1 DEF Sleeping
  <2> QED  BY <2>1, WithoutThread, Zenon DEF OthersSleeping
<1>4. nIdle >= OthersSleeping(t) + 1 /\ nIdle \in Nat /\ nTotal \in Nat
  <2>1. nIdle >= Cardinality(Sleeping(state)) /\ nIdle \in Nat /\ nTotal \in Nat
    BY DEF QueueInv, TypeOK, CountersOK
  <2> QED  BY ONLY <1>3, <2>1
<1>5. nIdle - 1 \in Nat /\ nIdle - 1 >= OthersSleeping(t)
  BY ONLY <1>3, <1>4
<1>6. nTotal = nIdle - 1 + 1 + OthersWorking(t)
  <2>1. nTotal = nIdle + Cardinality(Working(state))
    BY DEF QueueInv, CountersOK
  <2>2. OthersWorking(t) = Cardinality(Working(state)) /\ OthersWorking(t) \in Nat
    BY <1>2, IdleThread
  <2> QED  BY ONLY <1>4, <2>1, <2>2
<1>7. nTodo = Len(queue) + Cardinality(Held([batch EXCEPT ![t] = <<>>]))
  BY <1>2, IdleThread, Zenon DEF QueueInv, CountersOK, TodoCountsUnfinished
<1>8. t = Master => phase \in {"waiting", "unwinding"}
  BY <1>2, MasterWaits
<1>9. Entering(t, fAllOk, nTotal, nIdle - 1, nTodo, state)
  BY <1>2, <1>4, <1>5, <1>6, <1>7, <1>8, IdleThread, Zenon DEF Entering
<1> QED  BY <1>1, <1>9, ProceedStep, Zenon

LEMMA FinishStep ==
  ASSUME QueueInv, NEW t \in Thread, Finish(t)
  PROVE  QueueInv'
<1> DEFINE todo == nTodo - Len(batch[t])
           woken == IF todo = 0 /\ t # Master /\ state[Master] = "waiting"
                    THEN [state EXCEPT ![Master] = "awake"] ELSE state
           allOk == fAllOk /\ fOk[t] /\ AllPass(batch[t])
           others == Cardinality(Held([batch EXCEPT ![t] = <<>>]))
<1>1. /\ state[t] = "working"
      /\ Proceed(t, allOk, nTotal, nIdle, todo, woken)
  BY DEF Finish
<1>2. /\ state \in [Thread -> ThreadState] /\ batch \in [Thread -> Seq(BOOLEAN)]
      /\ queue \in Seq(BOOLEAN) /\ nIdle \in Nat /\ nTotal \in Nat
      /\ allOk \in BOOLEAN
  BY DEF QueueInv, TypeOK
<1>3. /\ woken \in [Thread -> ThreadState]
      /\ \A u \in Thread : woken[u] # state[u] => state[u] = "waiting" /\ woken[u] = "awake"
  BY <1>2 DEF Thread, ThreadState
<1>4. OthersWorking(t) \in Nat /\ Cardinality(Working(state)) = OthersWorking(t) + 1
  <2>1. Working(state) \in SUBSET Thread /\ t \in Working(state)
    BY <1>1 DEF Working
  <2> QED  BY <2>1, WithoutThread, Zenon DEF OthersWorking
<1>5. nTotal = nIdle + 1 + OthersWorking(t)
  <2>1. nTotal = nIdle + Cardinality(Working(state))
    BY DEF QueueInv, CountersOK
  <2> QED  BY ONLY <1>2, <1>4, <2>1
<1>6. nIdle >= OthersSleeping(t)
  <2>1. Sleeping(state) \ {t} = Sleeping(state)
    BY <1>1 DEF Sleeping
  <2> QED  BY <2>1 DEF QueueInv, CountersOK, OthersSleeping
<1>7. todo = Len(queue) + others
  <2>1. others \in Nat /\ Cardinality(Held(batch)) = others + Len(batch[t])
    BY <1>2, HeldByOthers
  <2>2. nTodo = Len(queue) + Cardinality(Held(batch))
    BY DEF QueueInv, CountersOK, TodoCountsUnfinished
  <2> DEFINE held == Len(batch[t])
             queued == Len(queue)
             all == Cardinality(Held(batch))
  <2>3. queued \in Nat /\ held \in Nat
    BY <1>2
  <2>4. all = others + held /\ nTodo = queued + all
    BY <2>1, <2>2
  <2>5. others \in Nat
    BY <2>1
  <2> HIDE DEF others, held, queued, all
  <2>6. nTodo - held = queued + others
    BY ONLY <2>3, <2>4, <2>5
  <2> QED  BY <2>6 DEF held, queued
<1>8. t = Master => phase \in {"waiting", "unwinding"}
  BY <1>1, MasterWaits
<1>9. phase \notin Out
  BY <1>1 DEF QueueInv, OutOK, Working
<1>10. ASSUME phase \in Checking
       PROVE  Passing(allOk, Working(state) \ {t}) <=> AllPass(added)
  <2>1. Passing(fAllOk, Working(state)) <=> AllPass(added)
    BY <1>10 DEF QueueInv, VerdictOK
  <2>2. t \in Working(state)
    BY <1>1 DEF Working
  <2>3. Passing(fAllOk, Working(state)) <=> Passing(allOk, Working(state) \ {t})
    BY ONLY <2>2, Zenon DEF Passing, allOk
  <2> QED  BY <2>1, <2>3
<1> HIDE DEF todo, woken, allOk, others
<1>11. Entering(t, allOk, nTotal, nIdle, todo, woken)
  BY <1>2, <1>3, <1>5, <1>6, <1>7, <1>8, <1>9, <1>10, Zenon DEF Entering, others
<1> QED  BY <1>1, <1>11, ProceedStep, Zenon

-----------------------------------------------------------------------------
LEMMA ConstructStep ==
  ASSUME QueueInv, Construct
  PROVE  QueueInv'
<1>1. /\ phase = "outside" /\ phase' = "adding" /\ early' = FALSE /\ added' = <<>>
      /\ UNCHANGED <<queue, nIdle, nTotal, nTodo, fAllOk, state, batch, fOk, result,
                     pending, shutdown>>
  BY DEF Construct, counters, stopping
<1>2. TypeOK'
  <2>1. <<>> \in Seq(BOOLEAN)
    OBVIOUS
  <2> QED  BY <1>1, <2>1, Zenon DEF QueueInv, TypeOK
<1>3. CountersOK'
  BY <1>1 DEF QueueInv, CountersOK, TodoCountsUnfinished
<1>4. ThreadsOK'
  BY <1>1 DEF QueueInv, ThreadsOK, Out
<1>5. OutOK'
  BY <1>1 DEF OutOK, Out
<1>6. VerdictOK'
  <2>1. queue = <<>> /\ Working(state) = {} /\ fAllOk = TRUE
    BY <1>1 DEF QueueInv, OutOK, Out
  <2>2. Passing(fAllOk, Working(state))' <=> AllPass(added')
    BY <1>1, <2>1 DEF Passing, AllPass
  <2> QED  BY <1>1, <2>2 DEF VerdictOK, VerdictIsRight
<1> QED  BY <1>2, <1>3, <1>4, <1>5, <1>6 DEF QueueInv

LEMMA AddStep ==
  ASSUME QueueInv, NEW checks \in Batches, Add(checks)
  PROVE  QueueInv'
<1>1. /\ phase = "adding" /\ queue' = queue \o checks
      /\ nTodo' = nTodo + Len(checks) /\ added' = added \o checks
      /\ UNCHANGED <<nIdle, nTotal, fAllOk, batch, fOk, phase, early, result,
                     pending, shutdown>>
  BY DEF Add, stopping
<1>2. PICK threads \in Notified(Len(checks)) :
        state' = [t \in Thread |-> IF t \in threads THEN "awake" ELSE state[t]]
  BY DEF Add
<1>3. threads \subseteq Waiting(Worker)
  BY DEF Notified
<1>4. /\ state \in [Thread -> ThreadState] /\ state' \in [Thread -> ThreadState]
      /\ \A t \in Thread : \/ state'[t] = state[t]
                           \/ state[t] = "waiting" /\ state'[t] = "awake"
      /\ state'[Master] = state[Master]
  BY <1>2, <1>3, ConstantsAssumption DEF QueueInv, TypeOK, Waiting, Thread, ThreadState
<1>5. Working(state') = Working(state) /\ Sleeping(state') = Sleeping(state)
  BY <1>4 DEF Working, Sleeping
<1>6. /\ checks \in Seq(BOOLEAN) /\ queue \in Seq(BOOLEAN) /\ added \in Seq(BOOLEAN)
      /\ nTodo \in Nat
  BY ConstantsAssumption DEF QueueInv, TypeOK, Batches
<1>7. /\ queue' \in Seq(BOOLEAN) /\ Len(queue') = Len(queue) + Len(checks)
      /\ AllPass(queue') <=> AllPass(queue) /\ AllPass(checks)
  BY <1>1, <1>6, JoinPasses
<1>8. /\ added' \in Seq(BOOLEAN)
      /\ AllPass(added') <=> AllPass(added) /\ AllPass(checks)
  BY <1>1, <1>6, JoinPasses
<1>9. TypeOK'
  <2>1. nTodo' \in Nat
    BY <1>1, <1>6
  <2> QED  BY <1>1, <1>4, <1>7, <1>8, <2>1 DEF QueueInv, TypeOK
<1>10. CountersOK'
  <2>1. /\ nTotal = nIdle + Cardinality(Working(state)) /\ nIdle >= Cardinality(Sleeping(state))
        /\ nTodo = Len(queue) + Cardinality(Held(batch))
    BY DEF QueueInv, CountersOK, TodoCountsUnfinished
  <2>2. Cardinality(Held(batch)) \in Nat
    <3>1. /\ batch \in [Thread -> Seq(BOOLEAN)] /\ Master \in Thread
          /\ <<>> \in Seq(BOOLEAN) /\ Len(batch[Master]) \in Nat
      BY DEF QueueInv, TypeOK, Thread
    <3> DEFINE others == Cardinality(Held([batch EXCEPT ![Master] = <<>>]))
    <3>2. others \in Nat /\ Cardinality(Held(batch)) = others + Len(batch[Master])
      BY <3>1, HeldByOthers
    <3> HIDE DEF others
    <3> QED  BY <3>1, <3>2
  <2>3. nTodo' = Len(queue') + Cardinality(Held(batch))
    <3> DEFINE n == Len(queue)
               m == Len(checks)
               held == Cardinality(Held(batch))
    <3>1. /\ n \in Nat /\ m \in Nat /\ held \in Nat
          /\ nTodo = n + held /\ nTodo' = nTodo + m /\ Len(queue') = n + m
      BY <1>1, <1>6, <1>7, <2>1, <2>2
    <3> HIDE DEF n, m, held
    <3>2. nTodo' = Len(queue') + held
      BY ONLY <3>1
    <3> QED  BY <3>2 DEF held
  <2> QED  BY <1>1, <1>5, <2>1, <2>3, Zenon DEF CountersOK, TodoCountsUnfinished
<1>11. ThreadsOK'
  BY <1>1, <1>4 DEF QueueInv, ThreadsOK
<1>12. OutOK'
  BY <1>1 DEF OutOK, Out
<1>13. VerdictOK'
  <2>1. Passing(fAllOk, Working(state)) <=> AllPass(added)
    BY <1>1 DEF QueueInv, VerdictOK, Checking
  <2>2. Passing(fAllOk, Working(state))' <=>
          /\ fAllOk /\ AllPass(queue')
          /\ \A t \in Working(state') : fOk[t] /\ AllPass(batch[t])
    BY <1>1 DEF Passing, AllPass
  <2>3. Passing(fAllOk, Working(state))' <=> AllPass(added')
    BY ONLY <1>5, <1>7, <1>8, <2>1, <2>2, Zenon DEF Passing
  <2> QED  BY <1>1, <2>3 DEF VerdictOK, VerdictIsRight
<1> QED  BY <1>9, <1>10, <1>11, <1>12, <1>13 DEF QueueInv

\* A step that moves one thread that neither works nor goes to work, and leaves
\* the queue, the counters and the batches alone.
LEMMA QuietStep ==
  ASSUME QueueInv, NEW t \in Thread, NEW s \in {"start", "awake", "dead"},
         state[t] # "working", s = "awake" => state[t] = "waiting",
         state' = [state EXCEPT ![t] = s],
         IF t = Master THEN phase \in Checking /\ phase' \in {"waiting", "unwinding"}
         ELSE phase' = phase /\ state[t] # "outside",
         UNCHANGED <<queue, nIdle, nTotal, nTodo, fAllOk, batch, fOk, added, result>>,
         early' \in BOOLEAN, pending' \subseteq Thread, shutdown' \in BOOLEAN
  PROVE  QueueInv'
<1>1. /\ state \in [Thread -> ThreadState] /\ state' \in [Thread -> ThreadState]
      /\ state'[t] = s /\ \A u \in Thread \ {t} : state'[u] = state[u]
  BY DEF QueueInv, TypeOK, ThreadState
<1>2. Working(state') = Working(state)
  BY <1>1 DEF Working
<1>3. Cardinality(Sleeping(state')) \in Nat /\ Cardinality(Sleeping(state)) \in Nat
      /\ Cardinality(Sleeping(state')) <= Cardinality(Sleeping(state))
  <2>1. Sleeping(state') \subseteq Sleeping(state)
    BY <1>1 DEF Sleeping
  <2>2. IsFiniteSet(Sleeping(state)) /\ Cardinality(Sleeping(state)) \in Nat
    BY ThreadsFinite DEF Sleeping
  <2>3. Cardinality(Sleeping(state')) \in Nat
    BY ThreadsFinite DEF Sleeping
  <2> QED  BY <2>1, <2>2, <2>3, FS_Subset
<1>4. phase' \in {"outside", "adding", "waiting", "unwinding", "exited"}
  BY DEF QueueInv, TypeOK
<1>5. TypeOK'
  BY <1>1, <1>4 DEF QueueInv, TypeOK
<1>6. CountersOK'
  <2>1. /\ nTotal = nIdle + Cardinality(Working(state)) /\ nIdle >= Cardinality(Sleeping(state))
        /\ TodoCountsUnfinished /\ nIdle \in Nat
    BY DEF QueueInv, TypeOK, CountersOK
  <2>2. nIdle' >= Cardinality(Sleeping(state'))
    BY ONLY <1>3, <2>1, nIdle' = nIdle
  <2>3. nTotal' = nIdle' + Cardinality(Working(state')) /\ TodoCountsUnfinished'
    BY <1>2, <2>1 DEF TodoCountsUnfinished
  <2> QED  BY <2>2, <2>3 DEF CountersOK
<1>7. ThreadsOK'
  <2>1. ASSUME NEW u \in Thread  PROVE state'[u] = "working" <=> batch'[u] # <<>>
    BY <1>1 DEF QueueInv, ThreadsOK
  <2>2. state'[Master] = "outside" <=> phase' \in Out \cup {"adding"}
    BY <1>1 DEF QueueInv, ThreadsOK, Out, Thread
  <2> QED  BY <2>1, <2>2 DEF ThreadsOK
<1>8. OutOK'
  BY <1>2 DEF QueueInv, OutOK, Out
<1>9. VerdictOK'
  <2>1. VerdictIsRight'
    BY DEF QueueInv, VerdictOK, VerdictIsRight, AllPass
  <2>2. ASSUME phase' \in Checking
        PROVE  Passing(fAllOk, Working(state))' <=> AllPass(added')
    <3>1. phase \in Checking
      BY <2>2
    <3>2. Passing(fAllOk, Working(state)) <=> AllPass(added)
      BY <3>1 DEF QueueInv, VerdictOK
    <3> QED  BY <1>2, <3>2 DEF Passing, AllPass
  <2> QED  BY <2>1, <2>2 DEF VerdictOK
<1> QED  BY <1>5, <1>6, <1>7, <1>8, <1>9 DEF QueueInv

LEMMA WaitStep ==
  ASSUME QueueInv, NEW isEarly \in BOOLEAN, Wait(isEarly)
  PROVE  QueueInv'
<1>1. Master \in Thread /\ state[Master] = "outside"
  BY DEF QueueInv, ThreadsOK, Wait, Thread
<1> DEFINE s == "start"
<1>2. /\ s \in {"start", "awake", "dead"} /\ s # "awake" /\ state[Master] # "working"
      /\ state' = [state EXCEPT ![Master] = s]
      /\ phase \in Checking /\ phase' \in {"waiting", "unwinding"}
      /\ UNCHANGED <<queue, nIdle, nTotal, nTodo, fAllOk, batch, fOk, added, result>>
      /\ early' \in BOOLEAN /\ pending' \subseteq Thread /\ shutdown' \in BOOLEAN
  BY <1>1 DEF Wait, Checking, counters, stopping, QueueInv, TypeOK
<1> HIDE DEF s
<1> QED  BY <1>1, <1>2, QuietStep

LEMMA SpuriousWakeStep ==
  ASSUME QueueInv, NEW t \in Thread, SpuriousWake(t)
  PROVE  QueueInv'
<1> DEFINE s == "awake"
<1>1. /\ s \in {"start", "awake", "dead"} /\ state[t] = "waiting"
      /\ state' = [state EXCEPT ![t] = s] /\ phase' = phase
      /\ UNCHANGED <<queue, nIdle, nTotal, nTodo, fAllOk, batch, fOk, added, result>>
      /\ early' \in BOOLEAN /\ pending' \subseteq Thread /\ shutdown' \in BOOLEAN
  BY DEF SpuriousWake, control, counters, stopping, QueueInv, TypeOK
<1>2. state[t] # "working" /\ state[t] # "outside"
  BY <1>1
<1>3. t = Master => phase \in Checking /\ phase' \in {"waiting", "unwinding"}
  BY <1>1, <1>2, MasterWaits DEF Checking
<1> HIDE DEF s
<1> QED  BY <1>1, <1>2, <1>3, QuietStep

LEMMA InterruptedStep ==
  ASSUME QueueInv, NEW t \in Thread, Interrupted(t)
  PROVE  QueueInv'
<1> DEFINE s == IF t = Master THEN "start" ELSE "dead"
<1>1. /\ s \in {"start", "awake", "dead"} /\ s # "awake" /\ state[t] = "waiting"
      /\ state' = [state EXCEPT ![t] = s]
      /\ phase' = IF t = Master THEN "unwinding" ELSE phase
      /\ UNCHANGED <<queue, nIdle, nTotal, nTodo, fAllOk, batch, fOk, added, result>>
      /\ early' \in BOOLEAN /\ pending' \subseteq Thread /\ shutdown' \in BOOLEAN
  BY DEF Interrupted, counters, QueueInv, TypeOK
<1>2. state[t] # "working" /\ state[t] # "outside"
  BY <1>1
<1>3. /\ t = Master => phase \in Checking /\ phase' \in {"waiting", "unwinding"}
      /\ t # Master => phase' = phase
  BY <1>1, <1>2, MasterWaits DEF Checking
<1> HIDE DEF s
<1> QED  BY <1>1, <1>2, <1>3, QuietStep

LEMMA InterruptAllStep ==
  ASSUME QueueInv, InterruptAll
  PROVE  QueueInv'
<1>1. /\ shutdown' = TRUE /\ pending' = Thread
      /\ UNCHANGED <<queue, nIdle, nTotal, nTodo, fAllOk, state, batch, fOk, phase, early,
                     added, result>>
  BY DEF InterruptAll, counters, control
<1> QED  BY <1>1 DEF QueueInv, TypeOK, CountersOK, TodoCountsUnfinished, ThreadsOK, OutOK,
                     VerdictOK, VerdictIsRight, Passing, AllPass

-----------------------------------------------------------------------------
LEMMA InitQueue == Init => QueueInv
<1> SUFFICES ASSUME Init  PROVE QueueInv
  OBVIOUS
<1>1. Working(state) = {} /\ Sleeping(state) = {}
  BY DEF Init, Working, Sleeping
<1>2. Cardinality({}) = 0
  BY FS_EmptySet
<1>3. Held(batch) = {}
  BY DEF Init, Held
<1>4. <<>> \in Seq(BOOLEAN) /\ Len(<<>>) = 0 /\ Master \in Thread
  BY DEF Thread
<1>5. TypeOK
  BY <1>4 DEF Init, TypeOK, ThreadState
<1>6. CountersOK
  <2>1. /\ Cardinality(Working(state)) = 0 /\ Cardinality(Sleeping(state)) = 0
        /\ Cardinality(Held(batch)) = 0 /\ Len(queue) = 0
    BY <1>1, <1>2, <1>3, <1>4, Zenon DEF Init
  <2> QED  BY <2>1 DEF Init, CountersOK, TodoCountsUnfinished
<1>7. ThreadsOK /\ OutOK
  BY <1>1, <1>4 DEF Init, ThreadsOK, OutOK, Out
<1>8. VerdictOK
  BY DEF Init, VerdictOK, VerdictIsRight, Checking, AllPass
<1> QED  BY <1>5, <1>6, <1>7, <1>8 DEF QueueInv

LEMMA QueueSteps == QueueInv /\ [Next]_vars => QueueInv'
<1> SUFFICES ASSUME QueueInv, [Next]_vars  PROVE QueueInv'
  OBVIOUS
<1>1. ASSUME NEW t \in Thread, Run(t)  PROVE QueueInv'
  BY <1>1, StartStep, WakeStep, FinishStep, Zenon DEF Run
<1>2. ASSUME NEW t \in Thread, SpuriousWake(t) \/ Interrupted(t)  PROVE QueueInv'
  BY <1>2, SpuriousWakeStep, InterruptedStep, Zenon
<1>3. CASE Construct
  BY <1>3, ConstructStep
<1>4. ASSUME NEW checks \in Batches, Add(checks)  PROVE QueueInv'
  BY <1>4, AddStep, Zenon
<1>5. ASSUME NEW isEarly \in BOOLEAN, Wait(isEarly)  PROVE QueueInv'
  BY <1>5, WaitStep, Zenon
<1>6. CASE InterruptAll
  BY <1>6, InterruptAllStep
<1>7. CASE UNCHANGED vars
  BY <1>7 DEF vars, counters, control, stopping, QueueInv, TypeOK, CountersOK,
              TodoCountsUnfinished, ThreadsOK, OutOK, VerdictOK, VerdictIsRight, Passing, AllPass
<1> QED  BY <1>1, <1>2, <1>3, <1>4, <1>5, <1>6, <1>7, Zenon DEF Next

LEMMA QueueInvHolds == Spec => []QueueInv
BY InitQueue, QueueSteps, PTL DEF Spec

\* The queue, its counters and the threads keep their types: no counter goes
\* below zero, and no thread takes more checks than there are.
THEOREM TypeCorrect == Spec => []TypeOK
<1>1. QueueInv => TypeOK
  BY DEF QueueInv
<1> QED  BY <1>1, QueueInvHolds, PTL

\* Wait() returns the conjunction of all checks of the block.
THEOREM VerdictCorrect == Spec => []VerdictIsRight
<1>1. QueueInv => VerdictIsRight
  BY DEF QueueInv, VerdictOK
<1> QED  BY <1>1, QueueInvHolds, PTL

\* No thread holds a check into a block that ConnectBlock has left.
THEOREM NoCheckOutlives == Spec => []NoCheckOutlivesBlock
<1>1. QueueInv => NoCheckOutlivesBlock
  BY DEF QueueInv, OutOK, ThreadsOK, NoCheckOutlivesBlock, Out, Working
<1> QED  BY <1>1, QueueInvHolds, PTL

\* nTodo is the number of checks that are queued or held.
THEOREM TodoCorrect == Spec => []TodoCountsUnfinished
<1>1. QueueInv => TodoCountsUnfinished
  BY DEF QueueInv, CountersOK
<1> QED  BY <1>1, QueueInvHolds, PTL

\* The assertion of CCheckQueueControl never fails: a block finds the queue idle.
THEOREM ControlCorrect == Spec => []ControlFindsIdle
<1>1. ASSUME QueueInv  PROVE ControlFindsIdle
  <2>1. ASSUME phase = "outside"  PROVE nTotal = nIdle /\ nTodo = 0 /\ fAllOk = TRUE
    <3>1. queue = <<>> /\ Working(state) = {} /\ fAllOk = TRUE
      BY <1>1, <2>1 DEF QueueInv, OutOK, Out
    <3>2. \A t \in Thread : batch[t] = <<>>
      BY <1>1, <3>1 DEF QueueInv, ThreadsOK, Working
    <3>3. Held(batch) = {}
      BY <3>2 DEF Held
    <3>4. Cardinality({}) = 0 /\ Len(<<>>) = 0
      BY FS_EmptySet
    <3>5. nTotal = nIdle + 0 /\ nTodo = 0 + 0 /\ nIdle \in Nat
      BY <1>1, <3>1, <3>3, <3>4 DEF QueueInv, TypeOK, CountersOK, TodoCountsUnfinished
    <3> QED  BY <3>1, <3>5
  <2> QED  BY <2>1 DEF ControlFindsIdle, IsIdle
<1> QED  BY <1>1, QueueInvHolds, PTL

=============================================================================
