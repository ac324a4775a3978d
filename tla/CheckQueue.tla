------------------------------ MODULE CheckQueue ------------------------------
(***************************************************************************)
(* The script-check queue of checkqueue.h, as ConnectBlock uses it: worker *)
(* threads sleep in Loop(), the thread that connects a block constructs a  *)
(* CCheckQueueControl, adds batches of checks and joins the workers in     *)
(* Wait().  Each action is one critical section of the mutex; the checks a *)
(* thread holds run between two of them and touch no shared state.         *)
(*                                                                         *)
(* A check is the Boolean it will return.  fQuit is never set by the code. *)
(***************************************************************************)
EXTENDS Integers, Sequences, FiniteSets

CONSTANTS
  Worker,     \* threads that run ThreadScriptCheck
  Master,     \* the thread that connects blocks
  BatchSize,  \* nBatchSize
  MaxChecks   \* bound on the checks of one block

ASSUME ConstantsAssumption ==
  /\ Master \notin Worker
  /\ IsFiniteSet(Worker)
  /\ BatchSize \in Nat \ {0}
  /\ MaxChecks \in Nat

Thread == Worker \cup {Master}
ThreadState == {"outside", "start", "waiting", "awake", "working", "dead"}

VARIABLES
  queue,    \* checks nobody has taken
  nIdle, nTotal, nTodo, fAllOk,
  state,    \* where each thread is
  batch,    \* vChecks: the checks a thread holds
  fOk,      \* fAllOk as the thread read it when it took its batch
  phase,    \* what the master does: outside, adding, waiting,
            \* unwinding or exited
  early,    \* ConnectBlock returns without looking at the result of Wait
  added,    \* checks added for this block
  result,   \* what Wait returned for the last block
  pending,  \* threads with an interruption request
  shutdown  \* whether threadGroup.interrupt_all was called

counters == <<nIdle, nTotal, nTodo, fAllOk>>
control == <<phase, early, added, result>>
stopping == <<pending, shutdown>>
vars == <<queue, counters, state, batch, fOk, control, stopping>>

Init ==
  /\ queue = <<>>
  /\ nIdle = 0 /\ nTotal = 0 /\ nTodo = 0 /\ fAllOk = TRUE
  /\ state = [t \in Thread |-> IF t = Master THEN "outside" ELSE "start"]
  /\ batch = [t \in Thread |-> <<>>]
  /\ fOk = [t \in Thread |-> TRUE]
  /\ phase = "outside" /\ early = FALSE /\ added = <<>> /\ result = TRUE
  /\ pending = {} /\ shutdown = FALSE

Waiting(threads) == {t \in threads : state[t] = "waiting"}
AllPass(checks) == \A i \in DOMAIN checks : checks[i]

IsIdle == nTotal = nIdle /\ nTodo = 0 /\ fAllOk

-------------------------------------------------------------------------------
(* Loop. *)

BatchFor(total, idle) ==
  LET share == Len(queue) \div (total + idle + 1)
      capped == IF share < BatchSize THEN share ELSE BatchSize
  IN  IF capped < 1 THEN 1 ELSE capped

\* The rest of the critical section once the clean-up is done, with the
\* counters and thread states it left: take a batch from the back of the queue,
\* return the verdict, or sleep.
Take(t, allOk, total, idle, states) ==
  /\ queue # <<>>
  /\ LET nNow == BatchFor(total, idle)
     IN  /\ batch' = [batch EXCEPT ![t] = SubSeq(queue, Len(queue) - nNow + 1, Len(queue))]
         /\ queue' = SubSeq(queue, 1, Len(queue) - nNow)
  /\ fOk' = [fOk EXCEPT ![t] = allOk]
  /\ state' = [states EXCEPT ![t] = "working"]
  /\ fAllOk' = allOk /\ nTotal' = total /\ nIdle' = idle
  /\ UNCHANGED control

\* Faulty variant: the master does not wait for the batches of the workers.
ReturnOnEmptyQueue(t, allOk, total, idle, todo) ==
  /\ queue = <<>> /\ t = Master
  /\ result' = allOk
  /\ fAllOk' = TRUE /\ nTotal' = total - 1 /\ nIdle' = idle
  /\ batch' = [batch EXCEPT ![t] = <<>>]
  /\ state' = [state EXCEPT ![t] = "outside"]
  /\ phase' = IF phase = "unwinding" THEN "exited" ELSE "outside"
  /\ UNCHANGED <<queue, fOk, early, added>>

Return(t, allOk, total, idle, todo) ==
  /\ queue = <<>> /\ t = Master /\ todo = 0
  /\ result' = allOk
  /\ fAllOk' = TRUE /\ nTotal' = total - 1 /\ nIdle' = idle
  /\ batch' = [batch EXCEPT ![t] = <<>>]
  /\ state' = [state EXCEPT ![t] = "outside"]
  /\ phase' = IF phase = "unwinding" THEN "exited" ELSE "outside"
  /\ UNCHANGED <<queue, fOk, early, added>>

Sleep(t, allOk, total, idle, todo, states) ==
  /\ queue = <<>> /\ ~(t = Master /\ todo = 0)
  /\ fAllOk' = allOk /\ nTotal' = total /\ nIdle' = idle + 1
  /\ batch' = [batch EXCEPT ![t] = <<>>]
  /\ state' = [states EXCEPT ![t] = "waiting"]
  /\ UNCHANGED <<queue, fOk, control>>

Proceed(t, allOk, total, idle, todo, states) ==
  /\ nTodo' = todo
  /\ \/ Take(t, allOk, total, idle, states)
     \/ Return(t, allOk, total, idle, todo)
     \/ Sleep(t, allOk, total, idle, todo, states)
  /\ UNCHANGED stopping

\* First iteration of Loop.
Start(t) ==
  /\ state[t] = "start"
  /\ Proceed(t, fAllOk, nTotal + 1, nIdle, nTodo, state)

\* cond.wait returns with the mutex held.
Wake(t) ==
  /\ state[t] = "awake"
  /\ Proceed(t, fAllOk, nTotal, nIdle - 1, nTodo, state)

\* Faulty variants: the result of the batch replaces the verdict instead of
\* joining it, and nobody tells the master that the last check is done.
FinishOverwriting(t) ==
  /\ state[t] = "working"
  /\ LET todo == nTodo - Len(batch[t])
         woken == IF todo = 0 /\ t # Master /\ state[Master] = "waiting"
                  THEN [state EXCEPT ![Master] = "awake"] ELSE state
     IN  Proceed(t, fOk[t] /\ AllPass(batch[t]), nTotal, nIdle, todo, woken)
FinishSilently(t) ==
  /\ state[t] = "working"
  /\ Proceed(t, fAllOk /\ fOk[t] /\ AllPass(batch[t]), nTotal, nIdle,
             nTodo - Len(batch[t]), state)

\* The batch was run, up to its first failure and not at all after an earlier
\* one; the worker that brings nTodo to zero wakes the master.
Finish(t) ==
  /\ state[t] = "working"
  /\ LET todo == nTodo - Len(batch[t])
         woken == IF todo = 0 /\ t # Master /\ state[Master] = "waiting"
                  THEN [state EXCEPT ![Master] = "awake"] ELSE state
     IN  Proceed(t, fAllOk /\ fOk[t] /\ AllPass(batch[t]), nTotal, nIdle, todo, woken)

-------------------------------------------------------------------------------
(* The master: CCheckQueueControl in ConnectBlock. *)

Construct ==
  /\ phase = "outside"
  /\ phase' = "adding"
  /\ early' = FALSE
  /\ added' = <<>>
  /\ UNCHANGED <<queue, counters, state, batch, fOk, result, stopping>>

\* notify_one for a single check, notify_all for more, nothing for none.
Notified(n) ==
  IF n = 0 \/ Waiting(Worker) = {} THEN {{}}
  ELSE IF n = 1 THEN {{w} : w \in Waiting(Worker)} ELSE {Waiting(Worker)}

\* Faulty variant: nTodo counts the batches instead of the checks.
AddCountedOnce(checks) ==
  /\ phase = "adding"
  /\ Len(added) + Len(checks) <= MaxChecks
  /\ queue' = queue \o checks
  /\ nTodo' = nTodo + 1
  /\ added' = added \o checks
  /\ \E threads \in Notified(Len(checks)) :
       state' = [t \in Thread |-> IF t \in threads THEN "awake" ELSE state[t]]
  /\ UNCHANGED <<nIdle, nTotal, fAllOk, batch, fOk, phase, early, result, stopping>>

Add(checks) ==
  /\ phase = "adding"
  /\ Len(added) + Len(checks) <= MaxChecks
  /\ queue' = queue \o checks
  /\ nTodo' = nTodo + Len(checks)
  /\ added' = added \o checks
  /\ \E threads \in Notified(Len(checks)) :
       state' = [t \in Thread |-> IF t \in threads THEN "awake" ELSE state[t]]
  /\ UNCHANGED <<nIdle, nTotal, fAllOk, batch, fOk, phase, early, result, stopping>>

\* Either ConnectBlock gets to control.Wait(), or it returns early and the
\* destructor waits.
Wait(isEarly) ==
  /\ phase = "adding"
  /\ phase' = "waiting"
  /\ early' = isEarly
  /\ state' = [state EXCEPT ![Master] = "start"]
  /\ UNCHANGED <<queue, counters, batch, fOk, added, result, stopping>>

-------------------------------------------------------------------------------
(* The environment. *)

SpuriousWake(t) ==
  /\ state[t] = "waiting"
  /\ state' = [state EXCEPT ![t] = "awake"]
  /\ UNCHANGED <<queue, counters, batch, fOk, control, stopping>>

\* Shutdown interrupts every thread of the group once.
InterruptAll ==
  /\ ~shutdown
  /\ shutdown' = TRUE
  /\ pending' = Thread
  /\ UNCHANGED <<queue, counters, state, batch, fOk, control>>

\* cond.wait throws thread_interrupted after nIdle was raised.  A worker ends;
\* the master unwinds into ~CCheckQueueControl, which waits again.
Interrupted(t) ==
  /\ state[t] = "waiting" /\ t \in pending
  /\ pending' = pending \ {t}
  /\ state' = [state EXCEPT ![t] = IF t = Master THEN "start" ELSE "dead"]
  /\ phase' = IF t = Master THEN "unwinding" ELSE phase
  /\ early' = (early \/ t = Master)
  /\ UNCHANGED <<queue, counters, batch, fOk, added, result, shutdown>>

Run(t) == Start(t) \/ Wake(t) \/ Finish(t)

Batches == UNION {[1 .. n -> BOOLEAN] : n \in 0 .. MaxChecks}

Next ==
  \/ \E t \in Thread : Run(t) \/ SpuriousWake(t) \/ Interrupted(t)
  \/ Construct
  \/ \E checks \in Batches : Add(checks)
  \/ \E isEarly \in BOOLEAN : Wait(isEarly)
  \/ InterruptAll

\* The operating system runs every thread that can run.
Spec == Init /\ [][Next]_vars /\ \A t \in Thread : WF_vars(Run(t))

-------------------------------------------------------------------------------
(* Properties. *)

\* The queue, its counters and the state of every thread keep their types; no
\* counter goes below zero.
TypeOK ==
  /\ queue \in Seq(BOOLEAN)
  /\ nIdle \in Nat /\ nTotal \in Nat /\ nTodo \in Nat /\ fAllOk \in BOOLEAN
  /\ state \in [Thread -> ThreadState]
  /\ batch \in [Thread -> Seq(BOOLEAN)]
  /\ fOk \in [Thread -> BOOLEAN]
  /\ phase \in {"outside", "adding", "waiting", "unwinding", "exited"}
  /\ early \in BOOLEAN /\ added \in Seq(BOOLEAN) /\ result \in BOOLEAN
  /\ pending \subseteq Thread /\ shutdown \in BOOLEAN

\* Wait() returns true exactly when every check of the block passes, however
\* the checks were split among threads that read fAllOk at different times.
VerdictIsRight == phase = "outside" => result = AllPass(added)

\* The assertion of CCheckQueueControl: a new block finds the queue unused, even
\* after a block that failed or whose result nobody looked at.
ControlFindsIdle == phase = "outside" => IsIdle

\* Checks point into the block and its coins: once ConnectBlock is left, early,
\* normally or by an exception, no thread holds one any more.
NoCheckOutlivesBlock ==
  phase \in {"outside", "exited"} =>
    queue = <<>> /\ \A t \in Thread : batch[t] = <<>>

\* The places of the checks that threads hold, given the batches.
Held(batches) == UNION {{t} \X DOMAIN batches[t] : t \in Thread}

\* nTodo counts the checks in the queue and in every thread's batch: it is what
\* tells the master that it may leave.
TodoCountsUnfinished == nTodo = Len(queue) + Cardinality(Held(batch))

\* The master always gets out of Wait(): no wake-up it depends on is lost, also
\* when the workers are interrupted.
WaitReturns == phase \in {"waiting", "unwinding"} ~> phase \in {"outside", "exited"}
===============================================================================
