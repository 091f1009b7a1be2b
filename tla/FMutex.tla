------------------------------- MODULE FMutex -------------------------------
(***************************************************************************)
(* The futex mutex and condition variable of libpandabase                  *)
(* (platforms/unix/libpandabase/futex/fmutex.{h,cpp}, behind Mutex,        *)
(* RecursiveMutex and ConditionVariable of mutex.h).                       *)
(*                                                                         *)
(* One mutex and one condition variable are shared by Threads.  One action *)
(* is one atomic access or one futex call; recursiveCount, which only the  *)
(* owner touches, is accessed together with the neighbouring atomic step.  *)
(* pc[t] names the access t performs next; "out" and "in" are the two      *)
(* places where t runs its own code, without and with the mutex.           *)
(***************************************************************************)
EXTENDS Integers, FiniteSets

CONSTANTS
  Threads,
  None,            \* no thread (exclusiveOwner 0), no mutex (mutexPtr null)
  recursiveMutex,  \* is this a RecursiveMutex?
  MaxDepth,        \* bound: nesting of a recursive mutex
  WakeCounts,      \* the toWake arguments used: 1 (Signal), all (SignalAll)
  MaxSignals       \* bound: increments of CondVar::cond

ASSUME FMutexAssumption ==
  /\ IsFiniteSet(Threads) /\ None \notin Threads \cup {"mutex"}
  /\ recursiveMutex \in BOOLEAN
  /\ WakeCounts \subseteq {1, Cardinality(Threads)}
  /\ MaxDepth \in Nat \ {0} /\ MaxSignals \in Nat

\* The callers of MutexLock.
Ops == {"Lock", "TryLock", "TryLockWithSpinning", "Wait", "TimedWait"}
Waits == {"Wait", "TimedWait"}

Labels ==
  {"out", "in", "load", "cas", "spin", "inc", "futex", "sleep", "reload",
   "dec", "own", "u_load", "u_owner", "u_cas", "u_wake", "c_ptr", "c_inc",
   "c_minc", "c_load", "c_futex", "c_sleep", "c_queued", "c_restore",
   "c_dec", "s_cond", "s_futex", "fatal"}

VARIABLES
  stateAndWaiters,  \* the word: held bit and number of waiters
  exclusiveOwner, recursiveCount,
  mutexPtr, cond, waiters,     \* struct CondVar
  pc, op,
  curState,   \* local of MutexLock and MutexUnlock
  oldCount,   \* local of Wait: the recursion depth it restores
  curCond,    \* local of Wait: the value FUTEX_WAIT compares
  toWake,     \* argument of SignalCount
  depth       \* the caller's view: its Lock calls minus its Unlock calls

mutexVars == <<stateAndWaiters, exclusiveOwner, recursiveCount>>
condVars  == <<mutexPtr, cond, waiters>>
locals    == <<oldCount, curCond, toWake>>
vars == <<mutexVars, condVars, pc, op, curState, locals, depth>>

ZeroState == [held |-> FALSE, waiters |-> 0]

\* MutexInit and ConditionVariableInit
Init ==
  /\ stateAndWaiters = ZeroState
  /\ exclusiveOwner = None
  /\ recursiveCount = 0
  /\ mutexPtr = None
  /\ cond = 0
  /\ waiters = 0
  /\ pc = [t \in Threads |-> "out"]
  /\ op = [t \in Threads |-> "Lock"]
  /\ curState = [t \in Threads |-> ZeroState]
  /\ oldCount = [t \in Threads |-> 0]
  /\ curCond = [t \in Threads |-> 0]
  /\ toWake = [t \in Threads |-> 1]
  /\ depth = [t \in Threads |-> 0]

IsHeld(t) == exclusiveOwner = t

Goto(t, from, to) == pc[t] = from /\ pc' = [pc EXCEPT ![t] = to]

\* t performs an access of MutexLock or MutexUnlock and goes on with curState c;
\* back in the caller's code its locals are gone.
Step(t, from, to, c) ==
  /\ Goto(t, from, to)
  /\ curState' = [curState EXCEPT ![t] = IF to \in {"in", "out"} THEN ZeroState ELSE c]
  /\ depth' = [depth EXCEPT ![t] = IF to = "in" THEN 1 ELSE @]
  /\ op' = [op EXCEPT ![t] = IF to \in {"in", "out"} THEN "Lock" ELSE @]
  /\ UNCHANGED locals

AddWaiter == stateAndWaiters' = [stateAndWaiters EXCEPT !.waiters = @ + 1]
SubWaiter == stateAndWaiters' = [stateAndWaiters EXCEPT !.waiters = @ - 1]

-----------------------------------------------------------------------------
(* MutexLock                                                               *)

Call(t, o) ==
  /\ Goto(t, "out", "load")
  /\ op' = [op EXCEPT ![t] = o]
  /\ UNCHANGED <<mutexVars, condVars, curState, locals, depth>>

\* The owner of a recursive mutex locks it again.
LockAgain(t) ==
  /\ pc[t] = "in"
  /\ recursiveMutex /\ IsHeld(t)
  /\ recursiveCount < MaxDepth
  /\ recursiveCount' = recursiveCount + 1
  /\ depth' = [depth EXCEPT ![t] = @ + 1]
  /\ UNCHANGED <<stateAndWaiters, exclusiveOwner, condVars, pc, op, curState, locals>>

\* The load at the head of the loop.  When the mutex is held TryLock returns
\* false; TryLockWithSpinning polls and may try again; the others poll and wait.
Load(t) ==
  /\ Step(t, "load", IF ~stateAndWaiters.held THEN "cas"
                     ELSE IF op[t] = "TryLock" THEN "out" ELSE "spin", stateAndWaiters)
  /\ UNCHANGED <<mutexVars, condVars>>

\* Wrong variant: the held bit is stored without comparing the word.
CasAsStore(t) ==
  /\ Step(t, "cas", "own", ZeroState)
  /\ stateAndWaiters' = [curState[t] EXCEPT !.held = TRUE]
  /\ UNCHANGED <<exclusiveOwner, recursiveCount, condVars>>

Cas(t) ==
  /\ Step(t, "cas", "own", ZeroState)
  /\ stateAndWaiters = curState[t]
  /\ stateAndWaiters' = [curState[t] EXCEPT !.held = TRUE]
  /\ UNCHANGED <<exclusiveOwner, recursiveCount, condVars>>

\* Lost to another thread, or failed spuriously.
CasFail(t) ==
  /\ Step(t, "cas", "load", ZeroState)
  /\ UNCHANGED <<mutexVars, condVars>>

\* The last poll decides.  TryLockWithSpinning gives up while the mutex is
\* held, and also after its tenth round.
WaitBrieflyFor(t) ==
  /\ \E to \in IF op[t] = "TryLockWithSpinning"
               THEN IF stateAndWaiters.held THEN {"out"} ELSE {"load", "out"}
               ELSE IF stateAndWaiters.held THEN {"inc"} ELSE {"load"} :
       Step(t, "spin", to, curState[t])
  /\ UNCHANGED <<mutexVars, condVars>>

\* IncrementWaiters; curState follows, whatever the word was meanwhile.
IncrementWaiters(t) ==
  /\ Step(t, "inc", "futex", [curState[t] EXCEPT !.waiters = @ + 1])
  /\ AddWaiter
  /\ UNCHANGED <<exclusiveOwner, recursiveCount, condVars>>

FutexWait(t) ==
  /\ Step(t, "futex", IF stateAndWaiters = curState[t] THEN "sleep" ELSE "reload",
          curState[t])
  /\ UNCHANGED <<mutexVars, condVars>>

Reload(t) ==
  /\ Step(t, "reload", IF stateAndWaiters.held THEN "futex" ELSE "dec", stateAndWaiters)
  /\ UNCHANGED <<mutexVars, condVars>>

DecrementWaiters(t) ==
  /\ Step(t, "dec", "load", ZeroState)
  /\ SubWaiter
  /\ UNCHANGED <<exclusiveOwner, recursiveCount, condVars>>

\* The end of MutexLock with its assertions; Wait goes on in its own code.
StoreOwner(t) ==
  /\ Step(t, "own", IF ~(stateAndWaiters.held /\ exclusiveOwner = None /\ recursiveCount = 0)
                    THEN "fatal" ELSE IF op[t] \in Waits THEN "c_restore" ELSE "in", ZeroState)
  /\ exclusiveOwner' = t
  /\ recursiveCount' = recursiveCount + 1
  /\ UNCHANGED <<stateAndWaiters, condVars>>

MutexLock(t) ==
  \/ Load(t) \/ CasFail(t) \/ WaitBrieflyFor(t) \/ IncrementWaiters(t)
  \/ FutexWait(t) \/ Reload(t) \/ DecrementWaiters(t) \/ StoreOwner(t)

-----------------------------------------------------------------------------
(* MutexUnlock                                                             *)

\* What MutexUnlock does before its loop, entered with recursion depth d;
\* an outer level of a recursive mutex keeps it.
UnlockCount(t, from, d) ==
  /\ recursiveCount' = d - 1
  /\ Goto(t, from, IF ~IsHeld(t) THEN "fatal"
                   ELSE IF recursiveMutex /\ d > 1 THEN "in"
                   ELSE IF d # 1 THEN "fatal" ELSE "u_load")

UnlockCall(t) ==
  /\ UnlockCount(t, "in", recursiveCount)
  /\ depth' = [depth EXCEPT ![t] = @ - 1]
  /\ UNCHANGED <<stateAndWaiters, exclusiveOwner, condVars, op, curState, locals>>

UnlockLoad(t) ==
  /\ Step(t, "u_load", IF stateAndWaiters.held THEN "u_owner" ELSE "fatal", stateAndWaiters)
  /\ UNCHANGED <<mutexVars, condVars>>

UnlockOwner(t) ==
  /\ Step(t, "u_owner", "u_cas", curState[t])
  /\ exclusiveOwner' = None
  /\ UNCHANGED <<stateAndWaiters, recursiveCount, condVars>>

AfterUnlock(t) == IF op[t] \in Waits THEN "c_futex" ELSE "out"

\* Wrong variant: nobody is woken.
UnlockCasNoWake(t) ==
  /\ Step(t, "u_cas", AfterUnlock(t), ZeroState)
  /\ stateAndWaiters = curState[t]
  /\ stateAndWaiters' = [curState[t] EXCEPT !.held = FALSE]
  /\ UNCHANGED <<exclusiveOwner, recursiveCount, condVars>>

UnlockCas(t) ==
  /\ Step(t, "u_cas", IF curState[t].waiters # 0 THEN "u_wake" ELSE AfterUnlock(t), ZeroState)
  /\ stateAndWaiters = curState[t]
  /\ stateAndWaiters' = [curState[t] EXCEPT !.held = FALSE]
  /\ UNCHANGED <<exclusiveOwner, recursiveCount, condVars>>

UnlockCasFail(t) ==
  /\ Step(t, "u_cas", IF stateAndWaiters.held THEN "u_owner" ELSE "fatal", stateAndWaiters)
  /\ UNCHANGED <<mutexVars, condVars>>

\* The futex queue of the mutex: waiters in MutexLock and requeued ones.
MutexQueue == {t \in Threads : pc[t] \in {"sleep", "c_queued"}}
CondQueue  == {t \in Threads : pc[t] = "c_sleep"}

\* Where a thread continues when its FUTEX_WAIT returns.
Awake(u) == IF pc[u] = "sleep" THEN "reload" ELSE "load"

\* A futex call of t that makes the calls of the threads in W return.
WakeSet(t, W, to) ==
  pc' = [u \in Threads |-> IF u = t THEN to ELSE IF u \in W THEN Awake(u) ELSE pc[u]]

\* The sets FUTEX_WAKE or FUTEX_REQUEUE may pick when asked for n of Q.
Picks(n, Q) == {W \in SUBSET Q : Cardinality(W) = n \/ (W = Q /\ Cardinality(Q) <= n)}

UnlockWake(t) ==
  /\ pc[t] = "u_wake"
  /\ \E W \in Picks(1, MutexQueue) : WakeSet(t, W, AfterUnlock(t))
  /\ UNCHANGED <<mutexVars, condVars, op, curState, locals, depth>>

\* A signal interrupts a FUTEX_WAIT (EINTR).
FutexInterrupted(t) ==
  /\ pc[t] \in {"sleep", "c_sleep", "c_queued"}
  /\ Goto(t, pc[t], Awake(t))
  /\ UNCHANGED <<mutexVars, condVars, op, curState, locals, depth>>

MutexUnlock(t) ==
  \/ UnlockCall(t) \/ UnlockLoad(t) \/ UnlockOwner(t) \/ UnlockCasFail(t) \/ UnlockWake(t)

\* The monitor locks a mutex it has just created, and that no other thread
\* can reach yet, on behalf of u, and takes that back when the inflation fails.
Unshared == \A t \in Threads : pc[t] \in {"in", "out"}

MutexLockForOther(u) ==
  /\ Unshared
  /\ stateAndWaiters = ZeroState
  /\ Goto(u, "out", "in")
  /\ stateAndWaiters' = [held |-> TRUE, waiters |-> 0]
  /\ recursiveCount' = 1
  /\ exclusiveOwner' = u
  /\ depth' = [depth EXCEPT ![u] = 1]
  /\ UNCHANGED <<condVars, op, curState, locals>>

MutexUnlockForOther(u) ==
  /\ Unshared
  /\ recursiveCount = 1
  /\ Goto(u, "in", IF IsHeld(u) /\ stateAndWaiters = [held |-> TRUE, waiters |-> 0]
                   THEN "out" ELSE "fatal")
  /\ stateAndWaiters' = ZeroState
  /\ recursiveCount' = 0
  /\ exclusiveOwner' = None
  /\ depth' = [depth EXCEPT ![u] = 0]
  /\ UNCHANGED <<condVars, op, curState, locals>>

-----------------------------------------------------------------------------
(* CondVar: Wait, TimedWait, SignalCount                                   *)

WaitCall(t, o) ==
  /\ Goto(t, "in", IF IsHeld(t) THEN "c_ptr" ELSE "fatal")
  /\ op' = [op EXCEPT ![t] = o]
  /\ UNCHANGED <<mutexVars, condVars, curState, locals, depth>>

\* The CAS loop on mutexPtr; every waiter passes the same mutex.
WaitSetMutexPtr(t) ==
  /\ Goto(t, "c_ptr", "c_inc")
  /\ mutexPtr' = "mutex"
  /\ UNCHANGED <<mutexVars, cond, waiters, op, curState, locals, depth>>

WaitCountIn(t) ==
  /\ Goto(t, "c_inc", "c_minc")
  /\ waiters' = waiters + 1
  /\ UNCHANGED <<mutexVars, mutexPtr, cond, op, curState, locals, depth>>

WaitMutexIncrement(t) ==
  /\ Goto(t, "c_minc", "c_load")
  /\ AddWaiter
  /\ UNCHANGED <<exclusiveOwner, recursiveCount, condVars, op, curState, locals, depth>>

\* Saves the recursion depth, reads cond, enters MutexUnlock with depth 1.
WaitLoadCond(t) ==
  /\ oldCount' = [oldCount EXCEPT ![t] = recursiveCount]
  /\ curCond' = [curCond EXCEPT ![t] = cond]
  /\ UnlockCount(t, "c_load", 1)
  /\ UNCHANGED <<stateAndWaiters, exclusiveOwner, condVars, op, curState, toWake, depth>>

\* Wrong variant: FUTEX_WAIT with the value read now, after the unlock.
CondFutexWaitLate(t) ==
  /\ Goto(t, "c_futex", "c_sleep")
  /\ UNCHANGED <<mutexVars, condVars, op, curState, locals, depth>>

CondFutexWait(t) ==
  /\ Goto(t, "c_futex", IF cond = curCond[t] THEN "c_sleep" ELSE "load")
  /\ UNCHANGED <<mutexVars, condVars, op, curState, locals, depth>>

\* FUTEX_WAIT of TimedWait returns ETIMEDOUT, from whichever queue it is in.
TimedOut(t) ==
  /\ op[t] = "TimedWait"
  /\ pc[t] \in {"c_sleep", "c_queued"}
  /\ Goto(t, pc[t], "load")
  /\ UNCHANGED <<mutexVars, condVars, op, curState, locals, depth>>

\* Wrong variant: the recursion depth is left at 1.
CountNotRestored(t) ==
  /\ Goto(t, "c_restore", "c_dec")
  /\ SubWaiter
  /\ UNCHANGED <<recursiveCount, exclusiveOwner, condVars, op, curState, locals, depth>>

\* After MutexLock: restore the depth, then leave both waiter counts.
WaitRestore(t) ==
  /\ Goto(t, "c_restore", "c_dec")
  /\ recursiveCount' = oldCount[t]
  /\ SubWaiter
  /\ UNCHANGED <<exclusiveOwner, condVars, op, curState, locals, depth>>

WaitCountOut(t) ==
  /\ Goto(t, "c_dec", "in")
  /\ waiters' = waiters - 1
  /\ oldCount' = [oldCount EXCEPT ![t] = 0]
  /\ curCond' = [curCond EXCEPT ![t] = 0]
  /\ op' = [op EXCEPT ![t] = "Lock"]
  /\ UNCHANGED <<mutexVars, mutexPtr, cond, curState, toWake, depth>>

CondWait(t) ==
  \/ WaitSetMutexPtr(t) \/ WaitCountIn(t) \/ WaitMutexIncrement(t)
  \/ WaitLoadCond(t) \/ CondFutexWait(t) \/ WaitRestore(t) \/ WaitCountOut(t)

\* SignalCount sees waiters (otherwise it returns at once).
SignalCall(t, n) ==
  /\ pc[t] \in {"in", "out"}
  /\ waiters # 0
  /\ cond + Cardinality({u \in Threads : pc[u] = "s_cond"}) < MaxSignals
  /\ Goto(t, pc[t], "s_cond")
  /\ toWake' = [toWake EXCEPT ![t] = n]
  /\ UNCHANGED <<mutexVars, condVars, op, curState, oldCount, curCond, depth>>

SignalCond(t) ==
  /\ Goto(t, "s_cond", IF mutexPtr = None THEN "fatal" ELSE "s_futex")
  /\ cond' = cond + 1
  /\ UNCHANGED <<mutexVars, mutexPtr, waiters, op, curState, locals, depth>>

\* The owner moves waiters to the mutex's queue, any other thread wakes them.
SignalFutex(t) ==
  /\ pc[t] = "s_futex"
  /\ \E W \in Picks(toWake[t], CondQueue) :
       IF IsHeld(t)
       THEN pc' = [u \in Threads |-> IF u = t THEN "in"
                                     ELSE IF u \in W THEN "c_queued" ELSE pc[u]]
       ELSE WakeSet(t, W, "out")
  /\ toWake' = [toWake EXCEPT ![t] = 1]
  /\ UNCHANGED <<mutexVars, condVars, op, curState, oldCount, curCond, depth>>

SignalCount(t) == SignalCond(t) \/ SignalFutex(t)
-----------------------------------------------------------------------------
Next ==
  \E t \in Threads :
    \/ \E o \in Ops \ Waits : Call(t, o)
    \/ LockAgain(t) \/ MutexLock(t) \/ Cas(t)
    \/ MutexUnlock(t) \/ UnlockCas(t)
    \/ MutexLockForOther(t) \/ MutexUnlockForOther(t)
    \/ \E o \in Waits : WaitCall(t, o)
    \/ CondWait(t) \/ TimedOut(t)
    \/ \E n \in WakeCounts : SignalCall(t, n)
    \/ SignalCount(t)
    \/ FutexInterrupted(t)

Spec == Init /\ [][Next]_vars

(***************************************************************************)
(* Scheduling.  A thread inside an operation keeps taking steps, a holder  *)
(* eventually unlocks, and the CASes do not fail for ever: some acquiring  *)
(* CAS eventually succeeds if one could again and again, and the releasing *)
(* CAS, whose word others change only by waiting, does too.                *)
(***************************************************************************)
Fairness ==
  /\ \A t \in Threads : /\ WF_vars(MutexLock(t)) /\ WF_vars(MutexUnlock(t))
                        /\ WF_vars(CondWait(t)) /\ WF_vars(SignalCount(t))
                        /\ SF_vars(UnlockCas(t))
  /\ SF_vars(\E t \in Threads : Cas(t))

FairSpec == Spec /\ Fairness
-----------------------------------------------------------------------------
\* The type invariant.
TypeOK ==
  /\ stateAndWaiters \in [held : BOOLEAN, waiters : Nat]
  /\ exclusiveOwner \in Threads \cup {None}
  /\ recursiveCount \in Nat
  /\ mutexPtr \in {None, "mutex"}
  /\ cond \in Nat /\ waiters \in Nat
  /\ pc \in [Threads -> Labels]
  /\ op \in [Threads -> Ops]
  /\ curState \in [Threads -> [held : BOOLEAN, waiters : Int]]
  /\ oldCount \in [Threads -> Nat] /\ curCond \in [Threads -> Nat]
  /\ toWake \in [Threads -> WakeCounts \cup {1}]
  /\ depth \in [Threads -> Nat]

\* Threads between the CAS that sets the held bit and the one that clears it.
Holders ==
  {t \in Threads :
     \/ pc[t] \in {"own", "in", "u_load", "u_owner", "u_cas", "c_ptr", "c_inc",
                   "c_minc", "c_load", "c_restore", "c_dec"}
     \/ pc[t] \in {"s_cond", "s_futex"} /\ depth[t] > 0}

\* At most one thread has the mutex, and the held bit says whether one has;
\* CondVar::Wait gives it up and takes it back.
MutualExclusion ==
  /\ \A t, u \in Holders : t = u
  /\ stateAndWaiters.held <=> Holders # {}

\* No assertion and no FATAL of MutexLock, MutexUnlock, Wait or SignalCount
\* is reached by callers that unlock and wait only with the mutex held: the
\* owner is cleared before the word, so an acquirer finds it clear, and
\* mutexPtr is set before a signaller can see a waiter.
NoFatal == \A t \in Threads : pc[t] # "fatal"

\* The caller's nesting and the mutex's recursiveCount agree whenever the
\* caller is back in its own code, also after a Wait that gave up all levels
\* of a RecursiveMutex at once.
NestingAgrees ==
  \A t \in Threads : /\ pc[t] = "in" => recursiveCount = depth[t] /\ depth[t] > 0
                     /\ pc[t] = "out" => depth[t] = 0

\* Threads counted in the word by MutexLock, and by Wait from its increment
\* to its decrement (a waiter that blocks again in MutexLock counts twice).
LockWaiting == {t \in Threads : pc[t] \in {"futex", "sleep", "reload", "dec"}}
CondWaiting ==
  {t \in Threads :
     \/ pc[t] \in {"c_load", "c_futex", "c_sleep", "c_queued", "c_restore"}
     \/ op[t] \in Waits /\ pc[t] \in {"u_load", "u_owner", "u_cas", "u_wake",
          "load", "cas", "spin", "inc", "futex", "sleep", "reload", "dec", "own"}}

CondCounted == {t \in Threads : pc[t] \in {"c_minc", "c_dec"}}

\* The waiter counts of the mutex word and of the CondVar are exact.
WaitersExact ==
  /\ stateAndWaiters.waiters = Cardinality(LockWaiting) + Cardinality(CondWaiting)
  /\ waiters = Cardinality(CondWaiting) + Cardinality(CondCounted)

\* Threads inside a blocking MutexLock that are not asleep.
Lockers ==
  {t \in Threads : /\ op[t] \notin {"TryLock", "TryLockWithSpinning"}
                   /\ pc[t] \in {"load", "cas", "spin", "inc", "futex", "reload", "dec"}}

\* WAKE_ONE is enough: whenever threads sleep on a free mutex (requeued
\* condition waiters too), an unlocker still has its FUTEX_WAKE ahead or an
\* awake thread is on its way to acquire the mutex, and will wake the next.
NoLostWakeup ==
  (~stateAndWaiters.held /\ MutexQueue # {})
    => \/ \E t \in Threads : pc[t] = "u_wake"
       \/ Lockers # {}

\* A SignalAll is not lost on a thread that released the mutex in Wait before
\* it: no thread sleeps on an outdated cond value unless a signaller still has
\* its futex call ahead.  (A Signal may leave all but one of them asleep.)
NoLostSignal ==
  1 \notin WakeCounts =>
    \A t \in CondQueue : \/ curCond[t] = cond
                         \/ \E u \in Threads : pc[u] = "s_futex"

\* MutexDestroy and ConditionVariableDestroy: with every thread out, the
\* checks of the two destructors pass.
DestructorChecksPass ==
  (\A t \in Threads : pc[t] = "out")
    => stateAndWaiters = ZeroState /\ exclusiveOwner = None /\ waiters = 0

\* Contention is resolved: while threads block in MutexLock, or were requeued
\* there by a signaller, the mutex keeps being acquired, unless an owner locks
\* a recursive mutex again and again without ever leaving it.
Progress ==
  <>[][\A t \in Threads : ~LockAgain(t)]_vars
    => ((Lockers # {} \/ MutexQueue # {}) ~> (\E t \in Threads : pc[t] = "own"))
=============================================================================
