---------------------------- MODULE FMutexProofs ----------------------------
(***************************************************************************)
(* Proofs, for any finite set of threads, any nesting bound and any number *)
(* of signals, of the safety properties of module FMutex.  The argument    *)
(* has three layers.  Control says which thread owns the mutex at each     *)
(* label, what its locals still guarantee and how its nesting relates to   *)
(* recursiveCount; it is inductive by itself and gives mutual exclusion    *)
(* and the absence of failed assertions.  WaitersExact adds the counts, so *)
(* that an unlocker sees every sleeper.  On these two rest NoLostWakeup    *)
(* and NoLostSignal.                                                       *)
(***************************************************************************)
EXTENDS FMutex, TLAPS, FiniteSetTheorems

\* TypeOK with the waiter counts as integers: that they are never negative
\* needs the count of the waiting threads, not only control.
WeakType ==
  /\ stateAndWaiters \in [held : BOOLEAN, waiters : Int]
  /\ exclusiveOwner \in Threads \cup {None}
  /\ recursiveCount \in Nat
  /\ mutexPtr \in {None, "mutex"}
  /\ cond \in Nat /\ waiters \in Int
  /\ pc \in [Threads -> Labels]
  /\ op \in [Threads -> Ops]
  /\ curState \in [Threads -> [held : BOOLEAN, waiters : Int]]
  /\ oldCount \in [Threads -> Nat] /\ curCond \in [Threads -> Nat]
  /\ toWake \in [Threads -> WakeCounts \cup {1}]
  /\ depth \in [Threads -> Nat]

\* The functions a thread can be in, label by label.
OpMatches ==
  \A t \in Threads :
    /\ pc[t] \in {"in", "out", "s_cond", "s_futex"} => op[t] = "Lock"
    /\ pc[t] \in {"c_ptr", "c_inc", "c_minc", "c_load", "c_futex", "c_sleep",
                  "c_queued", "c_restore", "c_dec"} => op[t] \in Waits
    /\ pc[t] = "spin" => op[t] # "TryLock"
    /\ pc[t] \in {"inc", "futex", "sleep", "reload", "dec"}
         => op[t] \notin {"TryLock", "TryLockWithSpinning"}
    /\ pc[t] \in {"u_load", "u_owner", "u_cas", "u_wake"}
         => op[t] \in Waits \cup {"Lock"}

\* The owner field follows the held bit: set after it, cleared before it.
OwnerMatches ==
  \A t \in Threads :
    /\ pc[t] \in {"in", "u_load", "c_ptr", "c_inc", "c_minc", "c_load",
                  "c_restore", "c_dec"} => exclusiveOwner = t
    /\ pc[t] \in {"s_cond", "s_futex"} /\ depth[t] > 0 => exclusiveOwner = t
    /\ exclusiveOwner = t => t \in Holders /\ pc[t] \notin {"own", "u_cas"}

\* What recursiveCount is at each label of the holder, and what the caller's
\* nesting is at each label.
CountMatches ==
  /\ Holders = {} => recursiveCount = 0
  /\ \A t \in Threads :
       /\ pc[t] \in {"own", "u_load", "u_owner", "u_cas"} => recursiveCount = 0
       /\ pc[t] \in {"in", "c_ptr", "c_inc", "c_minc", "c_load", "c_dec"}
            => recursiveCount = depth[t] /\ depth[t] > 0
       /\ pc[t] \in {"s_cond", "s_futex"} /\ depth[t] > 0 => recursiveCount = depth[t]
       /\ pc[t] = "c_restore" => recursiveCount = 1
       /\ pc[t] \in {"c_futex", "c_sleep", "c_queued", "c_restore"}
            => oldCount[t] = depth[t] /\ depth[t] > 0
       /\ pc[t] \in {"u_load", "u_owner", "u_cas", "u_wake", "load", "cas", "spin",
                     "inc", "futex", "sleep", "reload", "dec", "own"}
            => IF op[t] \in Waits THEN oldCount[t] = depth[t] /\ depth[t] > 0
               ELSE depth[t] = 0
       /\ pc[t] = "out" => depth[t] = 0
       /\ ~recursiveMutex => depth[t] <= 1

\* What the local curState still guarantees.
LocalsMatch ==
  \A t \in Threads :
    /\ pc[t] = "cas" => ~curState[t].held
    /\ pc[t] \in {"spin", "inc", "futex", "sleep", "u_owner", "u_cas"} => curState[t].held
    /\ pc[t] \in {"s_cond", "s_futex"} => toWake[t] \in WakeCounts

\* A waiter sets mutexPtr before it shows itself in waiters.
MutexPtrSet ==
  /\ waiters # 0 => mutexPtr # None
  /\ \A t \in Threads : pc[t] \in {"c_inc", "c_minc", "c_load", "c_restore", "c_dec",
                                   "s_cond", "s_futex", "c_futex", "c_sleep", "c_queued"}
                        \/ (op[t] \in Waits /\ pc[t] # "c_ptr")
                          => mutexPtr # None

Control ==
  /\ WeakType /\ MutualExclusion /\ NoFatal /\ OpMatches /\ OwnerMatches
  /\ CountMatches /\ LocalsMatch /\ MutexPtrSet
-----------------------------------------------------------------------------
(* A fresh mutex and condition variable satisfy Control. *)
LEMMA InitControl == Init => Control
<1> SUFFICES ASSUME Init PROVE Control
  OBVIOUS
<1>1. Holders = {}
  BY DEF Init, Holders
<1> QED
  BY <1>1, FMutexAssumption
     DEF Init, Control, WeakType, MutualExclusion, NoFatal, OpMatches, OwnerMatches,
         CountMatches, LocalsMatch, MutexPtrSet, ZeroState, Labels, Ops, Waits

\* FUTEX_WAKE of an unlocker: who moves where.
WakeMoves(t) ==
  /\ pc[t] = "u_wake" /\ pc'[t] = AfterUnlock(t) /\ pc' \in [Threads -> Labels]
  /\ \A u \in Threads \ {t} :
       \/ pc'[u] = pc[u]
       \/ pc[u] = "sleep" /\ pc'[u] = "reload"
       \/ pc[u] = "c_queued" /\ pc'[u] = "load"

\* FUTEX_REQUEUE or FUTEX_WAKE of a signaller: who moves where.
SignalMoves(t) ==
  /\ pc[t] = "s_futex" /\ pc'[t] = (IF IsHeld(t) THEN "in" ELSE "out")
  /\ pc' \in [Threads -> Labels]
  /\ \A u \in Threads \ {t} :
       \/ pc'[u] = pc[u]
       \/ pc[u] = "c_sleep" /\ pc'[u] = IF IsHeld(t) THEN "c_queued" ELSE "load"

(* The wake-up of an unlocker moves only sleepers of the mutex's queue. *)
LEMMA UnlockWakeMoves ==
  ASSUME Control, NEW t \in Threads, UnlockWake(t)
  PROVE  WakeMoves(t)
<1>1. PICK W \in SUBSET MutexQueue : WakeSet(t, W, AfterUnlock(t))
  BY DEF UnlockWake, Picks
<1> QED
  BY <1>1 DEF WakeMoves, UnlockWake, WakeSet, Awake, MutexQueue, AfterUnlock, Control,
     WeakType, Labels

(* A signaller moves only sleepers of the condition variable's queue. *)
LEMMA SignalFutexMoves ==
  ASSUME Control, NEW t \in Threads, SignalFutex(t)
  PROVE  SignalMoves(t)
<1>1. PICK W \in SUBSET CondQueue :
           IF IsHeld(t)
           THEN pc' = [u \in Threads |-> IF u = t THEN "in"
                                         ELSE IF u \in W THEN "c_queued" ELSE pc[u]]
           ELSE WakeSet(t, W, "out")
  BY DEF SignalFutex, Picks
<1> QED
  BY <1>1 DEF SignalMoves, SignalFutex, WakeSet, Awake, CondQueue, Control, WeakType, Labels

(* The steps of MutexLock preserve Control. *)
LEMMA LockControl ==
  ASSUME Control, NEW t \in Threads, MutexLock(t) \/ Cas(t) \/ LockAgain(t)
  PROVE  Control'
<1> USE FMutexAssumption
    DEF Control, WeakType, MutualExclusion, NoFatal, OpMatches, OwnerMatches, CountMatches,
        LocalsMatch, MutexPtrSet, Labels, Ops, Waits, Holders, Step, Goto, IsHeld, ZeroState,
        mutexVars, condVars, locals
<1>1. CASE Load(t)
  BY <1>1 DEF Load
<1>2. CASE CasFail(t)
  BY <1>2 DEF CasFail
<1>3. CASE WaitBrieflyFor(t)
  <2>1. PICK to \in {"out", "inc", "load"} :
             /\ Step(t, "spin", to, curState[t])
             /\ to = "inc" => op[t] # "TryLockWithSpinning"
             /\ to = "out" => op[t] = "TryLockWithSpinning"
    BY <1>3 DEF WaitBrieflyFor
  <2> QED
    BY <1>3, <2>1 DEF WaitBrieflyFor
<1>4. CASE IncrementWaiters(t)
  BY <1>4 DEF IncrementWaiters, AddWaiter
<1>5. CASE FutexWait(t)
  BY <1>5 DEF FutexWait
<1>6. CASE Reload(t)
  BY <1>6 DEF Reload
<1>7. CASE DecrementWaiters(t)
  BY <1>7 DEF DecrementWaiters, SubWaiter
<1>8. CASE StoreOwner(t)
  BY <1>8 DEF StoreOwner
<1>9. CASE Cas(t)
  <2>1. Holders = {} /\ recursiveCount = 0
    BY <1>9 DEF Cas
  <2>2. Holders' = {t}
    BY <1>9, <2>1 DEF Cas
  <2>3. WeakType'
    <3>1. stateAndWaiters' \in [held : BOOLEAN, waiters : Int]
      BY <1>9 DEF Cas
    <3> QED
      BY <1>9, <3>1 DEF Cas
  <2>4. MutualExclusion' /\ NoFatal' /\ OpMatches'
    BY <1>9, <2>1, <2>2 DEF Cas
  <2>5. OwnerMatches' /\ CountMatches'
    BY <1>9, <2>1, <2>2 DEF Cas
  <2>6. LocalsMatch' /\ MutexPtrSet'
    BY <1>9, <2>1, <2>2 DEF Cas
  <2> QED
    BY <2>3, <2>4, <2>5, <2>6
<1>10. CASE LockAgain(t)
  BY <1>10 DEF LockAgain
<1> QED
  BY <1>1, <1>2, <1>3, <1>4, <1>5, <1>6, <1>7, <1>8, <1>9, <1>10 DEF MutexLock

(* The steps of MutexUnlock preserve Control. *)
LEMMA UnlockControl ==
  ASSUME Control, NEW t \in Threads, MutexUnlock(t) \/ UnlockCas(t)
  PROVE  Control'
<1> USE FMutexAssumption
    DEF Control, WeakType, MutualExclusion, NoFatal, OpMatches, OwnerMatches, CountMatches,
        LocalsMatch, MutexPtrSet, Labels, Ops, Waits, Holders, Step, Goto, IsHeld, ZeroState,
        mutexVars, condVars, locals
<1>1. CASE UnlockCall(t)
  BY <1>1 DEF UnlockCall, UnlockCount
<1>2. CASE UnlockLoad(t)
  BY <1>2 DEF UnlockLoad, AfterUnlock
<1>3. CASE UnlockOwner(t)
  BY <1>3 DEF UnlockOwner, AfterUnlock
<1>4. CASE UnlockCasFail(t)
  BY <1>4 DEF UnlockCasFail, AfterUnlock
<1>5. CASE UnlockCas(t)
  <2>1. Holders = {t}
    BY <1>5 DEF UnlockCas
  <2>2. Holders' = {}
    BY <1>5, <2>1 DEF UnlockCas, AfterUnlock
  <2>3. WeakType'
    <3>1. stateAndWaiters' \in [held : BOOLEAN, waiters : Int]
      BY <1>5 DEF UnlockCas, AfterUnlock
    <3> QED
      BY <1>5, <3>1 DEF UnlockCas, AfterUnlock
  <2>4. MutualExclusion' /\ NoFatal' /\ OpMatches'
    BY <1>5, <2>1, <2>2 DEF UnlockCas, AfterUnlock
  <2>5. OwnerMatches' /\ CountMatches'
    BY <1>5, <2>1, <2>2 DEF UnlockCas, AfterUnlock
  <2>6. LocalsMatch' /\ MutexPtrSet'
    BY <1>5, <2>1, <2>2 DEF UnlockCas, AfterUnlock
  <2> QED
    BY <2>3, <2>4, <2>5, <2>6
<1>6. CASE UnlockWake(t)
  <2>0. WakeMoves(t)
    BY <1>6, UnlockWakeMoves
  <2>1. Holders' = Holders
    BY <1>6, <2>0 DEF UnlockWake, WakeMoves, AfterUnlock
  <2>2. MutualExclusion'
    <3> HIDE DEF Holders
    <3> QED
      BY <1>6, <2>1 DEF UnlockWake, WakeMoves, AfterUnlock
  <2>3. WeakType' /\ NoFatal' /\ OpMatches'
    BY <1>6, <2>0, <2>1 DEF UnlockWake, WakeMoves, AfterUnlock
  <2>4. OwnerMatches'
    BY <1>6, <2>0, <2>1 DEF UnlockWake, WakeMoves, AfterUnlock
  <2>5. CountMatches'
    BY <1>6, <2>0, <2>1 DEF UnlockWake, WakeMoves, AfterUnlock
  <2>6. LocalsMatch' /\ MutexPtrSet'
    BY <1>6, <2>0, <2>1 DEF UnlockWake, WakeMoves, AfterUnlock
  <2> QED
    BY <2>2, <2>3, <2>4, <2>5, <2>6
<1> QED
  BY <1>1, <1>2, <1>3, <1>4, <1>5, <1>6 DEF MutexUnlock

(* Lock and unlock on behalf of another thread, interrupted waits and calls preserve Control. *)
LEMMA OtherControl ==
  ASSUME Control, NEW t \in Threads, WaitersExact, 
         \/ MutexLockForOther(t) \/ MutexUnlockForOther(t) \/ FutexInterrupted(t)
         \/ \E o \in Ops \ Waits : Call(t, o)
  PROVE  Control'
<1> USE FMutexAssumption
    DEF Control, WeakType, MutualExclusion, NoFatal, OpMatches, OwnerMatches, CountMatches,
        LocalsMatch, MutexPtrSet, Labels, Ops, Waits, Holders, Step, Goto, IsHeld, ZeroState,
        mutexVars, condVars, locals
<1>1. CASE MutexLockForOther(t)
  BY <1>1 DEF MutexLockForOther, Unshared
<1>2. CASE MutexUnlockForOther(t)
  <2>1. Holders = {t}
    BY <1>2 DEF MutexUnlockForOther
  <2>2. Holders' = {}
    BY <1>2, <2>1 DEF MutexUnlockForOther, Unshared
  <2>3. LockWaiting = {} /\ CondWaiting = {}
    BY <1>2 DEF MutexUnlockForOther, Unshared, LockWaiting, CondWaiting
  <2>4. stateAndWaiters = [held |-> TRUE, waiters |-> 0]
    BY <2>1, <2>3, FS_EmptySet DEF WaitersExact
  <2>5. pc'[t] = "out"
    BY <1>2, <2>4 DEF MutexUnlockForOther
  <2>6. WeakType' /\ MutualExclusion' /\ NoFatal' /\ OpMatches'
    BY <1>2, <2>1, <2>2, <2>5 DEF MutexUnlockForOther, Unshared
  <2>7. OwnerMatches' /\ CountMatches' /\ LocalsMatch' /\ MutexPtrSet'
    BY <1>2, <2>1, <2>2, <2>5 DEF MutexUnlockForOther, Unshared
  <2> QED
    BY <2>6, <2>7
<1>3. CASE FutexInterrupted(t)
  BY <1>3 DEF FutexInterrupted, Awake
<1>4. CASE \E o \in Ops \ Waits : Call(t, o)
  BY <1>4 DEF Call
<1> QED
  BY <1>1, <1>2, <1>3, <1>4

(* The steps of Wait, TimedWait and SignalCount preserve Control. *)
LEMMA CondControl ==
  ASSUME Control, NEW t \in Threads, 
         \/ CondWait(t) \/ TimedOut(t) \/ SignalCount(t)
         \/ (\E o \in Waits : WaitCall(t, o)) \/ (\E n \in WakeCounts : SignalCall(t, n))
  PROVE  Control'
<1> USE FMutexAssumption
    DEF Control, WeakType, MutualExclusion, NoFatal, OpMatches, OwnerMatches, CountMatches,
        LocalsMatch, MutexPtrSet, Labels, Ops, Waits, Holders, Step, Goto, IsHeld, ZeroState,
        mutexVars, condVars, locals
<1>1. CASE WaitSetMutexPtr(t)
  BY <1>1 DEF WaitSetMutexPtr
<1>2. CASE WaitCountIn(t)
  BY <1>2 DEF WaitCountIn
<1>3. CASE WaitMutexIncrement(t)
  BY <1>3 DEF WaitMutexIncrement, AddWaiter
<1>4. CASE WaitLoadCond(t)
  BY <1>4 DEF WaitLoadCond, UnlockCount
<1>5. CASE CondFutexWait(t)
  BY <1>5 DEF CondFutexWait
<1>6. CASE WaitRestore(t)
  BY <1>6 DEF WaitRestore, SubWaiter
<1>7. CASE WaitCountOut(t)
  BY <1>7 DEF WaitCountOut
<1>8. CASE TimedOut(t)
  BY <1>8 DEF TimedOut
<1>9. CASE SignalCond(t)
  BY <1>9 DEF SignalCond
<1>10. CASE SignalFutex(t)
  <2>0. SignalMoves(t)
    BY <1>10, SignalFutexMoves
  <2>1. Holders' = Holders
    BY <1>10, <2>0 DEF SignalFutex, SignalMoves
  <2>2. MutualExclusion'
    <3> HIDE DEF Holders
    <3> QED
      BY <1>10, <2>1 DEF SignalFutex, SignalMoves
  <2>3. NoFatal' /\ OpMatches'
    <3> HIDE DEF MutualExclusion, OwnerMatches, CountMatches, LocalsMatch, MutexPtrSet, Holders
    <3> QED
      BY <1>10, <2>0 DEF SignalFutex, SignalMoves
  <2>4. OwnerMatches'
    BY <1>10, <2>0, <2>1 DEF SignalFutex, SignalMoves
  <2>5. CountMatches'
    BY <1>10, <2>0, <2>1 DEF SignalFutex, SignalMoves
  <2>6. LocalsMatch' /\ MutexPtrSet'
    BY <1>10, <2>0, <2>1 DEF SignalFutex, SignalMoves
  <2>7. WeakType'
    BY <1>10, <2>0 DEF SignalFutex, SignalMoves
  <2> QED
    BY <2>7, <2>2, <2>3, <2>4, <2>5, <2>6
<1>11. CASE \E o \in Waits : WaitCall(t, o)
  BY <1>11 DEF WaitCall
<1>12. CASE \E n \in WakeCounts : SignalCall(t, n)
  BY <1>12 DEF SignalCall
<1> QED
  BY <1>1, <1>2, <1>3, <1>4, <1>5, <1>6, <1>7, <1>8, <1>9, <1>10, <1>11, <1>12 DEF CondWait, SignalCount

(* What the counts are counts of: finite sets of threads. *)
LEMMA WaitingFinite ==
  /\ IsFiniteSet(LockWaiting) /\ IsFiniteSet(CondWaiting) /\ IsFiniteSet(CondCounted)
  /\ Cardinality(LockWaiting) \in Nat /\ Cardinality(CondWaiting) \in Nat
  /\ Cardinality(CondCounted) \in Nat
  /\ Cardinality(LockWaiting) = 0 <=> LockWaiting = {}
  /\ Cardinality(CondWaiting) = 0 <=> CondWaiting = {}
<1>1. /\ LockWaiting \subseteq Threads /\ CondWaiting \subseteq Threads
      /\ CondCounted \subseteq Threads
  BY DEF LockWaiting, CondWaiting, CondCounted
<1> QED
  BY <1>1, FMutexAssumption, FS_Subset, FS_CardinalityType, FS_EmptySet

(* MutexLock counts a waiter in before it sleeps and out after. *)
LEMMA LockCounts ==
  ASSUME Control, Control', WaitersExact, NEW t \in Threads,
         MutexLock(t) \/ Cas(t) \/ LockAgain(t)
  PROVE  WaitersExact'
<1> USE FMutexAssumption
    DEF Control, WeakType, NoFatal, OpMatches, Labels, Ops, Waits, Step, Goto, mutexVars, condVars
<1>0. ASSUME LockWaiting' = LockWaiting, CondWaiting' = CondWaiting, CondCounted' = CondCounted,
             waiters' = waiters, stateAndWaiters'.waiters = stateAndWaiters.waiters
      PROVE  WaitersExact'
  BY <1>0 DEF WaitersExact
<1>1. CASE Load(t)
  <2>1. LockWaiting' = LockWaiting /\ CondWaiting' = CondWaiting /\ CondCounted' = CondCounted
    BY <1>1 DEF Load, LockWaiting, CondWaiting, CondCounted
  <2> QED
    BY <1>1, <2>1, <1>0 DEF Load
<1>2. CASE CasFail(t)
  <2>1. LockWaiting' = LockWaiting /\ CondWaiting' = CondWaiting /\ CondCounted' = CondCounted
    BY <1>2 DEF CasFail, LockWaiting, CondWaiting, CondCounted
  <2> QED
    BY <1>2, <2>1, <1>0 DEF CasFail
<1>3. CASE WaitBrieflyFor(t)
  <2>1. LockWaiting' = LockWaiting /\ CondWaiting' = CondWaiting /\ CondCounted' = CondCounted
    BY <1>3 DEF WaitBrieflyFor, LockWaiting, CondWaiting, CondCounted
  <2> QED
    BY <1>3, <2>1, <1>0 DEF WaitBrieflyFor
<1>4. CASE IncrementWaiters(t)
  <2>1. /\ LockWaiting' = LockWaiting \cup {t} /\ t \notin LockWaiting
        /\ CondWaiting' = CondWaiting
        /\ CondCounted' = CondCounted
    BY <1>4 DEF IncrementWaiters, LockWaiting, CondWaiting, CondCounted
  <2>2. Cardinality(LockWaiting') = Cardinality(LockWaiting) + 1
    BY <2>1, WaitingFinite, FS_AddElement
  <2> QED
    BY <1>4, <2>1, <2>2, WaitingFinite DEF IncrementWaiters, WaitersExact, AddWaiter, SubWaiter
<1>5. CASE FutexWait(t)
  <2>1. LockWaiting' = LockWaiting /\ CondWaiting' = CondWaiting /\ CondCounted' = CondCounted
    BY <1>5 DEF FutexWait, LockWaiting, CondWaiting, CondCounted
  <2> QED
    BY <1>5, <2>1, <1>0 DEF FutexWait
<1>6. CASE Reload(t)
  <2>1. LockWaiting' = LockWaiting /\ CondWaiting' = CondWaiting /\ CondCounted' = CondCounted
    BY <1>6 DEF Reload, LockWaiting, CondWaiting, CondCounted
  <2> QED
    BY <1>6, <2>1, <1>0 DEF Reload
<1>7. CASE DecrementWaiters(t)
  <2>1. /\ LockWaiting' = LockWaiting \ {t} /\ t \in LockWaiting
        /\ CondWaiting' = CondWaiting
        /\ CondCounted' = CondCounted
    BY <1>7 DEF DecrementWaiters, LockWaiting, CondWaiting, CondCounted
  <2>2. Cardinality(LockWaiting') = Cardinality(LockWaiting) - 1
    BY <2>1, WaitingFinite, FS_RemoveElement
  <2> QED
    BY <1>7, <2>1, <2>2, WaitingFinite DEF DecrementWaiters, WaitersExact, AddWaiter, SubWaiter
<1>8. CASE StoreOwner(t)
  <2>1. LockWaiting' = LockWaiting /\ CondWaiting' = CondWaiting /\ CondCounted' = CondCounted
    BY <1>8 DEF StoreOwner, LockWaiting, CondWaiting, CondCounted
  <2> QED
    BY <1>8, <2>1, <1>0 DEF StoreOwner
<1>9. CASE Cas(t)
  <2>1. LockWaiting' = LockWaiting /\ CondWaiting' = CondWaiting /\ CondCounted' = CondCounted
    BY <1>9 DEF Cas, LockWaiting, CondWaiting, CondCounted
  <2> QED
    BY <1>9, <2>1, <1>0 DEF Cas
<1>10. CASE LockAgain(t)
  <2>1. LockWaiting' = LockWaiting /\ CondWaiting' = CondWaiting /\ CondCounted' = CondCounted
    BY <1>10 DEF LockAgain, LockWaiting, CondWaiting, CondCounted
  <2> QED
    BY <1>10, <2>1, <1>0 DEF LockAgain
<1> QED
  BY <1>1, <1>2, <1>3, <1>4, <1>5, <1>6, <1>7, <1>8, <1>9, <1>10 DEF MutexLock

(* Unlocking, waking and being interrupted leave the counts alone. *)
LEMMA UnlockCounts ==
  ASSUME Control, Control', WaitersExact, NEW t \in Threads,
         \/ MutexUnlock(t) \/ UnlockCas(t) \/ FutexInterrupted(t)
         \/ MutexLockForOther(t) \/ MutexUnlockForOther(t)
         \/ \E o \in Ops \ Waits : Call(t, o)
  PROVE  WaitersExact'
<1> USE FMutexAssumption
    DEF Control, WeakType, NoFatal, OpMatches, Labels, Ops, Waits, Step, Goto, mutexVars, condVars
<1>0. ASSUME LockWaiting' = LockWaiting, CondWaiting' = CondWaiting, CondCounted' = CondCounted,
             waiters' = waiters, stateAndWaiters'.waiters = stateAndWaiters.waiters
      PROVE  WaitersExact'
  BY <1>0 DEF WaitersExact
<1>1. CASE UnlockCall(t)
  <2>1. LockWaiting' = LockWaiting /\ CondWaiting' = CondWaiting /\ CondCounted' = CondCounted
    BY <1>1 DEF UnlockCall, UnlockCount, LockWaiting, CondWaiting, CondCounted
  <2> QED
    BY <1>1, <2>1, <1>0 DEF UnlockCall, UnlockCount
<1>2. CASE UnlockLoad(t)
  <2>1. LockWaiting' = LockWaiting /\ CondWaiting' = CondWaiting /\ CondCounted' = CondCounted
    BY <1>2 DEF UnlockLoad, LockWaiting, CondWaiting, CondCounted
  <2> QED
    BY <1>2, <2>1, <1>0 DEF UnlockLoad
<1>3. CASE UnlockOwner(t)
  <2>1. LockWaiting' = LockWaiting /\ CondWaiting' = CondWaiting /\ CondCounted' = CondCounted
    BY <1>3 DEF UnlockOwner, LockWaiting, CondWaiting, CondCounted
  <2> QED
    BY <1>3, <2>1, <1>0 DEF UnlockOwner
<1>4. CASE UnlockCasFail(t)
  <2>1. LockWaiting' = LockWaiting /\ CondWaiting' = CondWaiting /\ CondCounted' = CondCounted
    BY <1>4 DEF UnlockCasFail, LockWaiting, CondWaiting, CondCounted
  <2> QED
    BY <1>4, <2>1, <1>0 DEF UnlockCasFail
<1>5. CASE UnlockCas(t)
  <2>1. LockWaiting' = LockWaiting /\ CondWaiting' = CondWaiting /\ CondCounted' = CondCounted
    BY <1>5 DEF UnlockCas, AfterUnlock, LockWaiting, CondWaiting, CondCounted
  <2> QED
    BY <1>5, <2>1, <1>0 DEF UnlockCas, AfterUnlock
<1>6. CASE UnlockWake(t)
  <2>0. WakeMoves(t)
    BY <1>6, UnlockWakeMoves
  <2>1. LockWaiting' = LockWaiting
    BY <1>6, <2>0 DEF WakeMoves, UnlockWake, AfterUnlock, LockWaiting
  <2>2. CondWaiting' = CondWaiting
    BY <1>6, <2>0 DEF WakeMoves, UnlockWake, AfterUnlock, CondWaiting
  <2>3. CondCounted' = CondCounted
    BY <1>6, <2>0 DEF WakeMoves, UnlockWake, AfterUnlock, CondCounted
  <2> QED
    BY <1>6, <2>1, <2>2, <2>3, <1>0 DEF UnlockWake
<1>7. CASE MutexLockForOther(t)
  <2>1. /\ LockWaiting = {} /\ CondWaiting = {} /\ LockWaiting' = {} /\ CondWaiting' = {}
        /\ CondCounted' = CondCounted
    BY <1>7 DEF MutexLockForOther, Unshared, LockWaiting, CondWaiting, CondCounted
  <2> QED
    BY <1>7, <2>1, FS_EmptySet DEF MutexLockForOther, WaitersExact, ZeroState
<1>8. CASE MutexUnlockForOther(t)
  <2>1. /\ LockWaiting = {} /\ CondWaiting = {} /\ LockWaiting' = {} /\ CondWaiting' = {}
        /\ CondCounted' = CondCounted
    BY <1>8 DEF MutexUnlockForOther, Unshared, LockWaiting, CondWaiting, CondCounted
  <2> QED
    BY <1>8, <2>1, FS_EmptySet DEF MutexUnlockForOther, WaitersExact, ZeroState
<1>9. CASE FutexInterrupted(t)
  <2>1. LockWaiting' = LockWaiting /\ CondWaiting' = CondWaiting /\ CondCounted' = CondCounted
    BY <1>9 DEF FutexInterrupted, Awake, LockWaiting, CondWaiting, CondCounted
  <2> QED
    BY <1>9, <2>1, <1>0 DEF FutexInterrupted, Awake
<1>10. CASE \E o \in Ops \ Waits : Call(t, o)
  <2>1. LockWaiting' = LockWaiting /\ CondWaiting' = CondWaiting /\ CondCounted' = CondCounted
    BY <1>10 DEF Call, LockWaiting, CondWaiting, CondCounted
  <2> QED
    BY <1>10, <2>1, <1>0 DEF Call
<1> QED
  BY <1>1, <1>2, <1>3, <1>4, <1>5, <1>6, <1>7, <1>8, <1>9, <1>10 DEF MutexUnlock

(* Wait counts itself in both words, and out of them in the same order. *)
LEMMA CondCounts ==
  ASSUME Control, Control', WaitersExact, NEW t \in Threads,
         \/ CondWait(t) \/ TimedOut(t) \/ SignalCount(t)
         \/ (\E o \in Waits : WaitCall(t, o)) \/ \E n \in WakeCounts : SignalCall(t, n)
  PROVE  WaitersExact'
<1> USE FMutexAssumption
    DEF Control, WeakType, NoFatal, OpMatches, Labels, Ops, Waits, Step, Goto, mutexVars, condVars
<1>0. ASSUME LockWaiting' = LockWaiting, CondWaiting' = CondWaiting, CondCounted' = CondCounted,
             waiters' = waiters, stateAndWaiters'.waiters = stateAndWaiters.waiters
      PROVE  WaitersExact'
  BY <1>0 DEF WaitersExact
<1>1. CASE WaitSetMutexPtr(t)
  <2>1. LockWaiting' = LockWaiting /\ CondWaiting' = CondWaiting /\ CondCounted' = CondCounted
    BY <1>1 DEF WaitSetMutexPtr, LockWaiting, CondWaiting, CondCounted
  <2> QED
    BY <1>1, <2>1, <1>0 DEF WaitSetMutexPtr
<1>2. CASE WaitCountIn(t)
  <2>1. /\ LockWaiting' = LockWaiting
        /\ CondWaiting' = CondWaiting
        /\ CondCounted' = CondCounted \cup {t} /\ t \notin CondCounted
    BY <1>2 DEF WaitCountIn, LockWaiting, CondWaiting, CondCounted
  <2>2. Cardinality(CondCounted') = Cardinality(CondCounted) + 1
    BY <2>1, WaitingFinite, FS_AddElement
  <2> QED
    BY <1>2, <2>1, <2>2, WaitingFinite DEF WaitCountIn, WaitersExact, AddWaiter, SubWaiter
<1>3. CASE WaitMutexIncrement(t)
  <2>1. /\ LockWaiting' = LockWaiting
        /\ CondWaiting' = CondWaiting \cup {t} /\ t \notin CondWaiting
        /\ CondCounted' = CondCounted \ {t} /\ t \in CondCounted
    BY <1>3 DEF WaitMutexIncrement, LockWaiting, CondWaiting, CondCounted
  <2>2. /\ Cardinality(CondWaiting') = Cardinality(CondWaiting) + 1
        /\ Cardinality(CondCounted') = Cardinality(CondCounted) - 1
    BY <2>1, WaitingFinite, FS_AddElement, FS_RemoveElement
  <2> QED
    BY <1>3, <2>1, <2>2, WaitingFinite DEF WaitMutexIncrement, WaitersExact, AddWaiter, SubWaiter
<1>4. CASE WaitLoadCond(t)
  <2>1. LockWaiting' = LockWaiting /\ CondWaiting' = CondWaiting /\ CondCounted' = CondCounted
    BY <1>4 DEF WaitLoadCond, UnlockCount, LockWaiting, CondWaiting, CondCounted
  <2> QED
    BY <1>4, <2>1, <1>0 DEF WaitLoadCond, UnlockCount
<1>5. CASE CondFutexWait(t)
  <2>1. LockWaiting' = LockWaiting /\ CondWaiting' = CondWaiting /\ CondCounted' = CondCounted
    BY <1>5 DEF CondFutexWait, LockWaiting, CondWaiting, CondCounted
  <2> QED
    BY <1>5, <2>1, <1>0 DEF CondFutexWait
<1>6. CASE WaitRestore(t)
  <2>1. /\ LockWaiting' = LockWaiting
        /\ CondWaiting' = CondWaiting \ {t} /\ t \in CondWaiting
        /\ CondCounted' = CondCounted \cup {t} /\ t \notin CondCounted
    BY <1>6 DEF WaitRestore, LockWaiting, CondWaiting, CondCounted
  <2>2. /\ Cardinality(CondWaiting') = Cardinality(CondWaiting) - 1
        /\ Cardinality(CondCounted') = Cardinality(CondCounted) + 1
    BY <2>1, WaitingFinite, FS_AddElement, FS_RemoveElement
  <2>3. waiters' = waiters /\ stateAndWaiters'.waiters = stateAndWaiters.waiters - 1
    BY <1>6 DEF WaitRestore, SubWaiter
  <2> QED
    BY <2>1, <2>2, <2>3, WaitingFinite DEF WaitersExact
<1>7. CASE WaitCountOut(t)
  <2>1. /\ LockWaiting' = LockWaiting
        /\ CondWaiting' = CondWaiting
        /\ CondCounted' = CondCounted \ {t} /\ t \in CondCounted
    BY <1>7 DEF WaitCountOut, LockWaiting, CondWaiting, CondCounted
  <2>2. Cardinality(CondCounted') = Cardinality(CondCounted) - 1
    BY <2>1, WaitingFinite, FS_RemoveElement
  <2> QED
    BY <1>7, <2>1, <2>2, WaitingFinite DEF WaitCountOut, WaitersExact, AddWaiter, SubWaiter
<1>8. CASE TimedOut(t)
  <2>1. LockWaiting' = LockWaiting /\ CondWaiting' = CondWaiting /\ CondCounted' = CondCounted
    BY <1>8 DEF TimedOut, LockWaiting, CondWaiting, CondCounted
  <2> QED
    BY <1>8, <2>1, <1>0 DEF TimedOut
<1>9. CASE SignalCond(t)
  <2>1. LockWaiting' = LockWaiting /\ CondWaiting' = CondWaiting /\ CondCounted' = CondCounted
    BY <1>9 DEF SignalCond, LockWaiting, CondWaiting, CondCounted
  <2> QED
    BY <1>9, <2>1, <1>0 DEF SignalCond
<1>10. CASE SignalFutex(t)
  <2>0. SignalMoves(t)
    BY <1>10, SignalFutexMoves
  <2>1. LockWaiting' = LockWaiting
    BY <1>10, <2>0 DEF SignalMoves, SignalFutex, LockWaiting
  <2>2. CondWaiting' = CondWaiting
    BY <1>10, <2>0 DEF SignalMoves, SignalFutex, CondWaiting
  <2>3. CondCounted' = CondCounted
    BY <1>10, <2>0 DEF SignalMoves, SignalFutex, CondCounted
  <2> QED
    BY <1>10, <2>1, <2>2, <2>3, <1>0 DEF SignalFutex
<1>11. CASE \E o \in Waits : WaitCall(t, o)
  <2>1. LockWaiting' = LockWaiting /\ CondWaiting' = CondWaiting /\ CondCounted' = CondCounted
    BY <1>11 DEF WaitCall, LockWaiting, CondWaiting, CondCounted
  <2> QED
    BY <1>11, <2>1, <1>0 DEF WaitCall
<1>12. CASE \E n \in WakeCounts : SignalCall(t, n)
  <2>1. LockWaiting' = LockWaiting /\ CondWaiting' = CondWaiting /\ CondCounted' = CondCounted
    BY <1>12 DEF SignalCall, LockWaiting, CondWaiting, CondCounted
  <2> QED
    BY <1>12, <2>1, <1>0 DEF SignalCall
<1> QED
  BY <1>1, <1>2, <1>3, <1>4, <1>5, <1>6, <1>7, <1>8, <1>9, <1>10, <1>11, <1>12 DEF CondWait, SignalCount

(* Every step preserves Control and the counts. *)
LEMMA ControlStep ==
  ASSUME Control, WaitersExact, [Next]_vars
  PROVE  Control' /\ WaitersExact'
<1>1. CASE UNCHANGED vars
  BY <1>1 DEF vars, mutexVars, condVars, locals, Control, WeakType, MutualExclusion, NoFatal,
     OpMatches, OwnerMatches, CountMatches, LocalsMatch, MutexPtrSet, Holders, WaitersExact,
     LockWaiting, CondWaiting, CondCounted
<1>2. CASE Next
  <2>1. PICK t \in Threads :
             \/ MutexLock(t) \/ Cas(t) \/ LockAgain(t)
             \/ MutexUnlock(t) \/ UnlockCas(t) \/ FutexInterrupted(t)
             \/ MutexLockForOther(t) \/ MutexUnlockForOther(t)
             \/ (\E o \in Ops \ Waits : Call(t, o))
             \/ CondWait(t) \/ TimedOut(t) \/ SignalCount(t)
             \/ (\E o \in Waits : WaitCall(t, o))
             \/ (\E n \in WakeCounts : SignalCall(t, n))
    BY <1>2 DEF Next
  <2>2. Control'
    BY <2>1, LockControl, UnlockControl, OtherControl, CondControl
  <2> QED
    BY <2>1, <2>2, LockCounts, UnlockCounts, CondCounts
<1> QED
  BY <1>1, <1>2

(* A thread asleep on the mutex is counted in its word. *)
LEMMA SleeperCounted ==
  ASSUME Control, WaitersExact, MutexQueue # {}
  PROVE  stateAndWaiters.waiters > 0
<1>1. LockWaiting # {} \/ CondWaiting # {}
  BY DEF MutexQueue, LockWaiting, CondWaiting
<1> QED
  BY <1>1, WaitingFinite DEF WaitersExact

(* A thread sleeps only on a held mutex, and an awake locker stays one until it has the mutex. *)
LEMMA LockWakes ==
  ASSUME Control, Control', WaitersExact, NoLostWakeup, NEW t \in Threads,
         MutexLock(t) \/ Cas(t) \/ LockAgain(t)
  PROVE  NoLostWakeup'
<1> USE FMutexAssumption
    DEF Control, WeakType, NoFatal, OpMatches, LocalsMatch, Labels, Ops, Waits, Step, Goto, IsHeld,
        mutexVars, condVars, NoLostWakeup, MutexQueue, Lockers
<1>1. CASE Load(t)
  BY <1>1 DEF Load
<1>2. CASE CasFail(t)
  BY <1>2 DEF CasFail
<1>3. CASE WaitBrieflyFor(t)
  BY <1>3 DEF WaitBrieflyFor
<1>4. CASE IncrementWaiters(t)
  BY <1>4 DEF IncrementWaiters, AddWaiter, SubWaiter
<1>5. CASE FutexWait(t)
  BY <1>5 DEF FutexWait
<1>6. CASE Reload(t)
  BY <1>6 DEF Reload
<1>7. CASE DecrementWaiters(t)
  BY <1>7 DEF DecrementWaiters, AddWaiter, SubWaiter
<1>8. CASE StoreOwner(t)
  BY <1>8 DEF StoreOwner, MutualExclusion, Holders
<1>9. CASE Cas(t)
  BY <1>9 DEF Cas
<1>10. CASE LockAgain(t)
  BY <1>10 DEF LockAgain
<1> QED
  BY <1>1, <1>2, <1>3, <1>4, <1>5, <1>6, <1>7, <1>8, <1>9, <1>10 DEF MutexLock

(* Releasing a mutex with sleepers leads to FUTEX_WAKE, which makes one of them an awake locker. *)
LEMMA UnlockWakes ==
  ASSUME Control, Control', WaitersExact, NoLostWakeup, NEW t \in Threads,
         \/ MutexUnlock(t) \/ UnlockCas(t) \/ FutexInterrupted(t)
         \/ MutexLockForOther(t) \/ MutexUnlockForOther(t)
         \/ \E o \in Ops \ Waits : Call(t, o)
  PROVE  NoLostWakeup'
<1> USE FMutexAssumption
    DEF Control, WeakType, NoFatal, OpMatches, LocalsMatch, Labels, Ops, Waits, Step, Goto, IsHeld,
        mutexVars, condVars, NoLostWakeup, MutexQueue, Lockers
<1>1. CASE UnlockCall(t)
  BY <1>1 DEF UnlockCall, UnlockCount
<1>2. CASE UnlockLoad(t)
  BY <1>2 DEF UnlockLoad
<1>3. CASE UnlockOwner(t)
  BY <1>3 DEF UnlockOwner
<1>4. CASE UnlockCasFail(t)
  BY <1>4 DEF UnlockCasFail
<1>5. CASE UnlockCas(t)
  <2>1. MutexQueue' = MutexQueue
    BY <1>5 DEF UnlockCas, AfterUnlock
  <2>2. MutexQueue # {} => curState[t].waiters # 0
    <3> HIDE DEF Control, NoLostWakeup, MutexQueue
    <3> QED
      BY <1>5, SleeperCounted DEF UnlockCas, Control, WeakType
  <2>3. MutexQueue # {} => pc'[t] = "u_wake"
    BY <1>5, <2>2 DEF UnlockCas
  <2> QED
    BY <1>5, <2>1, <2>3
<1>6. CASE UnlockWake(t)
  <2>1. PICK W \in Picks(1, MutexQueue) : WakeSet(t, W, AfterUnlock(t))
    BY <1>6 DEF UnlockWake
  <2>2. CASE W = MutexQueue
    <3>1. MutexQueue' = {}
      BY <1>6, <2>1, <2>2 DEF UnlockWake, WakeSet, Awake, AfterUnlock
    <3> QED
      BY <3>1
  <2>3. CASE W # MutexQueue
    <3>0. Cardinality(W) = 1
      BY <2>1, <2>3 DEF Picks
    <3>1. PICK w : w \in W
      <4> HIDE DEF Control, MutexQueue, NoLostWakeup
      <4>1. W = {} => Cardinality(W) = 0
        BY FS_EmptySet, Zenon
      <4> QED
        BY <3>0, <4>1
    <3>2. w \in Threads /\ pc[w] \in {"sleep", "c_queued"} /\ w # t
      BY <1>6, <2>1, <3>1 DEF Picks, UnlockWake
    <3>3. pc'[w] \in {"reload", "load"} /\ op'[w] = op[w]
      BY <1>6, <2>1, <3>1, <3>2 DEF UnlockWake, WakeSet, Awake
    <3>4. w \in Lockers'
      BY <3>2, <3>3
    <3> QED
      BY <3>4
  <2> QED
    BY <2>2, <2>3
<1>7. CASE MutexLockForOther(t)
  BY <1>7 DEF MutexLockForOther, Unshared
<1>8. CASE MutexUnlockForOther(t)
  BY <1>8 DEF MutexUnlockForOther, Unshared
<1>9. CASE FutexInterrupted(t)
  BY <1>9 DEF FutexInterrupted, Awake
<1>10. CASE \E o \in Ops \ Waits : Call(t, o)
  BY <1>10 DEF Call
<1> QED
  BY <1>1, <1>2, <1>3, <1>4, <1>5, <1>6, <1>7, <1>8, <1>9, <1>10 DEF MutexUnlock

(* Waiters are requeued only by the owner; those woken become lockers. *)
LEMMA CondWakes ==
  ASSUME Control, Control', WaitersExact, NoLostWakeup, NEW t \in Threads,
         \/ CondWait(t) \/ TimedOut(t) \/ SignalCount(t)
         \/ (\E o \in Waits : WaitCall(t, o)) \/ \E n \in WakeCounts : SignalCall(t, n)
  PROVE  NoLostWakeup'
<1> USE FMutexAssumption
    DEF Control, WeakType, NoFatal, OpMatches, LocalsMatch, Labels, Ops, Waits, Step, Goto, IsHeld,
        mutexVars, condVars, NoLostWakeup, MutexQueue, Lockers
<1>1. CASE WaitSetMutexPtr(t)
  BY <1>1 DEF WaitSetMutexPtr
<1>2. CASE WaitCountIn(t)
  BY <1>2 DEF WaitCountIn
<1>3. CASE WaitMutexIncrement(t)
  BY <1>3 DEF WaitMutexIncrement, AddWaiter, SubWaiter
<1>4. CASE WaitLoadCond(t)
  BY <1>4 DEF WaitLoadCond, UnlockCount
<1>5. CASE CondFutexWait(t)
  BY <1>5 DEF CondFutexWait
<1>6. CASE WaitRestore(t)
  BY <1>6 DEF WaitRestore, AddWaiter, SubWaiter
<1>7. CASE WaitCountOut(t)
  BY <1>7 DEF WaitCountOut
<1>8. CASE TimedOut(t)
  BY <1>8 DEF TimedOut
<1>9. CASE SignalCond(t)
  BY <1>9 DEF SignalCond
<1>10. CASE SignalFutex(t)
  <2>0. SignalMoves(t)
    BY <1>10, SignalFutexMoves
  <2>1. CASE IsHeld(t)
    BY <1>10, <2>1 DEF SignalFutex, OwnerMatches, MutualExclusion
  <2>2. CASE ~IsHeld(t)
    BY <1>10, <2>0, <2>2 DEF SignalFutex, SignalMoves
  <2> QED
    BY <2>1, <2>2
<1>11. CASE \E o \in Waits : WaitCall(t, o)
  BY <1>11 DEF WaitCall
<1>12. CASE \E n \in WakeCounts : SignalCall(t, n)
  BY <1>12 DEF SignalCall
<1> QED
  BY <1>1, <1>2, <1>3, <1>4, <1>5, <1>6, <1>7, <1>8, <1>9, <1>10, <1>11, <1>12 DEF CondWait, SignalCount

(* MutexLock does not touch the condition variable's queue. *)
LEMMA LockSignals ==
  ASSUME Control, Control', NoLostSignal, NEW t \in Threads,
         MutexLock(t) \/ Cas(t) \/ LockAgain(t)
  PROVE  NoLostSignal'
<1> USE FMutexAssumption
    DEF Control, WeakType, NoFatal, LocalsMatch, Labels, Ops, Waits, Step, Goto,
        mutexVars, condVars, locals, NoLostSignal, CondQueue
<1>1. CASE Load(t)
  BY <1>1 DEF Load
<1>2. CASE CasFail(t)
  BY <1>2 DEF CasFail
<1>3. CASE WaitBrieflyFor(t)
  BY <1>3 DEF WaitBrieflyFor
<1>4. CASE IncrementWaiters(t)
  BY <1>4 DEF IncrementWaiters
<1>5. CASE FutexWait(t)
  BY <1>5 DEF FutexWait
<1>6. CASE Reload(t)
  BY <1>6 DEF Reload
<1>7. CASE DecrementWaiters(t)
  BY <1>7 DEF DecrementWaiters
<1>8. CASE StoreOwner(t)
  BY <1>8 DEF StoreOwner
<1>9. CASE Cas(t)
  BY <1>9 DEF Cas
<1>10. CASE LockAgain(t)
  BY <1>10 DEF LockAgain
<1> QED
  BY <1>1, <1>2, <1>3, <1>4, <1>5, <1>6, <1>7, <1>8, <1>9, <1>10 DEF MutexLock

(* Nor does MutexUnlock, nor an interrupted wait other than by leaving it. *)
LEMMA UnlockSignals ==
  ASSUME Control, Control', NoLostSignal, NEW t \in Threads,
         \/ MutexUnlock(t) \/ UnlockCas(t) \/ FutexInterrupted(t)
         \/ MutexLockForOther(t) \/ MutexUnlockForOther(t)
         \/ \E o \in Ops \ Waits : Call(t, o)
  PROVE  NoLostSignal'
<1> USE FMutexAssumption
    DEF Control, WeakType, NoFatal, LocalsMatch, Labels, Ops, Waits, Step, Goto,
        mutexVars, condVars, locals, NoLostSignal, CondQueue
<1>1. CASE UnlockCall(t)
  BY <1>1 DEF UnlockCall, UnlockCount
<1>2. CASE UnlockLoad(t)
  BY <1>2 DEF UnlockLoad
<1>3. CASE UnlockOwner(t)
  BY <1>3 DEF UnlockOwner
<1>4. CASE UnlockCasFail(t)
  BY <1>4 DEF UnlockCasFail
<1>5. CASE UnlockCas(t)
  BY <1>5 DEF UnlockCas, AfterUnlock
<1>6. CASE UnlockWake(t)
  <2>1. WakeMoves(t)
    BY <1>6, UnlockWakeMoves
  <2>2. \A u \in Threads :
          /\ pc'[u] = "c_sleep" => pc[u] = "c_sleep"
          /\ pc[u] = "s_futex" => pc'[u] = "s_futex"
    BY <2>1 DEF WakeMoves, AfterUnlock
  <2> QED
    BY <1>6, <2>2 DEF UnlockWake
<1>7. CASE MutexLockForOther(t)
  BY <1>7 DEF MutexLockForOther, Unshared
<1>8. CASE MutexUnlockForOther(t)
  BY <1>8 DEF MutexUnlockForOther, Unshared
<1>9. CASE FutexInterrupted(t)
  BY <1>9 DEF FutexInterrupted, Awake
<1>10. CASE \E o \in Ops \ Waits : Call(t, o)
  BY <1>10 DEF Call
<1> QED
  BY <1>1, <1>2, <1>3, <1>4, <1>5, <1>6, <1>7, <1>8, <1>9, <1>10 DEF MutexUnlock

(* A waiter sleeps only on the current cond value, a signaller that changes it empties the queue. *)
LEMMA CondSignals ==
  ASSUME Control, Control', NoLostSignal, NEW t \in Threads,
         \/ CondWait(t) \/ TimedOut(t) \/ SignalCount(t)
         \/ (\E o \in Waits : WaitCall(t, o)) \/ \E n \in WakeCounts : SignalCall(t, n)
  PROVE  NoLostSignal'
<1> USE FMutexAssumption
    DEF Control, WeakType, NoFatal, LocalsMatch, Labels, Ops, Waits, Step, Goto,
        mutexVars, condVars, locals, NoLostSignal, CondQueue
<1>1. CASE WaitSetMutexPtr(t)
  BY <1>1 DEF WaitSetMutexPtr
<1>2. CASE WaitCountIn(t)
  BY <1>2 DEF WaitCountIn
<1>3. CASE WaitMutexIncrement(t)
  BY <1>3 DEF WaitMutexIncrement
<1>4. CASE WaitLoadCond(t)
  BY <1>4 DEF WaitLoadCond, UnlockCount
<1>5. CASE CondFutexWait(t)
  BY <1>5 DEF CondFutexWait
<1>6. CASE WaitRestore(t)
  BY <1>6 DEF WaitRestore
<1>7. CASE WaitCountOut(t)
  BY <1>7 DEF WaitCountOut
<1>8. CASE TimedOut(t)
  BY <1>8 DEF TimedOut
<1>9. CASE SignalCond(t)
  BY <1>9 DEF SignalCond
<1>10. CASE SignalFutex(t)
  <2> SUFFICES ASSUME 1 \notin WakeCounts PROVE CondQueue' = {}
    OBVIOUS
  <2>1. toWake[t] = Cardinality(Threads)
    BY <1>10 DEF SignalFutex
  <2>2. PICK W \in Picks(Cardinality(Threads), CondQueue) :
             IF IsHeld(t)
             THEN pc' = [u \in Threads |-> IF u = t THEN "in"
                                           ELSE IF u \in W THEN "c_queued" ELSE pc[u]]
             ELSE WakeSet(t, W, "out")
    BY <1>10, <2>1 DEF SignalFutex
  <2>3. W \subseteq Threads /\ t \notin W /\ W # Threads
    BY <1>10, <2>2 DEF Picks, SignalFutex
  <2>4. Cardinality(W) # Cardinality(Threads)
    BY <2>3, FS_Subset
  <2>5. W = CondQueue
    BY <2>2, <2>4 DEF Picks
  <2> QED
    BY <1>10, <2>2, <2>5 DEF SignalFutex, WakeSet, Awake
<1>11. CASE \E o \in Waits : WaitCall(t, o)
  BY <1>11 DEF WaitCall
<1>12. CASE \E n \in WakeCounts : SignalCall(t, n)
  BY <1>12 DEF SignalCall
<1> QED
  BY <1>1, <1>2, <1>3, <1>4, <1>5, <1>6, <1>7, <1>8, <1>9, <1>10, <1>11, <1>12 DEF CondWait, SignalCount

IInv == Control /\ WaitersExact /\ NoLostWakeup /\ NoLostSignal

(* IInv holds at the start. *)
LEMMA InitIInv == Init => IInv
<1> SUFFICES ASSUME Init PROVE IInv
  OBVIOUS
<1>1. LockWaiting = {} /\ CondWaiting = {} /\ CondCounted = {} /\ MutexQueue = {} /\ CondQueue = {}
  BY DEF Init, LockWaiting, CondWaiting, CondCounted, MutexQueue, CondQueue
<1>2. WaitersExact
  BY <1>1, FS_EmptySet DEF Init, WaitersExact, ZeroState
<1> QED
  BY <1>1, <1>2, InitControl DEF IInv, NoLostWakeup, NoLostSignal

(* IInv is inductive. *)
LEMMA StepIInv == IInv /\ [Next]_vars => IInv'
<1> SUFFICES ASSUME IInv, [Next]_vars PROVE IInv'
  OBVIOUS
<1>1. Control' /\ WaitersExact'
  BY ControlStep DEF IInv
<1>2. CASE UNCHANGED vars
  BY <1>1, <1>2 DEF IInv, vars, mutexVars, condVars, locals, NoLostWakeup, NoLostSignal, MutexQueue,
     CondQueue, Lockers
<1>3. CASE Next
  <2>1. PICK t \in Threads :
             \/ MutexLock(t) \/ Cas(t) \/ LockAgain(t)
             \/ MutexUnlock(t) \/ UnlockCas(t) \/ FutexInterrupted(t)
             \/ MutexLockForOther(t) \/ MutexUnlockForOther(t)
             \/ (\E o \in Ops \ Waits : Call(t, o))
             \/ CondWait(t) \/ TimedOut(t) \/ SignalCount(t)
             \/ (\E o \in Waits : WaitCall(t, o))
             \/ (\E n \in WakeCounts : SignalCall(t, n))
    BY <1>3 DEF Next
  <2>2. NoLostWakeup'
    BY <1>1, <2>1, LockWakes, UnlockWakes, CondWakes DEF IInv
  <2>3. NoLostSignal'
    BY <1>1, <2>1, LockSignals, UnlockSignals, CondSignals DEF IInv
  <2> QED
    BY <1>1, <2>2, <2>3 DEF IInv
<1> QED
  BY <1>2, <1>3

(* The inductive invariant is an invariant. *)
THEOREM Invariance == Spec => []IInv
BY InitIInv, StepIInv, PTL DEF Spec

(* The words of the mutex and the condition variable keep their types; in
   particular the waiter counts never go below zero. *)
THEOREM TypeCorrect == Spec => []TypeOK
<1>1. IInv => TypeOK
  BY WaitingFinite DEF IInv, Control, WeakType, WaitersExact, TypeOK
<1> QED
  BY <1>1, Invariance, PTL

(* At most one thread has the mutex, and the held bit says whether one has. *)
THEOREM Exclusion == Spec => []MutualExclusion
<1>1. IInv => MutualExclusion
  BY DEF IInv, Control
<1> QED
  BY <1>1, Invariance, PTL

(* No assertion or FATAL of the mutex and condition variable is reached. *)
THEOREM AssertionsHold == Spec => []NoFatal
<1>1. IInv => NoFatal
  BY DEF IInv, Control
<1> QED
  BY <1>1, Invariance, PTL

(* recursiveCount is the caller's nesting whenever the caller runs. *)
THEOREM NestingKept == Spec => []NestingAgrees
<1>1. IInv => NestingAgrees
  BY DEF IInv, Control, CountMatches, NestingAgrees
<1> QED
  BY <1>1, Invariance, PTL

(* The two waiter counts are exact. *)
THEOREM CountsExact == Spec => []WaitersExact
<1>1. IInv => WaitersExact
  BY DEF IInv
<1> QED
  BY <1>1, Invariance, PTL

(* WAKE_ONE never leaves sleepers behind on a free mutex. *)
THEOREM WakeupNotLost == Spec => []NoLostWakeup
<1>1. IInv => NoLostWakeup
  BY DEF IInv
<1> QED
  BY <1>1, Invariance, PTL

(* SignalAll reaches every thread that was waiting. *)
THEOREM SignalNotLost == Spec => []NoLostSignal
<1>1. IInv => NoLostSignal
  BY DEF IInv
<1> QED
  BY <1>1, Invariance, PTL

(* With every thread out, the destructors' checks pass. *)
THEOREM DestructorSafe == Spec => []DestructorChecksPass
<1>1. IInv => DestructorChecksPass
  <2> SUFFICES ASSUME IInv, \A t \in Threads : pc[t] = "out"
               PROVE  stateAndWaiters = ZeroState /\ exclusiveOwner = None /\ waiters = 0
    BY DEF DestructorChecksPass
  <2>1. LockWaiting = {} /\ CondWaiting = {} /\ CondCounted = {} /\ Holders = {}
    BY DEF LockWaiting, CondWaiting, CondCounted, Holders
  <2> QED
    BY <2>1, FS_EmptySet DEF IInv, Control, WeakType, WaitersExact, MutualExclusion, OwnerMatches, ZeroState
<1> QED
  BY <1>1, Invariance, PTL
=============================================================================
