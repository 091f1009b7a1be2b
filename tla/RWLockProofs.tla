---------------------------- MODULE RWLockProofs ----------------------------
(***************************************************************************)
(* Proofs, for any finite set of threads, of the safety properties of      *)
(* module RWLock.  The inductive invariant IInv adds to the properties     *)
(* themselves: waiters_ counts exactly the threads that announced a wait   *)
(* (so an unlocker never misses a sleeper), exclusiveOwner_ is set only    *)
(* while its thread is inside the write section (so Unlock dispatches      *)
(* right), and what the local curState still guarantees at each label.     *)
(***************************************************************************)
EXTENDS RWLock, TLAPS, FiniteSetTheorems

\* Threads between IncrementWaiters and DecrementWaiters.
Waiting ==
  {t \in Threads : pc[t] \in {"futex", "sleep", "reload", "dec"}}

WaitersCountWaiting == waiters_ = Cardinality(Waiting)

OwnerIsWriter ==
  /\ exclusiveOwner_ # None =>
       /\ pc[exclusiveOwner_] \in {"held", "w_load", "w_owner"}
       /\ Writes(op[exclusiveOwner_])
  /\ \A t \in Threads :
       /\ pc[t] \in {"held", "w_load"} /\ Writes(op[t]) => exclusiveOwner_ = t
       /\ pc[t] \in {"own", "w_load", "w_owner", "w_cas"} => Writes(op[t])
       /\ pc[t] \in {"r_load", "r_cas"} => ~Writes(op[t])

LocalsInRange ==
  \A t \in Threads :
    /\ pc[t] = "cas" => Available(op[t], cur[t])
    /\ pc[t] \in {"spin", "inc", "futex"} => ~Available(op[t], cur[t])
    /\ pc[t] \in {"w_owner", "w_cas"} => cur[t] = WRITE_LOCKED
    /\ pc[t] = "r_cas" => cur[t] > 0

IInv ==
  /\ TypeOK
  /\ WriterExcludesAll
  /\ StateCountsHolders
  /\ WaitersCountWaiting
  /\ OwnerIsWriter
  /\ LocalsInRange
  /\ NoFatal
  /\ NoLostWakeup

-----------------------------------------------------------------------------
(* The sets of holders and waiters are finite, so they can be counted. *)
LEMMA SetsAreFinite ==
  /\ IsFiniteSet(Readers) /\ IsFiniteSet(Writers) /\ IsFiniteSet(Waiting)
  /\ Cardinality(Readers) \in Nat /\ Cardinality(Waiting) \in Nat
  /\ Cardinality(Readers) = 0 <=> Readers = {}
  /\ Cardinality(Waiting) = 0 <=> Waiting = {}
<1>1. Readers \subseteq Threads /\ Writers \subseteq Threads
      /\ Waiting \subseteq Threads
  BY DEF Readers, Writers, Waiting, Holding
<1> QED
  BY <1>1, ThreadsAssumption, FS_Subset, FS_CardinalityType, FS_EmptySet

(* A fresh lock satisfies the inductive invariant. *)
LEMMA InitIInv == Init => IInv
<1> SUFFICES ASSUME Init PROVE IInv
  OBVIOUS
<1>1. Readers = {} /\ Writers = {} /\ Waiting = {}
  BY DEF Init, Readers, Writers, Waiting, Holding
<1>2. Cardinality(Readers) = 0 /\ Cardinality(Waiting) = 0
  BY <1>1, FS_EmptySet
<1>3. TypeOK
  BY DEF Init, TypeOK, Labels, UNLOCKED, WRITE_LOCKED
<1> QED
  BY <1>1, <1>2, <1>3, ThreadsAssumption
     DEF Init, IInv, WriterExcludesAll, StateCountsHolders,
         WaitersCountWaiting, OwnerIsWriter, LocalsInRange, NoFatal,
         NoLostWakeup, Asleep, UNLOCKED

(* The steps of the acquiring functions preserve the invariant. *)
LEMMA AcquireIInv ==
  ASSUME IInv, NEW t \in Threads, AcquireStep(t) \/ Cas(t) \/ CasFail(t)
  PROVE  IInv'
<1> USE ThreadsAssumption, SetsAreFinite
    DEF Step, HasExclusiveHolder, IInv, TypeOK, Labels, Ops, WriterExcludesAll,
        StateCountsHolders, WaitersCountWaiting, OwnerIsWriter, LocalsInRange,
        NoFatal, NoLostWakeup, Asleep, Available, Writes, lockVars, UNLOCKED,
        WRITE_LOCKED, READ_INCREMENT
<1>1. CASE Load(t)
  <2>1. Readers' = Readers /\ Writers' = Writers /\ Waiting' = Waiting
    BY <1>1 DEF Load, Blocks, Holding, Readers, Writers, Waiting
  <2> QED
    BY <1>1, <2>1 DEF Load, Blocks
<1>2. CASE WaitBrieflyFor(t)
  <2>1. Readers' = Readers /\ Writers' = Writers /\ Waiting' = Waiting
    BY <1>2 DEF WaitBrieflyFor, Holding, Readers, Writers, Waiting
  <2> QED
    BY <1>2, <2>1 DEF WaitBrieflyFor
<1>3. CASE IncrementWaiters(t)
  <2>1. /\ Readers' = Readers /\ Writers' = Writers
        /\ Waiting' = Waiting \cup {t} /\ t \notin Waiting
    BY <1>3 DEF IncrementWaiters, Holding, Readers, Writers, Waiting
  <2>2. Cardinality(Waiting') = Cardinality(Waiting) + 1
    BY <2>1, FS_AddElement
  <2> QED
    BY <1>3, <2>1, <2>2 DEF IncrementWaiters
<1>4. CASE FutexWait(t)
  <2>1. Readers' = Readers /\ Writers' = Writers /\ Waiting' = Waiting
    BY <1>4 DEF FutexWait, Holding, Readers, Writers, Waiting
  <2> QED
    BY <1>4, <2>1 DEF FutexWait
<1>5. CASE Reload(t)
  <2>1. Readers' = Readers /\ Writers' = Writers /\ Waiting' = Waiting
    BY <1>5 DEF Reload, Holding, Readers, Writers, Waiting
  <2> QED
    BY <1>5, <2>1 DEF Reload
<1>6. CASE DecrementWaiters(t)
  <2>1. /\ Readers' = Readers /\ Writers' = Writers
        /\ Waiting' = Waiting \ {t} /\ t \in Waiting
    BY <1>6 DEF DecrementWaiters, Holding, Readers, Writers, Waiting
  <2>2. Cardinality(Waiting') = Cardinality(Waiting) - 1
    BY <2>1, FS_RemoveElement
  <2> QED
    BY <1>6, <2>1, <2>2 DEF DecrementWaiters
<1>7. CASE StoreOwner(t)
  <2>1. t \in Writers
    BY <1>7 DEF StoreOwner, Step, Writers, Holding
  <2>2. Writers = {t} /\ state_ = WRITE_LOCKED
    BY <2>1
  <2>3. \A u \in Threads \ {t} :
          ~(pc[u] \in {"held", "w_load"} /\ Writes(op[u]))
    BY <2>2 DEF Writers, Holding
  <2>4. Readers' = Readers /\ Writers' = Writers /\ Waiting' = Waiting
    BY <1>7, <2>1, <2>2, <2>3 DEF StoreOwner, Holding, Readers, Writers, Waiting
  <2> QED
    BY <1>7, <2>1, <2>2, <2>3, <2>4 DEF StoreOwner
<1>8. CASE Cas(t)
  <2>1. Waiting' = Waiting
    BY <1>8 DEF Cas, Waiting
  <2>2. CASE Writes(op[t])
    <3>1. Writers = {} /\ Readers = {}
      BY <1>8, <2>2 DEF Cas
    <3>2. Writers' = {t} /\ Readers' = {}
      BY <1>8, <2>2, <3>1 DEF Cas, Writers, Readers, Holding
    <3> QED
      BY <1>8, <2>1, <2>2, <3>1, <3>2 DEF Cas
  <2>3. CASE ~Writes(op[t])
    <3>1. Writers = {}
      BY <1>8, <2>3 DEF Cas
    <3>2. Writers' = {} /\ Readers' = Readers \cup {t} /\ t \notin Readers
      BY <1>8, <2>3, <3>1 DEF Cas, Writers, Readers, Holding
    <3>3. Cardinality(Readers') = Cardinality(Readers) + 1
      BY <3>2, FS_AddElement
    <3> QED
      BY <1>8, <2>1, <2>3, <3>1, <3>2, <3>3 DEF Cas
  <2> QED
    BY <2>2, <2>3
<1>9. CASE CasFail(t)
  <2>1. Readers' = Readers /\ Writers' = Writers /\ Waiting' = Waiting
    BY <1>9 DEF CasFail, Blocks, Holding, Readers, Writers, Waiting
  <2> QED
    BY <1>9, <2>1 DEF CasFail, Blocks
<1> QED
  BY <1>1, <1>2, <1>3, <1>4, <1>5, <1>6, <1>7, <1>8, <1>9 DEF AcquireStep

(* The steps of Unlock, WriteUnlock and ReadUnlock preserve it. *)
LEMMA ReleaseIInv ==
  ASSUME IInv, NEW t \in Threads, ReleaseStep(t) \/ ReleaseCas(t)
  PROVE  IInv'
<1> USE ThreadsAssumption, SetsAreFinite
    DEF Step, HasExclusiveHolder, IInv, TypeOK, Labels, Ops, WriterExcludesAll,
        StateCountsHolders, WaitersCountWaiting, OwnerIsWriter, LocalsInRange,
        NoFatal, NoLostWakeup, Asleep, Available, Writes, lockVars, UNLOCKED,
        WRITE_LOCKED, READ_INCREMENT
<1>1. CASE Unlock(t)
  <2>1. pc[t] = "held" /\ t \in Holding
    BY <1>1 DEF Unlock, Step, Holding
  <2>2. exclusiveOwner_ = IF Writes(op[t]) THEN t ELSE None
    <3>1. ASSUME ~Writes(op[t]), exclusiveOwner_ # None PROVE FALSE
      <4>1. t \in Readers /\ exclusiveOwner_ \in Writers
        BY <2>1, <3>1 DEF Readers, Writers, Holding
      <4> QED
        BY <4>1
    <3> QED
      BY <2>1, <3>1
  <2>3. Readers' = Readers /\ Writers' = Writers /\ Waiting' = Waiting
    BY <1>1, <2>2 DEF Unlock, Holding, Readers, Writers, Waiting
  <2> QED
    BY <1>1, <2>2, <2>3 DEF Unlock
<1>2. CASE WriteUnlockLoad(t)
  <2>1. t \in Writers
    BY <1>2 DEF WriteUnlockLoad, Step, Writers, Holding
  <2>2. Writers = {t} /\ Readers = {} /\ state_ = WRITE_LOCKED
    BY <2>1
  <2>3. Readers' = Readers /\ Writers' = Writers /\ Waiting' = Waiting
    BY <1>2, <2>1, <2>2 DEF WriteUnlockLoad, Holding, Readers, Writers, Waiting
  <2> QED
    BY <1>2, <2>1, <2>2, <2>3 DEF WriteUnlockLoad
<1>3. CASE WriteUnlockOwner(t)
  <2>1. t \in Writers
    BY <1>3 DEF WriteUnlockOwner, Step, Writers, Holding
  <2>2. Writers = {t} /\ state_ = WRITE_LOCKED
    BY <2>1
  <2>3. \A u \in Threads \ {t} :
          ~(pc[u] \in {"held", "w_load"} /\ Writes(op[u]))
    BY <2>2 DEF Writers, Holding
  <2>4. Readers' = Readers /\ Writers' = Writers /\ Waiting' = Waiting
    BY <1>3, <2>1, <2>2, <2>3 DEF WriteUnlockOwner, Holding, Readers, Writers, Waiting
  <2> QED
    BY <1>3, <2>1, <2>2, <2>3, <2>4 DEF WriteUnlockOwner
<1>4. CASE ReadUnlockLoad(t)
  <2>1. t \in Readers
    BY <1>4 DEF ReadUnlockLoad, Step, Readers, Holding
  <2>2. Writers = {} /\ state_ > 0
    BY <2>1
  <2>3. Readers' = Readers /\ Writers' = Writers /\ Waiting' = Waiting
    BY <1>4, <2>1, <2>2 DEF ReadUnlockLoad, Holding, Readers, Writers, Waiting
  <2> QED
    BY <1>4, <2>1, <2>2, <2>3 DEF ReadUnlockLoad
<1>5. CASE LoadWaiters(t)
  <2>1. Readers' = Readers /\ Writers' = Writers /\ Waiting' = Waiting
    BY <1>5 DEF LoadWaiters, Holding, Readers, Writers, Waiting
  <2>2. waiters_ = 0 => Asleep = {}
    BY DEF Waiting
  <2> QED
    BY <1>5, <2>1, <2>2 DEF LoadWaiters
<1>6. CASE FutexWakeAll(t)
  <2>1. Readers' = Readers /\ Writers' = Writers /\ Waiting' = Waiting
    BY <1>6 DEF FutexWakeAll, Holding, Readers, Writers, Waiting
  <2> QED
    BY <1>6, <2>1 DEF FutexWakeAll
<1>7. CASE WriteUnlockCas(t)
  <2>1. t \in Writers
    BY <1>7 DEF WriteUnlockCas, Step, Writers, Holding
  <2>2. Writers = {t} /\ Readers = {}
    BY <2>1
  <2>3. Readers' = {} /\ Writers' = {} /\ Waiting' = Waiting
    BY <1>7, <2>1, <2>2 DEF WriteUnlockCas, Holding, Readers, Writers, Waiting
  <2>4. Cardinality(Readers') = 0
    BY <2>3, FS_EmptySet
  <2>5. exclusiveOwner_ = None
    BY <1>7, <2>2 DEF WriteUnlockCas, Step, Writers, Holding
  <2> QED
    BY <1>7, <2>1, <2>2, <2>3, <2>4, <2>5 DEF WriteUnlockCas
<1>8. CASE ReadUnlockCas(t)
  <2>1. t \in Readers
    BY <1>8 DEF ReadUnlockCas, Step, Readers, Holding
  <2>2. /\ Readers' = Readers \ {t}
        /\ Writers' = Writers /\ Waiting' = Waiting
    BY <1>8, <2>1 DEF ReadUnlockCas, Holding, Readers, Writers, Waiting
  <2>3. Cardinality(Readers') = Cardinality(Readers) - 1
    BY <2>1, <2>2, FS_RemoveElement
  <2> QED
    BY <1>8, <2>1, <2>2, <2>3 DEF ReadUnlockCas
<1>9. CASE WriteUnlockCasFail(t)
  <2>1. t \in Writers
    BY <1>9 DEF WriteUnlockCasFail, Step, Writers, Holding
  <2>2. Writers = {t} /\ Readers = {} /\ state_ = WRITE_LOCKED
    BY <2>1
  <2>3. Readers' = Readers /\ Writers' = Writers /\ Waiting' = Waiting
    BY <1>9, <2>1, <2>2 DEF WriteUnlockCasFail, Holding, Readers, Writers, Waiting
  <2> QED
    BY <1>9, <2>1, <2>2, <2>3 DEF WriteUnlockCasFail
<1>10. CASE ReadUnlockCasFail(t)
  <2>1. t \in Readers
    BY <1>10 DEF ReadUnlockCasFail, Step, Readers, Holding
  <2>2. Writers = {} /\ state_ > 0
    BY <2>1
  <2>3. Readers' = Readers /\ Writers' = Writers /\ Waiting' = Waiting
    BY <1>10, <2>1, <2>2 DEF ReadUnlockCasFail, Holding, Readers, Writers, Waiting
  <2> QED
    BY <1>10, <2>1, <2>2, <2>3 DEF ReadUnlockCasFail
<1> QED
  BY <1>1, <1>2, <1>3, <1>4, <1>5, <1>6, <1>7, <1>8, <1>9, <1>10 DEF ReleaseStep, ReleaseCas

(* Every step of the lock preserves the invariant. *)
LEMMA NextIInv == IInv /\ [Next]_vars => IInv'
<1> SUFFICES ASSUME IInv, [Next]_vars PROVE IInv'
  OBVIOUS
<1> USE ThreadsAssumption, SetsAreFinite
    DEF Step, IInv, TypeOK, Labels, Ops, WriterExcludesAll,
        StateCountsHolders, WaitersCountWaiting, OwnerIsWriter, LocalsInRange,
        NoFatal, NoLostWakeup, Asleep, Available, Writes, lockVars, UNLOCKED,
        WRITE_LOCKED, READ_INCREMENT
<1>1. ASSUME NEW t \in Threads, NEW o \in Ops, Call(t, o) PROVE IInv'
  <2>1. Readers' = Readers /\ Writers' = Writers /\ Waiting' = Waiting
    BY <1>1 DEF Call, Holding, Readers, Writers, Waiting
  <2> QED
    BY <1>1, <2>1 DEF Call
<1>2. ASSUME NEW t \in Threads, FutexInterrupted(t) PROVE IInv'
  <2>1. Readers' = Readers /\ Writers' = Writers /\ Waiting' = Waiting
    BY <1>2 DEF FutexInterrupted, Holding, Readers, Writers, Waiting
  <2> QED
    BY <1>2, <2>1 DEF FutexInterrupted
<1>3. CASE UNCHANGED vars
  BY <1>3 DEF vars, Holding, Readers, Writers, Waiting
<1>4. ASSUME NEW t \in Threads,
             ReadLock(t) \/ WriteLock(t) \/ TryReadLock(t) \/ TryWriteLock(t)
      PROVE  IInv'
  <2>1. AcquireStep(t) \/ Cas(t) \/ CasFail(t)
    BY <1>4 DEF ReadLock, WriteLock, TryReadLock, TryWriteLock, AcquireStep
  <2> QED
    BY <2>1, AcquireIInv
<1> QED
  BY <1>1, <1>2, <1>3, <1>4, ReleaseIInv DEF Next

(* IInv holds in every reachable state. *)
LEMMA IInvHolds == Spec => []IInv
  BY InitIInv, NextIInv, PTL DEF Spec

-----------------------------------------------------------------------------
(* The lock words and the threads' control state keep their types. *)
THEOREM TypeCorrect == Spec => []TypeOK
<1>1. IInv => TypeOK
  BY DEF IInv
<1> QED
  BY <1>1, IInvHolds, PTL

(* Mutual exclusion of RWLock: whatever WriteLock, TryWriteLock, ReadLock and
   TryReadLock do concurrently, a writer is alone in the lock. *)
THEOREM Exclusion == Spec => []WriterExcludesAll
<1>1. IInv => WriterExcludesAll
  BY DEF IInv
<1> QED
  BY <1>1, IInvHolds, PTL

(* state_ is the number of readers, or -1 when a writer is in. *)
THEOREM HolderCount == Spec => []StateCountsHolders
<1>1. IInv => StateCountsHolders
  BY DEF IInv
<1> QED
  BY <1>1, IInvHolds, PTL

(* Unlock never reaches the fatal branch of WriteUnlock or ReadUnlock. *)
THEOREM UnlockDispatch == Spec => []NoFatal
<1>1. IInv => NoFatal
  BY DEF IInv
<1> QED
  BY <1>1, IInvHolds, PTL

(* No release of RWLock leaves a thread asleep that it should have woken. *)
THEOREM WakeupNotLost == Spec => []NoLostWakeup
<1>1. IInv => NoLostWakeup
  BY DEF IInv
<1> QED
  BY <1>1, IInvHolds, PTL

(* A quiescent RWLock passes the checks of its destructor. *)
THEOREM DestructorSafe == Spec => []DestructorChecksPass
<1>1. IInv => DestructorChecksPass
  <2> SUFFICES ASSUME IInv, \A t \in Threads : pc[t] = "idle"
               PROVE  state_ = UNLOCKED /\ exclusiveOwner_ = None /\ waiters_ = 0
    BY DEF DestructorChecksPass
  <2>1. Readers = {} /\ Writers = {} /\ Waiting = {}
    BY DEF Readers, Writers, Waiting, Holding
  <2> QED
    BY <2>1, SetsAreFinite
       DEF IInv, TypeOK, StateCountsHolders, WaitersCountWaiting,
           OwnerIsWriter, UNLOCKED
<1> QED
  BY <1>1, IInvHolds, PTL
=============================================================================
