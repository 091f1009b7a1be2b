------------------------------- MODULE RWLock -------------------------------
(***************************************************************************)
(* The futex-based readers/writer lock of libpandabase                     *)
(* (platforms/unix/libpandabase/futex/mutex.{h,cpp}, class RWLock).  It is *)
(* the lock behind the mutator lock, so every managed-code transition and  *)
(* every stop-the-world pause of the runtime goes through it.              *)
(*                                                                         *)
(* One action is one access to shared memory (an atomic load, a store, a   *)
(* compare-exchange, a fetch-add) or one futex system call, so the model   *)
(* has every interleaving the atomics allow under sequential consistency.  *)
(* pc[t] names the access thread t performs next, cur[t] is its local      *)
(* curState, op[t] the acquiring function it called last (and whose lock   *)
(* it may still hold).  A weak compare-exchange may fail spuriously.       *)
(***************************************************************************)
EXTENDS Integers, FiniteSets

CONSTANTS
  Threads,   \* the threads that use the lock
  None       \* the value 0 of exclusiveOwner_: no thread

ASSUME ThreadsAssumption == IsFiniteSet(Threads) /\ None \notin Threads

WRITE_LOCKED   == -1
UNLOCKED       == 0
READ_INCREMENT == 1

Ops    == {"ReadLock", "WriteLock", "TryReadLock", "TryWriteLock"}
Labels == {"idle", "load", "cas", "spin", "inc", "futex", "sleep", "reload",
           "dec", "own", "held", "w_load", "w_owner", "w_cas", "r_load",
           "r_cas", "waiters", "wake", "fatal"}

VARIABLES
  state_,           \* -1 write locked, 0 unlocked, n > 0 held by n readers
  exclusiveOwner_,  \* the writer, stored after the acquiring CAS
  waiters_,         \* threads that announced a futex wait
  pc, cur, op

lockVars == <<state_, exclusiveOwner_, waiters_>>
vars == <<lockVars, pc, cur, op>>

Init ==
  /\ state_ = UNLOCKED
  /\ exclusiveOwner_ = None
  /\ waiters_ = 0
  /\ pc = [t \in Threads |-> "idle"]
  /\ cur = [t \in Threads |-> UNLOCKED]
  /\ op = [t \in Threads |-> "none"]

Writes(o) == o \in {"WriteLock", "TryWriteLock"}
Blocks(o) == o \in {"ReadLock", "WriteLock"}

\* The state in which o may take the lock.  (The wait loop of the readers is
\* written state == WRITE_LOCKED; the word is never below that.)
Available(o, s) == IF Writes(o) THEN s = UNLOCKED ELSE s >= UNLOCKED

-----------------------------------------------------------------------------
\* Thread t performs the access at label `from` and goes on to `to` with
\* curState = c; back outside the lock its locals are gone.
Step(t, from, to, c) ==
  /\ pc[t] = from
  /\ pc'  = [pc EXCEPT ![t] = to]
  /\ cur' = [cur EXCEPT ![t] = IF to = "idle" THEN UNLOCKED ELSE c]
  /\ op'  = [op EXCEPT ![t] = IF to = "idle" THEN "none" ELSE @]

Call(t, o) ==
  /\ pc[t] = "idle"
  /\ pc' = [pc EXCEPT ![t] = "load"]
  /\ op' = [op EXCEPT ![t] = o]
  /\ UNCHANGED <<lockVars, cur>>

\* Wrong variant: a writer uses the readers' test (state >= UNLOCKED).
LoadAnyUnlocked(t) ==
  /\ Step(t, "load", IF state_ >= UNLOCKED THEN "cas"
                     ELSE IF Blocks(op[t]) THEN "spin" ELSE "idle", state_)
  /\ UNCHANGED lockVars

\* The load at the head of the acquiring loop; Try* gives up at once.
Load(t) ==
  /\ Step(t, "load", IF Available(op[t], state_) THEN "cas"
                     ELSE IF Blocks(op[t]) THEN "spin" ELSE "idle", state_)
  /\ UNCHANGED lockVars

Cas(t) ==
  /\ Step(t, "cas", IF Writes(op[t]) THEN "own" ELSE "held", UNLOCKED)
  /\ state_ = cur[t]
  /\ state_' = IF Writes(op[t]) THEN WRITE_LOCKED ELSE cur[t] + READ_INCREMENT
  /\ UNCHANGED <<exclusiveOwner_, waiters_>>

\* The CAS lost to another thread, or failed spuriously.  The blocking
\* functions reload; Try* goes on with the value the CAS fetched.
CasFail(t) ==
  /\ Step(t, "cas", IF Blocks(op[t]) THEN "load"
                    ELSE IF Available(op[t], state_) THEN "cas" ELSE "idle", state_)
  /\ UNCHANGED lockVars

\* WaitBrieflyFor: the last poll decides, earlier ones change nothing.
WaitBrieflyFor(t) ==
  /\ Step(t, "spin", IF Available(op[t], state_) THEN "load" ELSE "inc", cur[t])
  /\ UNCHANGED lockVars

IncrementWaiters(t) ==
  /\ Step(t, "inc", "futex", cur[t])
  /\ waiters_' = waiters_ + 1
  /\ UNCHANGED <<state_, exclusiveOwner_>>

\* FUTEX_WAIT compares the word with curState and sleeps, or returns EAGAIN.
FutexWait(t) ==
  /\ Step(t, "futex", IF state_ = cur[t] THEN "sleep" ELSE "reload", cur[t])
  /\ UNCHANGED lockVars

Reload(t) ==
  /\ Step(t, "reload", IF Available(op[t], state_) THEN "dec" ELSE "futex", state_)
  /\ UNCHANGED lockVars

DecrementWaiters(t) ==
  /\ Step(t, "dec", "load", cur[t])
  /\ waiters_' = waiters_ - 1
  /\ UNCHANGED <<state_, exclusiveOwner_>>

StoreOwner(t) ==
  /\ Step(t, "own", "held", UNLOCKED)
  /\ exclusiveOwner_' = t
  /\ UNCHANGED <<state_, waiters_>>

\* What the four acquiring functions do, a successful CAS apart.
AcquireStep(t) ==
  \/ Load(t) \/ WaitBrieflyFor(t) \/ IncrementWaiters(t) \/ FutexWait(t)
  \/ Reload(t) \/ DecrementWaiters(t) \/ StoreOwner(t)

ReadLock(t)     == op[t] = "ReadLock"     /\ (AcquireStep(t) \/ Cas(t) \/ CasFail(t))
WriteLock(t)    == op[t] = "WriteLock"    /\ (AcquireStep(t) \/ Cas(t) \/ CasFail(t))
TryReadLock(t)  == op[t] = "TryReadLock"  /\ (Load(t) \/ Cas(t) \/ CasFail(t))
TryWriteLock(t) == op[t] = "TryWriteLock" /\ (Load(t) \/ Cas(t) \/ CasFail(t)
                                              \/ StoreOwner(t))

-----------------------------------------------------------------------------
HasExclusiveHolder == exclusiveOwner_ # None

\* Unlock is one entry point for both kinds of holder: it tells a writer from
\* a reader by reading exclusiveOwner_.
Unlock(t) ==
  /\ Step(t, "held", IF HasExclusiveHolder THEN "w_load" ELSE "r_load", cur[t])
  /\ UNCHANGED lockVars

WriteUnlockLoad(t) ==
  /\ Step(t, "w_load", IF state_ = WRITE_LOCKED THEN "w_owner" ELSE "fatal", state_)
  /\ UNCHANGED lockVars

WriteUnlockOwner(t) ==
  /\ Step(t, "w_owner", "w_cas", cur[t])
  /\ exclusiveOwner_' = None
  /\ UNCHANGED <<state_, waiters_>>

WriteUnlockCas(t) ==
  /\ Step(t, "w_cas", "waiters", UNLOCKED)
  /\ state_ = cur[t]
  /\ state_' = UNLOCKED
  /\ UNCHANGED <<exclusiveOwner_, waiters_>>

WriteUnlockCasFail(t) ==
  /\ Step(t, "w_cas", IF state_ = WRITE_LOCKED THEN "w_owner" ELSE "fatal", state_)
  /\ UNCHANGED lockVars

ReadUnlockLoad(t) ==
  /\ Step(t, "r_load", IF state_ > 0 THEN "r_cas" ELSE "fatal", state_)
  /\ UNCHANGED lockVars

\* Wrong variant: the last reader leaves without looking for waiters.
ReadUnlockNoWake(t) ==
  /\ Step(t, "r_cas", "idle", UNLOCKED)
  /\ state_ = cur[t]
  /\ state_' = cur[t] - READ_INCREMENT
  /\ UNCHANGED <<exclusiveOwner_, waiters_>>

\* Only the last reader looks for waiters.
ReadUnlockCas(t) ==
  /\ Step(t, "r_cas",
          IF cur[t] - READ_INCREMENT = UNLOCKED THEN "waiters" ELSE "idle", UNLOCKED)
  /\ state_ = cur[t]
  /\ state_' = cur[t] - READ_INCREMENT
  /\ UNCHANGED <<exclusiveOwner_, waiters_>>

ReadUnlockCasFail(t) ==
  /\ Step(t, "r_cas", IF state_ > 0 THEN "r_cas" ELSE "fatal", state_)
  /\ UNCHANGED lockVars

LoadWaiters(t) ==
  /\ Step(t, "waiters", IF waiters_ > 0 THEN "wake" ELSE "idle", UNLOCKED)
  /\ UNCHANGED lockVars

Asleep == {t \in Threads : pc[t] = "sleep"}

\* Wrong variant: WAKE_ONE instead of WAKE_ALL.
FutexWakeOne(t) ==
  /\ pc[t] = "wake"
  /\ \E woken \in {{}} \cup {{u} : u \in Asleep} :
       /\ woken = {} => Asleep = {}
       /\ pc' = [u \in Threads |-> IF u = t THEN "idle"
                                   ELSE IF u \in woken THEN "reload" ELSE pc[u]]
  /\ op' = [op EXCEPT ![t] = "none"]
  /\ UNCHANGED <<lockVars, cur>>

\* FUTEX_WAKE with WAKE_ALL
FutexWakeAll(t) ==
  /\ pc[t] = "wake"
  /\ pc' = [u \in Threads |-> IF u = t THEN "idle"
                              ELSE IF u \in Asleep THEN "reload" ELSE pc[u]]
  /\ op' = [op EXCEPT ![t] = "none"]
  /\ UNCHANGED <<lockVars, cur>>

\* A signal interrupts FUTEX_WAIT (EINTR); the waiting loop reloads.
FutexInterrupted(t) ==
  /\ Step(t, "sleep", "reload", cur[t])
  /\ UNCHANGED lockVars

ReleaseStep(t) ==
  \/ Unlock(t) \/ WriteUnlockLoad(t) \/ WriteUnlockOwner(t)
  \/ ReadUnlockLoad(t) \/ LoadWaiters(t) \/ FutexWakeAll(t)

ReleaseCas(t) ==
  \/ WriteUnlockCas(t) \/ ReadUnlockCas(t)
  \/ WriteUnlockCasFail(t) \/ ReadUnlockCasFail(t)

-----------------------------------------------------------------------------
Next ==
  \E t \in Threads :
    \/ \E o \in Ops : Call(t, o)
    \/ ReadLock(t) \/ WriteLock(t) \/ TryReadLock(t) \/ TryWriteLock(t)
    \/ ReleaseStep(t) \/ ReleaseCas(t)
    \/ FutexInterrupted(t)

Spec == Init /\ [][Next]_vars

(***************************************************************************)
(* Scheduling.  Every thread inside an operation keeps taking steps, and a *)
(* holder eventually calls Unlock.  The CAS of WriteUnlock can only fail   *)
(* spuriously (nobody else writes state_ while it is -1), and a weak CAS   *)
(* does not fail spuriously for ever, hence strong fairness for it.  The   *)
(* acquiring CASes and the one of ReadUnlock compete with other threads:   *)
(* nothing is assumed about them.                                          *)
(***************************************************************************)
Fairness ==
  /\ \A t \in Threads : WF_vars(AcquireStep(t)) /\ WF_vars(ReleaseStep(t))
  /\ SF_vars(\E t \in Threads : WriteUnlockCas(t))

FairSpec == Spec /\ Fairness
-----------------------------------------------------------------------------
\* Threads between the CAS that acquires and the CAS that releases.
Holding == {t \in Threads : pc[t] \in {"own", "held", "w_load", "w_owner",
                                       "w_cas", "r_load", "r_cas"}}
Writers == {t \in Holding : Writes(op[t])}
Readers == {t \in Holding : ~Writes(op[t])}

\* Type invariant of the lock words and of the threads' control state.
TypeOK ==
  /\ state_ \in Int /\ state_ >= WRITE_LOCKED
  /\ exclusiveOwner_ \in Threads \cup {None}
  /\ waiters_ \in Nat
  /\ pc \in [Threads -> Labels]
  /\ cur \in [Threads -> Int]
  /\ op \in [Threads -> Ops \cup {"none"}]

\* A writer is alone: no second writer and no reader holds the lock with it
\* (WriteLock, TryWriteLock, ReadLock and TryReadLock against each other).
WriterExcludesAll ==
  \A w \in Writers : Writers = {w} /\ Readers = {}

\* The word counts its holders: -1 exactly when a writer is in, otherwise the
\* number of readers.  An update lost between two CASes would break it.
StateCountsHolders ==
  state_ = IF Writers # {} THEN WRITE_LOCKED ELSE Cardinality(Readers)

\* The fatal branches of WriteUnlock ("not writelocked?") and ReadUnlock
\* ("is unlocked?") are unreachable: the single Unlock entry point, which
\* looks only at exclusiveOwner_, never takes a reader for a writer or a
\* writer for a reader, although owner and state change in two steps.
NoFatal == \A t \in Threads : pc[t] # "fatal"

\* Nobody sleeps through a release: while a thread sleeps although it could
\* take the lock (a writer on a free lock, a reader on one not write-locked),
\* some unlocking thread still has its waiters_ check or its FUTEX_WAKE ahead.
NoLostWakeup ==
  (\E t \in Asleep : Available(op[t], state_))
    => \E t \in Threads : pc[t] \in {"waiters", "wake"}

\* ~RWLock: once every thread is out of the lock's functions and none holds
\* it, the three checks of the destructor pass.
DestructorChecksPass ==
  (\A t \in Threads : pc[t] = "idle")
    => state_ = UNLOCKED /\ exclusiveOwner_ = None /\ waiters_ = 0

\* A reader asleep in HandleReadLockWait is woken: the writer it waits for
\* unlocks and wakes all.  A writer asleep in WriteLock is woken provided the
\* lock is free again and again (overlapping readers may keep it from ever
\* being free: RWLock does not prevent that, its users do).
SleeperIsWoken ==
  /\ \A t \in Threads :
       (pc[t] = "sleep" /\ op[t] = "ReadLock") ~> (pc[t] # "sleep")
  /\ []<>(state_ = UNLOCKED)
       => \A t \in Threads : (pc[t] = "sleep") ~> (pc[t] # "sleep")
=============================================================================
