----------------------------- MODULE Suspension -----------------------------
(***************************************************************************)
(* Thread suspension of the static runtime: the flags-and-status word of a *)
(* managed thread and its suspend count (runtime/include/managed_thread.h, *)
(* runtime/thread.cpp), the thread list and its shutdown                   *)
(* (runtime/mt_thread_manager.cpp), and the stop-the-world rendezvous      *)
(* (runtime/mem/rendezvous.cpp) that garbage collection and               *)
(* deoptimization are built on.                                            *)
(*                                                                         *)
(* One action is one access to a word that other threads change without a  *)
(* common lock, or one critical section.  The mutator lock is the abstract *)
(* readers/writer lock that module RWLock implements; threadLock_ is a     *)
(* mutex, and what suspendLock_ protects is one step.  pc[a] is the next   *)
(* step of actor a.  The functions nest, so four locals stand for the C++  *)
(* stack: goal and ret are the argument and the continuation of the        *)
(* UpdateStatus in progress, old and back the saved status and the         *)
(* continuation of the SafepointPoll in progress; cont is the continuation *)
(* of a transition to RUNNING, inside which a SafepointPoll may nest.      *)
(***************************************************************************)
EXTENDS Integers, FiniteSets

CONSTANTS
  Threads,     \* the MTManagedThreads
  Main,        \* the main thread
  Daemons,     \* the threads with isDaemon_
  Initial,     \* the threads registered when the model starts
  Collectors,  \* threads outside the list that stop the world (the GC thread)
  Stoppers,    \* the threads that stop the world themselves
  Inflators,   \* the threads that suspend one other thread to inflate a monitor
  Debuggable,  \* the threads the debugger suspends and resumes
  None,
  MaxRounds    \* bound on the pauses and inflations of a behaviour

ASSUME SuspensionAssumption ==
  /\ IsFiniteSet(Threads) /\ IsFiniteSet(Collectors)
  /\ Threads \cap Collectors = {} /\ None \notin Threads \cup Collectors
  /\ Main \in Initial \ Daemons /\ Initial \subseteq Threads
  /\ Daemons \subseteq Threads /\ Stoppers \subseteq Threads
  /\ Inflators \subseteq Threads /\ Debuggable \subseteq Threads
  /\ MaxRounds \in Nat

Actors == Threads \cup Collectors

\* IS_WAITING stands for every status of a thread blocked in a wait.
ThreadStatus ==
  {"CREATED", "RUNNING", "IS_WAITING", "IS_SUSPENDED", "IS_WAITING_INFLATION",
   "IS_TERMINATED_LOOP", "NATIVE", "TERMINATING", "FINISHED"}
SUSPEND_REQUEST == "SUSPEND_REQUEST"
RUNTIME_TERMINATION_REQUEST == "RUNTIME_TERMINATION_REQUEST"

VARIABLES
  status, flags,        \* the two halves of fts_
  suspendCount_, userSuspended,
  threads_, threadLock_, suspendNewCount_, pendingThreads_,
  readers, writer,      \* who holds the mutator lock
  pc, goal, ret, old, back, cont,
  todo,                 \* the threads an enumeration has not visited yet
  target,               \* the owner an inflator suspends
  rounds

wordVars == <<status, flags, suspendCount_, userSuspended>>
listVars == <<threads_, threadLock_, suspendNewCount_, pendingThreads_>>
lockVars == <<readers, writer>>
callVars == <<goal, ret, old, back, cont>>
vars == <<wordVars, listVars, lockVars, callVars, pc, todo, target, rounds>>

Init ==
  /\ status = [t \in Threads |-> IF t \in Initial THEN "NATIVE" ELSE "CREATED"]
  /\ flags = [t \in Threads |-> {}]
  /\ suspendCount_ = [t \in Threads |-> 0]
  /\ userSuspended = [t \in Threads |-> FALSE]
  /\ threads_ = Initial
  /\ threadLock_ = None
  /\ suspendNewCount_ = 0
  /\ pendingThreads_ = 0
  /\ readers = {}
  /\ writer = None
  /\ pc = [a \in Actors |-> IF a \in Collectors THEN "idle"
                            ELSE IF a \in Initial THEN "native" ELSE "absent"]
  /\ goal = [t \in Threads |-> "NATIVE"]
  /\ ret = [t \in Threads |-> "native"]
  /\ old = [t \in Threads |-> "NATIVE"]
  /\ back = [t \in Threads |-> "native"]
  /\ cont = [a \in Actors |-> "native"]
  /\ todo = [a \in Actors |-> {}]
  /\ target = [t \in Threads |-> None]
  /\ rounds = 0

-----------------------------------------------------------------------------
Step(a, from, to) == pc[a] = from /\ pc' = [pc EXCEPT ![a] = to]

\* The locals of a thread back in its own code.
Fresh(t) ==
  /\ goal' = [goal EXCEPT ![t] = "NATIVE"]
  /\ ret'  = [ret  EXCEPT ![t] = "native"]
  /\ old'  = [old  EXCEPT ![t] = "NATIVE"]
  /\ back' = [back EXCEPT ![t] = "native"]
  /\ cont' = [cont EXCEPT ![t] = "native"]

\* From label `from`, thread t calls UpdateStatus(s) and goes on at k.
CallUpdateStatus(t, from, s, k) ==
  /\ Step(t, from, "update")
  /\ goal' = [goal EXCEPT ![t] = s]
  /\ ret'  = [ret EXCEPT ![t] = k]
  /\ UNCHANGED <<old, back, cont>>

Acquire(a) == threadLock_ = None /\ threadLock_' = a
Release(a) == threadLock_' = None

\* SuspendImpl and ResumeImpl under suspendLock_; the flag follows the count.
Increment(u) ==
  /\ suspendCount_' = [suspendCount_ EXCEPT ![u] = @ + 1]
  /\ flags' = [flags EXCEPT ![u] = @ \cup {SUSPEND_REQUEST}]

Decrement(u) ==
  /\ suspendCount_' = [suspendCount_ EXCEPT ![u] = IF @ > 0 THEN @ - 1 ELSE @]
  /\ flags' = [flags EXCEPT ![u] = IF suspendCount_[u] = 1
                                   THEN @ \ {SUSPEND_REQUEST} ELSE @]

-----------------------------------------------------------------------------
(* UpdateStatus, StoreStatus and the transitions they implement.           *)

\* The choice of a transition.  The termination request is tested here and
\* not together with the store: see DeregisteredStaysNative.
UpdateStatus(t) ==
  /\ Step(t, "update",
          IF status[t] # "RUNNING" /\ goal[t] = "RUNNING" THEN "load"
          ELSE IF /\ status[t] = "NATIVE" /\ goal[t] # "IS_TERMINATED_LOOP"
                  /\ RUNTIME_TERMINATION_REQUEST \in flags[t] THEN "checked"
          ELSE "store")
  /\ cont' = [cont EXCEPT ![t] = IF goal[t] = "RUNNING" THEN ret[t] ELSE @]
  /\ UNCHANGED <<goal, ret, old, back>>
  /\ UNCHANGED <<wordVars, listVars, lockVars, todo, target, rounds>>

\* StoreStatus without checks (its retry loop only skips concurrent changes of
\* the flags); a thread that was RUNNING goes on to release the mutator lock.
StoreStatus(t) ==
  /\ Step(t, "store", IF status[t] = "RUNNING" THEN "unlock" ELSE ret[t])
  /\ status' = [status EXCEPT ![t] = goal[t]]
  /\ UNCHANGED <<flags, suspendCount_, userSuspended>>
  /\ UNCHANGED <<listVars, lockVars, callVars, todo, target, rounds>>

TransitionUnlock(t) ==
  /\ Step(t, "unlock", ret[t])
  /\ readers' = readers \ {t}
  /\ UNCHANGED <<wordVars, listVars, writer, callVars, todo, target, rounds>>

\* StoreStatus<CHECK_SAFEPOINT>: only a NATIVE thread that was told to
\* terminate comes here, so the poll does not return.
StoreStatusChecked(t) ==
  /\ Step(t, "checked", IF flags[t] # {} THEN "poll" ELSE ret[t])
  /\ status' = [status EXCEPT ![t] = IF flags[t] # {} THEN @ ELSE goal[t]]
  /\ back' = [back EXCEPT ![t] = "checked"]
  /\ UNCHANGED <<flags, suspendCount_, userSuspended, goal, ret, old, cont>>
  /\ UNCHANGED <<listVars, lockVars, todo, target, rounds>>

\* Wrong variant: the mutator lock is taken after the status change.
LoadNoLock(t) ==
  /\ Step(t, "load", IF flags[t] # {} THEN "poll" ELSE "cas")
  /\ back' = [back EXCEPT ![t] = IF flags[t] # {} THEN "load" ELSE @]
  /\ UNCHANGED <<goal, ret, old, cont>>
  /\ UNCHANGED <<wordVars, listVars, lockVars, todo, target, rounds>>

\* StoreStatus<CHECK_SAFEPOINT, READLOCK>(RUNNING): load, lock, compare.
LoadFts(t) ==
  /\ Step(t, "load", IF flags[t] # {} THEN "poll" ELSE "readlock")
  /\ back' = [back EXCEPT ![t] = IF flags[t] # {} THEN "load" ELSE @]
  /\ UNCHANGED <<goal, ret, old, cont>>
  /\ UNCHANGED <<wordVars, listVars, lockVars, todo, target, rounds>>

ReadLock(t) ==
  /\ Step(t, "readlock", "cas")
  /\ writer = None
  /\ readers' = readers \cup {t}
  /\ UNCHANGED <<wordVars, listVars, writer, callVars, todo, target, rounds>>

\* Wrong variant: the status is stored whatever became of the flags.
CasAsStore(t) ==
  /\ Step(t, "cas", cont[t])
  /\ status' = [status EXCEPT ![t] = "RUNNING"]
  /\ Fresh(t)
  /\ UNCHANGED <<flags, suspendCount_, userSuspended>>
  /\ UNCHANGED <<listVars, lockVars, todo, target, rounds>>

\* The compare-exchange succeeds only if no request arrived since the load.
CasRunning(t) ==
  /\ flags[t] = {}
  /\ Step(t, "cas", cont[t])
  /\ status' = [status EXCEPT ![t] = "RUNNING"]
  /\ Fresh(t)
  /\ UNCHANGED <<flags, suspendCount_, userSuspended>>
  /\ UNCHANGED <<listVars, lockVars, todo, target, rounds>>

\* It failed (weakly, or on new flags): release the lock and start again.
CasRunningFail(t) ==
  /\ Step(t, "cas", "load")
  /\ readers' = readers \ {t}
  /\ UNCHANGED <<wordVars, listVars, writer, callVars, todo, target, rounds>>

Transitions(t) ==
  \/ UpdateStatus(t) \/ StoreStatus(t) \/ TransitionUnlock(t)
  \/ StoreStatusChecked(t) \/ LoadFts(t) \/ ReadLock(t) \/ CasRunning(t)
  \/ CasRunningFail(t)

-----------------------------------------------------------------------------
(* Safepoints and WaitSuspension.                                          *)

\* SafepointPoll and the termination test of Safepoint.
Poll(t) ==
  /\ Step(t, "poll", IF RUNTIME_TERMINATION_REQUEST \in flags[t] THEN "terminate"
                     ELSE IF flags[t] = {} THEN back[t] ELSE "poll_suspend")
  /\ UNCHANGED <<wordVars, listVars, lockVars, callVars, todo, target, rounds>>

\* Wrong variant: the safepoint is over once it found no termination request.
PollReturns(t) ==
  /\ Step(t, "poll_suspend", back[t])
  /\ UNCHANGED <<wordVars, listVars, lockVars, callVars, todo, target, rounds>>

\* The suspension test of Safepoint; WaitSuspension parks the thread.
PollSuspend(t) ==
  /\ pc[t] = "poll_suspend"
  /\ IF SUSPEND_REQUEST \in flags[t]
     THEN /\ pc'   = [pc   EXCEPT ![t] = "update"]
          /\ goal' = [goal EXCEPT ![t] = "IS_SUSPENDED"]
          /\ ret'  = [ret  EXCEPT ![t] = "suspended"]
          /\ old'  = [old  EXCEPT ![t] = status[t]]
     ELSE pc' = [pc EXCEPT ![t] = back[t]] /\ UNCHANGED <<goal, ret, old>>
  /\ UNCHANGED <<wordVars, listVars, lockVars, back, cont, todo, target, rounds>>

\* The loop of WaitSuspension; its TimedWait ends by itself, signal or not.
Suspended(t) ==
  /\ pc[t] = "suspended"
  /\ IF suspendCount_[t] > 0
     THEN pc' = [pc EXCEPT ![t] = "parked"] /\ UNCHANGED <<goal, ret>>
     ELSE /\ pc'   = [pc   EXCEPT ![t] = "update"]
          /\ goal' = [goal EXCEPT ![t] = old[t]]
          /\ ret'  = [ret  EXCEPT ![t] = back[t]]
  /\ UNCHANGED <<wordVars, listVars, lockVars, old, back, cont, todo, target, rounds>>

Parked(t) ==
  /\ Step(t, "parked", IF RUNTIME_TERMINATION_REQUEST \in flags[t]
                       THEN "terminate" ELSE "suspended")
  /\ UNCHANGED <<wordVars, listVars, lockVars, callVars, todo, target, rounds>>

\* Wrong variant: the thread sleeps without saying where it is.
TerminateQuietly(t) ==
  /\ Step(t, "terminate", "dead")
  /\ UNCHANGED <<wordVars, listVars, lockVars, callVars, todo, target, rounds>>

\* TerminationLoop: a NATIVE thread keeps its status (and its monitors).
TerminationLoop(t) ==
  /\ \/ /\ status[t] = "NATIVE"
        /\ Step(t, "terminate", "dead")
        /\ UNCHANGED callVars
     \/ /\ status[t] # "NATIVE"
        /\ CallUpdateStatus(t, "terminate", "IS_TERMINATED_LOOP", "dead")
  /\ UNCHANGED <<wordVars, listVars, lockVars, todo, target, rounds>>

WaitSuspension(t) == Suspended(t) \/ Parked(t)

Safepoint(t) == Poll(t) \/ PollSuspend(t) \/ WaitSuspension(t) \/ TerminationLoop(t)

-----------------------------------------------------------------------------
(* A thread's own code: "native" is code in status NATIVE, "managed" is     *)
(* managed code, which holds the mutator lock.                             *)

\* ManagedCodeBegin, NativeCodeEnd.
ManagedCodeBegin(t) ==
  /\ CallUpdateStatus(t, "native", "RUNNING", "managed")
  /\ UNCHANGED <<wordVars, listVars, lockVars, todo, target, rounds>>

\* ManagedCodeEnd, NativeCodeBegin.
ManagedCodeEnd(t) ==
  /\ CallUpdateStatus(t, "managed", "NATIVE", "native")
  /\ UNCHANGED <<wordVars, listVars, lockVars, todo, target, rounds>>

\* Managed code reaches a safepoint.
SafepointPoll(t) ==
  /\ Step(t, "managed", "poll")
  /\ flags[t] # {}
  /\ back' = [back EXCEPT ![t] = "managed"]
  /\ UNCHANGED <<goal, ret, old, cont>>
  /\ UNCHANGED <<wordVars, listVars, lockVars, todo, target, rounds>>

\* WaitWithLockHeld, TimedWaitWithLockHeld and TimedWait, from either code.
WaitWithLockHeld(t) ==
  /\ \/ CallUpdateStatus(t, "managed", "IS_WAITING", "waiting")
     \/ CallUpdateStatus(t, "native", "IS_WAITING", "waiting_native")
  /\ UNCHANGED <<wordVars, listVars, lockVars, todo, target, rounds>>

\* The wait ends and the status from before it comes back.
WaitEnd(t) ==
  /\ \/ CallUpdateStatus(t, "waiting", "RUNNING", "managed")
     \/ CallUpdateStatus(t, "waiting_native", "NATIVE", "native")
  /\ UNCHANGED <<wordVars, listVars, lockVars, todo, target, rounds>>

\* SuspendCheck: managed code gives the mutator lock away and takes it back.
SuspendCheck(t) ==
  /\ \/ /\ Step(t, "managed", "check_unlock")
        /\ Increment(t)
        /\ UNCHANGED lockVars
     \/ /\ Step(t, "check_unlock", "check_lock")
        /\ readers' = readers \ {t}
        /\ UNCHANGED <<flags, suspendCount_, writer>>
     \/ /\ Step(t, "check_lock", "check_resume")
        /\ writer = None
        /\ readers' = readers \cup {t}
        /\ UNCHANGED <<flags, suspendCount_, writer>>
     \/ /\ Step(t, "check_resume", "managed")
        /\ Decrement(t)
        /\ UNCHANGED lockVars
  /\ UNCHANGED <<status, userSuspended, listVars, callVars, todo, target, rounds>>

\* SuspendImpl(false) and ResumeImpl(false): the debugger suspends at most once.
DebuggerSuspend(t) ==
  /\ t \in Debuggable \cap threads_ /\ ~userSuspended[t]
  /\ userSuspended' = [userSuspended EXCEPT ![t] = TRUE]
  /\ Increment(t)
  /\ UNCHANGED <<status, listVars, lockVars, callVars, pc, todo, target, rounds>>

DebuggerResume(t) ==
  /\ t \in threads_ /\ userSuspended[t]
  /\ userSuspended' = [userSuspended EXCEPT ![t] = FALSE]
  /\ Decrement(t)
  /\ UNCHANGED <<status, listVars, lockVars, callVars, pc, todo, target, rounds>>

-----------------------------------------------------------------------------
(* Rendezvous.  cont[a] remembers the code a came from.                    *)

\* SafepointBegin: from the GC thread, from a thread in status NATIVE, or
\* from managed code, which first releases the lock it holds
\* (ScopedSuspendAllThreadsRunning; the status stays RUNNING).
SafepointBegin(a) ==
  /\ a \in Collectors \cup Stoppers /\ rounds < MaxRounds
  /\ rounds' = rounds + 1
  /\ \E from \in {"idle", "native", "managed"} :
       /\ Step(a, from, "suspend_all")
       /\ cont' = [cont EXCEPT ![a] = from]
  /\ readers' = readers \ {a}
  /\ UNCHANGED <<wordVars, listVars, writer, goal, ret, old, back, todo, target>>

\* SuspendAllThreads takes threadLock_ and visits every thread but its own.
SuspendAllThreads(a) ==
  /\ Step(a, "suspend_all", "suspend_each")
  /\ Acquire(a)
  /\ todo' = [todo EXCEPT ![a] = threads_ \ {a}]
  /\ UNCHANGED <<wordVars, threads_, suspendNewCount_, pendingThreads_>>
  /\ UNCHANGED <<lockVars, callVars, target, rounds>>

SuspendEach(a) ==
  /\ pc[a] = "suspend_each"
  /\ \E u \in todo[a] :
       /\ Increment(u)
       /\ todo' = [todo EXCEPT ![a] = @ \ {u}]
  /\ UNCHANGED <<status, userSuspended, listVars, lockVars, callVars, pc, target, rounds>>

SuspendedAll(a) ==
  /\ Step(a, "suspend_each", "writelock") /\ todo[a] = {}
  /\ suspendNewCount_' = suspendNewCount_ + 1
  /\ Release(a)
  /\ UNCHANGED <<threads_, pendingThreads_>>
  /\ UNCHANGED <<wordVars, lockVars, callVars, todo, target, rounds>>

\* The world stops when every reader has left the mutator lock.
WriteLock(a) ==
  /\ Step(a, "writelock", "stopped")
  /\ readers = {} /\ writer = None
  /\ writer' = a
  /\ UNCHANGED <<wordVars, listVars, readers, callVars, todo, target, rounds>>

\* EnumerateThreadsForDump reads the list under threadLock_ meanwhile.
DumpThreads(a) ==
  /\ cont[a] = "native"
  /\ \/ Step(a, "stopped", "dump") /\ Acquire(a)
     \/ Step(a, "dump", "dumped") /\ Release(a)
  /\ UNCHANGED <<threads_, suspendNewCount_, pendingThreads_>>
  /\ UNCHANGED <<wordVars, lockVars, callVars, todo, target, rounds>>

SafepointEnd(a) ==
  /\ \E from \in {"stopped", "dumped"} : Step(a, from, "resume_all")
  /\ writer' = None
  /\ UNCHANGED <<wordVars, listVars, readers, callVars, todo, target, rounds>>

ResumeAllThreads(a) ==
  /\ Step(a, "resume_all", "resume_each")
  /\ Acquire(a)
  /\ suspendNewCount_' = IF suspendNewCount_ > 0 THEN suspendNewCount_ - 1 ELSE 0
  /\ todo' = [todo EXCEPT ![a] = threads_ \ {a}]
  /\ UNCHANGED <<wordVars, threads_, pendingThreads_>>
  /\ UNCHANGED <<lockVars, callVars, target, rounds>>

ResumeEach(a) ==
  /\ pc[a] = "resume_each"
  /\ \E u \in todo[a] :
       /\ Decrement(u)
       /\ todo' = [todo EXCEPT ![a] = @ \ {u}]
  /\ UNCHANGED <<status, userSuspended, listVars, lockVars, callVars, pc, target, rounds>>

ResumedAll(a) ==
  /\ Step(a, "resume_each", IF cont[a] = "managed" THEN "relock" ELSE cont[a])
  /\ todo[a] = {}
  /\ Release(a)
  /\ cont' = [cont EXCEPT ![a] = "native"]
  /\ UNCHANGED <<threads_, suspendNewCount_, pendingThreads_, goal, ret, old, back>>
  /\ UNCHANGED <<wordVars, lockVars, todo, target, rounds>>

\* ~ScopedSuspendAllThreadsRunning takes the read lock back, flags or not.
RelockRunning(a) ==
  /\ Step(a, "relock", "managed")
  /\ writer = None
  /\ readers' = readers \cup {a}
  /\ UNCHANGED <<wordVars, listVars, writer, callVars, todo, target, rounds>>

Rendezvous(a) ==
  \/ SafepointBegin(a) \/ SuspendAllThreads(a) \/ SuspendEach(a)
  \/ SuspendedAll(a) \/ WriteLock(a) \/ DumpThreads(a) \/ SafepointEnd(a)
  \/ ResumeAllThreads(a) \/ ResumeEach(a) \/ ResumedAll(a) \/ RelockRunning(a)

-----------------------------------------------------------------------------
(* Monitor::InflateThinLock: thread t suspends the owner of a thin lock,    *)
(* rewrites the lock while the owner is parked, and resumes it.            *)

InflateThinLock(t) ==
  /\ t \in Inflators /\ rounds < MaxRounds
  /\ rounds' = rounds + 1
  /\ \E u \in Threads \ {t} : target' = [target EXCEPT ![t] = u]
  /\ CallUpdateStatus(t, "managed", "IS_WAITING_INFLATION", "find_poll")
  /\ UNCHANGED <<wordVars, listVars, lockVars, todo>>

\* SuspendAndWaitThreadByInternalThreadId: poll, then look the owner up.
FindPoll(t) ==
  /\ Step(t, "find_poll", "poll")
  /\ back' = [back EXCEPT ![t] = "find"]
  /\ UNCHANGED <<goal, ret, old, cont>>
  /\ UNCHANGED <<wordVars, listVars, lockVars, todo, target, rounds>>

\* Wrong variant: a thread that is itself being suspended goes on.
FindAnyway(t) ==
  /\ pc[t] = "find" /\ threadLock_ = None
  /\ \/ /\ target[t] \notin threads_
        /\ CallUpdateStatus(t, "find", "RUNNING", "managed")
        /\ target' = [target EXCEPT ![t] = None]
        /\ UNCHANGED <<flags, suspendCount_>>
     \/ /\ target[t] \in threads_
        /\ Step(t, "find", "await")
        /\ Increment(target[t])
        /\ UNCHANGED <<callVars, target>>
  /\ UNCHANGED <<status, userSuspended, listVars, lockVars, todo, rounds>>

FindThread(t) ==
  /\ pc[t] = "find" /\ threadLock_ = None
  /\ \/ /\ target[t] \notin threads_
        /\ CallUpdateStatus(t, "find", "RUNNING", "managed")
        /\ target' = [target EXCEPT ![t] = None]
        /\ UNCHANGED <<flags, suspendCount_>>
     \/ /\ target[t] \in threads_ /\ SUSPEND_REQUEST \in flags[t]
        /\ Step(t, "find", "find_poll")
        /\ UNCHANGED <<flags, suspendCount_, callVars, target>>
     \/ /\ target[t] \in threads_ /\ SUSPEND_REQUEST \notin flags[t]
        /\ Step(t, "find", "await")
        /\ Increment(target[t])
        /\ UNCHANGED <<callVars, target>>
  /\ UNCHANGED <<status, userSuspended, listVars, lockVars, todo, rounds>>

\* Wait until the owner is seen in another status than RUNNING.
AwaitSuspended(t) ==
  /\ pc[t] = "await" /\ status[target[t]] # "RUNNING"
  /\ CallUpdateStatus(t, "await", "RUNNING", "inflate")
  /\ UNCHANGED <<wordVars, listVars, lockVars, todo, target, rounds>>

\* Wrong variant: the owner is resumed without threadLock_.
ResumeUnlocked(t) ==
  /\ \/ /\ Step(t, "inflate", "signal")
        /\ Decrement(target[t])
        /\ UNCHANGED target
     \/ /\ Step(t, "signal", "managed")
        /\ target' = [target EXCEPT ![t] = None]
        /\ UNCHANGED <<flags, suspendCount_>>
  /\ UNCHANGED <<status, userSuspended, listVars, lockVars, callVars, todo, rounds>>

\* ResumeImpl under threadLock_, so that the owner, free to go once its flag
\* is clear, cannot be deleted before the last access to it, the Signal.
ResumeOwner(t) ==
  /\ \/ /\ Step(t, "inflate", "signal")
        /\ Acquire(t)
        /\ Decrement(target[t])
        /\ UNCHANGED target
     \/ /\ Step(t, "signal", "managed")
        /\ Release(t)
        /\ target' = [target EXCEPT ![t] = None]
        /\ UNCHANGED <<flags, suspendCount_>>
  /\ UNCHANGED <<status, userSuspended, threads_, suspendNewCount_, pendingThreads_>>
  /\ UNCHANGED <<lockVars, callVars, todo, rounds>>

Inflation(t) ==
  \/ InflateThinLock(t) \/ FindPoll(t) \/ FindThread(t) \/ AwaitSuspended(t)
  \/ ResumeOwner(t)

-----------------------------------------------------------------------------
(* The life of a thread and the shutdown of the thread manager.            *)

Live(a) == pc[a] \in {"native", "managed"}

\* IncPendingThreads by a registered creator; the thread comes to the list later.
IncPendingThreads(t) ==
  /\ \E c \in threads_ : Live(c)
  /\ threadLock_ = None
  /\ Step(t, "absent", "pending")
  /\ pendingThreads_' = pendingThreads_ + 1
  /\ UNCHANGED <<threads_, threadLock_, suspendNewCount_>>
  /\ UNCHANGED <<wordVars, lockVars, callVars, todo, target, rounds>>

\* Wrong variant: a new thread is not suspended with the others.
RegisterRunning(t) ==
  /\ threadLock_ = None
  /\ Step(t, "pending", "registered")
  /\ threads_' = threads_ \cup {t}
  /\ UNCHANGED <<flags, suspendCount_>>
  /\ UNCHANGED <<status, userSuspended, threadLock_, suspendNewCount_, pendingThreads_>>
  /\ UNCHANGED <<lockVars, callVars, todo, target, rounds>>

\* RegisterThread owes the new thread one suspension per pause under way.
RegisterThread(t) ==
  /\ threadLock_ = None
  /\ Step(t, "pending", "registered")
  /\ threads_' = threads_ \cup {t}
  /\ suspendCount_' = [suspendCount_ EXCEPT ![t] = @ + suspendNewCount_]
  /\ flags' = [flags EXCEPT ![t] = IF suspendNewCount_ > 0
                                   THEN @ \cup {SUSPEND_REQUEST} ELSE @]
  /\ UNCHANGED <<status, userSuspended, threadLock_, suspendNewCount_, pendingThreads_>>
  /\ UNCHANGED <<lockVars, callVars, todo, target, rounds>>

\* DecPendingThreads, then NativeCodeBegin at the end of ProcessCreatedThread.
DecPendingThreads(t) ==
  /\ threadLock_ = None
  /\ CallUpdateStatus(t, "registered", "NATIVE", "native")
  /\ pendingThreads_' = pendingThreads_ - 1
  /\ UNCHANGED <<threads_, threadLock_, suspendNewCount_>>
  /\ UNCHANGED <<wordVars, lockVars, todo, target, rounds>>

\* Destroy: TERMINATING, then (UnregisterExitedThread) NativeCodeEnd.  Main
\* destroys itself only when WaitForDeregistration has returned.
Destroy(t) ==
  /\ \/ CallUpdateStatus(t, IF t = Main THEN "deregistered" ELSE "native",
                         "TERMINATING", "exit")
     \/ CallUpdateStatus(t, "exit", "RUNNING", "exit_lock")
  /\ UNCHANGED <<wordVars, listVars, lockVars, todo, target, rounds>>

\* With threadLock_ held, a thread someone suspends goes back to a safepoint.
ExitCheck(t) ==
  /\ threadLock_ = None
  /\ \/ /\ flags[t] = {}
        /\ Step(t, "exit_lock", "finish")
        /\ Acquire(t)
        /\ UNCHANGED back
     \/ /\ flags[t] # {}
        /\ Step(t, "exit_lock", "poll")
        /\ back' = [back EXCEPT ![t] = "exit_lock"]
        /\ UNCHANGED threadLock_
  /\ UNCHANGED <<threads_, suspendNewCount_, pendingThreads_, goal, ret, old, cont>>
  /\ UNCHANGED <<wordVars, lockVars, todo, target, rounds>>

\* UpdateStatus(FINISHED) and its unlock, then the thread is removed and
\* deleted; the main thread stays in the list.
Finish(t) ==
  /\ \/ CallUpdateStatus(t, "finish", "FINISHED", "remove") /\ UNCHANGED listVars
     \/ /\ Step(t, "remove", "gone")
        /\ threads_' = threads_ \ ({t} \ {Main})
        /\ Release(t)
        /\ UNCHANGED <<suspendNewCount_, pendingThreads_, callVars>>
  /\ UNCHANGED <<wordVars, lockVars, todo, target, rounds>>

Life(t) ==
  \/ IncPendingThreads(t) \/ RegisterThread(t) \/ DecPendingThreads(t)
  \/ Destroy(t) \/ ExitCheck(t) \/ Finish(t)

HasNoActiveThreads ==
  Cardinality(threads_) - Cardinality(threads_ \cap Daemons) < 2 /\ pendingThreads_ = 0

\* WaitForDeregistration: first the other threads finish.
WaitForDeregistration ==
  /\ HasNoActiveThreads
  /\ Step(Main, "native", "stop_daemons")
  /\ Acquire(Main)
  /\ todo' = [todo EXCEPT ![Main] = threads_ \cap Daemons]
  /\ UNCHANGED <<threads_, suspendNewCount_, pendingThreads_>>
  /\ UNCHANGED <<wordVars, lockVars, callVars, target, rounds>>

\* StopDaemonThread (its Interrupt ends a wait: WF on WaitEnd).
StopDaemonThread ==
  /\ pc[Main] = "stop_daemons"
  /\ \E u \in todo[Main] :
       /\ flags' = [flags EXCEPT ![u] = @ \cup {RUNTIME_TERMINATION_REQUEST}]
       /\ todo' = [todo EXCEPT ![Main] = @ \ {u}]
  /\ UNCHANGED <<status, suspendCount_, userSuspended>>
  /\ UNCHANGED <<listVars, lockVars, callVars, pc, target, rounds>>

StopDaemonThreads ==
  /\ Step(Main, "stop_daemons", "deregister") /\ todo[Main] = {}
  /\ suspendNewCount_' = suspendNewCount_ + 1
  /\ UNCHANGED <<threads_, threadLock_, pendingThreads_>>
  /\ UNCHANGED <<wordVars, lockVars, callVars, todo, target, rounds>>

CanDeregister(t) == status[t] = "IS_TERMINATED_LOOP"

\* DeregisterSuspendedThreads.  With no monitors in this model a thread is
\* blocked only in NATIVE, where every node of the lock graph terminates.
\* (A status read by it only moves towards the two it waits for.)
Remaining == {t \in threads_ \ {Main} : ~ CanDeregister(t)}
AllBlocked == \A t \in Remaining : status[t] = "NATIVE"

DeregisterSuspendedThreads ==
  /\ pc[Main] = "deregister" /\ threadLock_ = Main
  /\ IF pendingThreads_ = 0 /\ AllBlocked
     THEN threads_' = {Main} /\ pc' = [pc EXCEPT ![Main] = "deregistered"]
     ELSE /\ threads_' = IF pendingThreads_ = 0 THEN Remaining \cup {Main} ELSE threads_
          /\ UNCHANGED pc
  /\ Release(Main)
  /\ UNCHANGED <<suspendNewCount_, pendingThreads_>>
  /\ UNCHANGED <<wordVars, lockVars, callVars, todo, target, rounds>>

\* stopVar_.TimedWait returns with threadLock_ held.
StopWait ==
  /\ pc[Main] = "deregister" /\ Acquire(Main)
  /\ UNCHANGED <<wordVars, threads_, suspendNewCount_, pendingThreads_>>
  /\ UNCHANGED <<lockVars, callVars, pc, todo, target, rounds>>

Shutdown ==
  \/ WaitForDeregistration \/ StopDaemonThread \/ StopDaemonThreads
  \/ DeregisterSuspendedThreads \/ StopWait

\* The program is over: Main is gone and nothing else is left to run.
Terminated ==
  /\ pc[Main] = "gone"
  /\ \A a \in Actors : pc[a] \in {"gone", "dead", "idle", "absent"}
  /\ UNCHANGED vars

OwnCode(t) ==
  \/ ManagedCodeBegin(t) \/ ManagedCodeEnd(t) \/ SafepointPoll(t)
  \/ WaitWithLockHeld(t) \/ WaitEnd(t) \/ SuspendCheck(t)

ThreadStep(t) == Transitions(t) \/ Safepoint(t) \/ OwnCode(t) \/ Inflation(t) \/ Life(t)

Next ==
  \/ \E t \in Threads : ThreadStep(t) \/ DebuggerSuspend(t) \/ DebuggerResume(t)
  \/ \E a \in Actors : Rendezvous(a)
  \/ Shutdown \/ Terminated

Spec == Init /\ [][Next]_vars

\* Every function a thread has entered goes on, a pause ends, and managed code
\* keeps polling (a loop has a safepoint at its back edge).  A poll, a weak
\* compare-exchange and threadLock_, which Main's wait loop takes again and
\* again, are possible repeatedly and not all the time: strong fairness.  A
\* wait ends only by StopDaemonThread's Interrupt; no thread is obliged to
\* leave its own code.
Inside(a) == pc[a] \notin {"idle", "native", "managed", "absent"}
Fairness ==
  /\ \A t \in Threads :
       /\ WF_vars(Transitions(t)) /\ WF_vars(Safepoint(t))
       /\ WF_vars(RUNTIME_TERMINATION_REQUEST \in flags[t] /\ WaitEnd(t))
       /\ WF_vars(Inside(t) /\ SuspendCheck(t))
       /\ SF_vars(\/ CasRunning(t) \/ SafepointPoll(t)
                  \/ Inside(t) /\ (Life(t) \/ Inflation(t) \/ Rendezvous(t)))
  /\ \A c \in Collectors : SF_vars(Inside(c) /\ Rendezvous(c))
  /\ WF_vars(Inside(Main) /\ Shutdown)
FairSpec == Spec /\ Fairness

-----------------------------------------------------------------------------
Labels ==
  {"idle", "native", "managed", "absent", "pending", "registered", "update",
   "store", "unlock", "checked", "load", "readlock", "cas", "poll",
   "poll_suspend", "suspended", "parked", "terminate", "dead", "waiting",
   "waiting_native", "check_unlock", "check_lock", "check_resume",
   "suspend_all", "suspend_each", "writelock", "stopped", "dump",
   "dumped",   "resume_all", "resume_each", "relock", "find_poll", "find", "await",
   "inflate", "signal", "exit", "exit_lock", "finish", "remove", "gone",
   "stop_daemons", "deregister", "deregistered"}

\* The variables have their types; the counters of the code never go below 0.
TypeOK ==
  /\ status \in [Threads -> ThreadStatus]
  /\ flags \in [Threads -> SUBSET {SUSPEND_REQUEST, RUNTIME_TERMINATION_REQUEST}]
  /\ suspendCount_ \in [Threads -> Nat]
  /\ userSuspended \in [Threads -> BOOLEAN]
  /\ threads_ \subseteq Threads /\ threadLock_ \in Actors \cup {None}
  /\ suspendNewCount_ \in Nat /\ pendingThreads_ \in Nat
  /\ readers \subseteq Threads /\ writer \in Actors \cup {None}
  /\ pc \in [Actors -> Labels] /\ cont \in [Actors -> Labels]
  /\ goal \in [Threads -> ThreadStatus] /\ old \in [Threads -> ThreadStatus]
  /\ ret \in [Threads -> Labels] /\ back \in [Threads -> Labels]
  /\ todo \in [Actors -> SUBSET Threads]
  /\ target \in [Threads -> Threads \cup {None}]
  /\ rounds \in 0 .. MaxRounds

\* Where a thread may touch managed objects.
Mutating(t) == pc[t] \in {"managed", "inflate", "signal", "exit_lock", "finish"}

\* Rendezvous: from WriteLock to SafepointEnd no thread touches managed
\* objects, a thread that is just entering or leaving managed code included.
StopTheWorld == writer # None => \A t \in Threads : ~ Mutating(t)

\* Between SuspendAllThreads and ResumeAllThreads no thread becomes RUNNING,
\* not one registered meanwhile, one whose StoreStatus already saw clear
\* flags, or one that another pause is resuming.
Pausing(a) == pc[a] \in {"writelock", "stopped", "dump", "dumped", "resume_all"}
NoneStartsRunning ==
  [][\A a \in Actors, t \in Threads :
       /\ Pausing(a) /\ t # a /\ status[t] # "RUNNING"
       => status'[t] # "RUNNING"]_vars

\* suspendCount_ is the number of suspensions someone still has to take back:
\* pauses, inflations, the debugger, SuspendCheck and, for a thread registered
\* after StopDaemonThreads, the one nobody takes back.  The request flag is
\* set exactly while it is positive (the assertion of WaitSuspension).
SuspendedBy(a) ==
  CASE pc[a] = "suspend_each" -> threads_ \ ({a} \cup todo[a])
    [] Pausing(a)             -> threads_ \ {a}
    [] pc[a] = "resume_each"  -> todo[a]
    [] OTHER                  -> {}
OwnsTarget(t) == pc[t] \in {"await", "inflate"} \/ "inflate" \in {ret[t], cont[t]}
Late(t) == t # Main /\ RUNTIME_TERMINATION_REQUEST \notin flags[t]
One(b) == IF b THEN 1 ELSE 0
CountsAgree ==
  \A t \in threads_ :
    /\ suspendCount_[t] =
         Cardinality({a \in Actors : t \in SuspendedBy(a)})
         + Cardinality({r \in Threads : OwnsTarget(r) /\ target[r] = t})
         + One(userSuspended[t])
         + One(pc[t] \in {"check_unlock", "check_lock", "check_resume"})
         + One(pc[Main] = "deregister" /\ Late(t))
    /\ SUSPEND_REQUEST \in flags[t] <=> suspendCount_[t] > 0

\* InflateThinLock: the owner it got from SuspendAndWaitThreadByInternalThreadId
\* is not running while its lock word is rewritten, and has not been deleted
\* (UnregisterExitedThread) when it is resumed.
OwnerParked ==
  \A t \in Threads :
    /\ pc[t] = "inflate" => status[target[t]] # "RUNNING"
    /\ OwnsTarget(t) \/ pc[t] = "signal" => target[t] = Main \/ pc[target[t]] # "gone"

\* A thread the thread manager gave up in DeregisterSuspendedThreads never
\* runs managed code again: the runtime under it is being destroyed.
Deregistered(t) ==
  t \notin threads_ /\ pc[t] \notin {"absent", "pending", "gone"}
DeregisteredNeverRuns ==
  \A t \in Threads : Deregistered(t) => status[t] # "RUNNING" /\ ~ Mutating(t)

\* A requested pause happens: SuspendAllThreads gets every thread to leave the
\* mutator lock, whatever the threads do and whoever else stops the world.
PauseHappens == \A a \in Actors : pc[a] = "suspend_all" ~> pc[a] = "stopped"

\* InflateThinLock enters the termination loop from the safepoint before line
\* 122 without taking the owner's suspension back.  The two properties below
\* are about runs in which no inflator ends that way.
NoneAbandoned == [](\A t \in Threads : pc[t] = "dead" => ~ OwnsTarget(t))

\* InflateThinLock comes back: two threads that inflate each other's monitors
\* do not wait for each other, and the owner reaches a safepoint.
InflationEnds ==
  NoneAbandoned => \A t \in Threads : pc[t] = "find" ~> pc[t] \in {"managed", "dead"}

\* No thread is created in time to be registered after StopDaemonThreads: it would
\* be suspended with the others (mt_thread_manager.cpp:197), and nobody resumes it
\* or tells it to terminate.  OtherStatusesEnd is false without this condition.
NoneLate == [](\A t \in Threads : pc[t] = "pending" => pc[Main] # "deregister")

\* Once WaitForDeregistration stops the daemon threads the shutdown finishes: each
\* of them ends in its termination loop, blocked in native code or finished,
\* wherever in its code it was and whatever it was suspended for.
ShutdownCompletes ==
  NoneAbandoned /\ NoneLate => (pc[Main] = "stop_daemons" ~> pc[Main] = "gone")

\* thread_manager.h, CanDeregister: threads in "other statuses - should
\* eventually go to IS_TERMINATED_LOOP or FINISHED status".
OtherStatusesEnd ==
  \A t \in Threads :
    pc[Main] = "deregister" /\ t \in threads_ /\ status[t] = "IS_SUSPENDED"
      ~> status[t] \in {"IS_TERMINATED_LOOP", "FINISHED"}
=============================================================================
