-------------------------- MODULE SuspensionProofs --------------------------
(***************************************************************************)
(* Proofs, for any sets of threads, collectors, inflators and stoppers, of *)
(* the safety properties of module Suspension.  The inductive invariant    *)
(* has four layers.  Control says with which status a thread stands at     *)
(* each label and at each label it will return to.  Locks says who is in   *)
(* the mutator lock and in threadLock_.  Membership says who is in the     *)
(* thread list and how far the shutdown is.  Counting is CountsAgree with  *)
(* what it needs of suspendNewCount_ and pendingThreads_; on it rests that *)
(* a thread someone suspends cannot pass the compare-exchange to RUNNING.  *)
(***************************************************************************)
EXTENDS Suspension, TLAPS, FiniteSetTheorems

Pauses == {"suspend_all", "suspend_each", "writelock", "stopped", "dump", "dumped",
           "resume_all", "resume_each"}
Managed == {"managed", "inflate", "exit_lock"}  \* where a transition to RUNNING ends
Calls == {"update", "store", "unlock"}

\* A thread at label l, or about to return to it, has status s.
StatusFits(l, s) ==
  /\ l \in Managed \cup {"signal", "finish", "check_unlock", "check_lock",
                         "check_resume", "relock"} => s = "RUNNING"
  /\ l \in {"native", "checked", "stop_daemons", "deregister", "deregistered"}
       => s = "NATIVE"
  /\ l \in {"waiting", "waiting_native"} => s = "IS_WAITING"
  /\ l \in {"suspended", "parked"} => s = "IS_SUSPENDED"
  /\ l \in {"find_poll", "find", "await"} => s = "IS_WAITING_INFLATION"
  /\ l \in {"absent", "pending", "registered"} => s = "CREATED"
  /\ l = "exit" => s = "TERMINATING"
  /\ l \in {"remove", "gone"} => s = "FINISHED"
  /\ l \in {"load", "readlock", "cas", "unlock", "dead"} => s # "RUNNING"

\* The UpdateStatus in progress.
CallFits(t) ==
  /\ pc[t] \in Calls \cup {"checked"} =>
       /\ ret[t] \in Managed \cup {"native", "waiting", "waiting_native", "suspended",
                                   "dead", "find_poll", "find", "exit", "remove", "load"}
       /\ StatusFits(ret[t], goal[t])
       /\ status[t] = "RUNNING" \/ pc[t] = "store" => goal[t] # "RUNNING"
       /\ ret[t] = "load" => cont[t] \in Managed
       /\ ret[t] = "remove" /\ pc[t] # "unlock" => status[t] = "RUNNING"
  /\ pc[t] = "unlock" => status[t] = goal[t]
  /\ pc[t] = "checked" => RUNTIME_TERMINATION_REQUEST \in flags[t]
  /\ pc[t] \in {"load", "readlock", "cas"} => cont[t] \in Managed

\* The SafepointPoll in progress.
Polling(t) == pc[t] \in {"poll", "poll_suspend"}
Suspending(t) ==
  pc[t] \in {"suspended", "parked"} \/ (pc[t] \in Calls /\ ret[t] = "suspended")
PollFits(t) ==
  /\ Polling(t) =>
       /\ back[t] \in {"managed", "exit_lock", "find", "load", "checked"}
       /\ StatusFits(back[t], status[t])
       /\ back[t] = "load" => cont[t] \in Managed
       /\ back[t] = "checked" => pc[t] = "poll" /\ RUNTIME_TERMINATION_REQUEST \in flags[t]
  /\ Suspending(t) =>
       /\ back[t] \in {"managed", "exit_lock", "find", "load"}
       /\ StatusFits(back[t], old[t])
       /\ back[t] = "load" => cont[t] \in Managed

\* The pause in progress, of a thread and of a collector.
PauseFits(t) ==
  /\ pc[t] # "idle"
  /\ pc[t] \in Pauses => \/ cont[t] = "native" /\ status[t] = "NATIVE"
                         \/ cont[t] = "managed" /\ status[t] = "RUNNING"
CollectorFits(c) ==
  /\ pc[c] \in Pauses \cup {"idle"}
  /\ pc[c] \in Pauses => cont[c] = "idle"

Stopped == {"IS_WAITING_INFLATION", "IS_SUSPENDED", "IS_TERMINATED_LOOP"}

\* The inflation in progress: a thread that owes its target a resumption is
\* waiting for it, returning from that wait, or ended in the termination loop.
InflationFits(t) ==
  /\ target[t] # t
  /\ OwnsTarget(t) \/ pc[t] = "signal" => target[t] \in Threads
  /\ "inflate" \in {ret[t], cont[t]} =>
       /\ status[t] \in Stopped
       /\ \/ pc[t] = "update" /\ goal[t] = "RUNNING" /\ ret[t] = "inflate"
          \/ /\ cont[t] = "inflate"
             /\ Suspending(t) => old[t] \in Stopped
             /\ pc[t] \in Calls => goal[t] \in Stopped
             /\ \/ pc[t] \in {"load", "readlock", "cas", "terminate", "dead"}
                \/ /\ Polling(t) \/ Suspending(t)
                   /\ back[t] = "load"
                \/ pc[t] \in Calls /\ ret[t] \in {"load", "dead"}

ThreadFits(t) ==
  /\ StatusFits(pc[t], status[t]) /\ CallFits(t) /\ PollFits(t)
  /\ PauseFits(t) /\ InflationFits(t)
  /\ pc[t] \in {"stop_daemons", "deregister", "deregistered"} => t = Main

Control ==
  /\ \A t \in Threads : ThreadFits(t)
  /\ \A c \in Collectors : CollectorFits(c)

\* Who is in the mutator lock.
Reading(t) ==
  \/ pc[t] \in Managed \cup {"signal", "finish", "check_unlock", "check_resume", "cas",
                             "unlock"}
  \/ pc[t] \in {"update", "store", "poll", "poll_suspend", "terminate"}
     /\ status[t] = "RUNNING"
MutatorLock ==
  /\ \A t \in Threads : t \in readers <=> Reading(t)
  /\ \A a \in Actors : pc[a] \in {"stopped", "dump", "dumped"} <=> writer = a
  /\ writer # None => readers = {}

\* Who is in threadLock_.
Finishing(t) ==
  \/ pc[t] \in {"finish", "remove"}
  \/ pc[t] \in Calls \cup {"checked"} /\ ret[t] = "remove"
InThreadLock(a) ==
  \/ pc[a] \in {"suspend_each", "resume_each", "dump", "signal", "stop_daemons"}
  \/ a \in Threads /\ Finishing(a)
ThreadLock == \A a \in Actors : InThreadLock(a) => threadLock_ = a

\* A thread that has passed DeregisterSuspendedThreads or is in Destroy.
Exiting(t) ==
  \/ pc[t] \in {"deregistered", "exit", "exit_lock", "finish", "remove", "gone"}
  \/ pc[t] \in Calls \cup {"checked"} /\ ret[t] \in {"exit", "exit_lock", "remove"}
  \/ pc[t] \in {"load", "readlock", "cas"} /\ cont[t] = "exit_lock"
  \/ pc[t] \in Calls /\ ret[t] = "load" /\ cont[t] = "exit_lock"
  \/ /\ Polling(t) \/ Suspending(t)
     /\ back[t] = "exit_lock" \/ (back[t] = "load" /\ cont[t] = "exit_lock")

InflatorsOf(t) == {r \in Threads : OwnsTarget(r) /\ target[r] = t}

\* The thread list: who is in it, and who may still be somebody's target.
Members ==
  /\ Main \in threads_ /\ RUNTIME_TERMINATION_REQUEST \notin flags[Main]
  /\ \A t \in Threads :
       /\ pc[t] \in {"absent", "pending"} =>
            /\ t \notin threads_ /\ t # Main
            /\ flags[t] = {} /\ suspendCount_[t] = 0 /\ ~userSuspended[t]
       /\ pc[t] = "gone" /\ t # Main => t \notin threads_
Targets ==
  \A t \in Threads :
    /\ OwnsTarget(t) \/ pc[t] = "signal" => pc[target[t]] \notin {"absent", "pending"}
    /\ Finishing(t) => InflatorsOf(t) = {}

\* An enumeration under threadLock_ visits threads of the list.
Enumerating ==
  /\ \A a \in Actors :
       pc[a] \in {"suspend_each", "resume_each"} => todo[a] \subseteq threads_ \ {a}
  /\ pc[Main] = "stop_daemons" =>
       /\ todo[Main] \subseteq threads_ \ {Main}
       /\ \A t \in threads_ \ {Main} :
            t \in todo[Main] \/ RUNTIME_TERMINATION_REQUEST \in flags[t]

\* After DeregisterSuspendedThreads the main thread is alone.
Alone == Exiting(Main) => threads_ = {Main} /\ pendingThreads_ = 0
Membership == Members /\ Targets /\ Enumerating /\ Alone

\* A thread the manager gave up keeps a request for ever.
GivenUp ==
  \A t \in Threads : Deregistered(t) =>
    /\ status[t] # "RUNNING"
    /\ \/ RUNTIME_TERMINATION_REQUEST \in flags[t]
       \/ /\ SUSPEND_REQUEST \in flags[t]
          /\ suspendCount_[t] > Cardinality(InflatorsOf(t))

PausersOf(t) == {a \in Actors : t \in SuspendedBy(a)}
Checking(t) == pc[t] \in {"check_unlock", "check_lock", "check_resume"}
Pausers == {a \in Actors : Pausing(a)}
Pending == {t \in Threads : pc[t] \in {"pending", "registered"}}
NewCounts ==
  /\ Exiting(Main) \/ suspendNewCount_ = Cardinality(Pausers) + One(pc[Main] = "deregister")
  /\ pendingThreads_ = Cardinality(Pending)

\* Once AwaitSuspended saw the owner stopped it stays so.
OwnerStopped ==
  \A t \in Threads : /\ OwnsTarget(t) /\ pc[t] # "await" => status[target[t]] # "RUNNING"
                     /\ OwnsTarget(t) \/ pc[t] = "signal"
                          => target[t] = Main \/ pc[target[t]] # "gone"

IInv ==
  /\ TypeOK /\ Control /\ MutatorLock /\ ThreadLock
  /\ Membership /\ GivenUp /\ NewCounts /\ CountsAgree /\ OwnerStopped

-----------------------------------------------------------------------------
(* A step of one thread, or of a collector, seen from the others.          *)
SameThread(u) ==
  /\ pc'[u] = pc[u] /\ status'[u] = status[u] /\ goal'[u] = goal[u] /\ ret'[u] = ret[u]
  /\ old'[u] = old[u] /\ back'[u] = back[u] /\ cont'[u] = cont[u] /\ target'[u] = target[u]
  /\ RUNTIME_TERMINATION_REQUEST \in flags[u] => RUNTIME_TERMINATION_REQUEST \in flags'[u]
SameCollectors == \A c \in Collectors : pc'[c] = pc[c] /\ cont'[c] = cont[c]

(* An actor is a thread or a collector, never both and never None. *)
LEMMA ActorKinds ==
  /\ \A t \in Threads : t \in Actors /\ t \notin Collectors /\ t # None
  /\ \A c \in Collectors : c \in Actors /\ c \notin Threads /\ c # None
  /\ \A a \in Actors : a \in Threads \/ a \in Collectors
BY SuspensionAssumption DEF Actors

(* No step of a thread's own touches the registers of another thread. *)
LEMMA ThreadStepIsLocal ==
  ASSUME TypeOK, NEW t \in Threads, ThreadStep(t)
  PROVE  /\ \A u \in Threads \ {t} : SameThread(u)
         /\ SameCollectors
<1> USE ActorKinds DEF SameThread, SameCollectors, TypeOK, Step, callVars
<1>1. CASE Transitions(t)
  BY <1>1 DEF Transitions, UpdateStatus, StoreStatus, TransitionUnlock, StoreStatusChecked,
     LoadFts, ReadLock, CasRunning, CasRunningFail, wordVars, Fresh
<1>2. CASE Safepoint(t)
  BY <1>2 DEF Safepoint, Poll, PollSuspend, WaitSuspension, Suspended, Parked,
     TerminationLoop, CallUpdateStatus, wordVars
<1>3. CASE OwnCode(t)
  BY <1>3 DEF OwnCode, ManagedCodeBegin, ManagedCodeEnd, SafepointPoll, WaitWithLockHeld,
     WaitEnd, SuspendCheck, CallUpdateStatus, wordVars, Increment, Decrement
<1>4. CASE Inflation(t)
  BY SMTT(30), <1>4 DEF Inflation, InflateThinLock, FindPoll, FindThread, AwaitSuspended, ResumeOwner,
     CallUpdateStatus, wordVars, Increment, Decrement, SUSPEND_REQUEST,
     RUNTIME_TERMINATION_REQUEST
<1>5. CASE Life(t)
  BY <1>5 DEF Life, IncPendingThreads, RegisterThread, DecPendingThreads, Destroy, ExitCheck,
     Finish, CallUpdateStatus, wordVars
<1> QED
  BY <1>1, <1>2, <1>3, <1>4, <1>5 DEF ThreadStep

(* Nor does a step of a pause touch the registers of another actor. *)
LEMMA RendezvousIsLocal ==
  ASSUME TypeOK, NEW a \in Actors, Rendezvous(a)
  PROVE  /\ \A u \in Threads \ {a} : SameThread(u)
         /\ \A c \in Collectors \ {a} : pc'[c] = pc[c] /\ cont'[c] = cont[c]
BY ActorKinds
   DEF Rendezvous, SafepointBegin, SuspendAllThreads, SuspendEach, SuspendedAll, WriteLock,
       DumpThreads, SafepointEnd, ResumeAllThreads, ResumeEach, ResumedAll, RelockRunning,
       SameThread, TypeOK, Step, callVars, wordVars, Increment, Decrement, SUSPEND_REQUEST,
       RUNTIME_TERMINATION_REQUEST

(* Nor does the shutdown, and the debugger moves nobody. *)
LEMMA ShutdownIsLocal ==
  ASSUME TypeOK, Shutdown
  PROVE  (\A u \in Threads \ {Main} : SameThread(u)) /\ SameCollectors
BY ActorKinds, SuspensionAssumption
   DEF Shutdown, WaitForDeregistration, StopDaemonThread, StopDaemonThreads,
       DeregisterSuspendedThreads, StopWait, SameThread, SameCollectors, TypeOK, Step,
       callVars, wordVars

LEMMA DebuggerIsLocal ==
  ASSUME TypeOK, NEW t \in Threads, DebuggerSuspend(t) \/ DebuggerResume(t)
  PROVE  (\A u \in Threads : SameThread(u)) /\ SameCollectors
BY ActorKinds
   DEF DebuggerSuspend, DebuggerResume, SameThread, SameCollectors, TypeOK, callVars,
       Increment, Decrement, SUSPEND_REQUEST, RUNTIME_TERMINATION_REQUEST

-----------------------------------------------------------------------------
(* A thread that DecPendingThreads is about to count out was counted in. *)
LEMMA PendingIsCounted ==
  ASSUME TypeOK, NewCounts, NEW t \in Threads, pc[t] \in {"pending", "registered"}
  PROVE  pendingThreads_ > 0
<1>1. IsFiniteSet(Pending)
  BY SuspensionAssumption, FS_Subset DEF Pending
<1>2. t \in Pending
  BY DEF Pending
<1>3. Cardinality(Pending) \in Nat /\ Cardinality(Pending) # 0
  BY <1>1, <1>2, FS_CardinalityType, FS_EmptySet
<1> QED
  BY <1>3 DEF NewCounts

(* The labels and statuses the actions name, one by one. *)
LEMMA Names ==
  /\ "idle" \in Labels /\ "native" \in Labels /\ "managed" \in Labels
  /\ "absent" \in Labels /\ "pending" \in Labels /\ "registered" \in Labels
  /\ "update" \in Labels /\ "store" \in Labels /\ "unlock" \in Labels
  /\ "checked" \in Labels /\ "load" \in Labels /\ "readlock" \in Labels
  /\ "cas" \in Labels /\ "poll" \in Labels /\ "poll_suspend" \in Labels
  /\ "suspended" \in Labels /\ "parked" \in Labels /\ "terminate" \in Labels
  /\ "dead" \in Labels /\ "waiting" \in Labels /\ "waiting_native" \in Labels
  /\ "check_unlock" \in Labels /\ "check_lock" \in Labels /\ "check_resume" \in Labels
  /\ "suspend_all" \in Labels /\ "suspend_each" \in Labels /\ "writelock" \in Labels
  /\ "stopped" \in Labels /\ "dump" \in Labels /\ "dumped" \in Labels
  /\ "resume_all" \in Labels /\ "resume_each" \in Labels /\ "relock" \in Labels
  /\ "find_poll" \in Labels /\ "find" \in Labels /\ "await" \in Labels
  /\ "inflate" \in Labels /\ "signal" \in Labels /\ "exit" \in Labels
  /\ "exit_lock" \in Labels /\ "finish" \in Labels /\ "remove" \in Labels
  /\ "gone" \in Labels /\ "stop_daemons" \in Labels /\ "deregister" \in Labels
  /\ "deregistered" \in Labels
  /\ "CREATED" \in ThreadStatus /\ "RUNNING" \in ThreadStatus
  /\ "IS_WAITING" \in ThreadStatus /\ "IS_SUSPENDED" \in ThreadStatus
  /\ "IS_WAITING_INFLATION" \in ThreadStatus /\ "IS_TERMINATED_LOOP" \in ThreadStatus
  /\ "NATIVE" \in ThreadStatus /\ "TERMINATING" \in ThreadStatus
  /\ "FINISHED" \in ThreadStatus
BY DEF Labels, ThreadStatus

(* The type invariant survives every step; the only conjunct that needs more *)
(* than types is pendingThreads_, which DecPendingThreads decrements.        *)
LEMMA TypeNext ==
  ASSUME TypeOK, Control, NewCounts, [Next]_vars
  PROVE  TypeOK'
<1> USE SuspensionAssumption DEF TypeOK, Step, callVars, wordVars, listVars, lockVars
<1>1. ASSUME NEW t \in Threads, Transitions(t) PROVE TypeOK'
  <2>1. CASE UpdateStatus(t) \/ LoadFts(t) \/ ReadLock(t) \/ CasRunningFail(t)
    BY <2>1, ActorKinds, Names DEF UpdateStatus, LoadFts, ReadLock, CasRunningFail
  <2>2. CASE StoreStatus(t) \/ TransitionUnlock(t) \/ StoreStatusChecked(t)
    BY SMTT(30), <2>2, ActorKinds, Names DEF StoreStatus, TransitionUnlock, StoreStatusChecked
  <2>3. CASE CasRunning(t)
    BY <2>3, ActorKinds, Names DEF CasRunning, Fresh
  <2> QED
    BY <1>1, <2>1, <2>2, <2>3 DEF Transitions
<1>2. ASSUME NEW t \in Threads, Safepoint(t) PROVE TypeOK'
  <2>1. CASE Poll(t) \/ PollSuspend(t)
    BY <2>1, ActorKinds, Names DEF Poll, PollSuspend, CallUpdateStatus
  <2>2. CASE Suspended(t) \/ Parked(t)
    BY <2>2, ActorKinds, Names DEF Suspended, Parked, CallUpdateStatus
  <2>3. CASE TerminationLoop(t)
    BY <2>3, ActorKinds, Names DEF TerminationLoop, CallUpdateStatus
  <2> QED
    BY <1>2, <2>1, <2>2, <2>3 DEF Safepoint, WaitSuspension
<1>3. ASSUME NEW t \in Threads, OwnCode(t) PROVE TypeOK'
  <2>1. CASE ManagedCodeBegin(t) \/ ManagedCodeEnd(t) \/ SafepointPoll(t)
    BY <2>1, ActorKinds, Names
       DEF ManagedCodeBegin, ManagedCodeEnd, SafepointPoll, CallUpdateStatus
  <2>2. CASE WaitWithLockHeld(t) \/ WaitEnd(t)
    BY <2>2, ActorKinds, Names DEF WaitWithLockHeld, WaitEnd, CallUpdateStatus
  <2>3. CASE SuspendCheck(t)
    BY <2>3, ActorKinds, Names DEF SuspendCheck, CallUpdateStatus, Increment, Decrement
  <2> QED
    BY <1>3, <2>1, <2>2, <2>3 DEF OwnCode
<1>4. ASSUME NEW t \in Threads, Inflation(t) PROVE TypeOK'
  <2>1. CASE InflateThinLock(t) \/ FindPoll(t)
    BY <2>1, ActorKinds, Names DEF InflateThinLock, FindPoll, CallUpdateStatus
  <2>2. CASE FindThread(t)
    BY <2>2, ActorKinds, Names
       DEF FindThread, CallUpdateStatus, Increment, Acquire, Release
  <2>3. CASE AwaitSuspended(t) \/ ResumeOwner(t)
    BY <2>3, ActorKinds, Names
       DEF AwaitSuspended, ResumeOwner, CallUpdateStatus, Decrement, Acquire, Release
  <2> QED
    BY <1>4, <2>1, <2>2, <2>3 DEF Inflation
<1>5. ASSUME NEW t \in Threads, Life(t) PROVE TypeOK'
  <2>1. CASE IncPendingThreads(t) \/ RegisterThread(t)
    BY <2>1, ActorKinds, Names DEF IncPendingThreads, RegisterThread, Acquire, Release
  <2>2. CASE DecPendingThreads(t)
    BY <2>2, ActorKinds, Names, PendingIsCounted
       DEF DecPendingThreads, CallUpdateStatus, Acquire, Release
  <2>3. CASE Destroy(t) \/ ExitCheck(t)
    BY <2>3, ActorKinds, Names DEF Destroy, ExitCheck, CallUpdateStatus, Acquire, Release
  <2>4. CASE Finish(t)
    BY <2>4, ActorKinds, Names DEF Finish, CallUpdateStatus, Acquire, Release
  <2> QED
    BY <1>5, <2>1, <2>2, <2>3, <2>4 DEF Life
<1>6. ASSUME NEW t \in Threads, DebuggerSuspend(t) \/ DebuggerResume(t) PROVE TypeOK'
  <2>1. /\ suspendCount_' \in [Threads -> Nat]
        /\ flags' \in [Threads -> SUBSET {SUSPEND_REQUEST, RUNTIME_TERMINATION_REQUEST}]
    BY <1>6 DEF DebuggerSuspend, DebuggerResume, Increment, Decrement
  <2>2. userSuspended' \in [Threads -> BOOLEAN]
    BY <1>6 DEF DebuggerSuspend, DebuggerResume
  <2> QED
    BY <1>6, <2>1, <2>2 DEF DebuggerSuspend, DebuggerResume
<1>7. ASSUME NEW a \in Actors, Rendezvous(a) PROVE TypeOK'
  <2>1. CASE SafepointBegin(a) \/ SuspendAllThreads(a) \/ SuspendedAll(a) \/ WriteLock(a)
    BY <2>1, ActorKinds, Names
       DEF SafepointBegin, SuspendAllThreads, SuspendedAll, WriteLock, Acquire, Release
  <2>2. CASE DumpThreads(a) \/ SafepointEnd(a) \/ ResumeAllThreads(a)
    BY <2>2, ActorKinds, Names
       DEF DumpThreads, SafepointEnd, ResumeAllThreads, Acquire, Release
  <2>3. CASE SuspendEach(a) \/ ResumeEach(a)
    BY SMTT(30), <2>3, ActorKinds DEF SuspendEach, ResumeEach, Increment, Decrement
  <2>4. CASE ResumedAll(a) \/ RelockRunning(a)
    <3>1. CASE a \in Threads
      BY SMTT(30), <2>4, <3>1, ActorKinds, Names DEF ResumedAll, RelockRunning, Release
    <3>2. CASE a \in Collectors
      <4>1. pc[a] # "relock"
        BY <3>2 DEF Control, CollectorFits, Pauses
      <4> QED
        BY <2>4, <4>1, ActorKinds, Names DEF ResumedAll, RelockRunning, Release
    <3> QED
      BY <3>1, <3>2, ActorKinds
  <2> QED
    BY <1>7, <2>1, <2>2, <2>3, <2>4 DEF Rendezvous
<1>8. CASE Shutdown
  <2>1. CASE WaitForDeregistration
    BY <2>1, ActorKinds, Names DEF WaitForDeregistration, Remaining, Acquire, Release
  <2>2. CASE StopDaemonThread \/ StopDaemonThreads
    BY SMTT(30), <2>2, ActorKinds, Names DEF StopDaemonThread, StopDaemonThreads, Acquire, Release
  <2>3. CASE DeregisterSuspendedThreads
    BY <2>3, ActorKinds, Names DEF DeregisterSuspendedThreads, Remaining, Acquire, Release
  <2>4. CASE StopWait
    BY <2>4, ActorKinds, Names DEF StopWait, Acquire, Release
  <2> QED
    BY <1>8, <2>1, <2>2, <2>3, <2>4 DEF Shutdown
<1>9. CASE UNCHANGED vars
  BY <1>9 DEF vars
<1> QED
  BY <1>1, <1>2, <1>3, <1>4, <1>5, <1>6, <1>7, <1>8, <1>9 DEF Next, ThreadStep, Terminated

-----------------------------------------------------------------------------
(* A thread whose registers did not change still fits. *)
LEMMA FitsFrame ==
  ASSUME NEW u \in Threads, ThreadFits(u), SameThread(u)
  PROVE  ThreadFits(u)'
BY DEF ThreadFits, SameThread, StatusFits, CallFits, PollFits, Polling, Suspending,
       PauseFits, InflationFits, OwnsTarget

(* The registers of a thread that takes a step fit again after it. *)
LEMMA StepFits ==
  ASSUME TypeOK, NEW t \in Threads, ThreadFits(t), ThreadStep(t)
  PROVE  ThreadFits(t)'
<1> USE ActorKinds, SuspensionAssumption
    DEF TypeOK, Step, callVars, wordVars, ThreadFits, StatusFits, CallFits, PollFits, Polling,
        Suspending, PauseFits, InflationFits, OwnsTarget, Managed, Calls, Pauses, Stopped
<1>1. CASE Transitions(t)
  <2>1. CASE UpdateStatus(t)
    <3>1. CASE status[t] # "RUNNING" /\ goal[t] = "RUNNING"
      BY <2>1, <3>1 DEF UpdateStatus
    <3>2. CASE /\ ~(status[t] # "RUNNING" /\ goal[t] = "RUNNING")
               /\ status[t] = "NATIVE" /\ goal[t] # "IS_TERMINATED_LOOP"
               /\ RUNTIME_TERMINATION_REQUEST \in flags[t]
      BY <2>1, <3>2 DEF UpdateStatus
    <3>3. CASE /\ ~(status[t] # "RUNNING" /\ goal[t] = "RUNNING")
               /\ ~ /\ status[t] = "NATIVE" /\ goal[t] # "IS_TERMINATED_LOOP"
                    /\ RUNTIME_TERMINATION_REQUEST \in flags[t]
      BY <2>1, <3>3 DEF UpdateStatus
    <3> QED
      BY <3>1, <3>2, <3>3
  <2>2. CASE StoreStatus(t)
    BY <2>2 DEF StoreStatus
  <2>3. CASE TransitionUnlock(t)
    BY <2>3 DEF TransitionUnlock
  <2>4. CASE StoreStatusChecked(t)
    BY <2>4 DEF StoreStatusChecked
  <2>5. CASE LoadFts(t)
    BY <2>5 DEF LoadFts
  <2>6. CASE ReadLock(t)
    BY <2>6 DEF ReadLock
  <2>7. CASE CasRunning(t)
    BY <2>7 DEF CasRunning, Fresh
  <2>8. CASE CasRunningFail(t)
    BY SMTT(30), <2>8 DEF CasRunningFail
  <2> QED
    BY <1>1, <2>1, <2>2, <2>3, <2>4, <2>5, <2>6, <2>7, <2>8 DEF Transitions
<1>2. CASE Safepoint(t)
  <2> USE DEF CallUpdateStatus
  <2>1. CASE Poll(t)
    BY <2>1 DEF Poll
  <2>2. CASE PollSuspend(t)
    BY <2>2 DEF PollSuspend
  <2>3. CASE Suspended(t)
    BY <2>3 DEF Suspended
  <2>4. CASE Parked(t)
    BY <2>4 DEF Parked
  <2>5. CASE TerminationLoop(t)
    BY SMTT(30), <2>5 DEF TerminationLoop
  <2> QED
    BY <1>2, <2>1, <2>2, <2>3, <2>4, <2>5 DEF Safepoint, WaitSuspension
<1>3. CASE OwnCode(t)
  <2> USE DEF CallUpdateStatus
  <2>1. CASE ManagedCodeBegin(t)
    BY <2>1 DEF ManagedCodeBegin
  <2>2. CASE ManagedCodeEnd(t)
    BY <2>2 DEF ManagedCodeEnd
  <2>3. CASE SafepointPoll(t)
    BY <2>3 DEF SafepointPoll
  <2>4. CASE WaitWithLockHeld(t)
    BY <2>4 DEF WaitWithLockHeld
  <2>5. CASE WaitEnd(t)
    BY <2>5 DEF WaitEnd
  <2>6. CASE SuspendCheck(t)
    BY SMTT(30), <2>6 DEF SuspendCheck
  <2> QED
    BY <1>3, <2>1, <2>2, <2>3, <2>4, <2>5, <2>6 DEF OwnCode
<1>4. CASE Inflation(t)
  <2> USE DEF CallUpdateStatus
  <2>1. CASE InflateThinLock(t)
    BY <2>1 DEF InflateThinLock
  <2>2. CASE FindPoll(t)
    BY <2>2 DEF FindPoll
  <2>3. CASE FindThread(t)
    BY <2>3 DEF FindThread
  <2>4. CASE AwaitSuspended(t)
    BY <2>4 DEF AwaitSuspended
  <2>5. CASE ResumeOwner(t)
    BY SMTT(30), <2>5 DEF ResumeOwner
  <2> QED
    BY <1>4, <2>1, <2>2, <2>3, <2>4, <2>5 DEF Inflation
<1>5. CASE Life(t)
  <2> USE DEF CallUpdateStatus
  <2>1. CASE IncPendingThreads(t)
    BY <2>1 DEF IncPendingThreads
  <2>2. CASE RegisterThread(t)
    BY <2>2 DEF RegisterThread
  <2>3. CASE DecPendingThreads(t)
    BY <2>3 DEF DecPendingThreads
  <2>4. CASE Destroy(t)
    BY <2>4 DEF Destroy
  <2>5. CASE ExitCheck(t)
    BY <2>5 DEF ExitCheck
  <2>6. CASE Finish(t)
    BY <2>6 DEF Finish
  <2> QED
    BY <1>5, <2>1, <2>2, <2>3, <2>4, <2>5, <2>6 DEF Life
<1> QED
  BY SMTT(30), <1>1, <1>2, <1>3, <1>4, <1>5 DEF ThreadStep

(* So do the registers of an actor that takes a step of a pause. *)
LEMMA PauseStepFits ==
  ASSUME TypeOK, Control, NEW a \in Actors, Rendezvous(a)
  PROVE  /\ a \in Threads => ThreadFits(a)'
         /\ a \in Collectors => CollectorFits(a)'
<1>1. CASE a \in Threads
  <2>1. ThreadFits(a)
    BY <1>1 DEF Control
  <2> USE <1>1, <2>1, ActorKinds, SuspensionAssumption
      DEF TypeOK, Step, callVars, wordVars, ThreadFits, StatusFits, CallFits, PollFits,
          Polling, Suspending, PauseFits, InflationFits, OwnsTarget, Managed, Calls, Pauses,
          Stopped
  <2>2. CASE SafepointBegin(a)
    BY <2>2 DEF SafepointBegin
  <2>3. CASE SuspendAllThreads(a) \/ SuspendEach(a) \/ SuspendedAll(a) \/ WriteLock(a)
    BY <2>3 DEF SuspendAllThreads, SuspendEach, SuspendedAll, WriteLock, Increment
  <2>4. CASE DumpThreads(a) \/ SafepointEnd(a) \/ ResumeAllThreads(a) \/ ResumeEach(a)
    BY <2>4 DEF DumpThreads, SafepointEnd, ResumeAllThreads, ResumeEach, Decrement
  <2>5. CASE ResumedAll(a)
    BY <2>5 DEF ResumedAll
  <2>6. CASE RelockRunning(a)
    BY SMTT(30), <2>6 DEF RelockRunning
  <2>7. ThreadFits(a)'
    BY <2>2, <2>3, <2>4, <2>5, <2>6 DEF Rendezvous
  <2> QED
    BY <2>7
<1>2. CASE a \in Collectors
  <2>1. CollectorFits(a)
    BY <1>2 DEF Control
  <2>2. CollectorFits(a)'
    BY <1>2, <2>1, ActorKinds
       DEF Rendezvous, SafepointBegin, SuspendAllThreads, SuspendEach, SuspendedAll,
           WriteLock, DumpThreads, SafepointEnd, ResumeAllThreads, ResumeEach, ResumedAll,
           RelockRunning, TypeOK, Step, callVars, CollectorFits, Pauses
  <2> QED
    BY <1>2, <2>2, ActorKinds
<1> QED
  BY <1>1, <1>2, ActorKinds

(* Control is inductive by itself. *)
LEMMA ControlNext ==
  ASSUME TypeOK, Control, [Next]_vars
  PROVE  Control'
<1>1. ASSUME NEW t \in Threads, ThreadStep(t) PROVE Control'
  <2>1. \A u \in Threads : ThreadFits(u)'
    BY <1>1, ThreadStepIsLocal, FitsFrame, StepFits DEF Control
  <2>2. \A c \in Collectors : CollectorFits(c)'
    BY <1>1, ThreadStepIsLocal DEF Control, SameCollectors, CollectorFits
  <2> QED
    BY <2>1, <2>2 DEF Control
<1>2. ASSUME NEW t \in Threads, DebuggerSuspend(t) \/ DebuggerResume(t) PROVE Control'
  <2>1. \A u \in Threads : ThreadFits(u)'
    BY <1>2, DebuggerIsLocal, FitsFrame DEF Control
  <2>2. \A c \in Collectors : CollectorFits(c)'
    BY <1>2, DebuggerIsLocal DEF Control, SameCollectors, CollectorFits
  <2> QED
    BY <2>1, <2>2 DEF Control
<1>3. ASSUME NEW a \in Actors, Rendezvous(a) PROVE Control'
  <2>1. \A u \in Threads : ThreadFits(u)'
    BY <1>3, RendezvousIsLocal, FitsFrame, PauseStepFits DEF Control
  <2>2. ASSUME NEW c \in Collectors PROVE CollectorFits(c)'
    <3>1. CASE c = a
      BY <1>3, <3>1, PauseStepFits
    <3>2. CASE c # a
      BY <1>3, <3>2, RendezvousIsLocal DEF Control, CollectorFits
    <3> QED
      BY <3>1, <3>2
  <2> QED
    BY <2>1, <2>2 DEF Control
<1>4. CASE Shutdown
  <2>1. Main \in Threads /\ ThreadFits(Main)
    BY SuspensionAssumption DEF Control
  <2>2. ThreadFits(Main)'
    BY <1>4, <2>1, ActorKinds, SuspensionAssumption
       DEF Shutdown, WaitForDeregistration, StopDaemonThread, StopDaemonThreads,
           DeregisterSuspendedThreads, StopWait, TypeOK, Step, callVars, wordVars,
           ThreadFits, StatusFits, CallFits, PollFits, Polling, Suspending, PauseFits,
           InflationFits, OwnsTarget, Managed, Calls, Pauses, Stopped
  <2>3. \A u \in Threads : ThreadFits(u)'
    BY <1>4, <2>2, ShutdownIsLocal, FitsFrame DEF Control
  <2>4. \A c \in Collectors : CollectorFits(c)'
    BY <1>4, ShutdownIsLocal DEF Control, SameCollectors, CollectorFits
  <2> QED
    BY <2>3, <2>4 DEF Control
<1>5. CASE UNCHANGED vars
  <2>1. (\A u \in Threads : SameThread(u)) /\ SameCollectors
    BY <1>5 DEF vars, wordVars, callVars, SameThread, SameCollectors
  <2>2. \A u \in Threads : ThreadFits(u)'
    BY <2>1, FitsFrame DEF Control
  <2>3. \A c \in Collectors : CollectorFits(c)'
    BY <2>1 DEF Control, SameCollectors, CollectorFits
  <2> QED
    BY <2>2, <2>3 DEF Control
<1> QED
  BY <1>1, <1>2, <1>3, <1>4, <1>5 DEF Next, Terminated

-----------------------------------------------------------------------------
(* A step of a thread's own changes its place in the mutator lock only, and *)
(* takes the read lock only while there is no writer.                       *)
LEMMA ThreadStepReads ==
  ASSUME TypeOK, NEW t \in Threads, ThreadFits(t), t \in readers <=> Reading(t), ThreadStep(t)
  PROVE  /\ t \in readers' <=> Reading(t)'
         /\ \A u \in Threads \ {t} : u \in readers' <=> u \in readers
         /\ readers' \subseteq readers \/ writer = None
         /\ writer' = writer
         /\ pc[t] \notin {"stopped", "dump", "dumped"}
         /\ pc'[t] \notin {"stopped", "dump", "dumped"}
<1> USE ActorKinds DEF TypeOK, Step, callVars, wordVars, lockVars, ThreadFits, StatusFits,
        Reading, Managed
<1>1. CASE Transitions(t)
  <2> USE DEF CallFits, Calls
  <2>1. CASE UpdateStatus(t) \/ StoreStatus(t) \/ TransitionUnlock(t)
    BY <2>1 DEF UpdateStatus, StoreStatus, TransitionUnlock
  <2>2. CASE StoreStatusChecked(t) \/ LoadFts(t) \/ ReadLock(t)
    BY <2>2 DEF StoreStatusChecked, LoadFts, ReadLock
  <2>3. CASE CasRunning(t) \/ CasRunningFail(t)
    BY <2>3 DEF CasRunning, CasRunningFail
  <2> QED
    BY <1>1, <2>1, <2>2, <2>3 DEF Transitions
<1>2. CASE Safepoint(t)
  BY <1>2 DEF Safepoint, Poll, PollSuspend, WaitSuspension, Suspended, Parked,
     TerminationLoop, CallUpdateStatus, PollFits, Polling, Suspending
<1>3. CASE OwnCode(t)
  BY <1>3 DEF OwnCode, ManagedCodeBegin, ManagedCodeEnd, SafepointPoll, WaitWithLockHeld,
     WaitEnd, SuspendCheck, CallUpdateStatus
<1>4. CASE Inflation(t)
  BY <1>4 DEF Inflation, InflateThinLock, FindPoll, FindThread, AwaitSuspended, ResumeOwner,
     CallUpdateStatus
<1>5. CASE Life(t)
  BY <1>5 DEF Life, IncPendingThreads, RegisterThread, DecPendingThreads, Destroy, ExitCheck,
     Finish, CallUpdateStatus
<1> QED
  BY <1>1, <1>2, <1>3, <1>4, <1>5 DEF ThreadStep

(* The mutator lock is exact after every step. *)
LEMMA MutatorLockNext ==
  ASSUME TypeOK, Control, MutatorLock, [Next]_vars
  PROVE  MutatorLock'
<1>1. ASSUME NEW t \in Threads, ThreadStep(t) PROVE MutatorLock'
  <2>1. /\ t \in readers' <=> Reading(t)'
        /\ \A u \in Threads \ {t} : u \in readers' <=> u \in readers
        /\ readers' \subseteq readers \/ writer = None
        /\ writer' = writer
        /\ pc[t] \notin {"stopped", "dump", "dumped"}
        /\ pc'[t] \notin {"stopped", "dump", "dumped"}
    BY <1>1, ThreadStepReads DEF Control, MutatorLock
  <2>2. (\A u \in Threads \ {t} : SameThread(u)) /\ SameCollectors
    BY <1>1, ThreadStepIsLocal
  <2>3. \A u \in Threads : u \in readers' <=> Reading(u)'
    BY <2>1, <2>2 DEF MutatorLock, SameThread, Reading
  <2>4. \A a \in Actors : pc'[a] \in {"stopped", "dump", "dumped"} <=> writer' = a
    BY <2>1, <2>2, ActorKinds DEF MutatorLock, SameThread, SameCollectors
  <2>5. writer' # None => readers' = {}
    BY <2>1 DEF MutatorLock
  <2> QED
    BY <2>3, <2>4, <2>5 DEF MutatorLock
<1>2. ASSUME NEW t \in Threads, DebuggerSuspend(t) \/ DebuggerResume(t) PROVE MutatorLock'
  BY <1>2, DebuggerIsLocal, ActorKinds
     DEF DebuggerSuspend, DebuggerResume, lockVars, MutatorLock, SameThread, SameCollectors,
         Reading
<1>3. ASSUME NEW a \in Actors, Rendezvous(a) PROVE MutatorLock'
  <2>1. \A u \in Threads \ {a} : SameThread(u)
    BY <1>3, RendezvousIsLocal
  <2>2. \A b \in Actors \ {a} : pc'[b] = pc[b]
    BY <1>3, RendezvousIsLocal, ActorKinds DEF SameThread
  <2>3. \A u \in Threads : u \in readers' <=> Reading(u)'
    BY <1>3, <2>1, ActorKinds
       DEF Rendezvous, SafepointBegin, SuspendAllThreads, SuspendEach, SuspendedAll,
           WriteLock, DumpThreads, SafepointEnd, ResumeAllThreads, ResumeEach, ResumedAll,
           RelockRunning, lockVars, wordVars, Step, TypeOK, Control, ThreadFits, PauseFits,
           Pauses, MutatorLock, SameThread, Reading, Managed
  <2>4. \A b \in Actors : pc'[b] \in {"stopped", "dump", "dumped"} <=> writer' = b
    <3>1. pc[a] = "resume_each" => cont[a] \in {"idle", "native", "managed"}
      BY ActorKinds DEF Control, ThreadFits, PauseFits, CollectorFits, Pauses
    <3> QED
      BY <1>3, <2>2, <3>1, ActorKinds
       DEF Rendezvous, SafepointBegin, SuspendAllThreads, SuspendEach, SuspendedAll,
           WriteLock, DumpThreads, SafepointEnd, ResumeAllThreads, ResumeEach, ResumedAll,
           RelockRunning, lockVars, Step, TypeOK, MutatorLock
  <2>5. writer' # None => readers' = {}
    BY <1>3
       DEF Rendezvous, SafepointBegin, SuspendAllThreads, SuspendEach, SuspendedAll,
           WriteLock, DumpThreads, SafepointEnd, ResumeAllThreads, ResumeEach, ResumedAll,
           RelockRunning, lockVars, MutatorLock
  <2> QED
    BY <2>3, <2>4, <2>5 DEF MutatorLock
<1>4. CASE Shutdown
  <2>1. Main \in Threads
    BY SuspensionAssumption
  <2> QED
    BY <1>4, <2>1, ShutdownIsLocal, ActorKinds
       DEF Shutdown, WaitForDeregistration, StopDaemonThread, StopDaemonThreads,
           DeregisterSuspendedThreads, StopWait, TypeOK, Step, lockVars, wordVars, MutatorLock,
           SameThread, SameCollectors, Reading, Managed
<1>5. CASE UNCHANGED vars
  BY <1>5 DEF vars, wordVars, lockVars, MutatorLock, Reading
<1> QED
  BY <1>1, <1>2, <1>3, <1>4, <1>5 DEF Next, Terminated

-----------------------------------------------------------------------------
(* What actor a may do to threadLock_ in a step. *)
LockStep(a) ==
  \/ threadLock_' = threadLock_ /\ (InThreadLock(a)' => InThreadLock(a))
  \/ threadLock_ = None /\ threadLock_' = a
  \/ threadLock_ = a /\ threadLock_' = None /\ ~InThreadLock(a)'

(* A thread takes threadLock_ when it is free and gives it back when it has it. *)
LEMMA ThreadStepLocks ==
  ASSUME TypeOK, NEW t \in Threads, ThreadFits(t), InThreadLock(t) => threadLock_ = t,
         ThreadStep(t)
  PROVE  LockStep(t)
<1> USE ActorKinds DEF TypeOK, Step, callVars, listVars, ThreadFits, InThreadLock, Finishing,
        LockStep, Acquire, Release
<1>1. CASE Transitions(t)
  BY <1>1 DEF Transitions, UpdateStatus, StoreStatus, TransitionUnlock, StoreStatusChecked,
     LoadFts, ReadLock, CasRunning, CasRunningFail, Fresh, CallFits, Calls, Managed
<1>2. CASE Safepoint(t)
  BY <1>2 DEF Safepoint, Poll, PollSuspend, WaitSuspension, Suspended, Parked,
     TerminationLoop, CallUpdateStatus, PollFits, Polling, Suspending, Calls
<1>3. CASE OwnCode(t)
  BY <1>3 DEF OwnCode, ManagedCodeBegin, ManagedCodeEnd, SafepointPoll, WaitWithLockHeld,
     WaitEnd, SuspendCheck, CallUpdateStatus, Calls
<1>4. CASE Inflation(t)
  BY <1>4 DEF Inflation, InflateThinLock, FindPoll, FindThread, AwaitSuspended, ResumeOwner,
     CallUpdateStatus, Calls
<1>5. CASE Life(t)
  BY <1>5 DEF Life, IncPendingThreads, RegisterThread, DecPendingThreads, Destroy, ExitCheck,
     Finish, CallUpdateStatus, Calls
<1> QED
  BY <1>1, <1>2, <1>3, <1>4, <1>5 DEF ThreadStep

(* So does an actor in a pause. *)
LEMMA PauseLocks ==
  ASSUME TypeOK, Control, NEW a \in Actors, InThreadLock(a) => threadLock_ = a, Rendezvous(a)
  PROVE  LockStep(a)
<1>1. pc[a] = "resume_each" => cont[a] \in {"idle", "native", "managed"}
  BY ActorKinds DEF Control, ThreadFits, PauseFits, CollectorFits, Pauses
<1> USE <1>1, ActorKinds DEF TypeOK, Step, callVars, listVars, InThreadLock, Finishing,
        LockStep, Acquire, Release, Calls
<1>2. CASE SafepointBegin(a) \/ SuspendAllThreads(a) \/ SuspendEach(a) \/ SuspendedAll(a)
  BY <1>2 DEF SafepointBegin, SuspendAllThreads, SuspendEach, SuspendedAll
<1>3. CASE WriteLock(a) \/ DumpThreads(a) \/ SafepointEnd(a) \/ ResumeAllThreads(a)
  BY <1>3 DEF WriteLock, DumpThreads, SafepointEnd, ResumeAllThreads
<1>4. CASE ResumeEach(a) \/ ResumedAll(a) \/ RelockRunning(a)
  BY <1>4 DEF ResumeEach, ResumedAll, RelockRunning
<1> QED
  BY <1>2, <1>3, <1>4 DEF Rendezvous

(* Two actors are never in threadLock_ at once. *)
LEMMA ThreadLockNext ==
  ASSUME TypeOK, Control, ThreadLock, [Next]_vars
  PROVE  ThreadLock'
<1> USE DEF InThreadLock, Finishing, Calls
<1>1. ASSUME NEW t \in Threads, ThreadStep(t) PROVE ThreadLock'
  <2>1. LockStep(t)
    BY <1>1, ThreadStepLocks, ActorKinds DEF Control, ThreadLock
  <2>2. \A a \in Actors \ {t} : InThreadLock(a)' <=> InThreadLock(a)
    BY <1>1, ThreadStepIsLocal, ActorKinds DEF SameThread, SameCollectors
  <2> QED
    BY <2>1, <2>2, ActorKinds DEF ThreadLock, LockStep
<1>2. ASSUME NEW t \in Threads, DebuggerSuspend(t) \/ DebuggerResume(t) PROVE ThreadLock'
  BY <1>2, DebuggerIsLocal, ActorKinds
     DEF DebuggerSuspend, DebuggerResume, listVars, ThreadLock, SameThread, SameCollectors
<1>3. ASSUME NEW a \in Actors, Rendezvous(a) PROVE ThreadLock'
  <2>1. LockStep(a)
    BY <1>3, PauseLocks DEF ThreadLock
  <2>2. \A b \in Actors \ {a} : InThreadLock(b)' <=> InThreadLock(b)
    BY <1>3, RendezvousIsLocal, ActorKinds DEF SameThread
  <2> QED
    BY <2>1, <2>2, ActorKinds DEF ThreadLock, LockStep
<1>4. CASE Shutdown
  <2>1. Main \in Threads
    BY SuspensionAssumption
  <2>2. \A b \in Actors \ {Main} : InThreadLock(b)' <=> InThreadLock(b)
    BY <1>4, ShutdownIsLocal, ActorKinds DEF SameThread, SameCollectors
  <2>3. LockStep(Main)
    BY <1>4, <2>1, ActorKinds
       DEF Shutdown, WaitForDeregistration, StopDaemonThread, StopDaemonThreads,
           DeregisterSuspendedThreads, StopWait, TypeOK, Step, callVars, listVars,
           ThreadLock, Acquire, Release, LockStep
  <2> QED
    BY <2>1, <2>2, <2>3, ActorKinds DEF ThreadLock, LockStep
<1>5. CASE UNCHANGED vars
  BY <1>5 DEF vars, listVars, callVars, ThreadLock
<1> QED
  BY <1>1, <1>2, <1>3, <1>4, <1>5 DEF Next, Terminated

-----------------------------------------------------------------------------
(* What is owed to one thread, and the steps that change it.               *)
Owed(t) ==
  Cardinality(PausersOf(t)) + Cardinality(InflatorsOf(t)) + One(userSuspended[t])
  + One(Checking(t)) + One(pc[Main] = "deregister" /\ Late(t))
Agrees(t) ==
  suspendCount_[t] = Owed(t) /\ (SUSPEND_REQUEST \in flags[t] <=> suspendCount_[t] > 0)

(* CountsAgree says this of every thread in the list. *)
LEMMA CountsAgreeIsAgrees ==
  CountsAgree <=> \A t \in threads_ : Agrees(t)
BY DEF CountsAgree, Agrees, Owed, PausersOf, InflatorsOf, Checking

(* The sets that are counted are finite. *)
LEMMA CountedSets ==
  /\ \A t : /\ IsFiniteSet(PausersOf(t)) /\ Cardinality(PausersOf(t)) \in Nat
            /\ IsFiniteSet(InflatorsOf(t)) /\ Cardinality(InflatorsOf(t)) \in Nat
            /\ \A a \in PausersOf(t) : Cardinality(PausersOf(t)) > 0
            /\ \A a \in InflatorsOf(t) : Cardinality(InflatorsOf(t)) > 0
  /\ IsFiniteSet(Pausers) /\ Cardinality(Pausers) \in Nat
  /\ IsFiniteSet(Pending) /\ Cardinality(Pending) \in Nat
<1>1. IsFiniteSet(Actors) /\ IsFiniteSet(Threads)
  BY SuspensionAssumption, FS_Union DEF Actors
<1>2. ASSUME NEW t
      PROVE  /\ IsFiniteSet(PausersOf(t)) /\ Cardinality(PausersOf(t)) \in Nat
             /\ IsFiniteSet(InflatorsOf(t)) /\ Cardinality(InflatorsOf(t)) \in Nat
             /\ \A a \in PausersOf(t) : Cardinality(PausersOf(t)) > 0
             /\ \A a \in InflatorsOf(t) : Cardinality(InflatorsOf(t)) > 0
  <2>1. PausersOf(t) \in SUBSET Actors /\ InflatorsOf(t) \in SUBSET Threads
    BY DEF PausersOf, InflatorsOf
  <2>2. IsFiniteSet(PausersOf(t)) /\ IsFiniteSet(InflatorsOf(t))
    BY <1>1, <2>1, FS_Subset
  <2> QED
    BY <2>2, FS_CardinalityType, FS_EmptySet
<1>3. Pausers \in SUBSET Actors /\ Pending \in SUBSET Threads
  BY DEF Pausers, Pending
<1>4. IsFiniteSet(Pausers) /\ IsFiniteSet(Pending)
  BY <1>1, <1>3, FS_Subset
<1> QED
  BY <1>2, <1>4, FS_CardinalityType

(* A thread someone suspends, or is about to inflate for, shows the request. *)
LEMMA RequestIsSet ==
  ASSUME TypeOK, CountsAgree, NEW t \in threads_
  PROVE  /\ PausersOf(t) # {} \/ InflatorsOf(t) # {} \/ userSuspended[t] \/ Checking(t)
            \/ (pc[Main] = "deregister" /\ Late(t))
              => SUSPEND_REQUEST \in flags[t] /\ suspendCount_[t] > 0
         /\ suspendCount_[t] >= Cardinality(InflatorsOf(t))
                                + One(pc[Main] = "deregister" /\ Late(t))
<1>1. Agrees(t)
  BY CountsAgreeIsAgrees
<1>2. One(userSuspended[t]) \in {0, 1} /\ One(Checking(t)) \in {0, 1}
      /\ One(pc[Main] = "deregister" /\ Late(t)) \in {0, 1}
  BY DEF One
<1>3. suspendCount_[t] >= Cardinality(InflatorsOf(t)) + One(pc[Main] = "deregister" /\ Late(t))
  BY <1>1, <1>2, CountedSets DEF Agrees, Owed
<1>4. PausersOf(t) # {} \/ InflatorsOf(t) # {} => suspendCount_[t] > 0
  BY <1>1, <1>2, CountedSets DEF Agrees, Owed
<1>5. userSuspended[t] \/ Checking(t) \/ (pc[Main] = "deregister" /\ Late(t))
        => suspendCount_[t] > 0
  <2>1. userSuspended[t] => One(userSuspended[t]) = 1
    BY DEF One
  <2>2. Checking(t) => One(Checking(t)) = 1
    BY DEF One
  <2>3. (pc[Main] = "deregister" /\ Late(t)) => One(pc[Main] = "deregister" /\ Late(t)) = 1
    BY DEF One
  <2> QED
    BY <1>1, <1>2, <2>1, <2>2, <2>3, CountedSets DEF Agrees, Owed
<1> QED
  BY <1>1, <1>3, <1>4, <1>5 DEF Agrees

\* A step of t that neither suspends nor resumes anybody.
Quiet(t) ==
  /\ flags' = flags /\ suspendCount_' = suspendCount_ /\ userSuspended' = userSuspended
  /\ OwnsTarget(t)' <=> OwnsTarget(t)
  /\ OwnsTarget(t) => target'[t] = target[t]
  /\ Checking(t)' <=> Checking(t)
  /\ \/ threads_' = threads_
     \/ threads_' = threads_ \ {t} /\ pc[t] = "remove" /\ pc'[t] = "gone" /\ t # Main

(* A step of a thread's own is no step of a pause, and is quiet but for the   *)
(* registration, SuspendCheck and the two ends of an inflation.              *)
LEMMA ThreadStepCounts ==
  ASSUME TypeOK, NEW t \in Threads, ThreadFits(t), ThreadStep(t)
  PROVE  /\ pc[t] \notin Pauses \cup {"deregister"} /\ pc'[t] \notin Pauses \cup {"deregister"}
         /\ todo' = todo /\ suspendNewCount_' = suspendNewCount_
         /\ \/ Quiet(t) \/ RegisterThread(t)
            \/ SuspendCheck(t) /\ (pc[t] = "managed" \/ pc[t] = "check_resume")
            \/ FindThread(t) /\ pc'[t] = "await"
            \/ ResumeOwner(t) /\ pc[t] = "inflate"
<1> USE ActorKinds DEF TypeOK, Step, callVars, listVars, wordVars, ThreadFits, InflationFits,
        OwnsTarget, Checking, Quiet, Pauses, Calls, Managed
<1>1. CASE Transitions(t)
  <2>1. CASE UpdateStatus(t) \/ StoreStatus(t) \/ TransitionUnlock(t)
    BY <2>1 DEF UpdateStatus, StoreStatus, TransitionUnlock, CallFits, StatusFits, Suspending,
       Polling
  <2>2. CASE StoreStatusChecked(t) \/ LoadFts(t) \/ ReadLock(t)
    BY <2>2 DEF StoreStatusChecked, LoadFts, ReadLock, CallFits, Suspending, Polling
  <2>3. CASE CasRunning(t) \/ CasRunningFail(t)
    BY <2>3 DEF CasRunning, CasRunningFail, Fresh, CallFits, Suspending, Polling
  <2> QED
    BY <1>1, <2>1, <2>2, <2>3 DEF Transitions
<1>2. CASE Safepoint(t)
  BY <1>2 DEF Safepoint, Poll, PollSuspend, WaitSuspension, Suspended, Parked,
     TerminationLoop, CallUpdateStatus, PollFits, Polling, Suspending
<1>3. CASE OwnCode(t)
  BY <1>3 DEF OwnCode, ManagedCodeBegin, ManagedCodeEnd, SafepointPoll, WaitWithLockHeld,
     WaitEnd, SuspendCheck, CallUpdateStatus, Suspending, Polling
<1>4. CASE Inflation(t)
  BY <1>4 DEF Inflation, InflateThinLock, FindPoll, FindThread, AwaitSuspended, ResumeOwner,
     CallUpdateStatus, Suspending, Polling
<1>5. CASE Life(t)
  <2>1. CASE RegisterThread(t)
    <3>1. /\ pc[t] \notin Pauses \cup {"deregister"} /\ pc'[t] \notin Pauses \cup {"deregister"}
          /\ todo' = todo /\ suspendNewCount_' = suspendNewCount_
      BY <2>1 DEF RegisterThread
    <3> QED
      BY <2>1, <3>1
  <2>2. CASE Finish(t)
    <3>1. threads_ \ ({t} \ {Main}) = IF t = Main THEN threads_ ELSE threads_ \ {t}
      OBVIOUS
    <3>2. CASE pc[t] = "finish"
      BY <2>2, <3>2 DEF Finish, CallUpdateStatus, Suspending, Polling
    <3>3. CASE pc[t] # "finish"
      <4>1. /\ pc[t] = "remove" /\ pc' = [pc EXCEPT ![t] = "gone"]
            /\ threads_' = threads_ \ ({t} \ {Main})
            /\ flags' = flags /\ suspendCount_' = suspendCount_
            /\ userSuspended' = userSuspended /\ suspendNewCount_' = suspendNewCount_
            /\ ret' = ret /\ cont' = cont /\ target' = target /\ todo' = todo
        BY <2>2, <3>3 DEF Finish, CallUpdateStatus
      <4>2. pc'[t] = "gone"
        BY <4>1
      <4>3. \/ threads_' = threads_
            \/ threads_' = threads_ \ {t} /\ pc[t] = "remove" /\ pc'[t] = "gone" /\ t # Main
        BY <4>1, <4>2, <3>1
      <4>4. OwnsTarget(t)' <=> OwnsTarget(t)
        BY <4>1, <4>2
      <4> QED
        BY <4>1, <4>2, <4>3, <4>4
    <3> QED
      BY <3>2, <3>3
  <2>3. CASE IncPendingThreads(t) \/ DecPendingThreads(t) \/ Destroy(t) \/ ExitCheck(t)
    BY <2>3 DEF IncPendingThreads, DecPendingThreads, Destroy, ExitCheck, CallUpdateStatus,
       Suspending, Polling
  <2> QED
    BY <1>5, <2>1, <2>2, <2>3 DEF Life
<1> QED
  BY <1>1, <1>2, <1>3, <1>4, <1>5 DEF ThreadStep

(* What a thread is owed depends on nothing but the sets and flags of Owed. *)
LEMMA AgreesFrame ==
  ASSUME NEW u, Agrees(u), suspendCount_'[u] = suspendCount_[u],
         SUSPEND_REQUEST \in flags'[u] <=> SUSPEND_REQUEST \in flags[u],
         PausersOf(u)' = PausersOf(u), InflatorsOf(u)' = InflatorsOf(u),
         One(userSuspended[u])' = One(userSuspended[u]),
         One(Checking(u))' = One(Checking(u)),
         One(pc[Main] = "deregister" /\ Late(u))' = One(pc[Main] = "deregister" /\ Late(u))
  PROVE  Agrees(u)'
BY DEF Agrees, Owed

(* A step of t's own, seen by a counted thread u. *)
LEMMA ThreadStepSeen ==
  ASSUME TypeOK, NEW t \in Threads, ThreadFits(t), ThreadStep(t),
         NEW u \in threads_, u \in threads_'
  PROVE  /\ PausersOf(u)' = PausersOf(u)
         /\ InflatorsOf(u)' \ {t} = InflatorsOf(u) \ {t}
         /\ pc'[Main] = "deregister" <=> pc[Main] = "deregister"
         /\ u # t => (Checking(u)' <=> Checking(u))
<1>1. /\ pc[t] \notin Pauses \cup {"deregister"} /\ pc'[t] \notin Pauses \cup {"deregister"}
      /\ todo' = todo
  BY ThreadStepCounts
<1>2. (\A r \in Threads \ {t} : SameThread(r)) /\ SameCollectors
  BY ThreadStepIsLocal
<1>3. \A a \in Actors \ {t} : pc'[a] = pc[a]
  BY <1>2, ActorKinds DEF SameThread, SameCollectors
<1>4. \A a \in Actors : u \in SuspendedBy(a)' <=> u \in SuspendedBy(a)
  BY <1>1, <1>3 DEF SuspendedBy, Pausing, Pauses
<1>5. \A r \in Threads \ {t} : r \in InflatorsOf(u)' <=> r \in InflatorsOf(u)
  BY <1>2 DEF InflatorsOf, OwnsTarget, SameThread
<1>6. PausersOf(u)' = PausersOf(u)
  BY <1>4 DEF PausersOf
<1>7. InflatorsOf(u)' \ {t} = InflatorsOf(u) \ {t}
  BY <1>5 DEF InflatorsOf
<1>8. Main \in Threads /\ u \in Threads
  BY SuspensionAssumption DEF TypeOK
<1> QED
  BY <1>1, <1>2, <1>6, <1>7, <1>8 DEF SameThread, Checking

(* A quiet step keeps the counts of the threads that stay in the list. *)
LEMMA QuietAgrees ==
  ASSUME TypeOK, CountsAgree, NEW t \in Threads, ThreadFits(t), ThreadStep(t), Quiet(t)
  PROVE  CountsAgree'
<1> SUFFICES ASSUME NEW u \in threads_' PROVE Agrees(u)'
  BY CountsAgreeIsAgrees DEF CountsAgree, Agrees, Owed, PausersOf, InflatorsOf, Checking
<1>1. u \in threads_
  BY DEF Quiet
<1>2. Agrees(u)
  BY <1>1, CountsAgreeIsAgrees
<1>3. /\ PausersOf(u)' = PausersOf(u)
      /\ InflatorsOf(u)' \ {t} = InflatorsOf(u) \ {t}
      /\ pc'[Main] = "deregister" <=> pc[Main] = "deregister"
      /\ u # t => (Checking(u)' <=> Checking(u))
  BY <1>1, ThreadStepSeen
<1>4. t \in InflatorsOf(u)' <=> t \in InflatorsOf(u)
  BY DEF Quiet, InflatorsOf
<1>5. InflatorsOf(u)' = InflatorsOf(u)
  BY <1>3, <1>4
<1>6. Checking(u)' <=> Checking(u)
  BY <1>3 DEF Quiet
<1>7. (pc[Main] = "deregister" /\ Late(u))' <=> pc[Main] = "deregister" /\ Late(u)
  BY <1>3 DEF Quiet, Late
<1>8. /\ One(userSuspended[u])' = One(userSuspended[u])
      /\ One(Checking(u))' = One(Checking(u))
      /\ One(pc[Main] = "deregister" /\ Late(u))' = One(pc[Main] = "deregister" /\ Late(u))
  BY <1>6, <1>7 DEF Quiet, One
<1> QED
  BY <1>2, <1>3, <1>5, <1>8, AgreesFrame DEF Quiet

(* What SuspendImpl and ResumeImpl do to the count, the request flag and the *)
(* termination flag of the thread they name, and to no other thread.         *)
LEMMA ImplEffect ==
  ASSUME TypeOK, NEW v \in Threads, Increment(v) \/ Decrement(v)
  PROVE  /\ \A u \in Threads : RUNTIME_TERMINATION_REQUEST \in flags'[u]
                             <=> RUNTIME_TERMINATION_REQUEST \in flags[u]
         /\ \A u \in Threads \ {v} : /\ suspendCount_'[u] = suspendCount_[u]
                                    /\ flags'[u] = flags[u]
         /\ Increment(v) => /\ suspendCount_'[v] = suspendCount_[v] + 1
                            /\ SUSPEND_REQUEST \in flags'[v]
         /\ Decrement(v) /\ suspendCount_[v] > 0 =>
              /\ suspendCount_'[v] = suspendCount_[v] - 1
              /\ (SUSPEND_REQUEST \in flags'[v])
                    <=> suspendCount_[v] # 1 /\ SUSPEND_REQUEST \in flags[v]
BY DEF TypeOK, Increment, Decrement, SUSPEND_REQUEST, RUNTIME_TERMINATION_REQUEST

(* One suspension more is owed, or one less, and the count follows. *)
LEMMA AgreesUp ==
  ASSUME TypeOK, NEW v \in Threads, Agrees(v), Increment(v), Owed(v)' = Owed(v) + 1
  PROVE  Agrees(v)'
BY ImplEffect DEF Agrees, TypeOK

LEMMA AgreesDown ==
  ASSUME TypeOK, NEW v \in Threads, Agrees(v), Decrement(v), Owed(v)' = Owed(v) - 1,
         suspendCount_[v] > 0
  PROVE  Agrees(v)'
BY ImplEffect DEF Agrees, TypeOK

(* SuspendCheck suspends the thread itself, and resumes it when it is back. *)
LEMMA CheckAgrees ==
  ASSUME TypeOK, CountsAgree, NEW t \in Threads, ThreadFits(t), SuspendCheck(t),
         pc[t] = "managed" \/ pc[t] = "check_resume"
  PROVE  CountsAgree'
<1> SUFFICES ASSUME NEW u \in threads_' PROVE Agrees(u)'
  BY CountsAgreeIsAgrees DEF CountsAgree, Agrees, Owed, PausersOf, InflatorsOf, Checking
<1>0. ThreadStep(t)
  BY DEF ThreadStep, OwnCode
<1>1. /\ threads_' = threads_ /\ userSuspended' = userSuspended /\ ret' = ret /\ cont' = cont
      /\ target' = target
      /\ \/ pc[t] = "managed" /\ pc' = [pc EXCEPT ![t] = "check_unlock"] /\ Increment(t)
         \/ pc[t] = "check_resume" /\ pc' = [pc EXCEPT ![t] = "managed"] /\ Decrement(t)
  BY DEF SuspendCheck, Step, listVars, callVars
<1>2. u \in threads_ /\ u \in Threads /\ Agrees(u) /\ t \in Actors
  BY <1>1, CountsAgreeIsAgrees, ActorKinds DEF TypeOK
<1>3. /\ PausersOf(u)' = PausersOf(u)
      /\ InflatorsOf(u)' \ {t} = InflatorsOf(u) \ {t}
      /\ pc'[Main] = "deregister" <=> pc[Main] = "deregister"
      /\ u # t => (Checking(u)' <=> Checking(u))
  BY <1>0, <1>2, ThreadStepSeen
<1>4. t \in InflatorsOf(u)' <=> t \in InflatorsOf(u)
  BY <1>1, <1>2 DEF InflatorsOf, OwnsTarget, TypeOK
<1>5. InflatorsOf(u)' = InflatorsOf(u)
  BY <1>3, <1>4
<1>6. RUNTIME_TERMINATION_REQUEST \in flags'[u] <=> RUNTIME_TERMINATION_REQUEST \in flags[u]
  BY <1>1, <1>2, ImplEffect
<1>7. /\ One(userSuspended[u])' = One(userSuspended[u])
      /\ One(pc[Main] = "deregister" /\ Late(u))' = One(pc[Main] = "deregister" /\ Late(u))
  BY <1>1, <1>3, <1>6 DEF One, Late
<1>8. CASE u # t
  <2>1. suspendCount_'[u] = suspendCount_[u] /\ flags'[u] = flags[u]
    BY <1>1, <1>2, <1>8, ImplEffect
  <2>2. One(Checking(u))' = One(Checking(u))
    BY <1>3, <1>8 DEF One
  <2> QED
    BY <1>2, <1>3, <1>5, <1>7, <2>1, <2>2, AgreesFrame
<1>9. CASE u = t
  <2>1. Cardinality(PausersOf(u)) \in Nat /\ Cardinality(InflatorsOf(u)) \in Nat
        /\ One(userSuspended[u]) \in Nat /\ One(pc[Main] = "deregister" /\ Late(u)) \in Nat
    BY CountedSets DEF One
  <2>2. CASE pc[t] = "managed"
    <3>1. One(Checking(u)) = 0 /\ One(Checking(u))' = 1
      BY <1>1, <1>2, <1>9, <2>2 DEF One, Checking, TypeOK
    <3>2. Owed(u)' = Owed(u) + 1
      BY <1>3, <1>5, <1>7, <2>1, <3>1 DEF Owed
    <3> QED
      BY <1>1, <1>2, <1>9, <2>2, <3>2, AgreesUp
  <2>3. CASE pc[t] = "check_resume"
    <3>1. One(Checking(u)) = 1 /\ One(Checking(u))' = 0
      BY <1>1, <1>2, <1>9, <2>3 DEF One, Checking, TypeOK
    <3>2. Owed(u)' = Owed(u) - 1 /\ Owed(u) > 0
      BY <1>3, <1>5, <1>7, <2>1, <3>1 DEF Owed
    <3> QED
      BY <1>1, <1>2, <1>9, <2>3, <3>2, AgreesDown DEF Agrees
  <2> QED
    BY <2>2, <2>3
<1> QED
  BY <1>8, <1>9

(* An inflator suspends its owner once, when it finds it in the list, and *)
(* resumes it once.                                                       *)
LEMMA InflationAgrees ==
  ASSUME TypeOK, CountsAgree, NEW t \in Threads, ThreadFits(t),
         \/ FindThread(t) /\ pc'[t] = "await"
         \/ ResumeOwner(t) /\ pc[t] = "inflate"
  PROVE  CountsAgree'
<1> SUFFICES ASSUME NEW u \in threads_' PROVE Agrees(u)'
  BY CountsAgreeIsAgrees DEF CountsAgree, Agrees, Owed, PausersOf, InflatorsOf, Checking
<1> DEFINE v == target[t]
<1>0. ThreadStep(t)
  BY DEF ThreadStep, Inflation
<1>1. /\ threads_' = threads_ /\ userSuspended' = userSuspended /\ ret' = ret /\ cont' = cont
      /\ target' = target
      /\ \/ pc[t] = "find" /\ pc' = [pc EXCEPT ![t] = "await"] /\ Increment(v) /\ v \in threads_
         \/ pc[t] = "inflate" /\ pc' = [pc EXCEPT ![t] = "signal"] /\ Decrement(v)
  BY ActorKinds
     DEF FindThread, ResumeOwner, Step, listVars, callVars, CallUpdateStatus, TypeOK
<1>2. u \in threads_ /\ u \in Threads /\ Agrees(u) /\ t \in Actors
  BY <1>1, CountsAgreeIsAgrees, ActorKinds DEF TypeOK
<1>3. v \in Threads /\ v # t /\ "inflate" \notin {ret[t], cont[t]}
  BY <1>1 DEF ThreadFits, InflationFits, OwnsTarget, TypeOK, Polling, Suspending, Calls
<1>4. /\ PausersOf(u)' = PausersOf(u)
      /\ InflatorsOf(u)' \ {t} = InflatorsOf(u) \ {t}
      /\ pc'[Main] = "deregister" <=> pc[Main] = "deregister"
      /\ u # t => (Checking(u)' <=> Checking(u))
  BY <1>0, <1>2, ThreadStepSeen
<1>5. Checking(t)' <=> Checking(t)
  BY <1>1, <1>2 DEF Checking, TypeOK
<1>6. RUNTIME_TERMINATION_REQUEST \in flags'[u] <=> RUNTIME_TERMINATION_REQUEST \in flags[u]
  BY <1>1, <1>2, <1>3, ImplEffect
<1>7. /\ One(userSuspended[u])' = One(userSuspended[u])
      /\ One(Checking(u))' = One(Checking(u))
      /\ One(pc[Main] = "deregister" /\ Late(u))' = One(pc[Main] = "deregister" /\ Late(u))
  BY <1>1, <1>4, <1>5, <1>6 DEF One, Late
<1>8. CASE u # v
  <2>1. suspendCount_'[u] = suspendCount_[u] /\ flags'[u] = flags[u]
    BY <1>1, <1>2, <1>3, <1>8, ImplEffect
  <2>2. InflatorsOf(u)' = InflatorsOf(u)
    BY <1>1, <1>4, <1>8 DEF InflatorsOf
  <2> QED
    BY <1>2, <1>4, <1>7, <2>1, <2>2, AgreesFrame
<1>9. CASE u = v
  <2>1. /\ Cardinality(PausersOf(u)) \in Nat /\ IsFiniteSet(InflatorsOf(u))
        /\ Cardinality(InflatorsOf(u)) \in Nat
        /\ One(userSuspended[u]) \in Nat /\ One(Checking(u)) \in Nat
        /\ One(pc[Main] = "deregister" /\ Late(u)) \in Nat
    BY CountedSets DEF One
  <2>2. CASE pc[t] = "find"
    <3>1. t \notin InflatorsOf(u) /\ t \in InflatorsOf(u)'
      BY <1>1, <1>2, <1>3, <1>9, <2>2 DEF InflatorsOf, OwnsTarget, TypeOK
    <3>2. InflatorsOf(u)' = InflatorsOf(u) \cup {t}
      BY <1>4, <3>1
    <3>3. Cardinality(InflatorsOf(u)') = Cardinality(InflatorsOf(u)) + 1
      BY <2>1, <3>1, <3>2, FS_AddElement
    <3>4. Owed(u)' = Owed(u) + 1
      BY <1>4, <1>7, <2>1, <3>3 DEF Owed
    <3> QED
      BY <1>1, <1>2, <1>9, <2>2, <3>4, AgreesUp
  <2>3. CASE pc[t] = "inflate"
    <3>1. t \in InflatorsOf(u) /\ t \notin InflatorsOf(u)'
      BY <1>1, <1>2, <1>3, <1>9, <2>3 DEF InflatorsOf, OwnsTarget, TypeOK
    <3>2. InflatorsOf(u)' = InflatorsOf(u) \ {t}
      BY <1>4, <3>1
    <3>3. Cardinality(InflatorsOf(u)') = Cardinality(InflatorsOf(u)) - 1
          /\ Cardinality(InflatorsOf(u)) > 0
      BY <2>1, <3>1, <3>2, FS_RemoveElement, CountedSets
    <3>4. Owed(u)' = Owed(u) - 1 /\ Owed(u) > 0
      BY <1>4, <1>7, <2>1, <3>3 DEF Owed
    <3> QED
      BY <1>1, <1>2, <1>9, <2>3, <3>4, AgreesDown DEF Agrees
  <2> QED
    BY <1>1, <2>2, <2>3
<1> QED
  BY <1>8, <1>9

(* RegisterThread charges the new thread exactly what is owed to it: one   *)
(* suspension per pause under way, and the one of StopDaemonThreads.       *)
LEMMA RegisterAgrees ==
  ASSUME TypeOK, Control, ThreadLock, Membership, NewCounts, CountsAgree,
         NEW t \in Threads, RegisterThread(t)
  PROVE  CountsAgree'
<1> SUFFICES ASSUME NEW u \in threads_' PROVE Agrees(u)'
  BY CountsAgreeIsAgrees DEF CountsAgree, Agrees, Owed, PausersOf, InflatorsOf, Checking
<1>0. ThreadStep(t) /\ ThreadFits(t)
  BY DEF ThreadStep, Life, Control
<1>1. /\ pc[t] = "pending" /\ pc' = [pc EXCEPT ![t] = "registered"] /\ threadLock_ = None
      /\ threads_' = threads_ \cup {t} /\ userSuspended' = userSuspended
      /\ ret' = ret /\ cont' = cont /\ target' = target
      /\ suspendCount_' = [suspendCount_ EXCEPT ![t] = @ + suspendNewCount_]
      /\ flags' = [flags EXCEPT ![t] = IF suspendNewCount_ > 0
                                       THEN @ \cup {SUSPEND_REQUEST} ELSE @]
  BY DEF RegisterThread, Step, callVars
<1>2. /\ t \notin threads_ /\ t # Main /\ flags[t] = {} /\ suspendCount_[t] = 0
      /\ ~userSuspended[t] /\ t \in Actors
  BY <1>1, ActorKinds DEF Membership, Members
<1>3. CASE u # t
  <2>1. u \in threads_ /\ u \in Threads /\ Agrees(u)
    BY <1>1, <1>3, CountsAgreeIsAgrees DEF TypeOK
  <2>2. /\ PausersOf(u)' = PausersOf(u)
        /\ InflatorsOf(u)' \ {t} = InflatorsOf(u) \ {t}
        /\ pc'[Main] = "deregister" <=> pc[Main] = "deregister"
        /\ Checking(u)' <=> Checking(u)
    BY <1>0, <1>3, <2>1, ThreadStepSeen
  <2>3. t \in InflatorsOf(u)' <=> t \in InflatorsOf(u)
    BY <1>1, <1>2 DEF InflatorsOf, OwnsTarget, TypeOK
  <2>4. InflatorsOf(u)' = InflatorsOf(u)
    BY <2>2, <2>3
  <2>5. suspendCount_'[u] = suspendCount_[u] /\ flags'[u] = flags[u]
    BY <1>1, <1>3, <2>1 DEF TypeOK
  <2>6. /\ One(userSuspended[u])' = One(userSuspended[u])
        /\ One(Checking(u))' = One(Checking(u))
        /\ One(pc[Main] = "deregister" /\ Late(u))' = One(pc[Main] = "deregister" /\ Late(u))
    BY <1>1, <2>2, <2>5 DEF One, Late
  <2> QED
    BY <2>1, <2>2, <2>4, <2>5, <2>6, AgreesFrame
<1>4. CASE u = t
  <2>1. PausersOf(t)' = Pausers
    <3>1. ASSUME NEW a \in Actors PROVE t \in SuspendedBy(a)' <=> Pausing(a)
      <4>1. pc[a] \notin {"suspend_each", "resume_each"}
        BY <1>1, ActorKinds DEF ThreadLock, InThreadLock
      <4>2. CASE a = t
        BY <1>1, <1>2, <4>2 DEF SuspendedBy, Pausing, TypeOK
      <4>3. CASE a # t
        BY <1>1, <1>2, <4>1, <4>3 DEF SuspendedBy, Pausing, TypeOK
      <4> QED
        BY <4>2, <4>3
    <3> QED
      BY <3>1 DEF PausersOf, Pausers
  <2>2. InflatorsOf(t)' = {}
    <3>1. ASSUME NEW r \in Threads, OwnsTarget(r)', target'[r] = t PROVE FALSE
      <4>1. OwnsTarget(r)
        BY <1>1, <1>2, <3>1, ActorKinds DEF OwnsTarget, TypeOK
      <4> QED
        BY <1>1, <3>1, <4>1 DEF Membership, Targets
    <3> QED
      BY <3>1 DEF InflatorsOf
  <2>3. ~Checking(t)' /\ Late(t)'
    BY <1>1, <1>2 DEF Checking, Late, TypeOK, SUSPEND_REQUEST, RUNTIME_TERMINATION_REQUEST
  <2>4. ~userSuspended'[t]
    BY <1>1, <1>2
  <2>5. pc'[Main] = "deregister" <=> pc[Main] = "deregister"
    BY <1>1, <1>2, SuspensionAssumption, ActorKinds DEF TypeOK
  <2>6. suspendNewCount_ = Cardinality(Pausers) + One(pc[Main] = "deregister")
    BY <1>1, PendingIsCounted DEF NewCounts, Membership, Alone
  <2>7. /\ One(userSuspended[t])' = 0 /\ One(Checking(t))' = 0
        /\ One(pc[Main] = "deregister" /\ Late(t))' = One(pc[Main] = "deregister")
    BY <2>3, <2>4, <2>5 DEF One
  <2>8. Cardinality(InflatorsOf(t)') = 0
    BY <2>2, FS_EmptySet
  <2>9. One(pc[Main] = "deregister") \in Nat /\ Cardinality(Pausers) \in Nat
    BY CountedSets DEF One
  <2>10. Owed(t)' = suspendNewCount_
    BY <2>1, <2>6, <2>7, <2>8, <2>9 DEF Owed
  <2>11. suspendCount_'[t] = suspendNewCount_
         /\ (SUSPEND_REQUEST \in flags'[t] <=> suspendNewCount_ > 0)
    BY <1>1, <1>2 DEF TypeOK
  <2> QED
    BY <1>4, <2>10, <2>11 DEF Agrees
<1> QED
  BY <1>3, <1>4

(* The debugger suspends a thread once and resumes it once. *)
LEMMA DebuggerAgrees ==
  ASSUME TypeOK, CountsAgree, NEW t \in Threads, DebuggerSuspend(t) \/ DebuggerResume(t)
  PROVE  CountsAgree'
<1> SUFFICES ASSUME NEW u \in threads_' PROVE Agrees(u)'
  BY CountsAgreeIsAgrees DEF CountsAgree, Agrees, Owed, PausersOf, InflatorsOf, Checking
<1>1. /\ threads_' = threads_ /\ pc' = pc /\ ret' = ret /\ cont' = cont /\ target' = target
      /\ todo' = todo
      /\ \/ /\ ~userSuspended[t] /\ Increment(t)
            /\ userSuspended' = [userSuspended EXCEPT ![t] = TRUE]
         \/ /\ userSuspended[t] /\ Decrement(t)
            /\ userSuspended' = [userSuspended EXCEPT ![t] = FALSE]
  BY DEF DebuggerSuspend, DebuggerResume, listVars, callVars
<1>2. u \in threads_ /\ u \in Threads /\ Agrees(u)
  BY <1>1, CountsAgreeIsAgrees DEF TypeOK
<1>3. PausersOf(u)' = PausersOf(u) /\ InflatorsOf(u)' = InflatorsOf(u)
  BY <1>1 DEF PausersOf, SuspendedBy, Pausing, InflatorsOf, OwnsTarget
<1>4. RUNTIME_TERMINATION_REQUEST \in flags'[u] <=> RUNTIME_TERMINATION_REQUEST \in flags[u]
  BY <1>1, <1>2, ImplEffect
<1>5. /\ One(Checking(u))' = One(Checking(u))
      /\ One(pc[Main] = "deregister" /\ Late(u))' = One(pc[Main] = "deregister" /\ Late(u))
  BY <1>1, <1>4 DEF One, Checking, Late
<1>6. CASE u # t
  <2>1. suspendCount_'[u] = suspendCount_[u] /\ flags'[u] = flags[u]
    BY <1>1, <1>2, <1>6, ImplEffect
  <2>2. userSuspended'[u] = userSuspended[u]
    BY <1>1, <1>2, <1>6 DEF TypeOK
  <2>3. One(userSuspended[u])' = One(userSuspended[u])
    BY <2>2 DEF One
  <2> QED
    BY <1>2, <1>3, <1>5, <2>1, <2>3, AgreesFrame
<1>7. CASE u = t
  <2>1. /\ Cardinality(PausersOf(u)) \in Nat /\ Cardinality(InflatorsOf(u)) \in Nat
        /\ One(Checking(u)) \in Nat /\ One(pc[Main] = "deregister" /\ Late(u)) \in Nat
    BY CountedSets DEF One
  <2>2. CASE ~userSuspended[t]
    <3>1. userSuspended'[t]
      BY <1>1, <2>2 DEF TypeOK
    <3>2. One(userSuspended[u]) = 0 /\ One(userSuspended[u])' = 1
      BY <1>7, <2>2, <3>1 DEF One
    <3>3. Owed(u)' = Owed(u) + 1
      BY <1>3, <1>5, <2>1, <3>2 DEF Owed
    <3> QED
      BY <1>1, <1>2, <1>7, <2>2, <3>3, AgreesUp
  <2>3. CASE userSuspended[t]
    <3>1. ~userSuspended'[t]
      BY <1>1, <2>3 DEF TypeOK
    <3>2. One(userSuspended[u]) = 1 /\ One(userSuspended[u])' = 0
      BY <1>7, <2>3, <3>1 DEF One
    <3>3. Owed(u)' = Owed(u) - 1 /\ Owed(u) > 0
      BY <1>3, <1>5, <2>1, <3>2 DEF Owed
    <3> QED
      BY <1>1, <1>2, <1>7, <2>3, <3>3, AgreesDown DEF Agrees
  <2> QED
    BY <2>2, <2>3
<1> QED
  BY <1>6, <1>7

(* A step of a pause that suspends or resumes nobody leaves the set of the  *)
(* threads it has suspended as it is.                                       *)
LEMMA PauseKeeps ==
  ASSUME TypeOK, Control, NEW a \in Actors, Rendezvous(a), NEW u \in threads_,
         ~SuspendEach(a), ~ResumeEach(a)
  PROVE  u \in SuspendedBy(a)' <=> u \in SuspendedBy(a)
<1>1. pc[a] = "resume_each" => cont[a] \in {"idle", "native", "managed"}
  BY ActorKinds DEF Control, ThreadFits, PauseFits, CollectorFits, Pauses
<1> USE <1>1 DEF TypeOK, Step, listVars, SuspendedBy, Pausing
<1>2. CASE SafepointBegin(a) \/ RelockRunning(a) \/ ResumedAll(a)
  BY <1>2 DEF SafepointBegin, RelockRunning, ResumedAll
<1>3. CASE SuspendAllThreads(a)
  BY <1>3 DEF SuspendAllThreads
<1>4. CASE SuspendedAll(a)
  BY <1>4 DEF SuspendedAll
<1>5. CASE WriteLock(a) \/ DumpThreads(a) \/ SafepointEnd(a)
  BY <1>5 DEF WriteLock, DumpThreads, SafepointEnd
<1>6. CASE ResumeAllThreads(a)
  BY <1>6 DEF ResumeAllThreads
<1> QED
  BY <1>2, <1>3, <1>4, <1>5, <1>6 DEF Rendezvous

(* A pause, seen by any thread. *)
LEMMA PauseSeen ==
  ASSUME TypeOK, Control, NEW a \in Actors, Rendezvous(a), NEW u
  PROVE  /\ threads_' = threads_ /\ userSuspended' = userSuspended /\ target' = target
         /\ PausersOf(u)' \ {a} = PausersOf(u) \ {a}
         /\ InflatorsOf(u)' = InflatorsOf(u)
         /\ \A r \in Threads : OwnsTarget(r)' <=> OwnsTarget(r)
         /\ a \in Threads => \A l \in {"deregister", "signal", "await", "gone", "absent",
                                        "pending", "stop_daemons"} :
                               pc'[a] # l /\ pc[a] # l
         /\ u \in Threads => (Checking(u)' <=> Checking(u)) /\ (Finishing(u)' <=> Finishing(u))
         /\ pc'[Main] = "deregister" <=> pc[Main] = "deregister"
<1>1. \A r \in Threads \ {a} : SameThread(r)
  BY RendezvousIsLocal
<1>2. \A b \in Actors \ {a} : pc'[b] = pc[b]
  BY <1>1, RendezvousIsLocal, ActorKinds DEF SameThread
<1>3. pc[a] = "resume_each" => cont[a] \in {"idle", "native", "managed"}
  BY ActorKinds DEF Control, ThreadFits, PauseFits, CollectorFits, Pauses
<1>4. /\ threads_' = threads_ /\ userSuspended' = userSuspended
      /\ ret' = ret /\ target' = target
      /\ pc[a] \in Pauses \cup {"idle", "native", "managed", "relock"}
      /\ pc'[a] \in Pauses \cup {"idle", "native", "managed", "relock"}
      /\ a \in Threads => cont'[a] # "inflate"
      /\ \A b \in Actors \ {a} : todo'[b] = todo[b]
  <2> USE <1>3, ActorKinds DEF TypeOK, Step, listVars, callVars, wordVars, Pauses
  <2>1. CASE SafepointBegin(a) \/ ResumedAll(a)
    BY <2>1 DEF SafepointBegin, ResumedAll
  <2>2. CASE RelockRunning(a) \/ SuspendAllThreads(a) \/ SuspendEach(a) \/ SuspendedAll(a)
    BY <2>2 DEF RelockRunning, SuspendAllThreads, SuspendEach, SuspendedAll, Control,
       ThreadFits, InflationFits, Polling, Suspending, Calls
  <2>3. CASE WriteLock(a) \/ DumpThreads(a) \/ SafepointEnd(a) \/ ResumeAllThreads(a)
             \/ ResumeEach(a)
    BY <2>3 DEF WriteLock, DumpThreads, SafepointEnd, ResumeAllThreads, ResumeEach, Control,
       ThreadFits, InflationFits, Polling, Suspending, Calls
  <2> QED
    BY <2>1, <2>2, <2>3 DEF Rendezvous
<1>5. a \in Threads => "inflate" \notin {ret[a], cont[a]}
  BY <1>4 DEF Control, ThreadFits, InflationFits, Polling, Suspending, Calls, Pauses
<1>6. \A b \in Actors \ {a} : u \in SuspendedBy(b)' <=> u \in SuspendedBy(b)
  BY <1>2, <1>4 DEF SuspendedBy, Pausing
<1>7. PausersOf(u)' \ {a} = PausersOf(u) \ {a}
  BY <1>6 DEF PausersOf
<1>8. \A r \in Threads : OwnsTarget(r)' <=> OwnsTarget(r)
  <2>1. ASSUME NEW r \in Threads, r # a PROVE OwnsTarget(r)' <=> OwnsTarget(r)
    BY <1>1, <2>1 DEF OwnsTarget, SameThread
  <2>2. a \in Threads => ~OwnsTarget(a) /\ ~OwnsTarget(a)'
    BY <1>4, <1>5 DEF OwnsTarget, Pauses
  <2> QED
    BY <2>1, <2>2
<1>9. InflatorsOf(u)' = InflatorsOf(u)
  BY <1>4, <1>8 DEF InflatorsOf
<1>10. \A r \in Threads : /\ Checking(r)' <=> Checking(r)
                          /\ Finishing(r)' <=> Finishing(r)
                          /\ pc'[r] = "deregister" <=> pc[r] = "deregister"
  BY <1>1, <1>4 DEF Checking, Finishing, SameThread, Pauses, Calls
<1>11. a \in Threads => \A l \in {"deregister", "signal", "await", "gone", "absent",
                                  "pending", "stop_daemons"} :
                         pc'[a] # l /\ pc[a] # l
  BY <1>4 DEF Pauses
<1> QED
  BY <1>4, <1>7, <1>8, <1>9, <1>10, <1>11, SuspensionAssumption

(* A pause charges each thread of the list once and takes it back once. *)
LEMMA RendezvousAgrees ==
  ASSUME TypeOK, Control, Membership, CountsAgree, NEW a \in Actors, Rendezvous(a)
  PROVE  CountsAgree'
<1> SUFFICES ASSUME NEW u \in threads_' PROVE Agrees(u)'
  BY CountsAgreeIsAgrees DEF CountsAgree, Agrees, Owed, PausersOf, InflatorsOf, Checking
<1>1. threads_' = threads_
  BY DEF Rendezvous, SafepointBegin, SuspendAllThreads, SuspendEach, SuspendedAll, WriteLock,
     DumpThreads, SafepointEnd, ResumeAllThreads, ResumeEach, ResumedAll, RelockRunning, listVars
<1>2. u \in threads_ /\ u \in Threads /\ Agrees(u)
  BY <1>1, CountsAgreeIsAgrees DEF TypeOK
<1>3. /\ userSuspended' = userSuspended
      /\ PausersOf(u)' \ {a} = PausersOf(u) \ {a}
      /\ InflatorsOf(u)' = InflatorsOf(u)
      /\ Checking(u)' <=> Checking(u)
      /\ pc'[Main] = "deregister" <=> pc[Main] = "deregister"
  BY <1>2, PauseSeen
<1>4. ASSUME \/ flags' = flags /\ suspendCount_' = suspendCount_
             \/ \E v \in Threads : Increment(v) \/ Decrement(v)
      PROVE  /\ One(userSuspended[u])' = One(userSuspended[u])
             /\ One(Checking(u))' = One(Checking(u))
             /\ One(pc[Main] = "deregister" /\ Late(u))' = One(pc[Main] = "deregister" /\ Late(u))
  <2>1. RUNTIME_TERMINATION_REQUEST \in flags'[u] <=> RUNTIME_TERMINATION_REQUEST \in flags[u]
    BY <1>2, <1>4, ImplEffect
  <2> QED
    BY <1>3, <2>1 DEF One, Late
<1>5. CASE ~SuspendEach(a) /\ ~ResumeEach(a)
  <2>1. flags' = flags /\ suspendCount_' = suspendCount_
    BY <1>5 DEF Rendezvous, SafepointBegin, SuspendAllThreads, SuspendedAll, WriteLock,
       DumpThreads, SafepointEnd, ResumeAllThreads, ResumedAll, RelockRunning, wordVars
  <2>2. a \in PausersOf(u)' <=> a \in PausersOf(u)
    BY <1>2, <1>5, PauseKeeps DEF PausersOf
  <2>3. PausersOf(u)' = PausersOf(u)
    BY <1>3, <2>2
  <2> QED
    BY <1>2, <1>3, <1>4, <2>1, <2>3, AgreesFrame
<1>6. CASE SuspendEach(a)
  <2>1. PICK v \in todo[a] : Increment(v) /\ todo' = [todo EXCEPT ![a] = @ \ {v}]
    BY <1>6 DEF SuspendEach
  <2>2. pc[a] = "suspend_each" /\ pc' = pc /\ v \in threads_ /\ v # a /\ v \in Threads
    BY <1>6, <2>1 DEF SuspendEach, Membership, Enumerating, TypeOK
  <2>3. /\ One(userSuspended[u])' = One(userSuspended[u])
        /\ One(Checking(u))' = One(Checking(u))
        /\ One(pc[Main] = "deregister" /\ Late(u))' = One(pc[Main] = "deregister" /\ Late(u))
    BY <1>4, <2>1, <2>2
  <2>4. /\ u # v => (a \in PausersOf(u)' <=> a \in PausersOf(u))
        /\ u = v => a \notin PausersOf(u) /\ a \in PausersOf(u)'
    BY <1>1, <1>2, <2>1, <2>2 DEF PausersOf, SuspendedBy, Pausing, TypeOK
  <2>5. CASE u # v
    <3>1. suspendCount_'[u] = suspendCount_[u] /\ flags'[u] = flags[u]
      BY <1>2, <2>1, <2>2, <2>5, ImplEffect
    <3>2. PausersOf(u)' = PausersOf(u)
      BY <1>3, <2>4, <2>5
    <3> QED
      BY <1>2, <1>3, <2>3, <3>1, <3>2, AgreesFrame
  <2>6. CASE u = v
    <3>1. PausersOf(u)' = PausersOf(u) \cup {a}
      BY <1>3, <2>4, <2>6
    <3>2. Cardinality(PausersOf(u)') = Cardinality(PausersOf(u)) + 1
      BY <2>4, <2>6, <3>1, CountedSets, FS_AddElement
    <3>3. Owed(u)' = Owed(u) + 1
      <4>1. /\ Cardinality(PausersOf(u)) \in Nat /\ Cardinality(InflatorsOf(u)) \in Nat
            /\ One(userSuspended[u]) \in Nat /\ One(Checking(u)) \in Nat
            /\ One(pc[Main] = "deregister" /\ Late(u)) \in Nat
        BY CountedSets DEF One
      <4> QED
        BY <1>3, <2>3, <3>2, <4>1 DEF Owed
    <3> QED
      BY <1>2, <2>1, <2>6, <3>3, AgreesUp
  <2> QED
    BY <2>5, <2>6
<1>7. CASE ResumeEach(a)
  <2>1. PICK v \in todo[a] : Decrement(v) /\ todo' = [todo EXCEPT ![a] = @ \ {v}]
    BY <1>7 DEF ResumeEach
  <2>2. pc[a] = "resume_each" /\ pc' = pc /\ v \in threads_ /\ v # a /\ v \in Threads
    BY <1>7, <2>1 DEF ResumeEach, Membership, Enumerating, TypeOK
  <2>3. /\ One(userSuspended[u])' = One(userSuspended[u])
        /\ One(Checking(u))' = One(Checking(u))
        /\ One(pc[Main] = "deregister" /\ Late(u))' = One(pc[Main] = "deregister" /\ Late(u))
    BY <1>4, <2>1, <2>2
  <2>4. /\ u # v => (a \in PausersOf(u)' <=> a \in PausersOf(u))
        /\ u = v => a \in PausersOf(u) /\ a \notin PausersOf(u)'
    BY <1>1, <1>2, <2>1, <2>2 DEF PausersOf, SuspendedBy, Pausing, TypeOK
  <2>5. CASE u # v
    <3>1. suspendCount_'[u] = suspendCount_[u] /\ flags'[u] = flags[u]
      BY <1>2, <2>1, <2>2, <2>5, ImplEffect
    <3>2. PausersOf(u)' = PausersOf(u)
      BY <1>3, <2>4, <2>5
    <3> QED
      BY <1>2, <1>3, <2>3, <3>1, <3>2, AgreesFrame
  <2>6. CASE u = v
    <3>1. PausersOf(u)' = PausersOf(u) \ {a}
      BY <1>3, <2>4, <2>6
    <3>2. Cardinality(PausersOf(u)') = Cardinality(PausersOf(u)) - 1
          /\ Cardinality(PausersOf(u)) > 0
      <4>1. IsFiniteSet(PausersOf(u)) /\ a \in PausersOf(u)
        BY <2>4, <2>6, CountedSets
      <4>2. Cardinality(PausersOf(u) \ {a}) = Cardinality(PausersOf(u)) - 1
        BY <4>1, FS_RemoveElement
      <4>3. Cardinality(PausersOf(u)) \in Nat /\ Cardinality(PausersOf(u)) # 0
        BY <4>1, FS_CardinalityType, FS_EmptySet
      <4> QED
        BY <3>1, <4>2, <4>3
    <3>3. Owed(u)' = Owed(u) - 1 /\ Owed(u) > 0
      <4>1. /\ Cardinality(PausersOf(u)) \in Nat /\ Cardinality(InflatorsOf(u)) \in Nat
            /\ One(userSuspended[u]) \in Nat /\ One(Checking(u)) \in Nat
            /\ One(pc[Main] = "deregister" /\ Late(u)) \in Nat
        BY CountedSets DEF One
      <4> QED
        BY <1>3, <2>3, <3>2, <4>1 DEF Owed
    <3> QED
      BY <1>2, <2>1, <2>6, <3>3, AgreesDown DEF Agrees
  <2> QED
    BY <2>5, <2>6
<1> QED
  BY <1>5, <1>6, <1>7

(* The shutdown suspends nobody: when StopDaemonThreads raises               *)
(* suspendNewCount_ every other thread of the list has its termination flag. *)
LEMMA ShutdownAgrees ==
  ASSUME TypeOK, Membership, Control, CountsAgree, Shutdown
  PROVE  CountsAgree'
<1> SUFFICES ASSUME NEW u \in threads_' PROVE Agrees(u)'
  BY CountsAgreeIsAgrees DEF CountsAgree, Agrees, Owed, PausersOf, InflatorsOf, Checking
<1> USE DEF Shutdown, WaitForDeregistration, StopDaemonThread, StopDaemonThreads,
        DeregisterSuspendedThreads, StopWait
<1>1. Main \in Threads /\ Main \in Actors /\ Main \in threads_
  BY SuspensionAssumption, ActorKinds DEF Membership, Members
<1>2. u \in threads_
  BY <1>1 DEF Remaining, listVars
<1>3. u \in Threads /\ Agrees(u)
  BY <1>2, CountsAgreeIsAgrees DEF TypeOK
<1>4. (\A r \in Threads \ {Main} : SameThread(r)) /\ SameCollectors
  BY ShutdownIsLocal
<1>5. /\ pc[Main] \in {"native", "stop_daemons", "deregister"}
      /\ pc'[Main] \in {"native", "stop_daemons", "deregister", "deregistered"}
      /\ ret' = ret /\ cont' = cont /\ target' = target
      /\ userSuspended' = userSuspended /\ suspendCount_' = suspendCount_
      /\ \A b \in Actors \ {Main} : todo'[b] = todo[b]
  BY <1>1 DEF Step, TypeOK, callVars, wordVars
<1>6. \A a \in Actors : u \in SuspendedBy(a)' <=> u \in SuspendedBy(a)
  <2>1. ASSUME NEW a \in Actors, a # Main PROVE u \in SuspendedBy(a)' <=> u \in SuspendedBy(a)
    <3>1. pc'[a] = pc[a] /\ todo'[a] = todo[a]
      BY <1>4, <1>5, <2>1, ActorKinds DEF SameThread, SameCollectors
    <3> QED
      BY <1>2, <3>1 DEF SuspendedBy, Pausing
  <2>2. u \notin SuspendedBy(Main)' /\ u \notin SuspendedBy(Main)
    BY <1>5 DEF SuspendedBy, Pausing
  <2> QED
    BY <2>1, <2>2
<1>7. PausersOf(u)' = PausersOf(u)
  BY <1>6 DEF PausersOf
<1>8. \A r \in Threads : /\ OwnsTarget(r)' <=> OwnsTarget(r)
                         /\ Checking(r)' <=> Checking(r)
  BY <1>4, <1>5 DEF OwnsTarget, Checking, SameThread
<1>9. InflatorsOf(u)' = InflatorsOf(u)
  BY <1>5, <1>8 DEF InflatorsOf
<1>10. SUSPEND_REQUEST \in flags'[u] <=> SUSPEND_REQUEST \in flags[u]
  BY <1>3 DEF TypeOK, wordVars, SUSPEND_REQUEST, RUNTIME_TERMINATION_REQUEST
<1>11. (pc[Main] = "deregister" /\ Late(u))' <=> pc[Main] = "deregister" /\ Late(u)
  <2>1. CASE pc[Main] = "native"
    BY <1>1, <2>1 DEF Step, TypeOK
  <2>2. CASE pc[Main] = "stop_daemons"
    <3>1. CASE StopDaemonThread
      BY <2>2, <3>1
    <3>2. CASE StopDaemonThreads
      <4>1. u = Main \/ RUNTIME_TERMINATION_REQUEST \in flags'[u]
        BY <1>2, <2>2, <3>2 DEF Membership, Enumerating, wordVars
      <4> QED
        BY <2>2, <4>1 DEF Late
    <3> QED
      BY <2>2, <3>1, <3>2 DEF Step
  <2>3. CASE pc[Main] = "deregister"
    <3>1. flags' = flags
      BY <2>3 DEF wordVars, Step
    <3>2. pc' = pc \/ threads_' = {Main}
      BY <2>3 DEF Step
    <3> QED
      BY <3>1, <3>2 DEF Late
  <2> QED
    BY <1>5, <2>1, <2>2, <2>3
<1>12. /\ One(userSuspended[u])' = One(userSuspended[u])
       /\ One(Checking(u))' = One(Checking(u))
       /\ One(pc[Main] = "deregister" /\ Late(u))' = One(pc[Main] = "deregister" /\ Late(u))
  BY <1>3, <1>5, <1>8, <1>11 DEF One
<1> QED
  BY <1>3, <1>5, <1>7, <1>9, <1>10, <1>12, AgreesFrame

(* The suspend counts agree after every step. *)
LEMMA CountsAgreeNext ==
  ASSUME TypeOK, Control, ThreadLock, Membership, NewCounts, CountsAgree, [Next]_vars
  PROVE  CountsAgree'
<1>1. ASSUME NEW t \in Threads, ThreadStep(t) PROVE CountsAgree'
  BY <1>1, ThreadStepCounts, QuietAgrees, CheckAgrees, InflationAgrees, RegisterAgrees
     DEF Control
<1>2. CASE UNCHANGED vars
  BY <1>2 DEF vars, wordVars, listVars, callVars, CountsAgree, SuspendedBy, Pausing,
     OwnsTarget, Late
<1> QED
  BY <1>1, <1>2, DebuggerAgrees, RendezvousAgrees, ShutdownAgrees DEF Next, Terminated

-----------------------------------------------------------------------------
(* A thread's own steps neither enter nor leave the exit of the main thread. *)
LEMMA ExitingStays ==
  ASSUME TypeOK, ThreadFits(Main), ThreadStep(Main),
         RUNTIME_TERMINATION_REQUEST \notin flags[Main]
  PROVE  Exiting(Main)' <=> Exiting(Main)
<1> DEFINE t == Main
<1>0. t \in Threads /\ t \in Actors
  BY SuspensionAssumption, ActorKinds
<1> USE <1>0 DEF TypeOK, Step, callVars, ThreadFits, Exiting, Polling, Suspending, Calls,
        Managed
<1>1. CASE Transitions(t)
  <2>1. CASE UpdateStatus(t) \/ StoreStatus(t) \/ TransitionUnlock(t)
    BY <2>1 DEF UpdateStatus, StoreStatus, TransitionUnlock, CallFits, StatusFits
  <2>2. CASE StoreStatusChecked(t) \/ LoadFts(t) \/ ReadLock(t)
    BY <2>2 DEF StoreStatusChecked, LoadFts, ReadLock, CallFits
  <2>3. CASE CasRunning(t) \/ CasRunningFail(t)
    BY <2>3 DEF CasRunning, CasRunningFail, Fresh, CallFits
  <2> QED
    BY <1>1, <2>1, <2>2, <2>3 DEF Transitions
<1>2. CASE Safepoint(t)
  BY <1>2 DEF Safepoint, Poll, PollSuspend, WaitSuspension, Suspended, Parked,
     TerminationLoop, CallUpdateStatus, PollFits
<1>3. CASE OwnCode(t)
  BY <1>3 DEF OwnCode, ManagedCodeBegin, ManagedCodeEnd, SafepointPoll, WaitWithLockHeld,
     WaitEnd, SuspendCheck, CallUpdateStatus
<1>4. CASE Inflation(t)
  BY <1>4 DEF Inflation, InflateThinLock, FindPoll, FindThread, AwaitSuspended, ResumeOwner,
     CallUpdateStatus
<1>5. CASE Life(t)
  BY <1>5 DEF Life, IncPendingThreads, RegisterThread, DecPendingThreads, Destroy, ExitCheck,
     Finish, CallUpdateStatus
<1> QED
  BY <1>1, <1>2, <1>3, <1>4, <1>5 DEF ThreadStep

(* A pause is not part of the exit of the main thread. *)
LEMMA PauseNotExiting ==
  ASSUME TypeOK, Control, NEW a \in Actors, Rendezvous(a)
  PROVE  Exiting(Main)' <=> Exiting(Main)
<1>1. Main \in Threads
  BY SuspensionAssumption
<1>2. CASE a # Main
  BY <1>1, <1>2, RendezvousIsLocal DEF SameThread, Exiting, Polling, Suspending
<1>3. CASE a = Main
  <2>1. pc[a] = "resume_each" => cont[a] \in {"idle", "native", "managed"}
    BY <1>1, <1>3 DEF Control, ThreadFits, PauseFits, Pauses
  <2>2. /\ pc[a] \in Pauses \cup {"idle", "native", "managed", "relock"}
        /\ pc'[a] \in Pauses \cup {"idle", "native", "managed", "relock"}
    BY <2>1 DEF Rendezvous, SafepointBegin, SuspendAllThreads, SuspendEach, SuspendedAll,
       WriteLock, DumpThreads, SafepointEnd, ResumeAllThreads, ResumeEach, ResumedAll,
       RelockRunning, TypeOK, Step, Pauses
  <2> QED
    BY <1>3, <2>2 DEF Exiting, Polling, Suspending, Calls, Pauses
<1> QED
  BY <1>2, <1>3

(* Who the threads on their way to the list are changes only by their own steps. *)
LEMMA PendingStep ==
  ASSUME TypeOK, Control, NEW t \in Threads, ThreadStep(t)
  PROVE  \/ IncPendingThreads(t) /\ t \notin Pending /\ Pending' = Pending \cup {t}
         \/ DecPendingThreads(t) /\ t \in Pending /\ Pending' = Pending \ {t}
         \/ pendingThreads_' = pendingThreads_ /\ Pending' = Pending
<1>1. \A u \in Threads \ {t} : pc'[u] = pc[u]
  BY ThreadStepIsLocal DEF SameThread
<1>2. Pending' \ {t} = Pending \ {t}
  BY <1>1 DEF Pending
<1>3. ThreadFits(t)
  BY DEF Control
<1> USE <1>3, ActorKinds DEF TypeOK, Step, callVars, listVars, ThreadFits, Pending
<1>4. CASE IncPendingThreads(t)
  <2>1. t \notin Pending /\ t \in Pending'
    BY <1>4 DEF IncPendingThreads
  <2> QED
    BY <1>2, <1>4, <2>1
<1>5. CASE DecPendingThreads(t)
  <2>1. t \in Pending /\ t \notin Pending'
    BY <1>5 DEF DecPendingThreads, CallUpdateStatus
  <2> QED
    BY <1>2, <1>5, <2>1
<1>6. ASSUME pendingThreads_' = pendingThreads_, t \in Pending' <=> t \in Pending
      PROVE  pendingThreads_' = pendingThreads_ /\ Pending' = Pending
  BY <1>2, <1>6
<1>7. CASE Transitions(t)
  <2>1. pendingThreads_' = pendingThreads_ /\ (t \in Pending' <=> t \in Pending)
    BY <1>7 DEF Transitions, UpdateStatus, StoreStatus, TransitionUnlock, StoreStatusChecked,
       LoadFts, ReadLock, CasRunning, CasRunningFail, CallFits, Calls, Managed
  <2> QED
    BY <1>6, <2>1
<1>8. CASE Safepoint(t)
  <2>1. pendingThreads_' = pendingThreads_ /\ (t \in Pending' <=> t \in Pending)
    BY <1>8 DEF Safepoint, Poll, PollSuspend, WaitSuspension, Suspended, Parked,
       TerminationLoop, CallUpdateStatus, PollFits, Polling, Suspending
  <2> QED
    BY <1>6, <2>1
<1>9. CASE OwnCode(t)
  <2>1. pendingThreads_' = pendingThreads_ /\ (t \in Pending' <=> t \in Pending)
    BY <1>9 DEF OwnCode, ManagedCodeBegin, ManagedCodeEnd, SafepointPoll, WaitWithLockHeld,
       WaitEnd, SuspendCheck, CallUpdateStatus
  <2> QED
    BY <1>6, <2>1
<1>10. CASE Inflation(t)
  <2>1. pendingThreads_' = pendingThreads_ /\ (t \in Pending' <=> t \in Pending)
    BY <1>10 DEF Inflation, InflateThinLock, FindPoll, FindThread, AwaitSuspended,
       ResumeOwner, CallUpdateStatus
  <2> QED
    BY <1>6, <2>1
<1>11. CASE RegisterThread(t) \/ Destroy(t) \/ ExitCheck(t) \/ Finish(t)
  <2>1. pendingThreads_' = pendingThreads_ /\ (t \in Pending' <=> t \in Pending)
    BY <1>11 DEF RegisterThread, Destroy, ExitCheck, Finish, CallUpdateStatus
  <2> QED
    BY <1>6, <2>1
<1> QED
  BY <1>4, <1>5, <1>7, <1>8, <1>9, <1>10, <1>11 DEF ThreadStep, Life

(* suspendNewCount_ and pendingThreads_ count what they stand for. *)
LEMMA NewCountsNext ==
  ASSUME TypeOK, Control, Membership, NewCounts, [Next]_vars
  PROVE  NewCounts'
<1>0. Main \in Threads /\ Main \in Actors
  BY SuspensionAssumption, ActorKinds
<1>1. ASSUME NEW t \in Threads, ThreadStep(t) PROVE NewCounts'
  <2>1. /\ pc[t] \notin Pauses \cup {"deregister"} /\ pc'[t] \notin Pauses \cup {"deregister"}
        /\ suspendNewCount_' = suspendNewCount_
    BY <1>1, ThreadStepCounts DEF Control
  <2>2. \A a \in Actors \ {t} : pc'[a] = pc[a]
    BY <1>1, ThreadStepIsLocal, ActorKinds DEF SameThread, SameCollectors
  <2>3. Pausers' = Pausers
    BY <2>1, <2>2 DEF Pausers, Pausing, Pauses
  <2>4. One(pc[Main] = "deregister")' = One(pc[Main] = "deregister")
    BY <1>0, <2>1, <2>2 DEF One
  <2>5. Exiting(Main)' <=> Exiting(Main)
    <3>1. CASE t = Main
      BY <1>1, <3>1, ExitingStays DEF Control, Membership, Members
    <3>2. CASE t # Main
      BY <1>0, <1>1, <3>2, ThreadStepIsLocal DEF SameThread, Exiting, Polling, Suspending
    <3> QED
      BY <3>1, <3>2
  <2>6. pendingThreads_' = Cardinality(Pending')
    <3>1. CASE IncPendingThreads(t) /\ t \notin Pending /\ Pending' = Pending \cup {t}
      BY <3>1, CountedSets, FS_AddElement DEF IncPendingThreads, NewCounts
    <3>2. CASE DecPendingThreads(t) /\ t \in Pending /\ Pending' = Pending \ {t}
      BY <3>2, CountedSets, FS_RemoveElement DEF DecPendingThreads, NewCounts
    <3> QED
      BY <1>1, <3>1, <3>2, PendingStep DEF NewCounts
  <2> QED
    BY <2>1, <2>3, <2>4, <2>5, <2>6 DEF NewCounts
<1>2. ASSUME NEW t \in Threads, DebuggerSuspend(t) \/ DebuggerResume(t) PROVE NewCounts'
  BY <1>2 DEF DebuggerSuspend, DebuggerResume, listVars, callVars, NewCounts, Exiting, Polling,
     Suspending, Pausers, Pausing, Pending
<1>3. ASSUME NEW a \in Actors, Rendezvous(a) PROVE NewCounts'
  <2>1. Exiting(Main)' <=> Exiting(Main)
    BY <1>3, PauseNotExiting
  <2>2. \A b \in Actors \ {a} : pc'[b] = pc[b]
    BY <1>3, RendezvousIsLocal, ActorKinds DEF SameThread
  <2>3. pc[a] = "resume_each" => cont[a] \in {"idle", "native", "managed"}
    BY ActorKinds DEF Control, ThreadFits, PauseFits, CollectorFits, Pauses
  <2>4. /\ pendingThreads_' = pendingThreads_
        /\ pc[a] \notin {"deregister", "pending", "registered"}
        /\ pc'[a] \notin {"deregister", "pending", "registered"}
        /\ \/ suspendNewCount_' = suspendNewCount_ /\ (Pausing(a)' <=> Pausing(a))
           \/ suspendNewCount_' = suspendNewCount_ + 1 /\ ~Pausing(a) /\ Pausing(a)'
           \/ /\ suspendNewCount_' = IF suspendNewCount_ > 0 THEN suspendNewCount_ - 1 ELSE 0
              /\ Pausing(a) /\ ~Pausing(a)'
    BY <1>3, <2>3
       DEF Rendezvous, SafepointBegin, SuspendAllThreads, SuspendEach, SuspendedAll,
           WriteLock, DumpThreads, SafepointEnd, ResumeAllThreads, ResumeEach, ResumedAll,
           RelockRunning, listVars, Step, TypeOK, Pausing
  <2>5. Pending' = Pending
    BY <2>2, <2>4, ActorKinds DEF Pending
  <2>6. Pausers' \ {a} = Pausers \ {a}
    BY <2>2 DEF Pausers, Pausing
  <2>7. One(pc[Main] = "deregister")' = One(pc[Main] = "deregister")
        /\ One(pc[Main] = "deregister") \in Nat
    BY <1>0, <2>2, <2>4 DEF One
  <2>8. CASE Pausing(a)' <=> Pausing(a)
    <3>1. Pausers' = Pausers
      BY <2>6, <2>8 DEF Pausers
    <3> QED
      BY <2>1, <2>4, <2>5, <2>7, <2>8, <3>1 DEF NewCounts
  <2>9. CASE ~Pausing(a) /\ Pausing(a)'
    <3>1. Pausers' = Pausers \cup {a} /\ a \notin Pausers
      BY <2>6, <2>9 DEF Pausers
    <3>2. Cardinality(Pausers') = Cardinality(Pausers) + 1 /\ Cardinality(Pausers) \in Nat
      BY <3>1, CountedSets, FS_AddElement
    <3> QED
      BY <2>1, <2>4, <2>5, <2>7, <2>9, <3>2 DEF NewCounts
  <2>10. CASE Pausing(a) /\ ~Pausing(a)'
    <3>1. Pausers' = Pausers \ {a} /\ a \in Pausers
      BY <2>6, <2>10 DEF Pausers
    <3>2. Cardinality(Pausers') = Cardinality(Pausers) - 1 /\ Cardinality(Pausers) \in Nat
          /\ Cardinality(Pausers) # 0
      BY <3>1, CountedSets, FS_RemoveElement, FS_EmptySet
    <3> QED
      BY <2>1, <2>4, <2>5, <2>7, <2>10, <3>2 DEF NewCounts
  <2> QED
    BY <2>8, <2>9, <2>10
<1>4. CASE Shutdown
  <2>1. \A b \in Actors \ {Main} : pc'[b] = pc[b]
    BY <1>4, ShutdownIsLocal, ActorKinds DEF SameThread, SameCollectors
  <2>2. /\ pendingThreads_' = pendingThreads_
        /\ pc[Main] \in {"native", "stop_daemons", "deregister"}
        /\ \/ /\ pc'[Main] \in {"native", "stop_daemons", "deregister"}
              /\ pc'[Main] = "deregister" <=> pc[Main] = "deregister"
              /\ suspendNewCount_' = suspendNewCount_
           \/ pc'[Main] = "deregistered"
           \/ /\ pc[Main] = "stop_daemons" /\ pc'[Main] = "deregister"
              /\ suspendNewCount_' = suspendNewCount_ + 1
    BY <1>0, <1>4
       DEF Shutdown, WaitForDeregistration, StopDaemonThread, StopDaemonThreads,
           DeregisterSuspendedThreads, StopWait, Step, TypeOK, listVars
  <2>3. Pausers' = Pausers /\ Pending' = Pending
    BY <2>1, <2>2, ActorKinds DEF Pausers, Pausing, Pending
  <2>4. ~Exiting(Main)
    BY <2>2 DEF Exiting, Polling, Suspending, Calls
  <2>5. pc'[Main] = "deregistered" => Exiting(Main)'
    BY DEF Exiting
  <2> QED
    BY <2>2, <2>3, <2>4, <2>5, CountedSets DEF NewCounts, One
<1>5. CASE UNCHANGED vars
  BY <1>5 DEF vars, listVars, callVars, NewCounts, Exiting, Polling, Suspending, Pausers,
     Pausing, Pending
<1> QED
  BY <1>1, <1>2, <1>3, <1>4, <1>5 DEF Next, Terminated

-----------------------------------------------------------------------------
(* Whose word a step of t's own can change: its own in SuspendCheck and in  *)
(* RegisterThread, its target's in an inflation.                            *)
LEMMA ThreadStepWords ==
  ASSUME IInv, NEW t \in Threads, ThreadStep(t)
  PROVE  /\ \A u \in Threads : RUNTIME_TERMINATION_REQUEST \in flags'[u]
                             <=> RUNTIME_TERMINATION_REQUEST \in flags[u]
         /\ \A u \in Threads \ {t} :
              \/ flags'[u] = flags[u] /\ suspendCount_'[u] = suspendCount_[u]
              \/ pc[t] = "find" /\ pc'[t] = "await" /\ target[t] = u /\ u \in threads_
                 /\ threadLock_ = None /\ Increment(u)
              \/ pc[t] = "inflate" /\ pc'[t] = "signal" /\ target[t] = u /\ Decrement(u)
         /\ pc[t] # "find" \/ pc'[t] # "await" => (OwnsTarget(t)' => OwnsTarget(t))
         /\ \/ flags'[t] = flags[t] /\ suspendCount_'[t] = suspendCount_[t]
            \/ pc[t] \in {"pending", "managed", "check_resume"}
               /\ pc'[t] \notin {"absent", "pending"}
         /\ userSuspended' = userSuspended
         /\ \/ threads_' = threads_
            \/ threads_' = threads_ \ {t} /\ pc[t] = "remove" /\ pc'[t] = "gone" /\ t # Main
            \/ threads_' = threads_ \cup {t} /\ pc[t] = "pending" /\ pc'[t] = "registered"
               /\ threadLock_ = None
<1>0. TypeOK /\ ThreadFits(t) /\ t \in Actors
  BY ActorKinds DEF IInv, Control
<1>1. \/ Quiet(t) \/ RegisterThread(t)
      \/ SuspendCheck(t) /\ (pc[t] = "managed" \/ pc[t] = "check_resume")
      \/ FindThread(t) /\ pc'[t] = "await"
      \/ ResumeOwner(t) /\ pc[t] = "inflate"
  BY <1>0, ThreadStepCounts
<1>2. CASE Quiet(t)
  BY <1>2 DEF Quiet
<1>3. CASE RegisterThread(t)
  <2>1. OwnsTarget(t)' <=> OwnsTarget(t)
    BY <1>0, <1>3 DEF RegisterThread, Step, callVars, TypeOK, OwnsTarget
  <2> QED
    BY <1>0, <1>3, <2>1
       DEF RegisterThread, Step, TypeOK, SUSPEND_REQUEST, RUNTIME_TERMINATION_REQUEST
<1>4. CASE SuspendCheck(t) /\ (pc[t] = "managed" \/ pc[t] = "check_resume")
  <2>1. /\ threads_' = threads_ /\ userSuspended' = userSuspended /\ ret' = ret /\ cont' = cont
        /\ \/ pc[t] = "managed" /\ pc' = [pc EXCEPT ![t] = "check_unlock"] /\ Increment(t)
           \/ pc[t] = "check_resume" /\ pc' = [pc EXCEPT ![t] = "managed"] /\ Decrement(t)
    BY <1>4 DEF SuspendCheck, Step, listVars, callVars
  <2> QED
    BY <1>0, <2>1, ImplEffect DEF OwnsTarget, TypeOK
<1>5. CASE (FindThread(t) /\ pc'[t] = "await") \/ (ResumeOwner(t) /\ pc[t] = "inflate")
  <2>1. /\ threads_' = threads_ /\ userSuspended' = userSuspended
        /\ ret' = ret /\ cont' = cont /\ target[t] \in Threads /\ target[t] # t
        /\ \/ pc[t] = "find" /\ pc' = [pc EXCEPT ![t] = "await"] /\ Increment(target[t])
              /\ target[t] \in threads_ /\ threadLock_ = None
           \/ pc[t] = "inflate" /\ pc' = [pc EXCEPT ![t] = "signal"] /\ Decrement(target[t])
    BY <1>0, <1>5
       DEF FindThread, ResumeOwner, Step, listVars, callVars, CallUpdateStatus, TypeOK,
           ThreadFits, InflationFits, OwnsTarget
  <2> QED
    BY <1>0, <2>1, ImplEffect DEF OwnsTarget, TypeOK
<1> QED
  BY <1>1, <1>2, <1>3, <1>4, <1>5

(* Where a thread can be before it is in the list and after it left it. *)
LEMMA ThreadStepEnds ==
  ASSUME TypeOK, NEW t \in Threads, ThreadFits(t), ThreadStep(t)
  PROVE  /\ pc'[t] \in {"absent", "pending"} => pc[t] = "absent"
         /\ pc'[t] = "gone" => pc[t] = "remove" /\ (t # Main => threads_' = threads_ \ {t})
         /\ Finishing(t)' => Finishing(t) \/ (pc[t] = "exit_lock" /\ flags[t] = {})
         /\ pc'[t] = "signal" => pc[t] = "inflate" /\ target'[t] = target[t]
         /\ OwnsTarget(t)' => target'[t] = target[t]
         /\ OwnsTarget(t)' /\ pc'[t] # "await"
              => OwnsTarget(t) /\ (pc[t] = "await" => status[target[t]] # "RUNNING")
         /\ pc[t] # "gone" /\ (pc[t] = "absent" => pc'[t] = "pending")
         /\ pc[t] = "pending" => t \in threads_'
         /\ status'[t] = "RUNNING" => status[t] = "RUNNING" \/ (pc[t] = "cas" /\ flags[t] = {})
         /\ pc[t] = "find" /\ pc'[t] = "await" => target[t] \in threads_ /\ threadLock_ = None
         /\ pc[t] \notin {"find", "await"} /\ pc'[t] = "await" => FALSE
         /\ pc'[t] # "stop_daemons"
<1>0. t \in Actors
  BY ActorKinds
<1> USE <1>0 DEF TypeOK, Step, callVars, listVars, wordVars, ThreadFits, InflationFits,
        OwnsTarget, Finishing, Calls, Managed
<1>1. CASE Transitions(t)
  <2>1. CASE UpdateStatus(t) \/ StoreStatus(t) \/ TransitionUnlock(t)
    BY <2>1 DEF UpdateStatus, StoreStatus, TransitionUnlock, CallFits, StatusFits, Suspending,
       Polling
  <2>2. CASE StoreStatusChecked(t) \/ LoadFts(t) \/ ReadLock(t)
    BY <2>2 DEF StoreStatusChecked, LoadFts, ReadLock, CallFits, Suspending, Polling
  <2>3. CASE CasRunning(t) \/ CasRunningFail(t)
    BY <2>3 DEF CasRunning, CasRunningFail, Fresh, CallFits, Suspending, Polling
  <2> QED
    BY <1>1, <2>1, <2>2, <2>3 DEF Transitions
<1>2. CASE Safepoint(t)
  BY <1>2 DEF Safepoint, Poll, PollSuspend, WaitSuspension, Suspended, Parked,
     TerminationLoop, CallUpdateStatus, PollFits, Polling, Suspending
<1>3. CASE OwnCode(t)
  BY <1>3 DEF OwnCode, ManagedCodeBegin, ManagedCodeEnd, SafepointPoll, WaitWithLockHeld,
     WaitEnd, SuspendCheck, CallUpdateStatus, Suspending, Polling
<1>4. CASE Inflation(t)
  BY <1>4 DEF Inflation, InflateThinLock, FindPoll, FindThread, AwaitSuspended, ResumeOwner,
     CallUpdateStatus, Suspending, Polling
<1>5. CASE Life(t)
  <2>1. CASE Finish(t)
    <3>1. t # Main => threads_ \ ({t} \ {Main}) = threads_ \ {t}
      OBVIOUS
    <3> QED
      BY <2>1, <3>1 DEF Finish, CallUpdateStatus, Suspending, Polling
  <2>2. CASE IncPendingThreads(t) \/ RegisterThread(t) \/ DecPendingThreads(t) \/ Destroy(t)
             \/ ExitCheck(t)
    BY <2>2 DEF IncPendingThreads, RegisterThread, DecPendingThreads, Destroy, ExitCheck,
       CallUpdateStatus, Suspending, Polling
  <2> QED
    BY <1>5, <2>1, <2>2 DEF Life
<1> QED
  BY <1>1, <1>2, <1>3, <1>4, <1>5 DEF ThreadStep

(* A thread that can still be resumed, or was given up, cannot become RUNNING. *)
LEMMA RequestStops ==
  ASSUME IInv, NEW t \in Threads, pc[t] = "cas", flags[t] = {}
  PROVE  t \in threads_ /\ InflatorsOf(t) = {} /\ PausersOf(t) = {}
<1>1. TypeOK /\ CountsAgree /\ GivenUp
  BY DEF IInv
<1>2. t \in threads_
  BY <1>1 DEF GivenUp, Deregistered
<1> QED
  BY <1>1, <1>2, RequestIsSet

(* Owners stay stopped and in memory, whatever thread t does. *)
LEMMA ThreadStepOwners ==
  ASSUME IInv, NEW t \in Threads, ThreadStep(t)
  PROVE  OwnerStopped' /\ Targets'
<1>0. TypeOK /\ ThreadFits(t) /\ Targets /\ OwnerStopped /\ ThreadLock /\ Members /\ GivenUp
      /\ CountsAgree
  BY DEF IInv, Control, Membership
<1>1. \A u \in Threads \ {t} : SameThread(u)
  BY <1>0, ThreadStepIsLocal
<1>2. /\ pc'[t] \in {"absent", "pending"} => pc[t] = "absent"
      /\ pc'[t] = "gone" => pc[t] = "remove"
      /\ Finishing(t)' => Finishing(t) \/ (pc[t] = "exit_lock" /\ flags[t] = {})
      /\ pc'[t] = "signal" => pc[t] = "inflate" /\ target'[t] = target[t]
      /\ OwnsTarget(t)' => target'[t] = target[t]
      /\ OwnsTarget(t)' /\ pc'[t] # "await"
           => OwnsTarget(t) /\ (pc[t] = "await" => status[target[t]] # "RUNNING")
      /\ status'[t] = "RUNNING" => status[t] = "RUNNING" \/ (pc[t] = "cas" /\ flags[t] = {})
      /\ pc[t] = "find" /\ pc'[t] = "await" => target[t] \in threads_ /\ threadLock_ = None
      /\ pc[t] \notin {"find", "await"} /\ pc'[t] = "await" => FALSE
  BY <1>0, ThreadStepEnds
<1>3. target[t] # t /\ (OwnsTarget(t) \/ pc[t] = "signal" => target[t] \in Threads)
  BY <1>0 DEF ThreadFits, InflationFits
<1>4. \A r \in Threads \ {t} :
        /\ OwnsTarget(r)' <=> OwnsTarget(r)
        /\ target'[r] = target[r] /\ pc'[r] = pc[r] /\ status'[r] = status[r]
        /\ Finishing(r)' <=> Finishing(r)
  BY <1>1 DEF SameThread, OwnsTarget, Finishing
<1>5. pc[t] = "inflate" => OwnsTarget(t)
  BY DEF OwnsTarget
<1>6. OwnsTarget(t)' \/ pc'[t] = "signal" =>
        /\ target'[t] = target[t] /\ target[t] \in Threads
        /\ OwnsTarget(t) \/ (pc'[t] = "await" /\ target[t] \in threads_ /\ threadLock_ = None)
  <2>1. OwnsTarget(t)' /\ pc'[t] = "await" => OwnsTarget(t) \/ pc[t] = "find"
    BY <1>2 DEF OwnsTarget
  <2> QED
    BY <1>0, <1>2, <1>3, <1>5, <2>1 DEF TypeOK
<1>7. ASSUME NEW r \in Threads, OwnsTarget(r)', pc'[r] # "await"
      PROVE  status'[target'[r]] # "RUNNING"
  <2>1. CASE r = t
    BY <1>0, <1>2, <1>3, <1>4, <1>6, <1>7, <2>1 DEF OwnerStopped
  <2>2. CASE r # t
    <3>1. status[target[r]] # "RUNNING" /\ target'[r] = target[r] /\ OwnsTarget(r)
      BY <1>0, <1>4, <1>7, <2>2 DEF OwnerStopped
    <3>2. target[r] \in Threads
      BY <3>1 DEF IInv, Control, ThreadFits, InflationFits
    <3>3. CASE target[r] = t
      <4>1. r \in InflatorsOf(t)
        BY <3>1, <3>3 DEF InflatorsOf
      <4> QED
        BY <1>2, <3>1, <3>3, <4>1, RequestStops
    <3> QED
      BY <1>4, <3>1, <3>2, <3>3
  <2> QED
    BY <2>1, <2>2
<1>8. ASSUME NEW r \in Threads, OwnsTarget(r)' \/ pc'[r] = "signal"
      PROVE  /\ target'[r] = Main \/ pc'[target'[r]] # "gone"
             /\ pc'[target'[r]] \notin {"absent", "pending"}
  <2>1. CASE r = t
    BY <1>0, <1>3, <1>4, <1>6, <1>8, <2>1 DEF OwnerStopped, Targets, Members
  <2>2. CASE r # t
    <3>1. OwnsTarget(r) \/ pc[r] = "signal"
      BY <1>4, <1>8, <2>2
    <3>2. target'[r] = target[r] /\ target[r] \in Threads
      BY <1>4, <2>2, <3>1 DEF IInv, Control, ThreadFits, InflationFits
    <3>3. CASE target[r] = t
      <4>1. pc[t] # "remove"
        BY <1>0, <2>2, <3>1, <3>3, ActorKinds
           DEF Targets, InflatorsOf, Finishing, ThreadLock, InThreadLock
      <4> QED
        BY <1>0, <1>2, <3>1, <3>2, <3>3, <4>1 DEF Targets
    <3>4. CASE target[r] # t
      BY <1>0, <1>4, <3>1, <3>2, <3>4 DEF Targets, OwnerStopped
    <3> QED
      BY <3>3, <3>4
  <2> QED
    BY <2>1, <2>2
<1>9. ASSUME NEW u \in Threads, Finishing(u)', NEW r \in Threads, OwnsTarget(r)',
             target'[r] = u
      PROVE  FALSE
  <2>1. Finishing(u) => threadLock_ = u /\ InflatorsOf(u) = {}
    BY <1>0, ActorKinds DEF ThreadLock, InThreadLock, Targets
  <2>2. CASE u = t
    <3>1. r # t
      BY <1>3, <1>6, <1>9, <2>2
    <3>2. r \in InflatorsOf(u)
      BY <1>4, <1>9, <3>1 DEF InflatorsOf
    <3>3. pc[t] = "exit_lock" /\ flags[t] = {}
      BY <1>2, <1>9, <2>1, <2>2, <3>2
    <3>4. status[t] = "RUNNING"
      BY <1>0, <3>3 DEF ThreadFits, StatusFits, Managed
    <3>5. t \in threads_
      BY <1>0, <3>3, <3>4 DEF GivenUp, Deregistered
    <3> QED
      BY <1>0, <2>2, <3>2, <3>3, <3>5, RequestIsSet
  <2>3. CASE u # t
    <3>1. threadLock_ = u /\ InflatorsOf(u) = {}
      BY <1>4, <1>9, <2>1, <2>3
    <3>2. r = t
      BY <1>4, <1>9, <3>1 DEF InflatorsOf
    <3> QED
      BY <1>6, <1>9, <3>1, <3>2, ActorKinds DEF InflatorsOf
  <2> QED
    BY <2>2, <2>3
<1>10. OwnerStopped'
  BY <1>7, <1>8 DEF OwnerStopped
<1>11. \A u \in Threads : Finishing(u)' => InflatorsOf(u)' = {}
  BY <1>9 DEF InflatorsOf
<1> QED
  BY <1>8, <1>10, <1>11 DEF Targets

(* Nor does it disturb the thread list, the enumerations of it or its end. *)
LEMMA ThreadStepMembers ==
  ASSUME IInv, NEW t \in Threads, ThreadStep(t)
  PROVE  Members' /\ Enumerating' /\ Alone'
<1>0. TypeOK /\ ThreadFits(t) /\ Members /\ Targets /\ Enumerating /\ Alone /\ ThreadLock
      /\ NewCounts /\ Main \in Threads
  BY SuspensionAssumption DEF IInv, Control, Membership
<1>1. (\A u \in Threads \ {t} : SameThread(u)) /\ SameCollectors
  BY <1>0, ThreadStepIsLocal
<1>2. \A a \in Actors \ {t} : pc'[a] = pc[a]
  BY <1>1, ActorKinds DEF SameThread, SameCollectors
<1>3. /\ \A u \in Threads : RUNTIME_TERMINATION_REQUEST \in flags'[u]
                          <=> RUNTIME_TERMINATION_REQUEST \in flags[u]
      /\ userSuspended' = userSuspended
      /\ \/ threads_' = threads_
         \/ threads_' = threads_ \ {t} /\ pc[t] = "remove" /\ pc'[t] = "gone" /\ t # Main
         \/ threads_' = threads_ \cup {t} /\ pc[t] = "pending" /\ pc'[t] = "registered"
            /\ threadLock_ = None
  BY ThreadStepWords
<1>4. Members'
  <2>1. ASSUME NEW u \in Threads, u # t, pc'[u] \in {"absent", "pending"}
        PROVE  /\ u \notin threads_' /\ u # Main /\ flags'[u] = {} /\ suspendCount_'[u] = 0
               /\ ~userSuspended'[u]
    <3>1. /\ pc[u] \in {"absent", "pending"} /\ u \notin threads_ /\ u # Main /\ flags[u] = {}
          /\ suspendCount_[u] = 0 /\ ~userSuspended[u]
      BY <1>0, <1>2, <2>1, ActorKinds DEF Members
    <3>2. ~(pc[t] = "inflate" /\ target[t] = u)
      BY <1>0, <3>1 DEF Targets, OwnsTarget
    <3>3. flags'[u] = flags[u] /\ suspendCount_'[u] = suspendCount_[u]
      BY <2>1, <3>1, <3>2, ThreadStepWords
    <3> QED
      BY <1>3, <2>1, <3>1, <3>3
  <2>2. ASSUME pc'[t] \in {"absent", "pending"}
        PROVE  /\ t \notin threads_' /\ t # Main /\ flags'[t] = {} /\ suspendCount_'[t] = 0
               /\ ~userSuspended'[t]
    <3>1. pc[t] = "absent"
      BY <1>0, <2>2, ThreadStepEnds
    <3>2. t \notin threads_ /\ t # Main /\ flags[t] = {} /\ suspendCount_[t] = 0
          /\ ~userSuspended[t]
      BY <1>0, <3>1 DEF Members
    <3>3. flags'[t] = flags[t] /\ suspendCount_'[t] = suspendCount_[t]
      BY <3>1, ThreadStepWords
    <3> QED
      BY <1>3, <3>1, <3>2, <3>3
  <2>3. ASSUME NEW u \in Threads, pc'[u] = "gone", u # Main PROVE u \notin threads_'
    <3>1. CASE u = t
      BY <1>0, <2>3, <3>1, ThreadStepEnds
    <3>2. CASE u # t
      BY <1>0, <1>2, <1>3, <2>3, <3>2, ActorKinds DEF Members
    <3> QED
      BY <3>1, <3>2
  <2>4. Main \in threads_' /\ RUNTIME_TERMINATION_REQUEST \notin flags'[Main]
    BY <1>0, <1>3 DEF Members
  <2> QED
    BY <2>1, <2>2, <2>3, <2>4 DEF Members
<1>5. ASSUME NEW a \in Actors, a # t, threadLock_ = a PROVE threads_' = threads_
  <2>1. pc[t] # "remove"
    BY <1>0, <1>5, ActorKinds DEF ThreadLock, InThreadLock, Finishing
  <2> QED
    BY <1>3, <1>5, <2>1, ActorKinds
<1>6. Enumerating'
  <2>1. pc'[t] \notin {"suspend_each", "resume_each", "stop_daemons"} /\ todo' = todo
    BY <1>0, ThreadStepCounts, ThreadStepEnds DEF Pauses
  <2>2. ASSUME NEW a \in Actors, pc'[a] \in {"suspend_each", "resume_each", "stop_daemons"}
        PROVE  pc[a] = pc'[a] /\ threads_' = threads_
    <3>1. a # t /\ pc[a] = pc'[a]
      BY <1>2, <2>1, <2>2
    <3>2. threadLock_ = a
      BY <1>0, <2>2, <3>1 DEF ThreadLock, InThreadLock
    <3> QED
      BY <1>5, <3>1, <3>2
  <2>3. \A a \in Actors : pc'[a] \in {"suspend_each", "resume_each"}
                          => todo'[a] \subseteq threads_' \ {a}
    BY <1>0, <2>1, <2>2 DEF Enumerating
  <2>4. ASSUME pc'[Main] = "stop_daemons"
        PROVE  /\ todo'[Main] \subseteq threads_' \ {Main}
               /\ \A u \in threads_' \ {Main} :
                    u \in todo'[Main] \/ RUNTIME_TERMINATION_REQUEST \in flags'[u]
    <3>1. pc[Main] = "stop_daemons" /\ threads_' = threads_ /\ threads_ \subseteq Threads
      BY <1>0, <2>2, <2>4, ActorKinds DEF TypeOK
    <3> QED
      BY <1>0, <1>3, <2>1, <3>1 DEF Enumerating
  <2> QED
    BY <2>3, <2>4 DEF Enumerating
<1>7. Alone'
  <2> SUFFICES ASSUME Exiting(Main)' PROVE threads_' = {Main} /\ pendingThreads_' = 0
    BY DEF Alone
  <2>1. Exiting(Main)
    <3>1. CASE t = Main
      BY <1>0, <3>1, ExitingStays DEF Members
    <3>2. CASE t # Main
      BY <1>0, <1>1, <3>2 DEF SameThread, Exiting, Polling, Suspending
    <3> QED
      BY <3>1, <3>2
  <2>2. threads_ = {Main} /\ pendingThreads_ = 0 /\ ~Live(Main)
    BY <1>0, <2>1 DEF Alone, Exiting, Live, Calls, Polling, Suspending
  <2>3. pc[t] \notin {"pending", "registered"}
    BY <1>0, <2>2, PendingIsCounted
  <2>4. ~IncPendingThreads(t)
    BY <2>2 DEF IncPendingThreads
  <2>5. ~DecPendingThreads(t)
    BY <2>3 DEF DecPendingThreads, CallUpdateStatus, Step
  <2>6. pendingThreads_' = pendingThreads_
    BY <1>0, <2>4, <2>5, PendingStep DEF IInv
  <2> QED
    BY <1>3, <2>2, <2>3, <2>6
<1> QED
  BY <1>4, <1>6, <1>7

(* A thread that was given up and one step of another thread, or its own. *)
LEMMA ThreadStepGivenUp ==
  ASSUME IInv, NEW t \in Threads, ThreadStep(t)
  PROVE  GivenUp'
<1>0. TypeOK /\ ThreadFits(t) /\ GivenUp /\ Members
  BY DEF IInv, Control, Membership
<1>1. \A u \in Threads \ {t} : SameThread(u)
  BY <1>0, ThreadStepIsLocal
<1> SUFFICES ASSUME NEW u \in Threads, Deregistered(u)'
             PROVE  /\ status'[u] # "RUNNING"
                    /\ \/ RUNTIME_TERMINATION_REQUEST \in flags'[u]
                       \/ /\ SUSPEND_REQUEST \in flags'[u]
                          /\ suspendCount_'[u] > Cardinality(InflatorsOf(u)')
  BY DEF GivenUp
<1>3. Deregistered(u)
  <2>1. CASE u # t
    BY <1>1, <2>1, ThreadStepWords DEF SameThread, Deregistered
  <2>2. CASE u = t
    BY <1>0, <2>2, ThreadStepWords, ThreadStepEnds DEF Deregistered
  <2> QED
    BY <2>1, <2>2
<1>4. /\ status[u] # "RUNNING" /\ u \notin threads_ /\ flags[u] # {}
      /\ \/ RUNTIME_TERMINATION_REQUEST \in flags[u]
         \/ /\ SUSPEND_REQUEST \in flags[u]
            /\ suspendCount_[u] > Cardinality(InflatorsOf(u))
  BY <1>0, <1>3 DEF GivenUp, Deregistered
<1>5. status'[u] # "RUNNING"
  <2>1. CASE u # t
    BY <1>1, <1>4, <2>1 DEF SameThread
  <2>2. CASE u = t
    BY <1>0, <1>4, <2>2, ThreadStepEnds
  <2> QED
    BY <2>1, <2>2
<1>6. InflatorsOf(u)' \subseteq InflatorsOf(u)
  <2>1. ASSUME NEW r \in Threads, r # t, OwnsTarget(r)', target'[r] = u
        PROVE  OwnsTarget(r) /\ target[r] = u
    BY <1>1, <2>1 DEF SameThread, OwnsTarget
  <2>2. ASSUME OwnsTarget(t)', target'[t] = u PROVE OwnsTarget(t) /\ target[t] = u
    BY <1>0, <1>4, <2>2, ThreadStepEnds, ThreadStepWords
  <2> QED
    BY <2>1, <2>2 DEF InflatorsOf
<1>7. Cardinality(InflatorsOf(u)') <= Cardinality(InflatorsOf(u))
      /\ Cardinality(InflatorsOf(u)') \in Nat /\ Cardinality(InflatorsOf(u)) \in Nat
  BY <1>6, CountedSets, FS_Subset, FS_CardinalityType
<1>8. CASE flags'[u] = flags[u] /\ suspendCount_'[u] = suspendCount_[u]
  BY <1>0, <1>4, <1>5, <1>7, <1>8 DEF TypeOK
<1>9. CASE u # t /\ pc[t] = "inflate" /\ pc'[t] = "signal" /\ target[t] = u /\ Decrement(u)
  <2>1. t \in InflatorsOf(u)
    BY <1>9 DEF InflatorsOf, OwnsTarget
  <2>2. Cardinality(InflatorsOf(u)) > 0
    BY <2>1, CountedSets
  <2>3. t \notin InflatorsOf(u)'
    <3>1. ThreadFits(t)'
      BY <1>0, ControlNext DEF IInv, Control, Next
    <3> QED
      BY <1>9, <3>1 DEF ThreadFits, InflationFits, InflatorsOf, OwnsTarget, Polling, Suspending,
         Calls
  <2>4. IsFiniteSet(InflatorsOf(u) \ {t})
        /\ Cardinality(InflatorsOf(u) \ {t}) = Cardinality(InflatorsOf(u)) - 1
    BY <2>1, CountedSets, FS_RemoveElement
  <2>5. Cardinality(InflatorsOf(u)') <= Cardinality(InflatorsOf(u)) - 1
    BY <1>6, <2>3, <2>4, FS_Subset
  <2>6. CASE RUNTIME_TERMINATION_REQUEST \in flags[u]
    BY <1>0, <1>5, <1>9, <2>6, ImplEffect
  <2>7. CASE /\ SUSPEND_REQUEST \in flags[u]
             /\ suspendCount_[u] > Cardinality(InflatorsOf(u))
    <3>1. suspendCount_[u] \in Nat /\ suspendCount_[u] > 1
      BY <1>0, <1>7, <2>2, <2>7 DEF TypeOK
    <3>2. suspendCount_'[u] = suspendCount_[u] - 1 /\ SUSPEND_REQUEST \in flags'[u]
      BY <1>0, <1>9, <2>7, <3>1, ImplEffect
    <3> QED
      BY <1>5, <1>7, <2>5, <2>7, <3>1, <3>2
  <2> QED
    BY <1>4, <2>6, <2>7
<1>10. CASE u = t /\ pc[t] \in {"pending", "managed", "check_resume"}
  <2>1. FALSE
    BY <1>0, <1>3, <1>4, <1>10 DEF ThreadFits, StatusFits, Managed, Deregistered
  <2> QED
    BY <2>1
<1> QED
  BY <1>4, <1>8, <1>9, <1>10, ThreadStepWords

-----------------------------------------------------------------------------
(* The debugger touches the words of threads in the list only. *)
LEMMA DebuggerMembers ==
  ASSUME IInv, NEW t \in Threads, DebuggerSuspend(t) \/ DebuggerResume(t)
  PROVE  Membership' /\ GivenUp' /\ OwnerStopped'
<1>0. TypeOK /\ Members /\ Targets /\ Enumerating /\ Alone /\ GivenUp /\ OwnerStopped
  BY DEF IInv, Membership
<1>1. /\ t \in threads_ /\ (Increment(t) \/ Decrement(t))
      /\ status' = status /\ threads_' = threads_ /\ pendingThreads_' = pendingThreads_
      /\ goal' = goal /\ ret' = ret /\ old' = old /\ back' = back /\ cont' = cont /\ pc' = pc
      /\ todo' = todo /\ target' = target
      /\ \A u \in Threads \ {t} : userSuspended'[u] = userSuspended[u]
  BY <1>0 DEF DebuggerSuspend, DebuggerResume, listVars, callVars, TypeOK
<1>2. /\ \A u \in Threads : RUNTIME_TERMINATION_REQUEST \in flags'[u]
                          <=> RUNTIME_TERMINATION_REQUEST \in flags[u]
      /\ \A u \in Threads \ threads_ : flags'[u] = flags[u]
                                     /\ suspendCount_'[u] = suspendCount_[u]
                                     /\ userSuspended'[u] = userSuspended[u]
  BY <1>0, <1>1, ImplEffect
<1>3. Members'
  BY <1>0, <1>1, <1>2, SuspensionAssumption DEF Members
<1>4. Targets'
  BY <1>0, <1>1 DEF Targets, InflatorsOf, OwnsTarget, Finishing
<1>5. Enumerating'
  BY <1>0, <1>1, <1>2 DEF Enumerating, TypeOK
<1>6. Alone'
  BY <1>0, <1>1 DEF Alone, Exiting, Polling, Suspending
<1>7. GivenUp'
  BY <1>0, <1>1, <1>2 DEF GivenUp, Deregistered, InflatorsOf, OwnsTarget
<1>8. OwnerStopped'
  BY <1>0, <1>1 DEF OwnerStopped, OwnsTarget
<1> QED
  BY <1>3, <1>4, <1>5, <1>6, <1>7, <1>8 DEF Membership

(* A pause visits threads of the list only and writes nothing but their count *)
(* and request flag.                                                         *)
LEMMA PauseWords ==
  ASSUME IInv, NEW a \in Actors, Rendezvous(a)
  PROVE  /\ status' = status /\ pendingThreads_' = pendingThreads_
         /\ \A u \in Threads : RUNTIME_TERMINATION_REQUEST \in flags'[u]
                             <=> RUNTIME_TERMINATION_REQUEST \in flags[u]
         /\ \A u \in Threads \ threads_ : flags'[u] = flags[u]
                                        /\ suspendCount_'[u] = suspendCount_[u]
         /\ \A b \in Actors \ {a} : todo'[b] = todo[b] /\ pc'[b] = pc[b]
         /\ pc'[a] \in {"suspend_each", "resume_each"} => todo'[a] \subseteq threads_ \ {a}
<1>0. TypeOK /\ Enumerating
  BY DEF IInv, Membership
<1>1. \A b \in Actors \ {a} : pc'[b] = pc[b]
  BY <1>0, RendezvousIsLocal, ActorKinds DEF SameThread
<1>2. CASE SuspendEach(a) \/ ResumeEach(a)
  <2>1. PICK u \in todo[a] : (Increment(u) \/ Decrement(u))
                             /\ todo' = [todo EXCEPT ![a] = @ \ {u}]
    BY <1>2 DEF SuspendEach, ResumeEach
  <2>2. /\ status' = status /\ pendingThreads_' = pendingThreads_ /\ pc' = pc
        /\ todo[a] \subseteq threads_ \ {a}
    BY <1>0, <1>2 DEF SuspendEach, ResumeEach, listVars, Enumerating
  <2>3. u \in Threads /\ u \in threads_
    BY <1>0, <2>2 DEF TypeOK
  <2> QED
    BY <1>0, <2>1, <2>2, <2>3, ImplEffect DEF TypeOK
<1>3. CASE ~SuspendEach(a) /\ ~ResumeEach(a)
  <2>1. pc[a] = "resume_each" => cont[a] \in {"idle", "native", "managed"}
    BY ActorKinds DEF IInv, Control, ThreadFits, PauseFits, CollectorFits, Pauses
  <2> QED
    BY <1>0, <1>1, <1>3, <2>1
       DEF Rendezvous, SafepointBegin, SuspendAllThreads, SuspendedAll, WriteLock, DumpThreads,
           SafepointEnd, ResumeAllThreads, ResumedAll, RelockRunning, TypeOK, Step, listVars,
           wordVars, callVars
<1> QED
  BY <1>2, <1>3

(* So it keeps the list, the threads given up and the stopped owners. *)
LEMMA PauseMembers ==
  ASSUME IInv, NEW a \in Actors, Rendezvous(a)
  PROVE  Membership' /\ GivenUp' /\ OwnerStopped'
<1>0. TypeOK /\ Control /\ Members /\ Targets /\ Enumerating /\ Alone /\ GivenUp /\ OwnerStopped
      /\ Main \in Threads /\ threads_ \subseteq Threads
  BY SuspensionAssumption DEF IInv, Membership, TypeOK
<1>1. /\ threads_' = threads_ /\ userSuspended' = userSuspended /\ target' = target
      /\ a \in Threads => \A l \in {"deregister", "signal", "await", "gone", "absent",
                                     "pending", "stop_daemons"} :
                            pc'[a] # l /\ pc[a] # l
  BY <1>0, PauseSeen
<1>2. /\ status' = status /\ pendingThreads_' = pendingThreads_
      /\ \A u \in Threads : RUNTIME_TERMINATION_REQUEST \in flags'[u]
                          <=> RUNTIME_TERMINATION_REQUEST \in flags[u]
      /\ \A u \in Threads \ threads_ : flags'[u] = flags[u]
                                     /\ suspendCount_'[u] = suspendCount_[u]
      /\ \A b \in Actors \ {a} : todo'[b] = todo[b] /\ pc'[b] = pc[b]
      /\ pc'[a] \in {"suspend_each", "resume_each"} => todo'[a] \subseteq threads_ \ {a}
  BY PauseWords
<1>3. \A u \in Threads, l \in {"deregister", "signal", "await", "gone", "absent", "pending",
                               "stop_daemons"} : pc'[u] = l <=> pc[u] = l
  BY <1>1, <1>2, ActorKinds
<1>4. Members'
  BY <1>0, <1>1, <1>2, <1>3 DEF Members
<1>5. Targets'
  <2>1. ASSUME NEW u \in Threads, OwnsTarget(u)' \/ pc'[u] = "signal"
        PROVE  pc'[target'[u]] \notin {"absent", "pending"}
    <3>1. OwnsTarget(u) \/ pc[u] = "signal"
      <4>1. OwnsTarget(u)' <=> OwnsTarget(u)
        BY <1>0, PauseSeen
      <4> QED
        BY <1>3, <2>1, <4>1
    <3>2. target[u] \in Threads
      BY <1>0, <3>1 DEF Control, ThreadFits, InflationFits
    <3> QED
      BY <1>0, <1>1, <1>3, <3>1, <3>2 DEF Targets
  <2>2. ASSUME NEW u \in Threads, Finishing(u)' PROVE InflatorsOf(u)' = {}
    <3>1. (Finishing(u)' <=> Finishing(u)) /\ InflatorsOf(u)' = InflatorsOf(u)
      BY <1>0, PauseSeen
    <3> QED
      BY <1>0, <2>2, <3>1 DEF Targets
  <2> QED
    BY <2>1, <2>2 DEF Targets
<1>6. Enumerating'
  <2>1. \A b \in Actors : pc'[b] \in {"suspend_each", "resume_each"}
                          => todo'[b] \subseteq threads_' \ {b}
    BY <1>0, <1>1, <1>2 DEF Enumerating
  <2>2. pc'[Main] = "stop_daemons" => pc[Main] = "stop_daemons" /\ a # Main
    BY <1>0, <1>1, <1>3
  <2> QED
    BY <1>0, <1>1, <1>2, <2>1, <2>2, ActorKinds DEF Enumerating
<1>7. Alone'
  BY <1>0, <1>1, <1>2, PauseNotExiting DEF Alone
<1>8. GivenUp'
  <2> SUFFICES ASSUME NEW u \in Threads, Deregistered(u)'
               PROVE  /\ status'[u] # "RUNNING"
                      /\ \/ RUNTIME_TERMINATION_REQUEST \in flags'[u]
                         \/ /\ SUSPEND_REQUEST \in flags'[u]
                            /\ suspendCount_'[u] > Cardinality(InflatorsOf(u)')
    BY DEF GivenUp
  <2>1. Deregistered(u) /\ u \notin threads_
    BY <1>1, <1>3 DEF Deregistered
  <2>2. InflatorsOf(u)' = InflatorsOf(u)
    BY <1>0, PauseSeen
  <2> QED
    BY <1>0, <1>2, <2>1, <2>2 DEF GivenUp
<1>9. OwnerStopped'
  <2> SUFFICES ASSUME NEW u \in Threads, OwnsTarget(u)' \/ pc'[u] = "signal"
               PROVE  /\ OwnsTarget(u)' /\ pc'[u] # "await" => status'[target'[u]] # "RUNNING"
                      /\ target'[u] = Main \/ pc'[target'[u]] # "gone"
    BY DEF OwnerStopped
  <2>1. OwnsTarget(u)' <=> OwnsTarget(u)
    BY <1>0, PauseSeen
  <2>2. target[u] \in Threads
    BY <1>0, <1>3, <2>1 DEF Control, ThreadFits, InflationFits
  <2> QED
    BY <1>0, <1>1, <1>2, <1>3, <2>1, <2>2 DEF OwnerStopped
<1> QED
  BY <1>4, <1>5, <1>6, <1>7, <1>8, <1>9 DEF Membership

-----------------------------------------------------------------------------
(* When HasNoActiveThreads lets the shutdown begin only daemons are left. *)
LEMMA NoneActive ==
  ASSUME TypeOK, Members, HasNoActiveThreads
  PROVE  threads_ \ {Main} \subseteq Daemons
<1>1. SUFFICES ASSUME NEW u \in threads_, u # Main, u \notin Daemons PROVE FALSE
  OBVIOUS
<1> DEFINE D == threads_ \cap Daemons
           E == D \cup {Main}
<1>2. IsFiniteSet(threads_) /\ IsFiniteSet(D) /\ IsFiniteSet(E)
  BY SuspensionAssumption, FS_Subset, FS_AddElement DEF TypeOK
<1>3. Main \notin D /\ u \notin E /\ E \cup {u} \subseteq threads_
  BY <1>1, SuspensionAssumption DEF Members
<1> HIDE DEF E
<1>4. Cardinality(E \cup {u}) = Cardinality(E) + 1
  BY <1>2, <1>3, FS_AddElement
<1>5. Cardinality(E) = Cardinality(D) + 1
  BY <1>2, <1>3, FS_AddElement DEF E
<1>6. Cardinality(E \cup {u}) <= Cardinality(threads_)
  BY <1>2, <1>3, FS_Subset
<1>7. Cardinality(threads_) \in Nat /\ Cardinality(D) \in Nat
  BY <1>2, FS_CardinalityType
<1> QED
  BY <1>4, <1>5, <1>6, <1>7 DEF HasNoActiveThreads

(* What the shutdown changes: the daemons' termination flags, and the list. *)
LEMMA ShutdownMembers ==
  ASSUME IInv, Shutdown
  PROVE  Membership' /\ GivenUp' /\ OwnerStopped'
<1>0. /\ TypeOK /\ Control /\ Members /\ Targets /\ Enumerating /\ Alone /\ GivenUp
      /\ OwnerStopped /\ ThreadLock /\ CountsAgree
      /\ Main \in Threads /\ Main \in Actors /\ threads_ \subseteq Threads
  BY SuspensionAssumption, ActorKinds DEF IInv, Membership, TypeOK
<1>1. /\ status' = status /\ suspendCount_' = suspendCount_ /\ userSuspended' = userSuspended
      /\ goal' = goal /\ ret' = ret /\ old' = old /\ back' = back /\ cont' = cont
      /\ target' = target /\ pendingThreads_' = pendingThreads_
      /\ \A a \in Actors \ {Main} : pc'[a] = pc[a] /\ todo'[a] = todo[a]
      /\ pc[Main] \in {"native", "stop_daemons", "deregister"}
      /\ pc'[Main] \in {"native", "stop_daemons", "deregister", "deregistered"}
      /\ threads_' \subseteq threads_ /\ (threads_' = threads_ \/ DeregisterSuspendedThreads)
      /\ Main \in threads_'
  BY <1>0
     DEF Shutdown, WaitForDeregistration, StopDaemonThread, StopDaemonThreads,
         DeregisterSuspendedThreads, StopWait, Step, TypeOK, listVars, wordVars, callVars,
         Members, Remaining
<1>2. /\ \A u \in Threads : RUNTIME_TERMINATION_REQUEST \in flags[u]
                           => RUNTIME_TERMINATION_REQUEST \in flags'[u]
      /\ \A u \in Threads : u \notin threads_ \/ u = Main => flags'[u] = flags[u]
      /\ \A u \in Threads : SUSPEND_REQUEST \in flags[u] => SUSPEND_REQUEST \in flags'[u]
  <2>1. CASE StopDaemonThread
    <3>1. PICK u \in todo[Main] :
             flags' = [flags EXCEPT ![u] = @ \cup {RUNTIME_TERMINATION_REQUEST}]
      BY <2>1 DEF StopDaemonThread
    <3>2. u \in threads_ /\ u # Main
      BY <1>0, <2>1 DEF StopDaemonThread, Enumerating
    <3> QED
      BY <1>0, <3>1, <3>2 DEF TypeOK
  <2>2. CASE ~StopDaemonThread
    <3>1. flags' = flags
      BY <2>2 DEF Shutdown, WaitForDeregistration, StopDaemonThreads,
         DeregisterSuspendedThreads, StopWait, wordVars
    <3> QED
      BY <3>1
  <2> QED
    BY <2>1, <2>2
<1>3. \A u \in Threads : (OwnsTarget(u)' <=> OwnsTarget(u)) /\ (Finishing(u)' <=> Finishing(u))
  BY <1>0, <1>1, ActorKinds DEF OwnsTarget, Finishing, Calls
<1>4. \A u \in Threads, l \in {"signal", "await", "gone", "absent", "pending"} :
         pc'[u] = l <=> pc[u] = l
  BY <1>1, ActorKinds
<1>5. \A u : InflatorsOf(u)' = InflatorsOf(u)
  BY <1>1, <1>3 DEF InflatorsOf
<1>6. Members'
  BY <1>0, <1>1, <1>2, <1>4 DEF Members
<1>7. \A u \in Threads : OwnsTarget(u) \/ pc[u] = "signal" => target[u] \in Threads
  BY <1>0 DEF Control, ThreadFits, InflationFits
<1>8. Targets'
  BY <1>0, <1>1, <1>3, <1>4, <1>5, <1>7 DEF Targets
<1>9. OwnerStopped'
  BY <1>0, <1>1, <1>3, <1>4, <1>7 DEF OwnerStopped
<1>10. Enumerating'
  <2>1. ASSUME NEW a \in Actors, pc'[a] \in {"suspend_each", "resume_each"}
        PROVE  todo'[a] \subseteq threads_' \ {a}
    <3>1. a # Main /\ pc[a] = pc'[a] /\ todo'[a] = todo[a]
      BY <1>1, <2>1
    <3>2. threadLock_ = a
      BY <1>0, <2>1, <3>1 DEF ThreadLock, InThreadLock
    <3>3. threads_' = threads_
      BY <1>1, <3>1, <3>2 DEF DeregisterSuspendedThreads
    <3> QED
      BY <1>0, <2>1, <3>1, <3>3 DEF Enumerating
  <2>2. ASSUME pc'[Main] = "stop_daemons"
        PROVE  /\ todo'[Main] \subseteq threads_' \ {Main}
               /\ \A u \in threads_' \ {Main} :
                    u \in todo'[Main] \/ RUNTIME_TERMINATION_REQUEST \in flags'[u]
    <3>1. CASE WaitForDeregistration
      <4>1. threads_ \ {Main} \subseteq Daemons
        BY <1>0, <3>1, NoneActive DEF WaitForDeregistration
      <4>2. todo'[Main] = threads_ \cap Daemons /\ threads_' = threads_ /\ Main \notin Daemons
        BY <1>0, <3>1, SuspensionAssumption DEF WaitForDeregistration, TypeOK
      <4> QED
        BY <4>1, <4>2
    <3>2. CASE StopDaemonThread
      <4>1. PICK u \in todo[Main] :
               /\ flags' = [flags EXCEPT ![u] = @ \cup {RUNTIME_TERMINATION_REQUEST}]
               /\ todo' = [todo EXCEPT ![Main] = @ \ {u}]
        BY <3>2 DEF StopDaemonThread
      <4>2. threads_' = threads_ /\ pc[Main] = "stop_daemons"
        BY <3>2 DEF StopDaemonThread, listVars
      <4>3. todo'[Main] = todo[Main] \ {u} /\ RUNTIME_TERMINATION_REQUEST \in flags'[u]
        BY <1>0, <4>1 DEF TypeOK
      <4> QED
        BY <1>0, <1>2, <4>2, <4>3 DEF Enumerating
    <3> QED
      BY <1>0, <2>2, <3>1, <3>2
         DEF Shutdown, StopDaemonThreads, DeregisterSuspendedThreads, StopWait, Step, TypeOK
  <2> QED
    BY <2>1, <2>2 DEF Enumerating
<1>11. Alone'
  <2>1. CASE pc'[Main] = "deregistered"
    BY <1>0, <2>1
       DEF Shutdown, WaitForDeregistration, StopDaemonThread, StopDaemonThreads,
           DeregisterSuspendedThreads, StopWait, Step, TypeOK, Alone
  <2>2. CASE pc'[Main] # "deregistered"
    BY <1>1, <2>2 DEF Alone, Exiting, Polling, Suspending, Calls
  <2> QED
    BY <2>1, <2>2
<1>12. GivenUp'
  <2> SUFFICES ASSUME NEW u \in Threads, Deregistered(u)'
               PROVE  /\ status[u] # "RUNNING"
                      /\ \/ RUNTIME_TERMINATION_REQUEST \in flags'[u]
                         \/ /\ SUSPEND_REQUEST \in flags'[u]
                            /\ suspendCount_[u] > Cardinality(InflatorsOf(u))
    BY <1>1, <1>5 DEF GivenUp
  <2>1. pc[u] \notin {"absent", "pending", "gone"} /\ u \notin threads_'
    BY <1>4 DEF Deregistered
  <2>2. CASE u \notin threads_
    BY <1>0, <1>2, <2>1, <2>2 DEF GivenUp, Deregistered
  <2>3. CASE u \in threads_
    <3>1. DeregisterSuspendedThreads /\ u # Main
      BY <1>1, <2>1, <2>3
    <3>2. pc[Main] = "deregister" /\ status[u] # "RUNNING"
      BY <2>1, <2>3, <3>1
         DEF DeregisterSuspendedThreads, Remaining, CanDeregister, AllBlocked
    <3>3. CASE RUNTIME_TERMINATION_REQUEST \notin flags[u]
      <4>1. Late(u)
        BY <3>1, <3>3 DEF Late
      <4>2. SUSPEND_REQUEST \in flags[u]
            /\ suspendCount_[u] >= Cardinality(InflatorsOf(u)) + 1
        BY <1>0, <2>3, <3>2, <4>1, RequestIsSet DEF One
      <4> QED
        BY <1>0, <1>2, <3>2, <4>2, CountedSets DEF TypeOK
    <3> QED
      BY <1>2, <3>2, <3>3
  <2> QED
    BY <2>2, <2>3
<1> QED
  BY <1>6, <1>8, <1>9, <1>10, <1>11, <1>12 DEF Membership

-----------------------------------------------------------------------------
(* The invariant holds initially, with nobody in the runtime's functions. *)
LEMMA InitIInv ==
  ASSUME Init
  PROVE  IInv
<1>0. Main \in Initial /\ Initial \subseteq Threads /\ Main \in Threads
  BY SuspensionAssumption
<1>1. /\ \A t \in Threads : pc[t] \in {"native", "absent"} /\ (t \in Initial => pc[t] = "native")
                            /\ (t \notin Initial => pc[t] = "absent")
      /\ \A c \in Collectors : pc[c] = "idle"
  BY ActorKinds DEF Init
<1>2. \A a \in Actors : pc[a] \in {"native", "absent", "idle"}
  BY <1>1, ActorKinds
<1>3. TypeOK
  BY <1>0, Names, ActorKinds, SuspensionAssumption DEF Init, TypeOK
<1>4. Control
  BY <1>1, ActorKinds
     DEF Init, Control, ThreadFits, CollectorFits, StatusFits, CallFits, PollFits, PauseFits,
         InflationFits, Polling, Suspending, OwnsTarget, Calls, Managed, Pauses
<1>5. MutatorLock /\ ThreadLock
  BY <1>1, <1>2, ActorKinds
     DEF Init, MutatorLock, ThreadLock, Reading, InThreadLock, Finishing, Managed, Calls
<1>6. \A t : PausersOf(t) = {} /\ InflatorsOf(t) = {}
  <2>1. \A a \in Actors : SuspendedBy(a) = {}
    BY <1>2 DEF SuspendedBy, Pausing
  <2>2. \A r \in Threads : ~OwnsTarget(r)
    BY <1>1, ActorKinds DEF Init, OwnsTarget
  <2> QED
    BY <2>1, <2>2 DEF PausersOf, InflatorsOf
<1>7. Membership
  BY <1>0, <1>1, <1>2, <1>6, ActorKinds
     DEF Init, Membership, Members, Targets, Enumerating, Alone, Exiting, Polling, Suspending,
         OwnsTarget, Calls
<1>8. GivenUp
  BY <1>1 DEF Init, GivenUp, Deregistered
<1>9. NewCounts
  <2>1. Pausers = {} /\ Pending = {}
    BY <1>1, <1>2 DEF Pausers, Pausing, Pending
  <2>2. pc[Main] # "deregister"
    BY <1>0, <1>1
  <2> QED
    BY <2>1, <2>2, FS_EmptySet DEF Init, NewCounts, One
<1>10. CountsAgree
  <2>1. \A t \in Threads : ~Checking(t) /\ pc[Main] # "deregister"
    BY <1>0, <1>1 DEF Checking
  <2>2. \A t \in Threads : Agrees(t)
    <3>1. SUFFICES ASSUME NEW t \in Threads PROVE Agrees(t)
      OBVIOUS
    <3>2. ~userSuspended[t] /\ suspendCount_[t] = 0 /\ flags[t] = {}
      BY DEF Init
    <3>3. Cardinality(PausersOf(t)) = 0 /\ Cardinality(InflatorsOf(t)) = 0
      BY <1>6, FS_EmptySet
    <3>4. One(userSuspended[t]) = 0 /\ One(Checking(t)) = 0
          /\ One(pc[Main] = "deregister" /\ Late(t)) = 0
      BY <2>1, <3>2 DEF One
    <3> QED
      BY <3>2, <3>3, <3>4 DEF Agrees, Owed
  <2> QED
    BY <1>3, <2>2, CountsAgreeIsAgrees DEF TypeOK
<1>11. OwnerStopped
  BY <1>1, ActorKinds DEF Init, OwnerStopped, OwnsTarget
<1> QED
  BY <1>3, <1>4, <1>5, <1>7, <1>8, <1>9, <1>10, <1>11 DEF IInv

(* It is preserved by every step. *)
LEMMA NextIInv ==
  ASSUME IInv, [Next]_vars
  PROVE  IInv'
<1>1. TypeOK' /\ Control' /\ MutatorLock' /\ ThreadLock' /\ NewCounts' /\ CountsAgree'
  BY TypeNext, ControlNext, MutatorLockNext, ThreadLockNext, NewCountsNext, CountsAgreeNext
     DEF IInv
<1>2. Membership' /\ GivenUp' /\ OwnerStopped'
  <2>1. ASSUME NEW t \in Threads, ThreadStep(t) PROVE Membership' /\ GivenUp' /\ OwnerStopped'
    BY <2>1, ThreadStepOwners, ThreadStepMembers, ThreadStepGivenUp DEF Membership
  <2>2. ASSUME NEW t \in Threads, DebuggerSuspend(t) \/ DebuggerResume(t)
        PROVE  Membership' /\ GivenUp' /\ OwnerStopped'
    BY <2>2, DebuggerMembers
  <2>3. ASSUME NEW a \in Actors, Rendezvous(a) PROVE Membership' /\ GivenUp' /\ OwnerStopped'
    BY <2>3, PauseMembers
  <2>4. CASE Shutdown
    BY <2>4, ShutdownMembers
  <2>5. CASE UNCHANGED vars
    <3> USE <2>5 DEF vars, wordVars, listVars, callVars
    <3>1. Members' /\ Enumerating'
      BY DEF IInv, Membership, Members, Enumerating
    <3>2. Targets' /\ OwnerStopped'
      BY DEF IInv, Membership, Targets, OwnerStopped, OwnsTarget, InflatorsOf, Finishing
    <3>3. Alone'
      BY DEF IInv, Membership, Alone, Exiting, Polling, Suspending
    <3>4. GivenUp'
      BY DEF IInv, GivenUp, Deregistered, InflatorsOf, OwnsTarget
    <3> QED
      BY <3>1, <3>2, <3>3, <3>4 DEF Membership
  <2> QED
    BY <2>1, <2>2, <2>3, <2>4, <2>5 DEF Next, Terminated
<1> QED
  BY <1>1, <1>2 DEF IInv

(* The invariant from which every theorem below follows. *)
THEOREM Invariance == Spec => []IInv
<1>1. Init => IInv
  BY InitIInv
<1>2. IInv /\ [Next]_vars => IInv'
  BY NextIInv
<1> QED
  BY <1>1, <1>2, PTL DEF Spec

(* The variables keep their types; in particular DecPendingThreads and the   *)
(* resumption of suspendNewCount_ never take a counter below zero.           *)
THEOREM TypeCorrect == Spec => []TypeOK
<1>1. IInv => TypeOK
  BY DEF IInv
<1> QED
  BY <1>1, Invariance, PTL

(* While SuspendAll holds the mutator lock for writing no thread is at a place *)
(* where it touches managed objects.                                          *)
THEOREM WorldStops == Spec => []StopTheWorld
<1>1. IInv => StopTheWorld
  <2>1. ASSUME IInv, NEW t \in Threads, Mutating(t) PROVE t \in readers
    BY <2>1 DEF IInv, MutatorLock, Reading, Mutating, Managed
  <2> QED
    BY <2>1 DEF IInv, MutatorLock, StopTheWorld
<1> QED
  BY <1>1, Invariance, PTL

(* suspendCount_ is the number of suspensions still to be taken back, and the  *)
(* request flag is set exactly while it is positive.                          *)
THEOREM CountsAreExact == Spec => []CountsAgree
<1>1. IInv => CountsAgree
  BY DEF IInv
<1> QED
  BY <1>1, Invariance, PTL

(* The owner of an inflated lock is not running while its lock word is        *)
(* rewritten, and has not been deleted when it is resumed.                    *)
THEOREM OwnersPark == Spec => []OwnerParked
<1>1. IInv => OwnerParked
  BY DEF IInv, OwnerStopped, OwnerParked, OwnsTarget
<1> QED
  BY <1>1, Invariance, PTL

(* A thread DeregisterSuspendedThreads gave up never runs managed code again. *)
THEOREM DeregisteredStop == Spec => []DeregisteredNeverRuns
<1>1. ASSUME IInv, NEW t \in Threads, Deregistered(t) PROVE status[t] # "RUNNING" /\ ~Mutating(t)
  <2>1. status[t] # "RUNNING" /\ StatusFits(pc[t], status[t])
    BY <1>1 DEF IInv, GivenUp, Control, ThreadFits
  <2> QED
    BY <2>1 DEF StatusFits, Managed, Mutating
<1>2. IInv => DeregisteredNeverRuns
  BY <1>1 DEF DeregisteredNeverRuns
<1> QED
  BY <1>2, Invariance, PTL

(* Between SuspendAllThreads and ResumeAllThreads no other thread becomes     *)
(* RUNNING: only the compare-exchange on a word without requests does, and    *)
(* every thread such a pause suspends shows one.                              *)
THEOREM NobodyStartsRunning == Spec => NoneStartsRunning
<1>1. ASSUME IInv, Next, NEW a \in Actors, NEW t \in Threads, Pausing(a), t # a,
             status[t] # "RUNNING", status'[t] = "RUNNING"
      PROVE  FALSE
  <2>0. TypeOK
    BY <1>1 DEF IInv
  <2>1. ASSUME NEW u \in Threads, ThreadStep(u) PROVE FALSE
    <3>1. CASE u # t
      BY <1>1, <2>0, <2>1, <3>1, ThreadStepIsLocal DEF SameThread
    <3>2. CASE u = t
      <4>1. pc[t] = "cas" /\ flags[t] = {}
        BY <1>1, <2>0, <2>1, <3>2, ThreadStepEnds DEF IInv, Control
      <4>2. t \in threads_ /\ PausersOf(t) = {}
        BY <1>1, <4>1, RequestStops
      <4>3. a \in PausersOf(t)
        BY <1>1, <4>2 DEF PausersOf, SuspendedBy, Pausing
      <4> QED
        BY <4>2, <4>3
    <3> QED
      BY <3>1, <3>2
  <2>2. ASSUME NEW u \in Threads, DebuggerSuspend(u) \/ DebuggerResume(u) PROVE FALSE
    BY <1>1, <2>2 DEF DebuggerSuspend, DebuggerResume
  <2>3. ASSUME NEW b \in Actors, Rendezvous(b) PROVE FALSE
    BY <1>1, <2>3, PauseWords
  <2>4. CASE Shutdown \/ Terminated
    BY <1>1, <2>4
       DEF Shutdown, WaitForDeregistration, StopDaemonThread, StopDaemonThreads,
           DeregisterSuspendedThreads, StopWait, Terminated, vars, wordVars
  <2> QED
    BY <1>1, <2>1, <2>2, <2>3, <2>4 DEF Next
<1>2. IInv /\ [Next]_vars =>
        [\A a \in Actors, t \in Threads :
           /\ Pausing(a) /\ t # a /\ status[t] # "RUNNING"
           => status'[t] # "RUNNING"]_vars
  BY <1>1
<1> QED
  BY <1>2, Invariance, PTL DEF Spec, NoneStartsRunning
=============================================================================
