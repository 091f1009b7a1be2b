----------------------------- MODULE Coroutines -----------------------------
(***************************************************************************)
(* Stackful coroutines: the workers that schedule them                     *)
(* (stackful_coroutine_worker.cpp), the manager that launches, terminates  *)
(* and counts them and stops the workers at the end of the program         *)
(* (stackful_coroutine_manager.cpp), and the events they wait for          *)
(* (coroutine_events.h).                                                   *)
(*                                                                         *)
(* A worker is a thread that runs one coroutine at a time, cur[w].  Its    *)
(* schedule loop is a coroutine too, named after the worker; the loop of   *)
(* MainWorker is a fiber, as the thread runs Main.  The others are         *)
(* numbered in the order they are launched in, and coroutine d owns the    *)
(* completion event d.  One action is one critical section of the thread;  *)
(* sections of runnablesLock_ never wait for another lock, so that lock    *)
(* is not a variable.  Switching contexts is part of the section before    *)
(* it: what lies between is seen by this thread only.                      *)
(***************************************************************************)
EXTENDS Integers, Sequences, FiniteSets

CONSTANTS
  Workers, MainWorker, None,
  Main, Program,     \* the main coroutine; programCompletionEvent_
  MaxLaunch,         \* bound: the coroutines launched
  MaxYields,         \* bound: calls of Schedule and awaits that return at once
  SharedAwait        \* may coroutines of one worker await the same event?

Cos == 1 .. MaxLaunch
Coros == Cos \cup {Main} \cup Workers
Events == Cos \cup {Program}

ASSUME CoroutinesAssumption ==
  /\ IsFiniteSet(Workers) /\ MainWorker \in Workers
  /\ MaxLaunch \in Nat /\ MaxYields \in Nat
  /\ Main \notin Workers \cup Cos /\ Workers \cap Cos = {} /\ Program \notin Cos
  /\ None \notin Coros \cup Events /\ SharedAwait \in BOOLEAN

VARIABLES
  cur,              \* the coroutine each worker's thread runs
  runnables_, waiters_, finalizationQueue_, active_,   \* per worker
  status, pc,       \* per coroutine
  arg,              \* the event a coroutine waits for or unblocks
  happened_, resolved,      \* per event; has the promise of the coroutine settled?
  following,        \* the coroutines whose promise was resolved with a pending one
  eventLock, waitersLock_, workersLock_, programCompletionLock_,
  coroutineCount_, activeWorkersCount_,
  todo,             \* the workers a loop under workersLock_ has still to visit
  launched, yields

workerVars == <<runnables_, waiters_, finalizationQueue_, active_>>
eventVars == <<happened_, resolved, following>>
lockVars == <<eventLock, waitersLock_, workersLock_, programCompletionLock_>>
countVars == <<coroutineCount_, activeWorkersCount_>>
boundVars == <<launched, yields>>
vars == <<cur, workerVars, status, pc, arg, eventVars, lockVars, countVars, todo, boundVars>>

\* After Initialize: every thread worker runs its loop, MainWorker runs Main.
Init ==
  /\ cur = [w \in Workers |-> IF w = MainWorker THEN Main ELSE w]
  /\ runnables_ = [w \in Workers |-> IF w = MainWorker THEN <<w>> ELSE <<>>]
  /\ waiters_ = [w \in Workers |-> [e \in Events |-> None]]
  /\ finalizationQueue_ = [w \in Workers |-> {}]
  /\ active_ = [w \in Workers |-> TRUE]
  /\ status = [c \in Coros |-> IF c \in Cos THEN "CREATED"
                               ELSE IF c = MainWorker THEN "RUNNABLE" ELSE "RUNNING"]
  /\ pc = [c \in Coros |-> IF c \in Cos THEN "none" ELSE IF c = Main THEN "run" ELSE "loop"]
  /\ arg = [c \in Coros |-> None]
  /\ happened_ = [e \in Events |-> FALSE]
  /\ resolved = [d \in Cos |-> FALSE] /\ following = {}
  /\ eventLock = [e \in Events |-> None]
  /\ waitersLock_ = [w \in Workers |-> None]
  /\ workersLock_ = None /\ programCompletionLock_ = None
  /\ coroutineCount_ = 1 + Cardinality(Workers)
  /\ activeWorkersCount_ = Cardinality(Workers)
  /\ todo = {}
  /\ launched = 0 /\ yields = 0

-----------------------------------------------------------------------------
(* Scheduling on a worker.                                                 *)

\* The coroutine of w is at label "from".
At(w, from) == cur[w] # None /\ pc[cur[w]] = from

\* It goes on at "to", on the same thread.
Goto(w, from, to) == At(w, from) /\ pc' = [pc EXCEPT ![cur[w]] = to]

\* The pc of a thread worker's loop in runnablesCv_.Wait, once signalled.
Signalled(w, f) == IF f[w] = "cvWait" THEN [f EXCEPT ![w] = "cvWake"] ELSE f

\* PrepareNextRunnableContextForSwitch after s was stored as the queue of w;
\* the present coroutine c is left with status st, to go on at "back".
SwitchToNext(w, s, st, back) ==
  LET c == cur[w] IN
  /\ s # <<>>
  /\ runnables_' = [runnables_ EXCEPT ![w] = Tail(s)]
  /\ cur' = [cur EXCEPT ![w] = Head(s)]
  /\ status' = [status EXCEPT ![c] = st, ![Head(s)] = "RUNNING"]
  /\ pc' = [pc EXCEPT ![c] = back]

\* Where a coroutine goes on that gave its thread away.
Resumed == [to_run |-> "run", to_mLock |-> "mLock", to_loop |-> "loop", to_mDrain |-> "mDrain"]

\* A coroutine that is switched to runs FinalizeTerminatedCoros before it goes
\* on, unless it starts.  What is destroyed takes its completion event along.
Resume(w) ==
  /\ \E l \in DOMAIN Resumed : Goto(w, l, Resumed[l])
  /\ status' = [c \in Coros |-> IF c \in finalizationQueue_[w] THEN "NONE" ELSE status[c]]
  /\ finalizationQueue_' = [finalizationQueue_ EXCEPT ![w] = {}]
  /\ UNCHANGED <<cur, runnables_, waiters_, active_, arg, eventVars, lockVars, countVars, todo, boundVars>>

\* SuspendCurrentCoroAndScheduleNext.
SuspendAndScheduleNext(w, back) ==
  /\ SwitchToNext(w, Append(runnables_[w], cur[w]), "RUNNABLE", back)
  /\ UNCHANGED <<waiters_, finalizationQueue_, active_, arg, eventVars, lockVars, countVars, todo, launched>>

\* ScheduleLoopBody and RequestScheduleImpl.
LoopTest(w) ==
  /\ Goto(w, "loop", IF active_[w] THEN "schedule" ELSE "loopEnd")
  /\ UNCHANGED <<cur, workerVars, status, arg, eventVars, lockVars, countVars, todo, boundVars>>

LoopSchedule(w) ==
  /\ At(w, "schedule") /\ runnables_[w] # <<>>
  /\ SuspendAndScheduleNext(w, "to_loop")
  /\ UNCHANGED yields

\* WaitForRunnables, entered and after a wakeup.
WaitForRunnables(w) ==
  /\ \/ At(w, "schedule") /\ runnables_[w] = <<>>
     \/ At(w, "cvWake")
  /\ pc' = [pc EXCEPT ![w] = IF runnables_[w] = <<>> /\ active_[w] THEN "cvWait" ELSE "loop"]
  /\ UNCHANGED <<cur, workerVars, status, arg, eventVars, lockVars, countVars, todo, boundVars>>

\* Schedule() called by a coroutine: its loop is runnable, so it never waits.
Schedule(w) ==
  /\ At(w, "run") /\ yields < MaxYields
  /\ SuspendAndScheduleNext(w, "to_run")
  /\ yields' = yields + 1

-----------------------------------------------------------------------------
(* Launch.                                                                 *)

\* AttachToCoroutine registers the new coroutine.  A launch that fails for the
\* limit on coroutines throws in the caller and changes nothing.
LaunchRegister(w) ==
  /\ launched < MaxLaunch
  /\ Goto(w, "run", "enqueue")
  /\ coroutineCount_' = coroutineCount_ + 1
  /\ launched' = launched + 1
  /\ status' = [status EXCEPT ![launched + 1] = "RUNNABLE"]
  /\ arg' = [arg EXCEPT ![cur[w]] = launched + 1]
  /\ UNCHANGED <<cur, workerVars, eventVars, lockVars, activeWorkersCount_, todo, yields>>

\* ChooseWorkerForCoroutine goes by load factors: any worker.  In JS mode the
\* coroutine is put in front; here each launch may choose.
LaunchEnqueue(w, v, pushFront) ==
  LET d == arg[cur[w]] IN
  /\ At(w, "enqueue") /\ workersLock_ = None
  /\ runnables_' = [runnables_ EXCEPT ![v] = IF pushFront THEN <<d>> \o @ ELSE Append(@, d)]
  /\ pc' = Signalled(v, [pc EXCEPT ![cur[w]] = "run", ![d] = "run"])
  /\ arg' = [arg EXCEPT ![cur[w]] = None]
  /\ UNCHANGED <<cur, waiters_, finalizationQueue_, active_, status, eventVars, lockVars, countVars, todo, boundVars>>

-----------------------------------------------------------------------------
(* Waiting for an event.                                                   *)

\* EtsAwaitPromise locks the event under the lock of a pending promise, also when
\* its coroutine has ended and the event is gone: what is read of a deleted event is
\* what it was last, one outcome of many (see PendingKeepsEvent).  No coroutine
\* awaits an earlier one: programs without circular waits.
Await(w, d) ==
  LET c == cur[w] IN
  /\ At(w, "run") /\ (pc[d] # "none" \/ d \in following) /\ c \notin d .. MaxLaunch
  /\ ~resolved[d] /\ eventLock[d] = None
  /\ SharedAwait \/ waiters_[w][d] = None
  /\ happened_[d] => yields < MaxYields
  /\ yields' = IF happened_[d] THEN yields + 1 ELSE yields
  /\ pc' = [pc EXCEPT ![c] = "wait"]
  /\ eventLock' = [eventLock EXCEPT ![d] = c]
  /\ arg' = [arg EXCEPT ![c] = d]
  /\ UNCHANGED <<cur, workerVars, status, eventVars, waitersLock_, workersLock_, programCompletionLock_, countVars, todo, launched>>

\* Where the caller of WaitForEvent goes on.
After(e) == IF e = Program THEN "to_mLock" ELSE "to_run"

WaitTest(w) ==
  LET c == cur[w]
      e == arg[c]
  IN /\ Goto(w, "wait", IF happened_[e] THEN Resumed[After(e)] ELSE "enter")
     /\ eventLock' = [eventLock EXCEPT ![e] = IF happened_[e] THEN None ELSE @]
     /\ arg' = [arg EXCEPT ![c] = IF happened_[e] THEN None ELSE e]
     /\ UNCHANGED <<cur, workerVars, status, eventVars, waitersLock_, workersLock_, programCompletionLock_, countVars, todo, boundVars>>

\* waitersLock_ is taken before the event is unlocked.  std::map::insert does
\* nothing if the event has a waiter already.
WaitForEvent(w) ==
  LET c == cur[w]
      e == arg[c]
  IN /\ Goto(w, "enter", "block") /\ waitersLock_[w] = None
     /\ waitersLock_' = [waitersLock_ EXCEPT ![w] = c]
     /\ eventLock' = [eventLock EXCEPT ![e] = None]
     /\ waiters_' = [waiters_ EXCEPT ![w][e] = IF @ = None THEN c ELSE @]
     /\ UNCHANGED <<cur, runnables_, finalizationQueue_, active_, status, arg, eventVars, workersLock_, programCompletionLock_, countVars, todo, boundVars>>

BlockAndScheduleNext(w) ==
  /\ At(w, "block")
  /\ SwitchToNext(w, runnables_[w], "BLOCKED", After(arg[cur[w]]))
  /\ waitersLock_' = [waitersLock_ EXCEPT ![w] = None]
  /\ UNCHANGED <<waiters_, finalizationQueue_, active_, arg, eventVars, eventLock, workersLock_, programCompletionLock_, countVars, todo, boundVars>>

\* StackfulCoroutineManager::UnblockWaiters.
UnblockStart(w) ==
  /\ workersLock_ = None
  /\ Goto(w, "unblock", "unblocking")
  /\ workersLock_' = cur[w]
  /\ todo' = Workers
  /\ UNCHANGED <<cur, workerVars, status, arg, eventVars, eventLock, waitersLock_, programCompletionLock_, countVars, boundVars>>

\* Wrong variant: the entry of waiters_ is not erased.
UnblockNotErased(w, v) ==
  LET c == waiters_[v][arg[cur[w]]] IN
  /\ At(w, "unblocking") /\ v \in todo /\ waitersLock_[v] = None
  /\ IF c = None THEN UNCHANGED <<runnables_, status, pc>>
     ELSE /\ runnables_' = [runnables_ EXCEPT ![v] = Append(@, c)]
          /\ status' = [status EXCEPT ![c] = "RUNNABLE"]
          /\ pc' = Signalled(v, pc)
  /\ todo' = todo \ {v}
  /\ UNCHANGED <<cur, waiters_, arg, finalizationQueue_, active_, eventVars, lockVars, countVars, boundVars>>

\* StackfulCoroutineWorker::UnblockWaiters of one worker.
UnblockWaiters(w, v) ==
  LET e == arg[cur[w]]
      c == waiters_[v][e]
  IN /\ At(w, "unblocking") /\ v \in todo /\ waitersLock_[v] = None
     /\ IF c = None THEN UNCHANGED <<waiters_, runnables_, status, pc, arg>>
        ELSE /\ waiters_' = [waiters_ EXCEPT ![v][e] = None]
             /\ runnables_' = [runnables_ EXCEPT ![v] = Append(@, c)]
             /\ status' = [status EXCEPT ![c] = "RUNNABLE"]
             /\ pc' = Signalled(v, pc)
             /\ arg' = [arg EXCEPT ![c] = None]
     /\ todo' = todo \ {v}
     /\ UNCHANGED <<cur, finalizationQueue_, active_, eventVars, lockVars, countVars, boundVars>>

\* After its completion event a coroutine looks at the end of the program;
\* after that event it leaves CheckProgramCompletion.
UnblockEnd(w) ==
  LET program == arg[cur[w]] = Program IN
  /\ todo = {}
  /\ Goto(w, "unblocking", IF program THEN "final" ELSE "check")
  /\ workersLock_' = None
  /\ programCompletionLock_' = IF program THEN None ELSE programCompletionLock_
  /\ arg' = [arg EXCEPT ![cur[w]] = None]
  /\ UNCHANGED <<cur, workerVars, status, eventVars, eventLock, waitersLock_, countVars, todo, boundVars>>

-----------------------------------------------------------------------------
(* The end of a coroutine.                                                 *)

\* EtsCoroutine::RequestCompletion settles the promise.  The callbacks that
\* OnPromiseCompletion then runs launch, yield and await like any other code.
Resolve(w) ==
  /\ cur[w] \in Cos /\ At(w, "run") /\ ~resolved[cur[w]]
  /\ resolved' = [resolved EXCEPT ![cur[w]] = TRUE]
  /\ UNCHANGED <<cur, workerVars, status, pc, arg, happened_, following, lockVars, countVars, todo, boundVars>>

\* Wrong variant: the promise is not settled before.
CompleteUnsettled(w) ==
  /\ cur[w] \in Cos
  /\ Goto(w, "run", "complete")
  /\ UNCHANGED <<cur, workerVars, status, arg, eventVars, lockVars, countVars, todo, boundVars>>

\* Coroutine::RequestCompletion, after it.
RequestCompletion(w) ==
  /\ cur[w] \in Cos /\ resolved[cur[w]]
  /\ Goto(w, "run", "complete")
  /\ UNCHANGED <<cur, workerVars, status, arg, eventVars, lockVars, countVars, todo, boundVars>>

\* The returned value is a pending promise: EtsPromiseResolve subscribes to it and
\* leaves the own promise pending, with its event.
Follow(w) ==
  /\ cur[w] \in Cos /\ ~resolved[cur[w]]
  /\ Goto(w, "run", "complete")
  /\ following' = following \cup {cur[w]}
  /\ UNCHANGED <<cur, workerVars, status, arg, happened_, resolved, lockVars, countVars, todo, boundVars>>

\* Whoever settles that other promise settles the one that follows it.
ResolveFollower(w, d) ==
  /\ At(w, "run") /\ d \in following /\ ~resolved[d]
  /\ resolved' = [resolved EXCEPT ![d] = TRUE]
  /\ UNCHANGED <<cur, workerVars, status, pc, arg, happened_, following, lockVars, countVars, todo, boundVars>>

\* Wrong variant: happened_ is set without the lock of the event.
SetHappenedUnlocked(w) ==
  /\ At(w, "complete")
  /\ happened_' = [happened_ EXCEPT ![cur[w]] = TRUE]
  /\ status' = [status EXCEPT ![cur[w]] = "TERMINATING"]
  /\ pc' = [pc EXCEPT ![cur[w]] = "terminate"]
  /\ UNCHANGED <<cur, workerVars, arg, resolved, following, lockVars, countVars, todo, boundVars>>

SetHappened(w) ==
  /\ At(w, "complete") /\ eventLock[cur[w]] = None
  /\ happened_' = [happened_ EXCEPT ![cur[w]] = TRUE]
  /\ status' = [status EXCEPT ![cur[w]] = "TERMINATING"]
  /\ pc' = [pc EXCEPT ![cur[w]] = "terminate"]
  /\ UNCHANGED <<cur, workerVars, arg, resolved, following, lockVars, countVars, todo, boundVars>>

\* TerminateCoroutine up to the removal from the registry.
TerminateCoroutine(w) ==
  /\ Goto(w, "terminate", "unblock")
  /\ coroutineCount_' = coroutineCount_ - 1
  /\ arg' = [arg EXCEPT ![cur[w]] = cur[w]]
  /\ UNCHANGED <<cur, workerVars, status, eventVars, lockVars, activeWorkersCount_, todo, boundVars>>

CheckLock(w) ==
  /\ programCompletionLock_ = None
  /\ Goto(w, "check", "checkCount")
  /\ programCompletionLock_' = cur[w]
  /\ UNCHANGED <<cur, workerVars, status, arg, eventVars, eventLock, waitersLock_, workersLock_, countVars, todo, boundVars>>

\* CheckProgramCompletion: are only Main and the loops left?
CheckProgramCompletion(w) ==
  LET over == coroutineCount_ = 1 + activeWorkersCount_ IN
  /\ workersLock_ = None
  /\ Goto(w, "checkCount", IF over THEN "setProgram" ELSE "final")
  /\ programCompletionLock_' = IF over THEN programCompletionLock_ ELSE None
  /\ UNCHANGED <<cur, workerVars, status, arg, eventVars, eventLock, waitersLock_, workersLock_, countVars, todo, boundVars>>

SetProgramHappened(w) ==
  /\ eventLock[Program] = None
  /\ Goto(w, "setProgram", "unblock")
  /\ happened_' = [happened_ EXCEPT ![Program] = TRUE]
  /\ arg' = [arg EXCEPT ![cur[w]] = Program]
  /\ UNCHANGED <<cur, workerVars, status, resolved, following, lockVars, countVars, todo, boundVars>>

\* A coroutine cannot free the stack it runs on: the next one to resume does.
RequestFinalization(w) ==
  /\ At(w, "final")
  /\ finalizationQueue_' = [finalizationQueue_ EXCEPT ![w] = @ \cup {cur[w]}]
  /\ SwitchToNext(w, runnables_[w], "TERMINATING", "none")
  /\ UNCHANGED <<waiters_, active_, arg, eventVars, lockVars, countVars, todo, boundVars>>

\* The loop of MainWorker ends like a coroutine, without an event of its own.
FiberLoopEnd(w) ==
  /\ w = MainWorker
  /\ Goto(w, "loopEnd", "final")
  /\ status' = [status EXCEPT ![w] = "TERMINATING"]
  /\ coroutineCount_' = coroutineCount_ - 1
  /\ UNCHANGED <<cur, workerVars, arg, eventVars, lockVars, activeWorkersCount_, todo, boundVars>>

ThreadLoopEnd(w) ==
  /\ w # MainWorker
  /\ Goto(w, "loopEnd", "shutdown")
  /\ status' = [status EXCEPT ![w] = "NONE"]
  /\ coroutineCount_' = coroutineCount_ - 1
  /\ UNCHANGED <<cur, workerVars, arg, eventVars, lockVars, activeWorkersCount_, todo, boundVars>>

OnWorkerShutdown(w) ==
  /\ At(w, "shutdown") /\ workersLock_ = None
  /\ activeWorkersCount_' = activeWorkersCount_ - 1
  /\ cur' = [cur EXCEPT ![w] = None]
  /\ pc' = [pc EXCEPT ![w] = "none", ![Main] = IF @ = "mStopWait" THEN "mStopWake" ELSE @]
  /\ UNCHANGED <<workerVars, status, arg, eventVars, lockVars, coroutineCount_, todo, boundVars>>

-----------------------------------------------------------------------------
(* MainCoroutineCompleted.                                                 *)

MainCompleted(w) ==
  /\ cur[w] = Main
  /\ Goto(w, "run", "mLock")
  /\ UNCHANGED <<cur, workerVars, status, arg, eventVars, lockVars, countVars, todo, boundVars>>

MainLock(w) ==
  /\ programCompletionLock_ = None
  /\ Goto(w, "mLock", "mCheck")
  /\ programCompletionLock_' = Main
  /\ UNCHANGED <<cur, workerVars, status, arg, eventVars, eventLock, waitersLock_, workersLock_, countVars, todo, boundVars>>

\* Wrong variant: off by one, the last coroutine is not waited for.
MainCheckLess(w) ==
  LET more == coroutineCount_ > 2 + activeWorkersCount_ IN
  /\ workersLock_ = None
  /\ Goto(w, "mCheck", IF more THEN "mReset" ELSE "mStop")
  /\ programCompletionLock_' = IF more THEN Main ELSE None
  /\ UNCHANGED <<cur, workerVars, status, arg, eventVars, eventLock, waitersLock_, workersLock_, countVars, todo, boundVars>>

\* Are there more coroutines than Main and the loops?
MainCheck(w) ==
  LET more == coroutineCount_ > 1 + activeWorkersCount_ IN
  /\ workersLock_ = None
  /\ Goto(w, "mCheck", IF more THEN "mReset" ELSE "mStop")
  /\ programCompletionLock_' = IF more THEN Main ELSE None
  /\ UNCHANGED <<cur, workerVars, status, arg, eventVars, eventLock, waitersLock_, workersLock_, countVars, todo, boundVars>>

\* The event is reset and locked before programCompletionLock_ is released.
MainReset(w) ==
  /\ eventLock[Program] = None
  /\ Goto(w, "mReset", "wait")
  /\ happened_' = [happened_ EXCEPT ![Program] = FALSE]
  /\ eventLock' = [eventLock EXCEPT ![Program] = Main]
  /\ arg' = [arg EXCEPT ![Main] = Program]
  /\ programCompletionLock_' = None
  /\ UNCHANGED <<cur, workerVars, status, resolved, following, waitersLock_, workersLock_, countVars, todo, boundVars>>

MainStop(w) ==
  /\ workersLock_ = None
  /\ Goto(w, "mStop", "mStopping")
  /\ status' = [status EXCEPT ![Main] = "AWAIT_LOOP"]
  /\ workersLock_' = Main
  /\ todo' = Workers
  /\ UNCHANGED <<cur, workerVars, arg, eventVars, eventLock, waitersLock_, programCompletionLock_, countVars, boundVars>>

\* Wrong variant: runnablesCv_ is not signalled.
SetInactiveQuietly(w, v) ==
  /\ At(w, "mStopping") /\ v \in todo
  /\ active_' = [active_ EXCEPT ![v] = FALSE]
  /\ todo' = todo \ {v}
  /\ UNCHANGED <<cur, pc, runnables_, waiters_, finalizationQueue_, status, arg, eventVars, lockVars, countVars, boundVars>>

\* SetActive(false)
SetInactive(w, v) ==
  /\ At(w, "mStopping") /\ v \in todo
  /\ active_' = [active_ EXCEPT ![v] = FALSE]
  /\ pc' = Signalled(v, pc)
  /\ todo' = todo \ {v}
  /\ UNCHANGED <<cur, runnables_, waiters_, finalizationQueue_, status, arg, eventVars, lockVars, countVars, boundVars>>

MainStopCheck(w) ==
  /\ todo = {}
  /\ Goto(w, "mStopping", IF activeWorkersCount_ > 1 THEN "mStopWait" ELSE "mDrain")
  /\ workersLock_' = None
  /\ UNCHANGED <<cur, workerVars, status, arg, eventVars, eventLock, waitersLock_, programCompletionLock_, countVars, todo, boundVars>>

MainStopWake(w) ==
  /\ workersLock_ = None
  /\ Goto(w, "mStopWake", "mStopping")
  /\ workersLock_' = Main
  /\ UNCHANGED <<cur, workerVars, status, arg, eventVars, eventLock, waitersLock_, programCompletionLock_, countVars, todo, boundVars>>

\* FinalizeFiberScheduleLoop: let the loop of this worker end.
MainDrain(w) ==
  /\ At(w, "mDrain") /\ coroutineCount_ > 1 /\ runnables_[w] # <<>>
  /\ SuspendAndScheduleNext(w, "to_mDrain")
  /\ UNCHANGED yields

\* The workers are deleted.
MainDone(w) ==
  /\ coroutineCount_ <= 1
  /\ Goto(w, "mDrain", "done")
  /\ UNCHANGED <<cur, workerVars, status, arg, eventVars, lockVars, countVars, todo, boundVars>>

-----------------------------------------------------------------------------
Step(w) ==
  \/ Resume(w) \/ LoopTest(w) \/ LoopSchedule(w) \/ WaitForRunnables(w) \/ Schedule(w)
  \/ LaunchRegister(w) \/ (\E v \in Workers, front \in BOOLEAN : LaunchEnqueue(w, v, front))
  \/ (\E d \in Cos : Await(w, d)) \/ WaitTest(w) \/ WaitForEvent(w) \/ BlockAndScheduleNext(w)
  \/ UnblockStart(w) \/ (\E v \in Workers : UnblockWaiters(w, v)) \/ UnblockEnd(w)
  \/ Resolve(w) \/ RequestCompletion(w) \/ Follow(w) \/ (\E d \in Cos : ResolveFollower(w, d))
  \/ SetHappened(w) \/ TerminateCoroutine(w)
  \/ CheckLock(w) \/ CheckProgramCompletion(w) \/ SetProgramHappened(w)
  \/ RequestFinalization(w) \/ FiberLoopEnd(w) \/ ThreadLoopEnd(w) \/ OnWorkerShutdown(w)
  \/ MainCompleted(w) \/ MainLock(w) \/ MainCheck(w) \/ MainReset(w) \/ MainStop(w)
  \/ (\E v \in Workers : SetInactive(w, v)) \/ MainStopCheck(w) \/ MainStopWake(w)
  \/ MainDrain(w) \/ MainDone(w)

Next == \E w \in Workers : Step(w)

Spec == Init /\ [][Next]_vars

\* Threads are scheduled fairly, and coroutines end: launches, yields and the awaits
\* that do not block are bounded, and nobody awaits a settled promise.
FairSpec == Spec /\ \A w \in Workers : WF_vars(Step(w))

-----------------------------------------------------------------------------
(* Properties.                                                             *)

\* In how many places a coroutine is: being launched, on a thread, in a queue,
\* in waiters_.
Places(c) ==
  Cardinality({w \in Workers : At(w, "enqueue") /\ arg[cur[w]] = c}) +
  Cardinality({w \in Workers : cur[w] = c})
  + Cardinality({w \in Workers : c \in finalizationQueue_[w]})
  + Cardinality(UNION {{<<w, i>> : i \in {j \in DOMAIN runnables_[w] : runnables_[w][j] = c}} : w \in Workers})
  + Cardinality({p \in Workers \X Events : waiters_[p[1]][p[2]] = c})

\* A coroutine is never lost and never scheduled twice: a live one is in exactly
\* one place, and where it runs, waits or is queued its status says so.  A worker
\* that runs a coroutine has its loop in the queue, so there is always something
\* to switch to (the ASSERTs on RunnableCoroutinesExist).
OnePlace ==
  /\ \A c \in Coros : status[c] \notin {"CREATED", "NONE"} =>
       IF pc[c] = "block" THEN Places(c) \in {1, 2} ELSE Places(c) = 1
  /\ \A w \in Workers :
       /\ cur[w] # None => status[cur[w]] \in {"RUNNING", "TERMINATING", "AWAIT_LOOP", "NONE"}
       /\ \A i \in DOMAIN runnables_[w] : status[runnables_[w][i]] = "RUNNABLE"
       /\ \A e \in Events : waiters_[w][e] # None =>
            status[waiters_[w][e]] = "BLOCKED" \/ pc[waiters_[w][e]] = "block"
       /\ cur[w] \in Cos => \E i \in DOMAIN runnables_[w] : runnables_[w][i] = w

\* Nobody holds or is about to unlock a completion event that was deleted with
\* its coroutine: UnblockWaiters comes before RequestFinalization, and the promise
\* gives no event away once it is settled.  The exception is a promise that was
\* resolved with a pending one: it keeps its event for as long as it is pending.
NoDanglingEvent ==
  \A c \in Coros :
    /\ pc[c] \in {"enter", "unblock", "unblocking"} /\ arg[c] \in Cos => status[arg[c]] # "NONE"
    /\ pc[c] = "wait" /\ arg[c] \in Cos => status[arg[c]] # "NONE" \/ arg[c] \in following

\* Who awaits a promise finds its event, whatever the promise was resolved with: the
\* event is linked to a promise for as long as it is pending (std_core_Promise.cpp:217
\* tests the link and nothing else).
PendingKeepsEvent ==
  \A c \in Coros : pc[c] = "wait" /\ arg[c] \in Cos => status[arg[c]] # "NONE"

\* Main stops the workers only after the last coroutine left the registry, and
\* when it deletes them every queue is empty and every coroutine was destroyed.
ShutdownClean ==
  /\ pc[Main] \in {"mStop", "mStopping", "mStopWait", "mStopWake", "mDrain", "done"} =>
       \A d \in 1 .. launched : pc[d] \in {"none", "unblock", "unblocking", "check", "checkCount", "setProgram", "final"}
  /\ pc[Main] = "done" =>
       \A w \in Workers :
         /\ runnables_[w] = <<>> /\ finalizationQueue_[w] = {}
         /\ \A e \in Events : waiters_[w][e] = None
         /\ cur[w] = IF w = MainWorker THEN Main ELSE None

\* UnblockWaiters unblocks all the coroutines that wait for the event: none of
\* them is still blocked when the coroutine that completed goes on.
AllUnblocked ==
  \A c \in Coros : status[c] = "BLOCKED" /\ arg[c] \in Cos =>
    ~happened_[arg[c]] \/ pc[arg[c]] \in {"terminate", "unblock", "unblocking"}

\* Who awaits a coroutine goes on, whatever happens between the test of the event
\* and the entry in waiters_.
AwaitReturns ==
  \A c \in Cos \cup {Main} :
    (pc[c] = "to_run" \/ (pc[c] \in {"wait", "enter", "block"} /\ arg[c] # Program)) ~> (pc[c] = "run")

\* The program ends: Main sees the last coroutine terminate, and every worker
\* sees that it was stopped.
ProgramEnds == <>(pc[Main] = "done")
=============================================================================
