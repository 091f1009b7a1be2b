# TLA+ verification of the ArkCompiler runtime core

This directory models the concurrency core of the static runtime
(`src/static_core/`): the futex locks everything is built on, thread
suspension and stop-the-world pauses, object monitors, the initialization of
classes by several threads, the task manager with its lock-free queues, and
stackful coroutines. Each module is a translation of the C++ code named in
its header comment; `PROJECT.json` maps every definition to the lines it stands for.

Contents:

1. [The system and its parts](#1-the-system-and-its-parts)
2. [Modules](#2-modules)
3. [Runs](#3-runs)
4. [Fairness](#4-fairness)
5. [Proofs](#5-proofs)
6. [Where the code and what it says disagree](#6-where-the-code-and-what-it-says-disagree)
7. [What is not modelled](#7-what-is-not-modelled)
8. [Plan](#8-plan)

## 1. The system and its parts

The repository holds two generations of the platform. The root directories
(`assembler`, `disassembler`, `libpandafile`, `compiler`, `bytecode_optimizer`,
`abc2program`, `verifier`, ...) are the language-independent libraries and tools:
parsers, encoders and sequential program transformations. `static_core/` is a whole
virtual machine, and its `runtime/` and `libpandabase/` are where threads meet.

| Part | State it keeps | Operations | Who uses it, and how |
|---|---|---|---|
| Readers/writer lock (`futex/mutex.{h,cpp}`) | `state_`, `exclusiveOwner_`, `waiters_` | read, write and try locks, one `Unlock` for both sides | the mutator lock: a thread in managed code is a reader, a pause is the writer |
| Mutex, recursive mutex, condition variable (`futex/fmutex.{h,cpp}`) | `stateAndWaiters`, `exclusiveOwner`, `recursiveCount`; `cond`, `waiters`, `mutexPtr` | lock, try lock, unlock, lock and unlock for another thread, wait, timed wait, signal, broadcast | every other part: `threadLock_`, `suspendLock_`, `condLock_`, `Monitor::lock_`, queues |
| Thread suspension and thread manager (`managed_thread.h`, `thread.cpp`, `mt_thread_manager.cpp`, `rendezvous.cpp`) | per thread: flags-and-status word, `suspendCount_`; the list, `suspendNewCount_`, `pendingThreads_` | status changes, safepoint polls, suspend and resume one or all threads, register, exit, shutdown | GC and deoptimization stop the world; monitors suspend one owner; the debugger suspends threads |
| Object monitors (`monitor.cpp`, `monitor_pool.cpp`, `mark_word.h`) | the mark word, a pool of `Monitor`s with owner, count, hash and two lists of waiters | enter, try enter, exit, wait, notify, notify all, inflate, deflate, identity hash | managed code; class initialization; the GC deflates in a pause |
| Class initialization (`class_initializer.cpp`, `class.cpp`) | state and initializing thread of each class; a stack of nested calls per thread | `Initialize`, wait for another thread, superclasses and interfaces first, static constructor | interpreter and compiled code; uses the object's monitor through `ObjectLock` |
| Local task queue (`taskmanager/utils/sp_mc_lock_free_queue.h`, `worker_thread_local_queue.h`) | a list of buffers, push and pop index, retired buffers of each consumer, a size counter | push by the owner; pop and size by anyone; sweep and destruction by the owner | the worker that owns it drains it, other workers and helpers steal from it, all without a lock |
| Task scheduler and workers (`task_scheduler.cpp`, `worker_thread.cpp`, `task_queue.h`) | global task queues, counters of tasks in the system, counts of sleeping workers and waiters, flags | add, fill a worker, steal, help, wait for tasks, finalize | GC and JIT compilation add tasks; tasks add tasks |
| Stackful coroutines (`runtime/coroutines`) | runnable queue, waiters and finalization queue of each worker; status of a coroutine; events; counts of coroutines and workers | launch, yield, await, complete, unblock, schedule loop, stop | the ETS plugin: a promise hands out the completion event of its coroutine |
| Thread pool, lock order graph, reference storage, string table | queues under a lock; a graph over threads and monitors; tables | | GC workers, JIT; shutdown |
| GC, allocators, class linker, interpreter, compilers, verifier, file tools, tooling | object graph, heap regions, IR, files | | see section 7 |

The behaviours that are hard to get right, and to test, are these. `PROJECT.json`
lists each at its line under `hazards`.

* *Lost wake-ups.* The locks publish a waiter count, sleep on a word and wake by
  looking at the count, in separate atomic steps; `FUTEX_REQUEUE` moves sleepers
  without waking them.
* *A thread that slips into managed code during a pause*, because its status
  change read the flags before the request, because it registered in the middle, or
  because one pause resumes it while another has begun.
* *Stale reads*: the owner of a light lock read before it is suspended; the mark word
  read again without a look at its state; a Monitor pointer kept while asleep.
* *One count shared by several suspenders*: pauses, inflations, the debugger and
  the shutdown each owe a decrement.
* *Shutdown*, in which daemon threads are interrupted and terminated wherever they
  happen to be, also while they hold something.
* *Memory that others may still use*: buffers of a lock-free queue freed while nobody
  is kept out of `Pop`, completion events deleted with their coroutine, workers deleted
  at the end of the program.
* *Counting the work left*, by threads that add, take, run and report it at the same
  time, and shutting down when the count is zero.
* *Hand-overs between locks*: from the lock of an event to the lock of the waiters to
  the lock of the queue, with the waiter still running.
* *Failure in the middle* of initializing a class that other threads wait for.

What makes each part correct is stated with its runs in section 3.

## 2. Modules

    RWLock ......... the readers/writer lock          RWLockProofs
    FMutex ......... mutex and condition variable     FMutexProofs
    Suspension ..... suspension, pauses, shutdown     SuspensionProofs
    Monitor ........ object monitors, light and heavy MonitorProofs
    ClassInit ...... class initialization             ClassInitProofs
    FifoQueue ...... what a local task queue promises
    SPMCQueue ...... the queue that implements it     SPMCQueueProofs
    TaskScheduler .. workers, helpers, Finalize       TaskSchedulerProofs
    Coroutines ..... coroutines, workers and manager  CoroutinesProofs
    MC<Module> ..... symmetry sets and concrete parameters for the model checker

The modules form layers, and each uses the promise of the layer below instead of
its code: `Suspension` takes the mutator lock as a set of readers or one writer
(what `RWLock` is shown to provide: `WriterExcludesAll`, `SleeperIsWoken`) and
`threadLock_` as a mutex; `Monitor` takes `lock_` as a mutex (`MutualExclusion`,
`NoLostWakeup` of `FMutex`) and suspension as "a thread with a suspend count, and
every thread in a pause, does not leave a safepoint" (`NoneStartsRunning`,
`OwnerParked` of `Suspension`); `ClassInit` takes a block under `ObjectLock` as one
step (`Exclusion` of `Monitor`) and its wait as "sleeps until notified or
interrupted" (`NotifiedWakes`). `TaskScheduler` takes the local queues as numbers of
tasks that every thread can take from (what `SPMCQueue` is shown to be: it implements
`FifoQueue`), and its lock and condition variables as `FMutex` promises them;
`Coroutines` takes its mutexes and `runnablesCv_` the same way.

All modules use the same conventions. One action is one access to memory that other
threads change without a common lock, or one critical section. `pc[t]` names the
step thread `t` takes next; other variables named after locals of the C++ functions
are those locals. Names of fields and functions are the source's. Operators with the
comment *Wrong variant* are plausible slips (a dropped guard, a swapped order); they
are not part of the specifications and only serve to show that a property would
notice the slip.

### RWLock

State: the three words of the class. Each of `ReadLock`, `WriteLock`,
`TryReadLock`, `TryWriteLock`, `HandleReadLockWait`, `WriteUnlock` and `ReadUnlock`
is split at every atomic access and futex call. Loads and CASes of the four
acquiring functions differ only in the condition `Available`, so they share actions
and `op[t]` says which function is running. A weak CAS may fail spuriously and
`FUTEX_WAIT` may be interrupted. The fatal branches of the unlock functions are the
label `fatal`.

### FMutex

One mutex and one condition variable. The word `stateAndWaiters` is a record (the
held bit and the count of waiters share one 32-bit word in the code). `Wait` is
split at each of its steps, from setting `mutexPtr` to the restored recursion depth;
it calls the same unlock and lock actions as everyone else, with `op[t]` telling
them where to return. The two futex queues are the sets of threads at the labels
`sleep`/`c_queued` and `c_sleep`; a wake picks any thread of the queue, and a
signaller that owns the mutex requeues. `MutexLockForOther` and
`MutexUnlockForOther` act for a thread that is known not to use the mutex, as
`Monitor::InitWithOwner` guarantees. `depth` is a history variable: what the caller
thinks its nesting is.

### Suspension

The flags-and-status word is two variables written together by compare-exchange.
`UpdateStatus` is the four transitions of `managed_thread.h` (into managed code, out
of it, between safe statuses, and the plain store); `SafepointPoll`,
`WaitSuspension` and the termination loop nest inside them, so the return points are
variables. Actors are managed threads and collectors outside the list. The
operations are: running and leaving managed code, waiting with a lock held, the
debugger's suspend and resume, `SafepointBegin`/`SafepointEnd` with
`SuspendAllThreads`/`ResumeAllThreads` one thread at a time, the suspension of a
lock's owner for an inflation, thread creation and exit, and
`WaitForDeregistration` with `StopDaemonThreads`. Critical sections of
`suspendLock_` are one step; `threadLock_` is explicit because it is held across
steps.

### Monitor

One object. The mark word is a record with the states unlocked, light (owner and
count), heavy (monitor id) and hashed; the pool is a function from ids to Monitors,
with `Free` for an id not in use. Each operation is split at its accesses to the
mark word and at the points where it may sleep or be parked. Deflation happens
inside a pause, one Monitor at a time. `MarkWord::GetThreadId` shifts and masks the word
whatever its state: `IdBits` says which thread's internal id the bits of a hash or of a
monitor id happen to spell where the thread id of a light lock would be. `held` is a
history variable, the entries for the object in `localObjectsLocked_`.

### ClassInit

`state_` and `initTid_` per class; each thread has a stack of frames, because
initializing a class initializes its superclass, interfaces and, through the static
constructor, other classes. Which class can fail, and how (verification, bad
superclass, an interface that is a class, an exception), are parameters. `aborted` is
`LOG(FATAL)` or `UNREACHABLE`.

### FifoQueue and SPMCQueue

`FifoQueue` is a sequence of tasks: one is appended, a `Pop` under way takes the first,
or it reports an empty queue, which is allowed only when no task is left or the only one
is owed to another `Pop` under way. `SPMCQueue` is the code at the granularity of one
atomic access: the owner frees retired buffers, fills the queue and drains it; thieves
ask for the size and pop; helpers pop without asking. `Pop` claims a slot by a
compare-exchange on the pop index; the consumer that crosses into a new buffer has to
move `head_` and retire the old one, and the slot it claimed stays readable although the
index is past it. Buffers are numbered in the order of their allocation, so an index
determines its buffer. `freed` is a history variable: a buffer that was freed stays in
it, and a dereference of it is what `NoUseAfterFree` excludes. `size_` is the counter of
`WorkerThreadLocalQueue`, incremented after the push and decremented after the pop,
modulo `SizeMod`.

The refinement mapping (`Refines`) maps the state to the sequence of slots between the
two indices, plus the slot at a buffer boundary from the claim until `head_` follows;
a push happens at the store of the push index, a pop at the successful
compare-exchange that takes the slot.

### TaskScheduler

`queue[p]` and `local[w][p]` count the tasks with properties `p`; `inSystem[p]` is the
lock-free counter; `done[t][p]` is what a thread has executed and not yet reported.
`AddTask` is three steps (count, push, and the unlocked look at `waitWorkersCount_`),
filling a worker is split at every point where others may add a task although the lock
is held, and `Finalize` adds the counters up one at a time. Tasks may add tasks, whether
a worker runs them or a helper. A timeout of `TimedWait` may happen and is never needed:
`TasksRun` holds without it. Users stop calling before `Finalize`, as its contract
demands; running tasks do not.

### Coroutines

Each worker thread runs one coroutine, `cur[w]`, which may be its schedule loop.
Actions are the critical sections of that thread. The locks that are held across
steps are variables (of an event, of the waiters of a worker, of the list of
workers, of program completion). `runnablesLock_` is not: no section of it waits for
another lock. A coroutine that gives its thread away goes on in `Resume`, where
it destroys the coroutines that terminated on the worker in the meantime. Coroutines
launch, yield and await later coroutines, so there are no circular waits; which worker
runs a launched one, and whether it goes to the front of the queue, is left open.
`SharedAwait` says whether two coroutines of one worker may await the same event; see
section 6.

A coroutine settles its promise (`Resolve`) and then lets its event happen. If what it
returns is itself a pending promise, its own promise stays pending, linked to the event,
until that other promise is settled (`Follow`, `ResolveFollower`; which promise it is, and
who settles it, is left open). Until then an `Await` finds the event, also after it
happened and after it was deleted. The model goes on with what the deleted event held
last, so that its test ends the wait; in the code this is undefined. Section 6 has the
instance.

## 3. Runs

| Run | Instance | Checks |
|---|---|---|
| `rwlock` | 3 threads, all functions | `WriterExcludesAll`, `NoLostWakeup`, `SleeperIsWoken` |
| `fmutex` | 2 threads, recursive mutex, depth 2, 2 broadcasts | `MutualExclusion`, `NoLostWakeup`, `NoLostSignal`, `NestingAgrees`, `Progress` |
| `suspension_pause` | main, a created thread, a collector; 2 rounds | `StopTheWorld`, `CountsAgree`, `OwnerParked`, `NoneStartsRunning` |
| `suspension_shutdown` | main, a daemon; both stop the world and inflate; shutdown | `DeregisteredNeverRuns`, `PauseHappens`, `InflationEnds`, `ShutdownCompletes` |
| `monitor_locking` | 2 threads, all operations, nesting 3, light count full at 2; all hashes and monitor ids have the bits of one thread | `Exclusion`, `NestingKept`, `NoDanglingMonitor`, `AssertsHold`, `HashStable` |
| `monitor_waiting` | 3 threads, enter, exit, waits, notifications | `ListsExact`, `NotifiedWakes` |
| `classinit_classes` | 2 threads, one daemon, 6 classes | `OneInitializer`, `SupersFirst`, `TrueMeansUsable`, `CallsReturn` |
| `classinit_shutdown` | 2 threads, one class requested | `TransitionsValid` is violated |
| `spmc_queue` | owner, thief, helper; buffers of 2, 5 tasks | `NoUseAfterFree`, `SweepAlone`, `Refines`, `EveryTaskTaken` |
| `task_scheduler` | 2 workers, a user, main; 2 properties, 3 events | `CountExact`, `NothingLeft`, `TasksRun`, `WaitersReturn` |
| `coroutines` | 2 workers, main and 2 launched coroutines, a yield | `OnePlace`, `NoDanglingEvent`, `ShutdownClean`, `AwaitReturns`, `ProgramEnds` |
| `coroutine_shared_await` | the same, awaiting one coroutine twice on a worker | `AllUnblocked` is violated |

`TypeOK` of a module, the invariants of `RWLock` and `FMutex` that section 5 proves
and no run lists, and `AllUnblocked` without shared awaits hold on the same instances when
they are added to the `.cfg`.

What they show:

* **Locks.** A writer is alone and `state_` counts its holders in every interleaving
  of the atomic accesses. `Unlock` decides between the two sides by a field that is
  written in another step than the state, and still never takes the wrong one. No
  sleeper is left behind: whoever sleeps on a lock it could take has a waker with a
  wake still to do. `SleeperIsWoken` is unconditional for readers; for writers it
  assumes the lock is free again and again, because overlapping readers can keep it
  taken for ever. For the mutex, `WAKE_ONE` is enough because a woken thread becomes
  the next waker, the waiter counts are exact although a condition waiter that blocks
  again counts twice, and a broadcast reaches every thread that released the mutex
  before it. `Progress` excludes an owner that nests for ever.
* **Suspension.** From `WriteLock` to `SafepointEnd` nobody touches managed objects,
  and nobody becomes `RUNNING` between `SuspendAllThreads` and `ResumeAllThreads`, not
  even a thread registered meanwhile or resumed by another pause. `suspendCount_`
  is exactly the number of suspensions somebody has to take back. The owner of a
  lock that is being inflated stays parked and is not deleted. Requested pauses
  happen. Two threads that inflate each other's locks do not
  deadlock, provided no inflator is terminated between suspending an owner and resuming
  it (`NoneAbandoned`). The shutdown ends under that condition and a second one: no
  thread is registered after `StopDaemonThreads` (`NoneLate`). Both conditions can fail in
  the code, and then the shutdown may hang: section 6.
* **Monitors.** Exclusion and nesting survive inflation by any thread, the
  overflow of the light count, `Wait`, and deflation; a Monitor in use is never
  deflated; the identity hash never changes; the lists of waiters have neither
  missing nor stale entries; a chain of single signals reaches every notified thread
  once the `Notify` calls stop.
* **Local queues.** Consumers get each task once and in order although they claim
  an index before they move the head, and every task is taken. Nobody is kept out of
  `Pop` while the owner frees retired buffers: it is safe because the owner sweeps only
  when it found its queue drained, and who enters `Pop` then finds it empty and never
  gets as far as a buffer that was retired. `SweepAlone` is the reason the unlocked
  lists of retired buffers are not written during the sweep.
* **Task scheduler.** The lock-free count is exactly the number of tasks that are
  being added, queued, held, running or executed and not reported. Workers do not
  sleep over a task, waiters see the report of the last task, and although the sum
  `Finalize` computes is not a snapshot, it leaves no task behind: a task that a
  running task adds is executed by the worker that drains before it exits.
* **Coroutines.** A live coroutine is in exactly one place: on a thread, in one queue
  or waiting; never lost, never scheduled twice. An await returns although the event may
  happen between any two of its steps. Nobody unblocks a completion event that was
  deleted or goes to sleep on one, and who awaits a promise finds its event alive unless
  the promise was resolved with a pending one (`NoDanglingEvent`; section 6 has that
  exception). `Main` waits for the last coroutine without missing it, and when it deletes
  the workers they are idle and their queues are empty.
* **Class initialization.** One call initializes a class, superclasses first; a
  caller told `TRUE` can use the class; every call returns if static constructors do
  not need each other in a circle. A class with a bad superclass is the exception
  named in the properties (section 6).

The bounds. Two threads suffice for exclusion of two, three for a sleeper, a waker
and a thread that overtakes between them; the proofs in section 5 remove the bound
for the locks. `MaxSignals` and `MaxDepth` cap counters that nothing else bounds; one
broadcast meets waiters before, in and after their wait. With two threads `Signal` and
`SignalAll` do the same, as only one can wait. `MaxRounds` = 2 lets a
second pause or inflation begin inside the first. `LightMax` = 2 or 3 stands for the
maximal light count, so that nesting 3 crosses it. Three monitor ids for two threads
let both hold an unpublished Monitor while a third is in the mark word. Two hash
codes are enough to see that a hash changes. Five tasks over buffers of two make the
queue cross two boundaries and free a buffer while the next is in use, and `SizeMod` = 8
is above every legal size, so that a wrap-around is visible. `MaxEvents` = 3 bounds the
tasks, calls and timeouts of the scheduler together. With `MaxLaunch` = 2 a coroutine
awaits another one while `Main` awaits either. The shutdown is checked with one daemon
that stops the world and inflates; with two daemons, of which one creates the other, and
no pauses (`Suspension_late_thread.cfg` with `ShutdownCompletes` as its property, 95,000
states) it holds as well, and there `NoneLate` is needed. Two daemons together with
pauses and inflations are too many states for liveness. Symmetry is used in the runs without
temporal properties, where threads, ids and hashes are interchangeable. Deadlock is
checked except in the runs of the queue, the scheduler and the coroutines: those
programs end, and their temporal properties say how.

## 4. Fairness

Liveness is checked under the assumptions below and no others.

* *RWLock, FMutex.* A thread inside a lock function keeps taking steps, and a holder
  eventually unlocks (weak fairness per thread). A CAS does not fail for ever: strong
  fairness for the writer's releasing CAS, which can only fail spuriously, for the
  mutex's releasing CAS, which others disturb only by announcing themselves, and for
  *some* acquiring CAS of the mutex, never for the one of a given thread. Nothing is
  assumed about the competing CASes of the readers/writer lock.
* *Suspension.* Threads that are not blocked proceed, and managed code reaches a
  safepoint again and again: the interpreter and compiled code poll at back edges and
  method entries. `threadLock_` and the mutator lock are passed on fairly (strong
  fairness of the steps that wait for them), which a futex lock provides in practice
  though not by construction. A thread need not ever leave native code or a wait,
  unless the shutdown interrupts it.
* *Monitor.* Each thread continues the operation it is in, and leaves the monitors it
  has entered. Nobody is obliged to call `Notify`, and sleepers need not time out.
* *SPMCQueue.* The owner takes steps, and a consumer inside `Pop` goes on; nobody is
  obliged to steal or to help.
* *TaskScheduler.* Each thread goes on with a call it is in, a running task ends, and
  the lock is passed on. Nobody is obliged to add a task, to help or to wait, and
  `TimedWait` need not time out.
* *Coroutines.* The thread of each worker takes steps. Coroutines end, because launches,
  yields and the awaits that return at once are bounded. Nobody is obliged to settle a
  promise that follows another one.
* *ClassInit.* Each call goes on and each static constructor ends.

## 5. Proofs

Each proof module extends its component and states its theorems for every value of the
constants. `RWLockProofs` and `FMutexProofs` prove the safety properties of the two lock
modules for **any finite set of threads**, any nesting and any number of signals. The
assumptions are those of the modules (`ThreadsAssumption`, `FMutexAssumption`): the set
of threads is finite, the value for "no thread" is none of them, and `SignalCount` is
called for one or for all.

*RWLockProofs.* The properties are not inductive. `IInv` adds that `waiters_` counts
exactly the threads between its increment and its decrement (so an unlocker that
reads 0 misses nobody), that `exclusiveOwner_` is set only while its thread is in the
write section (so `Unlock` dispatches right), and what the local `curState` still
guarantees at each label (so a CAS that succeeds starts from an available lock).
`InitIInv` and the step lemma, one case per action, give `Spec => []IInv`; from it
follow `TypeCorrect`, `Exclusion`, `HolderCount`, `UnlockDispatch`, `WakeupNotLost`,
`DestructorSafe`. The cardinality facts (adding or removing one thread from a finite
set) are lemmas of their own.

*FMutexProofs.* The argument has three layers. `Control` says who owns the mutex at each
label, what the locals guarantee and how nesting relates to `recursiveCount`; it is
inductive alone and yields `Exclusion`, `AssertionsHold` and `NestingKept`.
`WaitersExact` is added on top (`CountsExact`, `TypeCorrect`: only with the counts known
is it clear that they never become negative). On both rest `WakeupNotLost` (an unlocker
sees every sleeper in the word it releases) and `SignalNotLost` (the value of `cond` a
waiter compares was read while it held the mutex). `DestructorSafe` follows from the
counts.

*SuspensionProofs*, for any sets of threads, collectors, inflators and stoppers.
`IInv` has four layers. `Control` says with which status a thread stands at each label
and at each label it will return to, because `UpdateStatus` and `SafepointPoll` are
entered from many places. `MutatorLock` and `ThreadLock` say who is inside the two
locks. `Membership` says who is in the thread list and how far the shutdown is: the
counts speak only of listed threads. `Counting` is `CountsAgree` together with what
`suspendNewCount_` and `pendingThreads_` stand for (a thread registered during a pause
starts with the pauses counted). A thread somebody suspends has a positive count,
hence the flag, hence cannot pass the compare-exchange to `RUNNING`: from this follow
`WorldStops`, `CountsAreExact`, `OwnersPark`, `DeregisteredStop` and the action property
`NobodyStartsRunning`.

*SPMCQueueProofs*, for any node size, any thieves, with or without a helper, any number of
pushes. `OneHelper` is an assumption, because helpers share one consumer id in the code
and with it one list of retired buffers (see section 7).
The invariant says where the indices and the ends of the list stand (`Indices`,
`HeadFits`), what a consumer's locals still guarantee after the indices have moved on
(`Locals`), which slots hold their task and that a popped slot has one claimant
(`Contents`), what the two counters count (`Counts`), why a sweep meets nobody
(`Swept`), and that retired and freed nodes are behind `head_` (`Memory`).
`NodesInUseStay` and `SweepIsAlone` follow; `QueueIsFifo` is the whole refinement, one
lemma per action: the CAS on `popIndex_` is the step that takes the task of `FifoQueue`,
the store of `pushIndex_` the one that adds it, and everything else is a stutter.

*ClassInitProofs*, for any threads and any class hierarchy. `IInv` describes the stacks:
below the head every frame waits for the one above (`Nested`), a pending exception is
on its way to a frame that handles it (`Calm`), the calls at work on a class belong to
the thread in `initTid_` (`Owned`) and are one per class (`Single`), and a class in
`INITIALIZING` has such a call, a bad superclass, or lost its thread to the shutdown
(`Left`). Every action is first shown to be one of a few kinds of steps (go on, enter a
call, leave one, claim a class, settle it, die), and each part of the invariant is
proved for the kinds. `InitializedOnce` and `TrueIsUsable` need no hypothesis on the
hierarchy. `SupertypesFirst` does: `Layered(rank)` says that no class needs itself
through superclasses, interfaces and static constructors, and that no class with a bad
superclass is extended. Without the first, a constructor that needs a subclass finds
its own class `INITIALIZING` and passes; without the second, `InitializeClass` leaves a
superclass in `INITIALIZING` and its thread is told `TRUE` the next time; TLC finds both.
The instance of the runs is layered, which TLC evaluates (`MCLayered`). A second
invariant, relative to `IInv`, says that frames are ordered by rank and that what a
frame has passed is done (`Ordered`, `Progress`).

*MonitorProofs*, for any threads, Monitors, hash codes, nesting and maximal light count
(`MonitorAssumption`: the sets are finite, a light lock can be entered twice before it
is full). The lock has no fixed place, so `IInv` speaks of it wherever it is:
`CurOwner`, `CurLock`, `CurCount` and `CurHash` read the mark word or the Monitor behind
it. `Lock` ties them to what each thread has entered (`held`) and to the label it is at;
`Memory` says that a Monitor in use is the one of the mark word and a Monitor that is
being published is known to one thread; `Counted` that `waitersCounter_` is the number
of threads blocked plus those in `Wait`, so that a Monitor the collector deflates has
nobody on it; `Lists` that every sleeper is linked once or about to be signalled;
`Suspended` and `Pausing` that the owner an inflation is for, and everyone in a pause,
stays parked. A step is then of one of four kinds, each with its lemma: it leaves the
lock alone (`QuietKeeps`), exchanges the mark word (`SwapKeeps`), works on the Monitor
of the object (`WorkKeeps` and its companions), or moves the lock (`StepPublishSucceeds`,
`StepDeflate`). From `Invariance` follow all the safety properties of the runs:
`MutualExclusion`, `NestingCorrect`, `NothingDangles`, `AssertionsHold`,
`HashNeverChanges`, `ListsCorrect`, and `TypeCorrect`. `SelfSuspension` completes the
disagreement of section 6 about `ASSERT(current != suspended)`: a thread that runs
`InflateThinLock` suspends itself only if a hash code or a monitor id has its own id in
the bits of the thread id; with a second, small invariant it is shown that it never
finds itself in a light lock.

*TaskSchedulerProofs*, for any workers, users, properties, size of the local queues and
number of tasks. `Outstanding(p)` counts pairs, one for each task of a place: a sum over
threads is then the cardinality of a set, and changes by what one thread's count
changes (`ItemsChange`, from facts about finite sets; no induction is needed).
`Fits` says of one thread what its place implies: a worker has a task in hand exactly
while it runs one, a helper starts with nothing unreported, a worker that reports or
looks for work has an empty local queue. `Counting` says which threads the two counts
of waiters count. `Ending` is why `Finalize` is right although its sum is not a
snapshot: users are gone, a worker exits only after it saw `finish_` and the queues
empty, and a task that is still running keeps its worker from exiting, so whatever it
adds is taken. Each action is described once (`StepFacts`: its own thread, and what
the others see of it), and one lemma for each action that moves a task shows that what
leaves one place arrives in another. `CountersExact`, `FinalizeLeavesNothing` and
`TypeCorrect` follow.

*CoroutinesProofs*, for any workers and any number of launches and yields
(`CoroutinesAssumption`: the workers are finitely many, and the names of workers,
coroutines, `Main` and the program's event are distinct). `Fitting` is a table of the
statuses and labels that go together, one for launched coroutines, one for `Main`, one
for the loops. From status and label alone it follows where a coroutine must be: on a
thread (`Threads`), in one queue (`Queues`), with its launcher (`Launches`), in a
finalization queue (`Dead`) or asleep (`Sleepers`). Each part says both that who is
there belongs there, and that who belongs there is there, at one worker only. `Waits`
says which locks cover the way from the test of an event to the entry in `waiters_`, and
that an event that has happened is awaited only through a promise that follows another;
`Homes` that `Main` and the loops never change workers, although launched coroutines are
put on any. `Counting` makes the two counters cardinalities of sets, which gives the
tests of `Main` their meaning; `Stopping`, `Ends` and `Finalized` say what is over at
each stage of the shutdown. There is one lemma per action; lemmas about kinds of steps
(one coroutine moves on, a worker switches) carry what actions share. From `Invariance`
follow `NoDanglingEventInv` and `ShutdownCleanInv`, with and without shared awaits.

Two theorems need that coroutines of one worker do not share an awaited event
(`~SharedAwait`), and section 6 shows that they are false otherwise. `SleepersRegistered` is
the part of the invariant that breaks: every blocked coroutine is the one `waiters_` has
for its event. With it `OnePlaceInv` adds up the places of a coroutine, and
`AllUnblockedInv` proves what the comment at `UnblockWaiters` promises. The latter rests on
`UnblockingInv`, which holds in either case: a coroutine that is in `waiters_` after its
event happened has the coroutine of that event still before it, with the worker still to be
visited. It is why no wakeup is lost: `SetHappened` needs the lock of the event, and who
waits holds it until it has `waitersLock_`.

Only model-checked: all liveness. It needs fairness and `ENABLED`, which are outside the
prover's reach. Every safety property of the runs that pass is also a theorem. The two
conditions of `ShutdownCompletes` are stated in the property itself.

## 6. Where the code and what it says disagree

Two runs end with a violation of something the repository states:

* `classinit_shutdown`: a thread interrupted in `WaitInitialization` by the shutdown
  sets the class to `ERRONEOUS` whatever its state is (`class_initializer.cpp:172`);
  `Class::SetState` (`class.cpp:108`) or the initializing thread's own `SetState` then
  ends in "Invalid class state transition".
* `coroutine_shared_await`: `waiters_` maps an event to one coroutine, and `insert` does
  nothing when the event has a waiter already (`stackful_coroutine_worker.cpp:67`). A
  second coroutine of the same worker that awaits the same promise is blocked for ever,
  while `stackful_coroutine_worker.h:100` promises to "unblock all the coroutines in the
  current worker that are waiting for this event". The threaded manager has the same
  map (`threaded_coroutine_manager.cpp:170`).

Known defects with an instance of their own but no run in the list:

* `Suspension_late_thread.cfg`, property `OtherStatusesEnd`: `StopDaemonThreads` raises
  `suspendNewCount_` (`mt_thread_manager.cpp:197`), so a thread registered afterwards
  starts suspended; nobody resumes it and its termination request is never set. It
  stays in `IS_SUSPENDED`, and `WaitForDeregistration` waits for it for ever, while
  `thread_manager.h:296` says that other statuses "should eventually go to
  IS_TERMINATED_LOOP or FINISHED status".
* `Monitor_self_suspend.cfg`, property `NeverSuspendsItself`: `InflateThinLock` reads the
  mark word again and uses its thread id without a look at its state
  (`monitor.cpp:107`). If the lock was released and the object hashed, or its lock
  inflated by another thread, the id bits are bits of the hash or of the monitor id; when
  they spell the caller's own id it suspends itself, against `ASSERT(current !=
  suspended)` (`mt_thread_manager.cpp:353`). `monitor_locking` has the same bits and shows
  that the other properties survive it.
* `Coroutines_pending_result.cfg`, property `PendingKeepsEvent`: `EtsPromiseResolve`
  returns with the promise still pending and linked to its event when the value is a
  pending promise, or in JS mode any promise (`std_core_Promise.cpp:91-94`). The event
  happens and is deleted with the coroutine (`coroutine.cpp:89-93`), and a later
  `EtsAwaitPromise` tests only that the promise is pending and linked
  (`std_core_Promise.cpp:216-230`): it locks the deleted event. An awaiter that was
  asleep is woken by the event and takes the promise, still pending, for rejected.

Met while modelling, with no run of their own because no document says what is meant,
or because the effect is harmless:

* A terminated inflator leaves the owner's suspension behind; if the owner is the
  main thread, the shutdown hangs (the condition `NoneAbandoned`).
* `UpdateStatus` tests for termination and then stores the status
  (`managed_thread.h:186-193`); the request may come in between. The next safepoint
  still sees it.
* `TryLock` by the owner fails when the light count is full (`monitor.cpp:192`).
* `Release` signals the waiter before it unlocks `lock_` (`monitor.cpp:697`); the
  waiter then blocks on `lock_`, where it is woken as any locker.
* The limit on the number of coroutines is tested before the new one is counted
  (`coroutine_manager.cpp:88`), so concurrent launches may exceed it.
* `Size` of the local queue wraps to the largest number when the push index it loaded is
  older than the pop index (`sp_mc_lock_free_queue.h:269`), and so does the counter
  of `WorkerThreadLocalQueue` when a thief decrements it before the owner's increment;
  both only make somebody look into an empty queue.
* A worker that exits leaves `waitWorkersCount_` incremented (`task_scheduler.cpp:132`).
* `Notify` puts its thread in front of those notified before; two threads that notify
  each other for ever keep a third asleep.
* A class with a bad superclass stays `INITIALIZING` (`class_initializer.cpp:305`
  returns without setting a state): other threads wait for ever, the same thread is
  told `TRUE` the next time.

## 7. What is not modelled

* *Memory order.* The models are sequentially consistent. The repository checks its
  weak-memory code with GenMC (`libpandabase/tests/genmc`).
* *Overflow of 32-bit counters* of the futex code (`cond`, waiter counts).
* *In Suspension*: the lookup of internal thread ids, the lock-order graph over
  monitors in `WaitForDeregistration`, dumps.
* *In Monitor*: `ReleaseMonitors` at thread exit, calls by threads that do not hold
  the lock (an error without a change of state), read-only queries, the GC bits of
  the mark word, the build without futexes.
* *In ClassInit*: the task and single-threaded modes, the values of static fields.
* *In SPMCQueue*: the limit on the number of consumers; a queue per `TaskProperties`; more
  than one helper at a time. All helpers pop with the scheduler's one consumer id
  (`task_scheduler.cpp:263`) and so share an unsynchronised list of retired buffers; the
  only caller is the GC thread (`gc_workers_task_queue.cpp:37`), which `OneHelper` states.
* *In TaskScheduler*: registration of task queues and the choice among several by
  priority, the statistics implementations with locks, helpers that still run while
  `Finalize` deletes the workers (excluded by its contract).
* *In Coroutines*: starting the workers, launches that fail, the pool of finished
  coroutines, load factors and affinity, promises without a coroutine, the values
  of promises and the callbacks run on their completion, JS mode, interaction of a
  coroutine's status with the GC, the threaded manager. The release of `waitersLock_` in
  `BlockCurrentCoroAndScheduleNext` and the context switch behind it are one action: only
  the thread itself pops its queue and reads its current context in between.
* *Other parts*: the thread pool and the lock order graph. Garbage collection needs a
  model of the object graph and its barriers; the pause it relies on is here. Compilers,
  optimizers, the verifier, the interpreter, file tools and tooling are sequential
  transformations of data whose correctness is a matter of semantics, not of
  interleavings.

## 8. Plan

Done: all modules of section 2, and the proofs of their safety properties and action
properties, the refinement of `FifoQueue` included.

Next, in this order:

1. An abstract lock that `RWLock` and `FMutex` implement, stated as a specification
   instead of the properties used now.
2. The lock order graph as a pure algorithm against a reachability definition, and
   the thread pool.
