--------------------------- MODULE TaskScheduler ---------------------------
(***************************************************************************)
(* The task manager: TaskScheduler (taskmanager/task_scheduler.cpp), the   *)
(* loop of its workers (worker_thread.cpp), TaskQueue::AddTask             *)
(* (task_queue.h) and the lock-free task statistics, which are the         *)
(* runtime's default.                                                      *)
(*                                                                         *)
(* Main waits for the tasks of one property, then finalizes; Users add     *)
(* tasks and help; Workers fill their local queue, steal and execute, and  *)
(* a task may add another task.  Tasks are told apart by their property    *)
(* only, so a queue is the number of its tasks per property.  A local      *)
(* queue is the FIFO queue that module SPMCQueue shows it to be; the task  *)
(* queue is popped under taskSchedulerStateLock_ and pushed without it.    *)
(* One action is one access to what others change without that lock, or    *)
(* one critical section.  Helpers do not overlap Finalize: it deletes the  *)
(* workers a helper looks at.                                              *)
(***************************************************************************)
EXTENDS Integers, FiniteSets, FiniteSetsExt

CONSTANTS
  Workers, Users, Main, None,
  Props,          \* the TaskProperties in use
  Foreground,     \* those of execution mode FOREGROUND, taken first
  QueueSize,      \* WORKER_QUEUE_SIZE
  MaxEvents       \* bound on the tasks added, the calls of
                  \* HelpWorkersWithTasks and the timeouts together

Threads == Workers \cup Users \cup {Main}

ASSUME TaskSchedulerAssumption ==
  /\ IsFiniteSet(Threads) /\ Workers # {} /\ IsFiniteSet(Props)
  /\ Workers \cap Users = {} /\ Main \notin Workers \cup Users
  /\ Foreground \subseteq Props /\ None \notin Threads \cup Props
  /\ QueueSize \in Nat \ {0}
  /\ MaxEvents \in Nat

VARIABLES
  queue,              \* queue[p]: tasks in the TaskQueue
  local,              \* local[w][p]: tasks in the local queue of worker w
  inSystem,           \* taskInSystemCounterMap_
  lock,               \* the holder of taskSchedulerStateLock_
  waitWorkersCount_, waitToFinish_, finish_, disableHelpers_,
  pc,
  arg,                \* the property an AddTask, a help, a report or a wait is about
  hand,               \* the property of the task a worker runs
  done,               \* finishedTasksCounterMap_: executed, or taken by a helper, not reported
  unread, sum,        \* Finalize's walk over the counters
  events

taskVars == <<queue, local, inSystem>>
flagVars == <<waitWorkersCount_, waitToFinish_, finish_, disableHelpers_>>
ownVars == <<arg, hand, done>>
finVars == <<unread, sum>>
vars == <<taskVars, lock, flagVars, pc, ownVars, finVars, events>>

Zero == [p \in Props |-> 0]
Total(f) == MapThenSumSet(LAMBDA p : f[p], Props)
AreQueuesEmpty == queue = Zero
AreWorkersEmpty == \A w \in Workers : local[w] = Zero

\* Workers start after Initialize.
Init ==
  /\ queue = Zero
  /\ local = [w \in Workers |-> Zero]
  /\ inSystem = Zero
  /\ lock = None
  /\ waitWorkersCount_ = 0 /\ waitToFinish_ = 0
  /\ finish_ = FALSE /\ disableHelpers_ = FALSE
  /\ pc = [t \in Threads |-> IF t \in Workers THEN "loop" ELSE "idle"]
  /\ arg = [t \in Threads |-> None]
  /\ hand = [w \in Workers |-> None]
  /\ done = [t \in Threads |-> Zero]
  /\ unread = {} /\ sum = 0
  /\ events = 0

Goto(t, from, to) == pc[t] = from /\ pc' = [pc EXCEPT ![t] = to]
Set(t, p) == arg' = [arg EXCEPT ![t] = p]

\* Main is inside Finalize, which nobody but a running task may overlap.
Finalizing == pc[Main] \in {"join", "sum"} \/ (pc[Main] \in {"fwait", "fwake"} /\ arg[Main] = None)

\* Signal wakes one waiter, SignalAll all; a woken waiter needs the lock.
Waiting(label) == {t \in Threads : pc[t] = label}

-----------------------------------------------------------------------------
(* TaskQueue::AddTask: count, push, signal.  Called by users and by tasks. *)

\* A helper runs the tasks it took, then reports them: until then one of them may
\* still be running.
HelperRuns(u) == u \in Users /\ pc[u] = "report" /\ done[u] # Zero

\* Where a thread goes when AddTask returns.
AddDone(t) == IF t \in Workers THEN "run" ELSE IF done[t] # Zero THEN "report" ELSE "idle"

AddCount(t, p) ==
  /\ events < MaxEvents
  /\ \/ t \in Users /\ pc[t] = "idle" /\ ~Finalizing /\ ~finish_
     \/ t \in Workers /\ pc[t] = "run"
     \/ HelperRuns(t)
  /\ pc' = [pc EXCEPT ![t] = "addPush"]
  /\ inSystem' = [inSystem EXCEPT ![p] = @ + 1]
  /\ Set(t, p)
  /\ events' = events + 1
  /\ UNCHANGED <<queue, local, lock, flagVars, hand, done, finVars>>

AddPush(t) ==
  /\ Goto(t, "addPush", "addSignal")
  /\ queue' = [queue EXCEPT ![arg[t]] = @ + 1]
  /\ Set(t, None)
  /\ UNCHANGED <<local, inSystem, lock, flagVars, hand, done, finVars, events>>

\* SignalWorkers reads the count of waiters without the lock.
SignalWorkers(t) ==
  /\ Goto(t, "addSignal", IF waitWorkersCount_ > 0 THEN "addLock" ELSE AddDone(t))
  /\ UNCHANGED <<taskVars, lock, flagVars, ownVars, finVars, events>>

\* Wrong variant: the condition variable of Finalize is signalled.
SignalFinishers(t) ==
  /\ pc[t] = "addLock" /\ lock = None
  /\ pc' = [u \in Threads |-> IF u = t THEN AddDone(t)
                              ELSE IF pc[u] = "fwait" THEN "fwake" ELSE pc[u]]
  /\ UNCHANGED <<taskVars, lock, flagVars, ownVars, finVars, events>>

SignalOne(t) ==
  /\ pc[t] = "addLock" /\ lock = None
  /\ LET back == [pc EXCEPT ![t] = AddDone(t)] IN
     IF Waiting("qwait") = {} THEN pc' = back
     ELSE \E w \in Waiting("qwait") : pc' = [back EXCEPT ![w] = "qwake"]
  /\ UNCHANGED <<taskVars, lock, flagVars, ownVars, finVars, events>>

-----------------------------------------------------------------------------
(* WorkerLoop.                                                             *)

\* A worker steals only if the queues are empty and some worker is not.  The
\* tests are not atomic, but all they do is choose where to look for a task.
WorkerLoop(w) ==
  /\ w \in Workers
  /\ Goto(w, "loop", IF AreQueuesEmpty /\ ~AreWorkersEmpty THEN "steal" ELSE "fill")
  /\ UNCHANGED <<taskVars, lock, flagVars, ownVars, finVars, events>>

\* WorkerThreadLocalQueue::Pop: foreground tasks first.
Poppable(f) ==
  LET there == {p \in Props : f[p] > 0} IN
  IF there \cap Foreground # {} THEN there \cap Foreground ELSE there

\* The worker with the most tasks is robbed of one.
Steal(w) ==
  /\ pc[w] = "steal"
  /\ \E v \in Workers :
       /\ \A u \in Workers : Total(local[u]) <= Total(local[v])
       /\ \/ /\ local[v] = Zero
             /\ pc' = [pc EXCEPT ![w] = "loop"]
             /\ UNCHANGED <<local, hand>>
          \/ \E p \in Poppable(local[v]) :
               /\ local' = [local EXCEPT ![v][p] = @ - 1]
               /\ hand' = [hand EXCEPT ![w] = p]
               /\ pc' = [pc EXCEPT ![w] = "run"]
  /\ UNCHANGED <<queue, inSystem, lock, flagVars, arg, done, finVars, events>>

\* Wrong variant: finish_ is tested before the queues.
FillScanFinish(w) ==
  /\ pc[w] = "fill" /\ lock = None
  /\ lock' = IF finish_ THEN None ELSE w
  /\ pc' = [pc EXCEPT ![w] = IF finish_ THEN "exit" ELSE IF AreQueuesEmpty THEN "incr" ELSE "put"]
  /\ UNCHANGED <<taskVars, flagVars, ownVars, finVars, events>>

\* FillWithTasks.  Under the lock tasks are only added to the queue.
FillScan(w) ==
  /\ pc[w] = "fill" /\ lock = None
  /\ lock' = w
  /\ pc' = [pc EXCEPT ![w] = IF AreQueuesEmpty THEN "incr" ELSE "put"]
  /\ UNCHANGED <<taskVars, flagVars, ownVars, finVars, events>>

FillIncr(w) ==
  /\ Goto(w, "incr", "rescan")
  /\ waitWorkersCount_' = waitWorkersCount_ + 1
  /\ UNCHANGED <<taskVars, lock, waitToFinish_, finish_, disableHelpers_, ownVars, finVars, events>>

\* A worker that finishes leaves waitWorkersCount_ incremented.
FillRescan(w) ==
  /\ Goto(w, "rescan", IF ~AreQueuesEmpty THEN "decr" ELSE IF finish_ THEN "exit" ELSE "qwait")
  /\ lock' = IF AreQueuesEmpty THEN None ELSE w
  /\ UNCHANGED <<taskVars, flagVars, ownVars, finVars, events>>

FillTimeout(w) ==
  /\ events < MaxEvents
  /\ Goto(w, "qwait", "qwake")
  /\ events' = events + 1
  /\ UNCHANGED <<taskVars, lock, flagVars, ownVars, finVars>>

FillWake(w) ==
  /\ Goto(w, "qwake", "rescan") /\ lock = None
  /\ lock' = w
  /\ UNCHANGED <<taskVars, flagVars, ownVars, finVars, events>>

\* An even share, rounded up, at most WORKER_QUEUE_SIZE.
CountToGet(size, shares) ==
  LET share == size \div shares IN
  IF share >= QueueSize THEN QueueSize
  ELSE IF size % shares = 0 THEN share ELSE share + 1

\* Taking n tasks, at most WORKER_QUEUE_SIZE, leaves the foreground tasks for last only if none is left.
Taken(n) ==
  {f \in [Props -> 0 .. QueueSize] :
     /\ \A p \in Props : f[p] <= queue[p]
     /\ Total(f) = n
     /\ (\E p \in Props \ Foreground : f[p] > 0) => \A p \in Foreground : f[p] = queue[p]}

\* A worker that was counted as waiting uncounts itself first; nobody but
\* SignalWorkers reads the count, and it reads nothing else.
PutTasksInWorker(w) ==
  /\ pc[w] \in {"put", "decr"}
  /\ pc' = [pc EXCEPT ![w] = "exec"]
  /\ waitWorkersCount_' = waitWorkersCount_ - (IF pc[w] = "decr" THEN 1 ELSE 0)
  /\ \E f \in Taken(CountToGet(Total(queue), Cardinality(Workers))) :
       /\ queue' = [p \in Props |-> queue[p] - f[p]]
       /\ local' = [local EXCEPT ![w] = [p \in Props |-> @[p] + f[p]]]
  /\ lock' = None
  /\ UNCHANGED <<inSystem, waitToFinish_, finish_, disableHelpers_, ownVars, finVars, events>>

\* ExecuteTasksFromLocalQueue, until the queue is empty.
Execute(w) ==
  /\ pc[w] = "exec"
  /\ \/ /\ local[w] = Zero
        /\ pc' = [pc EXCEPT ![w] = "report"]
        /\ UNCHANGED <<local, hand>>
     \/ \E p \in Poppable(local[w]) :
          /\ local' = [local EXCEPT ![w][p] = @ - 1]
          /\ hand' = [hand EXCEPT ![w] = p]
          /\ pc' = [pc EXCEPT ![w] = "run"]
  /\ UNCHANGED <<queue, inSystem, lock, flagVars, arg, done, finVars, events>>

\* The local queue of a worker that ran a stolen task is empty: it reports.
RunTask(w) ==
  /\ w \in Workers
  /\ Goto(w, "run", "exec")
  /\ done' = [done EXCEPT ![w][hand[w]] = @ + 1]
  /\ hand' = [hand EXCEPT ![w] = None]
  /\ UNCHANGED <<taskVars, lock, flagVars, arg, finVars, events>>

-----------------------------------------------------------------------------
(* IncrementCounterOfExecutedTasks, and the end of HelpWorkersWithTasks.   *)

Report(t, p) ==
  /\ pc[t] = "report" /\ done[t][p] > 0
  /\ inSystem' = [inSystem EXCEPT ![p] = @ - done[t][p]]
  /\ done' = [done EXCEPT ![t][p] = 0]
  /\ Set(t, p)
  /\ pc' = [pc EXCEPT ![t] = "repWaiters"]
  /\ UNCHANGED <<queue, local, lock, flagVars, hand, finVars, events>>

ReportWaiters(t) ==
  /\ Goto(t, "repWaiters", IF waitToFinish_ > 0 THEN "repCount" ELSE "report")
  /\ arg' = IF waitToFinish_ > 0 THEN arg ELSE [arg EXCEPT ![t] = None]
  /\ UNCHANGED <<taskVars, lock, flagVars, hand, done, finVars, events>>

ReportCount(t) ==
  /\ Goto(t, "repCount", IF inSystem[arg[t]] = 0 THEN "repLock" ELSE "report")
  /\ Set(t, None)
  /\ UNCHANGED <<taskVars, lock, flagVars, hand, done, finVars, events>>

ReportSignal(t) ==
  /\ pc[t] = "repLock" /\ lock = None
  /\ pc' = [u \in Threads |-> IF u = t THEN "report"
                              ELSE IF pc[u] = "fwait" THEN "fwake" ELSE pc[u]]
  /\ UNCHANGED <<taskVars, lock, flagVars, ownVars, finVars, events>>

ReportEnd(t) ==
  /\ Goto(t, "report", IF t \in Workers THEN "loop" ELSE "idle")
  /\ done[t] = Zero
  /\ UNCHANGED <<taskVars, lock, flagVars, ownVars, finVars, events>>

-----------------------------------------------------------------------------
(* HelpWorkersWithTasks.                                                   *)

HelpStart(u, p) ==
  /\ u \in Users /\ events < MaxEvents /\ ~Finalizing
  /\ Goto(u, "idle", IF disableHelpers_ THEN "idle"
                     ELSE IF queue[p] > 0 THEN "helpPop" ELSE "helpSteal")
  /\ arg' = IF disableHelpers_ THEN arg ELSE [arg EXCEPT ![u] = p]
  /\ events' = events + 1
  /\ UNCHANGED <<taskVars, lock, flagVars, hand, done, finVars>>

\* GetAndExecuteSetOfTasksFromQueue; others may have emptied the queue.  The tasks
\* taken are in done from here on; see HelperRuns.
HelpPop(u) ==
  LET p == arg[u]
      n == CountToGet(queue[p], Cardinality(Workers) + 1)
  IN /\ Goto(u, "helpPop", "report") /\ lock = None
     /\ queue' = [queue EXCEPT ![p] = @ - n]
     /\ done' = [done EXCEPT ![u][p] = n]
     /\ Set(u, None)
     /\ UNCHANGED <<local, inSystem, lock, flagVars, hand, finVars, events>>

\* Wrong variant: a failed steal is counted as a task.
HelpStealBlind(u) ==
  LET p == arg[u] IN
  /\ Goto(u, "helpSteal", "report")
  /\ \E v \in Workers :
       /\ \A x \in Workers : local[x][p] <= local[v][p]
       /\ local' = [local EXCEPT ![v][p] = IF @ > 0 THEN @ - 1 ELSE 0]
  /\ done' = [done EXCEPT ![u][p] = 1]
  /\ Set(u, None)
  /\ UNCHANGED <<queue, inSystem, lock, flagVars, hand, finVars, events>>

\* StealAndExecuteOneTaskFromWorkers.
HelpSteal(u) ==
  LET p == arg[u] IN
  /\ Goto(u, "helpSteal", "report")
  /\ \E v \in Workers :
       /\ \A x \in Workers : local[x][p] <= local[v][p]
       /\ LET n == IF local[v][p] > 0 THEN 1 ELSE 0 IN
          /\ local' = [local EXCEPT ![v][p] = @ - n]
          /\ done' = [done EXCEPT ![u][p] = n]
  /\ Set(u, None)
  /\ UNCHANGED <<queue, inSystem, lock, flagVars, hand, finVars, events>>

-----------------------------------------------------------------------------
(* Main: WaitForFinishAllTasksWithProperties, then Finalize.               *)

WaitStart(p) ==
  /\ Goto(Main, "idle", "wait") /\ lock = None
  /\ lock' = Main
  /\ waitToFinish_' = waitToFinish_ + 1
  /\ Set(Main, p)
  /\ UNCHANGED <<taskVars, waitWorkersCount_, finish_, disableHelpers_, hand, done, finVars, events>>

\* ResetCountersWithTaskProperties resets the counters of the log only.
WaitCheck ==
  LET over == inSystem[arg[Main]] = 0 IN
  /\ Goto(Main, "wait", IF over THEN "waited" ELSE "fwait")
  /\ lock' = None
  /\ waitToFinish_' = IF over THEN waitToFinish_ - 1 ELSE waitToFinish_
  /\ arg' = IF over THEN [arg EXCEPT ![Main] = None] ELSE arg
  /\ UNCHANGED <<taskVars, waitWorkersCount_, finish_, disableHelpers_, hand, done, finVars, events>>

FinalizeStart ==
  /\ pc[Main] \in {"idle", "waited"} /\ lock = None
  /\ \A u \in Users : pc[u] = "idle"
  /\ pc' = [pc EXCEPT ![Main] = "sum"]
  /\ lock' = Main
  /\ waitToFinish_' = waitToFinish_ + 1
  /\ unread' = Props /\ sum' = 0
  /\ UNCHANGED <<taskVars, waitWorkersCount_, finish_, disableHelpers_, ownVars, events>>

\* AreNoMoreTasks adds the counters up one by one, without a lock that would
\* keep tasks from being added and executed meanwhile.
SumCounter(p) ==
  /\ pc[Main] = "sum" /\ p \in unread
  /\ unread' = unread \ {p}
  /\ sum' = sum + inSystem[p]
  /\ UNCHANGED <<taskVars, lock, flagVars, pc, ownVars, events>>

FinalizeWait ==
  /\ Goto(Main, "sum", "fwait") /\ unread = {} /\ sum # 0
  /\ lock' = None
  /\ sum' = 0
  /\ UNCHANGED <<taskVars, flagVars, ownVars, unread, events>>

FinishWake ==
  /\ Goto(Main, "fwake", IF arg[Main] = None THEN "sum" ELSE "wait") /\ lock = None
  /\ lock' = Main
  /\ unread' = IF arg[Main] = None THEN Props ELSE {}
  /\ UNCHANGED <<taskVars, flagVars, ownVars, sum, events>>

\* Wrong variant: sleeping workers are not told.
FinalizeQuiet ==
  /\ Goto(Main, "sum", "join") /\ unread = {} /\ sum = 0
  /\ finish_' = TRUE /\ disableHelpers_' = TRUE
  /\ waitToFinish_' = waitToFinish_ - 1
  /\ lock' = None
  /\ UNCHANGED <<taskVars, waitWorkersCount_, ownVars, finVars, events>>

FinalizeEnd ==
  /\ pc[Main] = "sum" /\ unread = {} /\ sum = 0
  /\ pc' = [t \in Threads |-> IF t = Main THEN "join"
                              ELSE IF pc[t] = "qwait" THEN "qwake" ELSE pc[t]]
  /\ finish_' = TRUE /\ disableHelpers_' = TRUE
  /\ waitToFinish_' = waitToFinish_ - 1
  /\ lock' = None
  /\ UNCHANGED <<taskVars, waitWorkersCount_, ownVars, finVars, events>>

\* Join all workers, then delete them.
Join ==
  /\ Goto(Main, "join", "done")
  /\ \A w \in Workers : pc[w] = "exit"
  /\ UNCHANGED <<taskVars, lock, flagVars, ownVars, finVars, events>>

-----------------------------------------------------------------------------
\* What a thread does once a call is under way.
Continue(t) ==
  \/ AddPush(t) \/ SignalWorkers(t) \/ SignalOne(t)
  \/ ReportWaiters(t) \/ ReportCount(t) \/ ReportSignal(t) \/ ReportEnd(t)
  \/ \E p \in Props : Report(t, p)

WorkerStep(w) ==
  \/ WorkerLoop(w) \/ Steal(w)
  \/ FillScan(w) \/ FillIncr(w) \/ FillRescan(w) \/ FillWake(w)
  \/ PutTasksInWorker(w) \/ Execute(w) \/ RunTask(w) \/ Continue(w)

UserStep(u) == HelpPop(u) \/ HelpSteal(u) \/ Continue(u)

MainStep ==
  \/ WaitCheck \/ FinalizeWait \/ FinishWake \/ FinalizeEnd \/ Join
  \/ \E p \in Props : SumCounter(p)

Next ==
  \/ \E t \in Workers \cup Users, p \in Props : AddCount(t, p)
  \/ \E w \in Workers : WorkerStep(w) \/ FillTimeout(w)
  \/ \E u \in Users : UserStep(u) \/ \E p \in Props : HelpStart(u, p)
  \/ MainStep \/ FinalizeStart
  \/ \E p \in Props : WaitStart(p)

Spec == Init /\ [][Next]_vars

\* Every thread goes on with what it is doing.  Nothing makes a TimedWait time
\* out, a task add another one, or a user or Main call the scheduler.
FairSpec ==
  /\ Spec
  /\ \A w \in Workers : WF_vars(WorkerStep(w))
  /\ \A u \in Users : WF_vars(UserStep(u))
  /\ WF_vars(MainStep)

-----------------------------------------------------------------------------
(* Properties.                                                             *)

ReportLabels == {"report", "repWaiters", "repCount", "repLock"}
WorkerLabels ==
  {"loop", "steal", "fill", "incr", "rescan", "qwait", "qwake", "decr", "put", "exec",
   "run", "exit", "addPush", "addSignal", "addLock"} \cup ReportLabels
UserLabels ==
  {"idle", "addPush", "addSignal", "addLock", "helpPop", "helpSteal"} \cup ReportLabels
MainLabels == {"idle", "wait", "waited", "sum", "fwait", "fwake", "join", "done"}

\* Every variable has its type; no counter goes below zero.
TypeOK ==
  /\ queue \in [Props -> Nat] /\ local \in [Workers -> [Props -> Nat]]
  /\ inSystem \in [Props -> Nat]
  /\ lock \in Threads \cup {None}
  /\ waitWorkersCount_ \in 0 .. Cardinality(Workers) /\ waitToFinish_ \in 0 .. 1
  /\ finish_ \in BOOLEAN /\ disableHelpers_ \in BOOLEAN
  /\ \A w \in Workers : pc[w] \in WorkerLabels
  /\ \A u \in Users : pc[u] \in UserLabels
  /\ pc[Main] \in MainLabels
  /\ arg \in [Threads -> Props \cup {None}] /\ hand \in [Workers -> Props \cup {None}]
  /\ done \in [Threads -> [Props -> Nat]]
  /\ unread \in SUBSET Props /\ sum \in Nat
  /\ events \in 0 .. MaxEvents

\* The tasks of property p that f[x] counts for the x of S, one pair for each.
Items(f, S, p) == UNION {{x} \X (1 .. f[x][p]) : x \in S}
Running(p) == {w \in Workers : hand[w] = p}
Pushing(p) == {t \in Threads : pc[t] = "addPush" /\ arg[t] = p}

\* Where the tasks of property p are: about to be pushed, in the queue, in a
\* local queue, running, or executed and not reported.
Outstanding(p) ==
  queue[p] + Cardinality(Items(local, Workers, p)) + Cardinality(Items(done, Threads, p))
           + Cardinality(Running(p)) + Cardinality(Pushing(p))

\* The lock-free counter is exactly the number of tasks in the system: no task is
\* lost, run twice or counted twice between AddTask, stealing, helping and the
\* report, so a waiter that reads zero is right (the ASSERTs of the statistics).
CountExact == \A p \in Props : inSystem[p] = Outstanding(p)

\* Finalize returns only when every task was executed, also those that running
\* tasks added while it was adding up the counters and that its sum missed.
NothingLeft == pc[Main] = "done" => \A p \in Props : Outstanding(p) = 0

\* Once added, tasks are executed, without help from the timeout of TimedWait.
TasksRun == []<>(\A p \in Props : inSystem[p] = 0)

\* WaitForFinishAllTasksWithProperties and Finalize return: the report of the
\* last task is not missed by a waiter about to sleep, and the workers see finish_.
WaitersReturn == (pc[Main] \in {"wait", "sum"}) ~> (pc[Main] \in {"waited", "done"})
=============================================================================
