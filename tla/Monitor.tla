------------------------------ MODULE Monitor ------------------------------
(***************************************************************************)
(* The object monitor of the static runtime (runtime/monitor.cpp,          *)
(* monitor_pool.cpp, and the hash code of object_header.cpp), in the build *)
(* with futexes.  One object; its mark word is unlocked, light locked by a *)
(* thread with a count, heavy locked through a Monitor of the pool, or     *)
(* hashed.                                                                 *)
(*                                                                         *)
(* One action is one access to the mark word or one step that the lock_    *)
(* of the Monitor, the condLock_ of a thread or the parked state of the    *)
(* owner makes atomic for the others.  lock_ is the abstract mutex that    *)
(* module FMutex implements, and suspension is what module Suspension      *)
(* promises: a thread with a suspend count, and every thread during a      *)
(* pause, does not leave a safepoint label.  The other bits of the mark    *)
(* word, the notification callbacks and the traces are left out.           *)
(***************************************************************************)
EXTENDS Integers, FiniteSets, Sequences, SequencesExt

CONSTANTS
  Threads,    \* the MTManagedThreads
  Ids,        \* the monitor ids of the pool
  Hashes,     \* the hash codes GenerateHashCode can return
  IdBits,     \* the thread whose internal id is in the thread-id bits of a hash or monitor id
  LightMax,   \* LIGHT_LOCK_LOCK_MAX_COUNT
  MaxDepth,   \* bound on the nesting of one thread
  Ops,        \* the operations the threads of this instance call
  None

ASSUME MonitorAssumption ==
  /\ IsFiniteSet(Threads) /\ IsFiniteSet(Ids)
  /\ None \notin Threads \cup Ids \cup Hashes
  /\ IdBits \in [Hashes \cup Ids -> Threads \cup {None}]
  /\ LightMax \in Nat \ {0, 1} /\ MaxDepth \in Nat \ {0}

VARIABLES
  mark,             \* the mark word
  monitors,         \* the monitors of the pool, by id
  pc, op,           \* the next step of a thread and the operation it is in
  seen,             \* the mark word a compare-exchange expects
  mon,              \* the id of the Monitor in use
  target,           \* the thread an inflation is for, or the waiter to signal
  saved,            \* Wait's copy of recursiveCounter_
  held,             \* entries for the object in localObjectsLocked_
  waitingMonitor_, interrupted, monitorCount_, suspendCount_,
  paused, unvisited,  \* a pause, and the monitors it has not tried to deflate
  hashes            \* the hash codes returned so far

locals == <<pc, op, seen, mon, target, saved>>
threadVars == <<held, waitingMonitor_, interrupted, monitorCount_, suspendCount_>>
gcVars == <<paused, unvisited>>
vars == <<mark, monitors, locals, threadVars, gcVars, hashes>>

Unlocked == [state |-> "unlocked"]
Light(t, n) == [state |-> "light", tid |-> t, count |-> n]
Heavy(i) == [state |-> "heavy", id |-> i]
Hashed(h) == [state |-> "hashed", hash |-> h]

LightLockedBy(w, t) == w.state = "light" /\ w.tid = t

\* A Monitor that is not in the pool, and one that is.
Free == [live |-> FALSE]
Created(t, n, h) ==
  [live |-> TRUE, owner_ |-> t, lock_ |-> t, recursiveCounter_ |-> n,
   hashCode_ |-> h, waitersCounter_ |-> 0, waiters_ |-> <<>>, toWakeup_ |-> <<>>]

Init ==
  /\ mark = Unlocked
  /\ monitors = [i \in Ids |-> Free]
  /\ pc = [t \in Threads |-> "managed"]
  /\ op = [t \in Threads |-> "none"]
  /\ seen = [t \in Threads |-> Unlocked]
  /\ mon = [t \in Threads |-> None]
  /\ target = [t \in Threads |-> None]
  /\ saved = [t \in Threads |-> 0]
  /\ held = [t \in Threads |-> 0]
  /\ waitingMonitor_ = [t \in Threads |-> None]
  /\ interrupted = [t \in Threads |-> FALSE]
  /\ monitorCount_ = [t \in Threads |-> 0]
  /\ suspendCount_ = [t \in Threads |-> 0]
  /\ paused = FALSE
  /\ unvisited = {}
  /\ hashes = {}

-----------------------------------------------------------------------------
\* The labels at which the status of a thread is not RUNNING, or at which it
\* polls for a safepoint.
SafeLabels ==
  {"managed", "suspend", "await", "block", "setowner", "unblock", "asleep", "woken"}
Parked(t) == pc[t] \in SafeLabels
MayRun(t) == suspendCount_[t] = 0 /\ ~paused

InWait(t) == op[t] \in {"wait", "waitignore"}

\* condLock_ of a waiter: taken before it enters waiters_, given up in its sleep.
CondLockHeld(t) == InWait(t) /\ pc[t] \in {"release", "signal", "unlock", "presleep"}

At(t, label) == pc[t] = label
Goto(t, label) == pc' = [pc EXCEPT ![t] = label]
Jump(t, from, to) == At(t, from) /\ Goto(t, to)

Begin(t, o, label) ==
  /\ MayRun(t) /\ o \in Ops
  /\ Jump(t, "managed", label)
  /\ op' = [op EXCEPT ![t] = o]
  /\ UNCHANGED <<mark, monitors, seen, mon, target, saved, threadVars, gcVars, hashes>>

\* Back in the caller's code: the locals of the call are gone.
Return(t) ==
  /\ Goto(t, "managed")
  /\ op' = [op EXCEPT ![t] = "none"]
  /\ seen' = [seen EXCEPT ![t] = Unlocked]
  /\ mon' = [mon EXCEPT ![t] = None]
  /\ target' = [target EXCEPT ![t] = None]
  /\ saved' = [saved EXCEPT ![t] = 0]

\* The next iteration of the while (true) of the operation.
Loop(t) ==
  /\ Goto(t, CASE op[t] \in {"enter", "tryenter"} -> "enter"
               [] op[t] = "hash" -> "hash"
               [] OTHER -> "wait")
  /\ seen' = [seen EXCEPT ![t] = Unlocked]
  /\ mon' = [mon EXCEPT ![t] = None]
  /\ target' = [target EXCEPT ![t] = None]
  /\ UNCHANGED <<op, saved>>

Entered(t) == held' = [held EXCEPT ![t] = @ + 1]
Exited(t) == held' = [held EXCEPT ![t] = @ - 1]
AddMonitor(t) == monitorCount_' = [monitorCount_ EXCEPT ![t] = @ + 1]
RemoveMonitor(t) == monitorCount_' = [monitorCount_ EXCEPT ![t] = @ - 1]

-----------------------------------------------------------------------------
(* MonitorEnter *)

EnterBegin(t) == held[t] < MaxDepth /\ \E o \in {"enter", "tryenter"} : Begin(t, o, "enter")

EnterHeavy(t) ==
  /\ mark.state = "heavy"
  /\ Jump(t, "enter", "acquire")
  /\ mon' = [mon EXCEPT ![t] = mark.id]
  /\ UNCHANGED <<mark, monitors, op, seen, target, saved, threadVars, gcVars, hashes>>

EnterFree(t) ==
  /\ \/ mark.state = "unlocked"
     \/ LightLockedBy(mark, t) /\ mark.count + 1 < LightMax
  /\ Jump(t, "enter", "cas")
  /\ seen' = [seen EXCEPT ![t] = mark]
  /\ UNCHANGED <<mark, monitors, op, mon, target, saved, threadVars, gcVars, hashes>>

\* The count would not fit in the mark word, or the hash is in its place.
EnterInflate(t) ==
  /\ \/ mark.state = "hashed"
     \/ LightLockedBy(mark, t) /\ mark.count + 1 >= LightMax
  /\ Jump(t, "enter", "inflate")
  /\ target' = [target EXCEPT ![t] = t]
  /\ UNCHANGED <<mark, monitors, op, seen, mon, saved, threadVars, gcVars, hashes>>

\* Light locked by another thread.  The up to 100 retries before InflateThinLock
\* change nothing but the moment.
EnterContended(t) ==
  /\ At(t, "enter")
  /\ mark.state = "light" /\ mark.tid # t
  /\ IF op[t] = "tryenter" THEN Return(t)
     ELSE Goto(t, "thin") /\ UNCHANGED <<op, seen, mon, target, saved>>
  /\ UNCHANGED <<mark, monitors, threadVars, gcVars, hashes>>

\* Wrong variant: the new mark is stored, whatever the mark word holds by now.
EnterStore(t) ==
  /\ At(t, "cas")
  /\ mark' = Light(t, IF seen[t].state = "light" THEN seen[t].count + 1 ELSE 1)
  /\ Entered(t) /\ Return(t)
  /\ UNCHANGED <<monitors, waitingMonitor_, interrupted, monitorCount_, suspendCount_,
                 gcVars, hashes>>

EnterCAS(t) ==
  /\ At(t, "cas")
  /\ IF mark = seen[t]
     THEN /\ mark' = Light(t, IF seen[t].state = "light" THEN seen[t].count + 1 ELSE 1)
          /\ Entered(t) /\ Return(t)
     ELSE /\ IF op[t] = "tryenter" THEN Return(t) ELSE Loop(t)
          /\ UNCHANGED <<mark, held>>
  /\ UNCHANGED <<monitors, waitingMonitor_, interrupted, monitorCount_, suspendCount_,
                 gcVars, hashes>>

MonitorEnter(t) ==
  \/ EnterBegin(t) \/ EnterHeavy(t) \/ EnterFree(t) \/ EnterInflate(t)
  \/ EnterContended(t) \/ EnterCAS(t)

-----------------------------------------------------------------------------
(* Acquire, of MonitorEnter and of the end of Wait *)

Acquired(t) ==
  IF InWait(t)
  THEN Goto(t, "waitdone") /\ UNCHANGED <<held, op, seen, mon, target, saved>>
  ELSE Entered(t) /\ Return(t)

AcquireRecursive(t) ==
  /\ At(t, "acquire")
  /\ monitors[mon[t]].owner_ = t
  /\ monitors' = [monitors EXCEPT ![mon[t]].recursiveCounter_ = @ + 1]
  /\ Acquired(t)
  /\ UNCHANGED <<mark, waitingMonitor_, interrupted, monitorCount_, suspendCount_,
                 gcVars, hashes>>

\* TryLock and TryLockWithSpinning.
AcquireTry(t) ==
  /\ At(t, "acquire")
  /\ monitors[mon[t]].owner_ # t
  /\ monitors[mon[t]].lock_ = None
  /\ monitors' = [monitors EXCEPT ![mon[t]].lock_ = t]
  /\ Goto(t, "own")
  /\ UNCHANGED <<mark, op, seen, mon, target, saved, threadVars, gcVars, hashes>>

\* waitersCounter_ is raised while the status is still RUNNING.
AcquireFailed(t) ==
  /\ At(t, "acquire")
  /\ monitors[mon[t]].owner_ # t
  /\ monitors[mon[t]].lock_ # None
  /\ IF op[t] = "tryenter" THEN Return(t) /\ UNCHANGED monitors
     ELSE /\ monitors' = [monitors EXCEPT ![mon[t]].waitersCounter_ = @ + 1]
          /\ Goto(t, "block") /\ UNCHANGED <<op, seen, mon, target, saved>>
  /\ UNCHANGED <<mark, threadVars, gcVars, hashes>>

\* lock_.Lock() in status IS_BLOCKED.
AcquireBlock(t) ==
  /\ At(t, "block")
  /\ monitors[mon[t]].lock_ = None
  /\ monitors' = [monitors EXCEPT ![mon[t]].lock_ = t]
  /\ Goto(t, "setowner")
  /\ UNCHANGED <<mark, op, seen, mon, target, saved, threadVars, gcVars, hashes>>

SetOwner(i, t) == [monitors[i] EXCEPT !.owner_ = t, !.recursiveCounter_ = @ + 1]

\* After lock_.Lock(), before the status is RUNNING again.
AcquireBlocked(t) ==
  /\ Jump(t, "setowner", "unblock")
  /\ monitors' = [monitors EXCEPT ![mon[t]] = SetOwner(mon[t], t)]
  /\ AddMonitor(t)
  /\ UNCHANGED <<mark, op, seen, mon, target, saved, held, waitingMonitor_, interrupted,
                 suspendCount_, gcVars, hashes>>

AcquireUnblock(t) ==
  /\ At(t, "unblock") /\ MayRun(t)
  /\ monitors' = [monitors EXCEPT ![mon[t]].waitersCounter_ = @ - 1]
  /\ Acquired(t)
  /\ UNCHANGED <<mark, waitingMonitor_, interrupted, monitorCount_, suspendCount_,
                 gcVars, hashes>>

\* After TryLock.
AcquireOwn(t) ==
  /\ At(t, "own")
  /\ monitors' = [monitors EXCEPT ![mon[t]] = SetOwner(mon[t], t)]
  /\ AddMonitor(t)
  /\ Acquired(t)
  /\ UNCHANGED <<mark, waitingMonitor_, interrupted, suspendCount_, gcVars, hashes>>

Acquire(t) ==
  \/ AcquireRecursive(t) \/ AcquireTry(t) \/ AcquireFailed(t) \/ AcquireBlock(t)
  \/ AcquireBlocked(t) \/ AcquireUnblock(t) \/ AcquireOwn(t)

-----------------------------------------------------------------------------
(* MonitorExit and Release *)

ExitBegin(t) == held[t] > 0 /\ Begin(t, "exit", "exit")

ExitHeavy(t) ==
  /\ mark.state = "heavy"
  /\ Jump(t, "exit", "release")
  /\ mon' = [mon EXCEPT ![t] = mark.id]
  /\ UNCHANGED <<mark, monitors, op, seen, target, saved, threadVars, gcVars, hashes>>

ExitLight(t) ==
  /\ LightLockedBy(mark, t)
  /\ Jump(t, "exit", "exitcas")
  /\ seen' = [seen EXCEPT ![t] = mark]
  /\ UNCHANGED <<mark, monitors, op, mon, target, saved, threadVars, gcVars, hashes>>

ExitCAS(t) ==
  /\ At(t, "exitcas")
  /\ IF mark = seen[t]
     THEN /\ mark' = IF seen[t].count = 1 THEN Unlocked ELSE Light(t, seen[t].count - 1)
          /\ Exited(t) /\ Return(t)
     ELSE /\ Goto(t, "exit") /\ seen' = [seen EXCEPT ![t] = Unlocked]
          /\ UNCHANGED <<mark, held, op, mon, target, saved>>
  /\ UNCHANGED <<monitors, waitingMonitor_, interrupted, monitorCount_, suspendCount_,
                 gcVars, hashes>>

\* An inner level of the recursion.
ReleaseNested(t) ==
  /\ At(t, "release")
  /\ monitors[mon[t]].recursiveCounter_ > 1
  /\ monitors' = [monitors EXCEPT ![mon[t]].recursiveCounter_ = @ - 1]
  /\ Exited(t) /\ Return(t)
  /\ UNCHANGED <<mark, waitingMonitor_, interrupted, monitorCount_, suspendCount_,
                 gcVars, hashes>>

\* Wrong variant: only the release of MonitorExit takes a waiter to signal.
ReleaseForgetful(t) ==
  LET m == monitors[mon[t]] w == m.toWakeup_ IN
  /\ At(t, "release")
  /\ m.recursiveCounter_ = 1
  /\ monitors' = [monitors EXCEPT ![mon[t]].recursiveCounter_ = 0, ![mon[t]].owner_ = None,
                                  ![mon[t]].toWakeup_ = IF w = <<>> \/ InWait(t) THEN w ELSE Tail(w)]
  /\ IF w # <<>> /\ ~InWait(t) /\ waitingMonitor_[Head(w)] = mon[t]
     THEN Goto(t, "signal") /\ target' = [target EXCEPT ![t] = Head(w)]
     ELSE Goto(t, "unlock") /\ UNCHANGED target
  /\ RemoveMonitor(t)
  /\ UNCHANGED <<mark, op, seen, mon, saved, held, waitingMonitor_, interrupted,
                 suspendCount_, gcVars, hashes>>

\* The outermost level: give up the ownership and take one waiter to signal.
ReleaseLast(t) ==
  LET m == monitors[mon[t]] w == m.toWakeup_ IN
  /\ At(t, "release")
  /\ m.recursiveCounter_ = 1
  /\ monitors' = [monitors EXCEPT ![mon[t]].recursiveCounter_ = 0, ![mon[t]].owner_ = None,
                                  ![mon[t]].toWakeup_ = IF w = <<>> THEN w ELSE Tail(w)]
  /\ IF w # <<>> /\ waitingMonitor_[Head(w)] = mon[t]
     THEN Goto(t, "signal") /\ target' = [target EXCEPT ![t] = Head(w)]
     ELSE Goto(t, "unlock") /\ UNCHANGED target
  /\ RemoveMonitor(t)
  /\ UNCHANGED <<mark, op, seen, mon, saved, held, waitingMonitor_, interrupted,
                 suspendCount_, gcVars, hashes>>

\* Signal under the condLock_ of the waiter; no effect when it is not asleep.
ReleaseSignal(t) ==
  LET w == target[t] IN
  /\ At(t, "signal")
  /\ ~CondLockHeld(w)
  /\ pc' = [pc EXCEPT ![t] = "unlock", ![w] = IF @ = "asleep" THEN "woken" ELSE @]
  /\ UNCHANGED <<mark, monitors, op, seen, mon, target, saved, threadVars, gcVars, hashes>>

ReleaseUnlock(t) ==
  /\ At(t, "unlock")
  /\ monitors' = [monitors EXCEPT ![mon[t]].lock_ = None]
  /\ IF InWait(t) THEN /\ Goto(t, "presleep")
                       /\ target' = [target EXCEPT ![t] = None]
                       /\ UNCHANGED <<held, op, seen, mon, saved>>
     ELSE Exited(t) /\ Return(t)
  /\ UNCHANGED <<mark, waitingMonitor_, interrupted, monitorCount_, suspendCount_,
                 gcVars, hashes>>

Release(t) == ReleaseNested(t) \/ ReleaseLast(t) \/ ReleaseSignal(t) \/ ReleaseUnlock(t)
MonitorExit(t) == ExitBegin(t) \/ ExitHeavy(t) \/ ExitLight(t) \/ ExitCAS(t)

-----------------------------------------------------------------------------
(* Wait *)

WaitBegin(t) == held[t] > 0 /\ \E o \in {"wait", "waitignore"} : Begin(t, o, "wait")

WaitInflate(t) ==
  /\ LightLockedBy(mark, t)
  /\ Jump(t, "wait", "inflate")
  /\ target' = [target EXCEPT ![t] = t]
  /\ UNCHANGED <<mark, monitors, op, seen, mon, saved, threadVars, gcVars, hashes>>

\* Under the own condLock_: enter waiters_, save the count and release.
WaitEnqueue(t) ==
  /\ mark.state = "heavy"
  /\ monitors[mark.id].owner_ = t
  /\ Jump(t, "wait", "release")
  /\ mon' = [mon EXCEPT ![t] = mark.id]
  /\ saved' = [saved EXCEPT ![t] = monitors[mark.id].recursiveCounter_]
  /\ monitors' = [monitors EXCEPT ![mark.id].waiters_ = <<t>> \o @,
                                  ![mark.id].recursiveCounter_ = 1,
                                  ![mark.id].waitersCounter_ = @ + 1]
  /\ waitingMonitor_' = [waitingMonitor_ EXCEPT ![t] = mark.id]
  /\ UNCHANGED <<mark, op, seen, target, held, interrupted, monitorCount_, suspendCount_,
                 gcVars, hashes>>

\* Already interrupted: only a safepoint.  Otherwise sleep, which gives up condLock_.
WaitSleep(t) ==
  /\ Jump(t, "presleep", IF interrupted[t] /\ op[t] = "wait" THEN "woken" ELSE "asleep")
  /\ UNCHANGED <<mark, monitors, op, seen, mon, target, saved, threadVars, gcVars, hashes>>

\* A timeout, or a spurious return of the condition variable.
WaitTimeout(t) ==
  /\ "timeout" \in Ops
  /\ Jump(t, "asleep", "woken")
  /\ UNCHANGED <<mark, monitors, op, seen, mon, target, saved, threadVars, gcVars, hashes>>

WaitReacquire(t) ==
  /\ MayRun(t)
  /\ Jump(t, "woken", "acquire")
  /\ UNCHANGED <<mark, monitors, op, seen, mon, target, saved, threadVars, gcVars, hashes>>

\* RemoveIf of toWakeup_, where the thread is if it was not found in waiters_.  The
\* lists are linked through the threads, so a thread is in a list at most once.
Unlisted(i, t) ==
  IF Contains(monitors[i].waiters_, t) THEN monitors[i].toWakeup_
  ELSE RemoveFirst(monitors[i].toWakeup_, t)

\* Wrong variant: a waiter that was not signalled stays in the list.
WaitDoneListed(t) ==
  /\ At(t, "waitdone")
  /\ monitors' = [monitors EXCEPT ![mon[t]].waitersCounter_ = @ - 1,
                                  ![mon[t]].recursiveCounter_ = saved[t],
                                  ![mon[t]].waiters_ = RemoveFirst(@, t)]
  /\ waitingMonitor_' = [waitingMonitor_ EXCEPT ![t] = None]
  /\ Return(t)
  /\ UNCHANGED <<mark, held, interrupted, monitorCount_, suspendCount_, gcVars, hashes>>

\* Wrong variant: the count is left as the new Acquire set it.
WaitDoneFlat(t) ==
  /\ At(t, "waitdone")
  /\ monitors' = [monitors EXCEPT ![mon[t]].waitersCounter_ = @ - 1,
                                  ![mon[t]].waiters_ = RemoveFirst(@, t),
                                  ![mon[t]].toWakeup_ = Unlisted(mon[t], t)]
  /\ waitingMonitor_' = [waitingMonitor_ EXCEPT ![t] = None]
  /\ Return(t)
  /\ UNCHANGED <<mark, held, interrupted, monitorCount_, suspendCount_, gcVars, hashes>>

\* Owner again: restore the count and leave whichever list the thread is still in.
WaitDone(t) ==
  /\ At(t, "waitdone")
  /\ monitors' = [monitors EXCEPT ![mon[t]].waitersCounter_ = @ - 1,
                                  ![mon[t]].recursiveCounter_ = saved[t],
                                  ![mon[t]].waiters_ = RemoveFirst(@, t),
                                  ![mon[t]].toWakeup_ = Unlisted(mon[t], t)]
  /\ waitingMonitor_' = [waitingMonitor_ EXCEPT ![t] = None]
  /\ Return(t)
  /\ UNCHANGED <<mark, held, interrupted, monitorCount_, suspendCount_, gcVars, hashes>>

Wait(t) ==
  \/ WaitBegin(t) \/ WaitInflate(t) \/ WaitEnqueue(t) \/ WaitSleep(t)
  \/ WaitTimeout(t) \/ WaitReacquire(t) \/ WaitDone(t)

-----------------------------------------------------------------------------
(* Notify, NotifyAll and Interrupt *)

\* The owner moves waiters; a light lock has none.
Notify(t) ==
  /\ At(t, "managed") /\ MayRun(t) /\ "notify" \in Ops
  /\ mark.state = "heavy"
  /\ monitors[mark.id].owner_ = t
  /\ monitors[mark.id].waiters_ # <<>>
  /\ monitors' = [monitors EXCEPT
       ![mark.id].toWakeup_ = <<Head(monitors[mark.id].waiters_)>> \o @,
       ![mark.id].waiters_ = Tail(@)]
  /\ UNCHANGED <<mark, locals, threadVars, gcVars, hashes>>

\* Swap when toWakeup_ is empty, otherwise Splice: both append.
NotifyAll(t) ==
  /\ At(t, "managed") /\ MayRun(t) /\ "notifyall" \in Ops
  /\ mark.state = "heavy"
  /\ monitors[mark.id].owner_ = t
  /\ monitors' = [monitors EXCEPT ![mark.id].toWakeup_ = @ \o monitors[mark.id].waiters_,
                                  ![mark.id].waiters_ = <<>>]
  /\ UNCHANGED <<mark, locals, threadVars, gcVars, hashes>>

\* Some thread interrupts t, under the condLock_ of t.
Interrupt(t) ==
  /\ "interrupt" \in Ops
  /\ ~CondLockHeld(t) /\ ~interrupted[t]
  /\ interrupted' = [interrupted EXCEPT ![t] = TRUE]
  /\ pc' = [pc EXCEPT ![t] = IF @ = "asleep" THEN "woken" ELSE @]
  /\ UNCHANGED <<mark, monitors, op, seen, mon, target, saved, held, waitingMonitor_,
                 monitorCount_, suspendCount_, gcVars, hashes>>

Interrupted(t) ==
  /\ At(t, "managed") /\ MayRun(t) /\ interrupted[t]
  /\ interrupted' = [interrupted EXCEPT ![t] = FALSE]
  /\ UNCHANGED <<mark, monitors, locals, held, waitingMonitor_, monitorCount_,
                 suspendCount_, gcVars, hashes>>

-----------------------------------------------------------------------------
(* Inflation *)

\* GetThreadId of any mark word: the bits of the thread id, whatever they hold.
GetThreadId(w) ==
  CASE w.state = "light" -> w.tid
    [] w.state = "hashed" -> IdBits[w.hash]
    [] w.state = "heavy" -> IdBits[w.id]
    [] OTHER -> None

\* InflateThinLock reads the mark word again and leaves RUNNING.
ThinLoad(t) ==
  /\ Jump(t, "thin", "suspend")
  /\ target' = [target EXCEPT ![t] = GetThreadId(mark)]
  /\ UNCHANGED <<mark, monitors, op, seen, mon, saved, threadVars, gcVars, hashes>>

ThinNobody(t) ==
  /\ At(t, "suspend") /\ target[t] = None /\ MayRun(t)
  /\ Loop(t)
  /\ UNCHANGED <<mark, monitors, threadVars, gcVars, hashes>>

\* SuspendAndWaitThreadByInternalThreadId: not while this thread is to be suspended.
ThinSuspend(t) ==
  /\ Jump(t, "suspend", "await")
  /\ target[t] # None /\ MayRun(t)
  /\ suspendCount_' = [suspendCount_ EXCEPT ![target[t]] = @ + 1]
  /\ UNCHANGED <<mark, monitors, op, seen, mon, target, saved, held, waitingMonitor_,
                 interrupted, monitorCount_, gcVars, hashes>>

ThinAwait(t) ==
  /\ Jump(t, "await", "inflate")
  /\ Parked(target[t]) /\ MayRun(t)
  /\ UNCHANGED <<mark, monitors, op, seen, mon, target, saved, threadVars, gcVars, hashes>>

ThinResume(t) ==
  /\ At(t, "resume")
  /\ suspendCount_' = [suspendCount_ EXCEPT ![target[t]] = @ - 1]
  /\ Loop(t)
  /\ UNCHANGED <<mark, monitors, held, waitingMonitor_, interrupted, monitorCount_,
                 gcVars, hashes>>

InflateThinLock(t) ==
  ThinLoad(t) \/ ThinNobody(t) \/ ThinSuspend(t) \/ ThinAwait(t) \/ ThinResume(t)

\* What the caller of Inflate does next.  For another thread: resume it.  In
\* MonitorEnter, an inflation that had no light lock to keep is the acquisition;
\* one that had goes on, or fails when trylock is set.
Inflated(t, ok, from) ==
  CASE target[t] # t ->
         Goto(t, "resume") /\ seen' = [seen EXCEPT ![t] = Unlocked]
         /\ mon' = [mon EXCEPT ![t] = None] /\ UNCHANGED <<held, op, target, saved>>
    [] target[t] = t /\ op[t] \in {"enter", "tryenter"} /\ ok /\ from.state # "light" ->
         Entered(t) /\ Return(t)
    [] target[t] = t /\ op[t] = "tryenter" /\ ~(ok /\ from.state # "light") ->
         Return(t) /\ UNCHANGED held
    [] OTHER -> Loop(t) /\ UNCHANGED held

\* Nothing to inflate any more: heavy already, or not locked by that thread.
InflateNot(t) ==
  \/ mark.state = "heavy"
  \/ target[t] = t /\ mark.state = "light" /\ ~LightLockedBy(mark, t)
  \/ target[t] # t /\ ~LightLockedBy(mark, target[t])

InflateFail(t) ==
  /\ At(t, "inflate")
  /\ InflateNot(t)
  /\ Inflated(t, FALSE, mark)
  /\ UNCHANGED <<mark, monitors, waitingMonitor_, interrupted, monitorCount_, suspendCount_,
                 gcVars, hashes>>

\* CreateMonitor, InitWithOwner and the copy of the old mark word; nobody else
\* knows the new Monitor yet.
InflateCreate(t) ==
  LET o == target[t] IN
  /\ Jump(t, "inflate", "publish")
  /\ ~InflateNot(t)
  /\ \E i \in {j \in Ids : ~monitors[j].live} :
       /\ monitors' = [monitors EXCEPT ![i] =
            Created(o, IF mark.state = "light" THEN mark.count ELSE 1,
                    IF mark.state = "hashed" THEN mark.hash ELSE None)]
       /\ mon' = [mon EXCEPT ![t] = i]
  /\ seen' = [seen EXCEPT ![t] = mark]
  /\ UNCHANGED <<mark, op, target, saved, threadVars, gcVars, hashes>>

\* Wrong variant: the Monitor is counted for its owner even if the exchange fails.
InflatePublishCounts(t) ==
  /\ At(t, "publish")
  /\ AddMonitor(target[t])
  /\ IF mark = seen[t]
     THEN /\ mark' = Heavy(mon[t])
          /\ Inflated(t, TRUE, seen[t])
          /\ UNCHANGED monitors
     ELSE /\ monitors' = [monitors EXCEPT ![mon[t]] = Free]
          /\ Inflated(t, FALSE, seen[t])
          /\ UNCHANGED mark
  /\ UNCHANGED <<waitingMonitor_, interrupted, suspendCount_, gcVars, hashes>>

\* The exchange of the mark word; ReleaseOnFailedInflate and FreeMonitor if it fails.
InflatePublish(t) ==
  /\ At(t, "publish")
  /\ IF mark = seen[t]
     THEN /\ mark' = Heavy(mon[t])
          /\ AddMonitor(target[t])
          /\ Inflated(t, TRUE, seen[t])
          /\ UNCHANGED monitors
     ELSE /\ monitors' = [monitors EXCEPT ![mon[t]] = Free]
          /\ Inflated(t, FALSE, seen[t])
          /\ UNCHANGED <<mark, monitorCount_>>
  /\ UNCHANGED <<waitingMonitor_, interrupted, suspendCount_, gcVars, hashes>>

Inflate(t) == InflateFail(t) \/ InflateCreate(t) \/ InflatePublish(t)

-----------------------------------------------------------------------------
(* Deflation, in a pause of the garbage collector *)

PauseBegin ==
  /\ "gc" \in Ops /\ ~paused
  /\ \A t \in Threads : Parked(t)
  /\ paused' = TRUE
  /\ unvisited' = {i \in Ids : monitors[i].live}
  /\ unvisited' # {}
  /\ UNCHANGED <<mark, monitors, locals, threadVars, hashes>>

\* Wrong variant: a Monitor nobody owns is deflated although threads wait for it.
DeflatableUnowned(m) == m.owner_ = None /\ m.lock_ = None

Deflatable(m) == m.owner_ = None /\ m.waitersCounter_ = 0 /\ m.lock_ = None

\* Wrong variant: the mark word of a deflated object is always the unlocked one.
DeflateToUnlocked(i) ==
  /\ i \in unvisited
  /\ unvisited' = unvisited \ {i}
  /\ IF Deflatable(monitors[i])
     THEN /\ mark' = Unlocked
          /\ monitors' = [monitors EXCEPT ![i] = Free]
     ELSE UNCHANGED <<mark, monitors>>
  /\ UNCHANGED <<locals, threadVars, paused, hashes>>

DeflateInternal(i) ==
  /\ i \in unvisited
  /\ unvisited' = unvisited \ {i}
  /\ IF Deflatable(monitors[i])
     THEN /\ mark' = IF monitors[i].hashCode_ # None THEN Hashed(monitors[i].hashCode_)
                     ELSE Unlocked
          /\ monitors' = [monitors EXCEPT ![i] = Free]
     ELSE UNCHANGED <<mark, monitors>>
  /\ UNCHANGED <<locals, threadVars, paused, hashes>>

PauseEnd ==
  /\ paused /\ unvisited = {}
  /\ paused' = FALSE
  /\ UNCHANGED <<mark, monitors, locals, threadVars, unvisited, hashes>>

DeflateMonitors == PauseBegin \/ (\E i \in Ids : DeflateInternal(i)) \/ PauseEnd

-----------------------------------------------------------------------------
(* GetHashCode *)

HashBegin(t) == Begin(t, "hash", "hash")

HashUnlocked(t) ==
  /\ mark.state = "unlocked"
  /\ Jump(t, "hash", "hashcas")
  /\ seen' = [seen EXCEPT ![t] = mark]
  /\ UNCHANGED <<mark, monitors, op, mon, target, saved, threadVars, gcVars, hashes>>

HashCAS(t) ==
  /\ At(t, "hashcas")
  /\ \E h \in Hashes : mark' = IF mark = seen[t] THEN Hashed(h) ELSE mark
  /\ Loop(t)
  /\ UNCHANGED <<monitors, threadVars, gcVars, hashes>>

HashLight(t) ==
  /\ mark.state = "light"
  /\ Jump(t, "hash", IF mark.tid = t THEN "inflate" ELSE "thin")
  /\ target' = [target EXCEPT ![t] = IF mark.tid = t THEN t ELSE @]
  /\ UNCHANGED <<mark, monitors, op, seen, mon, saved, threadVars, gcVars, hashes>>

\* Monitor::GetHashCode: the first caller's value stays.
HashHeavy(t) ==
  /\ At(t, "hash") /\ mark.state = "heavy"
  /\ LET old == monitors[mark.id].hashCode_ IN
     \E h \in Hashes :
       /\ old # None => h = old
       /\ monitors' = [monitors EXCEPT ![mark.id].hashCode_ = h]
       /\ hashes' = hashes \cup {h}
  /\ Return(t)
  /\ UNCHANGED <<mark, threadVars, gcVars>>

HashHashed(t) ==
  /\ At(t, "hash") /\ mark.state = "hashed"
  /\ hashes' = hashes \cup {mark.hash}
  /\ Return(t)
  /\ UNCHANGED <<mark, monitors, threadVars, gcVars>>

GetHashCode(t) ==
  \/ HashBegin(t) \/ HashUnlocked(t) \/ HashCAS(t) \/ HashLight(t)
  \/ HashHeavy(t) \/ HashHashed(t)

-----------------------------------------------------------------------------
Next ==
  \/ \E t \in Threads :
       \/ MonitorEnter(t) \/ Acquire(t) \/ MonitorExit(t) \/ Release(t) \/ Wait(t)
       \/ Notify(t) \/ NotifyAll(t) \/ Interrupt(t) \/ Interrupted(t)
       \/ InflateThinLock(t) \/ Inflate(t) \/ GetHashCode(t)
  \/ DeflateMonitors

Spec == Init /\ [][Next]_vars

\* The steps a thread takes by itself once it is in a call, and the exit from a
\* monitor it has entered; entering, waiting, notifying, a timeout, an interrupt and a
\* pause need not happen.
Progress(t) ==
  \/ EnterHeavy(t) \/ EnterFree(t) \/ EnterInflate(t) \/ EnterContended(t) \/ EnterCAS(t)
  \/ Acquire(t) \/ MonitorExit(t) \/ Release(t)
  \/ WaitInflate(t) \/ WaitEnqueue(t) \/ WaitSleep(t) \/ WaitReacquire(t) \/ WaitDone(t)
  \/ InflateThinLock(t) \/ Inflate(t)

FairSpec == Spec /\ \A t \in Threads : WF_vars(Progress(t))

-----------------------------------------------------------------------------
(* Properties *)

Marks ==
  {Unlocked} \cup {Light(t, n) : t \in Threads, n \in 1 .. LightMax - 1}
    \cup {Heavy(i) : i \in Ids} \cup {Hashed(h) : h \in Hashes}

MonitorType(m) ==
  /\ m.owner_ \in Threads \cup {None} /\ m.lock_ \in Threads \cup {None}
  /\ m.recursiveCounter_ \in 0 .. MaxDepth
  /\ m.hashCode_ \in Hashes \cup {None}
  /\ m.waitersCounter_ \in 0 .. 2 * Cardinality(Threads)
  /\ m.waiters_ \in Seq(Threads) /\ m.toWakeup_ \in Seq(Threads)

\* The mark word, the monitors of the pool and the counters stay in their ranges; in
\* particular a light count never reaches LIGHT_LOCK_LOCK_MAX_COUNT, a monitor never
\* counts more levels than its owner entered, and waitersCounter_ never underflows
\* (MonitorEnter, Acquire and Wait of monitor.cpp).
TypeOK ==
  /\ mark \in Marks
  /\ \A i \in Ids : monitors[i] = Free \/ MonitorType(monitors[i])
  /\ held \in [Threads -> 0 .. MaxDepth]
  /\ suspendCount_ \in [Threads -> 0 .. Cardinality(Threads)]
  /\ monitorCount_ \in [Threads -> 0 .. Cardinality(Ids)]

\* The part of Wait between the release of the monitor and its new acquisition.
Outside(t) ==
  InWait(t) /\ pc[t] \in {"presleep", "asleep", "woken", "acquire", "own", "block",
                          "setowner", "unblock"}
Inside(t) == held[t] > 0 /\ ~Outside(t)

\* Two threads are never inside the monitor of the object at the same time, although
\* the lock moves between the mark word and Monitors of the pool: MonitorEnter,
\* Inflate, Wait and DeflateInternal of monitor.cpp.
Exclusion == \A t, u \in Threads : Inside(t) /\ Inside(u) => t = u

\* How often t holds the lock, according to the mark word or the Monitor behind it.
LockCount(t) ==
  IF LightLockedBy(mark, t) THEN mark.count
  ELSE IF mark.state = "heavy" /\ monitors[mark.id].owner_ = t
       THEN monitors[mark.id].recursiveCounter_ ELSE 0

\* In the code between two calls a thread holds the lock exactly as often as it has
\* entered it: no level is lost or gained when another thread inflates the lock, when
\* the light count overflows, or in Wait (Inflate and Wait of monitor.cpp).
NestingKept == \A t \in Threads : At(t, "managed") => LockCount(t) = held[t]

UsesMonitor(t) == mon[t] # None /\ pc[t] # "publish"

\* A Monitor a thread works on, sleeps on or is blocked on is in the pool and is the
\* one of the object: deflation never takes it away from under the thread
\* (DeflateInternal at monitor.cpp:815, waitersCounter_).
NoDanglingMonitor ==
  /\ mark.state = "heavy" => monitors[mark.id].live
  /\ \A t \in Threads : UsesMonitor(t) => monitors[mon[t]].live /\ mark = Heavy(mon[t])

\* The assertions and fatal errors of monitor.cpp: SetOwner never fails, only the owner
\* releases, the thread an inflation is for is parked, a Monitor that is deflated has
\* nobody in its lists and no level of recursion, and monitorCount_ of a thread is the
\* number of Monitors it owns that the mark word refers to, on which the assertion of
\* ReleaseMonitors at thread exit rests.
AssertsHold ==
  /\ \A t \in Threads :
       /\ pc[t] \in {"own", "setowner"} => monitors[mon[t]].owner_ = None
       /\ pc[t] = "release" => monitors[mon[t]].owner_ = t
       /\ pc[t] \in {"inflate", "publish"} => target[t] = t \/ Parked(target[t])
       /\ monitorCount_[t] =
            Cardinality({i \in Ids : monitors[i].live /\ monitors[i].owner_ = t
                                      /\ mark = Heavy(i)})
  /\ \A i \in unvisited :
       Deflatable(monitors[i]) =>
         /\ monitors[i].waiters_ = <<>> /\ monitors[i].toWakeup_ = <<>>
         /\ monitors[i].recursiveCounter_ = 0

\* GetHashCode returns the same value for the object for ever, although the hash moves
\* from the mark word into a Monitor and back (Inflate, DeflateInternal, GetHashCode).
HashStable == Cardinality(hashes) <= 1

Listed(t, i) ==
  Cardinality({k \in DOMAIN monitors[i].waiters_ : monitors[i].waiters_[k] = t})
    + Cardinality({k \in DOMAIN monitors[i].toWakeup_ : monitors[i].toWakeup_[k] = t})

\* A thread asleep in Wait is in exactly one of the two lists of its Monitor, or a
\* Release has taken it out and is about to signal it; and whoever is in a list is
\* still in Wait on that Monitor.  The lists are linked through the threads themselves,
\* so a stale entry would be a dangling pointer (monitor.cpp:86, 424-430, 690-699).
ListsExact ==
  /\ \A t \in Threads :
       At(t, "asleep") =>
         \/ Listed(t, mon[t]) = 1
         \/ \E u \in Threads : At(u, "signal") /\ target[u] = t
  /\ \A i \in Ids, t \in Threads :
       monitors[i].live /\ Listed(t, i) > 0 =>
         Listed(t, i) = 1 /\ waitingMonitor_[t] = i /\ InWait(t)

Notified(t) == \E i \in Ids : monitors[i].live /\ Contains(monitors[i].toWakeup_, t)

\* A thread asleep in Wait that Notify or NotifyAll has picked wakes up, as long as
\* threads leave the monitors they enter: Release signals it, or a thread it has
\* signalled before does in its own Release (monitor.cpp:684-700).  Notify puts its
\* thread in front of the ones picked before, so this takes an end of the Notify calls:
\* two threads that notify each other for ever keep a third one asleep.
NotifiedWakes ==
  <>[][\A t \in Threads : ~Notify(t)]_vars =>
    \A t \in Threads : (At(t, "asleep") /\ Notified(t)) ~> ~At(t, "asleep")

\* "ASSERT(current != suspended)" of SuspendAndWaitThreadByInternalThreadId
\* (mt_thread_manager.cpp:353): InflateThinLock never asks to suspend the thread that
\* runs it.
NeverSuspendsItself == \A t \in Threads : pc[t] = "await" => target[t] # t
=============================================================================
