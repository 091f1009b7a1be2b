-------------------------- MODULE CoroutinesProofs --------------------------
(***************************************************************************)
(* Proofs for module Coroutines.  The inductive invariant says for every   *)
(* coroutine, from its status and its label, in which place it is: on a    *)
(* thread, in a queue, with its launcher, asleep in waiters_ or waiting to *)
(* be destroyed.  The counters are the sizes of sets of coroutines, which  *)
(* gives the tests of Main their meaning.                                  *)
(***************************************************************************)
EXTENDS Coroutines, FiniteSetTheorems, TLAPS

-----------------------------------------------------------------------------
(* The inductive invariant.                                                *)

Types ==
  /\ cur \in [Workers -> Coros \cup {None}]
  /\ runnables_ \in [Workers -> Seq(Coros)]
  /\ waiters_ \in [Workers -> [Events -> Coros \cup {None}]]
  /\ finalizationQueue_ \in [Workers -> SUBSET Coros]
  /\ active_ = [w \in Workers |-> active_[w]]
  /\ status = [c \in Coros |-> status[c]]
  /\ pc = [c \in Coros |-> pc[c]]
  /\ arg = [c \in Coros |-> arg[c]]
  /\ happened_ = [e \in Events |-> happened_[e]] /\ resolved = [d \in Cos |-> resolved[d]]
  /\ eventLock = [e \in Events |-> eventLock[e]]
  /\ waitersLock_ = [w \in Workers |-> waitersLock_[w]]
  /\ launched \in 0 .. MaxLaunch

\* The status and the label of a coroutine, of Main and of a schedule loop.
Ending == {"terminate", "unblock", "unblocking", "check", "checkCount", "setProgram", "final"}
CoFits(d) ==
  \/ status[d] = "CREATED" /\ pc[d] = "none" /\ d > launched /\ ~happened_[d]
  \/ /\ d <= launched /\ ~happened_[d]
     /\ \/ status[d] = "RUNNABLE" /\ pc[d] \in {"none", "run", "to_run"}
        \/ status[d] = "RUNNING" /\ pc[d] \in {"run", "enqueue", "wait", "enter", "block", "to_run"}
        \/ status[d] = "BLOCKED" /\ pc[d] = "to_run"
  \/ /\ d <= launched /\ (resolved[d] \/ d \in following) /\ ~happened_[d]
     /\ status[d] = "RUNNING" /\ pc[d] = "complete"
  \/ /\ d <= launched /\ (resolved[d] \/ d \in following) /\ happened_[d]
     /\ \/ status[d] = "TERMINATING" /\ pc[d] \in Ending \cup {"none"}
        \/ status[d] = "NONE" /\ pc[d] = "none"

MainFits ==
  \/ status[Main] = "RUNNING" /\ pc[Main] \in {"run", "enqueue", "wait", "enter", "block", "to_run",
       "to_mLock", "mLock", "mCheck", "mReset", "mStop", "mDrain", "to_mDrain", "done"}
  \/ status[Main] = "AWAIT_LOOP" /\ pc[Main] \in {"mStopping", "mStopWait", "mStopWake", "mDrain", "done"}
  \/ status[Main] = "RUNNABLE" /\ pc[Main] \in {"to_run", "to_mLock", "to_mDrain"}
  \/ status[Main] = "BLOCKED" /\ pc[Main] \in {"to_run", "to_mLock"}

LoopLabels == {"loop", "schedule", "cvWait", "cvWake", "to_loop", "loopEnd"}
LoopFits(w) ==
  \/ status[w] = "RUNNING" /\ pc[w] \in LoopLabels
  \/ status[w] = "RUNNABLE" /\ (pc[w] = "to_loop" \/ (w = MainWorker /\ pc[w] = "loop"))
  \/ w = MainWorker /\ status[w] = "TERMINATING" /\ pc[w] \in {"final", "none"}
  \/ w = MainWorker /\ status[w] = "NONE" /\ pc[w] = "none"
  \/ w # MainWorker /\ status[w] = "NONE" /\ pc[w] \in {"shutdown", "none"}

Fits(c) ==
  /\ c \in Cos => CoFits(c)
  /\ c = Main => MainFits
  /\ c \in Workers => LoopFits(c)
Fitting == \A c \in Coros : Fits(c)

\* Where a coroutine must be.
OnThread(c) ==
  \/ status[c] \in {"RUNNING", "AWAIT_LOOP"}
  \/ status[c] = "TERMINATING" /\ pc[c] # "none"
  \/ status[c] = "NONE" /\ pc[c] = "shutdown"
Queued(c) == status[c] = "RUNNABLE" /\ pc[c] # "none"
Launching(c) == status[c] = "RUNNABLE" /\ pc[c] = "none"
Dying(c) == status[c] = "TERMINATING" /\ pc[c] = "none"

Elems(s) == {s[i] : i \in DOMAIN s}
InQueue(w) == Elems(runnables_[w])
NoDup(s) == \A i, j \in DOMAIN s : s[i] = s[j] => i = j

\* A coroutine is on one thread, in one queue, with one launcher, asleep at one
\* worker or in one finalization queue, and it is nowhere else.
Threads ==
  /\ \A w \in Workers : cur[w] # None => OnThread(cur[w])
  /\ \A w, v \in Workers : cur[w] # None /\ cur[w] = cur[v] => w = v
  /\ \A c \in Coros : OnThread(c) => \E w \in Workers : cur[w] = c
Queues ==
  /\ \A w \in Workers : NoDup(runnables_[w])
  /\ \A w \in Workers, c \in Coros : c \in InQueue(w) => Queued(c)
  /\ \A w, v \in Workers, c \in Coros : c \in InQueue(w) /\ c \in InQueue(v) => w = v
  /\ \A c \in Coros : Queued(c) => \E w \in Workers : c \in InQueue(w)
Dead ==
  /\ \A w \in Workers, c \in Coros : c \in finalizationQueue_[w] => Dying(c)
  /\ \A w, v \in Workers, c \in Coros : c \in finalizationQueue_[w] /\ c \in finalizationQueue_[v] => w = v
  /\ \A c \in Coros : Dying(c) => \E w \in Workers : c \in finalizationQueue_[w]
Launches ==
  /\ \A c \in Coros : pc[c] = "enqueue" => arg[c] \in Cos /\ Launching(arg[c])
  /\ \A b, c \in Coros : pc[b] = "enqueue" /\ pc[c] = "enqueue" /\ arg[b] = arg[c] => b = c
  /\ \A d \in Coros : Launching(d) => \E c \in Coros : pc[c] = "enqueue" /\ arg[c] = d

\* Who is in waiters_ waits for that event; unless the coroutines of a worker
\* share an event, who sleeps is there.
Sleeping(w, e) ==
  LET c == waiters_[w][e] IN
  c # None => arg[c] = e /\ (status[c] = "BLOCKED" \/ (pc[c] = "block" /\ cur[w] = c))
Sleepers ==
  /\ \A w \in Workers, e \in Events : Sleeping(w, e)
  /\ \A w, v \in Workers, e \in Events :
       waiters_[w][e] # None /\ waiters_[w][e] = waiters_[v][e] => w = v
Registered ==
  /\ \A c \in Coros : status[c] = "BLOCKED" => \E w \in Workers : waiters_[w][arg[c]] = c
  /\ \A w \in Workers : cur[w] # None =>
       /\ pc[cur[w]] \in {"wait", "enter"} => waiters_[w][arg[cur[w]]] = None
       /\ pc[cur[w]] = "block" => waiters_[w][arg[cur[w]]] = cur[w]

\* The event a coroutine waits for is locked until it holds waitersLock_.  The
\* event of a coroutine has not happened while somebody has it locked, unless its
\* promise follows another one: then the wait ends at the test.
Waits ==
  /\ \A c \in Coros : pc[c] \in {"wait", "enter", "block"} =>
       arg[c] \in Events /\ (arg[c] = Program => c = Main)
  /\ \A c \in Coros : pc[c] \in {"wait", "enter"} =>
       /\ eventLock[arg[c]] = c
       /\ arg[c] \in Cos /\ happened_[arg[c]] => pc[c] = "wait" /\ arg[c] \in following
  /\ \A w \in Workers : cur[w] # None /\ pc[cur[w]] = "block" => waitersLock_[w] = cur[w]
  /\ \A c \in Coros : status[c] = "BLOCKED" => arg[c] \in Events /\ pc[c] = After(arg[c])
  /\ \A c \in Coros : pc[c] \in {"unblock", "unblocking"} => arg[c] \in {c, Program}

\* Main and the loops stay where they belong.
Home(c) == IF c = Main THEN MainWorker ELSE c
Homes ==
  \A w \in Workers, c \in Workers \cup {Main} :
    cur[w] = c \/ c \in InQueue(w) \/ c \in finalizationQueue_[w] \/ (\E e \in Events : waiters_[w][e] = c)
      => w = Home(c)

\* The coroutines in the registry, and the workers that have not ended.
IsLive(d) == status[d] \in {"RUNNABLE", "RUNNING", "BLOCKED"} \/ pc[d] = "terminate"
IsLoop(w) == pc[w] \in LoopLabels
IsUp(w) == w = MainWorker \/ pc[w] # "none"
Live == {d \in Cos : IsLive(d)}
Loops == {w \in Workers : IsLoop(w)}
Up == {w \in Workers : IsUp(w)}
Counting ==
  /\ coroutineCount_ = 1 + Cardinality(Live) + Cardinality(Loops)
  /\ activeWorkersCount_ = Cardinality(Up)

\* How far Main is with the end of the program.
StopLabels == {"mStop", "mStopping", "mStopWait", "mStopWake", "mDrain", "to_mDrain", "done"}
DrainLabels == {"mDrain", "to_mDrain", "done"}
Stopping ==
  /\ pc[Main] \notin StopLabels => \A w \in Workers : active_[w] /\ IsLoop(w)
  /\ pc[Main] \in StopLabels => \A d \in Cos : ~IsLive(d)
  /\ pc[Main] \in DrainLabels => \A w \in Workers : IsUp(w) => w = MainWorker
  /\ pc[Main] = "done" => \A w \in Workers : ~IsLoop(w)
Ends ==
  /\ \A w \in Workers : pc[w] = "loopEnd" => ~active_[w]
  /\ \A w \in Workers : ~IsLoop(w) => cur[w] \notin Cos
  /\ \A w \in Workers : cur[w] = None <=> ~IsUp(w)

\* What was left to be destroyed is destroyed by who is switched to.
Finalized ==
  /\ \A w \in Workers \ {MainWorker} :
       (cur[w] = w /\ pc[w] # "to_loop") \/ cur[w] = None => finalizationQueue_[w] = {}
  /\ cur[MainWorker] = Main /\ pc[Main] \notin {"to_run", "to_mLock", "to_mDrain"} =>
       finalizationQueue_[MainWorker] = {}

\* Without the part that depends on SharedAwait, and with it.
IInv ==
  /\ Types /\ Fitting /\ Threads /\ Queues /\ Dead /\ Launches
  /\ Sleepers /\ Waits /\ Homes /\ Counting /\ Stopping /\ Ends /\ Finalized

-----------------------------------------------------------------------------
(* Sequences as the sets of their elements.                                *)

LEMMA ElemsAppend ==
  ASSUME NEW S, NEW s \in Seq(S), NEW d \in S
  PROVE  /\ Append(s, d) \in Seq(S)
         /\ Append(s, d) # <<>>
         /\ Elems(Append(s, d)) = Elems(s) \cup {d}
         /\ NoDup(s) /\ d \notin Elems(s) => NoDup(Append(s, d))
<1>1. /\ Append(s, d) \in Seq(S) /\ Append(s, d) # <<>>
      /\ DOMAIN s = 1 .. Len(s) /\ Len(s) \in Nat
      /\ DOMAIN Append(s, d) = 1 .. Len(s) + 1
  OBVIOUS
<1>2. /\ \A i \in 1 .. Len(s) : Append(s, d)[i] = s[i]
      /\ Append(s, d)[Len(s) + 1] = d
  OBVIOUS
<1>3. \A i \in 1 .. Len(s) + 1 : i \in 1 .. Len(s) \/ i = Len(s) + 1
  BY <1>1
<1>4. Elems(Append(s, d)) = Elems(s) \cup {d}
  <2>1. Elems(Append(s, d)) \subseteq Elems(s) \cup {d}
    BY <1>1, <1>2, <1>3 DEF Elems
  <2>2. \A x \in Elems(s) : x \in Elems(Append(s, d))
    BY <1>1, <1>2 DEF Elems
  <2>3. d \in Elems(Append(s, d))
    BY <1>1, <1>2 DEF Elems
  <2> QED  BY <2>1, <2>2, <2>3
<1>5. ASSUME NoDup(s), d \notin Elems(s)
      PROVE  NoDup(Append(s, d))
  BY <1>1, <1>2, <1>3, <1>5 DEF NoDup, Elems
<1> QED  BY <1>1, <1>4, <1>5

LEMMA ElemsFront ==
  ASSUME NEW S, NEW s \in Seq(S), NEW d \in S
  PROVE  /\ <<d>> \o s \in Seq(S)
         /\ Elems(<<d>> \o s) = Elems(s) \cup {d}
         /\ NoDup(s) /\ d \notin Elems(s) => NoDup(<<d>> \o s)
<1> DEFINE t == <<d>> \o s
<1>1. /\ t \in Seq(S) /\ Len(t) = Len(s) + 1 /\ Len(s) \in Nat
      /\ DOMAIN s = 1 .. Len(s)
      /\ DOMAIN t = 1 .. Len(s) + 1
  OBVIOUS
<1>2. /\ \A i \in 1 .. Len(s) : t[i + 1] = s[i]
      /\ t[1] = d
  OBVIOUS
<1>3. \A i \in 1 .. Len(s) + 1 : i = 1 \/ (i - 1 \in 1 .. Len(s) /\ i = (i - 1) + 1)
  BY <1>1
<1> HIDE DEF t
<1>4. \A i \in 1 .. Len(s) + 1 : i = 1 \/ (i - 1 \in 1 .. Len(s) /\ t[i] = s[i - 1])
  BY <1>2, <1>3
<1>5. Elems(t) = Elems(s) \cup {d}
  <2>1. Elems(t) \subseteq Elems(s) \cup {d}
    <3> SUFFICES ASSUME NEW i \in 1 .. Len(s) + 1, i # 1
                 PROVE  t[i] \in Elems(s)
      BY <1>1, <1>2 DEF Elems
    <3> QED  BY <1>1, <1>4 DEF Elems
  <2>2. \A x \in Elems(s) : x \in Elems(t)
    BY <1>1, <1>2 DEF Elems
  <2>3. d \in Elems(t)
    BY <1>1, <1>2 DEF Elems
  <2> QED  BY <2>1, <2>2, <2>3
<1>6. ASSUME NoDup(s), d \notin Elems(s)
      PROVE  NoDup(t)
  <2> SUFFICES ASSUME NEW i \in 1 .. Len(s) + 1, NEW j \in 1 .. Len(s) + 1, t[i] = t[j]
               PROVE  i = j
    BY <1>1 DEF NoDup
  <2>1. \A k \in 1 .. Len(s) : s[k] # d
    BY <1>1, <1>6 DEF Elems
  <2>2. CASE i = 1 \/ j = 1
    BY <2>1, <2>2, <1>2, <1>4
  <2>3. CASE i # 1 /\ j # 1
    BY <2>3, <1>1, <1>4, <1>6 DEF NoDup
  <2> QED  BY <2>2, <2>3
<1> QED  BY <1>1, <1>5, <1>6 DEF t

LEMMA ElemsTail ==
  ASSUME NEW S, NEW s \in Seq(S), s # <<>>, NoDup(s)
  PROVE  /\ Tail(s) \in Seq(S) /\ Head(s) \in S
         /\ Head(s) \in Elems(s)
         /\ Elems(Tail(s)) = Elems(s) \ {Head(s)}
         /\ NoDup(Tail(s))
<1>1. /\ Tail(s) \in Seq(S) /\ Head(s) \in S /\ Len(s) \in Nat /\ Len(s) >= 1
      /\ DOMAIN s = 1 .. Len(s)
      /\ DOMAIN Tail(s) = 1 .. Len(s) - 1
      /\ Head(s) = s[1]
  OBVIOUS
<1>2. \A i \in 1 .. Len(s) - 1 : Tail(s)[i] = s[i + 1] /\ i + 1 \in 1 .. Len(s)
  BY <1>1
<1>3. \A i \in 1 .. Len(s) : i = 1 \/ (i - 1 \in 1 .. Len(s) - 1 /\ Tail(s)[i - 1] = s[i])
  BY <1>1, <1>2
<1>4. Head(s) \in Elems(s)
  BY <1>1 DEF Elems
<1>5. Elems(Tail(s)) \subseteq Elems(s) \ {Head(s)}
  <2> SUFFICES ASSUME NEW i \in 1 .. Len(s) - 1
               PROVE  Tail(s)[i] \in Elems(s) /\ Tail(s)[i] # s[1]
    BY <1>1 DEF Elems
  <2> QED  BY <1>1, <1>2 DEF Elems, NoDup
<1>6. Elems(s) \ {Head(s)} \subseteq Elems(Tail(s))
  <2> SUFFICES ASSUME NEW i \in 1 .. Len(s), s[i] # Head(s)
               PROVE  s[i] \in Elems(Tail(s))
    BY <1>1 DEF Elems
  <2>1. i - 1 \in DOMAIN Tail(s) /\ Tail(s)[i - 1] = s[i]
    BY <1>1, <1>3
  <2> QED  BY <2>1 DEF Elems
<1>7. NoDup(Tail(s))
  <2> SUFFICES ASSUME NEW i \in 1 .. Len(s) - 1, NEW j \in 1 .. Len(s) - 1, Tail(s)[i] = Tail(s)[j]
               PROVE  i = j
    BY <1>1 DEF NoDup
  <2> QED  BY <1>1, <1>2 DEF NoDup
<1> QED  BY <1>1, <1>4, <1>5, <1>6, <1>7

-----------------------------------------------------------------------------
(* What most steps leave alone, and the parts of the invariant that this   *)
(* keeps.                                                                  *)

Stays(c) == status'[c] = status[c] /\ pc'[c] = pc[c]

\* No coroutine changes its place.
Local ==
  /\ UNCHANGED <<cur, runnables_, finalizationQueue_>>
  /\ \A c \in Coros : Stays(c) \/ (OnThread(c) /\ OnThread(c)')

KeepsLaunches ==
  \A c \in Coros :
    /\ Launching(c)' <=> Launching(c)
    /\ pc'[c] = "enqueue" <=> pc[c] = "enqueue"
    /\ pc[c] = "enqueue" => arg'[c] = arg[c]

\* Nobody begins or ends to wait.
KeepsWaits ==
  /\ UNCHANGED <<eventLock, waitersLock_>> /\ following \subseteq following'
  /\ \A d \in Cos : happened_'[d] => happened_[d] \/ eventLock[d] = None
  /\ \A c \in Coros :
       /\ pc'[c] \in {"wait", "enter", "block"} => pc'[c] = pc[c] /\ arg'[c] = arg[c]
       /\ pc[c] = "block" => pc'[c] = "block"
       /\ status'[c] = "BLOCKED" <=> status[c] = "BLOCKED"
       /\ status[c] = "BLOCKED" => arg'[c] = arg[c] /\ pc'[c] = pc[c]
       /\ pc'[c] \in {"unblock", "unblocking"} => arg'[c] \in {c, Program}
  /\ \A w \in Workers : cur[w] # None /\ pc[cur[w]] = "block" => cur'[w] = cur[w]
  /\ \A w \in Workers : cur'[w] # None =>
       cur'[w] = cur[w] \/ pc'[cur'[w]] \notin {"wait", "enter", "block"}

KeepsCounts ==
  /\ UNCHANGED <<coroutineCount_, activeWorkersCount_>>
  /\ \A d \in Cos : IsLive(d)' <=> IsLive(d)
  /\ \A w \in Workers : (IsLoop(w)' <=> IsLoop(w)) /\ (IsUp(w)' <=> IsUp(w))

KeepsStopping ==
  /\ pc'[Main] \in StopLabels <=> pc[Main] \in StopLabels
  /\ pc'[Main] \in DrainLabels => pc[Main] \in DrainLabels
  /\ pc'[Main] = "done" => pc[Main] = "done"
  /\ pc[Main] \in StopLabels \/ UNCHANGED active_

LEMMA CorosFacts ==
  /\ Cos \subseteq Coros /\ Main \in Coros /\ Workers \subseteq Coros
  /\ Main \notin Cos /\ Main \notin Workers /\ (\A w \in Workers : w \notin Cos)
  /\ None \notin Coros /\ MainWorker \in Workers
  /\ Program \notin Cos /\ Program \in Events /\ Cos \subseteq Events /\ None \notin Events
BY CoroutinesAssumption DEF Coros, Events

LEMMA LocalPlaces ==
  ASSUME Types, Threads, Queues, Dead, Local
  PROVE  Threads' /\ Queues' /\ Dead'
<1>1. \A c \in Coros : /\ OnThread(c)' <=> OnThread(c)
                       /\ Queued(c)' <=> Queued(c)
                       /\ Dying(c)' <=> Dying(c)
  BY DEF Local, Stays, OnThread, Queued, Dying
<1>2. cur' = cur /\ runnables_' = runnables_ /\ finalizationQueue_' = finalizationQueue_
  BY DEF Local
<1>3. \A w \in Workers : cur[w] # None => OnThread(cur[w])'
  <2> SUFFICES ASSUME NEW w \in Workers, cur[w] # None
               PROVE  OnThread(cur[w])'
    OBVIOUS
  <2>1. PICK c \in Coros : c = cur[w]
    BY DEF Types
  <2>2. OnThread(c)
    BY <2>1 DEF Threads, OnThread
  <2>3. OnThread(c)'
    BY <2>2, <1>1
  <2>4. c = cur'[w]
    BY <2>1, <1>2
  <2> QED  BY <2>3, <2>4 DEF OnThread
<1>4. Threads'
  BY <1>1, <1>2, <1>3 DEF Threads
<1>5. Queues'
  BY <1>1, <1>2 DEF Queues, InQueue
<1>6. Dead'
  BY <1>1, <1>2 DEF Dead
<1> QED  BY <1>4, <1>5, <1>6

LEMMA LaunchesKept ==
  ASSUME Launches, KeepsLaunches
  PROVE  Launches'
<1>1. Cos \subseteq Coros
  BY DEF Coros
<1>2. \A c \in Coros : pc'[c] = "enqueue" => 
        arg'[c] \in Cos /\ status'[arg'[c]] = "RUNNABLE" /\ pc'[arg'[c]] = "none"
  BY <1>1 DEF Launches, KeepsLaunches, Launching
<1>3. \A b, c \in Coros : pc'[b] = "enqueue" /\ pc'[c] = "enqueue" /\ arg'[b] = arg'[c] => b = c
  BY DEF Launches, KeepsLaunches
<1>4. \A d \in Coros : Launching(d)' => \E c \in Coros : pc'[c] = "enqueue" /\ arg'[c] = d
  BY DEF Launches, KeepsLaunches
<1> QED  BY <1>2, <1>3, <1>4 DEF Launches, Launching

LEMMA WaitsKept ==
  ASSUME Types, Waits, KeepsWaits
  PROVE  Waits'
<1>1. \A c \in Coros : pc'[c] \in {"wait", "enter", "block"} =>
        arg'[c] \in Events /\ (arg'[c] = Program => c = Main)
  BY DEF Waits, KeepsWaits
<1>2. \A c \in Coros : pc'[c] \in {"wait", "enter"} =>
        /\ eventLock'[arg'[c]] = c
        /\ arg'[c] \in Cos /\ happened_'[arg'[c]] => pc'[c] = "wait" /\ arg'[c] \in following'
  BY CorosFacts DEF Waits, KeepsWaits
<1>3. \A w \in Workers : cur'[w] # None /\ pc'[cur'[w]] = "block" => waitersLock_'[w] = cur'[w]
  <2> SUFFICES ASSUME NEW w \in Workers, cur'[w] # None, pc'[cur'[w]] = "block"
               PROVE  waitersLock_'[w] = cur'[w]
    OBVIOUS
  <2>1. cur'[w] = cur[w]
    BY DEF KeepsWaits
  <2>2. cur[w] \in Coros
    BY <2>1 DEF Types
  <2> QED  BY <2>1, <2>2 DEF Waits, KeepsWaits
<1>4. \A c \in Coros : status'[c] = "BLOCKED" => arg'[c] \in Events /\ pc'[c] = After(arg'[c])
  BY DEF Waits, KeepsWaits
<1>5. \A c \in Coros : pc'[c] \in {"unblock", "unblocking"} => arg'[c] \in {c, Program}
  BY DEF KeepsWaits
<1> QED  BY <1>1, <1>2, <1>3, <1>4, <1>5 DEF Waits, After

LEMMA SleepersKept ==
  ASSUME Types, Sleepers, KeepsWaits, UNCHANGED waiters_
  PROVE  Sleepers'
<1>1. ASSUME NEW w \in Workers, NEW e \in Events
      PROVE  Sleeping(w, e)'
  <2> SUFFICES ASSUME waiters_[w][e] # None
               PROVE  LET c == waiters_[w][e] IN
                      arg'[c] = e /\ (status'[c] = "BLOCKED" \/ (pc'[c] = "block" /\ cur'[w] = c))
    BY DEF Sleeping
  <2>1. PICK c \in Coros : c = waiters_[w][e]
    BY DEF Types
  <2>2. arg[c] = e /\ (status[c] = "BLOCKED" \/ (pc[c] = "block" /\ cur[w] = c)) /\ c # None
    BY <2>1 DEF Sleepers, Sleeping
  <2>3. CASE status[c] = "BLOCKED"
    BY <2>1, <2>2, <2>3 DEF KeepsWaits
  <2>4. CASE pc[c] = "block" /\ cur[w] = c
    BY <2>1, <2>2, <2>4 DEF KeepsWaits
  <2> QED  BY <2>2, <2>3, <2>4
<1> QED  BY <1>1 DEF Sleepers

LEMMA RegisteredKept ==
  ASSUME Types, Registered, KeepsWaits, UNCHANGED waiters_
  PROVE  Registered'
<1>1. \A c \in Coros : status'[c] = "BLOCKED" => \E w \in Workers : waiters_'[w][arg'[c]] = c
  BY DEF Registered, KeepsWaits
<1>2. ASSUME NEW w \in Workers, cur'[w] # None, pc'[cur'[w]] \in {"wait", "enter", "block"}
      PROVE  /\ pc'[cur'[w]] \in {"wait", "enter"} => waiters_'[w][arg'[cur'[w]]] = None
             /\ pc'[cur'[w]] = "block" => waiters_'[w][arg'[cur'[w]]] = cur'[w]
  <2>1. cur'[w] = cur[w]
    BY <1>2 DEF KeepsWaits
  <2>2. cur[w] \in Coros
    BY <1>2, <2>1 DEF Types
  <2> QED  BY <1>2, <2>1, <2>2 DEF Registered, KeepsWaits
<1> QED  BY <1>1, <1>2 DEF Registered

LEMMA CountingKept ==
  ASSUME Counting, KeepsCounts
  PROVE  Counting'
<1>1. Live' = Live /\ Loops' = Loops /\ Up' = Up
  BY DEF Live, Loops, Up, KeepsCounts
<1> QED  BY <1>1 DEF Counting, KeepsCounts

LEMMA StoppingKept ==
  ASSUME Stopping, KeepsCounts, KeepsStopping
  PROVE  Stopping'
BY DEF Stopping, KeepsCounts, KeepsStopping, StopLabels, DrainLabels

\* Most steps move one coroutine c from label to label on its thread.
Switched == {"to_run", "to_mLock", "to_mDrain", "to_loop"}
Move(c) ==
  /\ \A b \in Coros \ {c} : Stays(b) /\ arg'[b] = arg[b]
  /\ pc[c] \notin Switched \cup {"enqueue"} /\ pc'[c] # "enqueue"
  /\ OnThread(c)' /\ Fits(c)'
  /\ \A d \in Cos \ {c} : resolved'[d] = resolved[d] /\ happened_'[d] = happened_[d]
  /\ following \subseteq following'
  /\ UNCHANGED <<cur, runnables_, finalizationQueue_, launched>>

\* It does not begin or end to wait, and begins to unblock its own event only.
MoveAwake(c) ==
  /\ UNCHANGED <<eventLock, waitersLock_, waiters_>>
  /\ \A d \in Cos : happened_'[d] => happened_[d] \/ eventLock[d] = None
  /\ pc[c] # "block" /\ pc'[c] \notin {"wait", "enter", "block"}
  /\ pc'[c] \in {"unblock", "unblocking"} => arg'[c] \in {c, Program}

\* It does not change the counters.
MoveCounted(c) ==
  /\ UNCHANGED <<coroutineCount_, activeWorkersCount_, active_>>
  /\ c \in Cos => (IsLive(c)' <=> IsLive(c))
  /\ c \in Workers => (IsLoop(c)' <=> IsLoop(c)) /\ (IsUp(c)' <=> IsUp(c))
  /\ c \in Workers /\ pc'[c] = "loopEnd" => ~active_[c]

LEMMA FitsSame ==
  ASSUME NEW b \in Coros, Fits(b), Stays(b), UNCHANGED launched, following \subseteq following',
         b \in Cos => (resolved[b] => resolved'[b]) /\ happened_'[b] = happened_[b]
  PROVE  Fits(b)'
<1>1. b \in Cos => CoFits(b)'
  BY DEF Fits, CoFits, Stays
<1>2. b = Main => MainFits'
  BY DEF Fits, MainFits, Stays
<1>3. b \in Workers => LoopFits(b)'
  BY DEF Fits, LoopFits, Stays
<1> QED  BY <1>1, <1>2, <1>3 DEF Fits

LEMMA MovePlaces ==
  ASSUME IInv, NEW c \in Coros, OnThread(c), Move(c)
  PROVE  Fitting' /\ Threads' /\ Queues' /\ Dead' /\ Launches' /\ Finalized'
<1>1. Fitting'
  <2> SUFFICES ASSUME NEW b \in Coros, b # c
               PROVE  Fits(b)'
    BY DEF Fitting, Move
  <2> QED  BY FitsSame DEF IInv, Fitting, Move
<1>2. Local
  BY DEF Local, Move
<1>3. KeepsLaunches
  BY DEF KeepsLaunches, Launching, OnThread, Move, Stays
<1>4. Finalized'
  BY CorosFacts DEF IInv, Finalized, Move, Stays, Switched
<1> QED  BY <1>1, <1>2, <1>3, <1>4, LocalPlaces, LaunchesKept DEF IInv

LEMMA MoveWaits ==
  ASSUME IInv, NEW c \in Coros, OnThread(c), Move(c), MoveAwake(c)
  PROVE  Sleepers' /\ Waits' /\ Homes' /\ (Registered => Registered')
<1>1. \A b \in Coros :
        /\ pc'[b] \in {"wait", "enter", "block"} => pc'[b] = pc[b] /\ arg'[b] = arg[b]
        /\ pc[b] = "block" => pc'[b] = "block"
        /\ status'[b] = "BLOCKED" <=> status[b] = "BLOCKED"
        /\ status[b] = "BLOCKED" => arg'[b] = arg[b] /\ pc'[b] = pc[b]
  BY DEF Move, MoveAwake, Stays, OnThread
<1>2. \A b \in Coros : pc'[b] \in {"unblock", "unblocking"} => arg'[b] \in {b, Program}
  BY DEF IInv, Waits, Move, MoveAwake, Stays
<1>3. KeepsWaits
  BY <1>1, <1>2 DEF KeepsWaits, Move, MoveAwake
<1>4. Homes'
  BY DEF IInv, Homes, InQueue, Move, MoveAwake
<1> QED  BY <1>3, <1>4, WaitsKept, SleepersKept, RegisteredKept DEF IInv, MoveAwake

LEMMA MoveCounts ==
  ASSUME IInv, NEW c \in Coros, OnThread(c), Move(c), MoveCounted(c)
  PROVE  KeepsCounts /\ Counting' /\ Ends'
<1>1. KeepsCounts
  <2>1. \A d \in Cos : IsLive(d)' <=> IsLive(d)
    BY CorosFacts DEF Move, MoveCounted, IsLive, Stays
  <2>2. \A v \in Workers : (IsLoop(v)' <=> IsLoop(v)) /\ (IsUp(v)' <=> IsUp(v))
    BY CorosFacts DEF Move, MoveCounted, IsLoop, IsUp, Stays
  <2> QED  BY <2>1, <2>2 DEF KeepsCounts, MoveCounted
<1>2. Ends'
  <2>1. \A v \in Workers : pc'[v] = "loopEnd" => ~active_'[v]
    BY CorosFacts DEF IInv, Ends, Move, MoveCounted, Stays
  <2>2. \A v \in Workers : ~IsLoop(v)' => cur'[v] \notin Cos
    BY <1>1 DEF IInv, Ends, KeepsCounts, Move
  <2>3. \A v \in Workers : cur'[v] = None <=> ~IsUp(v)'
    BY <1>1 DEF IInv, Ends, KeepsCounts, Move
  <2> QED  BY <2>1, <2>2, <2>3 DEF Ends
<1> QED  BY <1>1, <1>2, CountingKept DEF IInv

LEMMA MoveStops ==
  ASSUME IInv, NEW c \in Coros, Move(c), KeepsCounts, UNCHANGED active_, c = Main => KeepsStopping
  PROVE  Stopping'
<1>1. KeepsStopping
  <2>1. CASE c = Main
    BY <2>1
  <2>2. CASE c # Main
    <3>1. pc'[Main] = pc[Main] /\ UNCHANGED active_
      BY <2>2, CorosFacts DEF Move, Stays
    <3> QED  BY <3>1 DEF KeepsStopping
  <2> QED  BY <2>1, <2>2
<1> QED  BY <1>1, StoppingKept DEF IInv


\* What is to be shown of each action.
Kept == IInv' /\ (~SharedAwait /\ Registered => Registered')

LEMMA MoveKeeps ==
  ASSUME IInv, NEW w \in Workers, NEW c \in Coros, c = cur[w],
         Types', Move(c), MoveAwake(c), MoveCounted(c), c = Main => KeepsStopping
  PROVE  Kept
<1>1. OnThread(c)
  BY CorosFacts DEF IInv, Threads
<1>2. Counting' /\ Ends' /\ Stopping'
  BY <1>1, MoveCounts, MoveStops DEF MoveCounted
<1> QED  BY <1>1, <1>2, MovePlaces, MoveWaits DEF IInv, Kept

\* Who is at a label.
LEMMA Kinds ==
  ASSUME Fitting, NEW c \in Coros, OnThread(c)
  PROVE  /\ pc[c] \in {"run", "enqueue", "wait", "enter", "block"} =>
              status[c] = "RUNNING" /\ c \in Cos \cup {Main}
         /\ pc[c] = "complete" => status[c] = "RUNNING" /\ c \in Cos
         /\ pc[c] \in Ending \ {"final"} => status[c] = "TERMINATING" /\ c \in Cos
         /\ pc[c] = "final" => status[c] = "TERMINATING" /\ c \in Cos \cup {MainWorker}
         /\ pc[c] \in LoopLabels => status[c] = "RUNNING" /\ c \in Workers
         /\ pc[c] = "shutdown" => status[c] = "NONE" /\ c \in Workers \ {MainWorker}
         /\ pc[c] \in {"to_mLock", "mLock", "mCheck", "mReset"} \cup StopLabels => c = Main
         /\ pc[c] \in {"to_mLock", "mLock", "mCheck", "mReset", "mStop"} => status[c] = "RUNNING"
         /\ pc[c] \in {"mStopping", "mStopWait", "mStopWake"} => status[c] = "AWAIT_LOOP"
         /\ pc[c] \in {"mDrain", "to_mDrain", "done"} => status[c] \in {"RUNNING", "AWAIT_LOOP"}
<1>1. CASE c \in Cos
  <2>1. CoFits(c) /\ c # Main /\ c \notin Workers
    BY <1>1, CorosFacts DEF Fitting, Fits
  <2> QED  BY <1>1, <2>1 DEF CoFits, OnThread, Ending, LoopLabels, StopLabels
<1>2. CASE c = Main
  <2>1. MainFits /\ c \notin Cos /\ c \notin Workers
    BY <1>2, CorosFacts DEF Fitting, Fits
  <2> QED  BY <1>2, <2>1 DEF MainFits, OnThread, Ending, LoopLabels, StopLabels
<1>3. CASE c \in Workers
  <2>1. LoopFits(c) /\ c \notin Cos /\ c # Main
    BY <1>3, CorosFacts DEF Fitting, Fits
  <2> QED  BY <1>3, <2>1, CorosFacts DEF LoopFits, OnThread, Ending, LoopLabels, StopLabels
<1> QED  BY <1>1, <1>2, <1>3 DEF Coros

LEMMA CurFacts ==
  ASSUME IInv, NEW w \in Workers, cur[w] # None
  PROVE  /\ cur[w] \in Coros /\ OnThread(cur[w]) /\ Fits(cur[w])
         /\ cur[w] \in Workers => cur[w] = w
         /\ cur[w] = Main => w = MainWorker
<1>1. cur[w] \in Coros
  BY DEF IInv, Types
<1>2. OnThread(cur[w])
  BY DEF IInv, Threads
<1>3. Fits(cur[w])
  BY <1>1 DEF IInv, Fitting
<1>4. cur[w] \in Workers \cup {Main} => w = Home(cur[w])
  BY DEF IInv, Homes
<1> QED  BY <1>1, <1>2, <1>3, <1>4, CorosFacts DEF Home


LEMMA LoopTestKeeps ==
  ASSUME IInv, NEW w \in Workers, LoopTest(w)
  PROVE  Kept
<1>1. PICK c \in Coros : c = cur[w] /\ c # None /\ pc[c] = "loop"
  BY CurFacts DEF LoopTest, Goto, At
<1>2. status[c] = "RUNNING" /\ c \in Workers /\ c = w /\ Fits(c)
  BY <1>1, CurFacts, Kinds DEF IInv, LoopLabels
<1>3. PICK l \in {"schedule", "loopEnd"} :
      /\ l = "loopEnd" => ~active_[c]
      /\ pc' = [pc EXCEPT ![c] = l] /\ status' = status
      /\ arg' = arg /\ UNCHANGED eventVars
      /\ UNCHANGED <<cur, workerVars, eventLock, waitersLock_, countVars, launched>>
  BY <1>1, <1>2 DEF LoopTest, Goto, boundVars, lockVars
<1>4. Types'
  BY <1>3 DEF IInv, Types, workerVars, eventVars
<1>5. pc'[c] = l /\ status'[c] = "RUNNING"
  BY <1>2, <1>3 DEF IInv, Types
<1>6. Move(c)
  <2>1. Fits(c)'
    BY <1>1, <1>2, <1>3, <1>5, CorosFacts DEF IInv, Types, Fits, LoopFits, LoopLabels, eventVars
  <2> QED  BY <1>1, <1>3, <1>5, <2>1, CorosFacts DEF IInv, Types, Move, Stays, Switched, OnThread, workerVars, eventVars
<1>7. MoveAwake(c)
  BY <1>1, <1>3, <1>5, CorosFacts DEF IInv, Types, Waits, MoveAwake, workerVars, eventVars
<1>8. MoveCounted(c)
  BY <1>1, <1>2, <1>3, <1>5, CorosFacts DEF MoveCounted, IsLive, IsLoop, IsUp, LoopLabels, workerVars, countVars
<1> QED  BY <1>1, <1>2, <1>4, <1>6, <1>7, <1>8, MoveKeeps, CorosFacts

LEMMA WaitForRunnablesKeeps ==
  ASSUME IInv, NEW w \in Workers, WaitForRunnables(w)
  PROVE  Kept
<1>1. PICK c \in Coros : c = cur[w] /\ c # None /\ pc[c] \in {"schedule", "cvWake"}
  BY CurFacts DEF WaitForRunnables, Goto, At
<1>2. status[c] = "RUNNING" /\ c \in Workers /\ c = w /\ Fits(c)
  BY <1>1, CurFacts, Kinds DEF IInv, LoopLabels
<1>3. PICK l \in {"cvWait", "loop"} :
      /\ pc' = [pc EXCEPT ![c] = l] /\ status' = status
      /\ arg' = arg /\ UNCHANGED eventVars
      /\ UNCHANGED <<cur, workerVars, eventLock, waitersLock_, countVars, launched>>
  BY <1>1, <1>2 DEF WaitForRunnables, Goto, boundVars, lockVars
<1>4. Types'
  BY <1>3 DEF IInv, Types, workerVars, eventVars
<1>5. pc'[c] = l /\ status'[c] = "RUNNING"
  BY <1>2, <1>3 DEF IInv, Types
<1>6. Move(c)
  <2>1. Fits(c)'
    BY <1>1, <1>2, <1>3, <1>5, CorosFacts DEF IInv, Types, Fits, LoopFits, LoopLabels, eventVars
  <2> QED  BY <1>1, <1>3, <1>5, <2>1, CorosFacts DEF IInv, Types, Move, Stays, Switched, OnThread, workerVars, eventVars
<1>7. MoveAwake(c)
  BY <1>1, <1>3, <1>5, CorosFacts DEF IInv, Types, Waits, MoveAwake, workerVars, eventVars
<1>8. MoveCounted(c)
  BY <1>1, <1>2, <1>3, <1>5, CorosFacts DEF MoveCounted, IsLive, IsLoop, IsUp, LoopLabels, workerVars, countVars
<1> QED  BY <1>1, <1>2, <1>4, <1>6, <1>7, <1>8, MoveKeeps, CorosFacts

LEMMA UnblockStartKeeps ==
  ASSUME IInv, NEW w \in Workers, UnblockStart(w)
  PROVE  Kept
<1>1. PICK c \in Coros : c = cur[w] /\ c # None /\ pc[c] = "unblock"
  BY CurFacts DEF UnblockStart, Goto, At
<1>2. status[c] = "TERMINATING" /\ c \in Cos /\ Fits(c)
  BY <1>1, CurFacts, Kinds DEF IInv, Ending
<1>3. /\ pc' = [pc EXCEPT ![c] = "unblocking"] /\ status' = status
      /\ arg' = arg /\ UNCHANGED eventVars
      /\ UNCHANGED <<cur, workerVars, eventLock, waitersLock_, countVars, launched>>
  BY <1>1, <1>2 DEF UnblockStart, Goto, boundVars, lockVars
<1>4. Types'
  BY <1>3 DEF IInv, Types, workerVars, eventVars
<1>5. pc'[c] = "unblocking" /\ status'[c] = "TERMINATING"
  BY <1>2, <1>3 DEF IInv, Types
<1>6. Move(c)
  <2>1. Fits(c)'
    BY <1>1, <1>2, <1>3, <1>5, CorosFacts DEF IInv, Types, Fits, CoFits, Ending, eventVars
  <2> QED  BY <1>1, <1>3, <1>5, <2>1, CorosFacts DEF IInv, Types, Move, Stays, Switched, OnThread, workerVars, eventVars
<1>7. MoveAwake(c)
  BY <1>1, <1>3, <1>5, CorosFacts DEF IInv, Types, Waits, MoveAwake, workerVars, eventVars
<1>8. MoveCounted(c)
  BY <1>1, <1>2, <1>3, <1>5, CorosFacts DEF MoveCounted, IsLive, IsLoop, IsUp, LoopLabels, workerVars, countVars
<1> QED  BY <1>1, <1>2, <1>4, <1>6, <1>7, <1>8, MoveKeeps, CorosFacts

LEMMA UnblockEndKeeps ==
  ASSUME IInv, NEW w \in Workers, UnblockEnd(w)
  PROVE  Kept
<1>1. PICK c \in Coros : c = cur[w] /\ c # None /\ pc[c] = "unblocking"
  BY CurFacts DEF UnblockEnd, Goto, At
<1>2. status[c] = "TERMINATING" /\ c \in Cos /\ Fits(c)
  BY <1>1, CurFacts, Kinds DEF IInv, Ending
<1>3. PICK l \in {"final", "check"} :
      /\ pc' = [pc EXCEPT ![c] = l] /\ status' = status
      /\ arg' = [arg EXCEPT ![c] = None] /\ UNCHANGED eventVars
      /\ UNCHANGED <<cur, workerVars, eventLock, waitersLock_, countVars, launched>>
  BY <1>1, <1>2 DEF UnblockEnd, Goto, boundVars, lockVars
<1>4. Types'
  BY <1>3 DEF IInv, Types, workerVars, eventVars
<1>5. pc'[c] = l /\ status'[c] = "TERMINATING"
  BY <1>2, <1>3 DEF IInv, Types
<1>6. Move(c)
  <2>1. Fits(c)'
    BY <1>1, <1>2, <1>3, <1>5, CorosFacts DEF IInv, Types, Fits, CoFits, Ending, eventVars
  <2> QED  BY <1>1, <1>3, <1>5, <2>1, CorosFacts DEF IInv, Types, Move, Stays, Switched, OnThread, workerVars, eventVars
<1>7. MoveAwake(c)
  BY <1>1, <1>3, <1>5, CorosFacts DEF IInv, Types, Waits, MoveAwake, workerVars, eventVars
<1>8. MoveCounted(c)
  BY <1>1, <1>2, <1>3, <1>5, CorosFacts DEF MoveCounted, IsLive, IsLoop, IsUp, LoopLabels, workerVars, countVars
<1> QED  BY <1>1, <1>2, <1>4, <1>6, <1>7, <1>8, MoveKeeps, CorosFacts

LEMMA RequestCompletionKeeps ==
  ASSUME IInv, NEW w \in Workers, RequestCompletion(w)
  PROVE  Kept
<1>1. PICK c \in Coros : c = cur[w] /\ c # None /\ pc[c] = "run"
  BY CurFacts DEF RequestCompletion, Goto, At
<1>2. status[c] = "RUNNING" /\ c \in Cos /\ Fits(c)
  BY <1>1, CurFacts, Kinds DEF IInv, Ending, RequestCompletion
<1>3. /\ pc' = [pc EXCEPT ![c] = "complete"] /\ status' = status
      /\ arg' = arg /\ UNCHANGED eventVars /\ resolved[c]
      /\ UNCHANGED <<cur, workerVars, eventLock, waitersLock_, countVars, launched>>
  BY <1>1, <1>2 DEF RequestCompletion, Goto, boundVars, lockVars, eventVars
<1>4. Types'
  BY <1>3 DEF IInv, Types, workerVars, eventVars
<1>5. pc'[c] = "complete" /\ status'[c] = "RUNNING"
  BY <1>2, <1>3 DEF IInv, Types
<1>6. Move(c)
  <2>1. Fits(c)'
    BY <1>1, <1>2, <1>3, <1>5, CorosFacts DEF IInv, Types, Fits, CoFits, Ending, eventVars
  <2> QED  BY <1>1, <1>3, <1>5, <2>1, CorosFacts DEF IInv, Types, Move, Stays, Switched, OnThread, workerVars, eventVars
<1>7. MoveAwake(c)
  BY <1>1, <1>3, <1>5, CorosFacts DEF IInv, Types, Waits, MoveAwake, workerVars, eventVars
<1>8. MoveCounted(c)
  BY <1>1, <1>2, <1>3, <1>5, CorosFacts DEF MoveCounted, IsLive, IsLoop, IsUp, LoopLabels, workerVars, countVars
<1> QED  BY <1>1, <1>2, <1>4, <1>6, <1>7, <1>8, MoveKeeps, CorosFacts

LEMMA FollowKeeps ==
  ASSUME IInv, NEW w \in Workers, Follow(w)
  PROVE  Kept
<1>1. PICK c \in Coros : c = cur[w] /\ c # None /\ pc[c] = "run"
  BY CurFacts DEF Follow, Goto, At
<1>2. status[c] = "RUNNING" /\ c \in Cos /\ Fits(c)
  BY <1>1, CurFacts, Kinds DEF IInv, Ending, Follow
<1>3. /\ pc' = [pc EXCEPT ![c] = "complete"] /\ status' = status
      /\ arg' = arg /\ resolved' = resolved /\ happened_' = happened_ /\ following' = following \cup {c}
      /\ UNCHANGED <<cur, workerVars, eventLock, waitersLock_, countVars, launched>>
  BY <1>1, <1>2 DEF Follow, Goto, boundVars, lockVars, eventVars
<1>4. Types'
  BY <1>3 DEF IInv, Types, workerVars
<1>5. pc'[c] = "complete" /\ status'[c] = "RUNNING"
  BY <1>2, <1>3 DEF IInv, Types
<1>6. Move(c)
  <2>1. Fits(c)'
    BY <1>1, <1>2, <1>3, <1>5, CorosFacts DEF IInv, Types, Fits, CoFits, Ending
  <2> QED  BY <1>1, <1>3, <1>5, <2>1, CorosFacts DEF IInv, Types, Move, Stays, Switched, OnThread, workerVars, eventVars
<1>7. MoveAwake(c)
  BY <1>1, <1>3, <1>5, CorosFacts DEF IInv, Types, Waits, MoveAwake, workerVars, eventVars
<1>8. MoveCounted(c)
  BY <1>1, <1>2, <1>3, <1>5, CorosFacts DEF MoveCounted, IsLive, IsLoop, IsUp, LoopLabels, workerVars, countVars
<1> QED  BY <1>1, <1>2, <1>4, <1>6, <1>7, <1>8, MoveKeeps, CorosFacts

LEMMA SetHappenedKeeps ==
  ASSUME IInv, NEW w \in Workers, SetHappened(w)
  PROVE  Kept
<1>1. PICK c \in Coros : c = cur[w] /\ c # None /\ pc[c] = "complete"
  BY CurFacts DEF SetHappened, Goto, At
<1>2. status[c] = "RUNNING" /\ c \in Cos /\ Fits(c)
  BY <1>1, CurFacts, Kinds DEF IInv, Ending
<1>3. /\ pc' = [pc EXCEPT ![c] = "terminate"] /\ status' = [status EXCEPT ![c] = "TERMINATING"]
      /\ arg' = arg /\ happened_' = [happened_ EXCEPT ![c] = TRUE] /\ UNCHANGED <<resolved, following>> /\ eventLock[c] = None
      /\ UNCHANGED <<cur, workerVars, eventLock, waitersLock_, countVars, launched>>
  BY <1>1, <1>2 DEF SetHappened, Goto, boundVars, lockVars, eventVars
<1>4. Types'
  BY <1>3 DEF IInv, Types, workerVars
<1>5. pc'[c] = "terminate" /\ status'[c] = "TERMINATING"
  BY <1>2, <1>3 DEF IInv, Types
<1>6. Move(c)
  <2>1. Fits(c)'
    BY <1>1, <1>2, <1>3, <1>5, CorosFacts DEF IInv, Types, Fits, CoFits, Ending
  <2> QED  BY <1>1, <1>3, <1>5, <2>1, CorosFacts DEF IInv, Types, Move, Stays, Switched, OnThread, workerVars, eventVars
<1>7. MoveAwake(c)
  BY <1>1, <1>3, <1>5, CorosFacts DEF IInv, Types, Waits, MoveAwake, workerVars, eventVars
<1>8. MoveCounted(c)
  BY <1>1, <1>2, <1>3, <1>5, CorosFacts DEF MoveCounted, IsLive, IsLoop, IsUp, LoopLabels, workerVars, countVars
<1> QED  BY <1>1, <1>2, <1>4, <1>6, <1>7, <1>8, MoveKeeps, CorosFacts

LEMMA CheckLockKeeps ==
  ASSUME IInv, NEW w \in Workers, CheckLock(w)
  PROVE  Kept
<1>1. PICK c \in Coros : c = cur[w] /\ c # None /\ pc[c] = "check"
  BY CurFacts DEF CheckLock, Goto, At
<1>2. status[c] = "TERMINATING" /\ c \in Cos /\ Fits(c)
  BY <1>1, CurFacts, Kinds DEF IInv, Ending
<1>3. /\ pc' = [pc EXCEPT ![c] = "checkCount"] /\ status' = status
      /\ arg' = arg /\ UNCHANGED eventVars
      /\ UNCHANGED <<cur, workerVars, eventLock, waitersLock_, countVars, launched>>
  BY <1>1, <1>2 DEF CheckLock, Goto, boundVars, lockVars
<1>4. Types'
  BY <1>3 DEF IInv, Types, workerVars, eventVars
<1>5. pc'[c] = "checkCount" /\ status'[c] = "TERMINATING"
  BY <1>2, <1>3 DEF IInv, Types
<1>6. Move(c)
  <2>1. Fits(c)'
    BY <1>1, <1>2, <1>3, <1>5, CorosFacts DEF IInv, Types, Fits, CoFits, Ending, eventVars
  <2> QED  BY <1>1, <1>3, <1>5, <2>1, CorosFacts DEF IInv, Types, Move, Stays, Switched, OnThread, workerVars, eventVars
<1>7. MoveAwake(c)
  BY <1>1, <1>3, <1>5, CorosFacts DEF IInv, Types, Waits, MoveAwake, workerVars, eventVars
<1>8. MoveCounted(c)
  BY <1>1, <1>2, <1>3, <1>5, CorosFacts DEF MoveCounted, IsLive, IsLoop, IsUp, LoopLabels, workerVars, countVars
<1> QED  BY <1>1, <1>2, <1>4, <1>6, <1>7, <1>8, MoveKeeps, CorosFacts

LEMMA CheckProgramCompletionKeeps ==
  ASSUME IInv, NEW w \in Workers, CheckProgramCompletion(w)
  PROVE  Kept
<1>1. PICK c \in Coros : c = cur[w] /\ c # None /\ pc[c] = "checkCount"
  BY CurFacts DEF CheckProgramCompletion, Goto, At
<1>2. status[c] = "TERMINATING" /\ c \in Cos /\ Fits(c)
  BY <1>1, CurFacts, Kinds DEF IInv, Ending
<1>3. PICK l \in {"setProgram", "final"} :
      /\ pc' = [pc EXCEPT ![c] = l] /\ status' = status
      /\ arg' = arg /\ UNCHANGED eventVars
      /\ UNCHANGED <<cur, workerVars, eventLock, waitersLock_, countVars, launched>>
  BY <1>1, <1>2 DEF CheckProgramCompletion, Goto, boundVars, lockVars
<1>4. Types'
  BY <1>3 DEF IInv, Types, workerVars, eventVars
<1>5. pc'[c] = l /\ status'[c] = "TERMINATING"
  BY <1>2, <1>3 DEF IInv, Types
<1>6. Move(c)
  <2>1. Fits(c)'
    BY <1>1, <1>2, <1>3, <1>5, CorosFacts DEF IInv, Types, Fits, CoFits, Ending, eventVars
  <2> QED  BY <1>1, <1>3, <1>5, <2>1, CorosFacts DEF IInv, Types, Move, Stays, Switched, OnThread, workerVars, eventVars
<1>7. MoveAwake(c)
  BY <1>1, <1>3, <1>5, CorosFacts DEF IInv, Types, Waits, MoveAwake, workerVars, eventVars
<1>8. MoveCounted(c)
  BY <1>1, <1>2, <1>3, <1>5, CorosFacts DEF MoveCounted, IsLive, IsLoop, IsUp, LoopLabels, workerVars, countVars
<1> QED  BY <1>1, <1>2, <1>4, <1>6, <1>7, <1>8, MoveKeeps, CorosFacts

LEMMA SetProgramHappenedKeeps ==
  ASSUME IInv, NEW w \in Workers, SetProgramHappened(w)
  PROVE  Kept
<1>1. PICK c \in Coros : c = cur[w] /\ c # None /\ pc[c] = "setProgram"
  BY CurFacts DEF SetProgramHappened, Goto, At
<1>2. status[c] = "TERMINATING" /\ c \in Cos /\ Fits(c)
  BY <1>1, CurFacts, Kinds DEF IInv, Ending
<1>3. /\ pc' = [pc EXCEPT ![c] = "unblock"] /\ status' = status
      /\ arg' = [arg EXCEPT ![c] = Program] /\ happened_' = [happened_ EXCEPT ![Program] = TRUE] /\ UNCHANGED <<resolved, following>>
      /\ UNCHANGED <<cur, workerVars, eventLock, waitersLock_, countVars, launched>>
  BY <1>1, <1>2 DEF SetProgramHappened, Goto, boundVars, lockVars, eventVars
<1>4. Types'
  BY <1>3 DEF IInv, Types, workerVars
<1>5. pc'[c] = "unblock" /\ status'[c] = "TERMINATING"
  BY <1>2, <1>3 DEF IInv, Types
<1>6. Move(c)
  <2>1. Fits(c)'
    BY <1>1, <1>2, <1>3, <1>5, CorosFacts DEF IInv, Types, Fits, CoFits, Ending
  <2> QED  BY <1>1, <1>3, <1>5, <2>1, CorosFacts DEF IInv, Types, Move, Stays, Switched, OnThread, workerVars, eventVars
<1>7. MoveAwake(c)
  BY <1>1, <1>3, <1>5, CorosFacts DEF IInv, Types, Waits, MoveAwake, workerVars, eventVars
<1>8. MoveCounted(c)
  BY <1>1, <1>2, <1>3, <1>5, CorosFacts DEF MoveCounted, IsLive, IsLoop, IsUp, LoopLabels, workerVars, countVars
<1> QED  BY <1>1, <1>2, <1>4, <1>6, <1>7, <1>8, MoveKeeps, CorosFacts

LEMMA MainCompletedKeeps ==
  ASSUME IInv, NEW w \in Workers, MainCompleted(w)
  PROVE  Kept
<1>1. PICK c \in Coros : c = cur[w] /\ c # None /\ pc[c] = "run"
  BY CurFacts DEF MainCompleted, Goto, At
<1>2. status[c] = "RUNNING" /\ c = Main /\ Fits(c)
  BY <1>1, CurFacts, Kinds DEF IInv, StopLabels, MainCompleted
<1>3. /\ pc' = [pc EXCEPT ![c] = "mLock"] /\ status' = status
      /\ arg' = arg /\ UNCHANGED eventVars
      /\ UNCHANGED <<cur, workerVars, eventLock, waitersLock_, countVars, launched>>
  BY <1>1, <1>2 DEF MainCompleted, Goto, boundVars, lockVars
<1>4. Types'
  BY <1>3 DEF IInv, Types, workerVars, eventVars
<1>5. pc'[c] = "mLock" /\ status'[c] = "RUNNING"
  BY <1>2, <1>3 DEF IInv, Types
<1>6. Move(c)
  <2>1. Fits(c)'
    BY <1>1, <1>2, <1>3, <1>5, CorosFacts DEF IInv, Types, Fits, MainFits, eventVars
  <2> QED  BY <1>1, <1>3, <1>5, <2>1, CorosFacts DEF IInv, Types, Move, Stays, Switched, OnThread, workerVars, eventVars
<1>7. MoveAwake(c)
  BY <1>1, <1>3, <1>5, CorosFacts DEF IInv, Types, Waits, MoveAwake, workerVars, eventVars
<1>8. MoveCounted(c)
  BY <1>1, <1>2, <1>3, <1>5, CorosFacts DEF MoveCounted, IsLive, IsLoop, IsUp, LoopLabels, workerVars, countVars
<1>9. KeepsStopping
  BY <1>1, <1>2, <1>3, <1>5 DEF KeepsStopping, StopLabels, DrainLabels, workerVars
<1> QED  BY <1>1, <1>4, <1>6, <1>7, <1>8, <1>9, MoveKeeps

LEMMA MainLockKeeps ==
  ASSUME IInv, NEW w \in Workers, MainLock(w)
  PROVE  Kept
<1>1. PICK c \in Coros : c = cur[w] /\ c # None /\ pc[c] = "mLock"
  BY CurFacts DEF MainLock, Goto, At
<1>2. status[c] = "RUNNING" /\ c = Main /\ Fits(c)
  BY <1>1, CurFacts, Kinds DEF IInv, StopLabels
<1>3. /\ pc' = [pc EXCEPT ![c] = "mCheck"] /\ status' = status
      /\ arg' = arg /\ UNCHANGED eventVars
      /\ UNCHANGED <<cur, workerVars, eventLock, waitersLock_, countVars, launched>>
  BY <1>1, <1>2 DEF MainLock, Goto, boundVars, lockVars
<1>4. Types'
  BY <1>3 DEF IInv, Types, workerVars, eventVars
<1>5. pc'[c] = "mCheck" /\ status'[c] = "RUNNING"
  BY <1>2, <1>3 DEF IInv, Types
<1>6. Move(c)
  <2>1. Fits(c)'
    BY <1>1, <1>2, <1>3, <1>5, CorosFacts DEF IInv, Types, Fits, MainFits, eventVars
  <2> QED  BY <1>1, <1>3, <1>5, <2>1, CorosFacts DEF IInv, Types, Move, Stays, Switched, OnThread, workerVars, eventVars
<1>7. MoveAwake(c)
  BY <1>1, <1>3, <1>5, CorosFacts DEF IInv, Types, Waits, MoveAwake, workerVars, eventVars
<1>8. MoveCounted(c)
  BY <1>1, <1>2, <1>3, <1>5, CorosFacts DEF MoveCounted, IsLive, IsLoop, IsUp, LoopLabels, workerVars, countVars
<1>9. KeepsStopping
  BY <1>1, <1>2, <1>3, <1>5 DEF KeepsStopping, StopLabels, DrainLabels, workerVars
<1> QED  BY <1>1, <1>4, <1>6, <1>7, <1>8, <1>9, MoveKeeps

LEMMA MainStopKeeps ==
  ASSUME IInv, NEW w \in Workers, MainStop(w)
  PROVE  Kept
<1>1. PICK c \in Coros : c = cur[w] /\ c # None /\ pc[c] = "mStop"
  BY CurFacts DEF MainStop, Goto, At
<1>2. status[c] = "RUNNING" /\ c = Main /\ Fits(c)
  BY <1>1, CurFacts, Kinds DEF IInv, StopLabels
<1>3. /\ pc' = [pc EXCEPT ![c] = "mStopping"] /\ status' = [status EXCEPT ![c] = "AWAIT_LOOP"]
      /\ arg' = arg /\ UNCHANGED eventVars
      /\ UNCHANGED <<cur, workerVars, eventLock, waitersLock_, countVars, launched>>
  BY <1>1, <1>2 DEF MainStop, Goto, boundVars, lockVars
<1>4. Types'
  BY <1>3 DEF IInv, Types, workerVars, eventVars
<1>5. pc'[c] = "mStopping" /\ status'[c] = "AWAIT_LOOP"
  BY <1>2, <1>3 DEF IInv, Types
<1>6. Move(c)
  <2>1. Fits(c)'
    BY <1>1, <1>2, <1>3, <1>5, CorosFacts DEF IInv, Types, Fits, MainFits, eventVars
  <2> QED  BY <1>1, <1>3, <1>5, <2>1, CorosFacts DEF IInv, Types, Move, Stays, Switched, OnThread, workerVars, eventVars
<1>7. MoveAwake(c)
  BY <1>1, <1>3, <1>5, CorosFacts DEF IInv, Types, Waits, MoveAwake, workerVars, eventVars
<1>8. MoveCounted(c)
  BY <1>1, <1>2, <1>3, <1>5, CorosFacts DEF MoveCounted, IsLive, IsLoop, IsUp, LoopLabels, workerVars, countVars
<1>9. KeepsStopping
  BY <1>1, <1>2, <1>3, <1>5 DEF KeepsStopping, StopLabels, DrainLabels, workerVars
<1> QED  BY <1>1, <1>4, <1>6, <1>7, <1>8, <1>9, MoveKeeps

LEMMA MainStopWakeKeeps ==
  ASSUME IInv, NEW w \in Workers, MainStopWake(w)
  PROVE  Kept
<1>1. PICK c \in Coros : c = cur[w] /\ c # None /\ pc[c] = "mStopWake"
  BY CurFacts DEF MainStopWake, Goto, At
<1>2. status[c] = "AWAIT_LOOP" /\ c = Main /\ Fits(c)
  BY <1>1, CurFacts, Kinds DEF IInv, StopLabels
<1>3. /\ pc' = [pc EXCEPT ![c] = "mStopping"] /\ status' = status
      /\ arg' = arg /\ UNCHANGED eventVars
      /\ UNCHANGED <<cur, workerVars, eventLock, waitersLock_, countVars, launched>>
  BY <1>1, <1>2 DEF MainStopWake, Goto, boundVars, lockVars
<1>4. Types'
  BY <1>3 DEF IInv, Types, workerVars, eventVars
<1>5. pc'[c] = "mStopping" /\ status'[c] = "AWAIT_LOOP"
  BY <1>2, <1>3 DEF IInv, Types
<1>6. Move(c)
  <2>1. Fits(c)'
    BY <1>1, <1>2, <1>3, <1>5, CorosFacts DEF IInv, Types, Fits, MainFits, eventVars
  <2> QED  BY <1>1, <1>3, <1>5, <2>1, CorosFacts DEF IInv, Types, Move, Stays, Switched, OnThread, workerVars, eventVars
<1>7. MoveAwake(c)
  BY <1>1, <1>3, <1>5, CorosFacts DEF IInv, Types, Waits, MoveAwake, workerVars, eventVars
<1>8. MoveCounted(c)
  BY <1>1, <1>2, <1>3, <1>5, CorosFacts DEF MoveCounted, IsLive, IsLoop, IsUp, LoopLabels, workerVars, countVars
<1>9. KeepsStopping
  BY <1>1, <1>2, <1>3, <1>5 DEF KeepsStopping, StopLabels, DrainLabels, workerVars
<1> QED  BY <1>1, <1>4, <1>6, <1>7, <1>8, <1>9, MoveKeeps

-----------------------------------------------------------------------------
(* The counters.                                                           *)

LEMMA FiniteSets ==
  /\ IsFiniteSet(Live) /\ IsFiniteSet(Loops) /\ IsFiniteSet(Up)
  /\ Cardinality(Live) \in Nat /\ Cardinality(Loops) \in Nat /\ Cardinality(Up) \in Nat
<1>1. IsFiniteSet(Cos)
  BY FS_Interval, CoroutinesAssumption DEF Cos
<1>2. IsFiniteSet(Live)
  BY <1>1, FS_Subset DEF Live
<1>3. IsFiniteSet(Loops) /\ IsFiniteSet(Up)
  BY FS_Subset, CoroutinesAssumption DEF Loops, Up
<1> QED  BY <1>2, <1>3, FS_CardinalityType

\* Main stops the workers when nothing but itself and the loops is registered.
LEMMA NothingLive ==
  ASSUME IInv, pc[Main] \notin StopLabels, ~(coroutineCount_ > 1 + activeWorkersCount_)
  PROVE  \A d \in Cos : ~IsLive(d)
<1>1. Loops = Workers /\ Up = Workers
  BY DEF IInv, Stopping, Loops, Up, IsLoop, IsUp, LoopLabels
<1>2. Cardinality(Live) = 0
  BY <1>1, FiniteSets DEF IInv, Counting
<1>3. Live = {}
  BY <1>2, FiniteSets, FS_EmptySet
<1> QED  BY <1>3 DEF Live

LEMMA NobodyElseUp ==
  ASSUME IInv, ~(activeWorkersCount_ > 1)
  PROVE  \A w \in Workers : IsUp(w) => w = MainWorker
<1>1. MainWorker \in Up
  BY CorosFacts DEF Up, IsUp
<1>2. /\ IsFiniteSet(Up \ {MainWorker})
      /\ Cardinality(Up \ {MainWorker}) = Cardinality(Up) - 1
  BY <1>1, FiniteSets, FS_RemoveElement
<1>3. Cardinality(Up \ {MainWorker}) = 0
  BY <1>2, FiniteSets, FS_CardinalityType DEF IInv, Counting
<1>4. Up \ {MainWorker} = {}
  BY <1>2, <1>3, FS_EmptySet
<1> QED  BY <1>4 DEF Up

LEMMA NoLoop ==
  ASSUME IInv, coroutineCount_ <= 1
  PROVE  \A w \in Workers : ~IsLoop(w)
<1>1. Cardinality(Loops) = 0
  BY FiniteSets DEF IInv, Counting
<1>2. Loops = {}
  BY <1>1, FiniteSets, FS_EmptySet
<1> QED  BY <1>2 DEF Loops

LEMMA MainCheckKeeps ==
  ASSUME IInv, NEW w \in Workers, MainCheck(w)
  PROVE  Kept
<1>1. PICK c \in Coros : c = cur[w] /\ c # None /\ pc[c] = "mCheck"
  BY CurFacts DEF MainCheck, Goto, At
<1>2. status[c] = "RUNNING" /\ c = Main /\ Fits(c)
  BY <1>1, CurFacts, Kinds DEF IInv, StopLabels
<1>3. PICK l \in {"mReset", "mStop"} :
      /\ l = "mStop" => ~(coroutineCount_ > 1 + activeWorkersCount_)
      /\ pc' = [pc EXCEPT ![c] = l] /\ status' = status
      /\ arg' = arg /\ UNCHANGED eventVars
      /\ UNCHANGED <<cur, workerVars, eventLock, waitersLock_, countVars, launched>>
  BY <1>1, <1>2 DEF MainCheck, Goto, boundVars, lockVars
<1>4. Types'
  BY <1>3 DEF IInv, Types, workerVars, eventVars
<1>5. pc'[c] = l /\ status'[c] = "RUNNING"
  BY <1>2, <1>3 DEF IInv, Types
<1>6. Move(c)
  <2>1. Fits(c)'
    BY <1>1, <1>2, <1>3, <1>5, CorosFacts DEF IInv, Types, Fits, MainFits, eventVars
  <2> QED  BY <1>1, <1>3, <1>5, <2>1, CorosFacts DEF IInv, Types, Move, Stays, Switched, OnThread, workerVars, eventVars
<1>7. MoveAwake(c)
  BY <1>1, <1>3, <1>5, CorosFacts DEF IInv, Types, Waits, MoveAwake, workerVars, eventVars
<1>8. MoveCounted(c)
  BY <1>1, <1>2, <1>3, <1>5, CorosFacts DEF MoveCounted, IsLive, IsLoop, IsUp, LoopLabels, workerVars, countVars
<1>9. l = "mStop" => \A d \in Cos : ~IsLive(d)
  BY <1>1, <1>2, <1>3, NothingLive DEF StopLabels
<1>10. OnThread(c)
  BY <1>1, CurFacts
<1>11. KeepsCounts /\ Counting' /\ Ends'
  BY <1>6, <1>8, <1>10, MoveCounts
<1>12. UNCHANGED active_
  BY <1>3 DEF workerVars
<1>13. Stopping'
  BY <1>1, <1>2, <1>5, <1>9, <1>11, <1>12 DEF IInv, Stopping, KeepsCounts, StopLabels, DrainLabels
<1> QED  BY <1>4, <1>6, <1>7, <1>10, <1>11, <1>13, MovePlaces, MoveWaits DEF IInv, Kept

LEMMA MainStopCheckKeeps ==
  ASSUME IInv, NEW w \in Workers, MainStopCheck(w)
  PROVE  Kept
<1>1. PICK c \in Coros : c = cur[w] /\ c # None /\ pc[c] = "mStopping"
  BY CurFacts DEF MainStopCheck, Goto, At
<1>2. status[c] = "AWAIT_LOOP" /\ c = Main /\ Fits(c)
  BY <1>1, CurFacts, Kinds DEF IInv, StopLabels
<1>3. PICK l \in {"mStopWait", "mDrain"} :
      /\ l = "mDrain" => ~(activeWorkersCount_ > 1)
      /\ pc' = [pc EXCEPT ![c] = l] /\ status' = status
      /\ arg' = arg /\ UNCHANGED eventVars
      /\ UNCHANGED <<cur, workerVars, eventLock, waitersLock_, countVars, launched>>
  BY <1>1, <1>2 DEF MainStopCheck, Goto, boundVars, lockVars
<1>4. Types'
  BY <1>3 DEF IInv, Types, workerVars, eventVars
<1>5. pc'[c] = l /\ status'[c] = "AWAIT_LOOP"
  BY <1>2, <1>3 DEF IInv, Types
<1>6. Move(c)
  <2>1. Fits(c)'
    BY <1>1, <1>2, <1>3, <1>5, CorosFacts DEF IInv, Types, Fits, MainFits, eventVars
  <2> QED  BY <1>1, <1>3, <1>5, <2>1, CorosFacts DEF IInv, Types, Move, Stays, Switched, OnThread, workerVars, eventVars
<1>7. MoveAwake(c)
  BY <1>1, <1>3, <1>5, CorosFacts DEF IInv, Types, Waits, MoveAwake, workerVars, eventVars
<1>8. MoveCounted(c)
  BY <1>1, <1>2, <1>3, <1>5, CorosFacts DEF MoveCounted, IsLive, IsLoop, IsUp, LoopLabels, workerVars, countVars
<1>9. l = "mDrain" => \A v \in Workers : IsUp(v) => v = MainWorker
  BY <1>3, NobodyElseUp
<1>10. OnThread(c)
  BY <1>1, CurFacts
<1>11. KeepsCounts /\ Counting' /\ Ends'
  BY <1>6, <1>8, <1>10, MoveCounts
<1>12. UNCHANGED active_
  BY <1>3 DEF workerVars
<1>13. Stopping'
  BY <1>1, <1>2, <1>5, <1>9, <1>11, <1>12 DEF IInv, Stopping, KeepsCounts, StopLabels, DrainLabels
<1> QED  BY <1>4, <1>6, <1>7, <1>10, <1>11, <1>13, MovePlaces, MoveWaits DEF IInv, Kept

LEMMA MainDoneKeeps ==
  ASSUME IInv, NEW w \in Workers, MainDone(w)
  PROVE  Kept
<1>1. PICK c \in Coros : c = cur[w] /\ c # None /\ pc[c] = "mDrain"
  BY CurFacts DEF MainDone, Goto, At
<1>2. status[c] \in {"RUNNING", "AWAIT_LOOP"} /\ c = Main /\ Fits(c)
  BY <1>1, CurFacts, Kinds DEF IInv, StopLabels
<1>3. /\ pc' = [pc EXCEPT ![c] = "done"] /\ status' = status
      /\ arg' = arg /\ UNCHANGED eventVars
      /\ UNCHANGED <<cur, workerVars, eventLock, waitersLock_, countVars, launched>>
  BY <1>1, <1>2 DEF MainDone, Goto, boundVars, lockVars
<1>4. Types'
  BY <1>3 DEF IInv, Types, workerVars, eventVars
<1>5. pc'[c] = "done" /\ status'[c] = status[c]
  BY <1>2, <1>3 DEF IInv, Types
<1>6. Move(c)
  <2>1. Fits(c)'
    BY <1>1, <1>2, <1>3, <1>5, CorosFacts DEF IInv, Types, Fits, MainFits, eventVars
  <2> QED  BY <1>1, <1>2, <1>3, <1>5, <2>1, CorosFacts DEF IInv, Types, Move, Stays, Switched, OnThread, workerVars, eventVars
<1>7. MoveAwake(c)
  BY <1>1, <1>3, <1>5, CorosFacts DEF IInv, Types, Waits, MoveAwake, workerVars, eventVars
<1>8. MoveCounted(c)
  BY <1>1, <1>2, <1>3, <1>5, CorosFacts DEF MoveCounted, IsLive, IsLoop, IsUp, LoopLabels, workerVars, countVars
<1>9. \A v \in Workers : ~IsLoop(v)
  BY NoLoop DEF MainDone
<1>10. OnThread(c)
  BY <1>1, CurFacts
<1>11. KeepsCounts /\ Counting' /\ Ends'
  BY <1>6, <1>8, <1>10, MoveCounts
<1>12. UNCHANGED active_
  BY <1>3 DEF workerVars
<1>13. Stopping'
  BY <1>1, <1>2, <1>5, <1>9, <1>11, <1>12 DEF IInv, Stopping, KeepsCounts, StopLabels, DrainLabels
<1> QED  BY <1>4, <1>6, <1>7, <1>10, <1>11, <1>13, MovePlaces, MoveWaits DEF IInv, Kept

LEMMA TerminateCoroutineKeeps ==
  ASSUME IInv, NEW w \in Workers, TerminateCoroutine(w)
  PROVE  Kept
<1>1. PICK c \in Coros : c = cur[w] /\ c # None /\ pc[c] = "terminate"
  BY CurFacts DEF TerminateCoroutine, Goto, At
<1>2. status[c] = "TERMINATING" /\ c \in Cos /\ Fits(c)
  BY <1>1, CurFacts, Kinds DEF IInv, Ending
<1>3. /\ pc' = [pc EXCEPT ![c] = "unblock"] /\ status' = status
      /\ arg' = [arg EXCEPT ![c] = c] /\ UNCHANGED eventVars
      /\ UNCHANGED <<cur, workerVars, eventLock, waitersLock_, activeWorkersCount_, launched>>
      /\ coroutineCount_' = coroutineCount_ - 1
  BY <1>1, <1>2 DEF TerminateCoroutine, Goto, boundVars, lockVars
<1>4. Types'
  BY <1>3 DEF IInv, Types, workerVars, eventVars
<1>5. pc'[c] = "unblock" /\ status'[c] = "TERMINATING"
  BY <1>2, <1>3 DEF IInv, Types
<1>6. Move(c)
  <2>1. Fits(c)'
    BY <1>1, <1>2, <1>3, <1>5, CorosFacts DEF IInv, Types, Fits, CoFits, Ending, eventVars
  <2> QED  BY <1>1, <1>3, <1>5, <2>1, CorosFacts DEF IInv, Types, Move, Stays, Switched, OnThread, workerVars, eventVars
<1>7. MoveAwake(c)
  BY <1>1, <1>3, <1>5, CorosFacts DEF IInv, Types, Waits, MoveAwake, workerVars, eventVars
<1>8. /\ \A d \in Cos : IsLive(d)' <=> IsLive(d) /\ d # c
      /\ \A v \in Workers : (IsLoop(v)' <=> IsLoop(v)) /\ (IsUp(v)' <=> IsUp(v)) /\ pc'[v] = pc[v]
      /\ pc'[Main] = pc[Main] /\ cur' = cur /\ active_' = active_
  BY <1>1, <1>2, <1>3, <1>5, <1>6, CorosFacts DEF Move, IsLive, IsLoop, IsUp, Stays, workerVars
<1>9. Counting'
  <2>1. Live' = Live \ {c} /\ Loops' = Loops /\ Up' = Up
    BY <1>8 DEF Live, Loops, Up
  <2>2. c \in Live
    BY <1>1, <1>2 DEF Live, IsLive
  <2>3. Cardinality(Live') = Cardinality(Live) - 1
    BY <2>1, <2>2, FiniteSets, FS_RemoveElement
  <2> QED  BY <2>1, <2>3, <1>3, FiniteSets DEF IInv, Counting
<1>10. Stopping'
  BY <1>8 DEF IInv, Stopping
<1>11. Ends'
  BY <1>8 DEF IInv, Ends
<1> QED  BY <1>1, <1>4, <1>6, <1>7, <1>9, <1>10, <1>11, CurFacts, MovePlaces, MoveWaits DEF IInv, Kept

LEMMA FiberLoopEndKeeps ==
  ASSUME IInv, NEW w \in Workers, FiberLoopEnd(w)
  PROVE  Kept
<1>1. PICK c \in Coros : c = cur[w] /\ c # None /\ pc[c] = "loopEnd"
  BY CurFacts DEF FiberLoopEnd, Goto, At
<1>2. status[c] = "RUNNING" /\ c \in Workers /\ c = w /\ Fits(c)
  BY <1>1, CurFacts, Kinds DEF IInv, LoopLabels
<1>3. /\ w = MainWorker
      /\ pc' = [pc EXCEPT ![c] = "final"] /\ status' = [status EXCEPT ![c] = "TERMINATING"]
      /\ arg' = arg /\ UNCHANGED eventVars
      /\ UNCHANGED <<cur, workerVars, eventLock, waitersLock_, activeWorkersCount_, launched>>
      /\ coroutineCount_' = coroutineCount_ - 1
  BY <1>1, <1>2 DEF FiberLoopEnd, Goto, boundVars, lockVars
<1>4. Types'
  BY <1>3 DEF IInv, Types, workerVars, eventVars
<1>5. pc'[c] = "final" /\ status'[c] = "TERMINATING"
  BY <1>2, <1>3 DEF IInv, Types
<1>6. Move(c)
  <2>1. Fits(c)'
    BY <1>1, <1>2, <1>3, <1>5, CorosFacts DEF IInv, Types, Fits, LoopFits, LoopLabels, eventVars
  <2> QED  BY <1>1, <1>3, <1>5, <2>1, CorosFacts DEF IInv, Types, Move, Stays, Switched, OnThread, workerVars, eventVars
<1>7. MoveAwake(c)
  BY <1>1, <1>3, <1>5, CorosFacts DEF IInv, Types, Waits, MoveAwake, workerVars, eventVars
<1>8. /\ \A d \in Cos : IsLive(d)' <=> IsLive(d)
      /\ \A v \in Workers : (IsLoop(v)' <=> IsLoop(v) /\ v # c) /\ (IsUp(v)' <=> IsUp(v))
      /\ \A v \in Workers \ {c} : pc'[v] = pc[v]
      /\ pc'[Main] = pc[Main] /\ cur' = cur /\ active_' = active_
  BY <1>1, <1>2, <1>3, <1>5, <1>6, CorosFacts DEF Move, IsLive, IsLoop, IsUp, LoopLabels, Stays, workerVars
<1>9. Counting'
  <2>1. Loops' = Loops \ {c} /\ Live' = Live /\ Up' = Up
    BY <1>8 DEF Live, Loops, Up
  <2>2. c \in Loops
    BY <1>1, <1>2 DEF Loops, IsLoop, LoopLabels
  <2>3. Cardinality(Loops') = Cardinality(Loops) - 1
    BY <2>1, <2>2, FiniteSets, FS_RemoveElement
  <2> QED  BY <2>1, <2>3, <1>3, FiniteSets DEF IInv, Counting
<1>10. Stopping'
  <2>1. ~active_[c]
    BY <1>1, <1>2 DEF IInv, Ends
  <2> QED  BY <1>2, <1>8, <2>1 DEF IInv, Stopping
<1>11. Ends'
  <2>1. pc'[c] # "loopEnd" /\ cur'[c] \notin Cos
    BY <1>1, <1>2, <1>5, <1>8, CorosFacts
  <2> QED  BY <1>2, <1>8, <2>1 DEF IInv, Ends
<1> QED  BY <1>1, <1>4, <1>6, <1>7, <1>9, <1>10, <1>11, CurFacts, MovePlaces, MoveWaits DEF IInv, Kept

LEMMA ThreadLoopEndKeeps ==
  ASSUME IInv, NEW w \in Workers, ThreadLoopEnd(w)
  PROVE  Kept
<1>1. PICK c \in Coros : c = cur[w] /\ c # None /\ pc[c] = "loopEnd"
  BY CurFacts DEF ThreadLoopEnd, Goto, At
<1>2. status[c] = "RUNNING" /\ c \in Workers /\ c = w /\ Fits(c)
  BY <1>1, CurFacts, Kinds DEF IInv, LoopLabels
<1>3. /\ w # MainWorker
      /\ pc' = [pc EXCEPT ![c] = "shutdown"] /\ status' = [status EXCEPT ![c] = "NONE"]
      /\ arg' = arg /\ UNCHANGED eventVars
      /\ UNCHANGED <<cur, workerVars, eventLock, waitersLock_, activeWorkersCount_, launched>>
      /\ coroutineCount_' = coroutineCount_ - 1
  BY <1>1, <1>2 DEF ThreadLoopEnd, Goto, boundVars, lockVars
<1>4. Types'
  BY <1>3 DEF IInv, Types, workerVars, eventVars
<1>5. pc'[c] = "shutdown" /\ status'[c] = "NONE"
  BY <1>2, <1>3 DEF IInv, Types
<1>6. Move(c)
  <2>1. Fits(c)'
    BY <1>1, <1>2, <1>3, <1>5, CorosFacts DEF IInv, Types, Fits, LoopFits, LoopLabels, eventVars
  <2> QED  BY <1>1, <1>3, <1>5, <2>1, CorosFacts DEF IInv, Types, Move, Stays, Switched, OnThread, workerVars, eventVars
<1>7. MoveAwake(c)
  BY <1>1, <1>3, <1>5, CorosFacts DEF IInv, Types, Waits, MoveAwake, workerVars, eventVars
<1>8. /\ \A d \in Cos : IsLive(d)' <=> IsLive(d)
      /\ \A v \in Workers : (IsLoop(v)' <=> IsLoop(v) /\ v # c) /\ (IsUp(v)' <=> IsUp(v))
      /\ \A v \in Workers \ {c} : pc'[v] = pc[v]
      /\ pc'[Main] = pc[Main] /\ cur' = cur /\ active_' = active_
  BY <1>1, <1>2, <1>3, <1>5, <1>6, CorosFacts DEF Move, IsLive, IsLoop, IsUp, LoopLabels, Stays, workerVars
<1>9. Counting'
  <2>1. Loops' = Loops \ {c} /\ Live' = Live /\ Up' = Up
    BY <1>8 DEF Live, Loops, Up
  <2>2. c \in Loops
    BY <1>1, <1>2 DEF Loops, IsLoop, LoopLabels
  <2>3. Cardinality(Loops') = Cardinality(Loops) - 1
    BY <2>1, <2>2, FiniteSets, FS_RemoveElement
  <2> QED  BY <2>1, <2>3, <1>3, FiniteSets DEF IInv, Counting
<1>10. Stopping'
  <2>1. ~active_[c]
    BY <1>1, <1>2 DEF IInv, Ends
  <2> QED  BY <1>2, <1>8, <2>1 DEF IInv, Stopping
<1>11. Ends'
  <2>1. pc'[c] # "loopEnd" /\ cur'[c] \notin Cos
    BY <1>1, <1>2, <1>5, <1>8, CorosFacts
  <2> QED  BY <1>2, <1>8, <2>1 DEF IInv, Ends
<1> QED  BY <1>1, <1>4, <1>6, <1>7, <1>9, <1>10, <1>11, CurFacts, MovePlaces, MoveWaits DEF IInv, Kept

-----------------------------------------------------------------------------
(* Waiting.                                                                *)

\* c begins to wait or goes on to wait, with its event locked, or does not wait.
MoveWaiting(c) ==
  /\ UNCHANGED <<waitersLock_, waiters_>>
  /\ \A e \in Events : eventLock[e] \notin {None, c} => eventLock'[e] = eventLock[e]
  /\ \A d \in Cos : happened_'[d] = happened_[d]
  /\ pc[c] # "block" /\ pc'[c] \notin {"block", "unblock", "unblocking"}
  /\ pc'[c] \in {"wait", "enter"} =>
       /\ arg'[c] \in Events /\ (arg'[c] = Program => c = Main)
       /\ eventLock'[arg'[c]] = c
       /\ arg'[c] \in Cos /\ happened_[arg'[c]] => pc'[c] = "wait" /\ arg'[c] \in following

LEMMA WaitingKeeps ==
  ASSUME IInv, NEW w \in Workers, NEW c \in Coros, c = cur[w], OnThread(c), Move(c), MoveWaiting(c)
  PROVE  /\ Sleepers' /\ Waits' /\ Homes'
         /\ Registered /\ (pc'[c] \in {"wait", "enter"} => waiters_[w][arg'[c]] = None) => Registered'
<1>1. \A b \in Coros \ {c} : status'[b] = status[b] /\ pc'[b] = pc[b] /\ arg'[b] = arg[b]
  BY DEF Move, Stays
<1>2. cur' = cur /\ waiters_' = waiters_ /\ waitersLock_' = waitersLock_
  BY DEF Move, MoveWaiting
<1>3. c # None /\ status[c] # "BLOCKED" /\ status'[c] # "BLOCKED"
  BY CorosFacts DEF OnThread, Move
<1>4. Sleepers'
  <2> SUFFICES ASSUME NEW v \in Workers, NEW e \in Events
               PROVE  Sleeping(v, e)'
    BY <1>2 DEF IInv, Sleepers
  <2> SUFFICES ASSUME waiters_[v][e] # None
               PROVE  Sleeping(v, e)'
    BY <1>2 DEF Sleeping
  <2>1. PICK b \in Coros : b = waiters_[v][e]
    BY DEF IInv, Types
  <2>2. arg[b] = e /\ (status[b] = "BLOCKED" \/ (pc[b] = "block" /\ cur[v] = b))
    BY <2>1 DEF IInv, Sleepers, Sleeping
  <2>3. b # c
    BY <2>2, <1>3 DEF MoveWaiting
  <2>4. arg'[b] = e /\ (status'[b] = "BLOCKED" \/ (pc'[b] = "block" /\ cur'[v] = b))
    BY <2>2, <2>3, <1>1, <1>2
  <2> QED  BY <2>1, <2>4, <1>2 DEF Sleeping
<1>5. Waits'
  <2>1. \A b \in Coros : pc'[b] \in {"wait", "enter", "block"} =>
          arg'[b] \in Events /\ (arg'[b] = Program => b = Main)
    BY <1>1 DEF IInv, Waits, MoveWaiting
  <2>2. ASSUME NEW b \in Coros, pc'[b] \in {"wait", "enter"}
        PROVE  /\ eventLock'[arg'[b]] = b
               /\ arg'[b] \in Cos /\ happened_'[arg'[b]] => pc'[b] = "wait" /\ arg'[b] \in following'
    <3>1. CASE b = c
      BY <2>2, <3>1 DEF Move, MoveWaiting
    <3>2. CASE b # c
      BY <2>2, <3>2, <1>1, CorosFacts DEF IInv, Waits, Move, MoveWaiting
    <3> QED  BY <3>1, <3>2
  <2>3. \A v \in Workers : cur'[v] # None /\ pc'[cur'[v]] = "block" => waitersLock_'[v] = cur'[v]
    <3> SUFFICES ASSUME NEW v \in Workers, cur[v] # None, pc'[cur[v]] = "block"
                 PROVE  waitersLock_[v] = cur[v]
      BY <1>2
    <3>1. cur[v] \in Coros \ {c}
      BY DEF IInv, Types, MoveWaiting
    <3> QED  BY <3>1, <1>1 DEF IInv, Waits
  <2>4. \A b \in Coros : status'[b] = "BLOCKED" => arg'[b] \in Events /\ pc'[b] = After(arg'[b])
    BY <1>1, <1>3 DEF IInv, Waits
  <2>5. \A b \in Coros : pc'[b] \in {"unblock", "unblocking"} => arg'[b] \in {b, Program}
    BY <1>1 DEF IInv, Waits, MoveWaiting
  <2> QED  BY <2>1, <2>2, <2>3, <2>4, <2>5 DEF Waits, After
<1>6. Homes'
  BY DEF IInv, Homes, InQueue, Move, MoveWaiting
<1>7. ASSUME Registered, pc'[c] \in {"wait", "enter"} => waiters_[w][arg'[c]] = None
      PROVE  Registered'
  <2>1. \A b \in Coros : status'[b] = "BLOCKED" => \E v \in Workers : waiters_'[v][arg'[b]] = b
    BY <1>1, <1>2, <1>3, <1>7 DEF Registered
  <2>2. ASSUME NEW v \in Workers, cur'[v] # None
        PROVE  /\ pc'[cur'[v]] \in {"wait", "enter"} => waiters_'[v][arg'[cur'[v]]] = None
               /\ pc'[cur'[v]] = "block" => waiters_'[v][arg'[cur'[v]]] = cur'[v]
    <3>1. PICK b \in Coros : b = cur[v] /\ b = cur'[v]
      BY <2>2, <1>2 DEF IInv, Types
    <3>2. CASE b = c
      <4>1. cur[v] # None /\ cur[v] = cur[w]
        BY <3>1, <3>2, <1>3
      <4>2. v = w
        BY <4>1 DEF IInv, Threads
      <4> QED  BY <3>1, <3>2, <4>2, <1>2, <1>7 DEF MoveWaiting
    <3>3. CASE b # c
      BY <2>2, <3>1, <3>3, <1>1, <1>2, <1>7 DEF Registered
    <3> QED  BY <3>2, <3>3
  <2> QED  BY <2>1, <2>2 DEF Registered
<1> QED  BY <1>4, <1>5, <1>6, <1>7

LEMMA ResumedFacts ==
  /\ DOMAIN Resumed = Switched
  /\ Resumed["to_run"] = "run" /\ Resumed["to_mLock"] = "mLock"
  /\ Resumed["to_loop"] = "loop" /\ Resumed["to_mDrain"] = "mDrain"
BY DEF Resumed, Switched

LEMMA AwaitKeeps ==
  ASSUME IInv, NEW w \in Workers, NEW d \in Cos, Await(w, d)
  PROVE  Kept
<1>1. PICK c \in Coros : c = cur[w] /\ c # None /\ pc[c] = "run"
  BY CurFacts DEF Await, At
<1>2. status[c] = "RUNNING" /\ c \in Cos \cup {Main} /\ Fits(c) /\ OnThread(c)
  BY <1>1, CurFacts, Kinds DEF IInv
<1>3. /\ pc' = [pc EXCEPT ![c] = "wait"] /\ arg' = [arg EXCEPT ![c] = d]
      /\ eventLock' = [eventLock EXCEPT ![d] = c] /\ eventLock[d] = None
      /\ UNCHANGED <<cur, workerVars, status, eventVars, waitersLock_, countVars, launched>>
      /\ ~resolved[d] /\ (~SharedAwait => waiters_[w][d] = None)
  BY <1>1 DEF Await, boundVars
<1>4. Types'
  BY <1>3 DEF IInv, Types, workerVars, eventVars
<1>5. /\ pc'[c] = "wait" /\ status'[c] = "RUNNING" /\ arg'[c] = d /\ eventLock'[d] = c
      /\ \A e \in Events : eventLock[e] \notin {None, c} => eventLock'[e] = eventLock[e]
      /\ d \in Events /\ d # Program
  BY <1>2, <1>3, CorosFacts DEF IInv, Types
<1>6. happened_[d] => d \in following
  <2>1. CoFits(d)
    BY CorosFacts DEF IInv, Fitting, Fits
  <2> QED  BY <2>1, <1>3 DEF CoFits
<1>7. Move(c)
  <2>1. Fits(c)'
    BY <1>1, <1>2, <1>3, <1>5, CorosFacts DEF Fits, CoFits, MainFits, eventVars
  <2> QED  BY <1>1, <1>3, <1>5, <2>1 DEF IInv, Types, Move, Stays, Switched, OnThread, workerVars, eventVars
<1>8. MoveWaiting(c)
  BY <1>1, <1>3, <1>5, <1>6 DEF MoveWaiting, workerVars, eventVars
<1>9. Sleepers' /\ Waits' /\ Homes' /\ (~SharedAwait /\ Registered => Registered')
  BY <1>1, <1>2, <1>3, <1>5, <1>7, <1>8, WaitingKeeps
<1>10. MoveCounted(c)
  BY <1>1, <1>2, <1>3, <1>5, CorosFacts DEF MoveCounted, IsLive, workerVars, countVars
<1>11. c = Main => KeepsStopping
  BY <1>1, <1>3, <1>5 DEF KeepsStopping, StopLabels, DrainLabels, workerVars
<1>12. Counting' /\ Ends' /\ Stopping'
  BY <1>2, <1>7, <1>10, <1>11, MoveCounts, MoveStops DEF MoveCounted
<1> QED  BY <1>2, <1>4, <1>7, <1>9, <1>12, MovePlaces DEF IInv, Kept

LEMMA WaitTestKeeps ==
  ASSUME IInv, NEW w \in Workers, WaitTest(w)
  PROVE  Kept
<1>1. PICK c \in Coros : c = cur[w] /\ c # None /\ pc[c] = "wait"
  BY CurFacts DEF WaitTest, Goto, At
<1>2. /\ status[c] = "RUNNING" /\ c \in Cos \cup {Main} /\ Fits(c) /\ OnThread(c)
      /\ arg[c] \in Events /\ (arg[c] = Program => c = Main) /\ eventLock[arg[c]] = c
  BY <1>1, CurFacts, Kinds DEF IInv, Waits
<1>3. PICK l, e, k :
      /\ \/ l = "enter" /\ e = arg[c] /\ k = c /\ ~happened_[arg[c]]
         \/ l = "run" /\ e = None /\ k = None
         \/ l = "mLock" /\ e = None /\ k = None /\ c = Main
      /\ pc' = [pc EXCEPT ![c] = l] /\ arg' = [arg EXCEPT ![c] = e]
      /\ eventLock' = [eventLock EXCEPT ![arg[c]] = k]
      /\ UNCHANGED <<cur, workerVars, status, eventVars, waitersLock_, countVars, launched>>
  <2>1. UNCHANGED <<cur, workerVars, status, eventVars, waitersLock_, countVars, launched>>
    BY DEF WaitTest, boundVars
  <2>2. CASE happened_[arg[c]]
    <3>1. /\ pc' = [pc EXCEPT ![c] = Resumed[After(arg[c])]] /\ arg' = [arg EXCEPT ![c] = None]
          /\ eventLock' = [eventLock EXCEPT ![arg[c]] = None]
      BY <1>1, <2>2 DEF WaitTest, Goto
    <3>2. Resumed[After(arg[c])] = "run" \/ (Resumed[After(arg[c])] = "mLock" /\ c = Main)
      BY <1>2, ResumedFacts DEF After
    <3> QED  BY <2>1, <3>1, <3>2
  <2>3. CASE ~happened_[arg[c]]
    <3>1. /\ pc' = [pc EXCEPT ![c] = "enter"] /\ arg' = [arg EXCEPT ![c] = arg[c]]
          /\ eventLock' = [eventLock EXCEPT ![arg[c]] = eventLock[arg[c]]]
      BY <1>1, <2>3 DEF WaitTest, Goto
    <3> QED  BY <1>2, <2>1, <2>3, <3>1
  <2> QED  BY <2>2, <2>3
<1>4. Types'
  BY <1>3 DEF IInv, Types, workerVars, eventVars
<1>5. /\ pc'[c] = l /\ status'[c] = "RUNNING" /\ arg'[c] = e /\ eventLock'[arg[c]] = k
      /\ \A x \in Events : eventLock[x] \notin {None, c} => eventLock'[x] = eventLock[x]
  BY <1>2, <1>3, CorosFacts DEF IInv, Types
<1>6. Move(c)
  <2>1. Fits(c)'
    BY <1>1, <1>2, <1>3, <1>5, CorosFacts DEF Fits, CoFits, MainFits, eventVars
  <2> QED  BY <1>1, <1>3, <1>5, <2>1 DEF IInv, Types, Move, Stays, Switched, OnThread, workerVars, eventVars
<1>7. MoveWaiting(c)
  BY <1>1, <1>2, <1>3, <1>5 DEF MoveWaiting, workerVars, eventVars
<1>8. Registered => (pc'[c] \in {"wait", "enter"} => waiters_[w][arg'[c]] = None)
  BY <1>1, <1>3, <1>5 DEF Registered
<1>9. Sleepers' /\ Waits' /\ Homes' /\ (Registered => Registered')
  BY <1>1, <1>2, <1>6, <1>7, <1>8, WaitingKeeps
<1>10. MoveCounted(c)
  BY <1>1, <1>2, <1>3, <1>5, CorosFacts DEF MoveCounted, IsLive, workerVars, countVars
<1>11. c = Main => KeepsStopping
  BY <1>1, <1>3, <1>5 DEF KeepsStopping, StopLabels, DrainLabels, workerVars
<1>12. Counting' /\ Ends' /\ Stopping'
  BY <1>2, <1>6, <1>10, <1>11, MoveCounts, MoveStops DEF MoveCounted
<1> QED  BY <1>2, <1>4, <1>6, <1>9, <1>12, MovePlaces DEF IInv, Kept

LEMMA MainResetKeeps ==
  ASSUME IInv, NEW w \in Workers, MainReset(w)
  PROVE  Kept
<1>1. PICK c \in Coros : c = cur[w] /\ c # None /\ pc[c] = "mReset"
  BY CurFacts DEF MainReset, Goto, At
<1>2. status[c] = "RUNNING" /\ c = Main /\ Fits(c) /\ OnThread(c)
  BY <1>1, CurFacts, Kinds DEF IInv
<1>3. /\ pc' = [pc EXCEPT ![c] = "wait"] /\ arg' = [arg EXCEPT ![c] = Program]
      /\ eventLock' = [eventLock EXCEPT ![Program] = c] /\ eventLock[Program] = None
      /\ happened_' = [happened_ EXCEPT ![Program] = FALSE]
      /\ UNCHANGED <<cur, workerVars, status, resolved, following, waitersLock_, countVars, launched>>
  BY <1>1, <1>2 DEF MainReset, Goto, boundVars
<1>4. Types'
  BY <1>3 DEF IInv, Types, workerVars
<1>5. /\ pc'[c] = "wait" /\ status'[c] = "RUNNING" /\ arg'[c] = Program /\ eventLock'[Program] = c
      /\ \A x \in Events : eventLock[x] \notin {None, c} => eventLock'[x] = eventLock[x]
      /\ \A d \in Cos : happened_'[d] = happened_[d]
  BY <1>2, <1>3, CorosFacts DEF IInv, Types
<1>6. Move(c)
  <2>1. Fits(c)'
    BY <1>1, <1>2, <1>3, <1>5, CorosFacts DEF Fits, MainFits
  <2> QED  BY <1>1, <1>3, <1>5, <2>1 DEF IInv, Types, Move, Stays, Switched, OnThread, workerVars
<1>7. MoveWaiting(c)
  BY <1>1, <1>2, <1>3, <1>5, CorosFacts DEF MoveWaiting, workerVars
<1>8. waiters_[w][Program] = None
  <2> SUFFICES ASSUME waiters_[w][Program] # None
               PROVE  FALSE
    OBVIOUS
  <2>1. PICK b \in Coros : b = waiters_[w][Program]
    BY CorosFacts DEF IInv, Types
  <2>2. arg[b] = Program /\ (status[b] = "BLOCKED" \/ pc[b] = "block")
    BY <2>1, CorosFacts DEF IInv, Sleepers, Sleeping
  <2>3. pc[b] = "block" => b = Main
    BY <2>2 DEF IInv, Waits
  <2>4. status[b] = "BLOCKED" => pc[b] = "to_mLock"
    BY <2>2 DEF IInv, Waits, After
  <2>5. status[b] = "BLOCKED" => b = Main
    <3>1. b \in Cos => CoFits(b)
      BY DEF IInv, Fitting, Fits
    <3>2. b \in Workers => LoopFits(b)
      BY DEF IInv, Fitting, Fits
    <3> QED  BY <2>4, <3>1, <3>2 DEF CoFits, LoopFits, LoopLabels, Coros
  <2> QED  BY <2>2, <2>3, <2>5, <1>1, <1>2
<1>9. Sleepers' /\ Waits' /\ Homes' /\ (Registered => Registered')
  BY <1>1, <1>2, <1>5, <1>6, <1>7, <1>8, WaitingKeeps
<1>10. MoveCounted(c)
  BY <1>1, <1>2, <1>3, <1>5, CorosFacts DEF MoveCounted, workerVars, countVars
<1>11. c = Main => KeepsStopping
  BY <1>1, <1>2, <1>3, <1>5 DEF KeepsStopping, StopLabels, DrainLabels, workerVars
<1>12. Counting' /\ Ends' /\ Stopping'
  BY <1>2, <1>6, <1>10, <1>11, MoveCounts, MoveStops DEF MoveCounted
<1> QED  BY <1>2, <1>4, <1>6, <1>9, <1>12, MovePlaces DEF IInv, Kept

LEMMA WaitForEventKeeps ==
  ASSUME IInv, NEW w \in Workers, WaitForEvent(w)
  PROVE  Kept
<1>1. PICK c \in Coros : c = cur[w] /\ c # None /\ pc[c] = "enter"
  BY CurFacts DEF WaitForEvent, Goto, At
<1>2. PICK e \in Events : e = arg[c] /\ (e = Program => c = Main) /\ eventLock[e] = c
  BY <1>1 DEF IInv, Waits
<1>3. status[c] = "RUNNING" /\ c \in Cos \cup {Main} /\ Fits(c) /\ OnThread(c)
  BY <1>1, CurFacts, Kinds DEF IInv
<1>4. /\ pc' = [pc EXCEPT ![c] = "block"] /\ waitersLock_' = [waitersLock_ EXCEPT ![w] = c]
      /\ eventLock' = [eventLock EXCEPT ![e] = None]
      /\ waiters_' = [waiters_ EXCEPT ![w][e] = IF waiters_[w][e] = None THEN c ELSE waiters_[w][e]]
      /\ UNCHANGED <<cur, runnables_, finalizationQueue_, active_, status, arg, eventVars, countVars, launched>>
  BY <1>1, <1>2 DEF WaitForEvent, Goto, boundVars
<1>5. waiters_' \in [Workers -> [Events -> Coros \cup {None}]]
  BY <1>4 DEF IInv, Types
<1>6. Types'
  BY <1>4, <1>5 DEF IInv, Types, eventVars
<1>7. /\ pc'[c] = "block" /\ status'[c] = "RUNNING" /\ arg'[c] = e /\ eventLock'[e] = None
      /\ waitersLock_'[w] = c /\ cur' = cur
      /\ \A x \in Events \ {e} : eventLock'[x] = eventLock[x]
      /\ \A v \in Workers \ {w} : waitersLock_'[v] = waitersLock_[v] /\ waiters_'[v] = waiters_[v]
      /\ \A x \in Events \ {e} : waiters_'[w][x] = waiters_[w][x]
      /\ waiters_[w][e] = None => waiters_'[w][e] = c
      /\ waiters_[w][e] # None => waiters_'[w][e] = waiters_[w][e]
  BY <1>2, <1>3, <1>4, CorosFacts DEF IInv, Types
<1>8. Move(c)
  <2>1. Fits(c)'
    BY <1>1, <1>3, <1>4, <1>7, CorosFacts DEF Fits, CoFits, MainFits, eventVars
  <2> QED  BY <1>1, <1>4, <1>7, <2>1 DEF IInv, Types, Move, Stays, Switched, OnThread, eventVars
<1>9. \A b \in Coros \ {c} : status'[b] = status[b] /\ pc'[b] = pc[b] /\ arg'[b] = arg[b]
  BY <1>8 DEF Move, Stays
<1>10. MoveCounted(c)
  BY <1>1, <1>3, <1>4, <1>7, CorosFacts DEF MoveCounted, IsLive, countVars
<1>11. c = Main => KeepsStopping
  BY <1>1, <1>4, <1>7 DEF KeepsStopping, StopLabels, DrainLabels
<1>12. Counting' /\ Ends' /\ Stopping'
  BY <1>3, <1>8, <1>10, <1>11, MoveCounts, MoveStops DEF MoveCounted
<1>13. \A v \in Workers, x \in Events : waiters_[v][x] # c
  BY <1>1, <1>3, CorosFacts DEF IInv, Sleepers, Sleeping
<1>14. \A v \in Workers, x \in Events :
         waiters_'[v][x] = waiters_[v][x] \/ (v = w /\ x = e /\ waiters_'[v][x] = c)
  BY <1>7
<1>15. Sleepers'
  <2>1. ASSUME NEW v \in Workers, NEW x \in Events
        PROVE  Sleeping(v, x)'
    <3> SUFFICES ASSUME waiters_'[v][x] # None
                 PROVE  Sleeping(v, x)'
      BY DEF Sleeping
    <3>1. CASE v = w /\ x = e /\ waiters_'[v][x] = c
      BY <3>1, <1>1, <1>7 DEF Sleeping
    <3>2. CASE waiters_'[v][x] = waiters_[v][x]
      <4>1. PICK b \in Coros : b = waiters_[v][x]
        BY <3>2 DEF IInv, Types
      <4>2. arg[b] = x /\ (status[b] = "BLOCKED" \/ (pc[b] = "block" /\ cur[v] = b))
        BY <3>2, <4>1 DEF IInv, Sleepers, Sleeping
      <4>3. b # c
        BY <4>1, <1>13
      <4>4. arg'[b] = x /\ (status'[b] = "BLOCKED" \/ (pc'[b] = "block" /\ cur'[v] = b))
        BY <4>2, <4>3, <1>7, <1>9
      <4> QED  BY <3>2, <4>1, <4>4 DEF Sleeping
    <3> QED  BY <3>1, <3>2, <1>14
  <2>2. \A u, v \in Workers, x \in Events :
          waiters_'[u][x] # None /\ waiters_'[u][x] = waiters_'[v][x] => u = v
    BY <1>13, <1>14 DEF IInv, Sleepers
  <2> QED  BY <2>1, <2>2 DEF Sleepers
<1>16. Waits'
  <2>1. \A b \in Coros : pc'[b] \in {"wait", "enter", "block"} =>
          arg'[b] \in Events /\ (arg'[b] = Program => b = Main)
    BY <1>2, <1>7, <1>9 DEF IInv, Waits
  <2>2. \A b \in Coros : pc'[b] \in {"wait", "enter"} =>
          /\ eventLock'[arg'[b]] = b
          /\ arg'[b] \in Cos /\ happened_'[arg'[b]] => pc'[b] = "wait" /\ arg'[b] \in following'
    BY <1>2, <1>4, <1>7, <1>9, CorosFacts DEF IInv, Waits, eventVars
  <2>3. \A v \in Workers : cur'[v] # None /\ pc'[cur'[v]] = "block" => waitersLock_'[v] = cur'[v]
    <3> SUFFICES ASSUME NEW v \in Workers, v # w, cur[v] # None, pc'[cur[v]] = "block"
                 PROVE  waitersLock_[v] = cur[v]
      BY <1>1, <1>7
    <3>1. cur[v] \in Coros \ {c}
      BY <1>1 DEF IInv, Types, Threads
    <3> QED  BY <3>1, <1>9 DEF IInv, Waits
  <2>4. \A b \in Coros : status'[b] = "BLOCKED" => arg'[b] \in Events /\ pc'[b] = After(arg'[b])
    BY <1>7, <1>9 DEF IInv, Waits
  <2>5. \A b \in Coros : pc'[b] \in {"unblock", "unblocking"} => arg'[b] \in {b, Program}
    BY <1>7, <1>9 DEF IInv, Waits
  <2> QED  BY <2>1, <2>2, <2>3, <2>4, <2>5 DEF Waits, After
<1>17. Homes'
  <2> SUFFICES ASSUME NEW v \in Workers, NEW b \in Workers \cup {Main},
                      NEW x \in Events, waiters_'[v][x] = b
               PROVE  v = Home(b)
    BY <1>4 DEF IInv, Homes, InQueue
  <2>1. CASE waiters_'[v][x] = waiters_[v][x]
    BY <2>1 DEF IInv, Homes
  <2>2. CASE v = w /\ waiters_'[v][x] = c
    BY <2>2, <1>1, <1>3, CurFacts, CorosFacts DEF Home
  <2> QED  BY <2>1, <2>2, <1>14
<1>18. ASSUME Registered
       PROVE  Registered'
  <2>1. \A b \in Coros : status'[b] = "BLOCKED" => \E v \in Workers : waiters_'[v][arg'[b]] = b
    <3> SUFFICES ASSUME NEW b \in Coros, status'[b] = "BLOCKED"
                 PROVE  \E v \in Workers : waiters_'[v][arg'[b]] = b
      OBVIOUS
    <3>1. b # c /\ status[b] = "BLOCKED" /\ arg'[b] = arg[b] /\ b # None
      BY <1>7, <1>9, CorosFacts
    <3>2. PICK v \in Workers : waiters_[v][arg[b]] = b
      BY <3>1, <1>18 DEF Registered
    <3>3. arg[b] \in Events
      BY <3>1 DEF IInv, Waits
    <3>4. waiters_'[v][arg[b]] = b
      BY <3>1, <3>2, <3>3, <1>7
    <3> QED  BY <3>1, <3>4
  <2>2. ASSUME NEW v \in Workers, cur'[v] # None
        PROVE  /\ pc'[cur'[v]] \in {"wait", "enter"} => waiters_'[v][arg'[cur'[v]]] = None
               /\ pc'[cur'[v]] = "block" => waiters_'[v][arg'[cur'[v]]] = cur'[v]
    <3>1. PICK b \in Coros : b = cur[v] /\ b = cur'[v]
      BY <2>2, <1>7 DEF IInv, Types
    <3>2. CASE v = w
      <4>1. waiters_[w][e] = None
        BY <1>1, <1>2, <1>18 DEF Registered
      <4> QED  BY <3>1, <3>2, <4>1, <1>1, <1>7
    <3>3. CASE v # w
      <4>1. b # c
        BY <3>1, <3>3, <1>1 DEF IInv, Threads
      <4> QED  BY <2>2, <3>1, <3>3, <4>1, <1>7, <1>9, <1>18 DEF Registered
    <3> QED  BY <3>2, <3>3
  <2> QED  BY <2>1, <2>2 DEF Registered
<1> QED  BY <1>3, <1>6, <1>8, <1>12, <1>15, <1>16, <1>17, <1>18, MovePlaces DEF IInv, Kept

-----------------------------------------------------------------------------
(* Steps that change several coroutines, or where one of them is.          *)

LEMMA ThreadsKept ==
  ASSUME Types, Threads, cur' = cur, \A c \in Coros : OnThread(c)' <=> OnThread(c)
  PROVE  Threads'
<1>1. \A w \in Workers : cur[w] # None => OnThread(cur[w])'
  <2> SUFFICES ASSUME NEW w \in Workers, cur[w] # None
               PROVE  OnThread(cur[w])'
    OBVIOUS
  <2>1. PICK c \in Coros : c = cur[w] /\ c = cur'[w]
    BY DEF Types
  <2>2. OnThread(c)'
    BY <2>1 DEF Threads
  <2> QED  BY <2>1, <2>2 DEF OnThread
<1> QED  BY <1>1 DEF Threads

LEMMA QueuesKept ==
  ASSUME Queues, runnables_' = runnables_, \A c \in Coros : Queued(c)' <=> Queued(c)
  PROVE  Queues'
BY DEF Queues, InQueue

\* A coroutine enters the queue of a worker.
LEMMA QueuesGrow ==
  ASSUME Types, Queues, NEW v \in Workers, NEW d \in Coros, ~Queued(d), Queued(d)',
         \A c \in Coros \ {d} : Queued(c)' <=> Queued(c),
         \A u \in Workers \ {v} : runnables_'[u] = runnables_[u],
         Elems(runnables_'[v]) = InQueue(v) \cup {d},
         d \notin InQueue(v) => NoDup(runnables_'[v])
  PROVE  Queues'
<1>1. \A u \in Workers : d \notin InQueue(u)
  BY DEF Queues
<1>2. \A u \in Workers : InQueue(u)' = IF u = v THEN InQueue(u) \cup {d} ELSE InQueue(u)
  BY DEF InQueue
<1>3. \A u \in Workers : NoDup(runnables_'[u])
  BY <1>1 DEF Queues
<1>4. \A u \in Workers, c \in Coros : c \in InQueue(u)' => Queued(c)'
  BY <1>2 DEF Queues
<1>5. \A u, x \in Workers, c \in Coros : c \in InQueue(u)' /\ c \in InQueue(x)' => u = x
  BY <1>1, <1>2 DEF Queues
<1>6. \A c \in Coros : Queued(c)' => \E u \in Workers : c \in InQueue(u)'
  BY <1>2 DEF Queues
<1> QED  BY <1>3, <1>4, <1>5, <1>6 DEF Queues

LEMMA DeadKept ==
  ASSUME Dead, finalizationQueue_' = finalizationQueue_, \A c \in Coros : Dying(c)' <=> Dying(c)
  PROVE  Dead'
BY DEF Dead

LEMMA SetInactiveKeeps ==
  ASSUME IInv, NEW w \in Workers, NEW v \in Workers, SetInactive(w, v)
  PROVE  Kept
<1>1. cur[w] # None /\ pc[cur[w]] = "mStopping"
  BY DEF SetInactive, At
<1>2. cur[w] = Main /\ pc[Main] = "mStopping" /\ status[Main] = "AWAIT_LOOP" /\ Fits(Main) /\ OnThread(Main)
  BY <1>1, CurFacts, Kinds DEF IInv, StopLabels
<1>3. /\ active_' = [active_ EXCEPT ![v] = FALSE] /\ pc' = Signalled(v, pc)
      /\ UNCHANGED <<cur, runnables_, waiters_, finalizationQueue_, status, arg, eventVars,
                     eventLock, waitersLock_, countVars, launched>>
  BY DEF SetInactive, lockVars, boundVars
<1>4. PICK c \in Coros :
        /\ OnThread(c) /\ Fits(c)
        /\ \/ c = v /\ pc[c] = "cvWait" /\ pc' = [pc EXCEPT ![c] = "cvWake"]
           \/ c = Main /\ pc' = pc
  <2>1. CASE pc[v] = "cvWait"
    <3>1. pc' = [pc EXCEPT ![v] = "cvWake"]
      BY <2>1, <1>3 DEF Signalled
    <3>2. LoopFits(v) /\ Fits(v)
      BY CorosFacts DEF IInv, Fitting, Fits
    <3>3. OnThread(v)
      BY <2>1, <3>2 DEF LoopFits, OnThread
    <3> QED  BY <2>1, <3>1, <3>2, <3>3, CorosFacts
  <2>2. CASE pc[v] # "cvWait"
    BY <2>2, <1>2, <1>3, CorosFacts DEF Signalled
  <2> QED  BY <2>1, <2>2
<1>5. Types'
  <2>1. pc' = [b \in Coros |-> pc'[b]]
    BY <1>4 DEF IInv, Types
  <2> QED  BY <1>3, <2>1 DEF IInv, Types, eventVars
<1>6. /\ \A b \in Coros \ {c} : pc'[b] = pc[b]
      /\ \/ c = v /\ pc[c] = "cvWait" /\ pc'[c] = "cvWake" /\ c \in Workers
         \/ c = Main /\ pc'[c] = "mStopping" /\ pc[c] = "mStopping"
  BY <1>2, <1>4 DEF IInv, Types
<1>7. Move(c)
  <2>1. Fits(c)'
    BY <1>3, <1>4, <1>6, CorosFacts DEF Fits, MainFits, LoopFits, LoopLabels
  <2>2. OnThread(c)'
    BY <1>2, <1>3, <1>4, <1>6 DEF OnThread
  <2> QED  BY <1>3, <1>6, <2>1, <2>2 DEF Move, Stays, Switched, eventVars
<1>8. MoveAwake(c)
  BY <1>3, <1>6 DEF MoveAwake, eventVars
<1>9. KeepsCounts
  BY <1>3, <1>6, CorosFacts DEF KeepsCounts, IsLive, IsLoop, IsUp, LoopLabels, countVars
<1>10. KeepsStopping
  BY <1>2, <1>6, CorosFacts DEF KeepsStopping, StopLabels, DrainLabels
<1>11. Counting' /\ Stopping'
  BY <1>9, <1>10, CountingKept, StoppingKept DEF IInv
<1>12. Ends'
  <2>1. \A u \in Workers : pc'[u] = "loopEnd" => ~active_'[u]
    <3>1. \A u \in Workers : active_'[u] = IF u = v THEN FALSE ELSE active_[u]
      BY <1>3 DEF IInv, Types
    <3> QED  BY <1>6, <3>1, CorosFacts DEF IInv, Ends
  <2> QED  BY <1>3, <1>9, <2>1 DEF IInv, Ends, KeepsCounts
<1> QED  BY <1>4, <1>5, <1>7, <1>8, <1>11, <1>12, MovePlaces, MoveWaits DEF IInv, Kept

LEMMA OnWorkerShutdownKeeps ==
  ASSUME IInv, NEW w \in Workers, OnWorkerShutdown(w)
  PROVE  Kept
<1>1. cur[w] # None /\ pc[cur[w]] = "shutdown"
  BY DEF OnWorkerShutdown, At
<1>2. cur[w] = w /\ pc[w] = "shutdown" /\ status[w] = "NONE" /\ w # MainWorker /\ w # Main
  BY <1>1, CurFacts, Kinds, CorosFacts DEF IInv
<1>3. PICK l : /\ l = pc[Main] \/ (pc[Main] = "mStopWait" /\ l = "mStopWake")
               /\ pc' = [pc EXCEPT ![w] = "none", ![Main] = l]
  <2>1. pc' = [pc EXCEPT ![w] = "none", ![Main] = IF pc[Main] = "mStopWait" THEN "mStopWake" ELSE pc[Main]]
    BY <1>2 DEF OnWorkerShutdown, IInv, Types
  <2> QED  BY <2>1
<1>4. /\ cur' = [cur EXCEPT ![w] = None] /\ activeWorkersCount_' = activeWorkersCount_ - 1
      /\ UNCHANGED <<workerVars, status, arg, eventVars, eventLock, waitersLock_, coroutineCount_, launched>>
  BY DEF OnWorkerShutdown, lockVars, boundVars
<1>5. Types'
  <2>1. pc' = [b \in Coros |-> pc'[b]]
    BY <1>3 DEF IInv, Types
  <2>2. cur' \in [Workers -> Coros \cup {None}]
    BY <1>4 DEF IInv, Types
  <2> QED  BY <1>4, <2>1, <2>2 DEF IInv, Types, workerVars, eventVars
<1>6. /\ pc'[w] = "none" /\ pc'[Main] = l /\ cur'[w] = None
      /\ \A b \in Coros \ {w, Main} : pc'[b] = pc[b]
      /\ \A v \in Workers \ {w} : cur'[v] = cur[v]
      /\ status' = status /\ arg' = arg
  BY <1>2, <1>3, <1>4, CorosFacts DEF IInv, Types
<1>7. l \in StopLabels /\ pc[Main] \in StopLabels /\ MainFits /\ (l # pc[Main] => status[Main] = "AWAIT_LOOP")
  <2>1. ~IsLoop(w)
    BY <1>2 DEF IsLoop, LoopLabels
  <2>2. pc[Main] \in StopLabels /\ MainFits
    BY <2>1, CorosFacts DEF IInv, Stopping, Fitting, Fits
  <2> QED  BY <2>2, <1>3 DEF MainFits, StopLabels
<1>8. Fitting'
  <2> SUFFICES ASSUME NEW b \in Coros
               PROVE  Fits(b)'
    BY DEF Fitting
  <2>1. CASE b \notin {w, Main}
    BY <2>1, <1>4, <1>6, FitsSame DEF IInv, Fitting, Stays, eventVars
  <2>2. CASE b = w
    BY <2>2, <1>2, <1>6, CorosFacts DEF Fits, LoopFits
  <2>3. CASE b = Main
    BY <2>3, <1>3, <1>6, <1>7, CorosFacts DEF Fits, MainFits
  <2> QED  BY <2>1, <2>2, <2>3
<1>9. /\ \A b \in Coros : OnThread(b)' <=> OnThread(b) /\ b # w
      /\ \A b \in Coros : (Queued(b)' <=> Queued(b)) /\ (Dying(b)' <=> Dying(b))
      /\ \A b \in Coros : Launching(b)' <=> Launching(b)
  <2>1. l # "none" /\ pc[Main] # "none" /\ l # "shutdown" /\ pc[Main] # "shutdown"
    BY <1>7 DEF StopLabels
  <2> QED  BY <2>1, <1>2, <1>6 DEF OnThread, Queued, Dying, Launching
<1>10. Threads'
  <2>1. \A v \in Workers : cur'[v] # None => v # w /\ cur'[v] = cur[v] /\ cur[v] \in Coros /\ cur[v] # w
    BY <1>2, <1>6 DEF IInv, Types, Threads
  <2>2. ASSUME NEW v \in Workers, cur'[v] # None
        PROVE  OnThread(cur[v])'
    <3>1. PICK b \in Coros : b = cur[v] /\ b = cur'[v] /\ b # w
      BY <2>1, <2>2
    <3>2. OnThread(b)'
      BY <2>2, <3>1, <1>9 DEF IInv, Threads
    <3> QED  BY <3>1, <3>2 DEF OnThread
  <2>3. \A u, v \in Workers : cur'[u] # None /\ cur'[u] = cur'[v] => u = v
    BY <2>1 DEF IInv, Threads
  <2>4. \A b \in Coros : OnThread(b)' => \E v \in Workers : cur'[v] = b
    BY <1>2, <1>6, <1>9 DEF IInv, Threads
  <2> QED  BY <2>2, <2>3, <2>4 DEF Threads
<1>11. Queues' /\ Dead'
  BY <1>4, <1>9, QueuesKept, DeadKept DEF IInv, workerVars
<1>12. Launches'
  <2>1. KeepsLaunches
    BY <1>2, <1>6, <1>7, <1>9 DEF KeepsLaunches, StopLabels
  <2> QED  BY <2>1, LaunchesKept DEF IInv
<1>13. KeepsWaits /\ waiters_' = waiters_
  <2>1. \A b \in Coros : pc'[b] # pc[b] => pc[b] # "block" /\ pc'[b] \notin {"wait", "enter", "block", "unblock", "unblocking"}
    BY <1>2, <1>6, <1>7 DEF StopLabels
  <2>2. \A b \in Coros : status[b] = "BLOCKED" => pc'[b] = pc[b]
    BY <1>2, <1>6, <1>7
  <2> QED  BY <2>1, <2>2, <1>2, <1>4, <1>6 DEF IInv, Waits, KeepsWaits, workerVars, eventVars
<1>14. Sleepers' /\ Waits' /\ (Registered => Registered')
  BY <1>13, WaitsKept, SleepersKept, RegisteredKept DEF IInv
<1>15. Homes'
  BY <1>4, <1>6, CorosFacts DEF IInv, Homes, InQueue, workerVars
<1>16. /\ \A d \in Cos : IsLive(d)' <=> IsLive(d)
       /\ \A v \in Workers : (IsLoop(v)' <=> IsLoop(v)) /\ (IsUp(v)' <=> IsUp(v) /\ v # w)
  BY <1>2, <1>6, CorosFacts DEF IsLive, IsLoop, IsUp, LoopLabels
<1>17. Counting'
  <2>1. Live' = Live /\ Loops' = Loops /\ Up' = Up \ {w} /\ w \in Up
    BY <1>2, <1>16 DEF Live, Loops, Up, IsUp
  <2>2. Cardinality(Up') = Cardinality(Up) - 1
    BY <2>1, FiniteSets, FS_RemoveElement
  <2> QED  BY <2>1, <2>2, <1>4 DEF IInv, Counting
<1>18. Stopping'
  BY <1>3, <1>6, <1>7, <1>16 DEF IInv, Stopping, StopLabels, DrainLabels
<1>19. Ends'
  <2>1. \A v \in Workers : pc'[v] = "loopEnd" => ~active_'[v]
    BY <1>4, <1>6, CorosFacts DEF IInv, Ends, workerVars
  <2>2. \A v \in Workers : ~IsLoop(v)' => cur'[v] \notin Cos
    BY <1>6, <1>16, CorosFacts DEF IInv, Ends
  <2>3. \A v \in Workers : cur'[v] = None <=> ~IsUp(v)'
    BY <1>6, <1>16 DEF IInv, Ends
  <2> QED  BY <2>1, <2>2, <2>3 DEF Ends
<1>20. Finalized'
  <2>1. \A v \in Workers \ {MainWorker} :
          (cur'[v] = v /\ pc'[v] # "to_loop") \/ cur'[v] = None => finalizationQueue_[v] = {}
    BY <1>2, <1>6, CorosFacts DEF IInv, Finalized
  <2>2. cur'[MainWorker] = Main /\ pc'[Main] \notin {"to_run", "to_mLock", "to_mDrain"} =>
          finalizationQueue_[MainWorker] = {}
    BY <1>2, <1>3, <1>6, CorosFacts DEF IInv, Finalized
  <2> QED  BY <2>1, <2>2, <1>4 DEF Finalized, workerVars
<1> QED  BY <1>5, <1>8, <1>10, <1>11, <1>12, <1>14, <1>15, <1>17, <1>18, <1>19, <1>20 DEF IInv, Kept

LEMMA ResumeKeeps ==
  ASSUME IInv, NEW w \in Workers, Resume(w)
  PROVE  Kept
<1> DEFINE F == finalizationQueue_[w]
<1>1. PICK c \in Coros, k \in Switched :
        c = cur[w] /\ c # None /\ pc[c] = k /\ pc' = [pc EXCEPT ![c] = Resumed[k]]
  <2>1. PICK k \in Switched : Goto(w, k, Resumed[k])
    BY ResumedFacts DEF Resume
  <2>2. cur[w] # None /\ pc[cur[w]] = k /\ pc' = [pc EXCEPT ![cur[w]] = Resumed[k]]
    BY <2>1 DEF Goto, At
  <2>3. cur[w] \in Coros
    BY <2>2, CurFacts
  <2> QED  BY <2>2, <2>3
<1>2. /\ status' = [b \in Coros |-> IF b \in F THEN "NONE" ELSE status[b]]
      /\ finalizationQueue_' = [finalizationQueue_ EXCEPT ![w] = {}]
      /\ UNCHANGED <<cur, runnables_, waiters_, active_, arg, eventVars, eventLock, waitersLock_, countVars, launched>>
  BY DEF Resume, lockVars, boundVars
<1>3. PICK l :
        /\ pc'[c] = l
        /\ \/ k = "to_run" /\ l = "run"
           \/ k = "to_mLock" /\ l = "mLock"
           \/ k = "to_mDrain" /\ l = "mDrain"
           \/ k = "to_loop" /\ l = "loop"
  BY <1>1, ResumedFacts DEF IInv, Types, Switched
<1>4. Types'
  BY <1>1, <1>2 DEF IInv, Types, eventVars
<1>5. Fits(c) /\ OnThread(c) /\ (c \in Workers => c = w) /\ (c = Main => w = MainWorker)
  BY <1>1, CurFacts
<1>6. \A b \in Coros : b \in F => Dying(b)
  BY DEF IInv, Dead
<1>7. c \notin F
  BY <1>5, <1>6 DEF OnThread, Dying
<1>8. /\ \A b \in Coros \ {c} : pc'[b] = pc[b]
      /\ \A b \in Coros : status'[b] = IF b \in F THEN "NONE" ELSE status[b]
      /\ status'[c] = status[c]
      /\ \A v \in Workers : finalizationQueue_'[v] = IF v = w THEN {} ELSE finalizationQueue_[v]
  BY <1>1, <1>2, <1>7 DEF IInv, Types
<1> HIDE DEF F
<1>9. Fitting'
  <2> SUFFICES ASSUME NEW b \in Coros
               PROVE  Fits(b)'
    BY DEF Fitting
  <2>1. CASE b = c
    BY <2>1, <1>1, <1>2, <1>3, <1>5, <1>8, CorosFacts DEF Fits, CoFits, MainFits, LoopFits, LoopLabels, Ending, OnThread, eventVars
  <2>2. CASE b # c /\ b \notin F
    BY <2>2, <1>2, <1>8, FitsSame DEF IInv, Fitting, Stays, eventVars
  <2>3. CASE b # c /\ b \in F
    <3>1. Dying(b) /\ Fits(b) /\ status'[b] = "NONE" /\ pc'[b] = pc[b]
      BY <2>3, <1>6, <1>8 DEF IInv, Fitting
    <3>2. b \in Cos => CoFits(b)'
      BY <3>1, <1>2 DEF Fits, CoFits, Dying, Ending, eventVars
    <3>3. b # Main
      BY <3>1 DEF Fits, MainFits, Dying
    <3>4. b \in Workers => LoopFits(b)'
      BY <3>1 DEF Fits, LoopFits, Dying
    <3> QED  BY <3>2, <3>3, <3>4 DEF Fits
  <2> QED  BY <2>1, <2>2, <2>3
<1>10. /\ \A b \in Coros : (OnThread(b)' <=> OnThread(b)) /\ (Queued(b)' <=> Queued(b))
       /\ \A b \in Coros : Dying(b)' <=> Dying(b) /\ b \notin F
       /\ \A b \in Coros : Launching(b)' <=> Launching(b)
  <2>1. l \notin {"none", "shutdown"} /\ k \notin {"none", "shutdown"}
    BY <1>3
  <2> QED  BY <2>1, <1>1, <1>3, <1>5, <1>6, <1>7, <1>8 DEF OnThread, Queued, Dying, Launching
<1>11. Threads' /\ Queues'
  BY <1>2, <1>10, ThreadsKept, QueuesKept DEF IInv
<1>12. Dead'
  <2>1. \A v \in Workers, b \in Coros : b \in finalizationQueue_'[v] => Dying(b)'
    BY <1>8, <1>10 DEF IInv, Dead, F
  <2>2. \A u, v \in Workers, b \in Coros : b \in finalizationQueue_'[u] /\ b \in finalizationQueue_'[v] => u = v
    BY <1>8 DEF IInv, Dead
  <2>3. \A b \in Coros : Dying(b)' => \E v \in Workers : b \in finalizationQueue_'[v]
    BY <1>8, <1>10 DEF IInv, Dead, F
  <2> QED  BY <2>1, <2>2, <2>3 DEF Dead
<1>13. Launches'
  <2>1. KeepsLaunches
    BY <1>1, <1>2, <1>3, <1>8, <1>10 DEF KeepsLaunches
  <2> QED  BY <2>1, LaunchesKept DEF IInv
<1>14. KeepsWaits /\ waiters_' = waiters_
  <2>1. \A b \in Coros : pc'[b] # pc[b] => pc[b] # "block" /\ pc'[b] \notin {"wait", "enter", "block", "unblock", "unblocking"}
    BY <1>1, <1>3, <1>8
  <2>2. \A b \in Coros : /\ status[b] = "BLOCKED" => pc'[b] = pc[b] /\ status'[b] = "BLOCKED"
                         /\ status'[b] = "BLOCKED" => status[b] = "BLOCKED"
    BY <1>5, <1>6, <1>8 DEF OnThread, Dying
  <2> QED  BY <2>1, <2>2, <1>2 DEF IInv, Waits, KeepsWaits, eventVars
<1>15. Sleepers' /\ Waits' /\ (Registered => Registered')
  BY <1>14, WaitsKept, SleepersKept, RegisteredKept DEF IInv
<1>16. Homes'
  BY <1>2, <1>8 DEF IInv, Homes, InQueue
<1>17. KeepsCounts
  <2>1. \A d \in Cos : IsLive(d)' <=> IsLive(d)
    BY <1>1, <1>3, <1>6, <1>8, CorosFacts DEF IsLive, Dying
  <2>2. \A v \in Workers : (IsLoop(v)' <=> IsLoop(v)) /\ (IsUp(v)' <=> IsUp(v))
    <3> SUFFICES ASSUME NEW v \in Workers, v = c
                 PROVE  (IsLoop(v)' <=> IsLoop(v)) /\ (IsUp(v)' <=> IsUp(v))
      BY <1>8, CorosFacts DEF IsLoop, IsUp
    <3>1. LoopFits(v)
      BY <1>5 DEF Fits
    <3> QED  BY <3>1, <1>1, <1>3 DEF IsLoop, IsUp, LoopFits, LoopLabels
  <2> QED  BY <2>1, <2>2, <1>2 DEF KeepsCounts, countVars
<1>18. KeepsStopping
  BY <1>1, <1>2, <1>3, <1>8, CorosFacts DEF KeepsStopping, StopLabels, DrainLabels
<1>19. Counting' /\ Stopping'
  BY <1>17, <1>18, CountingKept, StoppingKept DEF IInv
<1>20. Ends'
  <2>1. \A v \in Workers : pc'[v] = "loopEnd" => ~active_'[v]
    BY <1>2, <1>3, <1>8, CorosFacts DEF IInv, Ends
  <2> QED  BY <2>1, <1>2, <1>17 DEF IInv, Ends, KeepsCounts
<1>21. Finalized'
  <2>1. \A v \in Workers \ {MainWorker} :
          (cur[v] = v /\ pc'[v] # "to_loop") \/ cur[v] = None => finalizationQueue_'[v] = {}
    BY <1>1, <1>5, <1>8, CorosFacts DEF IInv, Finalized
  <2>2. cur[MainWorker] = Main /\ pc'[Main] \notin {"to_run", "to_mLock", "to_mDrain"} =>
          finalizationQueue_'[MainWorker] = {}
    BY <1>1, <1>5, <1>8, CorosFacts DEF IInv, Finalized
  <2> QED  BY <2>1, <2>2, <1>2 DEF Finalized
<1> QED  BY <1>4, <1>9, <1>11, <1>12, <1>13, <1>15, <1>16, <1>19, <1>20, <1>21 DEF IInv, Kept

LEMMA LaunchRegisterKeeps ==
  ASSUME IInv, NEW w \in Workers, LaunchRegister(w)
  PROVE  Kept
<1>1. PICK c \in Coros : c = cur[w] /\ c # None /\ pc[c] = "run"
  BY CurFacts DEF LaunchRegister, Goto, At
<1>2. status[c] = "RUNNING" /\ c \in Cos \cup {Main} /\ Fits(c) /\ OnThread(c)
  BY <1>1, CurFacts, Kinds DEF IInv
<1>3. PICK d \in Cos : d = launched + 1 /\ launched' = d
  BY CoroutinesAssumption DEF LaunchRegister, IInv, Types, Cos
<1>4. /\ pc' = [pc EXCEPT ![c] = "enqueue"] /\ status' = [status EXCEPT ![d] = "RUNNABLE"]
      /\ arg' = [arg EXCEPT ![c] = d] /\ coroutineCount_' = coroutineCount_ + 1
      /\ UNCHANGED <<cur, workerVars, eventVars, eventLock, waitersLock_, activeWorkersCount_>>
  BY <1>1, <1>3 DEF LaunchRegister, Goto, lockVars
<1>5. Types'
  <2>1. launched' \in 0 .. MaxLaunch
    BY <1>3, CoroutinesAssumption DEF Cos
  <2> QED  BY <1>4, <2>1 DEF IInv, Types, workerVars, eventVars
<1>6. /\ status[d] = "CREATED" /\ pc[d] = "none" /\ ~happened_[d]
      /\ launched \in Nat
  <2>1. CoFits(d) /\ launched \in Nat
    BY CorosFacts DEF IInv, Types, Fitting, Fits
  <2> QED  BY <2>1, <1>3 DEF CoFits, Cos
<1>7. /\ d # c /\ pc'[c] = "enqueue" /\ status'[c] = "RUNNING" /\ arg'[c] = d
      /\ pc'[d] = "none" /\ status'[d] = "RUNNABLE" /\ d \in Coros
      /\ \A b \in Coros \ {c} : pc'[b] = pc[b] /\ arg'[b] = arg[b]
      /\ \A b \in Coros \ {d} : status'[b] = status[b]
  BY <1>1, <1>2, <1>4, <1>6, CorosFacts DEF IInv, Types
<1>8. Fitting'
  <2> SUFFICES ASSUME NEW b \in Coros
               PROVE  Fits(b)'
    BY DEF Fitting
  <2>1. CASE b = d
    BY <2>1, <1>3, <1>4, <1>6, <1>7, CorosFacts DEF Fits, CoFits, eventVars, Cos
  <2>2. CASE b \in Cos /\ b # d
    <3>1. CoFits(b)
      BY <2>2 DEF IInv, Fitting, Fits
    <3>2. (b > launched => b > launched') /\ (b <= launched => b <= launched')
      BY <2>2, <1>3, <1>6 DEF Cos
    <3>3. CoFits(b)'
      BY <2>2, <3>1, <3>2, <1>1, <1>4, <1>7 DEF CoFits, eventVars, Ending
    <3> QED  BY <2>2, <3>3, CorosFacts DEF Fits
  <2>3. CASE b = Main
    <3>1. MainFits'
      BY <2>3, <1>1, <1>2, <1>3, <1>7, CorosFacts DEF IInv, Fitting, Fits, MainFits
    <3> QED  BY <2>3, <3>1, CorosFacts DEF Fits
  <2>4. CASE b \in Workers
    <3>1. LoopFits(b)'
      BY <2>4, <1>2, <1>3, <1>7, CorosFacts DEF IInv, Fitting, Fits, LoopFits
    <3> QED  BY <2>4, <3>1, CorosFacts DEF Fits
  <2> QED  BY <2>1, <2>2, <2>3, <2>4 DEF Coros
<1>9. /\ \A b \in Coros : (OnThread(b)' <=> OnThread(b)) /\ (Queued(b)' <=> Queued(b)) /\ (Dying(b)' <=> Dying(b))
      /\ \A b \in Coros : Launching(b)' <=> Launching(b) \/ b = d
      /\ ~Launching(d)
  BY <1>1, <1>2, <1>6, <1>7 DEF OnThread, Queued, Dying, Launching
<1>10. Threads' /\ Queues' /\ Dead'
  BY <1>4, <1>9, ThreadsKept, QueuesKept, DeadKept DEF IInv, workerVars
<1>11. Launches'
  <2>1. \A b \in Coros : pc'[b] = "enqueue" => b = c \/ (pc[b] = "enqueue" /\ arg'[b] = arg[b] /\ arg[b] # d)
    BY <1>7, <1>9 DEF IInv, Launches
  <2>2. \A b \in Coros : pc[b] = "enqueue" => pc'[b] = "enqueue" /\ arg'[b] = arg[b]
    BY <1>1, <1>7
  <2>3. \A b \in Coros : pc'[b] = "enqueue" =>
          arg'[b] \in Cos /\ status'[arg'[b]] = "RUNNABLE" /\ pc'[arg'[b]] = "none"
    <3> SUFFICES ASSUME NEW b \in Coros, b # c, pc'[b] = "enqueue"
                 PROVE  arg'[b] \in Cos /\ status'[arg'[b]] = "RUNNABLE" /\ pc'[arg'[b]] = "none"
      BY <1>7
    <3>1. arg'[b] = arg[b] /\ arg[b] \in Cos /\ Launching(arg[b])
      BY <2>1 DEF IInv, Launches
    <3>2. PICK x \in Cos : x = arg[b] /\ Launching(x) /\ Launching(x)'
      BY <3>1, <1>9, CorosFacts
    <3> QED  BY <3>1, <3>2 DEF Launching
  <2>4. \A a, b \in Coros : pc'[a] = "enqueue" /\ pc'[b] = "enqueue" /\ arg'[a] = arg'[b] => a = b
    BY <2>1, <1>7 DEF IInv, Launches
  <2>5. \A x \in Coros : Launching(x)' => \E b \in Coros : pc'[b] = "enqueue" /\ arg'[b] = x
    BY <2>2, <1>7, <1>9 DEF IInv, Launches
  <2> QED  BY <2>3, <2>4, <2>5 DEF Launches, Launching
<1>12. KeepsWaits /\ waiters_' = waiters_
  <2>1. \A b \in Coros : pc'[b] # pc[b] => pc[b] # "block" /\ pc'[b] \notin {"wait", "enter", "block", "unblock", "unblocking"}
    BY <1>1, <1>7
  <2>2. \A b \in Coros : /\ status[b] = "BLOCKED" => pc'[b] = pc[b] /\ status'[b] = "BLOCKED" /\ arg'[b] = arg[b]
                         /\ status'[b] = "BLOCKED" => status[b] = "BLOCKED"
    BY <1>2, <1>6, <1>7
  <2>3. \A b \in Coros : pc'[b] = "enqueue" \/ arg'[b] = arg[b]
    BY <1>7
  <2> QED  BY <2>1, <2>2, <2>3, <1>4 DEF IInv, Waits, KeepsWaits, eventVars, workerVars
<1>13. Sleepers' /\ Waits' /\ (Registered => Registered')
  BY <1>12, WaitsKept, SleepersKept, RegisteredKept DEF IInv
<1>14. Homes'
  BY <1>4 DEF IInv, Homes, InQueue, workerVars
<1>15. /\ \A b \in Cos : IsLive(b)' <=> IsLive(b) \/ b = d
       /\ ~IsLive(d)
       /\ \A v \in Workers : (IsLoop(v)' <=> IsLoop(v)) /\ (IsUp(v)' <=> IsUp(v)) /\ pc'[v] = pc[v]
  BY <1>1, <1>2, <1>6, <1>7, CorosFacts DEF IsLive, IsLoop, IsUp
<1>16. pc[Main] \notin StopLabels /\ pc'[Main] \notin StopLabels
  BY <1>1, <1>2, <1>7, CorosFacts DEF IInv, Stopping, IsLive, StopLabels
<1>17. Counting'
  <2>1. Live' = Live \cup {d} /\ Loops' = Loops /\ Up' = Up /\ d \notin Live
    BY <1>15 DEF Live, Loops, Up
  <2>2. Cardinality(Live') = Cardinality(Live) + 1
    BY <2>1, FiniteSets, FS_AddElement
  <2> QED  BY <2>1, <2>2, <1>4, FiniteSets DEF IInv, Counting
<1>18. Stopping'
  BY <1>4, <1>15, <1>16 DEF IInv, Stopping, StopLabels, DrainLabels, workerVars
<1>19. Ends'
  BY <1>4, <1>15 DEF IInv, Ends, workerVars
<1>20. Finalized'
  <2>1. c = Main => pc'[Main] = "enqueue" /\ pc[Main] = "run"
    BY <1>1, <1>7
  <2>2. c # Main => pc'[Main] = pc[Main]
    BY <1>7, CorosFacts
  <2> QED  BY <2>1, <2>2, <1>4, <1>15 DEF IInv, Finalized, workerVars
<1> QED  BY <1>5, <1>8, <1>10, <1>11, <1>13, <1>14, <1>17, <1>18, <1>19, <1>20 DEF IInv, Kept

\* A loop that is signalled or not stays a loop on its thread.
LoopGoesOn(v, m) ==
  /\ m \notin {"enqueue", "wait", "enter", "block", "unblock", "unblocking", "terminate", "run"}
  /\ pc[v] \notin {"enqueue", "wait", "enter", "block", "unblock", "unblocking", "terminate", "run"}
  /\ m # pc[v] => status[v] = "RUNNING"
  /\ m \in LoopLabels <=> pc[v] \in LoopLabels
  /\ m = "none" <=> pc[v] = "none"
  /\ m = "shutdown" <=> pc[v] = "shutdown"
  /\ m = "loopEnd" <=> pc[v] = "loopEnd"
  /\ m = "to_loop" <=> pc[v] = "to_loop"

LEMMA SignalledLoop ==
  ASSUME IInv, NEW v \in Workers, NEW m, m = pc[v] \/ (pc[v] = "cvWait" /\ m = "cvWake")
  PROVE  LoopGoesOn(v, m)
<1>1. LoopFits(v)
  BY CorosFacts DEF IInv, Fitting, Fits
<1> QED  BY <1>1 DEF LoopFits, LoopLabels, LoopGoesOn

LEMMA LaunchEnqueueKeeps ==
  ASSUME IInv, NEW w \in Workers, NEW v \in Workers, NEW front \in BOOLEAN, LaunchEnqueue(w, v, front)
  PROVE  Kept
<1>1. PICK c \in Coros : c = cur[w] /\ c # None /\ pc[c] = "enqueue"
  BY CurFacts DEF LaunchEnqueue, At
<1>2. status[c] = "RUNNING" /\ c \in Cos \cup {Main} /\ Fits(c) /\ OnThread(c) /\ c # v
  BY <1>1, CurFacts, Kinds, CorosFacts DEF IInv
<1>3. PICK d \in Cos : d = arg[c] /\ status[d] = "RUNNABLE" /\ pc[d] = "none"
  BY <1>1 DEF IInv, Launches, Launching
<1>4. /\ runnables_' = [runnables_ EXCEPT ![v] = IF front THEN <<d>> \o runnables_[v] ELSE Append(runnables_[v], d)]
      /\ pc' = Signalled(v, [pc EXCEPT ![c] = "run", ![d] = "run"])
      /\ arg' = [arg EXCEPT ![c] = None]
      /\ UNCHANGED <<cur, waiters_, finalizationQueue_, active_, status, eventVars,
                     eventLock, waitersLock_, countVars, launched>>
  BY <1>1, <1>3 DEF LaunchEnqueue, lockVars, boundVars
<1>5. PICK m : /\ m = pc[v] \/ (pc[v] = "cvWait" /\ m = "cvWake")
               /\ pc' = [pc EXCEPT ![c] = "run", ![d] = "run", ![v] = m]
  <2> DEFINE f == [pc EXCEPT ![c] = "run", ![d] = "run"]
  <2>1. f[v] = pc[v] /\ f = [f EXCEPT ![v] = pc[v]]
    <3>1. pc = [b \in Coros |-> pc[b]] /\ v \in Coros /\ v # c /\ v # d
      BY <1>2, CorosFacts DEF IInv, Types
    <3>2. f[v] = pc[v]
      BY <3>1
    <3>3. f = [f EXCEPT ![v] = f[v]]
      BY <3>1
    <3> QED  BY <3>2, <3>3
  <2>2. CASE pc[v] = "cvWait"
    BY <2>1, <2>2, <1>4 DEF Signalled
  <2>3. CASE pc[v] # "cvWait"
    BY <2>1, <2>3, <1>4 DEF Signalled
  <2> QED  BY <2>2, <2>3
<1>5a. LoopGoesOn(v, m)
  BY <1>5, SignalledLoop
<1>6. /\ runnables_[v] \in Seq(Coros) /\ d \in Coros /\ d # c /\ d # v
      /\ d # Main /\ d \notin Workers
  BY <1>1, <1>3, CorosFacts DEF IInv, Types
<1>7. /\ runnables_'[v] \in Seq(Coros)
      /\ Elems(runnables_'[v]) = InQueue(v) \cup {d}
      /\ NoDup(runnables_[v]) /\ d \notin InQueue(v) => NoDup(runnables_'[v])
      /\ \A u \in Workers \ {v} : runnables_'[u] = runnables_[u]
  <2>1. runnables_'[v] = IF front THEN <<d>> \o runnables_[v] ELSE Append(runnables_[v], d)
    BY <1>4 DEF IInv, Types
  <2>2. \A u \in Workers \ {v} : runnables_'[u] = runnables_[u]
    BY <1>4 DEF IInv, Types
  <2>3. CASE front
    BY <2>1, <2>2, <2>3, <1>6, ElemsFront DEF InQueue
  <2>4. CASE ~front
    BY <2>1, <2>2, <2>4, <1>6, ElemsAppend DEF InQueue
  <2> QED  BY <2>3, <2>4
<1>8. Types'
  <2>1. runnables_' \in [Workers -> Seq(Coros)]
    BY <1>4, <1>7 DEF IInv, Types
  <2>2. pc' = [b \in Coros |-> pc'[b]] /\ arg' = [b \in Coros |-> arg'[b]]
    BY <1>4, <1>5 DEF IInv, Types
  <2> QED  BY <1>4, <2>1, <2>2 DEF IInv, Types, eventVars
<1>9. /\ pc'[c] = "run" /\ pc'[d] = "run" /\ pc'[v] = m /\ arg'[c] = None
      /\ \A b \in Coros \ {c, d, v} : pc'[b] = pc[b]
      /\ \A b \in Coros \ {c} : arg'[b] = arg[b]
      /\ status' = status
  BY <1>2, <1>4, <1>5, <1>6, CorosFacts DEF IInv, Types
<1>10. Fitting'
  <2> SUFFICES ASSUME NEW b \in Coros
               PROVE  Fits(b)'
    BY DEF Fitting
  <2>1. Fits(b)
    BY DEF IInv, Fitting
  <2>2. CASE b \notin {c, d, v}
    BY <2>1, <2>2, <1>4, <1>9, FitsSame DEF Stays, eventVars
  <2>3. CASE b = c
    BY <2>1, <2>3, <1>1, <1>2, <1>4, <1>9, CorosFacts DEF Fits, CoFits, MainFits, eventVars, Ending
  <2>4. CASE b = d
    BY <2>1, <2>4, <1>3, <1>4, <1>6, <1>9 DEF Fits, CoFits, eventVars
  <2>5. CASE b = v
    BY <2>1, <2>5, <1>5, <1>9, CorosFacts DEF Fits, LoopFits, LoopLabels
  <2> QED  BY <2>2, <2>3, <2>4, <2>5
<1>11. /\ \A b \in Coros : (OnThread(b)' <=> OnThread(b)) /\ (Dying(b)' <=> Dying(b))
       /\ \A b \in Coros \ {d} : Queued(b)' <=> Queued(b)
       /\ ~Queued(d) /\ Queued(d)'
       /\ \A b \in Coros : Launching(b)' <=> Launching(b) /\ b # d
  <2>1. ASSUME NEW b \in Coros \ {d}
        PROVE  /\ OnThread(b)' <=> OnThread(b)
               /\ Dying(b)' <=> Dying(b)
               /\ Queued(b)' <=> Queued(b)
               /\ Launching(b)' <=> Launching(b)
    <3>1. CASE b = c
      BY <3>1, <1>1, <1>2, <1>9 DEF OnThread, Queued, Dying, Launching
    <3>2. CASE b = v
      BY <3>2, <1>9, <1>5a DEF OnThread, Queued, Dying, Launching, LoopGoesOn
    <3>3. CASE b \notin {c, v}
      BY <3>3, <1>9 DEF OnThread, Queued, Dying, Launching
    <3> QED  BY <3>1, <3>2, <3>3
  <2>2. /\ ~OnThread(d) /\ ~OnThread(d)' /\ ~Dying(d) /\ ~Dying(d)'
        /\ ~Queued(d) /\ Queued(d)' /\ ~Launching(d)'
    BY <1>3, <1>9 DEF OnThread, Queued, Dying, Launching
  <2> QED  BY <2>1, <2>2
<1>12. Threads' /\ Dead'
  BY <1>4, <1>11, ThreadsKept, DeadKept DEF IInv
<1>13. Queues'
  <2>1. NoDup(runnables_[v])
    BY DEF IInv, Queues
  <2> QED  BY <2>1, <1>6, <1>7, <1>11, QueuesGrow DEF IInv
<1>14. Launches'
  <2>1. \A b \in Coros : pc'[b] = "enqueue" => pc[b] = "enqueue" /\ b # c /\ arg'[b] = arg[b] /\ arg[b] # d
    BY <1>1, <1>3, <1>5, <1>9, <1>5a DEF IInv, Launches, LoopGoesOn
  <2>2. \A b \in Coros : pc[b] = "enqueue" /\ b # c => pc'[b] = "enqueue" /\ arg'[b] = arg[b]
    BY <1>3, <1>5, <1>9, <1>5a DEF LoopGoesOn
  <2>3. \A b \in Coros : pc'[b] = "enqueue" =>
          arg'[b] \in Cos /\ status'[arg'[b]] = "RUNNABLE" /\ pc'[arg'[b]] = "none"
    <3> SUFFICES ASSUME NEW b \in Coros, pc'[b] = "enqueue"
                 PROVE  arg'[b] \in Cos /\ status'[arg'[b]] = "RUNNABLE" /\ pc'[arg'[b]] = "none"
      OBVIOUS
    <3>1. arg'[b] = arg[b] /\ arg[b] \in Cos /\ Launching(arg[b]) /\ arg[b] # d
      BY <2>1 DEF IInv, Launches
    <3>2. PICK x \in Cos : x = arg[b] /\ Launching(x)'
      BY <3>1, <1>11, CorosFacts
    <3> QED  BY <3>1, <3>2 DEF Launching
  <2>4. \A a, b \in Coros : pc'[a] = "enqueue" /\ pc'[b] = "enqueue" /\ arg'[a] = arg'[b] => a = b
    BY <2>1 DEF IInv, Launches
  <2>5. \A x \in Coros : Launching(x)' => \E b \in Coros : pc'[b] = "enqueue" /\ arg'[b] = x
    BY <2>2, <1>1, <1>3, <1>11 DEF IInv, Launches
  <2> QED  BY <2>3, <2>4, <2>5 DEF Launches, Launching
<1>15. KeepsWaits /\ waiters_' = waiters_
  <2>1. \A b \in Coros : pc'[b] # pc[b] => pc[b] # "block" /\ pc'[b] \notin {"wait", "enter", "block", "unblock", "unblocking"}
    <3> SUFFICES ASSUME NEW b \in Coros, pc'[b] # pc[b]
                 PROVE  pc[b] # "block" /\ pc'[b] \notin {"wait", "enter", "block", "unblock", "unblocking"}
      OBVIOUS
    <3>1. b = c \/ b = d \/ b = v
      BY <1>9
    <3>2. CASE b = c
      BY <3>2, <1>1, <1>9
    <3>3. CASE b = d
      BY <3>3, <1>3, <1>9
    <3>4. CASE b = v /\ b # c /\ b # d
      BY <3>4, <1>5, <1>9, <1>5a DEF LoopGoesOn
    <3> QED  BY <3>1, <3>2, <3>3, <3>4
  <2>2. \A b \in Coros : /\ status'[b] = "BLOCKED" <=> status[b] = "BLOCKED"
                         /\ status[b] = "BLOCKED" => pc'[b] = pc[b] /\ arg'[b] = arg[b]
    BY <1>2, <1>3, <1>5, <1>9, <1>5a DEF LoopGoesOn
  <2>3. \A b \in Coros : pc'[b] = "run" \/ arg'[b] = arg[b]
    BY <1>9
  <2> QED  BY <2>1, <2>2, <2>3, <1>4 DEF IInv, Waits, KeepsWaits, eventVars
<1>16. Sleepers' /\ Waits' /\ (Registered => Registered')
  BY <1>15, WaitsKept, SleepersKept, RegisteredKept DEF IInv
<1>17. Homes'
  <2>1. \A u \in Workers, b \in Workers \cup {Main} : b \in InQueue(u)' => b \in InQueue(u)
    BY <1>6, <1>7 DEF InQueue
  <2> QED  BY <2>1, <1>4 DEF IInv, Homes
<1>18. KeepsCounts
  <2>1. \A b \in Cos : IsLive(b)' <=> IsLive(b)
    BY <1>1, <1>2, <1>3, <1>9, CorosFacts DEF IsLive
  <2>2. ASSUME NEW u \in Workers
        PROVE  (IsLoop(u)' <=> IsLoop(u)) /\ (IsUp(u)' <=> IsUp(u))
    <3>1. u # c /\ u # d /\ u \in Coros
      BY <1>2, <1>6, CorosFacts
    <3>2. CASE u = v
      BY <3>2, <1>9, <1>5a DEF IsLoop, IsUp, LoopGoesOn
    <3>3. CASE u # v
      BY <3>1, <3>3, <1>9 DEF IsLoop, IsUp
    <3> QED  BY <3>2, <3>3
  <2> QED  BY <2>1, <2>2, <1>4 DEF KeepsCounts, countVars
<1>19. KeepsStopping
  BY <1>1, <1>4, <1>6, <1>9, CorosFacts DEF KeepsStopping, StopLabels, DrainLabels
<1>20. Counting' /\ Stopping'
  BY <1>18, <1>19, CountingKept, StoppingKept DEF IInv
<1>21. Ends'
  <2>1. \A u \in Workers : pc'[u] = "loopEnd" => ~active_'[u]
    BY <1>2, <1>4, <1>5, <1>6, <1>9, CorosFacts, <1>5a DEF IInv, Ends, LoopGoesOn
  <2> QED  BY <2>1, <1>4, <1>18 DEF IInv, Ends, KeepsCounts
<1>22. Finalized'
  <2>1. c = Main => pc'[Main] = "run" /\ pc[Main] = "enqueue"
    BY <1>1, <1>9
  <2>2. c # Main => pc'[Main] = pc[Main]
    BY <1>6, <1>9, CorosFacts
  <2>3. \A u \in Workers : pc'[u] # "to_loop" => pc[u] # "to_loop"
    BY <1>2, <1>5, <1>6, <1>9, CorosFacts, <1>5a DEF LoopGoesOn
  <2> QED  BY <2>1, <2>2, <2>3, <1>4 DEF IInv, Finalized
<1> QED  BY <1>8, <1>10, <1>12, <1>13, <1>14, <1>16, <1>17, <1>20, <1>21, <1>22 DEF IInv, Kept

LEMMA UnblockWaitersKeeps ==
  ASSUME IInv, NEW w \in Workers, NEW v \in Workers, UnblockWaiters(w, v)
  PROVE  Kept
<1>1. PICK c \in Coros : c = cur[w] /\ c # None /\ pc[c] = "unblocking"
  BY CurFacts DEF UnblockWaiters, At
<1>2. PICK e \in Events : e = arg[c]
  BY <1>1, CurFacts, Kinds, CorosFacts DEF IInv, Waits, Ending
<1>3. /\ waitersLock_[v] = None
      /\ UNCHANGED <<cur, finalizationQueue_, active_, eventVars, eventLock, waitersLock_, countVars, launched>>
  BY DEF UnblockWaiters, lockVars, boundVars
<1>4. CASE waiters_[v][e] = None
  <2>1. UNCHANGED <<waiters_, runnables_, status, pc, arg>>
    BY <1>1, <1>2, <1>4 DEF UnblockWaiters
  <2>2. Types' /\ Fitting'
    <3>1. Types'
      BY <2>1, <1>3 DEF IInv, Types, eventVars
    <3>2. \A b \in Coros : Fits(b)'
      BY <2>1, <1>3, FitsSame DEF IInv, Fitting, Stays, eventVars
    <3> QED  BY <3>1, <3>2 DEF Fitting
  <2>3. Threads' /\ Queues' /\ Dead' /\ Launches'
    BY <2>1, <1>3 DEF IInv, Threads, Queues, Dead, Launches, OnThread, Queued, Dying, Launching, InQueue
  <2>4. Sleepers' /\ Waits' /\ Homes' /\ (Registered => Registered')
    BY <2>1, <1>3 DEF IInv, Sleepers, Sleeping, Waits, Homes, InQueue, Registered, eventVars
  <2>5. Counting' /\ Stopping' /\ Ends' /\ Finalized'
    BY <2>1, <1>3 DEF IInv, Counting, Live, Loops, Up, Stopping, Ends, Finalized, IsLive, IsLoop, IsUp, countVars
  <2> QED  BY <2>2, <2>3, <2>4, <2>5 DEF IInv, Kept
<1>5. CASE waiters_[v][e] # None
  <2>1. PICK d \in Coros : d = waiters_[v][e] /\ d # None
    BY <1>5 DEF IInv, Types
  <2>2. /\ waiters_' = [waiters_ EXCEPT ![v][e] = None]
        /\ runnables_' = [runnables_ EXCEPT ![v] = Append(runnables_[v], d)]
        /\ status' = [status EXCEPT ![d] = "RUNNABLE"]
        /\ pc' = Signalled(v, pc)
        /\ arg' = [arg EXCEPT ![d] = None]
    BY <1>1, <1>2, <1>5, <2>1 DEF UnblockWaiters
  <2>3. arg[d] = e /\ status[d] = "BLOCKED"
    <3>1. arg[d] = e /\ (status[d] = "BLOCKED" \/ (pc[d] = "block" /\ cur[v] = d))
      BY <2>1 DEF IInv, Sleepers, Sleeping
    <3> QED  BY <3>1, <2>1, <1>3 DEF IInv, Waits
  <2>4. /\ pc[d] \in {"to_run", "to_mLock"} /\ d \in Cos \cup {Main} /\ d \notin Workers
        /\ d \in Cos => pc[d] = "to_run" /\ d <= launched /\ ~happened_[d]
    <3>1. d \in Cos => CoFits(d)
      BY DEF IInv, Fitting, Fits
    <3>2. d = Main => MainFits
      BY DEF IInv, Fitting, Fits
    <3>3. d \in Workers => LoopFits(d)
      BY DEF IInv, Fitting, Fits
    <3> QED  BY <2>3, <3>1, <3>2, <3>3, CorosFacts DEF CoFits, MainFits, LoopFits, LoopLabels, Coros
  <2>5. PICK m : /\ m = pc[v] \/ (pc[v] = "cvWait" /\ m = "cvWake")
                 /\ pc' = [pc EXCEPT ![v] = m]
    <3>1. pc = [pc EXCEPT ![v] = pc[v]]
      BY CorosFacts DEF IInv, Types
    <3> QED  BY <2>2, <3>1 DEF Signalled
  <2>5a. LoopGoesOn(v, m)
    BY <2>5, SignalledLoop
  <2>6. /\ runnables_'[v] = Append(runnables_[v], d)
        /\ \A u \in Workers \ {v} : runnables_'[u] = runnables_[u]
        /\ runnables_[v] \in Seq(Coros)
    BY <2>2 DEF IInv, Types
  <2>7. /\ runnables_'[v] \in Seq(Coros)
        /\ Elems(runnables_'[v]) = InQueue(v) \cup {d}
        /\ NoDup(runnables_[v]) /\ d \notin InQueue(v) => NoDup(runnables_'[v])
    BY <2>6, ElemsAppend DEF InQueue
  <2>8. Types'
    <3>1. runnables_' \in [Workers -> Seq(Coros)]
      <4>1. runnables_ \in [Workers -> Seq(Coros)] /\ Append(runnables_[v], d) \in Seq(Coros)
        BY <2>6, <2>7 DEF IInv, Types
      <4> QED  BY <4>1, <2>2
    <3>2. pc' = [b \in Coros |-> pc'[b]]
      BY <2>5 DEF IInv, Types
    <3>3. arg' = [b \in Coros |-> arg'[b]] /\ status' = [b \in Coros |-> status'[b]]
      BY <2>2 DEF IInv, Types
    <3>4. waiters_' \in [Workers -> [Events -> Coros \cup {None}]]
      <4>1. waiters_ \in [Workers -> [Events -> Coros \cup {None}]]
        BY DEF IInv, Types
      <4> QED  BY <4>1, <2>2
    <3>5. /\ cur' \in [Workers -> Coros \cup {None}]
          /\ finalizationQueue_' \in [Workers -> SUBSET Coros]
          /\ active_' = [u \in Workers |-> active_'[u]]
          /\ launched' \in 0 .. MaxLaunch
      BY <1>3 DEF IInv, Types
    <3>6. /\ happened_' = [x \in Events |-> happened_'[x]] /\ resolved' = [x \in Cos |-> resolved'[x]]
          /\ eventLock' = [x \in Events |-> eventLock'[x]]
          /\ waitersLock_' = [u \in Workers |-> waitersLock_'[u]]
      <4>1. happened_' = happened_ /\ resolved' = resolved /\ eventLock' = eventLock /\ waitersLock_' = waitersLock_
        BY <1>3 DEF eventVars
      <4>2. /\ happened_ = [x \in Events |-> happened_[x]] /\ resolved = [x \in Cos |-> resolved[x]]
            /\ eventLock = [x \in Events |-> eventLock[x]]
            /\ waitersLock_ = [u \in Workers |-> waitersLock_[u]]
        BY DEF IInv, Types
      <4>3. \A f, x, g : f = [y \in x |-> f[y]] /\ g = f => g = [y \in x |-> g[y]]
        OBVIOUS
      <4> QED  BY <4>1, <4>2, <4>3
    <3> QED  BY <3>1, <3>2, <3>3, <3>4, <3>5, <3>6 DEF Types
  <2>9. /\ pc'[v] = m /\ \A b \in Coros \ {v} : pc'[b] = pc[b]
        /\ status'[d] = "RUNNABLE" /\ arg'[d] = None
        /\ \A b \in Coros \ {d} : status'[b] = status[b] /\ arg'[b] = arg[b]
    <3>1. /\ pc = [b \in Coros |-> pc[b]] /\ status = [b \in Coros |-> status[b]]
          /\ arg = [b \in Coros |-> arg[b]] /\ v \in Coros
      BY CorosFacts DEF IInv, Types
    <3>2. pc'[v] = m /\ \A b \in Coros \ {v} : pc'[b] = pc[b]
      BY <3>1, <2>5
    <3>3. status'[d] = "RUNNABLE" /\ arg'[d] = None
      BY <3>1, <2>2
    <3>4. \A b \in Coros \ {d} : status'[b] = status[b] /\ arg'[b] = arg[b]
      BY <3>1, <2>2
    <3> QED  BY <3>2, <3>3, <3>4
  <2>10. /\ waiters_'[v][e] = None
         /\ \A u \in Workers, x \in Events : u # v \/ x # e => waiters_'[u][x] = waiters_[u][x]
    BY <2>2 DEF IInv, Types
  <2>11. Fitting'
    <3> SUFFICES ASSUME NEW b \in Coros
                 PROVE  Fits(b)'
      BY DEF Fitting
    <3>1. Fits(b)
      BY DEF IInv, Fitting
    <3>2. CASE b \notin {d, v}
      BY <3>1, <3>2, <1>3, <2>9, FitsSame DEF Stays, eventVars
    <3>3. CASE b = d
      BY <3>3, <1>3, <2>4, <2>9, CorosFacts DEF Fits, CoFits, MainFits, eventVars
    <3>4. CASE b = v /\ b # d
      BY <3>1, <3>4, <2>5, <2>9, CorosFacts DEF Fits, LoopFits, LoopLabels
    <3> QED  BY <3>2, <3>3, <3>4
  <2>12. /\ \A b \in Coros : (OnThread(b)' <=> OnThread(b)) /\ (Dying(b)' <=> Dying(b))
         /\ \A b \in Coros \ {d} : Queued(b)' <=> Queued(b)
         /\ ~Queued(d) /\ Queued(d)'
         /\ \A b \in Coros : Launching(b)' <=> Launching(b)
    BY <2>3, <2>4, <2>5, <2>9, <2>5a DEF OnThread, Queued, Dying, Launching, LoopGoesOn
  <2>13. Threads' /\ Dead'
    BY <1>3, <2>12, ThreadsKept, DeadKept DEF IInv
  <2>14. Queues'
    <3>1. NoDup(runnables_[v])
      BY DEF IInv, Queues
    <3> QED  BY <3>1, <2>6, <2>7, <2>12, QueuesGrow DEF IInv
  <2>15. Launches'
    <3>1. KeepsLaunches
      BY <2>4, <2>5, <2>9, <2>12, <2>5a DEF KeepsLaunches, LoopGoesOn
    <3> QED  BY <3>1, LaunchesKept DEF IInv
  <2>16. /\ \A b \in Coros : pc'[b] \in {"wait", "enter", "block", "unblock", "unblocking"} =>
              b # d /\ pc'[b] = pc[b] /\ arg'[b] = arg[b]
         /\ \A b \in Coros : pc[b] = "block" => pc'[b] = "block"
         /\ \A b \in Coros : status'[b] = "BLOCKED" =>
              b # d /\ status[b] = "BLOCKED" /\ arg'[b] = arg[b] /\ pc'[b] = pc[b]
    BY <2>4, <2>5, <2>9, <2>5a DEF LoopGoesOn
  <2>17. Waits'
    <3>1. \A b \in Coros : pc'[b] \in {"wait", "enter", "block"} =>
            arg'[b] \in Events /\ (arg'[b] = Program => b = Main)
      BY <2>16 DEF IInv, Waits
    <3>2. \A b \in Coros : pc'[b] \in {"wait", "enter"} =>
            /\ eventLock'[arg'[b]] = b
            /\ arg'[b] \in Cos /\ happened_'[arg'[b]] => pc'[b] = "wait" /\ arg'[b] \in following'
      BY <1>3, <2>16 DEF IInv, Waits, eventVars
    <3>3. \A u \in Workers : cur'[u] # None /\ pc'[cur'[u]] = "block" => waitersLock_'[u] = cur'[u]
      <4> SUFFICES ASSUME NEW u \in Workers, cur[u] # None, pc'[cur[u]] = "block"
                   PROVE  waitersLock_[u] = cur[u]
        BY <1>3
      <4>1. cur[u] \in Coros
        BY DEF IInv, Types
      <4> QED  BY <4>1, <2>16 DEF IInv, Waits
    <3>4. \A b \in Coros : status'[b] = "BLOCKED" => arg'[b] \in Events /\ pc'[b] = After(arg'[b])
      BY <2>16 DEF IInv, Waits
    <3>5. \A b \in Coros : pc'[b] \in {"unblock", "unblocking"} => arg'[b] \in {b, Program}
      BY <2>16 DEF IInv, Waits
    <3> QED  BY <3>1, <3>2, <3>3, <3>4, <3>5 DEF Waits, After
  <2>18. Sleepers'
    <3>1. ASSUME NEW u \in Workers, NEW x \in Events
          PROVE  Sleeping(u, x)'
      <4> SUFFICES ASSUME waiters_'[u][x] # None
                   PROVE  Sleeping(u, x)'
        BY DEF Sleeping
      <4>1. waiters_'[u][x] = waiters_[u][x] /\ (u # v \/ x # e)
        BY <2>10
      <4>2. PICK b \in Coros : b = waiters_[u][x]
        BY <4>1 DEF IInv, Types
      <4>3. arg[b] = x /\ (status[b] = "BLOCKED" \/ (pc[b] = "block" /\ cur[u] = b))
        BY <4>1, <4>2 DEF IInv, Sleepers, Sleeping
      <4>4. b # d
        <5> SUFFICES ASSUME b = d  PROVE FALSE
          OBVIOUS
        <5>1. x = e
          BY <4>3, <2>3
        <5>2. waiters_[u][e] # None /\ waiters_[u][e] = waiters_[v][e]
          BY <5>1, <4>1, <4>2, <2>1
        <5>3. u = v
          BY <5>2 DEF IInv, Sleepers
        <5> QED  BY <5>1, <5>3, <4>1
      <4>5. pc[b] = "block" => pc'[b] = "block"
        BY <2>16
      <4>6. arg'[b] = x /\ (status'[b] = "BLOCKED" \/ (pc'[b] = "block" /\ cur'[u] = b))
        BY <4>3, <4>4, <4>5, <2>9, <1>3
      <4> QED  BY <4>1, <4>2, <4>6 DEF Sleeping
    <3>2. \A t, u \in Workers, x \in Events :
            waiters_'[t][x] # None /\ waiters_'[t][x] = waiters_'[u][x] => t = u
      BY <2>10 DEF IInv, Sleepers
    <3> QED  BY <3>1, <3>2 DEF Sleepers
  <2>19. ASSUME Registered
         PROVE  Registered'
    <3>1. \A b \in Coros : status'[b] = "BLOCKED" => \E u \in Workers : waiters_'[u][arg'[b]] = b
      <4> SUFFICES ASSUME NEW b \in Coros, status'[b] = "BLOCKED"
                   PROVE  \E u \in Workers : waiters_'[u][arg'[b]] = b
        OBVIOUS
      <4>1. b # d /\ status[b] = "BLOCKED" /\ arg'[b] = arg[b]
        BY <2>16
      <4>2. PICK u \in Workers : waiters_[u][arg[b]] = b
        BY <4>1, <2>19 DEF Registered
      <4>3. arg[b] \in Events /\ (u # v \/ arg[b] # e)
        BY <4>1, <4>2, <2>1 DEF IInv, Waits
      <4>4. waiters_'[u][arg[b]] = b
        BY <4>2, <4>3, <2>10
      <4> QED  BY <4>1, <4>4
    <3>2. ASSUME NEW u \in Workers, cur'[u] # None
          PROVE  /\ pc'[cur'[u]] \in {"wait", "enter"} => waiters_'[u][arg'[cur'[u]]] = None
                 /\ pc'[cur'[u]] = "block" => waiters_'[u][arg'[cur'[u]]] = cur'[u]
      <4>1. PICK b \in Coros : b = cur[u] /\ b = cur'[u]
        BY <3>2, <1>3 DEF IInv, Types
      <4>2. CASE pc'[b] \in {"wait", "enter"}
        <5>1. pc[b] = pc'[b] /\ arg'[b] = arg[b] /\ arg[b] \in Events
          BY <4>2, <2>16 DEF IInv, Waits
        <5>2. waiters_[u][arg[b]] = None
          BY <4>1, <4>2, <5>1, <3>2, <2>19 DEF Registered
        <5> QED  BY <4>1, <4>2, <5>1, <5>2, <2>10
      <4>3. CASE pc'[b] = "block"
        <5>1. pc[b] = "block" /\ arg'[b] = arg[b] /\ arg[b] \in Events /\ b # d
          BY <4>3, <2>16 DEF IInv, Waits
        <5>2. waiters_[u][arg[b]] = b
          BY <4>1, <5>1, <3>2, <2>19 DEF Registered
        <5>3. u # v \/ arg[b] # e
          BY <5>1, <5>2, <2>1
        <5> QED  BY <4>1, <4>3, <5>1, <5>2, <5>3, <2>10
      <4> QED  BY <4>1, <4>2, <4>3
    <3> QED  BY <3>1, <3>2 DEF Registered
  <2>20. Homes'
    <3>1. \A u \in Workers, b \in Workers \cup {Main} : b \in InQueue(u)' => b \in InQueue(u) \/ (u = v /\ b = d)
      BY <2>6, <2>7 DEF InQueue
    <3>2. \A u \in Workers, x \in Events, b \in Workers \cup {Main} : waiters_'[u][x] = b => waiters_[u][x] = b
      BY <2>10, CorosFacts
    <3>3. d \in Workers \cup {Main} => v = Home(d)
      BY <2>1 DEF IInv, Homes
    <3> QED  BY <3>1, <3>2, <3>3, <1>3 DEF IInv, Homes
  <2>21. KeepsCounts
    <3>1. \A b \in Cos : IsLive(b)' <=> IsLive(b)
      BY <2>3, <2>9, CorosFacts DEF IsLive
    <3>2. \A u \in Workers : (IsLoop(u)' <=> IsLoop(u)) /\ (IsUp(u)' <=> IsUp(u))
      BY <2>5, <2>9, CorosFacts, <2>5a DEF IsLoop, IsUp, LoopGoesOn
    <3> QED  BY <3>1, <3>2, <1>3 DEF KeepsCounts, countVars
  <2>22. pc'[Main] = pc[Main]
    BY <2>9, CorosFacts
  <2>23. Counting' /\ Stopping'
    <3>1. KeepsStopping
      BY <2>22, <1>3 DEF KeepsStopping
    <3> QED  BY <3>1, <2>21, CountingKept, StoppingKept DEF IInv
  <2>24. Ends'
    <3>1. \A u \in Workers : pc'[u] = "loopEnd" => ~active_'[u]
      BY <1>3, <2>5, <2>9, CorosFacts, <2>5a DEF IInv, Ends, LoopGoesOn
    <3> QED  BY <3>1, <1>3, <2>21 DEF IInv, Ends, KeepsCounts
  <2>25. Finalized'
    <3>1. \A u \in Workers : pc'[u] # "to_loop" => pc[u] # "to_loop"
      BY <2>5, <2>9, CorosFacts, <2>5a DEF LoopGoesOn
    <3> QED  BY <3>1, <2>22, <1>3 DEF IInv, Finalized
  <2> QED  BY <2>8, <2>11, <2>13, <2>14, <2>15, <2>17, <2>18, <2>19, <2>20, <2>23, <2>24, <2>25 DEF IInv, Kept
<1> QED  BY <1>4, <1>5

-----------------------------------------------------------------------------
(* Switching to the next coroutine.                                        *)

\* The thread of w leaves c, which may go to the end of the queue, and goes on
\* with d, the head of the queue.
Leaves(w, c, d) ==
  /\ d = c \/ d \in InQueue(w)
  /\ cur'[w] = d /\ status'[d] = "RUNNING" /\ (d # c => pc'[d] = pc[d])
  /\ \A v \in Workers \ {w} : cur'[v] = cur[v] /\ runnables_'[v] = runnables_[v]
  /\ NoDup(runnables_'[w])
  /\ Elems(runnables_'[w]) = (InQueue(w) \cup (IF Queued(c)' THEN {c} ELSE {})) \ {d}
  /\ \A b \in Coros \ {c, d} : Stays(b)
  /\ UNCHANGED <<arg, waiters_, active_, eventLock, eventVars, countVars, launched>>

\* Where c may be left, and at which label.
LeftAt(c, d) ==
  /\ Fits(c)' /\ pc[c] # "enqueue" /\ pc'[c] \in Switched \cup {"none"}
  /\ d # c => ~OnThread(c)' /\ ~Launching(c)'
  /\ d = c => pc'[c] # "none"
  /\ c \in Cos => (IsLive(c)' <=> IsLive(c))
  /\ c \in Workers => (IsLoop(c)' <=> IsLoop(c)) /\ (IsUp(c)' <=> IsUp(c))
  /\ c = Main => KeepsStopping

LEMMA QueuedFits ==
  ASSUME Fitting, NEW d \in Coros, Queued(d)
  PROVE  /\ d \in Cos => pc[d] \in {"run", "to_run"} /\ d <= launched /\ ~happened_[d]
         /\ d = Main => pc[d] \in {"to_run", "to_mLock", "to_mDrain"}
         /\ d \in Workers => pc[d] = "to_loop" \/ (d = MainWorker /\ pc[d] = "loop")
<1>1. d \in Cos => CoFits(d)
  BY DEF Fitting, Fits
<1>2. d = Main => MainFits
  BY DEF Fitting, Fits
<1>3. d \in Workers => LoopFits(d)
  BY DEF Fitting, Fits
<1> QED  BY <1>1, <1>2, <1>3 DEF CoFits, MainFits, LoopFits, Queued

LEMMA SwitchPlaces ==
  ASSUME IInv, NEW w \in Workers, NEW c \in Coros, NEW d \in Coros, c = cur[w],
         Leaves(w, c, d), LeftAt(c, d)
  PROVE  Fitting' /\ Threads' /\ Queues' /\ Launches'
<1>1. OnThread(c) /\ c # None /\ ~Queued(c)
  BY CorosFacts DEF IInv, Threads, OnThread, Queued
<1>2. d # c => Queued(d) /\ d \in InQueue(w)
  BY DEF IInv, Queues, Leaves
<1>3. \A b \in Coros \ {c, d} : status'[b] = status[b] /\ pc'[b] = pc[b]
  BY DEF Leaves, Stays
<1>4. Fitting'
  <2> SUFFICES ASSUME NEW b \in Coros, b # c
               PROVE  Fits(b)'
    BY DEF Fitting, LeftAt
  <2>1. CASE b # d
    BY <2>1, FitsSame DEF IInv, Fitting, Leaves, eventVars
  <2>2. CASE b = d
    <3>1. status'[d] = "RUNNING" /\ pc'[d] = pc[d] /\ Queued(d) /\ UNCHANGED <<resolved, happened_, following, launched>>
      BY <2>2, <1>2 DEF Leaves, eventVars
    <3>2. d \in Cos => CoFits(d)'
      BY <3>1, QueuedFits DEF IInv, CoFits
    <3>3. d = Main => MainFits'
      BY <3>1, QueuedFits DEF IInv, MainFits
    <3>4. d \in Workers => LoopFits(d)'
      BY <3>1, QueuedFits DEF IInv, LoopFits, LoopLabels
    <3> QED  BY <2>2, <3>2, <3>3, <3>4 DEF Fits
  <2> QED  BY <2>1, <2>2
<1>5. OnThread(d)' /\ ~Queued(d)' /\ ~Launching(d)'
  BY DEF Leaves, OnThread, Queued, Launching
<1>6. \A b \in Coros \ {c, d} : /\ OnThread(b)' <=> OnThread(b)
                                /\ Queued(b)' <=> Queued(b)
                                /\ Launching(b)' <=> Launching(b)
  BY <1>3 DEF OnThread, Queued, Launching
<1>7. Threads'
  <2>1. d # c => ~OnThread(d)
    BY <1>2 DEF OnThread, Queued
  <2>2. \A v \in Workers : cur'[v] = d => v = w
    <3> SUFFICES ASSUME NEW v \in Workers, v # w, cur[v] = d
                 PROVE  FALSE
      BY DEF Leaves
    <3>1. d # None /\ OnThread(d)
      BY CorosFacts DEF IInv, Threads
    <3> QED  BY <3>1, <2>1, <1>1 DEF IInv, Threads
  <2>3. \A v \in Workers \ {w} : cur'[v] = cur[v] /\ cur[v] # c
    BY <1>1 DEF IInv, Threads, Leaves
  <2>4. ASSUME NEW v \in Workers, cur'[v] # None
        PROVE  OnThread(cur[v])'
    <3>1. PICK b \in Coros : b = cur'[v]
      BY <2>3, <2>4 DEF IInv, Types, Leaves
    <3>2. OnThread(b)'
      <4>1. CASE v = w
        BY <3>1, <4>1, <1>5 DEF Leaves
      <4>2. CASE v # w
        BY <3>1, <4>2, <2>2, <2>3, <2>4, <1>6 DEF IInv, Threads
      <4> QED  BY <4>1, <4>2
    <3> QED  BY <3>1, <3>2 DEF OnThread
  <2>5. \A u, v \in Workers : cur'[u] # None /\ cur'[u] = cur'[v] => u = v
    <3> SUFFICES ASSUME NEW u \in Workers, NEW v \in Workers, u # w, v # w, cur'[u] # None, cur'[u] = cur'[v]
                 PROVE  u = v
      BY <2>2 DEF Leaves
    <3> QED  BY <2>3 DEF IInv, Threads
  <2>6. \A b \in Coros : OnThread(b)' => \E v \in Workers : cur'[v] = b
    <3> SUFFICES ASSUME NEW b \in Coros, b # d, OnThread(b)'
                 PROVE  \E v \in Workers : cur'[v] = b
      BY DEF Leaves
    <3>1. b # c /\ OnThread(b)
      BY <1>6 DEF LeftAt
    <3>2. PICK v \in Workers : cur[v] = b
      BY <3>1 DEF IInv, Threads
    <3> QED  BY <3>1, <3>2, <2>3
  <2> QED  BY <2>4, <2>5, <2>6 DEF Threads
<1>8. Queues'
  <2>1. \A v \in Workers \ {w} : InQueue(v)' = InQueue(v)
    BY DEF Leaves, InQueue
  <2>2. InQueue(w)' = (InQueue(w) \cup (IF Queued(c)' THEN {c} ELSE {})) \ {d}
    BY DEF Leaves, InQueue
  <2>3. \A v \in Workers : NoDup(runnables_'[v])
    BY DEF IInv, Queues, Leaves
  <2>4. \A v \in Workers : c \notin InQueue(v) /\ (v # w => d \notin InQueue(v))
    BY <1>1, <1>2 DEF IInv, Queues
  <2>5. \A v \in Workers, b \in Coros : b \in InQueue(v)' => Queued(b)'
    BY <2>1, <2>2, <2>4, <1>6 DEF IInv, Queues
  <2>6. \A u, v \in Workers, b \in Coros : b \in InQueue(u)' /\ b \in InQueue(v)' => u = v
    BY <2>1, <2>2, <2>4 DEF IInv, Queues
  <2>7. \A b \in Coros : Queued(b)' => \E v \in Workers : b \in InQueue(v)'
    <3> SUFFICES ASSUME NEW b \in Coros, Queued(b)'
                 PROVE  \E v \in Workers : b \in InQueue(v)'
      OBVIOUS
    <3>1. b # d
      BY <1>5
    <3>2. CASE b = c
      BY <3>1, <3>2, <2>2
    <3>3. CASE b # c
      BY <3>1, <3>3, <1>6, <2>1, <2>2 DEF IInv, Queues
    <3> QED  BY <3>2, <3>3
  <2> QED  BY <2>3, <2>5, <2>6, <2>7 DEF Queues
<1>9. Launches'
  <2>1. d # c => ~Launching(d) /\ pc[d] # "enqueue"
    <3> SUFFICES ASSUME d # c
                 PROVE  ~Launching(d) /\ pc[d] # "enqueue"
      OBVIOUS
    <3> QED  BY <1>2, QueuedFits DEF IInv, Queued, Launching, Coros
  <2>2. ~Launching(c)
    BY <1>1 DEF OnThread, Launching
  <2>3. KeepsLaunches
    <3> SUFFICES ASSUME NEW b \in Coros
                 PROVE  /\ Launching(b)' <=> Launching(b)
                        /\ pc'[b] = "enqueue" <=> pc[b] = "enqueue"
      BY DEF KeepsLaunches, Leaves
    <3>1. CASE b = c
      BY <3>1, <1>5, <2>2 DEF LeftAt, Switched
    <3>2. CASE b = d /\ d # c
      BY <3>2, <1>5, <2>1 DEF Leaves
    <3>3. CASE b \notin {c, d}
      BY <3>3, <1>3, <1>6
    <3> QED  BY <3>1, <3>2, <3>3
  <2> QED  BY <2>3, LaunchesKept DEF IInv
<1> QED  BY <1>4, <1>7, <1>8, <1>9

LEMMA SwitchCounts ==
  ASSUME IInv, NEW w \in Workers, NEW c \in Coros, NEW d \in Coros, c = cur[w],
         Leaves(w, c, d), LeftAt(c, d)
  PROVE  Counting' /\ Stopping' /\ Ends'
<1>1. d # c => Queued(d) /\ status[d] = "RUNNABLE" /\ pc'[d] = pc[d] /\ status'[d] = "RUNNING"
  BY DEF IInv, Queues, Leaves, Queued
<1>2. \A b \in Coros \ {c, d} : status'[b] = status[b] /\ pc'[b] = pc[b]
  BY DEF Leaves, Stays
<1>3. KeepsCounts
  <2>1. \A b \in Cos : IsLive(b)' <=> IsLive(b)
    BY <1>1, <1>2, CorosFacts DEF IsLive, LeftAt
  <2>2. \A v \in Workers : (IsLoop(v)' <=> IsLoop(v)) /\ (IsUp(v)' <=> IsUp(v))
    BY <1>1, <1>2, CorosFacts DEF IsLoop, IsUp, LeftAt
  <2> QED  BY <2>1, <2>2 DEF KeepsCounts, Leaves, countVars
<1>4. KeepsStopping
  <2>1. CASE c = Main
    BY <2>1 DEF LeftAt
  <2>2. CASE c # Main
    <3>1. pc'[Main] = pc[Main] /\ active_' = active_
      BY <2>2, <1>1, <1>2, CorosFacts DEF Leaves
    <3> QED  BY <3>1 DEF KeepsStopping
  <2> QED  BY <2>1, <2>2
<1>5. Ends'
  <2>1. \A v \in Workers : pc'[v] = "loopEnd" => ~active_'[v]
    <3>1. pc'[c] # "loopEnd" /\ active_' = active_
      BY DEF LeftAt, Leaves, Switched
    <3> QED  BY <3>1, <1>1, <1>2, CorosFacts DEF IInv, Ends
  <2>2. ~IsLoop(w) => d \notin Cos
    <3> SUFFICES ASSUME ~IsLoop(w), d \in Cos
                 PROVE  FALSE
      OBVIOUS
    <3>1. d # c
      BY DEF IInv, Ends
    <3>2. IsLive(d)
      BY <3>1, <1>1 DEF IsLive
    <3> QED  BY <3>2 DEF IInv, Stopping
  <2>3. IsUp(w) /\ d # None
    BY CorosFacts DEF IInv, Ends
  <2>4. \A v \in Workers : ~IsLoop(v)' => cur'[v] \notin Cos
    BY <1>3, <2>2 DEF IInv, Ends, KeepsCounts, Leaves
  <2>5. \A v \in Workers : cur'[v] = None <=> ~IsUp(v)'
    BY <1>3, <2>3 DEF IInv, Ends, KeepsCounts, Leaves
  <2> QED  BY <2>1, <2>4, <2>5 DEF Ends
<1> QED  BY <1>3, <1>4, <1>5, CountingKept, StoppingKept DEF IInv

LEMMA SwitchHomes ==
  ASSUME IInv, NEW w \in Workers, NEW c \in Coros, NEW d \in Coros, c = cur[w],
         Leaves(w, c, d), LeftAt(c, d),
         \A v \in Workers : finalizationQueue_'[v] = finalizationQueue_[v]
           \/ (v = w /\ finalizationQueue_'[v] = finalizationQueue_[v] \cup {c})
  PROVE  Homes' /\ Finalized'
<1>1. c \in Workers \cup {Main} => w = Home(c)
  BY DEF IInv, Homes
<1>2. d \in Workers \cup {Main} => w = Home(d)
  BY <1>1 DEF IInv, Homes, Leaves
<1>3. Homes'
  <2> SUFFICES ASSUME NEW v \in Workers, NEW b \in Workers \cup {Main},
                      \/ cur'[v] = b \/ b \in InQueue(v)' \/ b \in finalizationQueue_'[v]
                      \/ \E e \in Events : waiters_'[v][e] = b
               PROVE  v = Home(b)
    BY DEF Homes
  <2>1. CASE cur'[v] = b
    BY <2>1, <1>2 DEF IInv, Homes, Leaves
  <2>2. CASE b \in InQueue(v)'
    BY <2>2, <1>1 DEF IInv, Homes, Leaves, InQueue
  <2>3. CASE b \in finalizationQueue_'[v]
    BY <2>3, <1>1 DEF IInv, Homes
  <2>4. CASE \E e \in Events : waiters_'[v][e] = b
    BY <2>4 DEF IInv, Homes, Leaves
  <2> QED  BY <2>1, <2>2, <2>3, <2>4
<1>4. Finalized'
  <2>1. \A v \in Workers \ {w} : /\ cur'[v] = cur[v] /\ cur[v] # c /\ (cur[v] # None => cur[v] # d)
                                 /\ finalizationQueue_'[v] = finalizationQueue_[v]
    <3>1. c # None /\ (d # c => ~OnThread(d))
      BY CorosFacts DEF Leaves, IInv, Queues, Queued, OnThread
    <3> QED  BY <3>1 DEF IInv, Threads, Leaves
  <2>2. ASSUME NEW v \in Workers \ {MainWorker}, (cur'[v] = v /\ pc'[v] # "to_loop") \/ cur'[v] = None
        PROVE  finalizationQueue_'[v] = {}
    <3>1. CASE v = w
      <4>1. d = w /\ pc'[w] # "to_loop"
        BY <2>2, <3>1, CorosFacts DEF Leaves
      <4>2. CASE d = c
        <5>1. LoopFits(c)' /\ pc'[c] \in Switched
          BY <4>1, <4>2 DEF LeftAt, Fits
        <5> QED  BY <3>1, <4>1, <4>2, <5>1 DEF LoopFits, LoopLabels, Switched
      <4>3. CASE d # c
        <5>1. Queued(d) /\ pc'[d] = pc[d]
          BY <4>3 DEF IInv, Queues, Leaves
        <5> QED  BY <2>2, <3>1, <4>1, <5>1, QueuedFits DEF IInv
      <4> QED  BY <4>2, <4>3
    <3>2. CASE v # w
      <4>1. cur[v] = v => pc'[v] = pc[v]
        BY <3>2, <2>1, CorosFacts DEF Leaves, Stays
      <4> QED  BY <2>2, <3>2, <4>1, <2>1 DEF IInv, Finalized
    <3> QED  BY <3>1, <3>2
  <2>3. ASSUME cur'[MainWorker] = Main, pc'[Main] \notin {"to_run", "to_mLock", "to_mDrain"}
        PROVE  finalizationQueue_'[MainWorker] = {}
    <3>1. CASE MainWorker = w
      <4>1. d = Main
        BY <2>3, <3>1 DEF Leaves
      <4>2. CASE d = c
        <5>1. MainFits' /\ pc'[c] \in Switched
          BY <4>1, <4>2 DEF LeftAt, Fits
        <5> QED  BY <2>3, <4>1, <4>2, <5>1 DEF MainFits, Switched
      <4>3. CASE d # c
        <5>1. Queued(d) /\ pc'[d] = pc[d]
          BY <4>3 DEF IInv, Queues, Leaves
        <5> QED  BY <2>3, <4>1, <5>1, QueuedFits DEF IInv
      <4> QED  BY <4>2, <4>3
    <3>2. CASE MainWorker # w
      <4>1. cur[MainWorker] = Main => pc'[Main] = pc[Main]
        BY <3>2, <2>1, CorosFacts DEF Leaves, Stays
      <4> QED  BY <2>3, <3>2, <4>1, <2>1, CorosFacts DEF IInv, Finalized
    <3> QED  BY <3>1, <3>2
  <2> QED  BY <2>2, <2>3 DEF Finalized
<1> QED  BY <1>3, <1>4

\* SuspendCurrentCoroAndScheduleNext: c goes to the end of the queue.
LEMMA SuspendKeeps ==
  ASSUME IInv, NEW w \in Workers, NEW c \in Coros, c = cur[w], status[c] \in {"RUNNING", "AWAIT_LOOP"},
         NEW back \in Switched, SuspendAndScheduleNext(w, back),
         \/ c \in Cos /\ pc[c] = "run" /\ back = "to_run"
         \/ c = Main /\ pc[c] = "run" /\ back = "to_run"
         \/ c = Main /\ pc[c] = "mDrain" /\ back = "to_mDrain"
         \/ c \in Workers /\ pc[c] = "schedule" /\ back = "to_loop"
  PROVE  Kept
<1> DEFINE s == Append(runnables_[w], c)
<1>1. OnThread(c) /\ ~Queued(c) /\ c # None
  BY CorosFacts DEF OnThread, Queued
<1>2. /\ runnables_[w] \in Seq(Coros) /\ NoDup(runnables_[w]) /\ c \notin InQueue(w)
  BY <1>1 DEF IInv, Types, Queues
<1>3. s \in Seq(Coros) /\ s # <<>> /\ Elems(s) = InQueue(w) \cup {c} /\ NoDup(s)
  BY <1>2, ElemsAppend DEF InQueue
<1>4. /\ runnables_' = [runnables_ EXCEPT ![w] = Tail(s)]
      /\ cur' = [cur EXCEPT ![w] = Head(s)]
      /\ status' = [status EXCEPT ![c] = "RUNNABLE", ![Head(s)] = "RUNNING"]
      /\ pc' = [pc EXCEPT ![c] = back]
      /\ UNCHANGED <<waiters_, finalizationQueue_, active_, arg, eventVars, eventLock, waitersLock_, countVars, launched>>
  BY DEF SuspendAndScheduleNext, SwitchToNext, lockVars
<1> HIDE DEF s
<1>5. PICK d \in Coros : d = Head(s) /\ d \in InQueue(w) \cup {c}
  BY <1>3, ElemsTail
<1>6. Tail(s) \in Seq(Coros) /\ NoDup(Tail(s)) /\ Elems(Tail(s)) = (InQueue(w) \cup {c}) \ {d}
  BY <1>3, <1>5, ElemsTail
<1>7. Types'
  <2>1. cur' \in [Workers -> Coros \cup {None}]
    BY <1>4, <1>5 DEF IInv, Types
  <2>2. runnables_' \in [Workers -> Seq(Coros)]
    BY <1>4, <1>6 DEF IInv, Types
  <2>3. status' = [b \in Coros |-> status'[b]] /\ pc' = [b \in Coros |-> pc'[b]]
    BY <1>4, <1>5 DEF IInv, Types
  <2> QED  BY <1>4, <2>1, <2>2, <2>3 DEF IInv, Types, eventVars
<1>8. /\ cur'[w] = d /\ runnables_'[w] = Tail(s)
      /\ \A v \in Workers \ {w} : cur'[v] = cur[v] /\ runnables_'[v] = runnables_[v]
      /\ status'[d] = "RUNNING" /\ (d # c => status'[c] = "RUNNABLE") /\ pc'[c] = back
      /\ \A b \in Coros \ {c} : pc'[b] = pc[b]
      /\ \A b \in Coros \ {c, d} : status'[b] = status[b]
  BY <1>4, <1>5 DEF IInv, Types
<1>9. back # "none"
  BY DEF Switched
<1>10. Leaves(w, c, d)
  <2>1. Queued(c)' <=> d # c
    BY <1>8, <1>9 DEF Queued
  <2>2. (InQueue(w) \cup {c}) \ {d} = (InQueue(w) \cup (IF Queued(c)' THEN {c} ELSE {})) \ {d}
    BY <2>1
  <2>3. d = c \/ d \in InQueue(w)
    BY <1>5
  <2>4. Elems(runnables_'[w]) = (InQueue(w) \cup (IF Queued(c)' THEN {c} ELSE {})) \ {d}
    BY <2>2, <1>6, <1>8
  <2>5. NoDup(runnables_'[w])
    BY <1>6, <1>8
  <2>6. UNCHANGED <<arg, waiters_, active_, eventLock, eventVars, countVars, launched>>
    BY <1>4
  <2>7. \A b \in Coros \ {c, d} : Stays(b)
    BY <1>8 DEF Stays
  <2>8. d # c => pc'[d] = pc[d]
    BY <1>8
  <2>9. /\ cur'[w] = d /\ status'[d] = "RUNNING"
        /\ \A v \in Workers \ {w} : cur'[v] = cur[v] /\ runnables_'[v] = runnables_[v]
    BY <1>8
  <2> QED  BY <2>3, <2>4, <2>5, <2>6, <2>7, <2>8, <2>9 DEF Leaves
<1>11. LeftAt(c, d)
  <2>1. status'[c] \in {"RUNNING", "RUNNABLE"} /\ (d # c => status'[c] = "RUNNABLE")
    BY <1>8
  <2>2. Fits(c) /\ UNCHANGED <<resolved, happened_, following, launched>>
    BY <1>4 DEF IInv, Fitting, eventVars
  <2>3. c \in Cos => CoFits(c)'
    BY <2>1, <2>2, <1>8, CorosFacts DEF Fits, CoFits, Ending
  <2>4. c = Main => MainFits'
    BY <2>1, <1>8, CorosFacts DEF MainFits
  <2>5. c \in Workers => LoopFits(c)'
    BY <2>1, <1>8, CorosFacts DEF LoopFits, LoopLabels
  <2>6. Fits(c)'
    BY <2>3, <2>4, <2>5 DEF Fits
  <2>7. d # c => ~OnThread(c)' /\ ~Launching(c)'
    BY <2>1, <1>8, <1>9 DEF OnThread, Launching, Switched
  <2>8. c \in Cos => (IsLive(c)' <=> IsLive(c))
    BY <2>1, <2>2, CorosFacts DEF IsLive, Fits, CoFits, Ending
  <2>9. c \in Workers => (IsLoop(c)' <=> IsLoop(c)) /\ (IsUp(c)' <=> IsUp(c))
    BY <1>8, CorosFacts DEF IsLoop, IsUp, LoopLabels
  <2>10. c = Main => KeepsStopping
    BY <1>4, <1>8, CorosFacts DEF KeepsStopping, StopLabels, DrainLabels
  <2>11. pc[c] # "enqueue"
    OBVIOUS
  <2> QED  BY <2>6, <2>7, <2>8, <2>9, <2>10, <2>11, <1>8, <1>9 DEF LeftAt
<1>12. d # c => Queued(d) /\ status[d] = "RUNNABLE"
  BY <1>5 DEF IInv, Queues, Queued
<1>13. Dead'
  <2>1. \A b \in Coros : Dying(b)' <=> Dying(b)
    BY <1>8, <1>9, <1>12 DEF Dying
  <2> QED  BY <2>1, <1>4, DeadKept DEF IInv
<1>14. Sleepers' /\ Waits' /\ (Registered => Registered')
  <2>1. d # c => pc[d] \notin {"wait", "enter", "block"}
    BY <1>12, QueuedFits DEF IInv, Coros
  <2>2. \A b \in Coros :
          /\ pc'[b] \in {"wait", "enter", "block", "unblock", "unblocking"} => pc'[b] = pc[b]
          /\ pc[b] = "block" => pc'[b] = "block"
    BY <1>8 DEF Switched
  <2>3. \A b \in Coros : /\ status'[b] = "BLOCKED" <=> status[b] = "BLOCKED"
                         /\ status[b] = "BLOCKED" => pc'[b] = pc[b]
    BY <1>8, <1>12
  <2>4. \A v \in Workers : cur[v] # None /\ pc[cur[v]] = "block" => cur'[v] = cur[v]
    BY <1>8
  <2>5. \A v \in Workers : cur'[v] # None => cur'[v] = cur[v] \/ pc'[cur'[v]] \notin {"wait", "enter", "block"}
    BY <2>1, <1>8
  <2>6. \A b \in Coros : pc'[b] \in {"unblock", "unblocking"} => arg'[b] \in {b, Program}
    BY <2>2, <1>4 DEF IInv, Waits
  <2>7. KeepsWaits
    BY <2>2, <2>3, <2>4, <2>5, <2>6, <1>4 DEF KeepsWaits, eventVars
  <2> QED  BY <2>7, <1>4, WaitsKept, SleepersKept, RegisteredKept DEF IInv
<1> QED  BY <1>4, <1>7, <1>10, <1>11, <1>13, <1>14, SwitchPlaces, SwitchCounts, SwitchHomes DEF IInv, Kept

LEMMA LoopScheduleKeeps ==
  ASSUME IInv, NEW w \in Workers, LoopSchedule(w)
  PROVE  Kept
<1>1. PICK c \in Coros : c = cur[w] /\ c # None /\ pc[c] = "schedule"
  BY CurFacts DEF LoopSchedule, At
<1>2. status[c] = "RUNNING" /\ c \in Workers
  BY <1>1, CurFacts, Kinds DEF IInv, LoopLabels
<1>3. SuspendAndScheduleNext(w, "to_loop") /\ "to_loop" \in Switched
  BY DEF LoopSchedule, Switched
<1> QED  BY <1>1, <1>2, <1>3, SuspendKeeps

LEMMA ScheduleKeeps ==
  ASSUME IInv, NEW w \in Workers, Schedule(w)
  PROVE  Kept
<1>1. PICK c \in Coros : c = cur[w] /\ c # None /\ pc[c] = "run"
  BY CurFacts DEF Schedule, At
<1>2. status[c] = "RUNNING" /\ c \in Cos \cup {Main}
  BY <1>1, CurFacts, Kinds DEF IInv
<1>3. SuspendAndScheduleNext(w, "to_run") /\ "to_run" \in Switched
  BY DEF Schedule, Switched
<1> QED  BY <1>1, <1>2, <1>3, SuspendKeeps

LEMMA MainDrainKeeps ==
  ASSUME IInv, NEW w \in Workers, MainDrain(w)
  PROVE  Kept
<1>1. PICK c \in Coros : c = cur[w] /\ c # None /\ pc[c] = "mDrain"
  BY CurFacts DEF MainDrain, At
<1>2. status[c] \in {"RUNNING", "AWAIT_LOOP"} /\ c = Main
  BY <1>1, CurFacts, Kinds DEF IInv, StopLabels
<1>3. SuspendAndScheduleNext(w, "to_mDrain") /\ "to_mDrain" \in Switched
  BY DEF MainDrain, Switched
<1> QED  BY <1>1, <1>2, <1>3, SuspendKeeps

\* c leaves the thread without entering the queue.
HandsOver(w, c, d, st, back) ==
  /\ Leaves(w, c, d) /\ d # c /\ Queued(d)
  /\ status'[c] = st /\ pc'[c] = back
  /\ \A b \in Coros \ {c} : pc'[b] = pc[b]
  /\ \A b \in Coros \ {c, d} : status'[b] = status[b]
  /\ cur' \in [Workers -> Coros \cup {None}]
  /\ runnables_' \in [Workers -> Seq(Coros)]
  /\ status' = [b \in Coros |-> status'[b]] /\ pc' = [b \in Coros |-> pc'[b]]

LEMMA HandOver ==
  ASSUME IInv, NEW w \in Workers, NEW c \in Coros, c = cur[w], OnThread(c),
         NEW st, st # "RUNNABLE", NEW back, SwitchToNext(w, runnables_[w], st, back),
         UNCHANGED <<arg, waiters_, active_, eventLock, eventVars, countVars, launched>>
  PROVE  \E d \in Coros : HandsOver(w, c, d, st, back)
<1> DEFINE s == runnables_[w]
<1>1. s \in Seq(Coros) /\ NoDup(s) /\ c \notin InQueue(w) /\ Elems(s) = InQueue(w)
  BY DEF IInv, Types, Queues, InQueue, OnThread, Queued
<1>2. /\ s # <<>>
      /\ runnables_' = [runnables_ EXCEPT ![w] = Tail(s)]
      /\ cur' = [cur EXCEPT ![w] = Head(s)]
      /\ status' = [status EXCEPT ![c] = st, ![Head(s)] = "RUNNING"]
      /\ pc' = [pc EXCEPT ![c] = back]
  BY DEF SwitchToNext
<1> HIDE DEF s
<1>3. PICK d \in Coros : d = Head(s) /\ d \in InQueue(w) /\ d # c
  BY <1>1, <1>2, ElemsTail
<1>4. Tail(s) \in Seq(Coros) /\ NoDup(Tail(s)) /\ Elems(Tail(s)) = InQueue(w) \ {d}
  BY <1>1, <1>2, <1>3, ElemsTail
<1>5. cur' \in [Workers -> Coros \cup {None}]
  BY <1>2, <1>3 DEF IInv, Types
<1>6. runnables_' \in [Workers -> Seq(Coros)]
  BY <1>2, <1>4 DEF IInv, Types
<1>7. status' = [b \in Coros |-> status'[b]] /\ pc' = [b \in Coros |-> pc'[b]]
  BY <1>2, <1>3 DEF IInv, Types
<1>8. /\ cur'[w] = d /\ runnables_'[w] = Tail(s)
      /\ \A v \in Workers \ {w} : cur'[v] = cur[v] /\ runnables_'[v] = runnables_[v]
      /\ status'[d] = "RUNNING" /\ status'[c] = st /\ pc'[c] = back
      /\ \A b \in Coros \ {c} : pc'[b] = pc[b]
      /\ \A b \in Coros \ {c, d} : status'[b] = status[b]
  BY <1>2, <1>3 DEF IInv, Types
<1>9. Leaves(w, c, d)
  <2>1. ~Queued(c)'
    BY <1>8 DEF Queued
  <2>2. Elems(runnables_'[w]) = (InQueue(w) \cup (IF Queued(c)' THEN {c} ELSE {})) \ {d}
    BY <2>1, <1>4, <1>8
  <2>3. NoDup(runnables_'[w])
    BY <1>4, <1>8
  <2>4. \A b \in Coros \ {c, d} : Stays(b)
    BY <1>8 DEF Stays
  <2>5. /\ cur'[w] = d /\ status'[d] = "RUNNING" /\ (d # c => pc'[d] = pc[d])
        /\ \A v \in Workers \ {w} : cur'[v] = cur[v] /\ runnables_'[v] = runnables_[v]
    BY <1>8
  <2> QED  BY <2>2, <2>3, <2>4, <2>5, <1>3 DEF Leaves
<1>10. Queued(d)
  BY <1>3 DEF IInv, Queues
<1>11. HandsOver(w, c, d, st, back)
  BY <1>3, <1>5, <1>6, <1>7, <1>8, <1>9, <1>10 DEF HandsOver
<1> QED  BY <1>11

LEMMA BlockAndScheduleNextKeeps ==
  ASSUME IInv, NEW w \in Workers, BlockAndScheduleNext(w)
  PROVE  Kept
<1>1. PICK c \in Coros : c = cur[w] /\ c # None /\ pc[c] = "block"
  BY CurFacts DEF BlockAndScheduleNext, At
<1>2. status[c] = "RUNNING" /\ c \in Cos \cup {Main} /\ Fits(c) /\ OnThread(c)
  BY <1>1, CurFacts, Kinds DEF IInv
<1>3. PICK back : /\ back = After(arg[c])
                  /\ back = "to_run" \/ (back = "to_mLock" /\ c = Main)
                  /\ arg[c] \in Events
  BY <1>1 DEF IInv, Waits, After
<1>4. /\ SwitchToNext(w, runnables_[w], "BLOCKED", back)
      /\ waitersLock_' = [waitersLock_ EXCEPT ![w] = None]
      /\ UNCHANGED <<waiters_, finalizationQueue_, active_, arg, eventVars, eventLock, countVars, launched>>
  BY <1>1, <1>3 DEF BlockAndScheduleNext, boundVars
<1>5. PICK d \in Coros : HandsOver(w, c, d, "BLOCKED", back)
  BY <1>1, <1>2, <1>4, HandOver
<1>6. /\ Leaves(w, c, d) /\ d # c /\ Queued(d) /\ cur'[w] = d
      /\ status'[c] = "BLOCKED" /\ pc'[c] = back /\ status'[d] = "RUNNING"
      /\ \A b \in Coros \ {c} : pc'[b] = pc[b]
      /\ \A b \in Coros \ {c, d} : status'[b] = status[b]
      /\ \A v \in Workers \ {w} : cur'[v] = cur[v] /\ cur[v] # c /\ waitersLock_'[v] = waitersLock_[v]
  BY <1>1, <1>4, <1>5 DEF HandsOver, Leaves, IInv, Types, Threads
<1>7. Types'
  BY <1>4, <1>5 DEF HandsOver, IInv, Types, eventVars
<1>8. LeftAt(c, d)
  <2>1. UNCHANGED <<resolved, happened_, following, launched>>
    BY <1>4 DEF eventVars
  <2>2. Fits(c)'
    BY <2>1, <1>1, <1>2, <1>3, <1>6, CorosFacts DEF Fits, CoFits, MainFits, Ending
  <2>3. ~OnThread(c)' /\ ~Launching(c)'
    BY <1>6 DEF OnThread, Launching
  <2>4. c \in Cos => (IsLive(c)' <=> IsLive(c))
    BY <1>2, <1>6 DEF IsLive
  <2>5. c \notin Workers
    BY <1>2, CorosFacts
  <2>6. c = Main => KeepsStopping
    BY <1>1, <1>3, <1>4, <1>6 DEF KeepsStopping, StopLabels, DrainLabels
  <2>7. pc[c] # "enqueue" /\ pc'[c] \in Switched \cup {"none"}
    BY <1>1, <1>3, <1>6 DEF Switched
  <2> QED  BY <2>2, <2>3, <2>4, <2>5, <2>6, <2>7, <1>6 DEF LeftAt
<1>9. status[d] = "RUNNABLE" /\ pc[d] \notin {"wait", "enter", "block"}
  BY <1>6, QueuedFits DEF IInv, Queued, Coros
<1>10. Dead'
  <2>1. \A b \in Coros : Dying(b)' <=> Dying(b)
    BY <1>2, <1>6, <1>9 DEF Dying
  <2> QED  BY <2>1, <1>4, DeadKept DEF IInv
<1>11. Waits'
  <2>1. \A b \in Coros : pc'[b] \in {"wait", "enter", "block", "unblock", "unblocking"} => b # c /\ pc'[b] = pc[b]
    BY <1>3, <1>6
  <2>2. \A b \in Coros : pc'[b] \in {"wait", "enter", "block"} =>
          arg'[b] \in Events /\ (arg'[b] = Program => b = Main)
    BY <2>1, <1>4 DEF IInv, Waits
  <2>3. \A b \in Coros : pc'[b] \in {"wait", "enter"} =>
          /\ eventLock'[arg'[b]] = b
          /\ arg'[b] \in Cos /\ happened_'[arg'[b]] => pc'[b] = "wait" /\ arg'[b] \in following'
    BY <2>1, <1>4 DEF IInv, Waits, eventVars
  <2>4. \A v \in Workers : cur'[v] # None /\ pc'[cur'[v]] = "block" => waitersLock_'[v] = cur'[v]
    <3> SUFFICES ASSUME NEW v \in Workers, cur'[v] # None, pc'[cur'[v]] = "block"
                 PROVE  waitersLock_'[v] = cur'[v]
      OBVIOUS
    <3>1. v # w
      BY <1>6, <1>9
    <3>2. cur'[v] = cur[v] /\ cur[v] \in Coros \ {c} /\ waitersLock_'[v] = waitersLock_[v]
      BY <3>1, <1>6 DEF IInv, Types
    <3> QED  BY <3>2, <1>6 DEF IInv, Waits
  <2>5. \A b \in Coros : status'[b] = "BLOCKED" => arg'[b] \in Events /\ pc'[b] = After(arg'[b])
    BY <1>3, <1>4, <1>6 DEF IInv, Waits
  <2>6. \A b \in Coros : pc'[b] \in {"unblock", "unblocking"} => arg'[b] \in {b, Program}
    BY <2>1, <1>4 DEF IInv, Waits
  <2> QED  BY <2>2, <2>3, <2>4, <2>5, <2>6 DEF Waits, After
<1>12. Sleepers'
  <2>1. ASSUME NEW v \in Workers, NEW x \in Events
        PROVE  Sleeping(v, x)'
    <3> SUFFICES ASSUME waiters_[v][x] # None
                 PROVE  Sleeping(v, x)'
      BY <1>4 DEF Sleeping
    <3>1. PICK b \in Coros : b = waiters_[v][x]
      BY DEF IInv, Types
    <3>2. arg[b] = x /\ (status[b] = "BLOCKED" \/ (pc[b] = "block" /\ cur[v] = b))
      BY <3>1 DEF IInv, Sleepers, Sleeping
    <3>3. status'[b] = "BLOCKED" \/ (pc'[b] = "block" /\ cur'[v] = b)
      <4>1. CASE b = c
        BY <4>1, <1>6
      <4>2. CASE b # c
        BY <4>2, <3>2, <1>1, <1>6, <1>9
      <4> QED  BY <4>1, <4>2
    <3> QED  BY <3>1, <3>2, <3>3, <1>4 DEF Sleeping
  <2> QED  BY <2>1, <1>4 DEF IInv, Sleepers
<1>13. ASSUME Registered
       PROVE  Registered'
  <2>1. \A b \in Coros : status'[b] = "BLOCKED" => \E v \in Workers : waiters_'[v][arg'[b]] = b
    <3> SUFFICES ASSUME NEW b \in Coros, status'[b] = "BLOCKED"
                 PROVE  \E v \in Workers : waiters_[v][arg[b]] = b
      BY <1>4
    <3>1. CASE b = c
      BY <3>1, <1>1, <1>13 DEF Registered
    <3>2. CASE b # c
      BY <3>2, <1>6, <1>13 DEF Registered
    <3> QED  BY <3>1, <3>2
  <2>2. ASSUME NEW v \in Workers, cur'[v] # None
        PROVE  /\ pc'[cur'[v]] \in {"wait", "enter"} => waiters_'[v][arg'[cur'[v]]] = None
               /\ pc'[cur'[v]] = "block" => waiters_'[v][arg'[cur'[v]]] = cur'[v]
    <3>1. CASE v = w
      BY <3>1, <1>6, <1>9
    <3>2. CASE v # w
      <4>1. cur'[v] = cur[v] /\ cur[v] \in Coros \ {c} /\ pc'[cur[v]] = pc[cur[v]]
        BY <2>2, <3>2, <1>6 DEF IInv, Types
      <4> QED  BY <2>2, <4>1, <1>4, <1>13 DEF Registered
    <3> QED  BY <3>1, <3>2
  <2> QED  BY <2>1, <2>2 DEF Registered
<1>14. Homes' /\ Finalized'
  BY <1>1, <1>4, <1>6, <1>8, SwitchHomes
<1> QED  BY <1>1, <1>6, <1>7, <1>8, <1>10, <1>11, <1>12, <1>13, <1>14, SwitchPlaces, SwitchCounts DEF IInv, Kept

LEMMA RequestFinalizationKeeps ==
  ASSUME IInv, NEW w \in Workers, RequestFinalization(w)
  PROVE  Kept
<1>1. PICK c \in Coros : c = cur[w] /\ c # None /\ pc[c] = "final"
  BY CurFacts DEF RequestFinalization, At
<1>2. status[c] = "TERMINATING" /\ c \in Cos \cup {MainWorker} /\ Fits(c) /\ OnThread(c) /\ c # Main
  BY <1>1, CurFacts, Kinds, CorosFacts DEF IInv
<1>3. /\ SwitchToNext(w, runnables_[w], "TERMINATING", "none")
      /\ finalizationQueue_' = [finalizationQueue_ EXCEPT ![w] = finalizationQueue_[w] \cup {c}]
      /\ UNCHANGED <<waiters_, active_, arg, eventVars, eventLock, waitersLock_, countVars, launched>>
  BY <1>1 DEF RequestFinalization, lockVars, boundVars
<1>4. PICK d \in Coros : HandsOver(w, c, d, "TERMINATING", "none")
  BY <1>1, <1>2, <1>3, HandOver
<1>5. /\ Leaves(w, c, d) /\ d # c /\ Queued(d) /\ cur'[w] = d
      /\ status'[c] = "TERMINATING" /\ pc'[c] = "none" /\ status'[d] = "RUNNING"
      /\ \A b \in Coros \ {c} : pc'[b] = pc[b]
      /\ \A b \in Coros \ {c, d} : status'[b] = status[b]
      /\ \A v \in Workers \ {w} : cur'[v] = cur[v]
      /\ \A v \in Workers : finalizationQueue_'[v] = IF v = w THEN finalizationQueue_[v] \cup {c}
                                                     ELSE finalizationQueue_[v]
  BY <1>1, <1>3, <1>4 DEF HandsOver, Leaves, IInv, Types
<1>6. Types'
  <2>1. finalizationQueue_' \in [Workers -> SUBSET Coros]
    BY <1>3 DEF IInv, Types
  <2> QED  BY <2>1, <1>3, <1>4 DEF HandsOver, IInv, Types, eventVars
<1>7. LeftAt(c, d)
  <2>1. UNCHANGED <<resolved, happened_, following, launched>>
    BY <1>3 DEF eventVars
  <2>2. Fits(c)'
    BY <2>1, <1>1, <1>2, <1>5, CorosFacts DEF Fits, CoFits, LoopFits, Ending
  <2>3. ~OnThread(c)' /\ ~Launching(c)'
    BY <1>5 DEF OnThread, Launching
  <2>4. c \in Cos => (IsLive(c)' <=> IsLive(c))
    BY <1>1, <1>2, <1>5 DEF IsLive
  <2>5. c \in Workers => (IsLoop(c)' <=> IsLoop(c)) /\ (IsUp(c)' <=> IsUp(c))
    BY <1>1, <1>2, <1>5, CorosFacts DEF IsLoop, IsUp, LoopLabels
  <2> QED  BY <2>2, <2>3, <2>4, <2>5, <1>1, <1>2, <1>5 DEF LeftAt
<1>8. status[d] = "RUNNABLE" /\ pc[d] \notin {"wait", "enter", "block"}
  BY <1>5, QueuedFits DEF IInv, Queued, Coros
<1>9. Dead'
  <2>1. ASSUME NEW b \in Coros
        PROVE  Dying(b)' <=> Dying(b) \/ b = c
    <3>1. CASE b = c
      BY <3>1, <1>1, <1>2, <1>5 DEF Dying
    <3>2. CASE b = d /\ b # c
      BY <3>2, <1>1, <1>2, <1>5, <1>8 DEF Dying
    <3>3. CASE b # c /\ b # d
      BY <3>3, <1>1, <1>2, <1>5 DEF Dying
    <3> QED  BY <3>1, <3>2, <3>3
  <2>2. ~Dying(c)
    BY <1>1 DEF Dying
  <2>3. \A v \in Workers, b \in Coros : b \in finalizationQueue_'[v] => Dying(b)'
    BY <2>1, <1>5 DEF IInv, Dead
  <2>4. \A u, v \in Workers, b \in Coros : b \in finalizationQueue_'[u] /\ b \in finalizationQueue_'[v] => u = v
    <3>1. \A v \in Workers : c \notin finalizationQueue_[v]
      BY <2>2 DEF IInv, Dead
    <3>2. \A v \in Workers, b \in Coros : b \in finalizationQueue_'[v] =>
            b \in finalizationQueue_[v] \/ (b = c /\ v = w)
      <4> SUFFICES ASSUME NEW v \in Workers, NEW b \in finalizationQueue_'[v], b \notin finalizationQueue_[v]
                   PROVE  b = c /\ v = w
        OBVIOUS
      <4>1. finalizationQueue_'[v] = IF v = w THEN finalizationQueue_[v] \cup {c} ELSE finalizationQueue_[v]
        BY <1>5
      <4> QED  BY <4>1
    <3> QED  BY <3>1, <3>2 DEF IInv, Dead
  <2>5. \A b \in Coros : Dying(b)' => \E v \in Workers : b \in finalizationQueue_'[v]
    <3> SUFFICES ASSUME NEW b \in Coros, Dying(b)'
                 PROVE  \E v \in Workers : b \in finalizationQueue_'[v]
      OBVIOUS
    <3>1. CASE b = c
      BY <3>1, <1>5
    <3>2. CASE b # c
      <4>1. PICK v \in Workers : b \in finalizationQueue_[v]
        BY <3>2, <2>1 DEF IInv, Dead
      <4> QED  BY <4>1, <1>5
    <3> QED  BY <3>1, <3>2
  <2> QED  BY <2>3, <2>4, <2>5 DEF Dead
<1>10. Sleepers' /\ Waits' /\ (Registered => Registered')
  <2>1. \A b \in Coros :
          /\ pc'[b] \in {"wait", "enter", "block", "unblock", "unblocking"} => pc'[b] = pc[b]
          /\ pc[b] = "block" => pc'[b] = "block"
    BY <1>1, <1>5
  <2>2. \A b \in Coros : /\ status'[b] = "BLOCKED" <=> status[b] = "BLOCKED"
                         /\ status[b] = "BLOCKED" => pc'[b] = pc[b]
    BY <1>2, <1>5, <1>8
  <2>3. \A v \in Workers : cur[v] # None /\ pc[cur[v]] = "block" => cur'[v] = cur[v]
    BY <1>1, <1>5
  <2>4. \A v \in Workers : cur'[v] # None => cur'[v] = cur[v] \/ pc'[cur'[v]] \notin {"wait", "enter", "block"}
    BY <1>5, <1>8
  <2>5. \A b \in Coros : pc'[b] \in {"unblock", "unblocking"} => arg'[b] \in {b, Program}
    BY <2>1, <1>3 DEF IInv, Waits
  <2>6. KeepsWaits
    BY <2>1, <2>2, <2>3, <2>4, <2>5, <1>3 DEF KeepsWaits, eventVars
  <2> QED  BY <2>6, <1>3, WaitsKept, SleepersKept, RegisteredKept DEF IInv
<1>11. Homes' /\ Finalized'
  BY <1>1, <1>5, <1>7, SwitchHomes
<1> QED  BY <1>1, <1>5, <1>6, <1>7, <1>9, <1>10, <1>11, SwitchPlaces, SwitchCounts DEF IInv, Kept

-----------------------------------------------------------------------------
(* The theorems.                                                           *)

LEMMA InitIInv == Init => IInv /\ Registered
<1> SUFFICES ASSUME Init
             PROVE  IInv /\ Registered
  OBVIOUS
<1>1. Types
  <2>1. cur \in [Workers -> Coros \cup {None}] /\ finalizationQueue_ \in [Workers -> SUBSET Coros]
    BY CorosFacts DEF Init
  <2>2. runnables_ \in [Workers -> Seq(Coros)]
    BY CorosFacts DEF Init
  <2>3. waiters_ \in [Workers -> [Events -> Coros \cup {None}]]
    BY DEF Init
  <2>4. launched \in 0 .. MaxLaunch
    BY CoroutinesAssumption DEF Init
  <2> QED  BY <2>1, <2>2, <2>3, <2>4 DEF Init, Types
<1>2. /\ \A d \in Cos : status[d] = "CREATED" /\ pc[d] = "none" /\ ~happened_[d] /\ d > launched
      /\ status[Main] = "RUNNING" /\ pc[Main] = "run"
      /\ \A w \in Workers : pc[w] = "loop" /\ status[w] = IF w = MainWorker THEN "RUNNABLE" ELSE "RUNNING"
      /\ \A c \in Coros : arg[c] = None
  BY CorosFacts, CoroutinesAssumption DEF Init, Cos
<1>3. /\ cur[MainWorker] = Main /\ \A w \in Workers \ {MainWorker} : cur[w] = w
      /\ \A w \in Workers, e \in Events : waiters_[w][e] = None
      /\ \A w \in Workers : finalizationQueue_[w] = {} /\ active_[w]
      /\ runnables_[MainWorker] = <<MainWorker>>
      /\ \A w \in Workers \ {MainWorker} : runnables_[w] = <<>>
  BY CorosFacts DEF Init
<1>4. Fitting
  <2> SUFFICES ASSUME NEW c \in Coros
               PROVE  Fits(c)
    BY DEF Fitting
  <2>1. c \in Cos => CoFits(c)
    BY <1>2 DEF CoFits
  <2>2. c = Main => MainFits
    BY <1>2 DEF MainFits
  <2>3. c \in Workers => LoopFits(c)
    BY <1>2 DEF LoopFits, LoopLabels
  <2> QED  BY <2>1, <2>2, <2>3 DEF Fits
<1>5. InQueue(MainWorker) = {MainWorker} /\ NoDup(runnables_[MainWorker])
      /\ \A w \in Workers \ {MainWorker} : InQueue(w) = {} /\ NoDup(runnables_[w])
  BY <1>3 DEF InQueue, Elems, NoDup
<1>6. /\ \A c \in Coros : OnThread(c) <=> c \in (Workers \ {MainWorker}) \cup {Main}
      /\ \A c \in Coros : Queued(c) <=> c = MainWorker
      /\ \A c \in Coros : ~Dying(c) /\ ~Launching(c)
  <2> SUFFICES ASSUME NEW c \in Coros
               PROVE  /\ OnThread(c) <=> c \in (Workers \ {MainWorker}) \cup {Main}
                      /\ Queued(c) <=> c = MainWorker
                      /\ ~Dying(c) /\ ~Launching(c)
    OBVIOUS
  <2>1. CASE c \in Cos
    BY <2>1, <1>2, CorosFacts DEF OnThread, Queued, Dying, Launching
  <2>2. CASE c = Main
    BY <2>2, <1>2, CorosFacts DEF OnThread, Queued, Dying, Launching
  <2>3. CASE c \in Workers
    BY <2>3, <1>2, CorosFacts DEF OnThread, Queued, Dying, Launching
  <2> QED  BY <2>1, <2>2, <2>3 DEF Coros
<1>7. Threads
  <2>1. \A w \in Workers : OnThread(cur[w])
    BY <1>3, <1>6, CorosFacts
  <2>2. \A w, v \in Workers : cur[w] = cur[v] => w = v
    BY <1>3, CorosFacts
  <2>3. \A c \in Coros : OnThread(c) => \E w \in Workers : cur[w] = c
    BY <1>3, <1>6, CorosFacts
  <2> QED  BY <2>1, <2>2, <2>3 DEF Threads
<1>8. Queues
  BY <1>5, <1>6, CorosFacts DEF Queues
<1>9. Dead /\ Sleepers /\ Finalized
  BY <1>3, <1>6, CorosFacts DEF Dead, Sleepers, Sleeping, Finalized
<1>10. \A c \in Coros : /\ pc[c] \in {"none", "run", "loop"}
                        /\ status[c] # "BLOCKED"
  BY <1>2 DEF Coros
<1>11. Launches
  BY <1>6, <1>10 DEF Launches
<1>12. Waits
  <2>1. \A w \in Workers : cur[w] # None => pc[cur[w]] # "block"
    BY <1>1, <1>10 DEF Types
  <2> QED  BY <2>1, <1>10 DEF Waits
<1>13. Registered
  <2>1. \A w \in Workers : cur[w] # None => pc[cur[w]] \notin {"wait", "enter", "block"}
    BY <1>1, <1>10 DEF Types
  <2> QED  BY <2>1, <1>10 DEF Registered
<1>14. Homes
  BY <1>3, <1>5, CorosFacts DEF Homes, Home
<1>15. /\ \A d \in Cos : ~IsLive(d)
       /\ \A w \in Workers : IsLoop(w) /\ IsUp(w)
  BY <1>2 DEF IsLive, IsLoop, IsUp, LoopLabels
<1>16. Counting
  <2>1. Live = {} /\ Loops = Workers /\ Up = Workers
    BY <1>15 DEF Live, Loops, Up
  <2>2. Cardinality(Live) = 0
    BY <2>1, FS_EmptySet
  <2> QED  BY <2>1, <2>2, FiniteSets DEF Init, Counting
<1>17. Stopping /\ Ends
  <2>1. Stopping
    BY <1>2, <1>3, <1>15 DEF Stopping, StopLabels, DrainLabels
  <2>2. Ends
    BY <1>2, <1>3, <1>15, CorosFacts DEF Ends
  <2> QED  BY <2>1, <2>2
<1> QED  BY <1>1, <1>4, <1>7, <1>8, <1>9, <1>11, <1>12, <1>13, <1>14, <1>16, <1>17 DEF IInv

\* Steps that settle promises, and no others.
LEMMA SettleKeeps ==
  ASSUME IInv, \A d \in Cos : resolved[d] => resolved'[d], resolved' = [d \in Cos |-> resolved'[d]],
         UNCHANGED <<cur, runnables_, waiters_, finalizationQueue_, active_, status, pc, arg>>,
         UNCHANGED <<happened_, following, eventLock, waitersLock_, coroutineCount_, activeWorkersCount_, launched>>
  PROVE  Kept
<1>2. Types'
  BY DEF IInv, Types
<1>3. Fitting'
  <2>1. \A b \in Coros : Fits(b)'
    BY FitsSame DEF IInv, Fitting, Stays
  <2> QED  BY <2>1 DEF Fitting
<1>4. Threads' /\ Queues' /\ Dead' /\ Launches'
  BY DEF IInv, Threads, Queues, Dead, Launches, OnThread, Queued, Dying, Launching, InQueue
<1>5. Sleepers' /\ Waits' /\ Homes' /\ (Registered => Registered')
  BY DEF IInv, Sleepers, Sleeping, Waits, Homes, InQueue, Registered
<1>6. Counting' /\ Stopping' /\ Ends' /\ Finalized'
  BY DEF IInv, Counting, Live, Loops, Up, Stopping, Ends, Finalized, IsLive, IsLoop, IsUp
<1> QED  BY <1>2, <1>3, <1>4, <1>5, <1>6 DEF IInv, Kept

LEMMA StutterKeeps ==
  ASSUME IInv, UNCHANGED vars
  PROVE  Kept
<1>1. /\ UNCHANGED <<cur, runnables_, waiters_, finalizationQueue_, active_, status, pc, arg>>
      /\ UNCHANGED <<happened_, resolved, following, eventLock, waitersLock_,
                     coroutineCount_, activeWorkersCount_, launched>>
  BY DEF vars, workerVars, eventVars, lockVars, countVars, boundVars
<1>2. resolved' = [d \in Cos |-> resolved'[d]]
  BY <1>1 DEF IInv, Types
<1> QED  BY <1>1, <1>2, SettleKeeps

LEMMA ResolveKeeps ==
  ASSUME IInv, NEW w \in Workers, Resolve(w) \/ (\E d \in Cos : ResolveFollower(w, d))
  PROVE  Kept
<1>1. PICK d \in Cos : resolved' = [resolved EXCEPT ![d] = TRUE]
  BY DEF Resolve, ResolveFollower
<1>2. /\ UNCHANGED <<cur, runnables_, waiters_, finalizationQueue_, active_, status, pc, arg>>
      /\ UNCHANGED <<happened_, following, eventLock, waitersLock_, coroutineCount_, activeWorkersCount_, launched>>
  BY DEF Resolve, ResolveFollower, workerVars, lockVars, countVars, boundVars
<1>3. resolved' = [e \in Cos |-> resolved'[e]] /\ \A e \in Cos : resolved[e] => resolved'[e]
  BY <1>1 DEF IInv, Types
<1> QED  BY <1>2, <1>3, SettleKeeps

LEMMA StepKeeps ==
  ASSUME IInv, NEW w \in Workers, Step(w)
  PROVE  Kept
<1>1. CASE Resume(w) \/ LoopTest(w) \/ LoopSchedule(w) \/ WaitForRunnables(w) \/ Schedule(w)
  BY <1>1, ResumeKeeps, LoopTestKeeps, LoopScheduleKeeps, WaitForRunnablesKeeps, ScheduleKeeps
<1>2. CASE LaunchRegister(w) \/ (\E v \in Workers, front \in BOOLEAN : LaunchEnqueue(w, v, front))
  BY <1>2, LaunchRegisterKeeps, LaunchEnqueueKeeps
<1>3. CASE (\E d \in Cos : Await(w, d)) \/ WaitTest(w) \/ WaitForEvent(w) \/ BlockAndScheduleNext(w)
  BY <1>3, AwaitKeeps, WaitTestKeeps, WaitForEventKeeps, BlockAndScheduleNextKeeps
<1>4. CASE UnblockStart(w) \/ (\E v \in Workers : UnblockWaiters(w, v)) \/ UnblockEnd(w)
  BY <1>4, UnblockStartKeeps, UnblockWaitersKeeps, UnblockEndKeeps
<1>5. CASE Resolve(w) \/ RequestCompletion(w) \/ Follow(w) \/ (\E d \in Cos : ResolveFollower(w, d))
  BY <1>5, ResolveKeeps, RequestCompletionKeeps, FollowKeeps
<1>5a. CASE SetHappened(w) \/ TerminateCoroutine(w)
  BY <1>5a, SetHappenedKeeps, TerminateCoroutineKeeps
<1>6. CASE CheckLock(w) \/ CheckProgramCompletion(w) \/ SetProgramHappened(w)
  BY <1>6, CheckLockKeeps, CheckProgramCompletionKeeps, SetProgramHappenedKeeps
<1>7. CASE RequestFinalization(w) \/ FiberLoopEnd(w) \/ ThreadLoopEnd(w) \/ OnWorkerShutdown(w)
  BY <1>7, RequestFinalizationKeeps, FiberLoopEndKeeps, ThreadLoopEndKeeps, OnWorkerShutdownKeeps
<1>8. CASE MainCompleted(w) \/ MainLock(w) \/ MainCheck(w) \/ MainReset(w) \/ MainStop(w)
  BY <1>8, MainCompletedKeeps, MainLockKeeps, MainCheckKeeps, MainResetKeeps, MainStopKeeps
<1>9. CASE (\E v \in Workers : SetInactive(w, v)) \/ MainStopCheck(w) \/ MainStopWake(w)
  BY <1>9, SetInactiveKeeps, MainStopCheckKeeps, MainStopWakeKeeps
<1>10. CASE MainDrain(w) \/ MainDone(w)
  BY <1>10, MainDrainKeeps, MainDoneKeeps
<1> QED  BY <1>1, <1>2, <1>3, <1>4, <1>5, <1>5a, <1>6, <1>7, <1>8, <1>9, <1>10 DEF Step

\* The inductive invariant holds, for coroutines that may share an event and for
\* those that may not.
THEOREM Invariance == Spec => []IInv
<1>1. Init => IInv
  BY InitIInv
<1>2. IInv /\ [Next]_vars => IInv'
  BY StepKeeps, StutterKeeps DEF Next, Kept
<1> QED  BY <1>1, <1>2, PTL DEF Spec

\* Unless coroutines of one worker await the same event, every sleeping
\* coroutine is the one its event has in waiters_: its wakeup cannot be lost.
THEOREM SleepersRegistered ==
  ASSUME ~SharedAwait
  PROVE  Spec => []Registered
<1>1. Init => IInv /\ Registered
  BY InitIInv
<1>2. IInv /\ Registered /\ [Next]_vars => IInv' /\ Registered'
  BY StepKeeps, StutterKeeps DEF Next, Kept
<1> QED  BY <1>1, <1>2, PTL DEF Spec

\* A coroutine unblocks its own event before RequestFinalization, and nobody goes to
\* sleep on an event that was deleted; only the test at the head of WaitForEvent can
\* meet one, and then the promise was resolved with a pending one.
THEOREM NoDanglingEventInv == Spec => []NoDanglingEvent
<1>1. IInv => NoDanglingEvent
  <2> SUFFICES ASSUME IInv, NEW c \in Coros, arg[c] \in Cos
               PROVE  /\ pc[c] \in {"enter", "unblock", "unblocking"} => status[arg[c]] # "NONE"
                      /\ pc[c] = "wait" => status[arg[c]] # "NONE" \/ arg[c] \in following
    BY DEF NoDanglingEvent
  <2>1. CASE pc[c] \in {"wait", "enter"}
    <3>1. happened_[arg[c]] => pc[c] = "wait" /\ arg[c] \in following
      BY <2>1 DEF IInv, Waits
    <3>2. CoFits(arg[c])
      BY CorosFacts DEF IInv, Fitting, Fits
    <3> QED  BY <2>1, <3>1, <3>2 DEF CoFits
  <2>2. CASE pc[c] \in {"unblock", "unblocking"}
    <3>1. arg[c] = c
      BY <2>2, CorosFacts DEF IInv, Waits
    <3>2. CoFits(c)
      BY <3>1 DEF IInv, Fitting, Fits
    <3> QED  BY <2>2, <3>1, <3>2 DEF CoFits
  <2> QED  BY <2>1, <2>2
<1> QED  BY <1>1, Invariance, PTL

\* Main stops the workers after the last coroutine left the registry, whatever the
\* counters were while launches and terminations raced with its tests, and leaves
\* no coroutine behind in a queue, in waiters_ or to be destroyed.
THEOREM ShutdownCleanInv == Spec => []ShutdownClean
<1>1. ASSUME IInv, pc[Main] \in StopLabels, NEW d \in 1 .. launched
      PROVE  pc[d] \in {"none", "unblock", "unblocking", "check", "checkCount", "setProgram", "final"}
  <2>1. d \in Cos
    BY <1>1, CoroutinesAssumption DEF IInv, Types, Cos
  <2>2. CoFits(d) /\ ~IsLive(d)
    BY <1>1, <2>1, CorosFacts DEF IInv, Fitting, Fits, Stopping
  <2>3. d <= launched /\ ~(d > launched)
    BY <1>1 DEF IInv, Types
  <2> QED  BY <2>2, <2>3 DEF CoFits, IsLive, Ending
<1>2. ASSUME IInv, pc[Main] = "done", NEW w \in Workers
      PROVE  /\ runnables_[w] = <<>> /\ finalizationQueue_[w] = {}
             /\ \A e \in Events : waiters_[w][e] = None
             /\ cur[w] = IF w = MainWorker THEN Main ELSE None
  <2>1. /\ \A d \in Cos : ~IsLive(d)
        /\ \A v \in Workers : ~IsLoop(v) /\ (IsUp(v) => v = MainWorker)
    BY <1>2 DEF IInv, Stopping, StopLabels, DrainLabels
  <2>2. MainFits /\ status[Main] \in {"RUNNING", "AWAIT_LOOP"}
    BY <1>2, CorosFacts DEF IInv, Fitting, Fits, MainFits
  <2>3. \A c \in Coros : ~Queued(c) /\ status[c] # "BLOCKED" /\ pc[c] # "block"
    <3> SUFFICES ASSUME NEW c \in Coros
                 PROVE  ~Queued(c) /\ status[c] # "BLOCKED" /\ pc[c] # "block"
      OBVIOUS
    <3>1. CASE c \in Cos
      <4>1. CoFits(c) /\ ~IsLive(c)
        BY <3>1, <2>1, <1>2 DEF IInv, Fitting, Fits
      <4> QED  BY <4>1 DEF CoFits, IsLive, Queued, Ending
    <3>2. CASE c = Main
      BY <3>2, <2>2, <1>2 DEF Queued
    <3>3. CASE c \in Workers
      <4>1. LoopFits(c) /\ ~IsLoop(c)
        BY <3>3, <2>1, <1>2 DEF IInv, Fitting, Fits
      <4> QED  BY <4>1 DEF LoopFits, IsLoop, Queued, LoopLabels
    <3> QED  BY <3>1, <3>2, <3>3 DEF Coros
  <2>4. runnables_[w] = <<>>
    <3> SUFFICES ASSUME runnables_[w] # <<>>
                 PROVE  FALSE
      OBVIOUS
    <3>1. runnables_[w] \in Seq(Coros) /\ NoDup(runnables_[w])
      BY <1>2 DEF IInv, Types, Queues
    <3>2. Head(runnables_[w]) \in Coros /\ Head(runnables_[w]) \in InQueue(w)
      BY <3>1, ElemsTail DEF InQueue
    <3> QED  BY <3>2, <2>3, <1>2 DEF IInv, Queues
  <2>5. \A e \in Events : waiters_[w][e] = None
    BY <1>2, <2>3 DEF IInv, Types, Sleepers, Sleeping
  <2>6. cur[MainWorker] = Main
    <3>1. OnThread(Main)
      BY <2>2 DEF OnThread
    <3>2. PICK v \in Workers : cur[v] = Main
      BY <3>1, <1>2, CorosFacts DEF IInv, Threads
    <3> QED  BY <3>2, <1>2, CorosFacts DEF IInv, Homes, Home
  <2>7. w # MainWorker => cur[w] = None
    BY <1>2, <2>1 DEF IInv, Ends
  <2>8. finalizationQueue_[w] = {}
    BY <1>2, <2>6, <2>7 DEF IInv, Finalized
  <2> QED  BY <2>4, <2>5, <2>6, <2>7, <2>8
<1>3. IInv => ShutdownClean
  BY <1>1, <1>2 DEF ShutdownClean, StopLabels
<1> QED  BY <1>3, Invariance, PTL

-----------------------------------------------------------------------------
(* The places of a coroutine, counted.                                     *)

LEMMA Sizes ==
  ASSUME NEW S
  PROVE  /\ S = {} => Cardinality(S) = 0
         /\ \A x : S = {x} => Cardinality(S) = 1
BY FS_EmptySet, FS_Singleton

LauncherOf(c) == {w \in Workers : At(w, "enqueue") /\ arg[cur[w]] = c}
ThreadOf(c) == {w \in Workers : cur[w] = c}
DestroyerOf(c) == {w \in Workers : c \in finalizationQueue_[w]}
QueueOf(c) == UNION {{<<w, i>> : i \in {j \in DOMAIN runnables_[w] : runnables_[w][j] = c}} : w \in Workers}
BedOf(c) == {p \in Workers \X Events : waiters_[p[1]][p[2]] = c}

LEMMA LauncherSize ==
  ASSUME IInv, NEW c \in Coros
  PROVE  Cardinality(LauncherOf(c)) = IF Launching(c) THEN 1 ELSE 0
<1>1. CASE ~Launching(c)
  <2>1. LauncherOf(c) = {}
    BY <1>1 DEF IInv, Types, Launches, LauncherOf, At
  <2> QED  BY <1>1, <2>1, Sizes
<1>2. CASE Launching(c)
  <2>1. PICK b \in Coros : pc[b] = "enqueue" /\ arg[b] = c
    BY <1>2 DEF IInv, Launches
  <2>2. OnThread(b)
    <3>1. b \in Cos => CoFits(b)
      BY DEF IInv, Fitting, Fits
    <3>2. b = Main => MainFits
      BY DEF IInv, Fitting, Fits
    <3>3. b \in Workers => LoopFits(b)
      BY DEF IInv, Fitting, Fits
    <3> QED  BY <2>1, <3>1, <3>2, <3>3 DEF CoFits, MainFits, LoopFits, LoopLabels, Ending, OnThread, Coros
  <2>3. PICK w \in Workers : cur[w] = b
    BY <2>2 DEF IInv, Threads
  <2>4. LauncherOf(c) \subseteq {w}
    <3> SUFFICES ASSUME NEW v \in Workers, cur[v] # None, pc[cur[v]] = "enqueue", arg[cur[v]] = c
                 PROVE  v = w
      BY DEF LauncherOf, At
    <3>1. cur[v] = b
      BY <2>1 DEF IInv, Types, Launches
    <3> QED  BY <3>1, <2>3 DEF IInv, Threads
  <2>5. w \in LauncherOf(c)
    BY <2>1, <2>3, CorosFacts DEF LauncherOf, At
  <2>6. LauncherOf(c) = {w}
    BY <2>4, <2>5
  <2> QED  BY <1>2, <2>6, Sizes
<1> QED  BY <1>1, <1>2

LEMMA ThreadSize ==
  ASSUME IInv, NEW c \in Coros
  PROVE  Cardinality(ThreadOf(c)) = IF OnThread(c) THEN 1 ELSE 0
<1>1. CASE ~OnThread(c)
  <2>1. ThreadOf(c) = {}
    BY <1>1, CorosFacts DEF IInv, Threads, ThreadOf
  <2> QED  BY <1>1, <2>1, Sizes
<1>2. CASE OnThread(c)
  <2>1. PICK w \in Workers : cur[w] = c
    BY <1>2 DEF IInv, Threads
  <2>2. ThreadOf(c) = {w}
    BY <2>1, CorosFacts DEF IInv, Threads, ThreadOf
  <2> QED  BY <1>2, <2>2, Sizes
<1> QED  BY <1>1, <1>2

LEMMA DestroyerSize ==
  ASSUME IInv, NEW c \in Coros
  PROVE  Cardinality(DestroyerOf(c)) = IF Dying(c) THEN 1 ELSE 0
<1>1. CASE ~Dying(c)
  <2>1. DestroyerOf(c) = {}
    BY <1>1 DEF IInv, Dead, DestroyerOf
  <2> QED  BY <1>1, <2>1, Sizes
<1>2. CASE Dying(c)
  <2>1. PICK w \in Workers : c \in finalizationQueue_[w]
    BY <1>2 DEF IInv, Dead
  <2>2. DestroyerOf(c) = {w}
    BY <2>1 DEF IInv, Dead, DestroyerOf
  <2> QED  BY <1>2, <2>2, Sizes
<1> QED  BY <1>1, <1>2

LEMMA QueueSize ==
  ASSUME IInv, NEW c \in Coros
  PROVE  Cardinality(QueueOf(c)) = IF Queued(c) THEN 1 ELSE 0
<1>1. CASE ~Queued(c)
  <2>1. QueueOf(c) = {}
    BY <1>1 DEF IInv, Queues, InQueue, Elems, QueueOf
  <2> QED  BY <1>1, <2>1, Sizes
<1>2. CASE Queued(c)
  <2>1. PICK w \in Workers : c \in InQueue(w)
    BY <1>2 DEF IInv, Queues
  <2>2. PICK i \in DOMAIN runnables_[w] : runnables_[w][i] = c
    BY <2>1 DEF InQueue, Elems
  <2>3. \A v \in Workers : \A j \in DOMAIN runnables_[v] : runnables_[v][j] = c => v = w /\ j = i
    <3> SUFFICES ASSUME NEW v \in Workers, NEW j \in DOMAIN runnables_[v], runnables_[v][j] = c
                 PROVE  v = w /\ j = i
      OBVIOUS
    <3>1. v = w
      <4>1. c \in InQueue(v)
        BY DEF InQueue, Elems
      <4> QED  BY <4>1, <2>1 DEF IInv, Queues
    <3>2. NoDup(runnables_[w])
      BY DEF IInv, Queues
    <3> QED  BY <3>1, <3>2, <2>2 DEF NoDup
  <2>4. QueueOf(c) \subseteq {<<w, i>>}
    <3> SUFFICES ASSUME NEW v \in Workers, NEW j \in DOMAIN runnables_[v], runnables_[v][j] = c
                 PROVE  <<v, j>> = <<w, i>>
      BY DEF QueueOf
    <3> QED  BY <2>3
  <2>5. <<w, i>> \in QueueOf(c)
    BY <2>2 DEF QueueOf
  <2>6. QueueOf(c) = {<<w, i>>}
    BY <2>4, <2>5
  <2> QED  BY <1>2, <2>6, Sizes
<1> QED  BY <1>1, <1>2

LEMMA BedSize ==
  ASSUME IInv, Registered, NEW c \in Coros
  PROVE  /\ status[c] = "BLOCKED" \/ pc[c] = "block" => Cardinality(BedOf(c)) = 1
         /\ ~(status[c] = "BLOCKED" \/ pc[c] = "block") => Cardinality(BedOf(c)) = 0
<1>1. \A w \in Workers, e \in Events : waiters_[w][e] = c =>
        e = arg[c] /\ (status[c] = "BLOCKED" \/ pc[c] = "block")
  BY CorosFacts DEF IInv, Sleepers, Sleeping
<1>2. CASE ~(status[c] = "BLOCKED" \/ pc[c] = "block")
  <2>1. BedOf(c) = {}
    BY <1>1, <1>2 DEF BedOf
  <2> QED  BY <1>2, <2>1, Sizes
<1>3. CASE status[c] = "BLOCKED" \/ pc[c] = "block"
  <2>1. PICK w \in Workers : waiters_[w][arg[c]] = c
    <3>1. CASE status[c] = "BLOCKED"
      BY <3>1 DEF Registered
    <3>2. CASE pc[c] = "block"
      <4>1. OnThread(c)
        <5>1. c \in Cos => CoFits(c)
          BY DEF IInv, Fitting, Fits
        <5>2. c = Main => MainFits
          BY DEF IInv, Fitting, Fits
        <5>3. c \in Workers => LoopFits(c)
          BY DEF IInv, Fitting, Fits
        <5> QED  BY <3>2, <5>1, <5>2, <5>3 DEF CoFits, MainFits, LoopFits, LoopLabels, Ending, OnThread, Coros
      <4>2. PICK v \in Workers : cur[v] = c
        BY <4>1 DEF IInv, Threads
      <4> QED  BY <3>2, <4>2, CorosFacts DEF Registered
    <3> QED  BY <1>3, <3>1, <3>2
  <2>2. PICK e \in Events : e = arg[c]
    BY <1>3 DEF IInv, Waits
  <2>3. \A v \in Workers, x \in Events : waiters_[v][x] = c => v = w /\ x = e
    <3> SUFFICES ASSUME NEW v \in Workers, NEW x \in Events, waiters_[v][x] = c
                 PROVE  v = w /\ x = e
      OBVIOUS
    <3>1. x = e
      BY <1>1, <2>2
    <3> QED  BY <3>1, <2>1, <2>2, CorosFacts DEF IInv, Sleepers
  <2>4. BedOf(c) \subseteq {<<w, e>>}
    <3> SUFFICES ASSUME NEW p \in Workers \X Events, waiters_[p[1]][p[2]] = c
                 PROVE  p = <<w, e>>
      BY DEF BedOf
    <3> QED  BY <2>3
  <2>5. <<w, e>> \in BedOf(c)
    BY <2>1, <2>2 DEF BedOf
  <2>6. BedOf(c) = {<<w, e>>}
    BY <2>4, <2>5
  <2> QED  BY <1>3, <2>6, Sizes
<1> QED  BY <1>2, <1>3

\* The five kinds of places exclude each other, and a live coroutine has one.
LEMMA OneKind ==
  ASSUME IInv, NEW c \in Coros, status[c] \notin {"CREATED", "NONE"}
  PROVE  \/ OnThread(c) /\ ~Queued(c) /\ ~Launching(c) /\ ~Dying(c) /\ status[c] # "BLOCKED"
         \/ pc[c] # "block" /\ ~OnThread(c) /\
              (\/ Queued(c) /\ ~Launching(c) /\ ~Dying(c) /\ status[c] # "BLOCKED"
               \/ Launching(c) /\ ~Queued(c) /\ ~Dying(c) /\ status[c] # "BLOCKED"
               \/ Dying(c) /\ ~Queued(c) /\ ~Launching(c) /\ status[c] # "BLOCKED"
               \/ status[c] = "BLOCKED" /\ ~Queued(c) /\ ~Launching(c) /\ ~Dying(c))
<1>1. CASE c \in Cos
  <2>1. CoFits(c)
    BY <1>1 DEF IInv, Fitting, Fits
  <2> QED  BY <2>1 DEF CoFits, Ending, OnThread, Queued, Launching, Dying
<1>2. CASE c = Main
  <2>1. MainFits
    BY <1>2 DEF IInv, Fitting, Fits
  <2> QED  BY <1>2, <2>1 DEF MainFits, OnThread, Queued, Launching, Dying
<1>3. CASE c \in Workers
  <2>1. LoopFits(c)
    BY <1>3 DEF IInv, Fitting, Fits
  <2> QED  BY <2>1 DEF LoopFits, LoopLabels, OnThread, Queued, Launching, Dying
<1> QED  BY <1>1, <1>2, <1>3 DEF Coros

\* While the coroutines of a worker await different events, a coroutine is never
\* lost and never scheduled twice, and a worker that runs one has its loop to
\* switch to.
THEOREM OnePlaceInv ==
  ASSUME ~SharedAwait
  PROVE  Spec => []OnePlace
<1>1. ASSUME IInv, Registered, NEW c \in Coros, status[c] \notin {"CREATED", "NONE"}
      PROVE  IF pc[c] = "block" THEN Places(c) \in {1, 2} ELSE Places(c) = 1
  <2>1. Places(c) = Cardinality(LauncherOf(c)) + Cardinality(ThreadOf(c)) + Cardinality(DestroyerOf(c))
                    + Cardinality(QueueOf(c)) + Cardinality(BedOf(c))
    BY DEF Places, LauncherOf, ThreadOf, DestroyerOf, QueueOf, BedOf
  <2> DEFINE l == Cardinality(LauncherOf(c))
             t == Cardinality(ThreadOf(c))
             f == Cardinality(DestroyerOf(c))
             q == Cardinality(QueueOf(c))
             b == Cardinality(BedOf(c))
  <2>2. /\ l = IF Launching(c) THEN 1 ELSE 0
        /\ t = IF OnThread(c) THEN 1 ELSE 0
        /\ f = IF Dying(c) THEN 1 ELSE 0
        /\ q = IF Queued(c) THEN 1 ELSE 0
    BY <1>1, LauncherSize, ThreadSize, DestroyerSize, QueueSize
  <2>3. /\ status[c] = "BLOCKED" \/ pc[c] = "block" => b = 1
        /\ ~(status[c] = "BLOCKED" \/ pc[c] = "block") => b = 0
    BY <1>1, BedSize
  <2>4. \/ OnThread(c) /\ ~Queued(c) /\ ~Launching(c) /\ ~Dying(c) /\ status[c] # "BLOCKED"
        \/ pc[c] # "block" /\ ~OnThread(c) /\
             (\/ Queued(c) /\ ~Launching(c) /\ ~Dying(c) /\ status[c] # "BLOCKED"
              \/ Launching(c) /\ ~Queued(c) /\ ~Dying(c) /\ status[c] # "BLOCKED"
              \/ Dying(c) /\ ~Queued(c) /\ ~Launching(c) /\ status[c] # "BLOCKED"
              \/ status[c] = "BLOCKED" /\ ~Queued(c) /\ ~Launching(c) /\ ~Dying(c))
    BY <1>1, OneKind
  <2>5. Places(c) = l + t + f + q + b
    BY <2>1
  <2> HIDE DEF l, t, f, q, b
  <2> QED  BY <2>2, <2>3, <2>4, <2>5
<1>2. ASSUME IInv, NEW w \in Workers
      PROVE  /\ cur[w] # None => status[cur[w]] \in {"RUNNING", "TERMINATING", "AWAIT_LOOP", "NONE"}
             /\ \A i \in DOMAIN runnables_[w] : status[runnables_[w][i]] = "RUNNABLE"
             /\ \A e \in Events : waiters_[w][e] # None =>
                  status[waiters_[w][e]] = "BLOCKED" \/ pc[waiters_[w][e]] = "block"
  <2>1. cur[w] # None => status[cur[w]] \in {"RUNNING", "TERMINATING", "AWAIT_LOOP", "NONE"}
    BY <1>2 DEF IInv, Threads, OnThread
  <2>2. \A i \in DOMAIN runnables_[w] : status[runnables_[w][i]] = "RUNNABLE"
    <3> SUFFICES ASSUME NEW i \in DOMAIN runnables_[w]
                 PROVE  status[runnables_[w][i]] = "RUNNABLE"
      OBVIOUS
    <3>1. runnables_[w] \in Seq(Coros)
      BY <1>2 DEF IInv, Types
    <3>2. runnables_[w][i] \in Coros /\ runnables_[w][i] \in InQueue(w)
      BY <3>1 DEF InQueue, Elems
    <3> QED  BY <1>2, <3>2 DEF IInv, Queues, Queued
  <2>3. \A e \in Events : waiters_[w][e] # None =>
          status[waiters_[w][e]] = "BLOCKED" \/ pc[waiters_[w][e]] = "block"
    BY <1>2 DEF IInv, Sleepers, Sleeping
  <2> QED  BY <2>1, <2>2, <2>3
<1>3. ASSUME IInv, NEW w \in Workers, cur[w] \in Cos
      PROVE  \E i \in DOMAIN runnables_[w] : runnables_[w][i] = w
  <2>1. IsLoop(w) /\ LoopFits(w)
    BY <1>3, CorosFacts DEF IInv, Ends, Fitting, Fits
  <2>2. OnThread(w) \/ Queued(w)
    BY <2>1 DEF LoopFits, IsLoop, LoopLabels, OnThread, Queued
  <2>3. ~OnThread(w)
    <3> SUFFICES ASSUME OnThread(w)
                 PROVE  FALSE
      OBVIOUS
    <3>1. PICK v \in Workers : cur[v] = w
      BY <1>3, CorosFacts DEF IInv, Threads
    <3>2. v = w
      BY <1>3, <3>1, CorosFacts DEF IInv, Homes, Home
    <3> QED  BY <1>3, <3>1, <3>2, CorosFacts
  <2>4. PICK v \in Workers : w \in InQueue(v)
    BY <1>3, <2>2, <2>3, CorosFacts DEF IInv, Queues
  <2>5. v = w
    BY <1>3, <2>4, CorosFacts DEF IInv, Homes, Home
  <2> QED  BY <2>4, <2>5 DEF InQueue, Elems
<1>4. IInv /\ Registered => OnePlace
  BY <1>1, <1>2, <1>3 DEF OnePlace
<1> QED  BY <1>4, Invariance, SleepersRegistered, PTL

-----------------------------------------------------------------------------
(* The wakeups.                                                            *)

\* The labels of a coroutine whose event has happened and still has waiters; it
\* holds workersLock_ while it visits the workers in todo.
Waking == {"terminate", "unblock", "unblocking"}
Unblocks(d, v) ==
  \/ pc[d] = "terminate"
  \/ arg[d] = d /\ (pc[d] = "unblock" \/ (pc[d] = "unblocking" /\ v \in todo))
Unblocking ==
  /\ \A c \in Coros : pc[c] \in {"unblocking", "mStopping"} => workersLock_ = c
  /\ \A d \in Cos, v \in Workers : happened_[d] /\ waiters_[v][d] # None => Unblocks(d, v)

\* Only coroutines that end have these labels.
LEMMA WakersAreCos ==
  ASSUME IInv, NEW c \in Coros, pc[c] \in Waking
  PROVE  c \in Cos /\ c \notin Workers /\ c # Main
<1>1. c = Main => MainFits
  BY DEF IInv, Fitting, Fits
<1>2. c \in Workers => LoopFits(c)
  BY DEF IInv, Fitting, Fits
<1> QED  BY <1>1, <1>2, CorosFacts DEF MainFits, LoopFits, LoopLabels, Waking, Coros

\* What a step leaves alone that has nothing to do with the unblocking.
Calm ==
  /\ \A d \in Cos : happened_'[d] = happened_[d]
  /\ workersLock_' = workersLock_ /\ todo' = todo
  /\ \A v \in Workers, d \in Cos : waiters_'[v][d] # None => waiters_[v][d] # None
  /\ \A c \in Coros : pc[c] \in Waking => pc'[c] = pc[c] /\ arg'[c] = arg[c]
  /\ \A c \in Coros : pc'[c] \in {"unblocking", "mStopping"} => pc'[c] = pc[c]

LEMMA CalmKeeps ==
  ASSUME Unblocking, Calm
  PROVE  Unblocking'
<1>1. \A c \in Coros : pc'[c] \in {"unblocking", "mStopping"} => workersLock_' = c
  BY DEF Unblocking, Calm
<1>2. ASSUME NEW d \in Cos, NEW v \in Workers, happened_'[d], waiters_'[v][d] # None
      PROVE  Unblocks(d, v)'
  <2>1. Unblocks(d, v)
    BY <1>2 DEF Unblocking, Calm
  <2>2. d \in Coros /\ pc[d] \in Waking
    BY <2>1 DEF Unblocks, Waking, Coros
  <2> QED  BY <2>1, <2>2 DEF Unblocks, Calm
<1> QED  BY <1>1, <1>2 DEF Unblocking

\* The coroutine of a worker goes on, and no other.
LEMMA CalmMove ==
  ASSUME IInv, NEW w \in Workers, NEW k, NEW l, Goto(w, k, l),
         k \notin Waking, l \notin {"unblocking", "mStopping"},
         \A b \in Coros \ {cur[w]} : arg'[b] = arg[b],
         \A d \in Cos : happened_'[d] = happened_[d],
         UNCHANGED <<workersLock_, todo, waiters_>>
  PROVE  Calm
<1>1. cur[w] \in Coros /\ pc[cur[w]] = k /\ pc = [c \in Coros |-> pc[c]]
  BY DEF IInv, Types, Goto, At
<1>2. pc'[cur[w]] = l /\ \A c \in Coros \ {cur[w]} : pc'[c] = pc[c]
  BY <1>1 DEF Goto
<1> QED  BY <1>1, <1>2 DEF Calm

\* Steps that change the label of the present coroutine and no other.
LEMMA MovesCalm ==
  ASSUME IInv, NEW w \in Workers,
         \/ Resume(w) \/ LoopTest(w) \/ RequestCompletion(w) \/ Follow(w)
         \/ CheckLock(w) \/ CheckProgramCompletion(w)
         \/ FiberLoopEnd(w) \/ ThreadLoopEnd(w)
         \/ MainCompleted(w) \/ MainLock(w) \/ MainCheck(w) \/ MainDone(w)
  PROVE  Calm
<1>1. CASE Resume(w)
  <2>1. PICK k \in Switched : Goto(w, k, Resumed[k])
    BY <1>1, ResumedFacts DEF Resume
  <2>2. Resumed[k] \notin {"unblocking", "mStopping"} /\ k \notin Waking
    BY ResumedFacts DEF Switched, Waking
  <2> QED  BY <1>1, <2>1, <2>2, CalmMove DEF Resume, Goto, At, lockVars, eventVars
<1>2. CASE LoopTest(w)
  BY <1>2, CalmMove DEF LoopTest, Waking, lockVars, workerVars, eventVars
<1>3. CASE RequestCompletion(w)
  BY <1>3, CalmMove DEF RequestCompletion, Waking, lockVars, workerVars, eventVars
<1>3a. CASE Follow(w)
  BY <1>3a, CalmMove DEF Follow, Waking, lockVars, workerVars
<1>4. CASE CheckLock(w)
  BY <1>4, CalmMove DEF CheckLock, Waking, workerVars, eventVars
<1>5. CASE CheckProgramCompletion(w)
  BY <1>5, CalmMove DEF CheckProgramCompletion, Waking, workerVars, eventVars
<1>6. CASE FiberLoopEnd(w)
  BY <1>6, CalmMove DEF FiberLoopEnd, Waking, lockVars, workerVars, eventVars
<1>7. CASE ThreadLoopEnd(w)
  BY <1>7, CalmMove DEF ThreadLoopEnd, Waking, lockVars, workerVars, eventVars
<1>8. CASE MainCompleted(w)
  BY <1>8, CalmMove DEF MainCompleted, Waking, lockVars, workerVars, eventVars
<1>9. CASE MainLock(w)
  BY <1>9, CalmMove DEF MainLock, Waking, workerVars, eventVars
<1>10. CASE MainCheck(w)
  BY <1>10, CalmMove DEF MainCheck, Waking, workerVars, eventVars
<1>11. CASE MainDone(w)
  BY <1>11, CalmMove DEF MainDone, Waking, lockVars, workerVars, eventVars
<1> QED  BY <1>1, <1>2, <1>3, <1>3a, <1>4, <1>5, <1>6, <1>7, <1>8, <1>9, <1>10, <1>11

\* Steps that settle a promise.
LEMMA SettlesCalm ==
  ASSUME NEW w \in Workers, Resolve(w) \/ (\E d \in Cos : ResolveFollower(w, d))
  PROVE  Calm
BY DEF Resolve, ResolveFollower, Calm, workerVars, lockVars

\* Steps that change the argument or the event of the present coroutine as well.
LEMMA ArgumentsCalm ==
  ASSUME IInv, NEW w \in Workers,
         LaunchRegister(w) \/ (\E d \in Cos : Await(w, d)) \/ WaitTest(w) \/ MainReset(w)
  PROVE  Calm
<1>1. arg = [c \in Coros |-> arg[c]] /\ happened_ = [e \in Events |-> happened_[e]]
  BY DEF IInv, Types
<1>2. CASE LaunchRegister(w)
  <2>1. \A b \in Coros \ {cur[w]} : arg'[b] = arg[b]
    BY <1>1, <1>2 DEF LaunchRegister
  <2> QED  BY <2>1, <1>2, CalmMove DEF LaunchRegister, Waking, lockVars, workerVars, eventVars
<1>3. CASE \E d \in Cos : Await(w, d)
  <2>1. PICK d \in Cos : Await(w, d)
    BY <1>3
  <2>2. \A b \in Coros \ {cur[w]} : arg'[b] = arg[b]
    BY <1>1, <2>1 DEF Await
  <2>3. Goto(w, "run", "wait")
    BY <2>1 DEF Await, Goto
  <2> QED  BY <2>1, <2>2, <2>3, CalmMove DEF Await, Waking, workerVars, eventVars
<1>4. CASE WaitTest(w)
  <2>1. \A b \in Coros \ {cur[w]} : arg'[b] = arg[b]
    BY <1>1, <1>4 DEF WaitTest
  <2>2. (IF happened_[arg[cur[w]]] THEN Resumed[After(arg[cur[w]])] ELSE "enter") \notin {"unblocking", "mStopping"}
    BY ResumedFacts DEF After
  <2> QED  BY <2>1, <2>2, <1>4, CalmMove DEF WaitTest, Waking, workerVars, eventVars
<1>5. CASE MainReset(w)
  <2>1. cur[w] = Main
    <3>1. cur[w] \in Coros /\ OnThread(cur[w]) /\ pc[cur[w]] = "mReset"
      BY <1>5, CurFacts DEF MainReset, Goto, At
    <3> QED  BY <3>1, Kinds DEF IInv
  <2>2. \A b \in Coros \ {cur[w]} : arg'[b] = arg[b]
    BY <1>1, <2>1, <1>5 DEF MainReset
  <2>3. \A d \in Cos : happened_'[d] = happened_[d]
    BY <1>1, <1>5, CorosFacts DEF MainReset
  <2> QED  BY <2>2, <2>3, <1>5, CalmMove DEF MainReset, Waking, workerVars
<1> QED  BY <1>2, <1>3, <1>4, <1>5

\* The switches: who is left stays at a label to go on from.
LEMMA SwitchesCalm ==
  ASSUME IInv, NEW w \in Workers,
         \/ LoopSchedule(w) \/ Schedule(w) \/ BlockAndScheduleNext(w)
         \/ RequestFinalization(w) \/ MainDrain(w)
  PROVE  Calm
<1>1. PICK l \in Switched \cup {"none"} : Goto(w, pc[cur[w]], l)
  <2>1. CASE LoopSchedule(w)
    BY <2>1 DEF LoopSchedule, SuspendAndScheduleNext, SwitchToNext, Goto, At, Switched
  <2>2. CASE Schedule(w)
    BY <2>2 DEF Schedule, SuspendAndScheduleNext, SwitchToNext, Goto, At, Switched
  <2>3. CASE BlockAndScheduleNext(w)
    BY <2>3 DEF BlockAndScheduleNext, SwitchToNext, Goto, At, Switched, After
  <2>4. CASE RequestFinalization(w)
    BY <2>4 DEF RequestFinalization, SwitchToNext, Goto, At
  <2>5. CASE MainDrain(w)
    BY <2>5 DEF MainDrain, SuspendAndScheduleNext, SwitchToNext, Goto, At, Switched
  <2> QED  BY <2>1, <2>2, <2>3, <2>4, <2>5
<1>2. pc[cur[w]] \notin Waking
  BY DEF LoopSchedule, Schedule, BlockAndScheduleNext, RequestFinalization, MainDrain, At, Waking
<1>3. UNCHANGED <<arg, happened_, workersLock_, todo, waiters_>>
  BY DEF LoopSchedule, Schedule, BlockAndScheduleNext, RequestFinalization, MainDrain,
         SuspendAndScheduleNext, eventVars, lockVars
<1>4. l \notin {"unblocking", "mStopping"}
  BY DEF Switched
<1> QED  BY <1>1, <1>2, <1>3, <1>4, CalmMove

\* Steps that wake up a thread.
LEMMA SignalsCalm ==
  ASSUME IInv, NEW w \in Workers,
         \/ WaitForRunnables(w) \/ OnWorkerShutdown(w)
         \/ \E v \in Workers, front \in BOOLEAN : LaunchEnqueue(w, v, front)
  PROVE  Calm
<1>1. pc = [c \in Coros |-> pc[c]] /\ arg = [c \in Coros |-> arg[c]]
  BY DEF IInv, Types
<1>2. CASE WaitForRunnables(w)
  <2>1. PICK l \in {"cvWait", "loop"} : pc' = [pc EXCEPT ![w] = l]
    BY <1>2 DEF WaitForRunnables
  <2>2. pc'[w] = l /\ \A c \in Coros \ {w} : pc'[c] = pc[c]
    BY <1>1, <2>1, CorosFacts
  <2>3. \A c \in Coros : pc[c] \in Waking => c # w
    BY WakersAreCos
  <2>4. UNCHANGED <<arg, happened_, workersLock_, todo, waiters_>>
    BY <1>2 DEF WaitForRunnables, eventVars, lockVars, workerVars
  <2> QED  BY <2>2, <2>3, <2>4 DEF Calm
<1>3. CASE OnWorkerShutdown(w)
  <2>1. PICK l : /\ l = pc[Main] \/ l = "mStopWake"
                 /\ pc' = [pc EXCEPT ![w] = "none", ![Main] = l]
    <3>1. pc' = [pc EXCEPT ![w] = "none", ![Main] = IF @ = "mStopWait" THEN "mStopWake" ELSE @]
      BY <1>3 DEF OnWorkerShutdown
    <3>2. [pc EXCEPT ![w] = "none"][Main] = pc[Main]
      BY <1>1, CorosFacts
    <3> QED  BY <3>1, <3>2
  <2>2. pc'[w] = "none" /\ pc'[Main] = l /\ \A c \in Coros \ {w, Main} : pc'[c] = pc[c]
    BY <1>1, <2>1, CorosFacts
  <2>3. \A c \in Coros : pc[c] \in Waking => c # w /\ c # Main
    BY WakersAreCos
  <2>4. UNCHANGED <<arg, happened_, workersLock_, todo, waiters_>>
    BY <1>3 DEF OnWorkerShutdown, eventVars, lockVars, workerVars
  <2> QED  BY <2>1, <2>2, <2>3, <2>4 DEF Calm
<1>4. ASSUME NEW v \in Workers, NEW front \in BOOLEAN, LaunchEnqueue(w, v, front)
      PROVE  Calm
  <2>1. PICK c \in Coros : c = cur[w] /\ pc[c] = "enqueue"
    BY <1>4, CurFacts DEF LaunchEnqueue, At
  <2>2. PICK d \in Cos : d = arg[c] /\ pc[d] = "none"
    BY <2>1 DEF IInv, Launches, Launching
  <2> DEFINE f == [pc EXCEPT ![c] = "run", ![d] = "run"]
  <2>3. /\ pc' = Signalled(v, f) /\ arg' = [arg EXCEPT ![c] = None]
        /\ UNCHANGED <<happened_, workersLock_, todo, waiters_>>
    BY <1>4, <2>1, <2>2 DEF LaunchEnqueue, eventVars, lockVars
  <2>4. f = [b \in Coros |-> f[b]] /\ \A b \in Coros : f[b] = IF b = c \/ b = d THEN "run" ELSE pc[b]
    BY <1>1, <2>2, CorosFacts
  <2> HIDE DEF f
  <2>5. \A b \in Coros : pc'[b] = f[b] \/ (b = v /\ pc'[b] = "cvWake")
    BY <2>3, <2>4 DEF Signalled
  <2>6. \A b \in Coros : pc[b] \in Waking => b # v /\ b # c /\ b # d
    BY <2>1, <2>2, WakersAreCos DEF Waking
  <2>7. \A b \in Coros : b # c => arg'[b] = arg[b]
    BY <1>1, <2>3
  <2> QED  BY <2>3, <2>4, <2>5, <2>6, <2>7 DEF Calm
<1> QED  BY <1>2, <1>3, <1>4

LEMMA GotoFacts ==
  ASSUME IInv, NEW w \in Workers, NEW k, NEW l, Goto(w, k, l)
  PROVE  /\ cur[w] \in Coros /\ OnThread(cur[w]) /\ pc[cur[w]] = k /\ pc'[cur[w]] = l
         /\ \A b \in Coros \ {cur[w]} : pc'[b] = pc[b]
<1>1. cur[w] \in Coros /\ OnThread(cur[w]) /\ pc = [c \in Coros |-> pc[c]]
  BY CurFacts DEF IInv, Types, Goto, At
<1> QED  BY <1>1 DEF Goto, At

\* Main takes and gives up workersLock_ and stops the workers.
LEMMA StopsUnblocking ==
  ASSUME IInv, Unblocking, NEW w \in Workers,
         \/ MainStop(w) \/ MainStopCheck(w) \/ MainStopWake(w)
         \/ \E v \in Workers : SetInactive(w, v)
  PROVE  Unblocking'
<1>1. CASE MainStop(w) \/ MainStopWake(w)
  <2>1. PICK k \in {"mStop", "mStopWake"} : Goto(w, k, "mStopping")
    BY <1>1 DEF MainStop, MainStopWake
  <2>2. cur[w] = Main
    BY <2>1, GotoFacts, Kinds DEF IInv, StopLabels
  <2>3. /\ workersLock_ = None /\ workersLock_' = Main
        /\ UNCHANGED <<arg, happened_, waiters_>>
    BY <1>1, <2>2 DEF MainStop, MainStopWake, eventVars, workerVars
  <2>4. /\ pc'[Main] = "mStopping" /\ \A b \in Coros \ {Main} : pc'[b] = pc[b]
    BY <2>1, <2>2, GotoFacts
  <2>5. \A b \in Coros : pc[b] \notin {"unblocking", "mStopping"}
    BY <2>3, CorosFacts DEF Unblocking
  <2> QED  BY <2>3, <2>4, <2>5, CorosFacts DEF Unblocking, Unblocks
<1>2. CASE MainStopCheck(w)
  <2>1. PICK l \in {"mStopWait", "mDrain"} : Goto(w, "mStopping", l)
    BY <1>2 DEF MainStopCheck
  <2>2. cur[w] = Main /\ pc[Main] = "mStopping"
    BY <2>1, GotoFacts, Kinds DEF IInv, StopLabels
  <2>3. UNCHANGED <<arg, happened_, waiters_, todo>>
    BY <1>2 DEF MainStopCheck, eventVars, workerVars
  <2>4. /\ pc'[Main] = l /\ \A b \in Coros \ {Main} : pc'[b] = pc[b]
    BY <2>1, <2>2, GotoFacts
  <2>5. \A b \in Coros \ {Main} : pc[b] \notin {"unblocking", "mStopping"}
    BY <2>2, CorosFacts DEF Unblocking
  <2> QED  BY <2>3, <2>4, <2>5, CorosFacts DEF Unblocking, Unblocks
<1>3. ASSUME NEW v \in Workers, SetInactive(w, v)
      PROVE  Unblocking'
  <2>1. cur[w] \in Coros /\ pc[cur[w]] = "mStopping"
    BY <1>3, CurFacts DEF SetInactive, At
  <2>2. pc' = Signalled(v, pc) /\ UNCHANGED <<arg, happened_, waiters_, workersLock_>>
    BY <1>3 DEF SetInactive, eventVars, lockVars
  <2>3. pc = [b \in Coros |-> pc[b]]
    BY DEF IInv, Types
  <2>4. \A b \in Coros : pc'[b] = pc[b] \/ (b = v /\ pc'[b] = "cvWake")
    BY <2>2, <2>3 DEF Signalled
  <2>5. \A b \in Coros : pc[b] # "unblocking"
    BY <2>1 DEF Unblocking
  <2>6. \A d \in Cos : pc'[d] = pc[d] /\ d \in Coros
    BY <2>4, CorosFacts
  <2> QED  BY <2>2, <2>4, <2>5, <2>6 DEF Unblocking, Unblocks
<1> QED  BY <1>1, <1>2, <1>3

\* The event of a coroutine happens, and the coroutine goes on to unblock its
\* waiters.  SetHappened has the lock of the event, as who enters waiters_.
LEMMA EndsUnblocking ==
  ASSUME IInv, Unblocking, NEW w \in Workers,
         \/ SetHappened(w) \/ TerminateCoroutine(w) \/ SetProgramHappened(w)
         \/ WaitForEvent(w)
  PROVE  Unblocking'
<1>1. /\ arg = [c \in Coros |-> arg[c]] /\ happened_ = [e \in Events |-> happened_[e]]
      /\ waiters_ \in [Workers -> [Events -> Coros \cup {None}]]
  BY DEF IInv, Types
<1>2. CASE SetHappened(w)
  <2>1. PICK c \in Cos : c = cur[w] /\ Goto(w, "complete", "terminate")
    <3>1. Goto(w, "complete", "terminate")
      BY <1>2 DEF SetHappened, Goto
    <3> QED  BY <3>1, GotoFacts, Kinds DEF IInv
  <2>2. /\ happened_' = [happened_ EXCEPT ![c] = TRUE]
        /\ UNCHANGED <<arg, waiters_, workersLock_, todo>>
    BY <1>2, <2>1 DEF SetHappened, workerVars, lockVars
  <2>3. \A d \in Cos : d # c => happened_'[d] = happened_[d]
    BY <1>1, <2>2, CorosFacts
  <2>4. pc[c] = "complete" /\ pc'[c] = "terminate" /\ \A b \in Coros \ {c} : pc'[b] = pc[b]
    BY <2>1, GotoFacts
  <2> QED  BY <2>2, <2>3, <2>4, CorosFacts DEF Unblocking, Unblocks
<1>3. CASE TerminateCoroutine(w)
  <2>1. Goto(w, "terminate", "unblock")
    BY <1>3 DEF TerminateCoroutine
  <2>2. PICK c \in Coros : c = cur[w]
    BY <2>1, GotoFacts
  <2>3. pc[c] = "terminate" /\ pc'[c] = "unblock" /\ \A b \in Coros \ {c} : pc'[b] = pc[b]
    BY <2>1, <2>2, GotoFacts
  <2>4. arg'[c] = c /\ \A b \in Coros \ {c} : arg'[b] = arg[b]
    BY <1>1, <1>3, <2>2 DEF TerminateCoroutine
  <2>5. UNCHANGED <<happened_, waiters_, workersLock_, todo>>
    BY <1>3 DEF TerminateCoroutine, workerVars, eventVars, lockVars
  <2> QED  BY <2>3, <2>4, <2>5, CorosFacts DEF Unblocking, Unblocks
<1>4. CASE SetProgramHappened(w)
  <2>1. Goto(w, "setProgram", "unblock")
    BY <1>4 DEF SetProgramHappened
  <2>2. PICK c \in Coros : c = cur[w]
    BY <2>1, GotoFacts
  <2>3. pc[c] = "setProgram" /\ pc'[c] = "unblock" /\ \A b \in Coros \ {c} : pc'[b] = pc[b]
    BY <2>1, <2>2, GotoFacts
  <2>4. \A b \in Coros \ {c} : arg'[b] = arg[b]
    BY <1>1, <1>4, <2>2 DEF SetProgramHappened
  <2>5. \A d \in Cos : happened_'[d] = happened_[d]
    BY <1>1, <1>4, CorosFacts DEF SetProgramHappened
  <2>6. UNCHANGED <<waiters_, workersLock_, todo>>
    BY <1>4 DEF SetProgramHappened, workerVars, lockVars
  <2> QED  BY <2>3, <2>4, <2>5, <2>6, CorosFacts DEF Unblocking, Unblocks
<1>5. CASE WaitForEvent(w)
  <2>1. Goto(w, "enter", "block")
    BY <1>5 DEF WaitForEvent
  <2>2. PICK c \in Coros : c = cur[w]
    BY <2>1, GotoFacts
  <2>3. pc[c] = "enter" /\ pc'[c] = "block" /\ \A b \in Coros \ {c} : pc'[b] = pc[b]
    BY <2>1, <2>2, GotoFacts
  <2>4. PICK e \in Events : e = arg[c] /\ (e \in Cos => ~happened_[e])
    BY <2>3 DEF IInv, Waits
  <2>5. waiters_' = [waiters_ EXCEPT ![w][e] = IF @ = None THEN c ELSE @]
    BY <1>5, <2>2, <2>4 DEF WaitForEvent
  <2>6. \A v \in Workers, d \in Cos : d # e => waiters_'[v][d] = waiters_[v][d]
    BY <1>1, <2>5, CorosFacts
  <2>7. UNCHANGED <<happened_, arg, workersLock_, todo>>
    BY <1>5 DEF WaitForEvent, eventVars
  <2> QED  BY <2>3, <2>4, <2>6, <2>7, CorosFacts DEF Unblocking, Unblocks
<1> QED  BY <1>2, <1>3, <1>4, <1>5

\* StackfulCoroutineManager::UnblockWaiters: one worker after the other is visited
\* under workersLock_, and no coroutine is left behind at one that was visited.
LEMMA UnblocksUnblocking ==
  ASSUME IInv, Unblocking, NEW w \in Workers,
         \/ UnblockStart(w) \/ UnblockEnd(w)
         \/ \E v \in Workers : UnblockWaiters(w, v)
  PROVE  Unblocking'
<1>1. /\ arg = [c \in Coros |-> arg[c]] /\ pc = [c \in Coros |-> pc[c]]
      /\ waiters_ \in [Workers -> [Events -> Coros \cup {None}]]
  BY DEF IInv, Types
<1>2. CASE UnblockStart(w)
  <2>1. Goto(w, "unblock", "unblocking")
    BY <1>2 DEF UnblockStart
  <2>2. PICK c \in Coros : c = cur[w]
    BY <2>1, GotoFacts
  <2>3. pc[c] = "unblock" /\ pc'[c] = "unblocking" /\ \A b \in Coros \ {c} : pc'[b] = pc[b]
    BY <2>1, <2>2, GotoFacts
  <2>4. /\ workersLock_ = None /\ workersLock_' = c /\ todo' = Workers
        /\ UNCHANGED <<arg, happened_, waiters_>>
    BY <1>2, <2>2 DEF UnblockStart, workerVars, eventVars
  <2>5. \A b \in Coros : pc[b] \notin {"unblocking", "mStopping"}
    BY <2>4, CorosFacts DEF Unblocking
  <2> QED  BY <2>3, <2>4, <2>5, CorosFacts DEF Unblocking, Unblocks
<1>3. CASE UnblockEnd(w)
  <2>1. PICK l \in {"final", "check"} : Goto(w, "unblocking", l)
    BY <1>3 DEF UnblockEnd
  <2>2. PICK c \in Coros : c = cur[w]
    BY <2>1, GotoFacts
  <2>3. pc[c] = "unblocking" /\ pc'[c] = l /\ \A b \in Coros \ {c} : pc'[b] = pc[b]
    BY <2>1, <2>2, GotoFacts
  <2>4. todo = {} /\ UNCHANGED <<happened_, waiters_, todo>>
    BY <1>3 DEF UnblockEnd, workerVars, eventVars
  <2>5. \A b \in Coros \ {c} : arg'[b] = arg[b]
    BY <1>1, <1>3, <2>2 DEF UnblockEnd
  <2>6. \A b \in Coros \ {c} : pc[b] \notin {"unblocking", "mStopping"}
    BY <2>3 DEF Unblocking
  <2> QED  BY <2>3, <2>4, <2>5, <2>6, CorosFacts DEF Unblocking, Unblocks
<1>4. ASSUME NEW v \in Workers, UnblockWaiters(w, v)
      PROVE  Unblocking'
  <2>1. PICK c \in Coros : c = cur[w] /\ pc[c] = "unblocking"
    BY <1>4, CurFacts DEF UnblockWaiters, At
  <2>2. PICK e \in Events : e = arg[c] /\ e \in {c, Program}
    BY <2>1, WakersAreCos, CorosFacts DEF IInv, Waits, Waking
  <2>3. /\ todo' = todo \ {v}
        /\ UNCHANGED <<happened_, workersLock_>>
    BY <1>4 DEF UnblockWaiters, eventVars, lockVars
  <2>4. /\ waiters_'[v][e] = None
        /\ \A u \in Workers, x \in Events : waiters_'[u][x] # None => waiters_[u][x] # None
    <3>1. (waiters_' = waiters_ /\ waiters_[v][e] = None) \/ waiters_' = [waiters_ EXCEPT ![v][e] = None]
      BY <1>4, <2>1, <2>2 DEF UnblockWaiters
    <3> QED  BY <1>1, <3>1
  <2>5. \A b \in Coros : pc'[b] = pc[b] \/ (b = v /\ pc'[b] = "cvWake")
    <3>1. pc' = pc \/ pc' = Signalled(v, pc)
      BY <1>4 DEF UnblockWaiters
    <3> QED  BY <1>1, <3>1 DEF Signalled
  <2>6. \A b \in Coros : pc[b] \in Waking => arg'[b] = arg[b]
    <3>1. CASE waiters_[v][e] = None
      BY <1>4, <2>1, <2>2, <3>1 DEF UnblockWaiters
    <3>2. CASE waiters_[v][e] # None
      <4>1. PICK d \in Coros : d = waiters_[v][e] /\ arg' = [arg EXCEPT ![d] = None]
        <5>1. waiters_[v][e] \in Coros
          BY <1>1, <3>2
        <5>2. arg' = [arg EXCEPT ![waiters_[v][e]] = None]
          BY <1>4, <2>1, <2>2, <3>2 DEF UnblockWaiters
        <5> QED  BY <5>1, <5>2
      <4>2. status[d] = "BLOCKED" \/ pc[d] = "block"
        BY <3>2, <4>1 DEF IInv, Sleepers, Sleeping
      <4>3. d \in Cos => CoFits(d)
        BY DEF IInv, Fitting, Fits
      <4>4. pc[d] \notin Waking
        BY <4>2, <4>3, WakersAreCos DEF CoFits, Waking
      <4> QED  BY <1>1, <4>1, <4>4
    <3> QED  BY <3>1, <3>2
  <2>7. \A b \in Coros \ {c} : pc[b] \notin {"unblocking", "mStopping"}
    BY <2>1 DEF Unblocking
  <2>8. \A b \in Coros : pc'[b] \in {"unblocking", "mStopping"} => workersLock_' = b
    BY <2>3, <2>5 DEF Unblocking
  <2>9. ASSUME NEW d \in Cos, NEW u \in Workers, happened_'[d], waiters_'[u][d] # None
        PROVE  Unblocks(d, u)'
    <3>1. Unblocks(d, u) /\ d \in Coros /\ d # v /\ d \in Events
      BY <2>3, <2>4, <2>9, CorosFacts DEF Unblocking
    <3>2. pc[d] \in Waking /\ pc'[d] = pc[d] /\ arg'[d] = arg[d]
      BY <2>5, <2>6, <3>1 DEF Unblocks, Waking
    <3>3. d = c /\ arg[d] = d => u # v
      BY <2>2, <2>4, <2>9
    <3>4. pc[d] = "unblocking" => d = c
      BY <2>7, <3>1
    <3> QED  BY <2>3, <3>1, <3>2, <3>3, <3>4 DEF Unblocks
  <2> QED  BY <2>8, <2>9 DEF Unblocking
<1> QED  BY <1>2, <1>3, <1>4

LEMMA StepUnblocking ==
  ASSUME IInv, Unblocking, NEW w \in Workers, Step(w)
  PROVE  Unblocking'
<1>1. CASE Resume(w) \/ LoopTest(w) \/ LoopSchedule(w) \/ WaitForRunnables(w) \/ Schedule(w)
  BY <1>1, CalmKeeps, MovesCalm, SwitchesCalm, SignalsCalm
<1>2. CASE LaunchRegister(w) \/ (\E v \in Workers, front \in BOOLEAN : LaunchEnqueue(w, v, front))
  BY <1>2, CalmKeeps, ArgumentsCalm, SignalsCalm
<1>3. CASE (\E d \in Cos : Await(w, d)) \/ WaitTest(w) \/ WaitForEvent(w) \/ BlockAndScheduleNext(w)
  BY <1>3, CalmKeeps, ArgumentsCalm, SwitchesCalm, EndsUnblocking
<1>4. CASE UnblockStart(w) \/ (\E v \in Workers : UnblockWaiters(w, v)) \/ UnblockEnd(w)
  BY <1>4, UnblocksUnblocking
<1>5. CASE Resolve(w) \/ RequestCompletion(w) \/ Follow(w) \/ (\E d \in Cos : ResolveFollower(w, d))
  BY <1>5, CalmKeeps, SettlesCalm, MovesCalm
<1>5a. CASE SetHappened(w) \/ TerminateCoroutine(w)
  BY <1>5a, EndsUnblocking
<1>6. CASE CheckLock(w) \/ CheckProgramCompletion(w) \/ SetProgramHappened(w)
  BY <1>6, CalmKeeps, MovesCalm, EndsUnblocking
<1>7. CASE RequestFinalization(w) \/ FiberLoopEnd(w) \/ ThreadLoopEnd(w) \/ OnWorkerShutdown(w)
  BY <1>7, CalmKeeps, MovesCalm, SwitchesCalm, SignalsCalm
<1>8. CASE MainCompleted(w) \/ MainLock(w) \/ MainCheck(w) \/ MainReset(w) \/ MainStop(w)
  BY <1>8, CalmKeeps, MovesCalm, ArgumentsCalm, StopsUnblocking
<1>9. CASE (\E v \in Workers : SetInactive(w, v)) \/ MainStopCheck(w) \/ MainStopWake(w)
  BY <1>9, StopsUnblocking
<1>10. CASE MainDrain(w) \/ MainDone(w)
  BY <1>10, CalmKeeps, MovesCalm, SwitchesCalm
<1> QED  BY <1>1, <1>2, <1>3, <1>4, <1>5, <1>5a, <1>6, <1>7, <1>8, <1>9, <1>10 DEF Step

\* Whoever is in waiters_ after its event happened will be unblocked by the
\* coroutine of that event, which has not visited that worker yet: no wakeup is
\* lost between the test of the event and the entry in waiters_.
THEOREM UnblockingInv == Spec => []Unblocking
<1>1. Init => Unblocking
  BY CorosFacts DEF Init, Unblocking
<1>2. IInv /\ Unblocking /\ [Next]_vars => Unblocking'
  <2> SUFFICES ASSUME IInv, Unblocking, [Next]_vars
               PROVE  Unblocking'
    OBVIOUS
  <2>1. CASE Next
    BY <2>1, StepUnblocking DEF Next
  <2>2. CASE UNCHANGED vars
    BY <2>2 DEF Unblocking, Unblocks, vars, workerVars, eventVars, lockVars
  <2> QED  BY <2>1, <2>2
<1> QED  BY <1>1, <1>2, Invariance, PTL DEF Spec

\* Unless coroutines of one worker await the same event, none of the coroutines
\* that wait for an event is still blocked when the coroutine that completed goes
\* on: what the comment at UnblockWaiters promises.
THEOREM AllUnblockedInv ==
  ASSUME ~SharedAwait
  PROVE  Spec => []AllUnblocked
<1>1. IInv /\ Registered /\ Unblocking => AllUnblocked
  <2> SUFFICES ASSUME IInv, Registered, Unblocking,
                      NEW c \in Coros, status[c] = "BLOCKED", arg[c] \in Cos, happened_[arg[c]]
               PROVE  pc[arg[c]] \in {"terminate", "unblock", "unblocking"}
    BY DEF AllUnblocked
  <2>1. PICK w \in Workers : waiters_[w][arg[c]] = c
    BY DEF Registered
  <2>2. waiters_[w][arg[c]] # None
    BY <2>1, CorosFacts
  <2> QED  BY <2>2 DEF Unblocking, Unblocks
<1> QED  BY <1>1, Invariance, SleepersRegistered, UnblockingInv, PTL
=============================================================================
