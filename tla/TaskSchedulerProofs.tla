------------------------ MODULE TaskSchedulerProofs ------------------------
(***************************************************************************)
(* Proofs for module TaskScheduler: the lock-free counters are exact, and  *)
(* Finalize leaves no task behind, for any number of workers, users and    *)
(* properties, any size of the local queues and any number of tasks.       *)
(*                                                                         *)
(* Fits says of one thread what its place in the code tells about its      *)
(* task, its argument, its local queue and its unreported tasks; Counting  *)
(* what the two counts of waiters are; Ending what holds once Finalize     *)
(* has begun.  A step is described once, by StepFacts, and the parts of    *)
(* the invariant are derived from that description.                        *)
(***************************************************************************)
EXTENDS TaskScheduler, FiniteSetTheorems, TLAPS

Busy == {"run", "addPush", "addSignal", "addLock"}
Counted == {"rescan", "qwait", "qwake", "decr", "exit"}
Waits == {"wait", "fwait", "fwake", "sum"}
About == {"addPush", "helpPop", "helpSteal", "repWaiters", "repCount", "wait"}

TaskTypes ==
  /\ queue \in [Props -> Nat] /\ local \in [Workers -> [Props -> Nat]]
  /\ inSystem \in [Props -> Int]
  /\ hand \in [Workers -> Props \cup {None}]
  /\ done \in [Threads -> [Props -> Nat]]

PlaceTypes ==
  /\ pc = [t \in Threads |-> pc[t]]
  /\ arg \in [Threads -> Props \cup {None}]

WaitTypes ==
  /\ lock \in Threads \cup {None}
  /\ waitWorkersCount_ \in Int /\ waitToFinish_ \in Int
  /\ finish_ \in BOOLEAN /\ disableHelpers_ \in BOOLEAN
  /\ unread \in SUBSET Props /\ sum \in Int
  /\ events \in 0 .. MaxEvents

Types == TaskTypes /\ PlaceTypes /\ WaitTypes

\* What the place of a thread says about what it holds.
Labelled(t) ==
  /\ t \in Workers => pc[t] \in WorkerLabels
  /\ t \in Users => pc[t] \in UserLabels
  /\ t = Main => pc[t] \in MainLabels

Holds(t) ==
  /\ t \in Workers => (hand[t] \in Props <=> pc[t] \in Busy)
  /\ pc[t] \in About => arg[t] \in Props
  /\ t = Main /\ pc[t] \in {"idle", "waited", "sum", "join", "done"} => arg[t] = None

Emptied(t) ==
  /\ t \in Workers /\ pc[t] \notin Busy \cup {"exec"} => local[t] = Zero
  /\ t \in Workers /\ pc[t] \notin Busy \cup {"exec"} \cup ReportLabels => done[t] = Zero
  /\ t \notin Workers /\ pc[t] \notin ReportLabels \cup {"addPush", "addSignal", "addLock"}
       => done[t] = Zero

Fits(t) == Labelled(t) /\ Holds(t) /\ Emptied(t)

CountedWorkers == {w \in Workers : pc[w] \in Counted}

\* The counts of waiters that AddTask and the report read without the lock.
Counting ==
  /\ waitWorkersCount_ = Cardinality(CountedWorkers)
  /\ waitToFinish_ = IF pc[Main] \in Waits THEN 1 ELSE 0

Ending ==
  /\ disableHelpers_ = finish_
  /\ pc[Main] \in {"join", "done"} <=> finish_
  /\ Finalizing \/ finish_ => \A u \in Users : pc[u] = "idle"
  /\ \A w \in Workers : pc[w] = "exit" => finish_
  /\ (\A w \in Workers : pc[w] = "exit") => queue = Zero
  /\ pc[Main] = "done" => \A w \in Workers : pc[w] = "exit"

IInv ==
  /\ Types /\ sum \in Nat
  /\ \A t \in Threads : Fits(t)
  /\ Counting /\ Ending /\ CountExact

-----------------------------------------------------------------------------
(* Counting.                                                               *)

\* {x} \X (1 .. n) has n elements.
LEMMA ColumnCount ==
  ASSUME NEW x, NEW n \in Nat
  PROVE  IsFiniteSet({x} \X (1 .. n)) /\ Cardinality({x} \X (1 .. n)) = n
<1>1. IsFiniteSet({x}) /\ Cardinality({x}) = 1
  BY FS_Singleton
<1>2. IsFiniteSet(1 .. n) /\ Cardinality(1 .. n) = n
  BY FS_Interval
<1>3. /\ IsFiniteSet({x} \X (1 .. n))
      /\ Cardinality({x} \X (1 .. n)) = Cardinality({x}) * Cardinality(1 .. n)
  BY <1>1, <1>2, FS_Product
<1>4. QED
  BY <1>1, <1>2, <1>3

\* The items of finitely many counts are finitely many.
LEMMA ItemsFinite ==
  ASSUME NEW S, IsFiniteSet(S), NEW p \in Props, NEW f, \A y \in S : f[y][p] \in Nat
  PROVE  IsFiniteSet(Items(f, S, p)) /\ Cardinality(Items(f, S, p)) \in Nat
<1> DEFINE col == [y \in S |-> {y} \X (1 .. f[y][p])]
           C == {{y} \X (1 .. f[y][p]) : y \in S}
<1>1. col \in Surjection(S, C)
  BY DEF Surjection
<1>2. IsFiniteSet(C)
  BY <1>1, FS_Surjection
<1>3. \A y \in S : IsFiniteSet({y} \X (1 .. f[y][p]))
  BY ColumnCount
<1>4. \A T \in C : IsFiniteSet(T)
  BY <1>3
<1>5. IsFiniteSet(UNION C)
  BY <1>2, <1>4, FS_UNION
<1>6. QED
  BY <1>5, FS_CardinalityType DEF Items

\* The cardinality of a disjoint union.
LEMMA DisjointUnion ==
  ASSUME NEW A, NEW B, IsFiniteSet(A), IsFiniteSet(B), A \cap B = {}
  PROVE  Cardinality(A \cup B) = Cardinality(A) + Cardinality(B)
<1>1. Cardinality(A) \in Nat /\ Cardinality(B) \in Nat
  BY FS_CardinalityType
<1>2. Cardinality(A \cup B) = Cardinality(A) + Cardinality(B) - Cardinality(A \cap B)
  BY FS_Union
<1>3. Cardinality(A \cap B) = 0
  BY FS_EmptySet
<1>4. QED
  BY <1>1, <1>2, <1>3

\* When the count of one x changes, the number of items changes by as much.
LEMMA ItemsChange ==
  ASSUME NEW S, IsFiniteSet(S), NEW p \in Props, NEW x \in S,
         NEW f \in [S -> [Props -> Nat]], NEW g \in [S -> [Props -> Nat]],
         \A y \in S : y # x => g[y][p] = f[y][p]
  PROVE  Cardinality(Items(g, S, p)) = Cardinality(Items(f, S, p)) + g[x][p] - f[x][p]
<1> DEFINE R == Items(f, S \ {x}, p)
           F == {x} \X (1 .. f[x][p])
           G == {x} \X (1 .. g[x][p])
<1>1. IsFiniteSet(S \ {x})
  BY FS_RemoveElement
<1>2. IsFiniteSet(R) /\ Cardinality(R) \in Nat
  BY <1>1, ItemsFinite
<1>3. IsFiniteSet(F) /\ Cardinality(F) = f[x][p] /\ IsFiniteSet(G) /\ Cardinality(G) = g[x][p]
  <2>1. f[x][p] \in Nat /\ g[x][p] \in Nat
    OBVIOUS
  <2>2. QED
    BY <2>1, ColumnCount
<1>4. Items(f, S, p) = R \cup F /\ R \cap F = {}
  BY DEF Items
<1>5. Items(g, S, p) = R \cup G /\ R \cap G = {}
  <2>1. R = Items(g, S \ {x}, p)
    BY DEF Items
  <2>2. QED
    BY <2>1 DEF Items
<1> HIDE DEF R, F, G
<1>6. Cardinality(Items(f, S, p)) = Cardinality(R) + Cardinality(F)
  BY <1>2, <1>3, <1>4, DisjointUnion
<1>7. Cardinality(Items(g, S, p)) = Cardinality(R) + Cardinality(G)
  BY <1>2, <1>3, <1>5, DisjointUnion
<1>8. QED
  BY <1>2, <1>3, <1>6, <1>7

\* Two subsets that differ in at most one element x.
LEMMA MembersChange ==
  ASSUME NEW S, IsFiniteSet(S), NEW A \in SUBSET S, NEW B \in SUBSET S, NEW x,
         \A y \in S : y # x => (y \in A <=> y \in B)
  PROVE  /\ Cardinality(A) \in Nat /\ Cardinality(B) \in Nat
         /\ (x \in A <=> x \in B) => Cardinality(B) = Cardinality(A)
         /\ x \notin A /\ x \in B => Cardinality(B) = Cardinality(A) + 1
         /\ x \in A /\ x \notin B => Cardinality(B) = Cardinality(A) - 1
<1>1. IsFiniteSet(A) /\ IsFiniteSet(B)
  BY FS_Subset
<1>2. Cardinality(A) \in Nat /\ Cardinality(B) \in Nat
  BY <1>1, FS_CardinalityType
<1>3. (x \in A <=> x \in B) => A = B
  OBVIOUS
<1>4. x \notin A /\ x \in B => B = A \cup {x}
  OBVIOUS
<1>5. x \in A /\ x \notin B => B = A \ {x}
  OBVIOUS
<1>6. QED
  BY <1>1, <1>2, <1>3, <1>4, <1>5, FS_AddElement, FS_RemoveElement

\* An even share is not more than what is shared.
LEMMA ShareBounds ==
  ASSUME NEW size \in Nat, NEW shares \in Nat \ {0}
  PROVE  CountToGet(size, shares) \in Nat /\ CountToGet(size, shares) <= size
<1> DEFINE q == size \div shares
           r == size % shares
<1>1. q \in Nat /\ r \in Nat /\ size = shares * q + r
  OBVIOUS
<1>2. QueueSize \in Nat
  BY TaskSchedulerAssumption
<1> HIDE DEF q, r
<1>3. shares * q >= q
  BY <1>1
<1>4. q + (IF r = 0 THEN 0 ELSE 1) <= size
  BY <1>1, <1>3
<1>5. QED
  BY <1>1, <1>2, <1>4 DEF CountToGet, q, r

\* Changing one count.
LEMMA CountSet ==
  ASSUME NEW D, NEW f \in [D -> [Props -> Nat]], NEW x \in D, NEW p \in Props, NEW n \in Nat,
         NEW g, g = [f EXCEPT ![x][p] = n]
  PROVE  /\ g \in [D -> [Props -> Nat]]
         /\ g[x][p] = n
         /\ \A q \in Props : q # p => g[x][q] = f[x][q]
         /\ \A y \in D : y # x => g[y] = f[y]
  OBVIOUS

-----------------------------------------------------------------------------
(* One step.                                                               *)

\* What the other threads see of a step of t: at most that they are woken, or
\* that a task was stolen from them.
Others(t) ==
  \A u \in Threads : u # t =>
    /\ arg'[u] = arg[u] /\ done'[u] = done[u]
    /\ u \in Workers => hand'[u] = hand[u] /\ (local[u] = Zero => local'[u] = Zero)
    /\ \/ pc'[u] = pc[u]
       \/ pc[u] = "qwait" /\ pc'[u] = "qwake"
       \/ pc[u] = "fwait" /\ pc'[u] = "fwake"

\* The counts of waiters follow the place of t.
WorkersKept(t) ==
  \/ /\ waitWorkersCount_' = waitWorkersCount_
     /\ t \in Workers => (pc[t] \in Counted <=> pc'[t] \in Counted)
  \/ /\ waitWorkersCount_' = waitWorkersCount_ + 1
     /\ t \in Workers /\ pc[t] \notin Counted /\ pc'[t] \in Counted
  \/ /\ waitWorkersCount_' = waitWorkersCount_ - 1
     /\ t \in Workers /\ pc[t] \in Counted /\ pc'[t] \notin Counted

MainKept(t) ==
  \/ /\ waitToFinish_' = waitToFinish_
     /\ t = Main => (pc[t] \in Waits <=> pc'[t] \in Waits)
  \/ /\ waitToFinish_' = waitToFinish_ + 1
     /\ t = Main /\ pc[t] \notin Waits /\ pc'[t] \in Waits
  \/ /\ waitToFinish_' = waitToFinish_ - 1
     /\ t = Main /\ pc[t] \in Waits /\ pc'[t] \notin Waits

\* A worker exits only when it was told to and the queue is empty; a user calls
\* nothing once Finalize has begun.
Ends(t) ==
  /\ t # Main => UNCHANGED <<finish_, disableHelpers_>>
  /\ t \in Workers => pc[t] # "exit" /\ (pc'[t] = "exit" => finish_ /\ queue' = Zero)
  /\ t \in Users /\ pc[t] = "idle" =>
       queue' = queue /\ (Finalizing \/ (finish_ /\ disableHelpers_) => pc'[t] = "idle")

StepFacts(t) == Types' /\ Others(t) /\ Fits(t)' /\ WorkersKept(t) /\ MainKept(t) /\ Ends(t)

\* The steps of a worker that looks for tasks.
LEMMA WorkerFacts ==
  ASSUME Types, NEW t \in Workers, Fits(t),
         WorkerLoop(t) \/ FillScan(t) \/ FillIncr(t) \/ FillRescan(t)
           \/ FillTimeout(t) \/ FillWake(t)
  PROVE  StepFacts(t)
<1> USE TaskSchedulerAssumption DEF Threads
<1>1. CASE WorkerLoop(t)
  <2>1. Types'
    <3>1. TaskTypes'
      BY <1>1 DEF Types, TaskTypes, PlaceTypes, WorkerLoop, Goto, flagVars, ownVars, finVars,
         taskVars
    <3>2. PlaceTypes'
      BY <1>1 DEF Types, PlaceTypes, WorkerLoop, Goto, flagVars, ownVars, finVars, taskVars
    <3>3. WaitTypes'
      BY <1>1 DEF Types, WaitTypes, TaskTypes, WorkerLoop, Goto, flagVars, ownVars, finVars,
         taskVars
    <3>4. QED
      BY <3>1, <3>2, <3>3 DEF Types
  <2>2. Others(t)
    BY <1>1 DEF Types, TaskTypes, PlaceTypes, Others, WorkerLoop, Goto, flagVars, ownVars, finVars,
       taskVars
  <2>3. Labelled(t)' /\ Holds(t)'
    BY <1>1 DEF Types, TaskTypes, PlaceTypes, WaitTypes, Fits, Labelled, Holds, WorkerLoop, Goto,
       flagVars, ownVars, finVars, taskVars, Busy, About, ReportLabels, WorkerLabels, UserLabels,
       MainLabels
  <2>4. Emptied(t)'
    BY <1>1 DEF Types, TaskTypes, PlaceTypes, WaitTypes, Fits, Labelled, Emptied, WorkerLoop, Goto,
       flagVars, ownVars, finVars, taskVars, Busy, ReportLabels, WorkerLabels, UserLabels,
       MainLabels
  <2>5. WorkersKept(t) /\ MainKept(t) /\ Ends(t)
    BY <1>1 DEF Types, TaskTypes, PlaceTypes, WaitTypes, Fits, Labelled, WorkersKept, MainKept,
       Ends, WorkerLoop, Goto, flagVars, ownVars, finVars, taskVars, Counted, Waits, ReportLabels,
       WorkerLabels, UserLabels, MainLabels
  <2>6. QED
    BY <2>1, <2>2, <2>3, <2>4, <2>5 DEF StepFacts, Fits
<1>2. CASE FillScan(t)
  <2>1. Types'
    <3>1. TaskTypes'
      BY <1>2 DEF Types, TaskTypes, PlaceTypes, FillScan, flagVars, ownVars, finVars, taskVars
    <3>2. PlaceTypes'
      BY <1>2 DEF Types, PlaceTypes, FillScan, flagVars, ownVars, finVars, taskVars
    <3>3. WaitTypes'
      BY <1>2 DEF Types, WaitTypes, TaskTypes, FillScan, flagVars, ownVars, finVars, taskVars
    <3>4. QED
      BY <3>1, <3>2, <3>3 DEF Types
  <2>2. Others(t)
    BY <1>2 DEF Types, TaskTypes, PlaceTypes, Others, FillScan, flagVars, ownVars, finVars,
       taskVars
  <2>3. Labelled(t)' /\ Holds(t)'
    BY <1>2 DEF Types, TaskTypes, PlaceTypes, WaitTypes, Fits, Labelled, Holds, FillScan, flagVars,
       ownVars, finVars, taskVars, Busy, About, ReportLabels, WorkerLabels, UserLabels, MainLabels
  <2>4. Emptied(t)'
    BY <1>2 DEF Types, TaskTypes, PlaceTypes, WaitTypes, Fits, Labelled, Emptied, FillScan,
       flagVars, ownVars, finVars, taskVars, Busy, ReportLabels, WorkerLabels, UserLabels,
       MainLabels
  <2>5. WorkersKept(t) /\ MainKept(t) /\ Ends(t)
    BY <1>2 DEF Types, TaskTypes, PlaceTypes, WaitTypes, Fits, Labelled, WorkersKept, MainKept,
       Ends, FillScan, flagVars, ownVars, finVars, taskVars, Counted, Waits, ReportLabels,
       WorkerLabels, UserLabels, MainLabels
  <2>6. QED
    BY <2>1, <2>2, <2>3, <2>4, <2>5 DEF StepFacts, Fits
<1>3. CASE FillIncr(t)
  <2>1. Types'
    <3>1. TaskTypes'
      BY <1>3 DEF Types, TaskTypes, PlaceTypes, FillIncr, Goto, ownVars, finVars, taskVars
    <3>2. PlaceTypes'
      BY <1>3 DEF Types, PlaceTypes, FillIncr, Goto, ownVars, finVars, taskVars
    <3>3. WaitTypes'
      BY <1>3 DEF Types, WaitTypes, TaskTypes, FillIncr, Goto, ownVars, finVars, taskVars
    <3>4. QED
      BY <3>1, <3>2, <3>3 DEF Types
  <2>2. Others(t)
    BY <1>3 DEF Types, TaskTypes, PlaceTypes, Others, FillIncr, Goto, ownVars, finVars, taskVars
  <2>3. Labelled(t)' /\ Holds(t)'
    BY <1>3 DEF Types, TaskTypes, PlaceTypes, WaitTypes, Fits, Labelled, Holds, FillIncr, Goto,
       ownVars, finVars, taskVars, Busy, About, ReportLabels, WorkerLabels, UserLabels, MainLabels
  <2>4. Emptied(t)'
    BY <1>3 DEF Types, TaskTypes, PlaceTypes, WaitTypes, Fits, Labelled, Emptied, FillIncr, Goto,
       ownVars, finVars, taskVars, Busy, ReportLabels, WorkerLabels, UserLabels, MainLabels
  <2>5. WorkersKept(t) /\ MainKept(t) /\ Ends(t)
    BY <1>3 DEF Types, TaskTypes, PlaceTypes, WaitTypes, Fits, Labelled, WorkersKept, MainKept,
       Ends, FillIncr, Goto, ownVars, finVars, taskVars, Counted, Waits, ReportLabels,
       WorkerLabels, UserLabels, MainLabels
  <2>6. QED
    BY <2>1, <2>2, <2>3, <2>4, <2>5 DEF StepFacts, Fits
<1>4. CASE FillRescan(t)
  <2>1. Types'
    <3>1. TaskTypes'
      BY <1>4 DEF Types, TaskTypes, PlaceTypes, FillRescan, Goto, flagVars, ownVars, finVars,
         taskVars, AreQueuesEmpty
    <3>2. PlaceTypes'
      BY <1>4 DEF Types, PlaceTypes, FillRescan, Goto, flagVars, ownVars, finVars, taskVars,
         AreQueuesEmpty
    <3>3. WaitTypes'
      BY <1>4 DEF Types, WaitTypes, TaskTypes, FillRescan, Goto, flagVars, ownVars, finVars,
         taskVars, AreQueuesEmpty
    <3>4. QED
      BY <3>1, <3>2, <3>3 DEF Types
  <2>2. Others(t)
    BY <1>4 DEF Types, TaskTypes, PlaceTypes, Others, FillRescan, Goto, flagVars, ownVars, finVars,
       taskVars, AreQueuesEmpty
  <2>3. Labelled(t)' /\ Holds(t)'
    BY <1>4 DEF Types, TaskTypes, PlaceTypes, WaitTypes, Fits, Labelled, Holds, FillRescan, Goto,
       flagVars, ownVars, finVars, taskVars, AreQueuesEmpty, Busy, About, ReportLabels,
       WorkerLabels, UserLabels, MainLabels
  <2>4. Emptied(t)'
    BY <1>4 DEF Types, TaskTypes, PlaceTypes, WaitTypes, Fits, Labelled, Emptied, FillRescan, Goto,
       flagVars, ownVars, finVars, taskVars, AreQueuesEmpty, Busy, ReportLabels, WorkerLabels,
       UserLabels, MainLabels
  <2>5. WorkersKept(t) /\ MainKept(t) /\ Ends(t)
    BY <1>4 DEF Types, TaskTypes, PlaceTypes, WaitTypes, Fits, Labelled, WorkersKept, MainKept,
       Ends, FillRescan, Goto, flagVars, ownVars, finVars, taskVars, AreQueuesEmpty, Counted,
       Waits, ReportLabels, WorkerLabels, UserLabels, MainLabels
  <2>6. QED
    BY <2>1, <2>2, <2>3, <2>4, <2>5 DEF StepFacts, Fits
<1>5. CASE FillTimeout(t)
  <2>1. Types'
    <3>1. TaskTypes'
      BY <1>5 DEF Types, TaskTypes, PlaceTypes, FillTimeout, Goto, flagVars, ownVars, finVars,
         taskVars
    <3>2. PlaceTypes'
      BY <1>5 DEF Types, PlaceTypes, FillTimeout, Goto, flagVars, ownVars, finVars, taskVars
    <3>3. WaitTypes'
      BY <1>5 DEF Types, WaitTypes, TaskTypes, FillTimeout, Goto, flagVars, ownVars, finVars,
         taskVars
    <3>4. QED
      BY <3>1, <3>2, <3>3 DEF Types
  <2>2. Others(t)
    BY <1>5 DEF Types, TaskTypes, PlaceTypes, Others, FillTimeout, Goto, flagVars, ownVars,
       finVars, taskVars
  <2>3. Labelled(t)' /\ Holds(t)'
    BY <1>5 DEF Types, TaskTypes, PlaceTypes, WaitTypes, Fits, Labelled, Holds, FillTimeout, Goto,
       flagVars, ownVars, finVars, taskVars, Busy, About, ReportLabels, WorkerLabels, UserLabels,
       MainLabels
  <2>4. Emptied(t)'
    BY <1>5 DEF Types, TaskTypes, PlaceTypes, WaitTypes, Fits, Labelled, Emptied, FillTimeout,
       Goto, flagVars, ownVars, finVars, taskVars, Busy, ReportLabels, WorkerLabels, UserLabels,
       MainLabels
  <2>5. WorkersKept(t) /\ MainKept(t) /\ Ends(t)
    BY <1>5 DEF Types, TaskTypes, PlaceTypes, WaitTypes, Fits, Labelled, WorkersKept, MainKept,
       Ends, FillTimeout, Goto, flagVars, ownVars, finVars, taskVars, Counted, Waits, ReportLabels,
       WorkerLabels, UserLabels, MainLabels
  <2>6. QED
    BY <2>1, <2>2, <2>3, <2>4, <2>5 DEF StepFacts, Fits
<1>6. CASE FillWake(t)
  <2>1. Types'
    <3>1. TaskTypes'
      BY <1>6 DEF Types, TaskTypes, PlaceTypes, FillWake, Goto, flagVars, ownVars, finVars,
         taskVars
    <3>2. PlaceTypes'
      BY <1>6 DEF Types, PlaceTypes, FillWake, Goto, flagVars, ownVars, finVars, taskVars
    <3>3. WaitTypes'
      BY <1>6 DEF Types, WaitTypes, TaskTypes, FillWake, Goto, flagVars, ownVars, finVars, taskVars
    <3>4. QED
      BY <3>1, <3>2, <3>3 DEF Types
  <2>2. Others(t)
    BY <1>6 DEF Types, TaskTypes, PlaceTypes, Others, FillWake, Goto, flagVars, ownVars, finVars,
       taskVars
  <2>3. Labelled(t)' /\ Holds(t)'
    BY <1>6 DEF Types, TaskTypes, PlaceTypes, WaitTypes, Fits, Labelled, Holds, FillWake, Goto,
       flagVars, ownVars, finVars, taskVars, Busy, About, ReportLabels, WorkerLabels, UserLabels,
       MainLabels
  <2>4. Emptied(t)'
    BY <1>6 DEF Types, TaskTypes, PlaceTypes, WaitTypes, Fits, Labelled, Emptied, FillWake, Goto,
       flagVars, ownVars, finVars, taskVars, Busy, ReportLabels, WorkerLabels, UserLabels,
       MainLabels
  <2>5. WorkersKept(t) /\ MainKept(t) /\ Ends(t)
    BY <1>6 DEF Types, TaskTypes, PlaceTypes, WaitTypes, Fits, Labelled, WorkersKept, MainKept,
       Ends, FillWake, Goto, flagVars, ownVars, finVars, taskVars, Counted, Waits, ReportLabels,
       WorkerLabels, UserLabels, MainLabels
  <2>6. QED
    BY <2>1, <2>2, <2>3, <2>4, <2>5 DEF StepFacts, Fits
<1>7. QED
  BY <1>1, <1>2, <1>3, <1>4, <1>5, <1>6

\* A worker takes one task out of the local queue of v.
LEMMA TakeOne ==
  ASSUME Types, NEW t \in Workers, NEW v \in Workers, NEW p \in Poppable(local[v]),
         local' = [local EXCEPT ![v][p] = @ - 1]
  PROVE  /\ p \in Props /\ local[v][p] > 0 /\ local[v] # Zero
         /\ local' \in [Workers -> [Props -> Nat]]
         /\ local'[v][p] = local[v][p] - 1
         /\ \A q \in Props : q # p => local'[v][q] = local[v][q]
         /\ \A u \in Workers : u # v => local'[u] = local[u]
<1>1. local \in [Workers -> [Props -> Nat]]
  BY DEF Types, TaskTypes
<1>2. p \in Props /\ local[v][p] > 0
  BY DEF Poppable
<1>3. local[v][p] - 1 \in Nat
  BY <1>1, <1>2
<1>4. local[v] # Zero
  BY <1>2 DEF Zero
<1>5. QED
  BY <1>1, <1>2, <1>3, <1>4, CountSet

\* The steps of a worker that takes or runs a task.
LEMMA TaskFacts ==
  ASSUME Types, NEW t \in Workers, Fits(t),
         Steal(t) \/ PutTasksInWorker(t) \/ Execute(t) \/ RunTask(t)
  PROVE  StepFacts(t)
<1> USE TaskSchedulerAssumption DEF Threads
<1>1. CASE Steal(t)
  <2>1. Types'
    <3>1. TaskTypes'
      <4>1. CASE local' = local /\ hand' = hand
        BY <1>1, <4>1 DEF Types, TaskTypes, Steal
      <4>2. CASE \E v \in Workers : \E p \in Poppable(local[v]) :
                    local' = [local EXCEPT ![v][p] = @ - 1] /\ hand' = [hand EXCEPT ![t] = p]
        <5>1. PICK v \in Workers : \E p \in Poppable(local[v]) :
                local' = [local EXCEPT ![v][p] = @ - 1] /\ hand' = [hand EXCEPT ![t] = p]
          BY <4>2
        <5>2. PICK p \in Poppable(local[v]) :
                local' = [local EXCEPT ![v][p] = @ - 1] /\ hand' = [hand EXCEPT ![t] = p]
          BY <5>1
        <5>3. p \in Props /\ local' \in [Workers -> [Props -> Nat]]
          BY <5>2, TakeOne
        <5>4. UNCHANGED <<queue, inSystem, done>>
          BY <1>1 DEF Steal
        <5>5. QED
          BY <5>2, <5>3, <5>4 DEF Types, TaskTypes
      <4>3. QED
        BY <1>1, <4>1, <4>2 DEF Steal
    <3>2. PlaceTypes'
      BY <1>1 DEF Types, PlaceTypes, Steal, flagVars, finVars, Poppable, Zero
    <3>3. WaitTypes'
      BY <1>1 DEF Types, WaitTypes, TaskTypes, Steal, flagVars, finVars, Poppable, Zero
    <3>4. QED
      BY <3>1, <3>2, <3>3 DEF Types
  <2>2. Others(t)
    <3>1. \A u \in Workers : local[u] = Zero => local'[u] = Zero
      <4>1. CASE local' = local
        BY <4>1
      <4>2. CASE \E v \in Workers : \E p \in Poppable(local[v]) : local' = [local EXCEPT ![v][p] = @ - 1]
        BY <4>2, TakeOne
      <4>3. QED
        BY <1>1, <4>1, <4>2 DEF Steal
    <3>2. QED
      BY <1>1, <3>1 DEF Types, TaskTypes, PlaceTypes, Others, Steal
  <2>3. Labelled(t)' /\ Holds(t)'
    BY <1>1 DEF Types, TaskTypes, PlaceTypes, WaitTypes, Fits, Labelled, Holds, Steal, flagVars,
       finVars, Poppable, Zero, Busy, About, ReportLabels, WorkerLabels, UserLabels, MainLabels
  <2>4. Emptied(t)'
    BY <1>1 DEF Types, TaskTypes, PlaceTypes, WaitTypes, Fits, Labelled, Emptied, Steal, flagVars,
       finVars, Poppable, Zero, Busy, ReportLabels, WorkerLabels, UserLabels, MainLabels
  <2>5. WorkersKept(t) /\ MainKept(t) /\ Ends(t)
    BY <1>1 DEF Types, TaskTypes, PlaceTypes, WaitTypes, Fits, Labelled, WorkersKept, MainKept,
       Ends, Steal, flagVars, finVars, Poppable, Zero, Counted, Waits, ReportLabels, WorkerLabels,
       UserLabels, MainLabels
  <2>6. QED
    BY <2>1, <2>2, <2>3, <2>4, <2>5 DEF StepFacts, Fits
<1>2. CASE PutTasksInWorker(t)
  <2>1. Types'
    <3>1. TaskTypes'
      BY <1>2 DEF Types, TaskTypes, PlaceTypes, PutTasksInWorker, ownVars, finVars, Taken
    <3>2. PlaceTypes'
      BY <1>2 DEF Types, PlaceTypes, PutTasksInWorker, ownVars, finVars, Taken
    <3>3. WaitTypes'
      BY <1>2 DEF Types, WaitTypes, TaskTypes, PutTasksInWorker, ownVars, finVars, Taken
    <3>4. QED
      BY <3>1, <3>2, <3>3 DEF Types
  <2>2. Others(t)
    BY <1>2 DEF Types, TaskTypes, PlaceTypes, Others, PutTasksInWorker, ownVars, finVars, Taken,
       Zero
  <2>3. Labelled(t)' /\ Holds(t)'
    BY <1>2 DEF Types, TaskTypes, PlaceTypes, WaitTypes, Fits, Labelled, Holds, PutTasksInWorker,
       ownVars, finVars, Taken, Busy, About, ReportLabels, WorkerLabels, UserLabels, MainLabels
  <2>4. Emptied(t)'
    BY <1>2 DEF Types, TaskTypes, PlaceTypes, WaitTypes, Fits, Labelled, Emptied, PutTasksInWorker,
       ownVars, finVars, Taken, Zero, Busy, ReportLabels, WorkerLabels, UserLabels, MainLabels
  <2>5. WorkersKept(t) /\ MainKept(t) /\ Ends(t)
    BY <1>2 DEF Types, TaskTypes, PlaceTypes, WaitTypes, Fits, Labelled, WorkersKept, MainKept,
       Ends, PutTasksInWorker, ownVars, finVars, Taken, Zero, Counted, Waits, ReportLabels,
       WorkerLabels, UserLabels, MainLabels
  <2>6. QED
    BY <2>1, <2>2, <2>3, <2>4, <2>5 DEF StepFacts, Fits
<1>3. CASE Execute(t)
  <2>1. Types'
    <3>1. TaskTypes'
      <4>1. CASE local' = local /\ hand' = hand
        BY <1>3, <4>1 DEF Types, TaskTypes, Execute
      <4>2. CASE \E p \in Poppable(local[t]) :
                    local' = [local EXCEPT ![t][p] = @ - 1] /\ hand' = [hand EXCEPT ![t] = p]
        <5>1. PICK p \in Poppable(local[t]) :
                local' = [local EXCEPT ![t][p] = @ - 1] /\ hand' = [hand EXCEPT ![t] = p]
          BY <4>2
        <5>2. p \in Props /\ local' \in [Workers -> [Props -> Nat]]
          BY <5>1, TakeOne
        <5>3. UNCHANGED <<queue, inSystem, done>>
          BY <1>3 DEF Execute
        <5>4. QED
          BY <5>1, <5>2, <5>3 DEF Types, TaskTypes
      <4>3. QED
        BY <1>3, <4>1, <4>2 DEF Execute
    <3>2. PlaceTypes'
      BY <1>3 DEF Types, PlaceTypes, Execute, flagVars, finVars, Poppable, Zero
    <3>3. WaitTypes'
      BY <1>3 DEF Types, WaitTypes, TaskTypes, Execute, flagVars, finVars, Poppable, Zero
    <3>4. QED
      BY <3>1, <3>2, <3>3 DEF Types
  <2>2. Others(t)
    BY <1>3 DEF Types, TaskTypes, PlaceTypes, Others, Execute, flagVars, finVars, Poppable, Zero
  <2>3. Labelled(t)' /\ Holds(t)'
    BY <1>3 DEF Types, TaskTypes, PlaceTypes, WaitTypes, Fits, Labelled, Holds, Execute, flagVars,
       finVars, Poppable, Zero, Busy, About, ReportLabels, WorkerLabels, UserLabels, MainLabels
  <2>4. Emptied(t)'
    BY <1>3 DEF Types, TaskTypes, PlaceTypes, WaitTypes, Fits, Labelled, Emptied, Execute,
       flagVars, finVars, Poppable, Zero, Busy, ReportLabels, WorkerLabels, UserLabels, MainLabels
  <2>5. WorkersKept(t) /\ MainKept(t) /\ Ends(t)
    BY <1>3 DEF Types, TaskTypes, PlaceTypes, WaitTypes, Fits, Labelled, WorkersKept, MainKept,
       Ends, Execute, flagVars, finVars, Poppable, Zero, Counted, Waits, ReportLabels,
       WorkerLabels, UserLabels, MainLabels
  <2>6. QED
    BY <2>1, <2>2, <2>3, <2>4, <2>5 DEF StepFacts, Fits
<1>4. CASE RunTask(t)
  <2>1. Types'
    <3>1. TaskTypes'
      <4>1. hand[t] \in Props /\ done' = [done EXCEPT ![t][hand[t]] = @ + 1]
        BY <1>4 DEF Types, TaskTypes, Fits, Holds, RunTask, Goto, Busy
      <4>2. done \in [Threads -> [Props -> Nat]] /\ done[t][hand[t]] + 1 \in Nat
        BY <4>1 DEF Types, TaskTypes
      <4>3. done' \in [Threads -> [Props -> Nat]]
        BY <4>1, <4>2, CountSet
      <4>4. QED
        BY <1>4, <4>3 DEF Types, TaskTypes, RunTask, taskVars
    <3>2. PlaceTypes'
      BY <1>4 DEF Types, PlaceTypes, RunTask, Goto, flagVars, finVars, taskVars
    <3>3. WaitTypes'
      BY <1>4 DEF Types, WaitTypes, TaskTypes, RunTask, Goto, flagVars, finVars, taskVars
    <3>4. QED
      BY <3>1, <3>2, <3>3 DEF Types
  <2>2. Others(t)
    BY <1>4 DEF Types, TaskTypes, PlaceTypes, Others, RunTask, Goto, flagVars, finVars, taskVars
  <2>3. Labelled(t)' /\ Holds(t)'
    BY <1>4 DEF Types, TaskTypes, PlaceTypes, WaitTypes, Fits, Labelled, Holds, RunTask, Goto,
       flagVars, finVars, taskVars, Busy, About, ReportLabels, WorkerLabels, UserLabels, MainLabels
  <2>4. Emptied(t)'
    BY <1>4 DEF Types, TaskTypes, PlaceTypes, WaitTypes, Fits, Labelled, Emptied, RunTask, Goto,
       flagVars, finVars, taskVars, Busy, ReportLabels, WorkerLabels, UserLabels, MainLabels
  <2>5. WorkersKept(t) /\ MainKept(t) /\ Ends(t)
    BY <1>4 DEF Types, TaskTypes, PlaceTypes, WaitTypes, Fits, Labelled, WorkersKept, MainKept,
       Ends, RunTask, Goto, flagVars, finVars, taskVars, Counted, Waits, ReportLabels,
       WorkerLabels, UserLabels, MainLabels
  <2>6. QED
    BY <2>1, <2>2, <2>3, <2>4, <2>5 DEF StepFacts, Fits
<1>5. QED
  BY <1>1, <1>2, <1>3, <1>4

\* The steps of AddTask and of the report.
LEMMA ContinueFacts ==
  ASSUME Types, NEW t \in Workers \cup Users, Fits(t),
         \/ AddPush(t) \/ SignalWorkers(t) \/ SignalOne(t) \/ ReportWaiters(t)
         \/ ReportCount(t) \/ ReportSignal(t) \/ ReportEnd(t)
  PROVE  StepFacts(t)
<1> USE TaskSchedulerAssumption DEF Threads
<1>1. CASE AddPush(t)
  <2>1. Types'
    <3>1. TaskTypes'
      <4>1. arg[t] \in Props
        BY <1>1 DEF Types, PlaceTypes, Fits, Holds, AddPush, Goto, About
      <4>2. QED
        BY <1>1, <4>1 DEF Types, TaskTypes, AddPush
    <3>2. PlaceTypes'
      BY <1>1 DEF Types, PlaceTypes, AddPush, Goto, Set, flagVars, finVars
    <3>3. WaitTypes'
      BY <1>1 DEF Types, WaitTypes, TaskTypes, AddPush, Goto, Set, flagVars, finVars
    <3>4. QED
      BY <3>1, <3>2, <3>3 DEF Types
  <2>2. Others(t)
    BY <1>1 DEF Types, TaskTypes, PlaceTypes, Others, AddPush, Goto, Set, flagVars, finVars, Zero
  <2>3. Labelled(t)' /\ Holds(t)'
    BY <1>1 DEF Types, TaskTypes, PlaceTypes, WaitTypes, Fits, Labelled, Holds, AddPush, Goto, Set,
       flagVars, finVars, Busy, About, ReportLabels, WorkerLabels, UserLabels, MainLabels
  <2>4. Emptied(t)'
    BY <1>1 DEF Types, TaskTypes, PlaceTypes, WaitTypes, Fits, Labelled, Emptied, AddPush, Goto,
       Set, flagVars, finVars, Zero, Busy, ReportLabels, WorkerLabels, UserLabels, MainLabels
  <2>5. WorkersKept(t) /\ MainKept(t) /\ Ends(t)
    BY <1>1 DEF Types, TaskTypes, PlaceTypes, WaitTypes, Fits, Labelled, WorkersKept, MainKept,
       Ends, AddPush, Goto, Set, flagVars, finVars, Zero, Counted, Waits, ReportLabels,
       WorkerLabels, UserLabels, MainLabels
  <2>6. QED
    BY <2>1, <2>2, <2>3, <2>4, <2>5 DEF StepFacts, Fits
<1>2. CASE SignalWorkers(t)
  <2>1. Types'
    <3>1. TaskTypes'
      BY <1>2 DEF Types, TaskTypes, PlaceTypes, SignalWorkers, Goto, flagVars, ownVars, finVars,
         taskVars, AddDone
    <3>2. PlaceTypes'
      BY <1>2 DEF Types, PlaceTypes, SignalWorkers, Goto, flagVars, ownVars, finVars, taskVars,
         AddDone
    <3>3. WaitTypes'
      BY <1>2 DEF Types, WaitTypes, TaskTypes, SignalWorkers, Goto, flagVars, ownVars, finVars,
         taskVars, AddDone
    <3>4. QED
      BY <3>1, <3>2, <3>3 DEF Types
  <2>2. Others(t)
    BY <1>2 DEF Types, TaskTypes, PlaceTypes, Others, SignalWorkers, Goto, flagVars, ownVars,
       finVars, taskVars, AddDone
  <2>3. Labelled(t)' /\ Holds(t)'
    BY <1>2 DEF Types, TaskTypes, PlaceTypes, WaitTypes, Fits, Labelled, Holds, SignalWorkers,
       Goto, flagVars, ownVars, finVars, taskVars, AddDone, Busy, About, ReportLabels,
       WorkerLabels, UserLabels, MainLabels
  <2>4. Emptied(t)'
    BY <1>2 DEF Types, TaskTypes, PlaceTypes, WaitTypes, Fits, Labelled, Emptied, SignalWorkers,
       Goto, flagVars, ownVars, finVars, taskVars, AddDone, Busy, ReportLabels, WorkerLabels,
       UserLabels, MainLabels
  <2>5. WorkersKept(t) /\ MainKept(t) /\ Ends(t)
    BY <1>2 DEF Types, TaskTypes, PlaceTypes, WaitTypes, Fits, Labelled, WorkersKept, MainKept,
       Ends, SignalWorkers, Goto, flagVars, ownVars, finVars, taskVars, AddDone, Counted, Waits,
       ReportLabels, WorkerLabels, UserLabels, MainLabels
  <2>6. QED
    BY <2>1, <2>2, <2>3, <2>4, <2>5 DEF StepFacts, Fits
<1>3. CASE SignalOne(t)
  <2>1. Types'
    <3>1. TaskTypes'
      BY <1>3 DEF Types, TaskTypes, PlaceTypes, SignalOne, flagVars, ownVars, finVars, taskVars,
         AddDone, Waiting
    <3>2. PlaceTypes'
      BY <1>3 DEF Types, PlaceTypes, SignalOne, flagVars, ownVars, finVars, taskVars, AddDone,
         Waiting
    <3>3. WaitTypes'
      BY <1>3 DEF Types, WaitTypes, TaskTypes, SignalOne, flagVars, ownVars, finVars, taskVars,
         AddDone, Waiting
    <3>4. QED
      BY <3>1, <3>2, <3>3 DEF Types
  <2>2. Others(t)
    BY <1>3 DEF Types, TaskTypes, PlaceTypes, Others, SignalOne, flagVars, ownVars, finVars,
       taskVars, AddDone, Waiting
  <2>3. pc[t] = "addLock" /\ pc'[t] = AddDone(t)
    BY <1>3 DEF Types, PlaceTypes, SignalOne, Waiting
  <2>4. UNCHANGED <<taskVars, flagVars, ownVars>>
    BY <1>3 DEF SignalOne
  <2>5. Labelled(t)' /\ Holds(t)'
    BY <2>3, <2>4 DEF Fits, Labelled, Holds, AddDone, ownVars, Busy, About, ReportLabels,
       WorkerLabels, UserLabels
  <2>6. Emptied(t)'
    BY <2>3, <2>4 DEF Fits, Emptied, AddDone, taskVars, ownVars, Busy, ReportLabels, Zero
  <2>7. WorkersKept(t) /\ MainKept(t) /\ Ends(t)
    BY <2>3, <2>4 DEF WorkersKept, MainKept, Ends, AddDone, taskVars, flagVars, Counted
  <2>8. QED
    BY <2>1, <2>2, <2>5, <2>6, <2>7 DEF StepFacts, Fits
<1>4. CASE ReportWaiters(t)
  <2>1. Types'
    <3>1. TaskTypes'
      BY <1>4 DEF Types, TaskTypes, PlaceTypes, ReportWaiters, Goto, flagVars, finVars, taskVars
    <3>2. PlaceTypes'
      BY <1>4 DEF Types, PlaceTypes, ReportWaiters, Goto, flagVars, finVars, taskVars
    <3>3. WaitTypes'
      BY <1>4 DEF Types, WaitTypes, TaskTypes, ReportWaiters, Goto, flagVars, finVars, taskVars
    <3>4. QED
      BY <3>1, <3>2, <3>3 DEF Types
  <2>2. Others(t)
    BY <1>4 DEF Types, TaskTypes, PlaceTypes, Others, ReportWaiters, Goto, flagVars, finVars,
       taskVars
  <2>3. Labelled(t)' /\ Holds(t)'
    BY <1>4 DEF Types, TaskTypes, PlaceTypes, WaitTypes, Fits, Labelled, Holds, ReportWaiters,
       Goto, flagVars, finVars, taskVars, Busy, About, ReportLabels, WorkerLabels, UserLabels,
       MainLabels
  <2>4. Emptied(t)'
    BY <1>4 DEF Types, TaskTypes, PlaceTypes, WaitTypes, Fits, Labelled, Emptied, ReportWaiters,
       Goto, flagVars, finVars, taskVars, Busy, ReportLabels, WorkerLabels, UserLabels, MainLabels
  <2>5. WorkersKept(t) /\ MainKept(t) /\ Ends(t)
    BY <1>4 DEF Types, TaskTypes, PlaceTypes, WaitTypes, Fits, Labelled, WorkersKept, MainKept,
       Ends, ReportWaiters, Goto, flagVars, finVars, taskVars, Counted, Waits, ReportLabels,
       WorkerLabels, UserLabels, MainLabels
  <2>6. QED
    BY <2>1, <2>2, <2>3, <2>4, <2>5 DEF StepFacts, Fits
<1>5. CASE ReportCount(t)
  <2>1. Types'
    <3>1. TaskTypes'
      BY <1>5 DEF Types, TaskTypes, PlaceTypes, ReportCount, Goto, Set, flagVars, finVars, taskVars
    <3>2. PlaceTypes'
      BY <1>5 DEF Types, PlaceTypes, ReportCount, Goto, Set, flagVars, finVars, taskVars
    <3>3. WaitTypes'
      BY <1>5 DEF Types, WaitTypes, TaskTypes, ReportCount, Goto, Set, flagVars, finVars, taskVars
    <3>4. QED
      BY <3>1, <3>2, <3>3 DEF Types
  <2>2. Others(t)
    BY <1>5 DEF Types, TaskTypes, PlaceTypes, Others, ReportCount, Goto, Set, flagVars, finVars,
       taskVars
  <2>3. Labelled(t)' /\ Holds(t)'
    BY <1>5 DEF Types, TaskTypes, PlaceTypes, WaitTypes, Fits, Labelled, Holds, ReportCount, Goto,
       Set, flagVars, finVars, taskVars, Busy, About, ReportLabels, WorkerLabels, UserLabels,
       MainLabels
  <2>4. Emptied(t)'
    BY <1>5 DEF Types, TaskTypes, PlaceTypes, WaitTypes, Fits, Labelled, Emptied, ReportCount,
       Goto, Set, flagVars, finVars, taskVars, Busy, ReportLabels, WorkerLabels, UserLabels,
       MainLabels
  <2>5. WorkersKept(t) /\ MainKept(t) /\ Ends(t)
    BY <1>5 DEF Types, TaskTypes, PlaceTypes, WaitTypes, Fits, Labelled, WorkersKept, MainKept,
       Ends, ReportCount, Goto, Set, flagVars, finVars, taskVars, Counted, Waits, ReportLabels,
       WorkerLabels, UserLabels, MainLabels
  <2>6. QED
    BY <2>1, <2>2, <2>3, <2>4, <2>5 DEF StepFacts, Fits
<1>6. CASE ReportSignal(t)
  <2>1. Types'
    <3>1. TaskTypes'
      BY <1>6 DEF Types, TaskTypes, PlaceTypes, ReportSignal, flagVars, ownVars, finVars, taskVars
    <3>2. PlaceTypes'
      BY <1>6 DEF Types, PlaceTypes, ReportSignal, flagVars, ownVars, finVars, taskVars
    <3>3. WaitTypes'
      BY <1>6 DEF Types, WaitTypes, TaskTypes, ReportSignal, flagVars, ownVars, finVars, taskVars
    <3>4. QED
      BY <3>1, <3>2, <3>3 DEF Types
  <2>2. Others(t)
    BY <1>6 DEF Types, TaskTypes, PlaceTypes, Others, ReportSignal, flagVars, ownVars, finVars,
       taskVars
  <2>3. Labelled(t)' /\ Holds(t)'
    BY <1>6 DEF Types, TaskTypes, PlaceTypes, WaitTypes, Fits, Labelled, Holds, ReportSignal,
       flagVars, ownVars, finVars, taskVars, Busy, About, ReportLabels, WorkerLabels, UserLabels,
       MainLabels
  <2>4. Emptied(t)'
    BY <1>6 DEF Types, TaskTypes, PlaceTypes, WaitTypes, Fits, Labelled, Emptied, ReportSignal,
       flagVars, ownVars, finVars, taskVars, Busy, ReportLabels, WorkerLabels, UserLabels,
       MainLabels
  <2>5. WorkersKept(t) /\ MainKept(t) /\ Ends(t)
    BY <1>6 DEF Types, TaskTypes, PlaceTypes, WaitTypes, Fits, Labelled, WorkersKept, MainKept,
       Ends, ReportSignal, flagVars, ownVars, finVars, taskVars, Counted, Waits, ReportLabels,
       WorkerLabels, UserLabels, MainLabels
  <2>6. QED
    BY <2>1, <2>2, <2>3, <2>4, <2>5 DEF StepFacts, Fits
<1>7. CASE ReportEnd(t)
  <2>1. Types'
    <3>1. TaskTypes'
      BY <1>7 DEF Types, TaskTypes, PlaceTypes, ReportEnd, Goto, flagVars, ownVars, finVars,
         taskVars
    <3>2. PlaceTypes'
      BY <1>7 DEF Types, PlaceTypes, ReportEnd, Goto, flagVars, ownVars, finVars, taskVars
    <3>3. WaitTypes'
      BY <1>7 DEF Types, WaitTypes, TaskTypes, ReportEnd, Goto, flagVars, ownVars, finVars,
         taskVars
    <3>4. QED
      BY <3>1, <3>2, <3>3 DEF Types
  <2>2. Others(t)
    BY <1>7 DEF Types, TaskTypes, PlaceTypes, Others, ReportEnd, Goto, flagVars, ownVars, finVars,
       taskVars
  <2>3. Labelled(t)' /\ Holds(t)'
    BY <1>7 DEF Types, TaskTypes, PlaceTypes, WaitTypes, Fits, Labelled, Holds, ReportEnd, Goto,
       flagVars, ownVars, finVars, taskVars, Busy, About, ReportLabels, WorkerLabels, UserLabels,
       MainLabels
  <2>4. Emptied(t)'
    BY <1>7 DEF Types, TaskTypes, PlaceTypes, WaitTypes, Fits, Labelled, Emptied, ReportEnd, Goto,
       flagVars, ownVars, finVars, taskVars, Busy, ReportLabels, WorkerLabels, UserLabels,
       MainLabels
  <2>5. WorkersKept(t) /\ MainKept(t) /\ Ends(t)
    BY <1>7 DEF Types, TaskTypes, PlaceTypes, WaitTypes, Fits, Labelled, WorkersKept, MainKept,
       Ends, ReportEnd, Goto, flagVars, ownVars, finVars, taskVars, Counted, Waits, ReportLabels,
       WorkerLabels, UserLabels, MainLabels
  <2>6. QED
    BY <2>1, <2>2, <2>3, <2>4, <2>5 DEF StepFacts, Fits
<1>8. QED
  BY <1>1, <1>2, <1>3, <1>4, <1>5, <1>6, <1>7

\* A thread calls AddTask or HelpWorkersWithTasks, or reports its tasks.
LEMMA CallFacts ==
  ASSUME Types, NEW t \in Workers \cup Users, Fits(t), NEW p \in Props,
         AddCount(t, p) \/ Report(t, p) \/ HelpStart(t, p)
  PROVE  StepFacts(t)
<1> USE TaskSchedulerAssumption DEF Threads
<1>1. CASE AddCount(t, p)
  <2>1. Types'
    <3>1. TaskTypes'
      BY <1>1 DEF Types, TaskTypes, PlaceTypes, AddCount, Set, flagVars, finVars
    <3>2. PlaceTypes'
      BY <1>1 DEF Types, PlaceTypes, AddCount, Set, flagVars, finVars
    <3>3. WaitTypes'
      BY <1>1 DEF Types, WaitTypes, TaskTypes, AddCount, Set, flagVars, finVars
    <3>4. QED
      BY <3>1, <3>2, <3>3 DEF Types
  <2>2. Others(t)
    BY <1>1 DEF Types, TaskTypes, PlaceTypes, Others, AddCount, Set, flagVars, finVars
  <2>3. Labelled(t)' /\ Holds(t)'
    BY <1>1 DEF Types, TaskTypes, PlaceTypes, WaitTypes, Fits, Labelled, Holds, AddCount, HelperRuns,
       Set, flagVars, finVars, Busy, About, ReportLabels, WorkerLabels, UserLabels, MainLabels
  <2>4. Emptied(t)'
    BY <1>1 DEF Types, TaskTypes, PlaceTypes, WaitTypes, Fits, Labelled, Emptied, AddCount, Set,
       flagVars, finVars, Busy, ReportLabels, WorkerLabels, UserLabels, MainLabels
  <2>5. WorkersKept(t) /\ MainKept(t) /\ Ends(t)
    BY <1>1 DEF Types, TaskTypes, PlaceTypes, WaitTypes, Fits, Labelled, WorkersKept, MainKept,
       Ends, AddCount, HelperRuns, Set, flagVars, finVars, Counted, Waits, ReportLabels, WorkerLabels,
       UserLabels, MainLabels
  <2>6. QED
    BY <2>1, <2>2, <2>3, <2>4, <2>5 DEF StepFacts, Fits
<1>2. CASE Report(t, p)
  <2>1. Types'
    <3>1. TaskTypes'
      BY <1>2 DEF Types, TaskTypes, PlaceTypes, Report, Set, flagVars, finVars
    <3>2. PlaceTypes'
      BY <1>2 DEF Types, PlaceTypes, Report, Set, flagVars, finVars
    <3>3. WaitTypes'
      BY <1>2 DEF Types, WaitTypes, TaskTypes, Report, Set, flagVars, finVars
    <3>4. QED
      BY <3>1, <3>2, <3>3 DEF Types
  <2>2. Others(t)
    BY <1>2 DEF Types, TaskTypes, PlaceTypes, Others, Report, Set, flagVars, finVars, Zero
  <2>3. Labelled(t)' /\ Holds(t)'
    BY <1>2 DEF Types, TaskTypes, PlaceTypes, WaitTypes, Fits, Labelled, Holds, Report, Set,
       flagVars, finVars, Busy, About, ReportLabels, WorkerLabels, UserLabels, MainLabels
  <2>4. Emptied(t)'
    BY <1>2 DEF Types, TaskTypes, PlaceTypes, WaitTypes, Fits, Labelled, Emptied, Report, Set,
       flagVars, finVars, Zero, Busy, ReportLabels, WorkerLabels, UserLabels, MainLabels
  <2>5. WorkersKept(t) /\ MainKept(t) /\ Ends(t)
    BY <1>2 DEF Types, TaskTypes, PlaceTypes, WaitTypes, Fits, Labelled, WorkersKept, MainKept,
       Ends, Report, Set, flagVars, finVars, Zero, Counted, Waits, ReportLabels, WorkerLabels,
       UserLabels, MainLabels
  <2>6. QED
    BY <2>1, <2>2, <2>3, <2>4, <2>5 DEF StepFacts, Fits
<1>3. CASE HelpStart(t, p)
  <2>1. Types'
    <3>1. TaskTypes'
      BY <1>3 DEF Types, TaskTypes, PlaceTypes, HelpStart, Goto, flagVars, finVars, taskVars
    <3>2. PlaceTypes'
      BY <1>3 DEF Types, PlaceTypes, HelpStart, Goto, flagVars, finVars, taskVars
    <3>3. WaitTypes'
      BY <1>3 DEF Types, WaitTypes, TaskTypes, HelpStart, Goto, flagVars, finVars, taskVars
    <3>4. QED
      BY <3>1, <3>2, <3>3 DEF Types
  <2>2. Others(t)
    BY <1>3 DEF Types, TaskTypes, PlaceTypes, Others, HelpStart, Goto, flagVars, finVars, taskVars
  <2>3. Labelled(t)' /\ Holds(t)'
    BY <1>3 DEF Types, TaskTypes, PlaceTypes, WaitTypes, Fits, Labelled, Holds, HelpStart, Goto,
       flagVars, finVars, taskVars, Busy, About, ReportLabels, WorkerLabels, UserLabels, MainLabels
  <2>4. Emptied(t)'
    BY <1>3 DEF Types, TaskTypes, PlaceTypes, WaitTypes, Fits, Labelled, Emptied, HelpStart, Goto,
       flagVars, finVars, taskVars, Busy, ReportLabels, WorkerLabels, UserLabels, MainLabels
  <2>5. WorkersKept(t) /\ MainKept(t) /\ Ends(t)
    BY <1>3 DEF Types, TaskTypes, PlaceTypes, WaitTypes, Fits, Labelled, WorkersKept, MainKept,
       Ends, HelpStart, Goto, flagVars, finVars, taskVars, Counted, Waits, ReportLabels,
       WorkerLabels, UserLabels, MainLabels
  <2>6. QED
    BY <2>1, <2>2, <2>3, <2>4, <2>5 DEF StepFacts, Fits
<1>4. QED
  BY <1>1, <1>2, <1>3

\* What a helper takes from the queue is there.
LEMMA HelperShare ==
  ASSUME NEW n \in Nat
  PROVE  /\ CountToGet(n, Cardinality(Workers) + 1) \in Nat
         /\ CountToGet(n, Cardinality(Workers) + 1) <= n
<1>1. Cardinality(Workers) \in Nat
  BY TaskSchedulerAssumption, FS_Subset, FS_CardinalityType DEF Threads
<1>2. QED
  BY <1>1, ShareBounds

\* A helper takes one task of property p from a worker, or none.
LEMMA HelperTakes ==
  ASSUME Types, NEW t \in Users, Fits(t), HelpSteal(t)
  PROVE  \E v \in Workers : \E n \in {0, 1} : \E p \in Props :
           /\ p = arg[t] /\ n <= local[v][p]
           /\ local' = [local EXCEPT ![v][p] = @ - n]
           /\ done' = [done EXCEPT ![t][p] = n]
           /\ local' \in [Workers -> [Props -> Nat]]
           /\ done' \in [Threads -> [Props -> Nat]]
           /\ local'[v][p] = local[v][p] - n
           /\ \A u \in Workers : local[u] = Zero => local'[u] = Zero
           /\ \A u \in Threads : u # t => done'[u] = done[u]
<1>1. arg[t] \in Props
  BY TaskSchedulerAssumption DEF Types, PlaceTypes, Fits, Holds, HelpSteal, Goto, About, Threads
<1>2. PICK v \in Workers, n \in {0, 1} :
        /\ n = IF local[v][arg[t]] > 0 THEN 1 ELSE 0
        /\ local' = [local EXCEPT ![v][arg[t]] = @ - n]
        /\ done' = [done EXCEPT ![t][arg[t]] = n]
  BY DEF HelpSteal
<1>3. PICK p \in Props : p = arg[t]
  BY <1>1
<1>4. local \in [Workers -> [Props -> Nat]] /\ done \in [Threads -> [Props -> Nat]] /\ t \in Threads
  BY DEF Types, TaskTypes, Threads
<1>5. local[v][p] - n \in Nat /\ n <= local[v][p] /\ n \in Nat
  BY <1>2, <1>3, <1>4
<1>6. /\ local' \in [Workers -> [Props -> Nat]] /\ local'[v][p] = local[v][p] - n
      /\ \A q \in Props : q # p => local'[v][q] = local[v][q]
      /\ \A u \in Workers : u # v => local'[u] = local[u]
  BY <1>2, <1>3, <1>4, <1>5, CountSet
<1>7. /\ done' \in [Threads -> [Props -> Nat]]
      /\ \A u \in Threads : u # t => done'[u] = done[u]
  BY <1>2, <1>3, <1>4, <1>5, CountSet
<1>8. local[v] = Zero => local'[v] = Zero
  BY <1>3, <1>4, <1>5, <1>6 DEF Zero
<1>9. \A u \in Workers : local[u] = Zero => local'[u] = Zero
  BY <1>6, <1>8
<1>10. /\ local' = [local EXCEPT ![v][p] = @ - n]
       /\ done' = [done EXCEPT ![t][p] = n]
  BY <1>2, <1>3
<1>11. WITNESS v \in Workers
<1>12. WITNESS n \in {0, 1}
<1>13. WITNESS p \in Props
<1>14. QED
  BY <1>3, <1>5, <1>6, <1>7, <1>9, <1>10

\* The steps of a helper.
LEMMA HelpFacts ==
  ASSUME Types, NEW t \in Users, Fits(t), HelpPop(t) \/ HelpSteal(t)
  PROVE  StepFacts(t)
<1> USE TaskSchedulerAssumption DEF Threads
<1>1. CASE HelpPop(t)
  <2>1. Types'
    <3>1. TaskTypes'
      <4> DEFINE n == CountToGet(queue[arg[t]], Cardinality(Workers) + 1)
      <4>1. arg[t] \in Props
        BY <1>1 DEF Types, PlaceTypes, Fits, Holds, HelpPop, Goto, About
      <4>2. n \in Nat /\ n <= queue[arg[t]]
        BY <4>1, HelperShare DEF Types, TaskTypes
      <4>3. done' \in [Threads -> [Props -> Nat]]
        BY <1>1, <4>1, <4>2, CountSet DEF Types, TaskTypes, HelpPop
      <4> HIDE DEF n
      <4>4. queue' = [queue EXCEPT ![arg[t]] = @ - n]
        BY <1>1 DEF HelpPop, n
      <4>5. queue' \in [Props -> Nat]
        BY <4>1, <4>2, <4>4 DEF Types, TaskTypes
      <4>6. QED
        BY <1>1, <4>3, <4>5 DEF Types, TaskTypes, HelpPop
    <3>2. PlaceTypes'
      BY <1>1 DEF Types, PlaceTypes, HelpPop, Goto, Set, flagVars, finVars
    <3>3. WaitTypes'
      BY <1>1 DEF Types, WaitTypes, TaskTypes, HelpPop, Goto, Set, flagVars, finVars
    <3>4. QED
      BY <3>1, <3>2, <3>3 DEF Types
  <2>2. Others(t)
    BY <1>1 DEF Types, TaskTypes, PlaceTypes, Others, HelpPop, Goto, Set, flagVars, finVars, Zero
  <2>3. Labelled(t)' /\ Holds(t)'
    BY <1>1 DEF Types, TaskTypes, PlaceTypes, WaitTypes, Fits, Labelled, Holds, HelpPop, Goto, Set,
       flagVars, finVars, Busy, About, ReportLabels, WorkerLabels, UserLabels, MainLabels
  <2>4. Emptied(t)'
    BY <1>1 DEF Types, TaskTypes, PlaceTypes, WaitTypes, Fits, Labelled, Emptied, HelpPop, Goto,
       Set, flagVars, finVars, Zero, Busy, ReportLabels, WorkerLabels, UserLabels, MainLabels
  <2>5. WorkersKept(t) /\ MainKept(t) /\ Ends(t)
    BY <1>1 DEF Types, TaskTypes, PlaceTypes, WaitTypes, Fits, Labelled, WorkersKept, MainKept,
       Ends, HelpPop, Goto, Set, flagVars, finVars, Zero, Counted, Waits, ReportLabels,
       WorkerLabels, UserLabels, MainLabels
  <2>6. QED
    BY <2>1, <2>2, <2>3, <2>4, <2>5 DEF StepFacts, Fits
<1>2. CASE HelpSteal(t)
  <2>1. Types'
    <3>1. TaskTypes'
      BY <1>2, HelperTakes DEF Types, TaskTypes, HelpSteal
    <3>2. PlaceTypes'
      BY <1>2 DEF Types, PlaceTypes, HelpSteal, Goto, Set, flagVars, finVars
    <3>3. WaitTypes'
      BY <1>2 DEF Types, WaitTypes, TaskTypes, HelpSteal, Goto, Set, flagVars, finVars
    <3>4. QED
      BY <3>1, <3>2, <3>3 DEF Types
  <2>2. Others(t)
    BY <1>2, HelperTakes DEF Types, TaskTypes, PlaceTypes, Others, HelpSteal, Goto, Set
  <2>3. Labelled(t)' /\ Holds(t)'
    BY <1>2 DEF Types, TaskTypes, PlaceTypes, WaitTypes, Fits, Labelled, Holds, HelpSteal, Goto,
       Set, flagVars, finVars, Busy, About, ReportLabels, WorkerLabels, UserLabels, MainLabels
  <2>4. Emptied(t)'
    BY <1>2 DEF Types, TaskTypes, PlaceTypes, WaitTypes, Fits, Labelled, Emptied, HelpSteal, Goto,
       Set, flagVars, finVars, Zero, Busy, ReportLabels, WorkerLabels, UserLabels, MainLabels
  <2>5. WorkersKept(t) /\ MainKept(t) /\ Ends(t)
    BY <1>2 DEF Types, TaskTypes, PlaceTypes, WaitTypes, Fits, Labelled, WorkersKept, MainKept,
       Ends, HelpSteal, Goto, Set, flagVars, finVars, Zero, Counted, Waits, ReportLabels,
       WorkerLabels, UserLabels, MainLabels
  <2>6. QED
    BY <2>1, <2>2, <2>3, <2>4, <2>5 DEF StepFacts, Fits
<1>3. QED
  BY <1>1, <1>2

\* The steps of Main.
LEMMA MainFacts ==
  ASSUME Types, NEW t, t = Main, Fits(t),
         \/ WaitCheck \/ FinalizeWait \/ FinishWake \/ FinalizeEnd \/ Join
         \/ (\E p \in Props : SumCounter(p)) \/ FinalizeStart \/ (\E p \in Props : WaitStart(p))
  PROVE  StepFacts(t)
<1> USE TaskSchedulerAssumption DEF Threads
<1>1. CASE WaitCheck
  <2>1. Types'
    <3>1. TaskTypes'
      BY <1>1 DEF Types, TaskTypes, PlaceTypes, WaitCheck, Goto, finVars, taskVars
    <3>2. PlaceTypes'
      BY <1>1 DEF Types, PlaceTypes, WaitCheck, Goto, finVars, taskVars
    <3>3. WaitTypes'
      BY <1>1 DEF Types, WaitTypes, TaskTypes, WaitCheck, Goto, finVars, taskVars
    <3>4. QED
      BY <3>1, <3>2, <3>3 DEF Types
  <2>2. Others(t)
    BY <1>1 DEF Types, TaskTypes, PlaceTypes, Others, WaitCheck, Goto, finVars, taskVars
  <2>3. Labelled(t)' /\ Holds(t)'
    BY <1>1 DEF Types, TaskTypes, PlaceTypes, WaitTypes, Fits, Labelled, Holds, WaitCheck, Goto,
       finVars, taskVars, Busy, About, ReportLabels, WorkerLabels, UserLabels, MainLabels
  <2>4. Emptied(t)'
    BY <1>1 DEF Types, TaskTypes, PlaceTypes, WaitTypes, Fits, Labelled, Emptied, WaitCheck, Goto,
       finVars, taskVars, Busy, ReportLabels, WorkerLabels, UserLabels, MainLabels
  <2>5. WorkersKept(t) /\ MainKept(t) /\ Ends(t)
    BY <1>1 DEF Types, TaskTypes, PlaceTypes, WaitTypes, Fits, Labelled, WorkersKept, MainKept,
       Ends, WaitCheck, Goto, finVars, taskVars, Counted, Waits, ReportLabels, WorkerLabels,
       UserLabels, MainLabels
  <2>6. QED
    BY <2>1, <2>2, <2>3, <2>4, <2>5 DEF StepFacts, Fits
<1>2. CASE FinalizeWait
  <2>1. Types'
    <3>1. TaskTypes'
      BY <1>2 DEF Types, TaskTypes, PlaceTypes, FinalizeWait, Goto, flagVars, ownVars, taskVars
    <3>2. PlaceTypes'
      BY <1>2 DEF Types, PlaceTypes, FinalizeWait, Goto, flagVars, ownVars, taskVars
    <3>3. WaitTypes'
      BY <1>2 DEF Types, WaitTypes, TaskTypes, FinalizeWait, Goto, flagVars, ownVars, taskVars
    <3>4. QED
      BY <3>1, <3>2, <3>3 DEF Types
  <2>2. Others(t)
    BY <1>2 DEF Types, TaskTypes, PlaceTypes, Others, FinalizeWait, Goto, flagVars, ownVars,
       taskVars
  <2>3. Labelled(t)' /\ Holds(t)'
    BY <1>2 DEF Types, TaskTypes, PlaceTypes, WaitTypes, Fits, Labelled, Holds, FinalizeWait, Goto,
       flagVars, ownVars, taskVars, Busy, About, ReportLabels, WorkerLabels, UserLabels, MainLabels
  <2>4. Emptied(t)'
    BY <1>2 DEF Types, TaskTypes, PlaceTypes, WaitTypes, Fits, Labelled, Emptied, FinalizeWait,
       Goto, flagVars, ownVars, taskVars, Busy, ReportLabels, WorkerLabels, UserLabels, MainLabels
  <2>5. WorkersKept(t) /\ MainKept(t) /\ Ends(t)
    BY <1>2 DEF Types, TaskTypes, PlaceTypes, WaitTypes, Fits, Labelled, WorkersKept, MainKept,
       Ends, FinalizeWait, Goto, flagVars, ownVars, taskVars, Counted, Waits, ReportLabels,
       WorkerLabels, UserLabels, MainLabels
  <2>6. QED
    BY <2>1, <2>2, <2>3, <2>4, <2>5 DEF StepFacts, Fits
<1>3. CASE FinishWake
  <2>1. Types'
    <3>1. TaskTypes'
      BY <1>3 DEF Types, TaskTypes, PlaceTypes, FinishWake, Goto, flagVars, ownVars, taskVars
    <3>2. PlaceTypes'
      BY <1>3 DEF Types, PlaceTypes, FinishWake, Goto, flagVars, ownVars, taskVars
    <3>3. WaitTypes'
      BY <1>3 DEF Types, WaitTypes, TaskTypes, FinishWake, Goto, flagVars, ownVars, taskVars
    <3>4. QED
      BY <3>1, <3>2, <3>3 DEF Types
  <2>2. Others(t)
    BY <1>3 DEF Types, TaskTypes, PlaceTypes, Others, FinishWake, Goto, flagVars, ownVars, taskVars
  <2>3. Labelled(t)' /\ Holds(t)'
    BY <1>3 DEF Types, TaskTypes, PlaceTypes, WaitTypes, Fits, Labelled, Holds, FinishWake, Goto,
       flagVars, ownVars, taskVars, Busy, About, ReportLabels, WorkerLabels, UserLabels, MainLabels
  <2>4. Emptied(t)'
    BY <1>3 DEF Types, TaskTypes, PlaceTypes, WaitTypes, Fits, Labelled, Emptied, FinishWake, Goto,
       flagVars, ownVars, taskVars, Busy, ReportLabels, WorkerLabels, UserLabels, MainLabels
  <2>5. WorkersKept(t) /\ MainKept(t) /\ Ends(t)
    BY <1>3 DEF Types, TaskTypes, PlaceTypes, WaitTypes, Fits, Labelled, WorkersKept, MainKept,
       Ends, FinishWake, Goto, flagVars, ownVars, taskVars, Counted, Waits, ReportLabels,
       WorkerLabels, UserLabels, MainLabels
  <2>6. QED
    BY <2>1, <2>2, <2>3, <2>4, <2>5 DEF StepFacts, Fits
<1>4. CASE FinalizeEnd
  <2>1. Types'
    <3>1. TaskTypes'
      BY <1>4 DEF Types, TaskTypes, PlaceTypes, FinalizeEnd, ownVars, finVars, taskVars
    <3>2. PlaceTypes'
      BY <1>4 DEF Types, PlaceTypes, FinalizeEnd, ownVars, finVars, taskVars
    <3>3. WaitTypes'
      BY <1>4 DEF Types, WaitTypes, TaskTypes, FinalizeEnd, ownVars, finVars, taskVars
    <3>4. QED
      BY <3>1, <3>2, <3>3 DEF Types
  <2>2. Others(t)
    BY <1>4 DEF Types, TaskTypes, PlaceTypes, Others, FinalizeEnd, ownVars, finVars, taskVars
  <2>3. Labelled(t)' /\ Holds(t)'
    BY <1>4 DEF Types, TaskTypes, PlaceTypes, WaitTypes, Fits, Labelled, Holds, FinalizeEnd,
       ownVars, finVars, taskVars, Busy, About, ReportLabels, WorkerLabels, UserLabels, MainLabels
  <2>4. Emptied(t)'
    BY <1>4 DEF Types, TaskTypes, PlaceTypes, WaitTypes, Fits, Labelled, Emptied, FinalizeEnd,
       ownVars, finVars, taskVars, Busy, ReportLabels, WorkerLabels, UserLabels, MainLabels
  <2>5. WorkersKept(t) /\ MainKept(t) /\ Ends(t)
    BY <1>4 DEF Types, TaskTypes, PlaceTypes, WaitTypes, Fits, Labelled, WorkersKept, MainKept,
       Ends, FinalizeEnd, ownVars, finVars, taskVars, Counted, Waits, ReportLabels, WorkerLabels,
       UserLabels, MainLabels
  <2>6. QED
    BY <2>1, <2>2, <2>3, <2>4, <2>5 DEF StepFacts, Fits
<1>5. CASE Join
  <2>1. Types'
    <3>1. TaskTypes'
      BY <1>5 DEF Types, TaskTypes, PlaceTypes, Join, Goto, flagVars, ownVars, finVars, taskVars
    <3>2. PlaceTypes'
      BY <1>5 DEF Types, PlaceTypes, Join, Goto, flagVars, ownVars, finVars, taskVars
    <3>3. WaitTypes'
      BY <1>5 DEF Types, WaitTypes, TaskTypes, Join, Goto, flagVars, ownVars, finVars, taskVars
    <3>4. QED
      BY <3>1, <3>2, <3>3 DEF Types
  <2>2. Others(t)
    BY <1>5 DEF Types, TaskTypes, PlaceTypes, Others, Join, Goto, flagVars, ownVars, finVars,
       taskVars
  <2>3. Labelled(t)' /\ Holds(t)'
    BY <1>5 DEF Types, TaskTypes, PlaceTypes, WaitTypes, Fits, Labelled, Holds, Join, Goto,
       flagVars, ownVars, finVars, taskVars, Busy, About, ReportLabels, WorkerLabels, UserLabels,
       MainLabels
  <2>4. Emptied(t)'
    BY <1>5 DEF Types, TaskTypes, PlaceTypes, WaitTypes, Fits, Labelled, Emptied, Join, Goto,
       flagVars, ownVars, finVars, taskVars, Busy, ReportLabels, WorkerLabels, UserLabels,
       MainLabels
  <2>5. WorkersKept(t) /\ MainKept(t) /\ Ends(t)
    BY <1>5 DEF Types, TaskTypes, PlaceTypes, WaitTypes, Fits, Labelled, WorkersKept, MainKept,
       Ends, Join, Goto, flagVars, ownVars, finVars, taskVars, Counted, Waits, ReportLabels,
       WorkerLabels, UserLabels, MainLabels
  <2>6. QED
    BY <2>1, <2>2, <2>3, <2>4, <2>5 DEF StepFacts, Fits
<1>6. CASE \E p \in Props : SumCounter(p)
  <2>1. Types'
    <3>1. TaskTypes'
      BY <1>6 DEF Types, TaskTypes, PlaceTypes, SumCounter, flagVars, ownVars, taskVars
    <3>2. PlaceTypes'
      BY <1>6 DEF Types, PlaceTypes, SumCounter, flagVars, ownVars, taskVars
    <3>3. WaitTypes'
      BY <1>6 DEF Types, WaitTypes, TaskTypes, SumCounter, flagVars, ownVars, taskVars
    <3>4. QED
      BY <3>1, <3>2, <3>3 DEF Types
  <2>2. Others(t)
    BY <1>6 DEF Types, TaskTypes, PlaceTypes, Others, SumCounter, flagVars, ownVars, taskVars
  <2>3. Labelled(t)' /\ Holds(t)'
    BY <1>6 DEF Types, TaskTypes, PlaceTypes, WaitTypes, Fits, Labelled, Holds, SumCounter,
       flagVars, ownVars, taskVars, Busy, About, ReportLabels, WorkerLabels, UserLabels, MainLabels
  <2>4. Emptied(t)'
    BY <1>6 DEF Types, TaskTypes, PlaceTypes, WaitTypes, Fits, Labelled, Emptied, SumCounter,
       flagVars, ownVars, taskVars, Busy, ReportLabels, WorkerLabels, UserLabels, MainLabels
  <2>5. WorkersKept(t) /\ MainKept(t) /\ Ends(t)
    BY <1>6 DEF Types, TaskTypes, PlaceTypes, WaitTypes, Fits, Labelled, WorkersKept, MainKept,
       Ends, SumCounter, flagVars, ownVars, taskVars, Counted, Waits, ReportLabels, WorkerLabels,
       UserLabels, MainLabels
  <2>6. QED
    BY <2>1, <2>2, <2>3, <2>4, <2>5 DEF StepFacts, Fits
<1>7. CASE FinalizeStart
  <2>1. Types'
    <3>1. TaskTypes'
      BY <1>7 DEF Types, TaskTypes, PlaceTypes, FinalizeStart, ownVars, taskVars
    <3>2. PlaceTypes'
      BY <1>7 DEF Types, PlaceTypes, FinalizeStart, ownVars, taskVars
    <3>3. WaitTypes'
      BY <1>7 DEF Types, WaitTypes, TaskTypes, FinalizeStart, ownVars, taskVars
    <3>4. QED
      BY <3>1, <3>2, <3>3 DEF Types
  <2>2. Others(t)
    BY <1>7 DEF Types, TaskTypes, PlaceTypes, Others, FinalizeStart, ownVars, taskVars
  <2>3. Labelled(t)' /\ Holds(t)'
    BY <1>7 DEF Types, TaskTypes, PlaceTypes, WaitTypes, Fits, Labelled, Holds, FinalizeStart,
       ownVars, taskVars, Busy, About, ReportLabels, WorkerLabels, UserLabels, MainLabels
  <2>4. Emptied(t)'
    BY <1>7 DEF Types, TaskTypes, PlaceTypes, WaitTypes, Fits, Labelled, Emptied, FinalizeStart,
       ownVars, taskVars, Busy, ReportLabels, WorkerLabels, UserLabels, MainLabels
  <2>5. WorkersKept(t) /\ MainKept(t) /\ Ends(t)
    BY <1>7 DEF Types, TaskTypes, PlaceTypes, WaitTypes, Fits, Labelled, WorkersKept, MainKept,
       Ends, FinalizeStart, ownVars, taskVars, Counted, Waits, ReportLabels, WorkerLabels,
       UserLabels, MainLabels
  <2>6. QED
    BY <2>1, <2>2, <2>3, <2>4, <2>5 DEF StepFacts, Fits
<1>8. CASE \E p \in Props : WaitStart(p)
  <2>1. Types'
    <3>1. TaskTypes'
      BY <1>8 DEF Types, TaskTypes, PlaceTypes, WaitStart, Goto, Set, finVars, taskVars
    <3>2. PlaceTypes'
      <4>1. PICK p \in Props : WaitStart(p)
        BY <1>8
      <4>2. QED
        BY <4>1 DEF Types, PlaceTypes, WaitStart, Goto, Set
    <3>3. WaitTypes'
      BY <1>8 DEF Types, WaitTypes, TaskTypes, WaitStart, Goto, Set, finVars, taskVars
    <3>4. QED
      BY <3>1, <3>2, <3>3 DEF Types
  <2>2. Others(t)
    BY <1>8 DEF Types, TaskTypes, PlaceTypes, Others, WaitStart, Goto, Set, finVars, taskVars
  <2>3. Labelled(t)' /\ Holds(t)'
    BY <1>8 DEF Types, TaskTypes, PlaceTypes, WaitTypes, Fits, Labelled, Holds, WaitStart, Goto,
       Set, finVars, taskVars, Busy, About, ReportLabels, WorkerLabels, UserLabels, MainLabels
  <2>4. Emptied(t)'
    BY <1>8 DEF Types, TaskTypes, PlaceTypes, WaitTypes, Fits, Labelled, Emptied, WaitStart, Goto,
       Set, finVars, taskVars, Busy, ReportLabels, WorkerLabels, UserLabels, MainLabels
  <2>5. WorkersKept(t) /\ MainKept(t) /\ Ends(t)
    BY <1>8 DEF Types, TaskTypes, PlaceTypes, WaitTypes, Fits, Labelled, WorkersKept, MainKept,
       Ends, WaitStart, Goto, Set, finVars, taskVars, Counted, Waits, ReportLabels, WorkerLabels,
       UserLabels, MainLabels
  <2>6. QED
    BY <2>1, <2>2, <2>3, <2>4, <2>5 DEF StepFacts, Fits
<1>9. QED
  BY <1>1, <1>2, <1>3, <1>4, <1>5, <1>6, <1>7, <1>8

\* The place of every thread still fits what it holds.
LEMMA FitsKept ==
  ASSUME \A u \in Threads : Fits(u), NEW t \in Threads, StepFacts(t)
  PROVE  \A u \in Threads : Fits(u)'
<1>1. SUFFICES ASSUME NEW u \in Threads, u # t PROVE Fits(u)'
  BY DEF StepFacts
<1>2. /\ arg'[u] = arg[u] /\ done'[u] = done[u]
      /\ u \in Workers => hand'[u] = hand[u] /\ (local[u] = Zero => local'[u] = Zero)
      /\ \/ pc'[u] = pc[u]
         \/ pc[u] = "qwait" /\ pc'[u] = "qwake"
         \/ pc[u] = "fwait" /\ pc'[u] = "fwake"
  BY <1>1 DEF StepFacts, Others
<1>3. Fits(u)
  BY <1>1
<1>4. Labelled(u)'
  BY <1>2, <1>3 DEF Fits, Labelled, WorkerLabels, UserLabels, MainLabels, ReportLabels
<1>5. Holds(u)'
  BY <1>2, <1>3 DEF Fits, Holds, Busy, About
<1>6. Emptied(u)'
  BY <1>2, <1>3 DEF Fits, Emptied, Busy, ReportLabels, Zero
<1>7. QED
  BY <1>4, <1>5, <1>6 DEF Fits

\* The counts of waiters stay exact.
LEMMA CountingKept ==
  ASSUME Counting, \A u \in Threads : Fits(u), NEW t \in Threads, StepFacts(t)
  PROVE  Counting'
<1>1. \A u \in Threads : u # t => \/ pc'[u] = pc[u]
                                  \/ pc[u] = "qwait" /\ pc'[u] = "qwake"
                                  \/ pc[u] = "fwait" /\ pc'[u] = "fwake"
  BY DEF StepFacts, Others
<1>2. Workers \subseteq Threads /\ IsFiniteSet(Workers) /\ Main \in Threads
  <2>1. IsFiniteSet(Threads) /\ Workers \in SUBSET Threads
    BY TaskSchedulerAssumption DEF Threads
  <2>2. QED
    BY <2>1, FS_Subset DEF Threads
<1>3. waitToFinish_' = IF pc'[Main] \in Waits THEN 1 ELSE 0
  <2>1. waitToFinish_ = IF pc[Main] \in Waits THEN 1 ELSE 0
    BY DEF Counting
  <2>2. t # Main => (pc[Main] \in Waits <=> pc'[Main] \in Waits)
    BY <1>1, <1>2 DEF Waits
  <2>3. MainKept(t)
    BY DEF StepFacts
  <2>4. QED
    BY <2>1, <2>2, <2>3 DEF MainKept
<1>4. waitWorkersCount_' = Cardinality(CountedWorkers')
  <2>1. \A u \in Workers : u # t => (u \in CountedWorkers <=> u \in CountedWorkers')
    BY <1>1, <1>2 DEF CountedWorkers, Counted
  <2>2. CountedWorkers \in SUBSET Workers /\ CountedWorkers' \in SUBSET Workers
    BY DEF CountedWorkers
  <2>3. PICK A \in SUBSET Workers, B \in SUBSET Workers : A = CountedWorkers /\ B = CountedWorkers'
    BY <2>2
  <2>4. /\ Cardinality(A) \in Nat /\ Cardinality(B) \in Nat
        /\ (t \in A <=> t \in B) => Cardinality(B) = Cardinality(A)
        /\ t \notin A /\ t \in B => Cardinality(B) = Cardinality(A) + 1
        /\ t \in A /\ t \notin B => Cardinality(B) = Cardinality(A) - 1
    BY <1>2, <2>1, <2>3, MembersChange
  <2>5. waitWorkersCount_ = Cardinality(A)
    BY <2>3 DEF Counting
  <2>6. /\ t \in A <=> t \in Workers /\ pc[t] \in Counted
        /\ t \in B <=> t \in Workers /\ pc'[t] \in Counted
    BY <2>3 DEF CountedWorkers
  <2>7. WorkersKept(t)
    BY DEF StepFacts
  <2>8. waitWorkersCount_' = Cardinality(B)
    BY <2>4, <2>5, <2>6, <2>7 DEF WorkersKept
  <2>9. QED
    BY <2>3, <2>8
<1>5. QED
  BY <1>3, <1>4 DEF Counting

\* Workers and users keep what Finalize relies on.
LEMMA EndingKept ==
  ASSUME Ending, \A u \in Threads : Fits(u), NEW t \in Workers \cup Users, StepFacts(t)
  PROVE  Ending'
<1>1. /\ Main \in Threads /\ t # Main /\ Workers \subseteq Threads /\ Users \subseteq Threads
      /\ \A u \in Users : u \notin Workers /\ Workers # {} /\ t \in Threads
  BY TaskSchedulerAssumption DEF Threads
<1>2. /\ finish_' = finish_ /\ disableHelpers_' = disableHelpers_ /\ arg'[Main] = arg[Main]
      /\ \A u \in Threads : u # t => \/ pc'[u] = pc[u]
                                     \/ pc[u] = "qwait" /\ pc'[u] = "qwake"
                                     \/ pc[u] = "fwait" /\ pc'[u] = "fwake"
  BY <1>1 DEF StepFacts, Others, Ends
<1>3. pc'[Main] = pc[Main] \/ (pc[Main] = "fwait" /\ pc'[Main] = "fwake")
  BY <1>1, <1>2 DEF Fits, Labelled, MainLabels
<1>4. Finalizing' <=> Finalizing
  BY <1>2, <1>3 DEF Finalizing
<1>5. \A u \in Users : u # t => (pc[u] = "idle" => pc'[u] = "idle")
  BY <1>1, <1>2
<1>6. \A w \in Workers : w # t => (pc'[w] = "exit" <=> pc[w] = "exit")
  BY <1>1, <1>2
<1>7. CASE t \in Workers
  <2>1. pc[t] # "exit" /\ (pc'[t] = "exit" => finish_ /\ queue' = Zero)
    BY <1>7 DEF StepFacts, Ends
  <2>2. t \notin Users
    BY <1>1, <1>7
  <2>3. QED
    BY <1>2, <1>3, <1>4, <1>5, <1>6, <1>7, <2>1, <2>2 DEF Ending, Zero
<1>8. CASE t \in Users
  <2>1. pc[t] = "idle" =>
          queue' = queue /\ (Finalizing \/ (finish_ /\ disableHelpers_) => pc'[t] = "idle")
    BY <1>8 DEF StepFacts, Ends
  <2>2. t \notin Workers
    BY <1>1, <1>8
  <2>3. QED
    BY <1>1, <1>2, <1>3, <1>4, <1>5, <1>6, <1>8, <2>1, <2>2 DEF Ending, Zero
<1>9. QED
  BY <1>7, <1>8

\* So does Main.
LEMMA MainEnding ==
  ASSUME Ending, Fits(Main), Types,
         \/ WaitCheck \/ FinalizeWait \/ FinishWake \/ FinalizeEnd \/ Join
         \/ (\E p \in Props : SumCounter(p)) \/ FinalizeStart \/ (\E p \in Props : WaitStart(p))
  PROVE  Ending'
<1>1. /\ Main \in Threads /\ Workers \subseteq Threads /\ Users \subseteq Threads
      /\ \A u \in Users \cup Workers : u # Main
      /\ None \notin Props
  BY TaskSchedulerAssumption DEF Threads
<1>2. queue' = queue
  BY DEF WaitCheck, FinalizeWait, FinishWake, FinalizeEnd, Join, SumCounter, FinalizeStart,
         WaitStart, taskVars
<1>3. /\ pc = [t \in Threads |-> pc[t]] /\ arg \in [Threads -> Props \cup {None}]
      /\ pc[Main] \in About => arg[Main] \in Props
      /\ pc[Main] \in {"idle", "waited", "sum", "join", "done"} => arg[Main] = None
  BY DEF Types, PlaceTypes, Fits, Holds
<1>4. CASE WaitCheck
  BY <1>1, <1>2, <1>3, <1>4 DEF WaitCheck, Ending, Finalizing, Goto, About, Zero
<1>5. CASE FinalizeWait
  BY <1>1, <1>2, <1>3, <1>5 DEF FinalizeWait, Ending, Finalizing, Goto, flagVars, ownVars, Zero
<1>6. CASE FinishWake
  BY <1>1, <1>2, <1>3, <1>6 DEF FinishWake, Ending, Finalizing, Goto, flagVars, ownVars, Zero
<1>7. CASE FinalizeEnd
  BY <1>1, <1>2, <1>3, <1>7 DEF FinalizeEnd, Ending, Finalizing, ownVars, Zero
<1>8. CASE Join
  BY <1>1, <1>2, <1>3, <1>8 DEF Join, Ending, Finalizing, Goto, flagVars, ownVars, Zero
<1>9. CASE \E p \in Props : SumCounter(p)
  BY <1>1, <1>2, <1>3, <1>9 DEF SumCounter, Ending, Finalizing, flagVars, ownVars, Zero
<1>10. CASE FinalizeStart
  BY <1>1, <1>2, <1>3, <1>10 DEF FinalizeStart, Ending, Finalizing, ownVars, Zero
<1>11. CASE \E p \in Props : WaitStart(p)
  BY <1>1, <1>2, <1>3, <1>11 DEF WaitStart, Ending, Finalizing, Goto, Set, Zero
<1>12. QED
  BY <1>4, <1>5, <1>6, <1>7, <1>8, <1>9, <1>10, <1>11

-----------------------------------------------------------------------------
(* No task is lost or counted twice.                                       *)

LocalTasks(p) == Cardinality(Items(local, Workers, p))
DoneTasks(p) == Cardinality(Items(done, Threads, p))
RunningTasks(p) == Cardinality(Running(p))
PushingTasks(p) == Cardinality(Pushing(p))

\* Every part of Outstanding is a natural number.
LEMMA PartsNatural ==
  ASSUME Types, NEW p \in Props
  PROVE  /\ queue[p] \in Nat /\ LocalTasks(p) \in Nat /\ DoneTasks(p) \in Nat
         /\ RunningTasks(p) \in Nat /\ PushingTasks(p) \in Nat
         /\ Outstanding(p) = queue[p] + LocalTasks(p) + DoneTasks(p) + RunningTasks(p) + PushingTasks(p)
<1>1. IsFiniteSet(Threads) /\ IsFiniteSet(Workers)
  <2>1. IsFiniteSet(Threads) /\ Workers \in SUBSET Threads
    BY TaskSchedulerAssumption DEF Threads
  <2>2. QED
    BY <2>1, FS_Subset
<1>2. queue[p] \in Nat
  BY DEF Types, TaskTypes
<1>3. \A w \in Workers : local[w][p] \in Nat
  BY DEF Types, TaskTypes
<1>4. LocalTasks(p) \in Nat
  BY <1>1, <1>3, ItemsFinite DEF LocalTasks
<1>5. \A t \in Threads : done[t][p] \in Nat
  BY DEF Types, TaskTypes
<1>6. DoneTasks(p) \in Nat
  BY <1>1, <1>5, ItemsFinite DEF DoneTasks
<1>7. Running(p) \in SUBSET Workers /\ Pushing(p) \in SUBSET Threads
  BY DEF Running, Pushing
<1>8. RunningTasks(p) \in Nat /\ PushingTasks(p) \in Nat
  BY <1>1, <1>7, FS_Subset, FS_CardinalityType DEF RunningTasks, PushingTasks
<1>9. QED
  BY <1>2, <1>4, <1>6, <1>8 DEF Outstanding, LocalTasks, DoneTasks, RunningTasks, PushingTasks

\* A step of t changes the parts of Outstanding by what t itself holds.
LEMMA PartsChange ==
  ASSUME Types, NEW t \in Threads, StepFacts(t), NEW p \in Props
  PROVE  /\ DoneTasks(p)' = DoneTasks(p) + done'[t][p] - done[t][p]
         /\ (t \in Running(p) <=> t \in Running(p)') => RunningTasks(p)' = RunningTasks(p)
         /\ t \notin Running(p) /\ t \in Running(p)' => RunningTasks(p)' = RunningTasks(p) + 1
         /\ t \in Running(p) /\ t \notin Running(p)' => RunningTasks(p)' = RunningTasks(p) - 1
         /\ (t \in Pushing(p) <=> t \in Pushing(p)') => PushingTasks(p)' = PushingTasks(p)
         /\ t \notin Pushing(p) /\ t \in Pushing(p)' => PushingTasks(p)' = PushingTasks(p) + 1
         /\ t \in Pushing(p) /\ t \notin Pushing(p)' => PushingTasks(p)' = PushingTasks(p) - 1
<1>1. IsFiniteSet(Threads) /\ IsFiniteSet(Workers) /\ Workers \subseteq Threads
  <2>1. IsFiniteSet(Threads) /\ Workers \in SUBSET Threads
    BY TaskSchedulerAssumption DEF Threads
  <2>2. QED
    BY <2>1, FS_Subset
<1>2. Others(t) /\ Types'
  BY DEF StepFacts
<1>4. \A u \in Threads : u # t => done'[u][p] = done[u][p]
  BY <1>2 DEF Others
<1>5. DoneTasks(p)' = DoneTasks(p) + done'[t][p] - done[t][p]
  <2>1. PICK f \in [Threads -> [Props -> Nat]], g \in [Threads -> [Props -> Nat]] :
          f = done /\ g = done'
    BY <1>2 DEF Types, TaskTypes
  <2>2. \A u \in Threads : u # t => g[u][p] = f[u][p]
    BY <1>4, <2>1
  <2>3. Cardinality(Items(g, Threads, p)) = Cardinality(Items(f, Threads, p)) + g[t][p] - f[t][p]
    BY <1>1, <2>2, ItemsChange
  <2>4. QED
    BY <2>1, <2>3 DEF DoneTasks
<1>6. \A u \in Workers : u # t => (u \in Running(p) <=> u \in Running(p)')
  BY <1>1, <1>2 DEF Others, Running
<1>7. \A u \in Threads : u # t => (u \in Pushing(p) <=> u \in Pushing(p)')
  BY <1>2 DEF Others, Pushing
<1>8. PICK A \in SUBSET Workers, B \in SUBSET Workers : A = Running(p) /\ B = Running(p)'
  BY DEF Running
<1>9. PICK C \in SUBSET Threads, D \in SUBSET Threads : C = Pushing(p) /\ D = Pushing(p)'
  BY DEF Pushing
<1>10. /\ (t \in A <=> t \in B) => Cardinality(B) = Cardinality(A)
       /\ t \notin A /\ t \in B => Cardinality(B) = Cardinality(A) + 1
       /\ t \in A /\ t \notin B => Cardinality(B) = Cardinality(A) - 1
  BY <1>1, <1>6, <1>8, MembersChange
<1>11. /\ (t \in C <=> t \in D) => Cardinality(D) = Cardinality(C)
       /\ t \notin C /\ t \in D => Cardinality(D) = Cardinality(C) + 1
       /\ t \in C /\ t \notin D => Cardinality(D) = Cardinality(C) - 1
  BY <1>1, <1>7, <1>9, MembersChange
<1>12. RunningTasks(p)' = Cardinality(B) /\ RunningTasks(p) = Cardinality(A)
  BY <1>8 DEF RunningTasks
<1>13. PushingTasks(p)' = Cardinality(D) /\ PushingTasks(p) = Cardinality(C)
  BY <1>9 DEF PushingTasks
<1>14. QED
  BY <1>5, <1>8, <1>9, <1>10, <1>11, <1>12, <1>13

\* When the local queue of one worker changes.
LEMMA LocalChange ==
  ASSUME Types, Types', NEW p \in Props, NEW v \in Workers,
         \A u \in Workers : u # v => local'[u][p] = local[u][p]
  PROVE  LocalTasks(p)' = LocalTasks(p) + local'[v][p] - local[v][p]
<1>1. IsFiniteSet(Workers)
  <2>1. IsFiniteSet(Threads) /\ Workers \in SUBSET Threads
    BY TaskSchedulerAssumption DEF Threads
  <2>2. QED
    BY <2>1, FS_Subset
<1>3. PICK f \in [Workers -> [Props -> Nat]], g \in [Workers -> [Props -> Nat]] :
        f = local /\ g = local'
  BY DEF Types, TaskTypes
<1>4. \A u \in Workers : u # v => g[u][p] = f[u][p]
  BY <1>3
<1>5. Cardinality(Items(g, Workers, p)) = Cardinality(Items(f, Workers, p)) + g[v][p] - f[v][p]
  BY <1>1, <1>4, ItemsChange
<1>6. QED
  BY <1>3, <1>5 DEF LocalTasks

\* A step that moves no task.
LEMMA StillExact ==
  ASSUME Types, CountExact, NEW t \in Threads, StepFacts(t),
         UNCHANGED <<queue, local, inSystem, hand, done>>,
         pc[t] # "addPush", pc'[t] # "addPush"
  PROVE  CountExact'
<1>1. SUFFICES ASSUME NEW p \in Props PROVE inSystem'[p] = Outstanding(p)'
  BY DEF CountExact
<1>2. LocalTasks(p)' = LocalTasks(p) /\ DoneTasks(p)' = DoneTasks(p) /\ RunningTasks(p)' = RunningTasks(p)
  BY DEF LocalTasks, DoneTasks, RunningTasks, Running
<1>3. PushingTasks(p)' = PushingTasks(p)
  BY PartsChange DEF Pushing
<1>4. inSystem[p] = queue[p] + LocalTasks(p) + DoneTasks(p) + RunningTasks(p) + PushingTasks(p)
  BY PartsNatural DEF CountExact
<1>5. Outstanding(p)' = queue'[p] + LocalTasks(p)' + DoneTasks(p)' + RunningTasks(p)' + PushingTasks(p)'
  BY DEF Outstanding, LocalTasks, DoneTasks, RunningTasks, PushingTasks
<1>6. QED
  BY <1>2, <1>3, <1>4, <1>5

\* The steps that move a task: what leaves one place arrives in another.
LEMMA AddExact ==
  ASSUME Types, CountExact, NEW t \in Workers \cup Users, Fits(t), StepFacts(t), NEW q \in Props,
         AddCount(t, q) \/ AddPush(t)
  PROVE  CountExact'
<1>1. SUFFICES ASSUME NEW p \in Props PROVE inSystem'[p] = Outstanding(p)'
  BY DEF CountExact
<1>2. /\ queue[p] \in Nat /\ LocalTasks(p) \in Nat /\ DoneTasks(p) \in Nat
      /\ RunningTasks(p) \in Nat /\ PushingTasks(p) \in Nat
      /\ inSystem[p] = queue[p] + LocalTasks(p) + DoneTasks(p) + RunningTasks(p) + PushingTasks(p)
  BY PartsNatural DEF CountExact
<1>3. Outstanding(p)' = queue'[p] + LocalTasks(p)' + DoneTasks(p)' + RunningTasks(p)' + PushingTasks(p)'
  BY DEF Outstanding, LocalTasks, DoneTasks, RunningTasks, PushingTasks
<1>4. local' = local /\ hand' = hand /\ done' = done
  BY DEF AddCount, AddPush
<1>5. LocalTasks(p)' = LocalTasks(p) /\ DoneTasks(p)' = DoneTasks(p) /\ RunningTasks(p)' = RunningTasks(p)
  BY <1>4 DEF LocalTasks, DoneTasks, RunningTasks, Running
<1>6. t \in Threads /\ (t \in Pushing(p) <=> pc[t] = "addPush" /\ arg[t] = p)
      /\ (t \in Pushing(p)' <=> pc'[t] = "addPush" /\ arg'[t] = p)
  BY DEF Pushing, Threads
<1>7. CASE AddCount(t, q)
  <2>1. queue' = queue /\ inSystem'[p] = IF p = q THEN inSystem[p] + 1 ELSE inSystem[p]
    BY <1>7 DEF AddCount, Types, TaskTypes
  <2>2. pc[t] # "addPush" /\ pc'[t] = "addPush" /\ arg'[t] = q
    BY <1>6, <1>7 DEF AddCount, HelperRuns, Set, Types, PlaceTypes
  <2>3. PushingTasks(p)' = IF p = q THEN PushingTasks(p) + 1 ELSE PushingTasks(p)
    BY <1>6, <2>2, PartsChange
  <2>4. QED
    BY <1>2, <1>3, <1>5, <2>1, <2>3
<1>8. CASE AddPush(t)
  <2>1. arg[t] \in Props /\ inSystem' = inSystem /\ pc[t] = "addPush" /\ pc'[t] = "addSignal"
    BY <1>6, <1>8 DEF AddPush, Goto, Types, PlaceTypes, Fits, Holds, About
  <2>2. queue'[p] = IF p = arg[t] THEN queue[p] + 1 ELSE queue[p]
    BY <1>8, <2>1 DEF AddPush, Types, TaskTypes
  <2>3. PushingTasks(p)' = IF p = arg[t] THEN PushingTasks(p) - 1 ELSE PushingTasks(p)
    BY <1>6, <2>1, PartsChange
  <2>4. QED
    BY <1>2, <1>3, <1>5, <2>1, <2>2, <2>3
<1>9. QED
  BY <1>7, <1>8

\* A worker takes one task, from its own local queue or from another one.
LEMMA TakeExact ==
  ASSUME Types, CountExact, NEW t \in Workers, Fits(t), StepFacts(t), Steal(t) \/ Execute(t)
  PROVE  CountExact'
<1>1. /\ t \in Threads /\ pc[t] \in {"steal", "exec"} /\ pc'[t] # "addPush" /\ pc[t] # "addPush"
      /\ UNCHANGED <<queue, inSystem, done>> /\ hand[t] \notin Props
  BY DEF Steal, Execute, Threads, Types, TaskTypes, PlaceTypes, Fits, Holds, Busy
<1>2. CASE local' = local /\ hand' = hand
  BY <1>1, <1>2, StillExact
<1>3. CASE \E v \in Workers : \E q \in Poppable(local[v]) :
             local' = [local EXCEPT ![v][q] = @ - 1] /\ hand' = [hand EXCEPT ![t] = q]
  <2>1. PICK v \in Workers : \E q \in Poppable(local[v]) :
          local' = [local EXCEPT ![v][q] = @ - 1] /\ hand' = [hand EXCEPT ![t] = q]
    BY <1>3
  <2>2. PICK q \in Poppable(local[v]) :
          local' = [local EXCEPT ![v][q] = @ - 1] /\ hand' = [hand EXCEPT ![t] = q]
    BY <2>1
  <2>3. /\ q \in Props /\ local'[v][q] = local[v][q] - 1
        /\ \A r \in Props : r # q => local'[v][r] = local[v][r]
        /\ \A u \in Workers : u # v => local'[u] = local[u]
    BY <2>2, TakeOne
  <2>4. SUFFICES ASSUME NEW p \in Props PROVE inSystem'[p] = Outstanding(p)'
    BY DEF CountExact
  <2>5. /\ queue[p] \in Nat /\ LocalTasks(p) \in Nat /\ DoneTasks(p) \in Nat
        /\ RunningTasks(p) \in Nat /\ PushingTasks(p) \in Nat
        /\ inSystem[p] = queue[p] + LocalTasks(p) + DoneTasks(p) + RunningTasks(p) + PushingTasks(p)
    BY PartsNatural DEF CountExact
  <2>6. Outstanding(p)' = queue'[p] + LocalTasks(p)' + DoneTasks(p)' + RunningTasks(p)' + PushingTasks(p)'
    BY DEF Outstanding, LocalTasks, DoneTasks, RunningTasks, PushingTasks
  <2>7. LocalTasks(p)' = LocalTasks(p) + local'[v][p] - local[v][p]
    BY <2>3, LocalChange DEF StepFacts
  <2>8. local[v][p] \in Nat
    BY DEF Types, TaskTypes
  <2>9. LocalTasks(p)' = IF p = q THEN LocalTasks(p) - 1 ELSE LocalTasks(p)
    BY <2>3, <2>5, <2>7, <2>8
  <2>10. t \notin Running(p) /\ (t \in Running(p)' <=> p = q)
    BY <1>1, <2>2, <2>3 DEF Running, Types, TaskTypes
  <2>11. RunningTasks(p)' = IF p = q THEN RunningTasks(p) + 1 ELSE RunningTasks(p)
    BY <1>1, <2>10, PartsChange
  <2>12. PushingTasks(p)' = PushingTasks(p)
    BY <1>1, PartsChange DEF Pushing
  <2>13. DoneTasks(p)' = DoneTasks(p)
    BY <1>1 DEF DoneTasks
  <2>14. QED
    BY <1>1, <2>5, <2>6, <2>9, <2>11, <2>12, <2>13
<1>4. QED
  BY <1>2, <1>3 DEF Steal, Execute

\* PutTasksInWorker moves tasks from the queue to the local queue of t.
LEMMA PutExact ==
  ASSUME Types, CountExact, NEW t \in Workers, StepFacts(t), PutTasksInWorker(t)
  PROVE  CountExact'
<1>1. /\ t \in Threads /\ pc'[t] # "addPush" /\ pc[t] # "addPush"
      /\ UNCHANGED <<inSystem, hand, done>>
  BY DEF PutTasksInWorker, Threads, Types, PlaceTypes, ownVars
<1>2. SUFFICES ASSUME NEW p \in Props PROVE inSystem'[p] = Outstanding(p)'
  BY DEF CountExact
<1>3. /\ queue[p] \in Nat /\ LocalTasks(p) \in Nat /\ DoneTasks(p) \in Nat
      /\ RunningTasks(p) \in Nat /\ PushingTasks(p) \in Nat
      /\ inSystem[p] = queue[p] + LocalTasks(p) + DoneTasks(p) + RunningTasks(p) + PushingTasks(p)
  BY PartsNatural DEF CountExact
<1>4. Outstanding(p)' = queue'[p] + LocalTasks(p)' + DoneTasks(p)' + RunningTasks(p)' + PushingTasks(p)'
  BY DEF Outstanding, LocalTasks, DoneTasks, RunningTasks, PushingTasks
<1>5. PICK f \in [Props -> 0 .. QueueSize] :
        /\ queue' = [r \in Props |-> queue[r] - f[r]]
        /\ local' = [local EXCEPT ![t] = [r \in Props |-> @[r] + f[r]]]
  BY DEF PutTasksInWorker, Taken
<1>6. /\ f[p] \in Nat /\ local[t][p] \in Nat
      /\ queue'[p] = queue[p] - f[p] /\ local'[t][p] = local[t][p] + f[p]
      /\ \A u \in Workers : u # t => local'[u][p] = local[u][p]
  BY <1>5, TaskSchedulerAssumption DEF Types, TaskTypes
<1>7. LocalTasks(p)' = LocalTasks(p) + local'[t][p] - local[t][p]
  BY <1>6, LocalChange DEF StepFacts
<1>8. LocalTasks(p)' = LocalTasks(p) + f[p]
  BY <1>3, <1>6, <1>7
<1>9. PushingTasks(p)' = PushingTasks(p)
  BY <1>1, PartsChange DEF Pushing
<1>10. DoneTasks(p)' = DoneTasks(p) /\ RunningTasks(p)' = RunningTasks(p)
  BY <1>1 DEF DoneTasks, RunningTasks, Running
<1>11. QED
  BY <1>1, <1>3, <1>4, <1>6, <1>8, <1>9, <1>10

\* A task that was run is not reported yet.
LEMMA RunExact ==
  ASSUME Types, CountExact, NEW t \in Workers, Fits(t), StepFacts(t), RunTask(t)
  PROVE  CountExact'
<1>1. /\ t \in Threads /\ pc'[t] # "addPush" /\ pc[t] # "addPush" /\ hand[t] \in Props
      /\ hand'[t] = None /\ None \notin Props
      /\ UNCHANGED <<queue, local, inSystem>>
  BY TaskSchedulerAssumption
     DEF RunTask, Goto, Threads, Types, TaskTypes, PlaceTypes, taskVars, Fits, Holds, Busy
<1>2. SUFFICES ASSUME NEW p \in Props PROVE inSystem'[p] = Outstanding(p)'
  BY DEF CountExact
<1>3. /\ queue[p] \in Nat /\ LocalTasks(p) \in Nat /\ DoneTasks(p) \in Nat
      /\ RunningTasks(p) \in Nat /\ PushingTasks(p) \in Nat
      /\ inSystem[p] = queue[p] + LocalTasks(p) + DoneTasks(p) + RunningTasks(p) + PushingTasks(p)
  BY PartsNatural DEF CountExact
<1>4. Outstanding(p)' = queue'[p] + LocalTasks(p)' + DoneTasks(p)' + RunningTasks(p)' + PushingTasks(p)'
  BY DEF Outstanding, LocalTasks, DoneTasks, RunningTasks, PushingTasks
<1>5. /\ done[t][p] \in Nat
      /\ done'[t][p] = IF p = hand[t] THEN done[t][p] + 1 ELSE done[t][p]
  BY <1>1 DEF RunTask, Types, TaskTypes
<1>6. DoneTasks(p)' = DoneTasks(p) + done'[t][p] - done[t][p]
  BY <1>1, PartsChange
<1>7. DoneTasks(p)' = IF p = hand[t] THEN DoneTasks(p) + 1 ELSE DoneTasks(p)
  BY <1>3, <1>5, <1>6
<1>8. t \notin Running(p)' /\ (t \in Running(p) <=> p = hand[t])
  BY <1>1 DEF Running
<1>9. RunningTasks(p)' = IF p = hand[t] THEN RunningTasks(p) - 1 ELSE RunningTasks(p)
  BY <1>1, <1>8, PartsChange
<1>10. PushingTasks(p)' = PushingTasks(p)
  BY <1>1, PartsChange DEF Pushing
<1>11. LocalTasks(p)' = LocalTasks(p)
  BY <1>1 DEF LocalTasks
<1>12. QED
  BY <1>1, <1>3, <1>4, <1>7, <1>9, <1>10, <1>11

\* The report subtracts from the counter what it takes from done.
LEMMA ReportExact ==
  ASSUME Types, CountExact, NEW t \in Workers \cup Users, StepFacts(t), NEW q \in Props, Report(t, q)
  PROVE  CountExact'
<1>1. /\ t \in Threads /\ pc'[t] # "addPush" /\ pc[t] # "addPush"
      /\ UNCHANGED <<queue, local, hand>>
  BY DEF Report, Threads, Types, PlaceTypes
<1>2. SUFFICES ASSUME NEW p \in Props PROVE inSystem'[p] = Outstanding(p)'
  BY DEF CountExact
<1>3. /\ queue[p] \in Nat /\ LocalTasks(p) \in Nat /\ DoneTasks(p) \in Nat
      /\ RunningTasks(p) \in Nat /\ PushingTasks(p) \in Nat
      /\ inSystem[p] = queue[p] + LocalTasks(p) + DoneTasks(p) + RunningTasks(p) + PushingTasks(p)
  BY PartsNatural DEF CountExact
<1>4. Outstanding(p)' = queue'[p] + LocalTasks(p)' + DoneTasks(p)' + RunningTasks(p)' + PushingTasks(p)'
  BY DEF Outstanding, LocalTasks, DoneTasks, RunningTasks, PushingTasks
<1>5. /\ done[t][p] \in Nat
      /\ done'[t][p] = IF p = q THEN 0 ELSE done[t][p]
      /\ inSystem'[p] = IF p = q THEN inSystem[p] - done[t][p] ELSE inSystem[p]
  BY <1>1 DEF Report, Types, TaskTypes
<1>6. DoneTasks(p)' = DoneTasks(p) + done'[t][p] - done[t][p]
  BY <1>1, PartsChange
<1>7. DoneTasks(p)' = IF p = q THEN DoneTasks(p) - done[t][p] ELSE DoneTasks(p)
  BY <1>3, <1>5, <1>6
<1>8. PushingTasks(p)' = PushingTasks(p)
  BY <1>1, PartsChange DEF Pushing
<1>9. LocalTasks(p)' = LocalTasks(p) /\ RunningTasks(p)' = RunningTasks(p)
  BY <1>1 DEF LocalTasks, RunningTasks, Running
<1>10. QED
  BY <1>1, <1>3, <1>4, <1>5, <1>7, <1>8, <1>9

\* A helper takes tasks from the queue.
LEMMA HelpPopExact ==
  ASSUME Types, CountExact, NEW t \in Users, Fits(t), StepFacts(t), HelpPop(t)
  PROVE  CountExact'
<1>1. /\ t \in Threads /\ t \notin Workers /\ pc'[t] # "addPush" /\ pc[t] = "helpPop" /\ arg[t] \in Props
      /\ UNCHANGED <<local, inSystem, hand>>
  BY TaskSchedulerAssumption DEF HelpPop, Goto, Threads, Types, PlaceTypes, Fits, Holds, About
<1>2. done[t] = Zero
  BY <1>1 DEF Fits, Emptied, ReportLabels
<1>3. SUFFICES ASSUME NEW p \in Props PROVE inSystem'[p] = Outstanding(p)'
  BY DEF CountExact
<1>4. /\ queue[p] \in Nat /\ LocalTasks(p) \in Nat /\ DoneTasks(p) \in Nat
      /\ RunningTasks(p) \in Nat /\ PushingTasks(p) \in Nat
      /\ inSystem[p] = queue[p] + LocalTasks(p) + DoneTasks(p) + RunningTasks(p) + PushingTasks(p)
  BY PartsNatural DEF CountExact
<1>5. Outstanding(p)' = queue'[p] + LocalTasks(p)' + DoneTasks(p)' + RunningTasks(p)' + PushingTasks(p)'
  BY DEF Outstanding, LocalTasks, DoneTasks, RunningTasks, PushingTasks
<1>6. PICK n \in Nat : /\ queue' = [queue EXCEPT ![arg[t]] = @ - n]
                       /\ done' = [done EXCEPT ![t][arg[t]] = n]
  <2>1. queue[arg[t]] \in Nat
    BY <1>1 DEF Types, TaskTypes
  <2>2. CountToGet(queue[arg[t]], Cardinality(Workers) + 1) \in Nat
    BY <2>1, HelperShare
  <2>3. QED
    BY <2>2 DEF HelpPop
<1>7. /\ queue'[p] = IF p = arg[t] THEN queue[p] - n ELSE queue[p]
      /\ done'[t][p] = (IF p = arg[t] THEN n ELSE 0) /\ done[t][p] = 0
  BY <1>1, <1>2, <1>6 DEF Types, TaskTypes, Zero
<1>8. DoneTasks(p)' = DoneTasks(p) + done'[t][p] - done[t][p]
  BY <1>1, PartsChange
<1>9. DoneTasks(p)' = IF p = arg[t] THEN DoneTasks(p) + n ELSE DoneTasks(p)
  BY <1>4, <1>7, <1>8
<1>10. PushingTasks(p)' = PushingTasks(p)
  BY <1>1, PartsChange DEF Pushing
<1>11. LocalTasks(p)' = LocalTasks(p) /\ RunningTasks(p)' = RunningTasks(p)
  BY <1>1 DEF LocalTasks, RunningTasks, Running
<1>12. QED
  BY <1>1, <1>4, <1>5, <1>7, <1>9, <1>10, <1>11

\* A helper takes a task from a worker.
LEMMA HelpStealExact ==
  ASSUME Types, CountExact, NEW t \in Users, Fits(t), StepFacts(t), HelpSteal(t)
  PROVE  CountExact'
<1>1. /\ t \in Threads /\ t \notin Workers /\ pc'[t] # "addPush" /\ pc[t] = "helpSteal"
      /\ UNCHANGED <<queue, inSystem, hand>>
  BY TaskSchedulerAssumption DEF HelpSteal, Goto, Threads, Types, PlaceTypes
<1>2. done[t] = Zero
  BY <1>1 DEF Fits, Emptied, ReportLabels
<1>3. SUFFICES ASSUME NEW p \in Props PROVE inSystem'[p] = Outstanding(p)'
  BY DEF CountExact
<1>4. /\ queue[p] \in Nat /\ LocalTasks(p) \in Nat /\ DoneTasks(p) \in Nat
      /\ RunningTasks(p) \in Nat /\ PushingTasks(p) \in Nat
      /\ inSystem[p] = queue[p] + LocalTasks(p) + DoneTasks(p) + RunningTasks(p) + PushingTasks(p)
  BY PartsNatural DEF CountExact
<1>5. Outstanding(p)' = queue'[p] + LocalTasks(p)' + DoneTasks(p)' + RunningTasks(p)' + PushingTasks(p)'
  BY DEF Outstanding, LocalTasks, DoneTasks, RunningTasks, PushingTasks
<1>6. PICK v \in Workers, n \in {0, 1}, q \in Props :
        /\ local' = [local EXCEPT ![v][q] = @ - n]
        /\ done' = [done EXCEPT ![t][q] = n]
  <2>1. PICK v \in Workers : \E n \in {0, 1} : \E q \in Props :
          /\ q = arg[t] /\ n <= local[v][q]
          /\ local' = [local EXCEPT ![v][q] = @ - n]
          /\ done' = [done EXCEPT ![t][q] = n]
          /\ local' \in [Workers -> [Props -> Nat]]
          /\ done' \in [Threads -> [Props -> Nat]]
          /\ local'[v][q] = local[v][q] - n
          /\ \A u \in Workers : local[u] = Zero => local'[u] = Zero
          /\ \A u \in Threads : u # t => done'[u] = done[u]
    BY HelperTakes
  <2>2. QED
    BY <2>1
<1>7. /\ local[v][p] \in Nat
      /\ local'[v][p] = IF p = q THEN local[v][p] - n ELSE local[v][p]
      /\ \A u \in Workers : u # v => local'[u][p] = local[u][p]
      /\ done'[t][p] = (IF p = q THEN n ELSE 0) /\ done[t][p] = 0
  BY <1>1, <1>2, <1>6 DEF Types, TaskTypes, Zero
<1>8. DoneTasks(p)' = DoneTasks(p) + done'[t][p] - done[t][p]
  BY <1>1, PartsChange
<1>9. LocalTasks(p)' = LocalTasks(p) + local'[v][p] - local[v][p]
  BY <1>7, LocalChange DEF StepFacts
<1>10. /\ DoneTasks(p)' = IF p = q THEN DoneTasks(p) + n ELSE DoneTasks(p)
       /\ LocalTasks(p)' = IF p = q THEN LocalTasks(p) - n ELSE LocalTasks(p)
  BY <1>4, <1>7, <1>8, <1>9
<1>11. PushingTasks(p)' = PushingTasks(p)
  BY <1>1, PartsChange DEF Pushing
<1>12. RunningTasks(p)' = RunningTasks(p)
  BY <1>1 DEF RunningTasks, Running
<1>13. QED
  BY <1>1, <1>4, <1>5, <1>10, <1>11, <1>12

-----------------------------------------------------------------------------
(* The theorems.                                                           *)

\* A step of a worker or a user that keeps the counters exact keeps IInv.
LEMMA ThreadStep ==
  ASSUME IInv, NEW t \in Workers \cup Users, StepFacts(t), CountExact', sum' = sum
  PROVE  IInv'
<1>1. t \in Threads
  BY DEF Threads
<1>2. \A u \in Threads : Fits(u)'
  BY <1>1, FitsKept DEF IInv
<1>3. Counting'
  BY <1>1, CountingKept DEF IInv
<1>4. Ending'
  BY EndingKept DEF IInv
<1>5. QED
  BY <1>2, <1>3, <1>4 DEF IInv, StepFacts

\* The steps of AddTask and of the report, whoever takes them.
LEMMA ContinueKeeps ==
  ASSUME IInv, NEW t \in Workers \cup Users, Continue(t)
  PROVE  IInv'
<1>1. Types /\ CountExact /\ t \in Threads /\ Fits(t)
  BY DEF IInv, Threads
<1>2. CASE AddPush(t)
  <2>1. StepFacts(t)
    BY <1>1, <1>2, ContinueFacts
  <2>2. PICK q \in Props : TRUE
    BY <1>1, <1>2 DEF AddPush, Goto, Fits, Holds, About
  <2>3. CountExact'
    BY <1>1, <1>2, <2>1, <2>2, AddExact
  <2>4. sum' = sum
    BY <1>2 DEF AddPush, finVars
  <2>5. QED
    BY <2>1, <2>3, <2>4, ThreadStep
<1>3. CASE \E p \in Props : Report(t, p)
  <2>1. PICK p \in Props : Report(t, p)
    BY <1>3
  <2>2. StepFacts(t)
    BY <1>1, <2>1, CallFacts
  <2>3. CountExact'
    BY <1>1, <2>1, <2>2, ReportExact
  <2>4. sum' = sum
    BY <2>1 DEF Report, finVars
  <2>5. QED
    BY <2>2, <2>3, <2>4, ThreadStep
<1>4. CASE \/ SignalWorkers(t) \/ SignalOne(t) \/ ReportWaiters(t)
           \/ ReportCount(t) \/ ReportSignal(t) \/ ReportEnd(t)
  <2>1. StepFacts(t)
    BY <1>1, <1>4, ContinueFacts
  <2>2. UNCHANGED <<queue, local, inSystem, hand, done, sum>>
    BY <1>4 DEF SignalWorkers, SignalOne, ReportWaiters, ReportCount, ReportSignal, ReportEnd,
                taskVars, ownVars, finVars
  <2>3. pc[t] # "addPush" /\ pc'[t] # "addPush"
    BY <1>1, <1>4 DEF SignalWorkers, SignalOne, ReportWaiters, ReportCount, ReportSignal, ReportEnd,
                      Goto, AddDone, Waiting, Types, PlaceTypes
  <2>4. CountExact'
    BY <1>1, <2>1, <2>2, <2>3, StillExact
  <2>5. QED
    BY <2>1, <2>2, <2>4, ThreadStep
<1>5. QED
  BY <1>2, <1>3, <1>4 DEF Continue

\* A worker looks for tasks, takes them and runs them.
LEMMA WorkerKeeps ==
  ASSUME IInv, NEW t \in Workers, WorkerStep(t) \/ FillTimeout(t)
  PROVE  IInv'
<1>1. Types /\ CountExact /\ t \in Threads /\ Fits(t) /\ t \in Workers \cup Users
  BY DEF IInv, Threads
<1>2. CASE WorkerLoop(t) \/ FillScan(t) \/ FillIncr(t) \/ FillRescan(t) \/ FillTimeout(t) \/ FillWake(t)
  <2>1. StepFacts(t)
    BY <1>1, <1>2, WorkerFacts
  <2>2. /\ UNCHANGED <<queue, local, inSystem, hand, done, sum>>
        /\ pc[t] # "addPush" /\ pc'[t] # "addPush"
    BY <1>1, <1>2 DEF WorkerLoop, FillScan, FillIncr, FillRescan, FillTimeout, FillWake, Goto,
                      Types, PlaceTypes, taskVars, ownVars, finVars
  <2>3. CountExact'
    BY <1>1, <2>1, <2>2, StillExact
  <2>4. QED
    BY <2>1, <2>2, <2>3, ThreadStep
<1>3. CASE Steal(t) \/ Execute(t) \/ PutTasksInWorker(t) \/ RunTask(t)
  <2>1. StepFacts(t)
    BY <1>1, <1>3, TaskFacts
  <2>2. sum' = sum
    BY <1>3 DEF Steal, Execute, PutTasksInWorker, RunTask, finVars
  <2>3. CountExact'
    BY <1>1, <1>3, <2>1, TakeExact, PutExact, RunExact
  <2>4. QED
    BY <2>1, <2>2, <2>3, ThreadStep
<1>4. CASE Continue(t)
  BY <1>1, <1>4, ContinueKeeps
<1>5. QED
  BY <1>2, <1>3, <1>4 DEF WorkerStep

\* A user helps or adds a task.
LEMMA UserKeeps ==
  ASSUME IInv, NEW t \in Users, UserStep(t) \/ \E p \in Props : HelpStart(t, p)
  PROVE  IInv'
<1>1. Types /\ CountExact /\ t \in Threads /\ Fits(t) /\ t \in Workers \cup Users
  BY DEF IInv, Threads
<1>2. CASE HelpPop(t) \/ HelpSteal(t)
  <2>1. StepFacts(t)
    BY <1>1, <1>2, HelpFacts
  <2>2. sum' = sum
    BY <1>2 DEF HelpPop, HelpSteal, finVars
  <2>3. CountExact'
    BY <1>1, <1>2, <2>1, HelpPopExact, HelpStealExact
  <2>4. QED
    BY <2>1, <2>2, <2>3, ThreadStep
<1>3. CASE \E p \in Props : HelpStart(t, p)
  <2>1. PICK p \in Props : HelpStart(t, p)
    BY <1>3
  <2>2. StepFacts(t)
    BY <1>1, <2>1, CallFacts
  <2>3. /\ UNCHANGED <<queue, local, inSystem, hand, done, sum>>
        /\ pc[t] # "addPush" /\ pc'[t] # "addPush"
    BY <1>1, <2>1 DEF HelpStart, Goto, Types, PlaceTypes, taskVars, finVars
  <2>4. CountExact'
    BY <1>1, <2>2, <2>3, StillExact
  <2>5. QED
    BY <2>2, <2>3, <2>4, ThreadStep
<1>4. CASE Continue(t)
  BY <1>1, <1>4, ContinueKeeps
<1>5. QED
  BY <1>2, <1>3, <1>4 DEF UserStep

\* Main waits and finalizes.
LEMMA MainKeeps ==
  ASSUME IInv, MainStep \/ FinalizeStart \/ \E p \in Props : WaitStart(p)
  PROVE  IInv'
<1>1. Types /\ CountExact /\ Main \in Threads /\ Fits(Main) /\ sum \in Nat
  BY DEF IInv, Threads
<1>2. \/ WaitCheck \/ FinalizeWait \/ FinishWake \/ FinalizeEnd \/ Join
      \/ (\E p \in Props : SumCounter(p)) \/ FinalizeStart \/ (\E p \in Props : WaitStart(p))
  BY DEF MainStep
<1>3. StepFacts(Main)
  BY <1>1, <1>2, MainFacts
<1>4. /\ UNCHANGED <<queue, local, inSystem, hand, done>>
      /\ pc[Main] # "addPush" /\ pc'[Main] # "addPush"
  <2>1. Fits(Main)' /\ Fits(Main)
    BY <1>1, <1>3 DEF StepFacts
  <2>2. pc[Main] # "addPush" /\ pc'[Main] # "addPush"
    BY <2>1 DEF Fits, Labelled, MainLabels
  <2>3. UNCHANGED <<queue, local, inSystem, hand, done>>
    BY <1>2 DEF WaitCheck, FinalizeWait, FinishWake, FinalizeEnd, Join, SumCounter, FinalizeStart,
                WaitStart, taskVars, ownVars
  <2>4. QED
    BY <2>2, <2>3
<1>5. CountExact'
  BY <1>1, <1>3, <1>4, StillExact
<1>6. \A p \in Props : inSystem[p] \in Nat
  BY <1>1, PartsNatural DEF CountExact
<1>7. sum' \in Nat
  BY <1>1, <1>2, <1>6 DEF WaitCheck, FinalizeWait, FinishWake, FinalizeEnd, Join, SumCounter,
                          FinalizeStart, WaitStart, finVars
<1>8. \A u \in Threads : Fits(u)'
  BY <1>1, <1>3, FitsKept DEF IInv
<1>9. Counting'
  BY <1>1, <1>3, CountingKept DEF IInv
<1>10. Ending'
  BY <1>1, <1>2, MainEnding DEF IInv
<1>11. QED
  BY <1>3, <1>5, <1>7, <1>8, <1>9, <1>10 DEF IInv, StepFacts

LEMMA InitIInv ==
  ASSUME Init
  PROVE  IInv
<1> USE TaskSchedulerAssumption DEF Threads
<1>1. Types /\ sum \in Nat
  <2>1. TaskTypes
    BY DEF Init, TaskTypes, Zero
  <2>2. PlaceTypes
    BY DEF Init, PlaceTypes
  <2>3. WaitTypes /\ sum \in Nat
    <3>1. finish_ \in BOOLEAN /\ disableHelpers_ \in BOOLEAN /\ unread \in SUBSET Props
      BY DEF Init
    <3>2. /\ lock \in Threads \cup {None} /\ events \in 0 .. MaxEvents
          /\ waitWorkersCount_ \in Int /\ waitToFinish_ \in Int /\ sum \in Nat
      BY DEF Init
    <3>3. QED
      BY <3>1, <3>2 DEF WaitTypes
  <2>4. QED
    BY <2>1, <2>2, <2>3 DEF Types
<1>2. \A t \in Threads : Fits(t)
  BY DEF Init, Fits, Labelled, Holds, Emptied, WorkerLabels, UserLabels, MainLabels, Busy, About, ReportLabels
<1>3. Counting
  <2>1. CountedWorkers = {} /\ pc[Main] \notin Waits
    BY DEF Init, CountedWorkers, Counted, Waits
  <2>2. QED
    BY <2>1, FS_EmptySet DEF Counting, Init
<1>4. Ending
  BY DEF Init, Ending, Finalizing
<1>5. CountExact
  <2>1. SUFFICES ASSUME NEW p \in Props PROVE inSystem[p] = Outstanding(p)
    BY DEF CountExact
  <2>2. queue[p] = 0 /\ inSystem[p] = 0
    BY DEF Init, Zero
  <2>3. Running(p) = {} /\ Pushing(p) = {}
    BY DEF Init, Running, Pushing
  <2>4. \A w \in Workers : local[w][p] = 0
    BY DEF Init, Zero
  <2>5. \A t \in Threads : done[t][p] = 0
    BY DEF Init, Zero
  <2>6. Items(local, Workers, p) = {} /\ Items(done, Threads, p) = {}
    BY <2>4, <2>5 DEF Items
  <2>7. QED
    BY <2>2, <2>3, <2>6, FS_EmptySet DEF Outstanding
<1>6. QED
  BY <1>1, <1>2, <1>3, <1>4, <1>5 DEF IInv

\* Every step of the task manager keeps the inductive invariant.
THEOREM NextIInv ==
  ASSUME IInv, [Next]_vars
  PROVE  IInv'
<1>1. CASE \E t \in Workers \cup Users, p \in Props : AddCount(t, p)
  <2>1. PICK t \in Workers \cup Users, p \in Props : AddCount(t, p)
    BY <1>1
  <2>2. Types /\ CountExact /\ t \in Threads /\ Fits(t)
    BY DEF IInv, Threads
  <2>3. StepFacts(t)
    BY <2>1, <2>2, CallFacts
  <2>4. CountExact'
    BY <2>1, <2>2, <2>3, AddExact
  <2>5. sum' = sum
    BY <2>1 DEF AddCount, finVars
  <2>6. QED
    BY <2>3, <2>4, <2>5, ThreadStep
<1>2. CASE \E w \in Workers : WorkerStep(w) \/ FillTimeout(w)
  BY <1>2, WorkerKeeps
<1>3. CASE \E u \in Users : UserStep(u) \/ \E p \in Props : HelpStart(u, p)
  BY <1>3, UserKeeps
<1>4. CASE MainStep \/ FinalizeStart \/ \E p \in Props : WaitStart(p)
  BY <1>4, MainKeeps
<1>5. CASE UNCHANGED vars
  <2>1. UNCHANGED <<queue, local, inSystem, lock, waitWorkersCount_, waitToFinish_, finish_,
                    disableHelpers_, pc, arg, hand, done, unread, sum, events>>
    BY <1>5 DEF vars, taskVars, flagVars, ownVars, finVars
  <2>2. Types' /\ sum' \in Nat
    BY <2>1 DEF IInv, Types, TaskTypes, PlaceTypes, WaitTypes
  <2>3. \A t \in Threads : Fits(t)'
    BY <2>1 DEF IInv, Fits, Labelled, Holds, Emptied
  <2>4. Counting'
    BY <2>1 DEF IInv, Counting, CountedWorkers
  <2>5. Ending'
    BY <2>1 DEF IInv, Ending, Finalizing
  <2>6. CountExact'
    BY <2>1 DEF IInv, CountExact, Outstanding, Running, Pushing
  <2>7. QED
    BY <2>2, <2>3, <2>4, <2>5, <2>6 DEF IInv
<1>6. QED
  BY <1>1, <1>2, <1>3, <1>4, <1>5 DEF Next

\* The inductive invariant holds in every reachable state.
THEOREM Invariance == Spec => []IInv
<1>1. Init => IInv
  BY InitIInv
<1>2. IInv /\ [Next]_vars => IInv'
  BY NextIInv
<1>3. QED
  BY <1>1, <1>2, PTL DEF Spec

\* Every variable has its type: no counter goes below zero, as the ASSERTs of
\* the statistics demand, and at most all workers are counted as waiting.
THEOREM TypeCorrect == Spec => []TypeOK
<1>1. IInv => TypeOK
  <2>1. SUFFICES ASSUME IInv PROVE TypeOK
    OBVIOUS
  <2>2. Types /\ sum \in Nat /\ Counting /\ CountExact /\ \A t \in Threads : Labelled(t)
    BY <2>1 DEF IInv, Fits
  <2>3. inSystem \in [Props -> Nat]
    <3>1. \A p \in Props : inSystem[p] \in Nat
      BY <2>2, PartsNatural DEF CountExact
    <3>2. QED
      BY <2>2, <3>1 DEF Types, TaskTypes
  <2>4. waitWorkersCount_ \in 0 .. Cardinality(Workers)
    <3>1. IsFiniteSet(Threads) /\ Workers \in SUBSET Threads
      BY TaskSchedulerAssumption DEF Threads
    <3>2. IsFiniteSet(Workers) /\ Cardinality(Workers) \in Nat
      BY <3>1, FS_Subset, FS_CardinalityType
    <3>3. CountedWorkers \in SUBSET Workers
      BY DEF CountedWorkers
    <3>4. Cardinality(CountedWorkers) \in Nat /\ Cardinality(CountedWorkers) <= Cardinality(Workers)
      BY <3>2, <3>3, FS_Subset, FS_CardinalityType
    <3>5. QED
      BY <2>2, <3>2, <3>4 DEF Counting
  <2>5. waitToFinish_ \in 0 .. 1
    BY <2>2 DEF Counting
  <2>6. /\ \A w \in Workers : pc[w] \in WorkerLabels
        /\ \A u \in Users : pc[u] \in UserLabels
        /\ pc[Main] \in MainLabels
    BY <2>2 DEF Labelled, Threads
  <2>7. QED
    BY <2>2, <2>3, <2>4, <2>5, <2>6 DEF TypeOK, Types, TaskTypes, PlaceTypes, WaitTypes
<1>2. QED
  BY <1>1, Invariance, PTL

\* The lock-free counter of a property is exactly the number of its tasks in the
\* system, whatever AddTask, stealing, helping and reporting do at the same time.
THEOREM CountersExact == Spec => []CountExact
<1>1. IInv => CountExact
  BY DEF IInv
<1>2. QED
  BY <1>1, Invariance, PTL

\* Finalize returns only when every task was executed and reported, also those
\* that its sum of the counters missed.
THEOREM FinalizeLeavesNothing == Spec => []NothingLeft
<1>1. IInv => NothingLeft
  <2>1. SUFFICES ASSUME IInv, pc[Main] = "done", NEW p \in Props PROVE Outstanding(p) = 0
    BY DEF NothingLeft
  <2>2. /\ finish_ /\ queue = Zero
        /\ \A u \in Users : pc[u] = "idle"
        /\ \A w \in Workers : pc[w] = "exit"
    BY <2>1 DEF IInv, Ending
  <2>3. \A t \in Threads : pc[t] # "addPush" /\ done[t] = Zero
    BY <2>1, <2>2 DEF IInv, Fits, Emptied, Threads, Busy, ReportLabels
  <2>4. \A w \in Workers : local[w] = Zero /\ hand[w] \notin Props
    BY <2>1, <2>2 DEF IInv, Fits, Emptied, Holds, Threads, Busy
  <2>5. queue[p] = 0
    BY <2>2 DEF Zero
  <2>6. Running(p) = {} /\ Pushing(p) = {}
    BY <2>3, <2>4 DEF Running, Pushing
  <2>7. \A w \in Workers : local[w][p] = 0
    BY <2>4 DEF Zero
  <2>8. \A t \in Threads : done[t][p] = 0
    BY <2>3 DEF Zero
  <2>9. Items(local, Workers, p) = {} /\ Items(done, Threads, p) = {}
    BY <2>7, <2>8 DEF Items
  <2>10. QED
    BY <2>5, <2>6, <2>9, FS_EmptySet DEF Outstanding
<1>2. QED
  BY <1>1, Invariance, PTL
=============================================================================
