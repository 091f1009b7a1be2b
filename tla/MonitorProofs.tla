--------------------------- MODULE MonitorProofs ---------------------------
(***************************************************************************)
(* Proofs, for any threads, monitors, hash codes, nesting and maximal      *)
(* light count, of the safety properties of module Monitor.                *)
(*                                                                         *)
(* The lock moves between the mark word and the Monitors of the pool, so   *)
(* the invariant speaks of the lock wherever it is: CurOwner, CurLock,     *)
(* CurCount and CurHash.  Inflation and deflation leave these alone; every *)
(* other step is one of a lock.  Beside it stand what the locals of a      *)
(* thread mean at each label (Control, Levels), who suspends whom          *)
(* (Suspended), which Monitors are in use (Memory), what the two counters  *)
(* count (Counted, Tally) and who is in the lists (Lists).                 *)
(***************************************************************************)
EXTENDS Monitor, TLAPS, FiniteSetTheorems, SequenceTheorems

Labels ==
  {"managed", "enter", "cas", "acquire", "own", "block", "setowner", "unblock",
   "exit", "exitcas", "release", "signal", "unlock",
   "wait", "presleep", "asleep", "woken", "waitdone",
   "thin", "suspend", "await", "resume", "inflate", "publish", "hash", "hashcas"}
OpNames == {"none", "enter", "tryenter", "exit", "wait", "waitignore", "hash"}
Enters == {"enter", "tryenter"}
Waits == {"wait", "waitignore"}
MonitorRec ==
  [live : {TRUE}, owner_ : Threads \cup {None}, lock_ : Threads \cup {None},
   recursiveCounter_ : Int, hashCode_ : Hashes \cup {None}, waitersCounter_ : Int,
   waiters_ : Seq(Threads), toWakeup_ : Seq(Threads)]
Types ==
  /\ mark \in Marks
  /\ monitors \in [Ids -> MonitorRec \cup {Free}]
  /\ pc \in [Threads -> Labels] /\ op \in [Threads -> OpNames]
  /\ seen \in [Threads -> Marks] /\ mon \in [Threads -> Ids \cup {None}]
  /\ target \in [Threads -> Threads \cup {None}]
  /\ saved \in [Threads -> Int] /\ held \in [Threads -> Int]
  /\ waitingMonitor_ \in [Threads -> Ids \cup {None}]
  /\ interrupted \in [Threads -> BOOLEAN]
  /\ monitorCount_ \in [Threads -> Int] /\ suspendCount_ \in [Threads -> Int]
  /\ paused \in BOOLEAN /\ unvisited \in SUBSET Ids /\ hashes \in SUBSET Hashes

-----------------------------------------------------------------------------
\* In which operation a thread can be at a label.
OpFits(p, o) ==
  /\ p = "managed" <=> o = "none"
  /\ p \in {"enter", "cas"} => o \in Enters
  /\ p \in {"acquire", "own"} => o \in Enters \cup Waits
  /\ p \in {"block", "setowner", "unblock"} => o \in {"enter"} \cup Waits
  /\ p \in {"exit", "exitcas"} => o = "exit"
  /\ p \in {"release", "signal", "unlock"} => o \in {"exit"} \cup Waits
  /\ p \in {"wait", "presleep", "asleep", "woken", "waitdone"} => o \in Waits
  /\ p \in {"hash", "hashcas"} => o = "hash"
  /\ p \in {"thin", "suspend", "await", "resume"} => o \in {"enter", "hash"}
  /\ p \in {"inflate", "publish"} => o \in Enters \cup Waits \cup {"hash"}

InMonitor == {"acquire", "own", "block", "setowner", "unblock", "release", "signal", "unlock",
              "presleep", "asleep", "woken", "waitdone"}

\* What the locals of a thread stand for at its label.
SeenFits(t, p, w, o) ==
  /\ p = "cas" => w = Unlocked \/ (LightLockedBy(w, t) /\ w.count + 1 < LightMax)
  /\ p = "exitcas" => LightLockedBy(w, t)
  /\ p = "hashcas" => w = Unlocked
  /\ p = "publish" => /\ w.state # "heavy"
                      /\ w.state = "light" => w.tid = o
                      /\ o # t => w.state = "light"
TargetFits(t, p, o, b) ==
  /\ p \in {"inflate", "publish", "await", "resume", "signal"} => b \in Threads
  /\ p = "resume" => b # t
  /\ p \in {"inflate", "publish"} /\ b # t => o \in {"enter", "hash"}
Fits(t) ==
  /\ OpFits(pc[t], op[t])
  /\ mon[t] # None <=> pc[t] \in InMonitor \cup {"publish"}
  /\ TargetFits(t, pc[t], op[t], target[t])
  /\ SeenFits(t, pc[t], seen[t], target[t])
Control == \A t \in Threads : Fits(t)

-----------------------------------------------------------------------------
\* The part a thread has in the lock.
Blocked(t) == pc[t] \in {"block", "setowner", "unblock"}
Waiting(t) == InWait(t) /\ pc[t] \in InMonitor
Taken(t) == pc[t] \in {"own", "setowner", "signal", "unlock"}
Gone(t) == InWait(t) /\ pc[t] \in {"presleep", "asleep", "woken", "acquire", "block"}
Owns(t) == (pc[t] = "unblock" \/ held[t] > 0) /\ ~Gone(t) /\ ~Taken(t)
Level(t) == IF pc[t] = "unblock" \/ Waiting(t) THEN 1 ELSE held[t]

\* How often it has entered.
LevelFits(t) ==
  /\ held[t] \in 0 .. MaxDepth
  /\ op[t] \in Enters => held[t] < MaxDepth
  /\ op[t] \in {"exit"} \cup Waits => held[t] > 0
  /\ pc[t] \in {"own", "block", "setowner", "unblock"} /\ op[t] \in Enters => held[t] = 0
  /\ pc[t] \in {"signal", "unlock"} /\ op[t] = "exit" => held[t] = 1
  /\ pc[t] \in {"inflate", "publish"} /\ target[t] = t /\ op[t] = "hash" => held[t] > 0
  /\ Waiting(t) => saved[t] = held[t] /\ waitingMonitor_[t] = mon[t]
  /\ pc[t] = "publish" /\ seen[t].state = "light" => seen[t].count <= MaxDepth
Levels == \A t \in Threads : LevelFits(t)

\* The lock, wherever it is.
Current == monitors[mark.id]
CurOwner ==
  IF mark.state = "light" THEN mark.tid
  ELSE IF mark.state = "heavy" THEN Current.owner_ ELSE None
CurLock ==
  IF mark.state = "light" THEN mark.tid
  ELSE IF mark.state = "heavy" THEN Current.lock_ ELSE None
CurCount ==
  IF mark.state = "light" THEN mark.count
  ELSE IF mark.state = "heavy" THEN Current.recursiveCounter_ ELSE 0
Lock ==
  /\ \A t \in Threads : /\ Owns(t) <=> CurOwner = t
                        /\ Owns(t) \/ Taken(t) <=> CurLock = t
  /\ \A t \in Threads : CurOwner = t => CurCount = Level(t)
  /\ CurOwner = None => CurCount = 0

\* A Monitor in use is the one of the mark word; one that is being published
\* is new and known to its thread alone.
InUse(t) == pc[t] \in InMonitor => mark = Heavy(mon[t])
New(t) ==
  pc[t] = "publish" =>
    /\ mark # Heavy(mon[t])
    /\ monitors[mon[t]] =
         Created(target[t], IF seen[t].state = "light" THEN seen[t].count ELSE 1,
                 IF seen[t].state = "hashed" THEN seen[t].hash ELSE None)
Memory ==
  /\ \A t \in Threads : InUse(t) /\ New(t)
  /\ \A t \in Threads, u \in Threads :
       pc[t] = "publish" /\ pc[u] = "publish" /\ mon[t] = mon[u] => t = u
  /\ \A i \in Ids : monitors[i].live <=>
       mark = Heavy(i) \/ \E t \in Threads : pc[t] = "publish" /\ mon[t] = i

\* waitersCounter_ counts the threads blocked in Acquire and those in Wait.
BlockedSet == {t \in Threads : Blocked(t)}
WaitingSet == {t \in Threads : Waiting(t)}
Counted ==
  mark.state = "heavy" =>
    Current.waitersCounter_ = Cardinality(BlockedSet) + Cardinality(WaitingSet)

\* Who suspends whom; a thread past its wait has found the other one parked.
Past(t) == pc[t] \in {"inflate", "publish"} /\ target[t] # t
Suspends(t) == pc[t] \in {"await", "resume"} \/ Past(t)
SuspendersOf(u) == {t \in Threads : Suspends(t) /\ target[t] = u}
Suspended ==
  /\ \A u \in Threads : suspendCount_[u] = Cardinality(SuspendersOf(u))
  /\ \A t \in Threads : Past(t) => Parked(target[t])
Pausing ==
  /\ paused => \A t \in Threads : Parked(t)
  /\ ~paused => unvisited = {}
  /\ \A i \in unvisited : monitors[i].live

\* monitorCount_, the hash code, and the lists.
HeavyOwner == IF mark.state = "heavy" THEN Current.owner_ ELSE None
Tally == \A t \in Threads : monitorCount_[t] = IF HeavyOwner = t THEN 1 ELSE 0

CurHash ==
  IF mark.state = "hashed" THEN mark.hash
  ELSE IF mark.state = "heavy" THEN Current.hashCode_ ELSE None
Hash == \A h \in hashes : CurHash = h

Once(s) == \A j \in DOMAIN s, k \in DOMAIN s : s[j] = s[k] => j = k
In(s, t) == \E k \in DOMAIN s : s[k] = t
ListedIn(m, t) == In(m.waiters_, t) \/ In(m.toWakeup_, t)
Linked(m) ==
  /\ Once(m.waiters_) /\ Once(m.toWakeup_)
  /\ \A t \in Threads : ~ (In(m.waiters_, t) /\ In(m.toWakeup_, t))
Drowsy(t) == InWait(t) /\ pc[t] \in {"release", "signal", "unlock", "presleep", "asleep"}
Lists ==
  mark.state = "heavy" =>
    /\ Linked(Current)
    /\ \A t \in Threads :
         /\ ListedIn(Current, t) => Waiting(t)
         /\ Drowsy(t) => ListedIn(Current, t)
                           \/ \E u \in Threads : pc[u] = "signal" /\ target[u] = t

IInv ==
  /\ Types /\ Control /\ Levels /\ Lock /\ Memory /\ Counted
  /\ Suspended /\ Pausing /\ Tally /\ Hash /\ Lists

-----------------------------------------------------------------------------
(* Mark words, Monitors and lists.                                         *)

LEMMA MarkMade ==
  /\ Unlocked \in Marks /\ Unlocked.state = "unlocked"
  /\ \A t, n : Light(t, n).state = "light" /\ Light(t, n).tid = t /\ Light(t, n).count = n
  /\ \A i : Heavy(i).state = "heavy" /\ Heavy(i).id = i
  /\ \A h : Hashed(h).state = "hashed" /\ Hashed(h).hash = h
  /\ \A t \in Threads, n \in 1 .. LightMax - 1 : Light(t, n) \in Marks
  /\ \A i \in Ids : Heavy(i) \in Marks
  /\ \A h \in Hashes : Hashed(h) \in Marks
<1>1. Unlocked.state = "unlocked"
  BY DEF Unlocked
<1>2. \A t, n : Light(t, n).state = "light" /\ Light(t, n).tid = t /\ Light(t, n).count = n
  BY DEF Light
<1>3. \A i : Heavy(i).state = "heavy" /\ Heavy(i).id = i
  BY DEF Heavy
<1>4. \A h : Hashed(h).state = "hashed" /\ Hashed(h).hash = h
  BY DEF Hashed
<1>5. /\ Unlocked \in Marks
      /\ \A t \in Threads, n \in 1 .. LightMax - 1 : Light(t, n) \in Marks
      /\ \A i \in Ids : Heavy(i) \in Marks
      /\ \A h \in Hashes : Hashed(h) \in Marks
  BY DEF Marks
<1>6. QED
  BY <1>1, <1>2, <1>3, <1>4, <1>5

LEMMA MarkCases ==
  ASSUME NEW w \in Marks
  PROVE  /\ w.state \in {"unlocked", "light", "heavy", "hashed"}
         /\ w.state = "unlocked" => w = Unlocked
         /\ w.state = "light" => /\ w.tid \in Threads /\ w.count \in 1 .. LightMax - 1
                                 /\ w = Light(w.tid, w.count)
         /\ w.state = "heavy" => w.id \in Ids /\ w = Heavy(w.id)
         /\ w.state = "hashed" => w.hash \in Hashes /\ w = Hashed(w.hash)
<1>1. CASE w = Unlocked
  BY <1>1 DEF Unlocked
<1>2. CASE \E t \in Threads, n \in 1 .. LightMax - 1 : w = Light(t, n)
  BY <1>2 DEF Light
<1>3. CASE \E i \in Ids : w = Heavy(i)
  BY <1>3 DEF Heavy
<1>4. CASE \E h \in Hashes : w = Hashed(h)
  BY <1>4 DEF Hashed
<1>5. QED
  BY <1>1, <1>2, <1>3, <1>4 DEF Marks

LEMMA MonitorFields ==
  ASSUME NEW m \in MonitorRec
  PROVE  /\ m.live = TRUE /\ m.owner_ \in Threads \cup {None} /\ m.lock_ \in Threads \cup {None}
         /\ m.recursiveCounter_ \in Int /\ m.hashCode_ \in Hashes \cup {None}
         /\ m.waitersCounter_ \in Int
         /\ m.waiters_ \in Seq(Threads) /\ m.toWakeup_ \in Seq(Threads)
BY DEF MonitorRec

LEMMA FreeMade == Free.live = FALSE /\ Free \notin MonitorRec
BY DEF Free, MonitorRec

LEMMA CreatedMade ==
  ASSUME NEW t \in Threads, NEW n \in Int, NEW h \in Hashes \cup {None}
  PROVE  /\ Created(t, n, h) \in MonitorRec
         /\ Created(t, n, h).owner_ = t /\ Created(t, n, h).lock_ = t
         /\ Created(t, n, h).recursiveCounter_ = n /\ Created(t, n, h).hashCode_ = h
         /\ Created(t, n, h).waitersCounter_ = 0
         /\ Created(t, n, h).waiters_ = <<>> /\ Created(t, n, h).toWakeup_ = <<>>
BY DEF Created, MonitorRec

\* A live Monitor is a record of the pool.
LEMMA LiveMonitor ==
  ASSUME Types, NEW i \in Ids, monitors[i].live
  PROVE  monitors[i] \in MonitorRec
BY FreeMade DEF Types

LEMMA EmptyList == Once(<<>>) /\ (\A t : ~In(<<>>, t)) /\ <<>> \in Seq(Threads)
BY DEF Once, In

LEMMA Prepended ==
  ASSUME NEW t \in Threads, NEW s \in Seq(Threads)
  PROVE  /\ <<t>> \o s \in Seq(Threads)
         /\ \A u : In(<<t>> \o s, u) <=> u = t \/ In(s, u)
         /\ Once(s) /\ ~In(s, t) => Once(<<t>> \o s)
<1> DEFINE z == <<t>> \o s
<1>1. /\ z \in Seq(Threads) /\ Len(z) = Len(s) + 1 /\ Len(s) \in Nat
      /\ z[1] = t /\ \A k \in 1 .. Len(s) : z[k + 1] = s[k]
  OBVIOUS
<1>2. DOMAIN z = 1 .. Len(s) + 1 /\ DOMAIN s = 1 .. Len(s)
  BY <1>1
<1> HIDE DEF z
<1>3. \A k \in 1 .. Len(s) + 1 : k = 1 \/ (k - 1 \in 1 .. Len(s) /\ z[k] = s[k - 1])
  <2>1. SUFFICES ASSUME NEW k \in 1 .. Len(s) + 1, k # 1
                 PROVE  k - 1 \in 1 .. Len(s) /\ z[k] = s[k - 1]
    OBVIOUS
  <2>2. k - 1 \in 1 .. Len(s) /\ (k - 1) + 1 = k
    BY <1>1, <2>1
  <2>3. QED
    BY <1>1, <2>2
<1>4. \A u : In(z, u) <=> u = t \/ In(s, u)
  <2>1. ASSUME NEW u, In(z, u) PROVE u = t \/ In(s, u)
    <3>1. PICK k \in 1 .. Len(s) + 1 : z[k] = u
      BY <1>2, <2>1 DEF In
    <3>2. k = 1 \/ (k - 1 \in DOMAIN s /\ z[k] = s[k - 1])
      BY <1>2, <1>3
    <3>3. QED
      BY <1>1, <3>1, <3>2 DEF In
  <2>2. ASSUME NEW u, In(s, u) PROVE In(z, u)
    <3>1. PICK k \in 1 .. Len(s) : s[k] = u
      BY <1>2, <2>2 DEF In
    <3>2. k + 1 \in DOMAIN z /\ z[k + 1] = u
      BY <1>1, <1>2, <3>1
    <3>3. QED
      BY <3>2 DEF In
  <2>3. In(z, t)
    BY <1>1, <1>2 DEF In
  <2>4. QED
    BY <2>1, <2>2, <2>3
<1>5. ASSUME Once(s), ~In(s, t) PROVE Once(z)
  <2>1. SUFFICES ASSUME NEW j \in DOMAIN z, NEW k \in DOMAIN z, z[j] = z[k] PROVE j = k
    BY DEF Once
  <2>2. \A i \in DOMAIN z : /\ i \in Nat
                            /\ i = 1 \/ (i - 1 \in DOMAIN s /\ z[i] = s[i - 1] /\ In(s, z[i]))
    BY <1>1, <1>2, <1>3 DEF In
  <2>3. CASE j = 1 \/ k = 1
    BY <1>1, <1>5, <2>1, <2>2, <2>3
  <2>4. CASE j # 1 /\ k # 1
    <3>1. j - 1 = k - 1
      BY <1>5, <2>1, <2>2, <2>4 DEF Once
    <3>2. QED
      BY <2>2, <3>1
  <2>5. QED
    BY <2>3, <2>4
<1>6. QED
  BY <1>1, <1>4, <1>5 DEF z

LEMMA HeadAndTail ==
  ASSUME NEW s \in Seq(Threads), s # <<>>
  PROVE  /\ Tail(s) \in Seq(Threads) /\ Head(s) \in Threads /\ In(s, Head(s))
         /\ \A u : In(Tail(s), u) => In(s, u)
         /\ \A u : In(s, u) => u = Head(s) \/ In(Tail(s), u)
         /\ Once(s) => Once(Tail(s)) /\ ~In(Tail(s), Head(s))
<1> DEFINE z == Tail(s)
<1>1. /\ z \in Seq(Threads) /\ Len(z) = Len(s) - 1 /\ Len(s) \in Nat /\ Len(s) >= 1
      /\ Head(s) = s[1] /\ s[1] \in Threads /\ \A k \in 1 .. Len(s) - 1 : z[k] = s[k + 1]
  OBVIOUS
<1>2. DOMAIN z = 1 .. Len(s) - 1 /\ DOMAIN s = 1 .. Len(s)
  BY <1>1
<1> HIDE DEF z
<1>3. In(s, Head(s))
  BY <1>1, <1>2 DEF In
<1>4. \A u : In(z, u) => In(s, u)
  BY <1>1, <1>2 DEF In
<1>5. ASSUME NEW u, In(s, u), u # Head(s) PROVE In(z, u)
  <2>1. PICK k \in 1 .. Len(s) : s[k] = u
    BY <1>2, <1>5 DEF In
  <2>2. k # 1 /\ (k - 1) \in 1 .. Len(s) - 1 /\ (k - 1) + 1 = k
    BY <1>1, <1>5, <2>1
  <2>3. z[k - 1] = u
    BY <1>1, <2>1, <2>2
  <2>4. QED
    BY <1>2, <2>2, <2>3 DEF In
<1>6. ASSUME Once(s) PROVE Once(z) /\ ~In(z, Head(s))
  <2>1. \A j \in DOMAIN z, k \in DOMAIN z : z[j] = z[k] => j + 1 = k + 1
    BY <1>1, <1>2, <1>6 DEF Once
  <2>2. Once(z)
    BY <1>1, <1>2, <2>1 DEF Once
  <2>3. ~In(z, Head(s))
    <3>1. SUFFICES ASSUME NEW k \in 1 .. Len(s) - 1, z[k] = s[1] PROVE FALSE
      BY <1>1, <1>2 DEF In
    <3>2. k + 1 = 1
      BY <1>1, <1>2, <1>6, <3>1 DEF Once
    <3>3. QED
      BY <3>2
  <2>4. QED
    BY <2>2, <2>3
<1>7. QED
  BY <1>1, <1>3, <1>4, <1>5, <1>6 DEF z

LEMMA Appended ==
  ASSUME NEW s \in Seq(Threads), NEW w \in Seq(Threads)
  PROVE  /\ s \o w \in Seq(Threads)
         /\ \A u : In(s \o w, u) <=> In(s, u) \/ In(w, u)
         /\ Once(s) /\ Once(w) /\ (\A u \in Threads : ~ (In(s, u) /\ In(w, u))) => Once(s \o w)
<1> DEFINE z == s \o w
<1>1. /\ z \in Seq(Threads) /\ Len(z) = Len(s) + Len(w) /\ Len(s) \in Nat /\ Len(w) \in Nat
      /\ \A k \in 1 .. Len(s) : z[k] = s[k] /\ s[k] \in Threads
      /\ \A k \in 1 .. Len(w) : z[Len(s) + k] = w[k]
  OBVIOUS
<1>2. DOMAIN z = 1 .. Len(s) + Len(w) /\ DOMAIN s = 1 .. Len(s) /\ DOMAIN w = 1 .. Len(w)
  BY <1>1
<1> HIDE DEF z
<1>3. \A k \in DOMAIN z : \/ k \in DOMAIN s /\ z[k] = s[k]
                          \/ k - Len(s) \in DOMAIN w /\ z[k] = w[k - Len(s)]
  <2>1. SUFFICES ASSUME NEW k \in DOMAIN z, k \notin DOMAIN s
                 PROVE  k - Len(s) \in DOMAIN w /\ z[k] = w[k - Len(s)]
    BY <1>1, <1>2
  <2>2. k - Len(s) \in 1 .. Len(w) /\ Len(s) + (k - Len(s)) = k
    BY <1>1, <1>2, <2>1
  <2>3. QED
    BY <1>1, <1>2, <2>2
<1>4. \A u : In(z, u) <=> In(s, u) \/ In(w, u)
  <2>1. ASSUME NEW u, In(z, u) PROVE In(s, u) \/ In(w, u)
    BY <1>3, <2>1 DEF In
  <2>2. ASSUME NEW u, In(s, u) PROVE In(z, u)
    BY <1>1, <1>2, <2>2 DEF In
  <2>3. ASSUME NEW u, In(w, u) PROVE In(z, u)
    <3>1. PICK k \in 1 .. Len(w) : w[k] = u
      BY <1>2, <2>3 DEF In
    <3>2. Len(s) + k \in DOMAIN z /\ z[Len(s) + k] = u
      BY <1>1, <1>2, <3>1
    <3>3. QED
      BY <3>2 DEF In
  <2>4. QED
    BY <2>1, <2>2, <2>3
<1>5. ASSUME Once(s), Once(w), \A u \in Threads : ~ (In(s, u) /\ In(w, u)) PROVE Once(z)
  <2>1. SUFFICES ASSUME NEW j \in DOMAIN z, NEW k \in DOMAIN z, z[j] = z[k] PROVE j = k
    BY DEF Once
  <2>2. j \in Nat /\ k \in Nat
    BY <1>1, <1>2
  <2>3. CASE j \in DOMAIN s /\ k \in DOMAIN s
    BY <1>1, <1>2, <1>5, <2>1, <2>3 DEF Once
  <2>4. CASE j \notin DOMAIN s /\ k \notin DOMAIN s
    <3>1. j - Len(s) = k - Len(s)
      BY <1>3, <1>5, <2>1, <2>4 DEF Once
    <3>2. QED
      BY <1>1, <2>2, <3>1
  <2>5. CASE j \in DOMAIN s /\ k \notin DOMAIN s
    <3>1. s[j] \in Threads /\ In(s, s[j]) /\ In(w, s[j])
      BY <1>1, <1>2, <1>3, <2>1, <2>5 DEF In
    <3>2. QED
      BY <1>5, <3>1
  <2>6. CASE j \notin DOMAIN s /\ k \in DOMAIN s
    <3>1. s[k] \in Threads /\ In(s, s[k]) /\ In(w, s[k])
      BY <1>1, <1>2, <1>3, <2>1, <2>6 DEF In
    <3>2. QED
      BY <1>5, <3>1
  <2>7. QED
    BY <2>3, <2>4, <2>5, <2>6
<1>6. QED
  BY <1>1, <1>4, <1>5 DEF z

LEMMA TailLength ==
  ASSUME NEW n \in Nat, NEW i \in Nat, i <= n,
         NEW c, c = IF i + 1 <= n THEN n - (i + 1) + 1 ELSE 0
  PROVE  c = n - i
OBVIOUS

LEMMA Removed ==
  ASSUME NEW s \in Seq(Threads), NEW t, Once(s)
  PROVE  /\ RemoveFirst(s, t) \in Seq(Threads) /\ Once(RemoveFirst(s, t))
         /\ \A u : In(RemoveFirst(s, t), u) <=> In(s, u) /\ u # t
<1>1. DOMAIN s = 1 .. Len(s) /\ Len(s) \in Nat
  OBVIOUS
<1>2. CASE ~In(s, t)
  <2>1. RemoveFirst(s, t) = s
    BY <1>1, <1>2 DEF RemoveFirst, SelectInSeq, In
  <2>2. QED
    BY <1>2, <2>1
<1>3. CASE In(s, t)
  <2>1. PICK k \in 1 .. Len(s) : s[k] = t
    BY <1>1, <1>3 DEF In
  <2> DEFINE z == RemoveFirst(s, t)
  <2>2. {i \in 1 .. Len(s) : s[i] = t} = {k}
    BY <1>1, <2>1 DEF Once
  <2>3. Min({k}) = k
    BY DEF Min
  <2>4. z = RemoveAt(s, k)
    BY <2>1, <2>2, <2>3 DEF RemoveFirst, SelectInSeq
  <2>5. /\ z \in Seq(Threads) /\ Len(z) = Len(s) - 1
        /\ \A j \in 1 .. Len(s) - 1 : z[j] = IF j < k THEN s[j] ELSE s[j + 1]
    <3> DEFINE a == SubSeq(s, 1, k - 1)  b == SubSeq(s, k + 1, Len(s))
    <3>1. a \in Seq(Threads) /\ Len(a) = k - 1 /\ \A j \in 1 .. k - 1 : a[j] = s[j]
      BY <1>1, <2>1
    <3>2. /\ b \in Seq(Threads) /\ Len(b) = Len(s) - k
          /\ \A j \in 1 .. Len(s) - k : b[j] = s[k + j]
      <4>1. /\ b \in Seq(Threads)
            /\ Len(b) = IF k + 1 <= Len(s) THEN Len(s) - (k + 1) + 1 ELSE 0
            /\ \A j \in 1 .. Len(s) - (k + 1) + 1 : b[j] = s[(k + 1) + j - 1]
        BY <1>1, <2>1, SubSeqProperties
      <4> HIDE DEF b
      <4>2. Len(b) = Len(s) - k
        <5>1. k \in Nat /\ Len(s) \in Nat /\ k <= Len(s)
          BY <1>1
        <5>2. QED
          BY ONLY <4>1, <5>1, TailLength
      <4>3. ASSUME NEW j \in 1 .. Len(s) - k PROVE b[j] = s[k + j]
        <5>1. j \in 1 .. Len(s) - (k + 1) + 1 /\ (k + 1) + j - 1 = k + j
          BY <1>1, <2>1
        <5>2. QED
          BY <4>1, <5>1
      <4>4. QED
        BY <4>1, <4>2, <4>3
    <3>3. z = a \o b
      BY <2>4 DEF RemoveAt
    <3> HIDE DEF a, b, z
    <3>4. z \in Seq(Threads) /\ Len(z) = Len(s) - 1
      <4>1. z \in Seq(Threads) /\ Len(z) = Len(a) + Len(b)
        BY <3>1, <3>2, <3>3, ConcatProperties
      <4>2. QED
        BY <1>1, <2>1, <3>1, <3>2, <4>1
    <3>5. ASSUME NEW j \in 1 .. Len(s) - 1 PROVE z[j] = IF j < k THEN s[j] ELSE s[j + 1]
      <4>1. CASE j < k
        BY <1>1, <2>1, <3>1, <3>2, <3>3, <4>1
      <4>2. CASE ~ (j < k)
        <5>1. j - (k - 1) \in 1 .. Len(s) - k /\ k + (j - (k - 1)) = j + 1
          BY <1>1, <2>1, <4>2
        <5>2. z[j] = b[j - (k - 1)]
          BY <1>1, <2>1, <3>1, <3>2, <3>3, <4>2
        <5>3. QED
          BY <3>2, <4>2, <5>1, <5>2
      <4>3. QED
        BY <4>1, <4>2
    <3>6. QED
      BY <3>4, <3>5
  <2>6. DOMAIN z = 1 .. Len(s) - 1
    BY <1>1, <2>5
  <2> HIDE DEF z
  <2>7. \A j \in DOMAIN z : \E i \in DOMAIN s \ {k} :
          z[j] = s[i] /\ i = (IF j < k THEN j ELSE j + 1)
    BY <1>1, <2>1, <2>5, <2>6
  <2>8. \A i \in DOMAIN s \ {k} : \E j \in DOMAIN z : z[j] = s[i]
    <3>1. SUFFICES ASSUME NEW i \in DOMAIN s, i # k PROVE \E j \in DOMAIN z : z[j] = s[i]
      OBVIOUS
    <3>2. CASE i < k
      BY <1>1, <2>1, <2>5, <2>6, <3>1, <3>2
    <3>3. CASE i > k
      <4>1. i - 1 \in 1 .. Len(s) - 1 /\ ~ (i - 1 < k) /\ (i - 1) + 1 = i
        BY <1>1, <2>1, <3>1, <3>3
      <4>2. QED
        BY <2>5, <2>6, <4>1
    <3>4. QED
      BY <1>1, <2>1, <3>1, <3>2, <3>3
  <2>9. Once(z)
    <3>1. SUFFICES ASSUME NEW a \in DOMAIN z, NEW b \in DOMAIN z, z[a] = z[b] PROVE a = b
      BY DEF Once
    <3>2. (IF a < k THEN a ELSE a + 1) = (IF b < k THEN b ELSE b + 1)
      BY <2>7, <3>1 DEF Once
    <3>3. QED
      BY <1>1, <2>1, <2>6, <3>2
  <2>10. \A u : In(z, u) <=> In(s, u) /\ u # t
    BY <1>1, <2>1, <2>7, <2>8 DEF In, Once
  <2>11. QED
    BY <2>5, <2>9, <2>10 DEF z
<1>4. QED
  BY <1>2, <1>3

LEMMA CountedOnce ==
  ASSUME NEW s, NEW t, Once(s)
  PROVE  Cardinality({k \in DOMAIN s : s[k] = t}) = IF In(s, t) THEN 1 ELSE 0
<1>1. CASE In(s, t)
  <2>1. PICK k \in DOMAIN s : s[k] = t
    BY <1>1 DEF In
  <2>2. {i \in DOMAIN s : s[i] = t} = {k}
    BY <2>1 DEF Once
  <2>3. QED
    BY <1>1, <2>2, FS_Singleton
<1>2. CASE ~In(s, t)
  <2>1. {i \in DOMAIN s : s[i] = t} = {}
    BY <1>2 DEF In
  <2>2. QED
    BY <1>2, <2>1, FS_EmptySet
<1>3. QED
  BY <1>1, <1>2

-----------------------------------------------------------------------------
(* The threads that do not take the step.                                  *)

\* Every step of a thread leaves the others where they are, except that it
\* may wake one that is asleep in Wait.
Untouched(u) ==
  /\ pc'[u] = pc[u] \/ (pc[u] = "asleep" /\ pc'[u] = "woken")
  /\ op'[u] = op[u] /\ seen'[u] = seen[u] /\ mon'[u] = mon[u] /\ target'[u] = target[u]
  /\ saved'[u] = saved[u] /\ held'[u] = held[u] /\ waitingMonitor_'[u] = waitingMonitor_[u]
Others(t) == \A u \in Threads \ {t} : Untouched(u)

\* The part a thread has in the lock does not change.
SamePart(u) ==
  /\ Blocked(u)' <=> Blocked(u)
  /\ Waiting(u)' <=> Waiting(u)
  /\ Taken(u)' <=> Taken(u)
  /\ Owns(u)' <=> Owns(u)
  /\ Owns(u) => Level(u)' = Level(u)
  /\ pc'[u] = "publish" <=> pc[u] = "publish"
  /\ Drowsy(u)' => Drowsy(u)

LEMMA UntouchedKeeps ==
  ASSUME NEW u, Untouched(u)
  PROVE  /\ SamePart(u) /\ (Suspends(u)' <=> Suspends(u)) /\ (Past(u)' <=> Past(u))
         /\ Parked(u)' <=> Parked(u)
         /\ pc'[u] = "signal" <=> pc[u] = "signal"
         /\ pc'[u] \in InMonitor <=> pc[u] \in InMonitor
         /\ Fits(u) => Fits(u)'
         /\ LevelFits(u) => LevelFits(u)'
<1>1. CASE pc'[u] = pc[u]
  BY <1>1 DEF Untouched, SamePart, Blocked, Waiting, Taken, Owns, Gone, Level, Drowsy, InWait,
     Suspends, Past, Parked, Fits, LevelFits
<1>2. CASE pc[u] = "asleep" /\ pc'[u] = "woken"
  <2>1. /\ SamePart(u) /\ (Suspends(u)' <=> Suspends(u)) /\ (Past(u)' <=> Past(u))
        /\ Parked(u)' <=> Parked(u)
        /\ pc'[u] = "signal" <=> pc[u] = "signal"
        /\ pc'[u] \in InMonitor <=> pc[u] \in InMonitor
    BY <1>2 DEF Untouched, SamePart, Blocked, Waiting, Taken, Owns, Gone, Level, Drowsy, InWait,
       Suspends, Past, Parked, InMonitor, SafeLabels
  <2>2. Fits(u) => Fits(u)'
    BY <1>2 DEF Untouched, Fits, OpFits, SeenFits, TargetFits, InMonitor
  <2>3. LevelFits(u) => LevelFits(u)'
    BY <1>2 DEF Untouched, LevelFits, Waiting, InWait, InMonitor
  <2>4. QED
    BY <2>1, <2>2, <2>3
<1>3. QED
  BY <1>1, <1>2 DEF Untouched

-----------------------------------------------------------------------------
(* The Monitor of the object.                                              *)

LEMMA CurrentLive ==
  ASSUME Types, Memory, mark.state = "heavy"
  PROVE  mark.id \in Ids /\ mark = Heavy(mark.id) /\ Current \in MonitorRec
<1>1. mark.id \in Ids /\ mark = Heavy(mark.id)
  BY MarkCases DEF Types
<1>2. monitors[mark.id].live
  BY <1>1 DEF Memory
<1>3. QED
  BY <1>1, <1>2, LiveMonitor DEF Current

LEMMA MonitorInUse ==
  ASSUME Types, Memory, NEW t \in Threads, pc[t] \in InMonitor
  PROVE  /\ mon[t] \in Ids /\ mark = Heavy(mon[t]) /\ mark.state = "heavy" /\ mark.id = mon[t]
         /\ monitors[mon[t]] \in MonitorRec /\ Current = monitors[mon[t]]
<1>1. mark = Heavy(mon[t])
  BY DEF Memory, InUse
<1>2. mark.state = "heavy" /\ mark.id = mon[t]
  BY <1>1, MarkMade
<1>3. QED
  BY <1>1, <1>2, CurrentLive DEF Current

\* The types of what belongs to the threads.
LocalTypes ==
  /\ pc \in [Threads -> Labels] /\ op \in [Threads -> OpNames]
  /\ seen \in [Threads -> Marks] /\ mon \in [Threads -> Ids \cup {None}]
  /\ target \in [Threads -> Threads \cup {None}]
  /\ saved \in [Threads -> Int] /\ held \in [Threads -> Int]
  /\ waitingMonitor_ \in [Threads -> Ids \cup {None}]
Local(t) == LocalTypes' /\ Others(t) /\ Fits(t)'

LEMMA ReturnMakes ==
  ASSUME LocalTypes, NEW t \in Threads, Return(t), held' \in [Threads -> Int],
         \A u \in Threads \ {t} : held'[u] = held[u],
         UNCHANGED waitingMonitor_
  PROVE  /\ Local(t) /\ pc'[t] = "managed" /\ op'[t] = "none" /\ saved'[t] = 0
         /\ seen'[t] = Unlocked /\ mon'[t] = None /\ target'[t] = None
<1>0. Unlocked \in Marks /\ "managed" \in Labels /\ "none" \in OpNames
  BY MarkMade DEF Labels, OpNames
<1>a. LocalTypes'
  <2>1. pc' \in [Threads -> Labels] /\ op' \in [Threads -> OpNames]
    BY <1>0 DEF LocalTypes, Return, Goto
  <2>2. seen' \in [Threads -> Marks] /\ mon' \in [Threads -> Ids \cup {None}]
    BY <1>0 DEF LocalTypes, Return
  <2>3. target' \in [Threads -> Threads \cup {None}] /\ saved' \in [Threads -> Int]
    BY <1>0 DEF LocalTypes, Return
  <2>4. waitingMonitor_' \in [Threads -> Ids \cup {None}]
    BY DEF LocalTypes
  <2>5. QED
    BY <2>1, <2>2, <2>3, <2>4 DEF LocalTypes
<1>1. Others(t)
  BY DEF LocalTypes, Others, Untouched, Return, Goto
<1>2. /\ pc'[t] = "managed" /\ op'[t] = "none" /\ saved'[t] = 0
      /\ seen'[t] = Unlocked /\ mon'[t] = None /\ target'[t] = None
  BY DEF LocalTypes, Return, Goto
<1>3. Fits(t)'
  BY <1>2 DEF Fits, OpFits, SeenFits, TargetFits, InMonitor
<1>4. QED
  BY <1>a, <1>1, <1>2, <1>3 DEF Local

LEMMA LoopMakes ==
  ASSUME LocalTypes, NEW t \in Threads, Loop(t), UNCHANGED <<held, waitingMonitor_>>,
         op[t] \in Enters \cup Waits \cup {"hash"}
  PROVE  /\ Local(t) /\ op'[t] = op[t] /\ saved'[t] = saved[t]
         /\ op[t] \in Enters => pc'[t] = "enter"
         /\ op[t] = "hash" => pc'[t] = "hash"
         /\ op[t] \in Waits => pc'[t] = "wait"
         /\ seen'[t] = Unlocked /\ mon'[t] = None /\ target'[t] = None
<1>1. /\ op[t] \in Enters => pc'[t] = "enter"
      /\ op[t] = "hash" => pc'[t] = "hash"
      /\ op[t] \in Waits => pc'[t] = "wait"
  BY DEF LocalTypes, Loop, Goto, Enters, Waits
<1>2. LocalTypes' /\ Others(t)
  BY MarkMade DEF LocalTypes, Others, Untouched, Loop, Goto, Labels, OpNames
<1>3. /\ op'[t] = op[t] /\ saved'[t] = saved[t]
      /\ seen'[t] = Unlocked /\ mon'[t] = None /\ target'[t] = None
  BY DEF LocalTypes, Loop
<1>4. Fits(t)'
  BY <1>1, <1>3 DEF Fits, OpFits, SeenFits, TargetFits, InMonitor, Enters, Waits
<1>5. QED
  BY <1>1, <1>2, <1>3, <1>4 DEF Local

LEMMA IdOfThread ==
  ASSUME NEW w \in Marks
  PROVE  GetThreadId(w) \in Threads \cup {None}
BY MarkCases, MonitorAssumption DEF GetThreadId

\* A thread that has suspended itself does not go on.
LEMMA NotItself ==
  ASSUME Types, Suspended, NEW t \in Threads, pc[t] = "await", MayRun(t)
  PROVE  target[t] # t
<1>1. SUFFICES ASSUME target[t] = t PROVE FALSE
  OBVIOUS
<1>2. t \in SuspendersOf(t)
  BY <1>1 DEF SuspendersOf, Suspends
<1>3. IsFiniteSet(SuspendersOf(t)) /\ Cardinality(SuspendersOf(t)) = 0
  BY FS_Subset, MonitorAssumption DEF Suspended, SuspendersOf, MayRun
<1>4. QED
  BY <1>2, <1>3, FS_EmptySet

LEMMA LightIsHeld ==
  ASSUME Lock, NEW t \in Threads, LightLockedBy(mark, t)
  PROVE  /\ CurOwner = t /\ Owns(t) /\ Level(t) = mark.count
         /\ pc[t] # "unblock" => held[t] > 0
BY DEF Lock, CurOwner, CurCount, LightLockedBy, Owns

-----------------------------------------------------------------------------
(* Steps that leave the lock alone.                                        *)

Becomes(t, p, o, w, i, g, v) ==
  /\ pc'[t] = p /\ op'[t] = o /\ seen'[t] = w
  /\ mon'[t] = i /\ target'[t] = g /\ saved'[t] = v
lockVars == <<mark, monitors, held, waitingMonitor_, monitorCount_>>

\* The mark word, the Monitors and the part of the thread stay; a thread that
\* was signalled does not wait for it any more.
Quiet(t) ==
  /\ Local(t) /\ LevelFits(t)' /\ SamePart(t) /\ InUse(t)' /\ UNCHANGED lockVars
  /\ \/ Untouched(t)
     \/ /\ pc[t] # "publish"
        /\ pc[t] = "signal" => \A w \in Threads : w = target[t] => ~Drowsy(w)'

Known(t) ==
  /\ LocalTypes /\ Fits(t) /\ LevelFits(t) /\ InUse(t)
  /\ mark \in Marks

LEMMA Knowledge ==
  ASSUME IInv, NEW t \in Threads
  PROVE  Known(t)
BY DEF IInv, Known, Types, LocalTypes, Control, Levels, Memory

LEMMA QuietReturn ==
  ASSUME IInv, NEW t \in Threads, Return(t), UNCHANGED lockVars,
         pc[t] \notin {"own", "block", "setowner", "unblock", "signal", "unlock", "publish"},
         ~Waiting(t)
  PROVE  Quiet(t)
<1>1. Known(t)
  BY Knowledge
<1>2. Local(t) /\ Becomes(t, "managed", "none", Unlocked, None, None, 0)
  <2>1. held' \in [Threads -> Int] /\ (\A u \in Threads \ {t} : held'[u] = held[u])
    BY <1>1 DEF Known, LocalTypes, lockVars
  <2>2. QED
    BY <1>1, <2>1, ReturnMakes DEF Known, Becomes, lockVars
<1>3. SamePart(t)
  BY <1>2 DEF Becomes, SamePart, Blocked, Waiting, Taken, Owns, Gone, Level, Drowsy, InWait,
     InMonitor, lockVars
<1>4. LevelFits(t)'
  BY <1>1, <1>2 DEF Becomes, Known, LevelFits, Waiting, InWait, InMonitor, Enters, Waits, lockVars
<1>5. InUse(t)'
  BY <1>2 DEF Becomes, InUse, InMonitor
<1>6. QED
  BY <1>2, <1>3, <1>4, <1>5 DEF Quiet

LEMMA QuietLoop ==
  ASSUME IInv, NEW t \in Threads, Loop(t), UNCHANGED lockVars,
         pc[t] \notin InMonitor, pc[t] # "publish", op[t] \in Enters \cup Waits \cup {"hash"}
  PROVE  Quiet(t)
<1>1. Known(t)
  BY Knowledge
<1>2. /\ Local(t) /\ Becomes(t, pc'[t], op[t], Unlocked, None, None, saved[t])
      /\ pc'[t] \in {"enter", "hash", "wait"}
  BY <1>1, LoopMakes DEF Known, Becomes, lockVars
<1>3. SamePart(t) /\ pc[t] # "signal"
  BY <1>2 DEF Becomes, SamePart, Blocked, Waiting, Taken, Owns, Gone, Level, Drowsy, InWait,
     InMonitor, lockVars
<1>4. LevelFits(t)'
  BY <1>1, <1>2 DEF Becomes, Known, LevelFits, Waiting, InWait, InMonitor, Enters, Waits, lockVars
<1>5. InUse(t)'
  BY <1>2 DEF Becomes, InUse, InMonitor
<1>6. QED
  BY <1>2, <1>3, <1>4, <1>5 DEF Quiet

LEMMA QuietBegin ==
  ASSUME IInv, NEW t \in Threads, NEW o \in OpNames, NEW l \in {"enter", "exit", "wait", "hash"},
         Begin(t, o, l), OpFits(l, o), o \in Enters => held[t] < MaxDepth,
         o \in {"exit"} \cup Waits => held[t] > 0
  PROVE  Quiet(t)
<1>1. Known(t)
  BY Knowledge
<1>2. Becomes(t, l, o, seen[t], mon[t], target[t], saved[t]) /\ UNCHANGED lockVars
  BY <1>1 DEF Begin, Jump, Goto, Becomes, Known, LocalTypes, threadVars, lockVars
<1>3. LocalTypes' /\ Others(t)
  BY <1>1 DEF Begin, Jump, Goto, Known, LocalTypes, Others, Untouched, threadVars, Labels
<1>4. pc[t] = "managed" /\ op[t] = "none"
  BY <1>1 DEF Begin, Jump, At, Known, Fits, OpFits
<1>5. SamePart(t)
  BY <1>2, <1>4 DEF Becomes, SamePart, Blocked, Waiting, Taken, Owns, Gone, Level, Drowsy,
     InWait, InMonitor, lockVars
<1>6. Fits(t)' /\ InUse(t)'
  BY <1>1, <1>2, <1>4 DEF Becomes, Known, Fits, SeenFits, TargetFits, InMonitor, InUse
<1>7. LevelFits(t)'
  BY <1>1, <1>2, <1>4
     DEF Becomes, Known, LevelFits, Waiting, InWait, InMonitor, Enters, Waits, lockVars
<1>8. QED
  BY <1>2, <1>3, <1>4, <1>5, <1>6, <1>7 DEF Quiet, Local

LEMMA QuietEnterHeavy ==
  ASSUME IInv, NEW t \in Threads, EnterHeavy(t)
  PROVE  Quiet(t)
<1>1. Known(t)
  BY Knowledge
<1>2. pc[t] = "enter" /\ op[t] \in Enters /\ mark = Heavy(mark.id) /\ mark.id \in Ids
  BY <1>1, MarkCases DEF EnterHeavy, Jump, At, Goto, Known, Fits, OpFits, Enters, Waits
<1>3. Becomes(t, "acquire", op[t], seen[t], mark.id, target[t], saved[t]) /\ UNCHANGED lockVars
  BY <1>1, <1>2 DEF EnterHeavy, Jump, At, Goto, Becomes, Known, LocalTypes, threadVars, lockVars
<1>4. LocalTypes' /\ Others(t)
  BY <1>1, <1>2
     DEF EnterHeavy, Jump, At, Goto, Known, LocalTypes, Others, Untouched, threadVars, Labels
<1>5. SamePart(t) /\ pc[t] # "publish" /\ pc[t] # "signal"
  BY <1>2, <1>3
     DEF Becomes, SamePart, Blocked, Waiting, Taken, Owns, Gone, Level, Drowsy, InWait,
         InMonitor, Enters, Waits, lockVars
<1>6. Fits(t)' /\ InUse(t)'
  BY <1>1, <1>2, <1>3, MonitorAssumption
     DEF Becomes, Known, Fits, OpFits, SeenFits, TargetFits, InMonitor, Enters, Waits, InUse,
         lockVars
<1>7. LevelFits(t)'
  BY <1>1, <1>2, <1>3
     DEF Becomes, Known, LevelFits, Waiting, InWait, InMonitor, Enters, Waits, lockVars
<1>8. QED
  BY <1>3, <1>4, <1>5, <1>6, <1>7 DEF Quiet, Local

LEMMA QuietEnterFree ==
  ASSUME IInv, NEW t \in Threads, EnterFree(t)
  PROVE  Quiet(t)
<1>1. Known(t)
  BY Knowledge
<1>2. /\ pc[t] = "enter" /\ op[t] \in Enters
      /\ mark = Unlocked \/ (LightLockedBy(mark, t) /\ mark.count + 1 < LightMax)
  BY <1>1, MarkCases DEF EnterFree, Jump, At, Goto, Known, Fits, OpFits, Enters, Waits
<1>3. Becomes(t, "cas", op[t], mark, mon[t], target[t], saved[t]) /\ UNCHANGED lockVars
  BY <1>1, <1>2 DEF EnterFree, Jump, At, Goto, Becomes, Known, LocalTypes, threadVars, lockVars
<1>4. LocalTypes' /\ Others(t)
  BY <1>1, <1>2
     DEF EnterFree, Jump, At, Goto, Known, LocalTypes, Others, Untouched, threadVars, Labels
<1>5. SamePart(t) /\ pc[t] # "publish" /\ pc[t] # "signal"
  BY <1>2, <1>3
     DEF Becomes, SamePart, Blocked, Waiting, Taken, Owns, Gone, Level, Drowsy, InWait,
         InMonitor, Enters, Waits, lockVars
<1>6. Fits(t)' /\ InUse(t)'
  BY <1>1, <1>2, <1>3, MonitorAssumption
     DEF Becomes, Known, Fits, OpFits, SeenFits, TargetFits, InMonitor, Enters, Waits, InUse,
         lockVars
<1>7. LevelFits(t)'
  BY <1>1, <1>2, <1>3
     DEF Becomes, Known, LevelFits, Waiting, InWait, InMonitor, Enters, Waits, lockVars
<1>8. QED
  BY <1>3, <1>4, <1>5, <1>6, <1>7 DEF Quiet, Local

LEMMA QuietEnterInflate ==
  ASSUME IInv, NEW t \in Threads, EnterInflate(t)
  PROVE  Quiet(t)
<1>1. Known(t)
  BY Knowledge
<1>2. pc[t] = "enter" /\ op[t] \in Enters
  BY <1>1 DEF EnterInflate, Jump, At, Goto, Known, Fits, OpFits, Enters, Waits
<1>3. Becomes(t, "inflate", op[t], seen[t], mon[t], t, saved[t]) /\ UNCHANGED lockVars
  BY <1>1, <1>2
     DEF EnterInflate, Jump, At, Goto, Becomes, Known, LocalTypes, threadVars, lockVars
<1>4. LocalTypes' /\ Others(t)
  BY <1>1, <1>2
     DEF EnterInflate, Jump, At, Goto, Known, LocalTypes, Others, Untouched, threadVars, Labels
<1>5. SamePart(t) /\ pc[t] # "publish" /\ pc[t] # "signal"
  BY <1>2, <1>3
     DEF Becomes, SamePart, Blocked, Waiting, Taken, Owns, Gone, Level, Drowsy, InWait,
         InMonitor, Enters, Waits, lockVars
<1>6. Fits(t)' /\ InUse(t)'
  BY <1>1, <1>2, <1>3, MonitorAssumption
     DEF Becomes, Known, Fits, OpFits, SeenFits, TargetFits, InMonitor, Enters, Waits, InUse,
         lockVars
<1>7. LevelFits(t)'
  BY <1>1, <1>2, <1>3
     DEF Becomes, Known, LevelFits, Waiting, InWait, InMonitor, Enters, Waits, lockVars
<1>8. QED
  BY <1>3, <1>4, <1>5, <1>6, <1>7 DEF Quiet, Local

LEMMA QuietEnterThin ==
  ASSUME IInv, NEW t \in Threads, EnterContended(t), op[t] # "tryenter"
  PROVE  Quiet(t)
<1>1. Known(t)
  BY Knowledge
<1>2. pc[t] = "enter" /\ op[t] = "enter"
  BY <1>1 DEF EnterContended, Jump, At, Goto, Known, Fits, OpFits, Enters, Waits
<1>3. Becomes(t, "thin", op[t], seen[t], mon[t], target[t], saved[t]) /\ UNCHANGED lockVars
  BY <1>1, <1>2
     DEF EnterContended, Jump, At, Goto, Becomes, Known, LocalTypes, threadVars, lockVars
<1>4. LocalTypes' /\ Others(t)
  BY <1>1, <1>2
     DEF EnterContended, Jump, At, Goto, Known, LocalTypes, Others, Untouched, threadVars,
         Labels
<1>5. SamePart(t) /\ pc[t] # "publish" /\ pc[t] # "signal"
  BY <1>2, <1>3
     DEF Becomes, SamePart, Blocked, Waiting, Taken, Owns, Gone, Level, Drowsy, InWait,
         InMonitor, Enters, Waits, lockVars
<1>6. Fits(t)' /\ InUse(t)'
  BY <1>1, <1>2, <1>3, MonitorAssumption
     DEF Becomes, Known, Fits, OpFits, SeenFits, TargetFits, InMonitor, Enters, Waits, InUse,
         lockVars
<1>7. LevelFits(t)'
  BY <1>1, <1>2, <1>3
     DEF Becomes, Known, LevelFits, Waiting, InWait, InMonitor, Enters, Waits, lockVars
<1>8. QED
  BY <1>3, <1>4, <1>5, <1>6, <1>7 DEF Quiet, Local

LEMMA QuietExitHeavy ==
  ASSUME IInv, NEW t \in Threads, ExitHeavy(t)
  PROVE  Quiet(t)
<1>1. Known(t)
  BY Knowledge
<1>2. pc[t] = "exit" /\ op[t] = "exit" /\ mark = Heavy(mark.id) /\ mark.id \in Ids
  BY <1>1, MarkCases DEF ExitHeavy, Jump, At, Goto, Known, Fits, OpFits, Enters, Waits
<1>3. Becomes(t, "release", op[t], seen[t], mark.id, target[t], saved[t]) /\ UNCHANGED lockVars
  BY <1>1, <1>2 DEF ExitHeavy, Jump, At, Goto, Becomes, Known, LocalTypes, threadVars, lockVars
<1>4. LocalTypes' /\ Others(t)
  BY <1>1, <1>2
     DEF ExitHeavy, Jump, At, Goto, Known, LocalTypes, Others, Untouched, threadVars, Labels
<1>5. SamePart(t) /\ pc[t] # "publish" /\ pc[t] # "signal"
  BY <1>2, <1>3
     DEF Becomes, SamePart, Blocked, Waiting, Taken, Owns, Gone, Level, Drowsy, InWait,
         InMonitor, Enters, Waits, lockVars
<1>6. Fits(t)' /\ InUse(t)'
  BY <1>1, <1>2, <1>3, MonitorAssumption
     DEF Becomes, Known, Fits, OpFits, SeenFits, TargetFits, InMonitor, Enters, Waits, InUse,
         lockVars
<1>7. LevelFits(t)'
  BY <1>1, <1>2, <1>3
     DEF Becomes, Known, LevelFits, Waiting, InWait, InMonitor, Enters, Waits, lockVars
<1>8. QED
  BY <1>3, <1>4, <1>5, <1>6, <1>7 DEF Quiet, Local

LEMMA QuietExitLight ==
  ASSUME IInv, NEW t \in Threads, ExitLight(t)
  PROVE  Quiet(t)
<1>1. Known(t)
  BY Knowledge
<1>2. pc[t] = "exit" /\ op[t] = "exit" /\ LightLockedBy(mark, t)
  BY <1>1 DEF ExitLight, Jump, At, Goto, Known, Fits, OpFits, Enters, Waits
<1>3. Becomes(t, "exitcas", op[t], mark, mon[t], target[t], saved[t]) /\ UNCHANGED lockVars
  BY <1>1, <1>2 DEF ExitLight, Jump, At, Goto, Becomes, Known, LocalTypes, threadVars, lockVars
<1>4. LocalTypes' /\ Others(t)
  BY <1>1, <1>2
     DEF ExitLight, Jump, At, Goto, Known, LocalTypes, Others, Untouched, threadVars, Labels
<1>5. SamePart(t) /\ pc[t] # "publish" /\ pc[t] # "signal"
  BY <1>2, <1>3
     DEF Becomes, SamePart, Blocked, Waiting, Taken, Owns, Gone, Level, Drowsy, InWait,
         InMonitor, Enters, Waits, lockVars
<1>6. Fits(t)' /\ InUse(t)'
  BY <1>1, <1>2, <1>3, MonitorAssumption
     DEF Becomes, Known, Fits, OpFits, SeenFits, TargetFits, InMonitor, Enters, Waits, InUse,
         lockVars
<1>7. LevelFits(t)'
  BY <1>1, <1>2, <1>3
     DEF Becomes, Known, LevelFits, Waiting, InWait, InMonitor, Enters, Waits, lockVars
<1>8. QED
  BY <1>3, <1>4, <1>5, <1>6, <1>7 DEF Quiet, Local

LEMMA QuietExitRetry ==
  ASSUME IInv, NEW t \in Threads, ExitCAS(t), mark # seen[t]
  PROVE  Quiet(t)
<1>1. Known(t)
  BY Knowledge
<1>2. pc[t] = "exitcas" /\ op[t] = "exit" /\ Unlocked \in Marks
  BY <1>1, MarkMade DEF ExitCAS, Jump, At, Goto, Known, Fits, OpFits, Enters, Waits
<1>3. Becomes(t, "exit", op[t], Unlocked, mon[t], target[t], saved[t]) /\ UNCHANGED lockVars
  BY <1>1, <1>2 DEF ExitCAS, Jump, At, Goto, Becomes, Known, LocalTypes, threadVars, lockVars
<1>4. LocalTypes' /\ Others(t)
  BY <1>1, <1>2
     DEF ExitCAS, Jump, At, Goto, Known, LocalTypes, Others, Untouched, threadVars, Labels
<1>5. SamePart(t) /\ pc[t] # "publish" /\ pc[t] # "signal"
  BY <1>2, <1>3
     DEF Becomes, SamePart, Blocked, Waiting, Taken, Owns, Gone, Level, Drowsy, InWait,
         InMonitor, Enters, Waits, lockVars
<1>6. Fits(t)' /\ InUse(t)'
  BY <1>1, <1>2, <1>3, MonitorAssumption
     DEF Becomes, Known, Fits, OpFits, SeenFits, TargetFits, InMonitor, Enters, Waits, InUse,
         lockVars
<1>7. LevelFits(t)'
  BY <1>1, <1>2, <1>3
     DEF Becomes, Known, LevelFits, Waiting, InWait, InMonitor, Enters, Waits, lockVars
<1>8. QED
  BY <1>3, <1>4, <1>5, <1>6, <1>7 DEF Quiet, Local

LEMMA QuietWaitInflate ==
  ASSUME IInv, NEW t \in Threads, WaitInflate(t)
  PROVE  Quiet(t)
<1>1. Known(t)
  BY Knowledge
<1>2. pc[t] = "wait" /\ op[t] \in Waits
  BY <1>1 DEF WaitInflate, Jump, At, Goto, Known, Fits, OpFits, Enters, Waits
<1>3. Becomes(t, "inflate", op[t], seen[t], mon[t], t, saved[t]) /\ UNCHANGED lockVars
  BY <1>1, <1>2
     DEF WaitInflate, Jump, At, Goto, Becomes, Known, LocalTypes, threadVars, lockVars
<1>4. LocalTypes' /\ Others(t)
  BY <1>1, <1>2
     DEF WaitInflate, Jump, At, Goto, Known, LocalTypes, Others, Untouched, threadVars, Labels
<1>5. SamePart(t) /\ pc[t] # "publish" /\ pc[t] # "signal"
  BY <1>2, <1>3
     DEF Becomes, SamePart, Blocked, Waiting, Taken, Owns, Gone, Level, Drowsy, InWait,
         InMonitor, Enters, Waits, lockVars
<1>6. Fits(t)' /\ InUse(t)'
  BY <1>1, <1>2, <1>3, MonitorAssumption
     DEF Becomes, Known, Fits, OpFits, SeenFits, TargetFits, InMonitor, Enters, Waits, InUse,
         lockVars
<1>7. LevelFits(t)'
  BY <1>1, <1>2, <1>3
     DEF Becomes, Known, LevelFits, Waiting, InWait, InMonitor, Enters, Waits, lockVars
<1>8. QED
  BY <1>3, <1>4, <1>5, <1>6, <1>7 DEF Quiet, Local

LEMMA QuietWaitSleep ==
  ASSUME IInv, NEW t \in Threads, WaitSleep(t)
  PROVE  Quiet(t)
<1>1. Known(t)
  BY Knowledge
<1>2. pc[t] = "presleep" /\ op[t] \in Waits /\ pc'[t] \in {"woken", "asleep"}
  BY <1>1 DEF WaitSleep, Jump, At, Goto, Known, Fits, OpFits, Enters, Waits, LocalTypes
<1>3. Becomes(t, pc'[t], op[t], seen[t], mon[t], target[t], saved[t]) /\ UNCHANGED lockVars
  BY <1>1, <1>2 DEF WaitSleep, Jump, At, Goto, Becomes, Known, LocalTypes, threadVars, lockVars
<1>4. LocalTypes' /\ Others(t)
  BY <1>1, <1>2
     DEF WaitSleep, Jump, At, Goto, Known, LocalTypes, Others, Untouched, threadVars, Labels
<1>5. SamePart(t) /\ pc[t] # "publish" /\ pc[t] # "signal"
  BY <1>2, <1>3
     DEF Becomes, SamePart, Blocked, Waiting, Taken, Owns, Gone, Level, Drowsy, InWait,
         InMonitor, Enters, Waits, lockVars
<1>6. Fits(t)' /\ InUse(t)'
  BY <1>1, <1>2, <1>3, MonitorAssumption
     DEF Becomes, Known, Fits, OpFits, SeenFits, TargetFits, InMonitor, Enters, Waits, InUse,
         lockVars
<1>7. LevelFits(t)'
  BY <1>1, <1>2, <1>3
     DEF Becomes, Known, LevelFits, Waiting, InWait, InMonitor, Enters, Waits, lockVars
<1>8. QED
  BY <1>3, <1>4, <1>5, <1>6, <1>7 DEF Quiet, Local

LEMMA QuietWaitTimeout ==
  ASSUME IInv, NEW t \in Threads, WaitTimeout(t)
  PROVE  Quiet(t)
<1>1. Known(t)
  BY Knowledge
<1>2. pc[t] = "asleep" /\ op[t] \in Waits
  BY <1>1 DEF WaitTimeout, Jump, At, Goto, Known, Fits, OpFits, Enters, Waits
<1>3. Becomes(t, "woken", op[t], seen[t], mon[t], target[t], saved[t]) /\ UNCHANGED lockVars
  BY <1>1, <1>2
     DEF WaitTimeout, Jump, At, Goto, Becomes, Known, LocalTypes, threadVars, lockVars
<1>4. LocalTypes' /\ Others(t)
  BY <1>1, <1>2
     DEF WaitTimeout, Jump, At, Goto, Known, LocalTypes, Others, Untouched, threadVars, Labels
<1>5. SamePart(t) /\ pc[t] # "publish" /\ pc[t] # "signal"
  BY <1>2, <1>3
     DEF Becomes, SamePart, Blocked, Waiting, Taken, Owns, Gone, Level, Drowsy, InWait,
         InMonitor, Enters, Waits, lockVars
<1>6. Fits(t)' /\ InUse(t)'
  BY <1>1, <1>2, <1>3, MonitorAssumption
     DEF Becomes, Known, Fits, OpFits, SeenFits, TargetFits, InMonitor, Enters, Waits, InUse,
         lockVars
<1>7. LevelFits(t)'
  BY <1>1, <1>2, <1>3
     DEF Becomes, Known, LevelFits, Waiting, InWait, InMonitor, Enters, Waits, lockVars
<1>8. QED
  BY <1>3, <1>4, <1>5, <1>6, <1>7 DEF Quiet, Local

LEMMA QuietWaitReacquire ==
  ASSUME IInv, NEW t \in Threads, WaitReacquire(t)
  PROVE  Quiet(t)
<1>1. Known(t)
  BY Knowledge
<1>2. pc[t] = "woken" /\ op[t] \in Waits
  BY <1>1 DEF WaitReacquire, Jump, At, Goto, Known, Fits, OpFits, Enters, Waits
<1>3. Becomes(t, "acquire", op[t], seen[t], mon[t], target[t], saved[t]) /\ UNCHANGED lockVars
  BY <1>1, <1>2
     DEF WaitReacquire, Jump, At, Goto, Becomes, Known, LocalTypes, threadVars, lockVars
<1>4. LocalTypes' /\ Others(t)
  BY <1>1, <1>2
     DEF WaitReacquire, Jump, At, Goto, Known, LocalTypes, Others, Untouched, threadVars, Labels
<1>5. SamePart(t) /\ pc[t] # "publish" /\ pc[t] # "signal"
  BY <1>2, <1>3
     DEF Becomes, SamePart, Blocked, Waiting, Taken, Owns, Gone, Level, Drowsy, InWait,
         InMonitor, Enters, Waits, lockVars
<1>6. Fits(t)' /\ InUse(t)'
  BY <1>1, <1>2, <1>3, MonitorAssumption
     DEF Becomes, Known, Fits, OpFits, SeenFits, TargetFits, InMonitor, Enters, Waits, InUse,
         lockVars
<1>7. LevelFits(t)'
  BY <1>1, <1>2, <1>3
     DEF Becomes, Known, LevelFits, Waiting, InWait, InMonitor, Enters, Waits, lockVars
<1>8. QED
  BY <1>3, <1>4, <1>5, <1>6, <1>7 DEF Quiet, Local

LEMMA QuietThinLoad ==
  ASSUME IInv, NEW t \in Threads, ThinLoad(t)
  PROVE  Quiet(t)
<1>1. Known(t)
  BY Knowledge
<1>2. pc[t] = "thin" /\ op[t] \in {"enter", "hash"} /\ GetThreadId(mark) \in Threads \cup {None}
  BY <1>1, IdOfThread DEF ThinLoad, Jump, At, Goto, Known, Fits, OpFits, Enters, Waits
<1>3. Becomes(t, "suspend", op[t], seen[t], mon[t], GetThreadId(mark), saved[t]) /\ UNCHANGED lockVars
  BY <1>1, <1>2 DEF ThinLoad, Jump, At, Goto, Becomes, Known, LocalTypes, threadVars, lockVars
<1>4. LocalTypes' /\ Others(t)
  BY <1>1, <1>2
     DEF ThinLoad, Jump, At, Goto, Known, LocalTypes, Others, Untouched, threadVars, Labels
<1>5. SamePart(t) /\ pc[t] # "publish" /\ pc[t] # "signal"
  BY <1>2, <1>3
     DEF Becomes, SamePart, Blocked, Waiting, Taken, Owns, Gone, Level, Drowsy, InWait,
         InMonitor, Enters, Waits, lockVars
<1>6. Fits(t)' /\ InUse(t)'
  BY <1>1, <1>2, <1>3, MonitorAssumption
     DEF Becomes, Known, Fits, OpFits, SeenFits, TargetFits, InMonitor, Enters, Waits, InUse,
         lockVars
<1>7. LevelFits(t)'
  BY <1>1, <1>2, <1>3
     DEF Becomes, Known, LevelFits, Waiting, InWait, InMonitor, Enters, Waits, lockVars
<1>8. QED
  BY <1>3, <1>4, <1>5, <1>6, <1>7 DEF Quiet, Local

LEMMA QuietThinSuspend ==
  ASSUME IInv, NEW t \in Threads, ThinSuspend(t)
  PROVE  Quiet(t)
<1>1. Known(t)
  BY Knowledge
<1>2. pc[t] = "suspend" /\ op[t] \in {"enter", "hash"} /\ target[t] \in Threads
  BY <1>1 DEF ThinSuspend, Jump, At, Goto, Known, Fits, OpFits, Enters, Waits, LocalTypes
<1>3. Becomes(t, "await", op[t], seen[t], mon[t], target[t], saved[t]) /\ UNCHANGED lockVars
  BY <1>1, <1>2
     DEF ThinSuspend, Jump, At, Goto, Becomes, Known, LocalTypes, threadVars, lockVars
<1>4. LocalTypes' /\ Others(t)
  BY <1>1, <1>2
     DEF ThinSuspend, Jump, At, Goto, Known, LocalTypes, Others, Untouched, threadVars, Labels
<1>5. SamePart(t) /\ pc[t] # "publish" /\ pc[t] # "signal"
  BY <1>2, <1>3
     DEF Becomes, SamePart, Blocked, Waiting, Taken, Owns, Gone, Level, Drowsy, InWait,
         InMonitor, Enters, Waits, lockVars
<1>6. Fits(t)' /\ InUse(t)'
  BY <1>1, <1>2, <1>3, MonitorAssumption
     DEF Becomes, Known, Fits, OpFits, SeenFits, TargetFits, InMonitor, Enters, Waits, InUse,
         lockVars
<1>7. LevelFits(t)'
  BY <1>1, <1>2, <1>3
     DEF Becomes, Known, LevelFits, Waiting, InWait, InMonitor, Enters, Waits, lockVars
<1>8. QED
  BY <1>3, <1>4, <1>5, <1>6, <1>7 DEF Quiet, Local

LEMMA QuietThinAwait ==
  ASSUME IInv, NEW t \in Threads, ThinAwait(t)
  PROVE  Quiet(t)
<1>1. Known(t)
  BY Knowledge
<1>2. pc[t] = "await" /\ op[t] \in {"enter", "hash"} /\ target[t] # t
  BY <1>1, NotItself DEF ThinAwait, Jump, At, Goto, Known, Fits, OpFits, Enters, Waits, IInv
<1>3. Becomes(t, "inflate", op[t], seen[t], mon[t], target[t], saved[t]) /\ UNCHANGED lockVars
  BY <1>1, <1>2 DEF ThinAwait, Jump, At, Goto, Becomes, Known, LocalTypes, threadVars, lockVars
<1>4. LocalTypes' /\ Others(t)
  BY <1>1, <1>2
     DEF ThinAwait, Jump, At, Goto, Known, LocalTypes, Others, Untouched, threadVars, Labels
<1>5. SamePart(t) /\ pc[t] # "publish" /\ pc[t] # "signal"
  BY <1>2, <1>3
     DEF Becomes, SamePart, Blocked, Waiting, Taken, Owns, Gone, Level, Drowsy, InWait,
         InMonitor, Enters, Waits, lockVars
<1>6. Fits(t)' /\ InUse(t)'
  BY <1>1, <1>2, <1>3, MonitorAssumption
     DEF Becomes, Known, Fits, OpFits, SeenFits, TargetFits, InMonitor, Enters, Waits, InUse,
         lockVars
<1>7. LevelFits(t)'
  BY <1>1, <1>2, <1>3
     DEF Becomes, Known, LevelFits, Waiting, InWait, InMonitor, Enters, Waits, lockVars
<1>8. QED
  BY <1>3, <1>4, <1>5, <1>6, <1>7 DEF Quiet, Local

LEMMA QuietHashUnlocked ==
  ASSUME IInv, NEW t \in Threads, HashUnlocked(t)
  PROVE  Quiet(t)
<1>1. Known(t)
  BY Knowledge
<1>2. pc[t] = "hash" /\ op[t] = "hash" /\ mark = Unlocked
  BY <1>1, MarkCases DEF HashUnlocked, Jump, At, Goto, Known, Fits, OpFits, Enters, Waits
<1>3. Becomes(t, "hashcas", op[t], mark, mon[t], target[t], saved[t]) /\ UNCHANGED lockVars
  BY <1>1, <1>2
     DEF HashUnlocked, Jump, At, Goto, Becomes, Known, LocalTypes, threadVars, lockVars
<1>4. LocalTypes' /\ Others(t)
  BY <1>1, <1>2
     DEF HashUnlocked, Jump, At, Goto, Known, LocalTypes, Others, Untouched, threadVars, Labels
<1>5. SamePart(t) /\ pc[t] # "publish" /\ pc[t] # "signal"
  BY <1>2, <1>3
     DEF Becomes, SamePart, Blocked, Waiting, Taken, Owns, Gone, Level, Drowsy, InWait,
         InMonitor, Enters, Waits, lockVars
<1>6. Fits(t)' /\ InUse(t)'
  BY <1>1, <1>2, <1>3, MonitorAssumption
     DEF Becomes, Known, Fits, OpFits, SeenFits, TargetFits, InMonitor, Enters, Waits, InUse,
         lockVars
<1>7. LevelFits(t)'
  BY <1>1, <1>2, <1>3
     DEF Becomes, Known, LevelFits, Waiting, InWait, InMonitor, Enters, Waits, lockVars
<1>8. QED
  BY <1>3, <1>4, <1>5, <1>6, <1>7 DEF Quiet, Local

LEMMA QuietHashThin ==
  ASSUME IInv, NEW t \in Threads, HashLight(t), mark.tid # t
  PROVE  Quiet(t)
<1>1. Known(t)
  BY Knowledge
<1>2. pc[t] = "hash" /\ op[t] = "hash"
  BY <1>1 DEF HashLight, Jump, At, Goto, Known, Fits, OpFits, Enters, Waits
<1>3. Becomes(t, "thin", op[t], seen[t], mon[t], target[t], saved[t]) /\ UNCHANGED lockVars
  BY <1>1, <1>2 DEF HashLight, Jump, At, Goto, Becomes, Known, LocalTypes, threadVars, lockVars
<1>4. LocalTypes' /\ Others(t)
  BY <1>1, <1>2
     DEF HashLight, Jump, At, Goto, Known, LocalTypes, Others, Untouched, threadVars, Labels
<1>5. SamePart(t) /\ pc[t] # "publish" /\ pc[t] # "signal"
  BY <1>2, <1>3
     DEF Becomes, SamePart, Blocked, Waiting, Taken, Owns, Gone, Level, Drowsy, InWait,
         InMonitor, Enters, Waits, lockVars
<1>6. Fits(t)' /\ InUse(t)'
  BY <1>1, <1>2, <1>3, MonitorAssumption
     DEF Becomes, Known, Fits, OpFits, SeenFits, TargetFits, InMonitor, Enters, Waits, InUse,
         lockVars
<1>7. LevelFits(t)'
  BY <1>1, <1>2, <1>3
     DEF Becomes, Known, LevelFits, Waiting, InWait, InMonitor, Enters, Waits, lockVars
<1>8. QED
  BY <1>3, <1>4, <1>5, <1>6, <1>7 DEF Quiet, Local

LEMMA QuietHashInflate ==
  ASSUME IInv, NEW t \in Threads, HashLight(t), mark.tid = t
  PROVE  Quiet(t)
<1>1. Known(t)
  BY Knowledge
<1>2. pc[t] = "hash" /\ op[t] = "hash" /\ held[t] > 0
  BY <1>1, LightIsHeld DEF HashLight, LightLockedBy, Jump, At, Known, Fits, OpFits, IInv
<1>3. Becomes(t, "inflate", op[t], seen[t], mon[t], t, saved[t]) /\ UNCHANGED lockVars
  BY <1>1, <1>2 DEF HashLight, Jump, At, Goto, Becomes, Known, LocalTypes, threadVars, lockVars
<1>4. LocalTypes' /\ Others(t)
  BY <1>1, <1>2
     DEF HashLight, Jump, At, Goto, Known, LocalTypes, Others, Untouched, threadVars, Labels
<1>5. SamePart(t) /\ pc[t] # "publish" /\ pc[t] # "signal"
  BY <1>2, <1>3
     DEF Becomes, SamePart, Blocked, Waiting, Taken, Owns, Gone, Level, Drowsy, InWait,
         InMonitor, Enters, Waits, lockVars
<1>6. Fits(t)' /\ InUse(t)'
  BY <1>1, <1>2, <1>3, MonitorAssumption
     DEF Becomes, Known, Fits, OpFits, SeenFits, TargetFits, InMonitor, Enters, Waits, InUse,
         lockVars
<1>7. LevelFits(t)'
  BY <1>1, <1>2, <1>3
     DEF Becomes, Known, LevelFits, Waiting, InWait, InMonitor, Enters, Waits, lockVars
<1>8. QED
  BY <1>3, <1>4, <1>5, <1>6, <1>7 DEF Quiet, Local

LEMMA QuietInflateGivesUp ==
  ASSUME IInv, NEW t \in Threads, InflateFail(t), target[t] # t
  PROVE  Quiet(t)
<1>1. Known(t)
  BY Knowledge
<1>2. pc[t] = "inflate" /\ op[t] \in {"enter", "hash"} /\ Unlocked \in Marks
  BY <1>1, MarkMade
     DEF InflateFail, Inflated, Jump, At, Goto, Known, Fits, OpFits, Enters, Waits, TargetFits
<1>3. Becomes(t, "resume", op[t], Unlocked, None, target[t], saved[t]) /\ UNCHANGED lockVars
  BY <1>1, <1>2
     DEF InflateFail, Inflated, Jump, At, Goto, Becomes, Known, LocalTypes, threadVars, lockVars
<1>4. LocalTypes' /\ Others(t)
  BY <1>1, <1>2
     DEF InflateFail, Inflated, Jump, At, Goto, Known, LocalTypes, Others, Untouched,
         threadVars, Labels
<1>5. SamePart(t) /\ pc[t] # "publish" /\ pc[t] # "signal"
  BY <1>2, <1>3
     DEF Becomes, SamePart, Blocked, Waiting, Taken, Owns, Gone, Level, Drowsy, InWait,
         InMonitor, Enters, Waits, lockVars
<1>6. Fits(t)' /\ InUse(t)'
  BY <1>1, <1>2, <1>3, MonitorAssumption
     DEF Becomes, Known, Fits, OpFits, SeenFits, TargetFits, InMonitor, Enters, Waits, InUse,
         lockVars
<1>7. LevelFits(t)'
  BY <1>1, <1>2, <1>3
     DEF Becomes, Known, LevelFits, Waiting, InWait, InMonitor, Enters, Waits, lockVars
<1>8. QED
  BY <1>3, <1>4, <1>5, <1>6, <1>7 DEF Quiet, Local

LEMMA QuietCalls ==
  ASSUME IInv, NEW t \in Threads, EnterBegin(t) \/ ExitBegin(t) \/ WaitBegin(t) \/ HashBegin(t)
  PROVE  Quiet(t)
<1>1. CASE EnterBegin(t)
  <2>1. PICK o \in Enters : Begin(t, o, "enter")
    BY <1>1 DEF EnterBegin, Enters
  <2>2. o \in OpNames /\ OpFits("enter", o) /\ o \notin {"exit"} \cup Waits
    BY DEF Enters, Waits, OpNames, OpFits
  <2>3. held[t] < MaxDepth
    BY <1>1 DEF EnterBegin
  <2>4. QED
    BY <2>1, <2>2, <2>3, QuietBegin
<1>2. CASE ExitBegin(t)
  <2>1. "exit" \in OpNames /\ OpFits("exit", "exit") /\ "exit" \notin Enters
    BY DEF Enters, Waits, OpNames, OpFits
  <2>2. QED
    BY <1>2, <2>1, QuietBegin DEF ExitBegin
<1>3. CASE WaitBegin(t)
  <2>1. PICK o \in Waits : Begin(t, o, "wait")
    BY <1>3 DEF WaitBegin, Waits
  <2>2. o \in OpNames /\ OpFits("wait", o) /\ o \notin Enters
    BY DEF Enters, Waits, OpNames, OpFits
  <2>3. held[t] > 0
    BY <1>3 DEF WaitBegin
  <2>4. QED
    BY <2>1, <2>2, <2>3, QuietBegin
<1>4. CASE HashBegin(t)
  <2>1. "hash" \in OpNames /\ OpFits("hash", "hash") /\ "hash" \notin Enters \cup Waits \cup {"exit"}
    BY DEF Enters, Waits, OpNames, OpFits
  <2>2. QED
    BY <1>4, <2>1, QuietBegin DEF HashBegin
<1>5. QED
  BY <1>1, <1>2, <1>3, <1>4

LEMMA QuietFailure ==
  ASSUME IInv, NEW t \in Threads,
         \/ EnterContended(t) /\ op[t] = "tryenter"
         \/ EnterCAS(t) /\ mark # seen[t]
         \/ AcquireFailed(t) /\ op[t] = "tryenter"
         \/ ThinNobody(t) \/ ThinResume(t)
         \/ InflateFail(t) /\ target[t] = t
         \/ HashCAS(t) /\ mark # seen[t]
         \/ HashHashed(t)
  PROVE  Quiet(t)
<1>1. Known(t)
  BY Knowledge
<1>2. CASE EnterContended(t) /\ op[t] = "tryenter"
  <2>1. Return(t) /\ UNCHANGED lockVars /\ pc[t] = "enter" /\ ~Waiting(t)
    BY <1>2 DEF EnterContended, At, lockVars, threadVars, Waiting, InWait
  <2>2. QED
    BY <2>1, QuietReturn
<1>3. CASE EnterCAS(t) /\ mark # seen[t]
  <2>1. /\ UNCHANGED lockVars /\ pc[t] = "cas" /\ op[t] \in Enters /\ ~Waiting(t)
        /\ Return(t) \/ Loop(t)
    BY <1>1, <1>3
       DEF EnterCAS, At, lockVars, Known, Fits, OpFits, Enters, Waiting, InWait
  <2>2. QED
    BY <2>1, QuietReturn, QuietLoop DEF InMonitor
<1>4. CASE AcquireFailed(t) /\ op[t] = "tryenter"
  <2>1. Return(t) /\ UNCHANGED lockVars /\ pc[t] = "acquire" /\ ~Waiting(t)
    BY <1>4 DEF AcquireFailed, At, lockVars, threadVars, Waiting, InWait
  <2>2. QED
    BY <2>1, QuietReturn
<1>5. CASE ThinNobody(t) \/ ThinResume(t)
  <2>1. /\ Loop(t) /\ UNCHANGED lockVars /\ pc[t] \in {"suspend", "resume"}
        /\ op[t] \in Enters \cup {"hash"}
    BY <1>1, <1>5
       DEF ThinNobody, ThinResume, At, lockVars, threadVars, Known, Fits, OpFits, Enters
  <2>2. QED
    BY <2>1, QuietLoop DEF InMonitor
<1>6. CASE InflateFail(t) /\ target[t] = t
  <2>1. /\ UNCHANGED lockVars /\ pc[t] = "inflate" /\ op[t] \in Enters \cup Waits \cup {"hash"}
        /\ ~Waiting(t) /\ (Return(t) \/ Loop(t))
    BY <1>1, <1>6
       DEF InflateFail, Inflated, At, lockVars, Known, Fits, OpFits, Waiting, InMonitor, InWait
  <2>2. QED
    BY <2>1, QuietReturn, QuietLoop DEF InMonitor
<1>7. CASE HashCAS(t) /\ mark # seen[t]
  <2>1. Loop(t) /\ UNCHANGED lockVars /\ pc[t] = "hashcas" /\ op[t] = "hash"
    BY <1>1, <1>7 DEF HashCAS, At, lockVars, threadVars, Known, Fits, OpFits
  <2>2. QED
    BY <2>1, QuietLoop DEF InMonitor
<1>8. CASE HashHashed(t)
  <2>1. Return(t) /\ UNCHANGED lockVars /\ pc[t] = "hash" /\ ~Waiting(t)
    BY <1>8 DEF HashHashed, At, lockVars, threadVars, Waiting, InMonitor
  <2>2. QED
    BY <2>1, QuietReturn
<1>9. QED
  BY <1>2, <1>3, <1>4, <1>5, <1>6, <1>7, <1>8

LEMMA QuietInterrupt ==
  ASSUME IInv, NEW t \in Threads, Interrupt(t) \/ Interrupted(t)
  PROVE  Quiet(t) /\ Untouched(t)
<1>1. Known(t)
  BY Knowledge
<1>2. /\ pc' \in [Threads -> Labels]
      /\ \A u \in Threads : pc'[u] = pc[u] \/ (pc[u] = "asleep" /\ pc'[u] = "woken")
  BY <1>1 DEF Interrupt, Interrupted, Known, LocalTypes, locals, Labels
<1>3. UNCHANGED <<lockVars, op, seen, mon, target, saved>>
  BY DEF Interrupt, Interrupted, lockVars, locals
<1>4. LocalTypes' /\ Others(t) /\ Untouched(t)
  BY <1>1, <1>2, <1>3 DEF Known, LocalTypes, Others, Untouched, lockVars
<1>5. SamePart(t) /\ Fits(t)' /\ LevelFits(t)' /\ InUse(t)'
  BY <1>1, <1>3, <1>4, UntouchedKeeps DEF Known, InUse, lockVars, Untouched
<1>6. QED
  BY <1>3, <1>4, <1>5 DEF Quiet, Local

\* The waiter is asleep and wakes, or it is past its sleep.
LEMMA QuietSignal ==
  ASSUME IInv, NEW t \in Threads, ReleaseSignal(t)
  PROVE  Quiet(t)
<1>1. Known(t) /\ pc[t] = "signal" /\ target[t] \in Threads /\ op[t] \in {"exit"} \cup Waits
  BY Knowledge DEF ReleaseSignal, At, Known, Fits, TargetFits, OpFits
<1>2. PICK w \in Threads : w = target[t]
  BY <1>1
<1>3. ~CondLockHeld(w) /\ pc' = [pc EXCEPT ![t] = "unlock", ![w] = IF @ = "asleep" THEN "woken" ELSE @]
  BY <1>2 DEF ReleaseSignal
<1>4. UNCHANGED <<lockVars, op, seen, mon, target, saved>>
  BY DEF ReleaseSignal, lockVars, threadVars
<1>5. pc' \in [Threads -> Labels] /\ pc'[t] = "unlock"
  BY <1>1, <1>3 DEF Known, LocalTypes, Labels
<1>6. \A u \in Threads \ {t} : pc'[u] = pc[u] \/ (pc[u] = "asleep" /\ pc'[u] = "woken")
  BY <1>1, <1>3 DEF Known, LocalTypes
<1>7. LocalTypes' /\ Others(t)
  BY <1>1, <1>4, <1>5, <1>6 DEF Known, LocalTypes, Others, Untouched, lockVars
<1>8. SamePart(t)
  BY <1>1, <1>4, <1>5 DEF SamePart, Blocked, Waiting, Taken, Owns, Gone, Level, Drowsy, InWait,
     InMonitor, lockVars
<1>9. Fits(t)' /\ InUse(t)'
  BY <1>1, <1>4, <1>5
     DEF Known, Fits, OpFits, SeenFits, TargetFits, InMonitor, InUse, lockVars
<1>10. LevelFits(t)'
  BY <1>1, <1>4, <1>5
     DEF Known, LevelFits, Waiting, InWait, InMonitor, Enters, Waits, lockVars
<1>11. ~Drowsy(w)'
  <2>1. CASE w = t
    BY <1>1, <1>3, <1>4, <2>1 DEF Drowsy, CondLockHeld, InWait, Waits
  <2>2. CASE w # t
    BY <1>1, <1>3, <1>4, <2>2 DEF Drowsy, CondLockHeld, InWait, Known, LocalTypes
  <2>3. QED
    BY <2>1, <2>2
<1>12. QED
  BY <1>1, <1>2, <1>4, <1>7, <1>8, <1>9, <1>10, <1>11 DEF Quiet, Local

-----------------------------------------------------------------------------
(* What a step of one thread leaves of the invariant.                      *)

\* Everything but the suspension of threads.
Core ==
  Types /\ Control /\ Levels /\ Lock /\ Memory /\ Counted /\ Tally /\ Hash /\ Lists

LEMMA OthersKeep ==
  ASSUME NEW t \in Threads, Others(t), NEW u \in Threads, u # t
  PROVE  /\ SamePart(u) /\ (Suspends(u)' <=> Suspends(u)) /\ (Past(u)' <=> Past(u))
         /\ Parked(u)' <=> Parked(u)
         /\ pc'[u] = "signal" <=> pc[u] = "signal"
         /\ pc'[u] \in InMonitor <=> pc[u] \in InMonitor
         /\ op'[u] = op[u] /\ seen'[u] = seen[u] /\ mon'[u] = mon[u] /\ target'[u] = target[u]
         /\ saved'[u] = saved[u] /\ held'[u] = held[u]
         /\ waitingMonitor_'[u] = waitingMonitor_[u]
<1>1. Untouched(u)
  BY DEF Others
<1>2. QED
  BY <1>1, UntouchedKeeps DEF Untouched

LEMMA LocalKeeps ==
  ASSUME Control, Levels, NEW t \in Threads, Local(t), LevelFits(t)'
  PROVE  Control' /\ Levels'
<1>1. ASSUME NEW u \in Threads, u # t PROVE Fits(u)' /\ LevelFits(u)'
  <2>1. Untouched(u) /\ Fits(u) /\ LevelFits(u)
    BY <1>1 DEF Local, Others, Control, Levels
  <2>2. QED
    BY <2>1, UntouchedKeeps
<1>2. Fits(t)'
  BY DEF Local
<1>3. QED
  BY <1>1, <1>2 DEF Control, Levels

LEMMA LockStep ==
  ASSUME Lock, NEW t \in Threads, Others(t),
         Owns(t)' <=> CurOwner' = t,
         Owns(t)' \/ Taken(t)' <=> CurLock' = t,
         CurOwner' = t => CurCount' = Level(t)',
         \A u \in Threads \ {t} : /\ CurOwner' = u <=> CurOwner = u
                                  /\ CurLock' = u <=> CurLock = u
                                  /\ CurOwner = u => CurCount' = CurCount,
         CurOwner' = None => CurCount' = 0
  PROVE  Lock'
<1>1. ASSUME NEW u \in Threads, u # t
      PROVE  /\ Owns(u)' <=> CurOwner' = u
             /\ Owns(u)' \/ Taken(u)' <=> CurLock' = u
             /\ CurOwner' = u => CurCount' = Level(u)'
  <2>1. SamePart(u)
    BY <1>1, OthersKeep
  <2>2. /\ Owns(u) <=> CurOwner = u
        /\ Owns(u) \/ Taken(u) <=> CurLock = u
        /\ CurOwner = u => CurCount = Level(u)
    BY DEF Lock
  <2>3. QED
    BY <1>1, <2>1, <2>2 DEF SamePart
<1>2. QED
  BY <1>1 DEF Lock

\* How the cardinality of a set of threads changes when one thread moves.
LEMMA OneMoves ==
  ASSUME NEW t \in Threads, NEW P \in SUBSET Threads, NEW Q \in SUBSET Threads,
         \A u \in Threads \ {t} : u \in P <=> u \in Q
  PROVE  /\ Cardinality(P) \in Nat /\ Cardinality(Q) \in Nat
         /\ (t \in P <=> t \in Q) => Cardinality(Q) = Cardinality(P)
         /\ t \notin P /\ t \in Q => Cardinality(Q) = Cardinality(P) + 1
         /\ t \in P /\ t \notin Q => Cardinality(Q) = Cardinality(P) - 1
<1>1. IsFiniteSet(P) /\ IsFiniteSet(Q)
  BY FS_Subset, MonitorAssumption
<1>2. Cardinality(P) \in Nat /\ Cardinality(Q) \in Nat
  BY <1>1, FS_CardinalityType
<1>3. ASSUME t \in P <=> t \in Q PROVE P = Q
  BY <1>3
<1>4. ASSUME t \notin P, t \in Q PROVE Cardinality(Q) = Cardinality(P) + 1
  <2>1. Q = P \cup {t}
    BY <1>4
  <2>2. QED
    BY <1>1, <1>4, <2>1, FS_AddElement
<1>5. ASSUME t \in P, t \notin Q PROVE Cardinality(Q) = Cardinality(P) - 1
  <2>1. Q = P \ {t}
    BY <1>5
  <2>2. QED
    BY <1>1, <1>5, <2>1, FS_RemoveElement
<1>6. QED
  BY <1>2, <1>3, <1>4, <1>5

LEMMA PartsCounted ==
  ASSUME NEW t \in Threads, Others(t)
  PROVE  /\ Cardinality(BlockedSet) \in Nat /\ Cardinality(WaitingSet) \in Nat
         /\ (Blocked(t)' <=> Blocked(t)) => Cardinality(BlockedSet)' = Cardinality(BlockedSet)
         /\ ~Blocked(t) /\ Blocked(t)' =>
              Cardinality(BlockedSet)' = Cardinality(BlockedSet) + 1
         /\ Blocked(t) /\ ~Blocked(t)' =>
              Cardinality(BlockedSet)' = Cardinality(BlockedSet) - 1
         /\ (Waiting(t)' <=> Waiting(t)) => Cardinality(WaitingSet)' = Cardinality(WaitingSet)
         /\ ~Waiting(t) /\ Waiting(t)' =>
              Cardinality(WaitingSet)' = Cardinality(WaitingSet) + 1
         /\ Waiting(t) /\ ~Waiting(t)' =>
              Cardinality(WaitingSet)' = Cardinality(WaitingSet) - 1
<1> DEFINE B == BlockedSet  BB == BlockedSet'  W == WaitingSet  WW == WaitingSet'
<1>1. \A u \in Threads \ {t} : (Blocked(u)' <=> Blocked(u)) /\ (Waiting(u)' <=> Waiting(u))
  BY OthersKeep DEF SamePart
<1>2. /\ B \in SUBSET Threads /\ BB \in SUBSET Threads
      /\ \A u \in Threads : (u \in B <=> Blocked(u)) /\ (u \in BB <=> Blocked(u)')
  BY DEF BlockedSet
<1>3. /\ W \in SUBSET Threads /\ WW \in SUBSET Threads
      /\ \A u \in Threads : (u \in W <=> Waiting(u)) /\ (u \in WW <=> Waiting(u)')
  BY DEF WaitingSet
<1> HIDE DEF B, BB, W, WW
<1>4. /\ \A u \in Threads \ {t} : u \in B <=> u \in BB
      /\ \A u \in Threads \ {t} : u \in W <=> u \in WW
  BY <1>1, <1>2, <1>3
<1>5. /\ Cardinality(B) \in Nat
      /\ (t \in B <=> t \in BB) => Cardinality(BB) = Cardinality(B)
      /\ t \notin B /\ t \in BB => Cardinality(BB) = Cardinality(B) + 1
      /\ t \in B /\ t \notin BB => Cardinality(BB) = Cardinality(B) - 1
  BY <1>2, <1>4, OneMoves
<1>6. /\ Cardinality(W) \in Nat
      /\ (t \in W <=> t \in WW) => Cardinality(WW) = Cardinality(W)
      /\ t \notin W /\ t \in WW => Cardinality(WW) = Cardinality(W) + 1
      /\ t \in W /\ t \notin WW => Cardinality(WW) = Cardinality(W) - 1
  BY <1>3, <1>4, OneMoves
<1>7. Cardinality(BlockedSet)' = Cardinality(BB) /\ Cardinality(WaitingSet)' = Cardinality(WW)
  BY DEF BB, WW
<1>8. Cardinality(BlockedSet) = Cardinality(B) /\ Cardinality(WaitingSet) = Cardinality(W)
  BY DEF B, W
<1>9. QED
  BY <1>2, <1>3, <1>5, <1>6, <1>7, <1>8

\* A step that leaves the lock alone keeps what is said about it.
LEMMA QuietKeeps ==
  ASSUME IInv, NEW t \in Threads, Quiet(t), interrupted' \in [Threads -> BOOLEAN],
         suspendCount_' \in [Threads -> Int], UNCHANGED gcVars,
         hashes' \in SUBSET Hashes, \A h \in hashes' : h \in hashes \/ h = CurHash
  PROVE  Core'
<1>1. Local(t) /\ Others(t) /\ LevelFits(t)' /\ SamePart(t) /\ InUse(t)' /\ UNCHANGED lockVars
  BY DEF Quiet, Local
<1>2. Control' /\ Levels'
  BY <1>1, LocalKeeps DEF IInv
<1>3. mark' = mark /\ monitors' = monitors /\ monitorCount_' = monitorCount_
  BY <1>1 DEF lockVars
<1>4. Types'
  BY <1>1, <1>3 DEF IInv, Types, Local, LocalTypes, gcVars
<1>5. \A u \in Threads : SamePart(u)
  BY <1>1, OthersKeep
<1>6. CurOwner' = CurOwner /\ CurLock' = CurLock /\ CurCount' = CurCount /\ CurHash' = CurHash
  BY <1>3 DEF CurOwner, CurLock, CurCount, CurHash, Current
<1>7. Lock'
  BY <1>5, <1>6 DEF IInv, Lock, SamePart
<1>8. ASSUME NEW u \in Threads, pc'[u] = "publish"
      PROVE  pc[u] = "publish" /\ mon'[u] = mon[u] /\ target'[u] = target[u] /\ seen'[u] = seen[u]
  <2>1. pc[u] = "publish"
    BY <1>5, <1>8 DEF SamePart
  <2>2. CASE u = t
    BY <2>1, <2>2 DEF Quiet, Untouched
  <2>3. CASE u # t
    BY <1>1, <2>1, <2>3, OthersKeep
  <2>4. QED
    BY <2>1, <2>2, <2>3
<1>9. Memory'
  <2>1. ASSUME NEW u \in Threads PROVE InUse(u)' /\ New(u)'
    <3>1. New(u)'
      BY <1>3, <1>8 DEF IInv, Memory, New
    <3>2. CASE u # t
      BY <1>1, <1>3, <3>1, <3>2, OthersKeep DEF IInv, Memory, InUse
    <3>3. QED
      BY <1>1, <3>1, <3>2
  <2>2. \A a \in Threads, b \in Threads :
          pc'[a] = "publish" /\ pc'[b] = "publish" /\ mon'[a] = mon'[b] => a = b
    BY <1>8 DEF IInv, Memory
  <2>3. ASSUME NEW i \in Ids
        PROVE  monitors'[i].live <=>
                 mark' = Heavy(i) \/ \E u \in Threads : pc'[u] = "publish" /\ mon'[u] = i
    <3>1. \A u \in Threads : pc[u] = "publish" => pc'[u] = "publish"
      BY <1>5 DEF SamePart
    <3>2. monitors[i].live <=> mark = Heavy(i) \/ \E u \in Threads : pc[u] = "publish" /\ mon[u] = i
      BY DEF IInv, Memory
    <3>3. QED
      BY <1>3, <1>8, <3>1, <3>2
  <2>4. QED
    BY <2>1, <2>2, <2>3 DEF Memory
<1>10. Counted'
  BY <1>1, <1>3, <1>5, PartsCounted DEF IInv, Counted, Current, SamePart
<1>11. Tally'
  BY <1>3 DEF IInv, Tally, HeavyOwner, Current
<1>12. Hash'
  BY <1>6 DEF IInv, Hash
<1>13. Lists'
  <2>1. SUFFICES ASSUME mark.state = "heavy" PROVE Lists'
    BY <1>3 DEF Lists
  <2>2. Linked(Current)' /\ (\A u \in Threads : ListedIn(Current, u)' <=> ListedIn(Current, u))
    BY <1>3, <2>1 DEF IInv, Lists, Current, Linked, ListedIn
  <2>3. ASSUME NEW u \in Threads, Drowsy(u)'
        PROVE  ListedIn(Current, u) \/ \E v \in Threads : pc'[v] = "signal" /\ target'[v] = u
    <3>1. CASE ListedIn(Current, u)
      BY <3>1
    <3>2. CASE \E v \in Threads : pc[v] = "signal" /\ target[v] = u
      <4>1. PICK v \in Threads : pc[v] = "signal" /\ target[v] = u
        BY <3>2
      <4>2. CASE v # t
        BY <1>1, <4>1, <4>2, OthersKeep
      <4>3. CASE v = t
        BY <2>3, <4>1, <4>3 DEF Quiet, Untouched, Drowsy
      <4>4. QED
        BY <4>2, <4>3
    <3>3. Drowsy(u)
      BY <1>5, <2>3 DEF SamePart
    <3>4. QED
      BY <2>1, <3>1, <3>2, <3>3 DEF IInv, Lists
  <2>4. \A u \in Threads : ListedIn(Current, u) => Waiting(u)'
    BY <1>5, <2>1 DEF IInv, Lists, SamePart
  <2>5. QED
    BY <2>2, <2>3, <2>4 DEF Lists
<1>14. QED
  BY <1>2, <1>4, <1>7, <1>9, <1>10, <1>11, <1>12, <1>13 DEF Core

-----------------------------------------------------------------------------
(* Steps on the mark word.                                                 *)

LEMMA SwapKeeps ==
  ASSUME IInv, NEW t \in Threads, Local(t), LevelFits(t)', mark' \in Marks,
         mark.state # "heavy", mark'.state # "heavy",
         UNCHANGED <<monitors, interrupted, monitorCount_, suspendCount_, gcVars, hashes>>,
         pc[t] # "publish", pc'[t] \notin InMonitor \cup {"publish"}, Lock', Hash'
  PROVE  Core'
<1>1. Others(t) /\ LocalTypes'
  BY DEF Local
<1>2. Control' /\ Levels'
  BY LocalKeeps DEF IInv
<1>3. Types'
  BY <1>1 DEF IInv, Types, LocalTypes, gcVars
<1>4. \A i : mark # Heavy(i) /\ mark' # Heavy(i)
  BY MarkMade
<1>5. ASSUME NEW u \in Threads, u # t
      PROVE  /\ pc'[u] = "publish" <=> pc[u] = "publish"
             /\ pc'[u] \in InMonitor <=> pc[u] \in InMonitor
             /\ mon'[u] = mon[u] /\ target'[u] = target[u] /\ seen'[u] = seen[u]
  BY <1>1, <1>5, OthersKeep DEF SamePart
<1>6. Memory'
  <2>1. ASSUME NEW u \in Threads PROVE InUse(u)' /\ New(u)'
    <3>1. CASE u = t
      BY <3>1 DEF InUse, New
    <3>2. CASE u # t
      BY <1>4, <1>5, <3>2 DEF IInv, Memory, InUse, New
    <3>3. QED
      BY <3>1, <3>2
  <2>2. \A a \in Threads, b \in Threads :
          pc'[a] = "publish" /\ pc'[b] = "publish" /\ mon'[a] = mon'[b] => a = b
    BY <1>5 DEF IInv, Memory
  <2>3. ASSUME NEW i \in Ids
        PROVE  monitors'[i].live <=>
                 mark' = Heavy(i) \/ \E u \in Threads : pc'[u] = "publish" /\ mon'[u] = i
    <3>1. monitors[i].live <=> \E u \in Threads : pc[u] = "publish" /\ mon[u] = i
      BY <1>4 DEF IInv, Memory
    <3>2. QED
      BY <1>4, <1>5, <3>1
  <2>4. QED
    BY <2>1, <2>2, <2>3 DEF Memory
<1>7. Tally'
  <2>1. HeavyOwner = None /\ HeavyOwner' = None
    BY DEF HeavyOwner
  <2>2. QED
    BY <2>1 DEF IInv, Tally
<1>8. Counted' /\ Lists'
  BY DEF Counted, Lists
<1>9. QED
  BY <1>2, <1>3, <1>6, <1>7, <1>8 DEF Core

\* Without a hash in the mark word or a Monitor none was returned yet.
LEMMA NoHashYet ==
  ASSUME Types, Hash, mark.state \in {"unlocked", "light"}
  PROVE  hashes = {}
BY MonitorAssumption DEF Types, Hash, CurHash

LEMMA EnterSwaps ==
  ASSUME IInv, NEW t \in Threads, EnterCAS(t), mark = seen[t]
  PROVE  Core'
<1>1. Known(t) /\ pc[t] = "cas" /\ op[t] \in Enters
  BY Knowledge DEF EnterCAS, At, Known, Fits, OpFits
<1>2. mark = Unlocked \/ (LightLockedBy(mark, t) /\ mark.count + 1 < LightMax)
  BY <1>1 DEF Known, Fits, SeenFits
<1>3. /\ mark.state \in {"unlocked", "light"} /\ mark.state # "heavy"
      /\ mark.state = "light" => mark.tid = t /\ mark.count \in 1 .. LightMax - 1
  BY <1>1, <1>2, MarkMade, MarkCases DEF LightLockedBy, Known
<1> DEFINE n == IF mark.state = "light" THEN mark.count + 1 ELSE 1
<1>4. mark' = Light(t, n) /\ Entered(t) /\ Return(t)
  BY DEF EnterCAS
<1>5. n \in 1 .. LightMax - 1
  BY <1>1, <1>2, <1>3, MonitorAssumption, MarkMade
<1>6. mark' \in Marks /\ mark'.state = "light" /\ mark'.tid = t /\ mark'.count = n
  BY <1>4, <1>5, MarkMade
<1>7. held' \in [Threads -> Int] /\ held'[t] = held[t] + 1 /\ held[t] \in 0 .. MaxDepth - 1
  BY <1>1, <1>4, MonitorAssumption DEF Known, LocalTypes, Entered, LevelFits
<1>8. \A u \in Threads \ {t} : held'[u] = held[u]
  BY <1>1, <1>4 DEF Known, LocalTypes, Entered
<1>9. UNCHANGED <<monitors, waitingMonitor_, interrupted, monitorCount_, suspendCount_, gcVars,
                  hashes>>
  BY DEF EnterCAS
<1>10. Local(t) /\ Others(t) /\ Becomes(t, "managed", "none", Unlocked, None, None, 0)
  BY <1>1, <1>4, <1>7, <1>8, <1>9, ReturnMakes DEF Known, Becomes, Local
<1>11. LevelFits(t)'
  BY <1>7, <1>10, MonitorAssumption
     DEF Becomes, LevelFits, Waiting, InWait, InMonitor, Enters, Waits
<1>12. held[t] = IF mark.state = "light" THEN mark.count ELSE 0
  <2>1. ~Gone(t) /\ ~Taken(t) /\ pc[t] # "unblock" /\ Level(t) = held[t]
    BY <1>1 DEF Gone, Taken, InWait, Enters, Level, Waiting, InMonitor
  <2>2. CASE mark.state = "light"
    BY <1>3, <2>1, <2>2, LightIsHeld DEF IInv, LightLockedBy
  <2>3. CASE mark.state # "light"
    BY <1>3, <1>7, <2>1, <2>3, MonitorAssumption DEF IInv, Lock, Owns, CurOwner
  <2>4. QED
    BY <2>2, <2>3
<1>13. Owns(t)' /\ ~Taken(t)' /\ Level(t)' = n
  BY <1>3, <1>7, <1>10, <1>12
     DEF Becomes, Owns, Taken, Gone, InWait, Level, Waiting, InMonitor
<1>14. CurOwner' = t /\ CurLock' = t /\ CurCount' = n
  BY <1>6 DEF CurOwner, CurLock, CurCount
<1>15. CurOwner \in {t, None} /\ CurLock \in {t, None}
  BY <1>3 DEF CurOwner, CurLock
<1>16. t # None /\ None \notin Threads
  BY MonitorAssumption
<1>17. Lock'
  BY <1>10, <1>13, <1>14, <1>15, <1>16, LockStep DEF IInv
<1>18. Hash'
  BY <1>3, <1>9, NoHashYet DEF IInv, Hash
<1>19. pc'[t] \notin InMonitor \cup {"publish"} /\ mark'.state # "heavy"
  BY <1>6, <1>10 DEF Becomes, InMonitor
<1>20. QED
  BY <1>1, <1>3, <1>6, <1>9, <1>10, <1>11, <1>17, <1>18, <1>19, SwapKeeps

LEMMA ExitSwaps ==
  ASSUME IInv, NEW t \in Threads, ExitCAS(t), mark = seen[t]
  PROVE  Core'
<1>1. Known(t) /\ pc[t] = "exitcas" /\ op[t] = "exit"
  BY Knowledge DEF ExitCAS, At, Known, Fits, OpFits
<1>2. LightLockedBy(mark, t)
  BY <1>1 DEF Known, Fits, SeenFits
<1>3. mark.state = "light" /\ mark.tid = t /\ mark.count \in 1 .. LightMax - 1
  BY <1>1, <1>2, MarkCases DEF LightLockedBy, Known
<1>4. mark' = (IF mark.count = 1 THEN Unlocked ELSE Light(t, mark.count - 1))
      /\ Exited(t) /\ Return(t)
  BY DEF ExitCAS
<1>5. /\ mark' \in Marks /\ mark'.state \in {"unlocked", "light"}
      /\ mark.count = 1 => mark'.state = "unlocked"
      /\ mark.count # 1 =>
           mark'.state = "light" /\ mark'.tid = t /\ mark'.count = mark.count - 1
  <2>1. mark.count # 1 => mark.count - 1 \in 1 .. LightMax - 1
    BY <1>3, MonitorAssumption
  <2>2. QED
    BY <1>3, <1>4, <2>1, MarkMade
<1>6. Owns(t) /\ held[t] = mark.count
  BY <1>1, <1>2, LightIsHeld DEF IInv, Level, Waiting, InMonitor
<1>7. held' \in [Threads -> Int] /\ held'[t] = held[t] - 1 /\ held[t] \in 1 .. MaxDepth
  BY <1>1, <1>3, <1>4, <1>6 DEF Known, LocalTypes, Exited, LevelFits
<1>8. \A u \in Threads \ {t} : held'[u] = held[u]
  BY <1>1, <1>4 DEF Known, LocalTypes, Exited
<1>9. UNCHANGED <<monitors, waitingMonitor_, interrupted, monitorCount_, suspendCount_, gcVars,
                  hashes>>
  BY DEF ExitCAS
<1>10. Local(t) /\ Others(t) /\ Becomes(t, "managed", "none", Unlocked, None, None, 0)
  BY <1>1, <1>4, <1>7, <1>8, <1>9, ReturnMakes DEF Known, Becomes, Local
<1>11. LevelFits(t)'
  BY <1>7, <1>10, MonitorAssumption
     DEF Becomes, LevelFits, Waiting, InWait, InMonitor, Enters, Waits
<1>12. (Owns(t)' <=> held'[t] > 0) /\ ~Taken(t)' /\ Level(t)' = held'[t]
  BY <1>10 DEF Becomes, Owns, Taken, Gone, InWait, Level, Waiting, InMonitor
<1>13. t # None /\ None \notin Threads
  BY MonitorAssumption
<1>14. CurOwner = t /\ CurLock = t
  BY <1>3 DEF CurOwner, CurLock
<1>15. CASE mark.count = 1
  <2>1. CurOwner' = None /\ CurLock' = None /\ CurCount' = 0
    BY <1>5, <1>15 DEF CurOwner, CurLock, CurCount
  <2>2. ~Owns(t)'
    BY <1>6, <1>7, <1>12, <1>15
  <2>3. QED
    <3>1. Lock'
      BY <1>10, <1>12, <1>13, <1>14, <2>1, <2>2, LockStep DEF IInv
    <3>2. Hash'
      BY <1>3, <1>9, NoHashYet DEF IInv, Hash
    <3>3. pc'[t] \notin InMonitor \cup {"publish"} /\ mark'.state # "heavy"
      BY <1>5, <1>10 DEF Becomes, InMonitor
    <3>4. QED
      BY <1>1, <1>3, <1>5, <1>9, <1>10, <1>11, <3>1, <3>2, <3>3, SwapKeeps
<1>16. CASE mark.count # 1
  <2>1. CurOwner' = t /\ CurLock' = t /\ CurCount' = mark.count - 1
    BY <1>5, <1>16 DEF CurOwner, CurLock, CurCount
  <2>2. Owns(t)' /\ Level(t)' = mark.count - 1
    BY <1>3, <1>6, <1>7, <1>12, <1>16
  <2>3. QED
    <3>1. Lock'
      BY <1>10, <1>12, <1>13, <1>14, <2>1, <2>2, LockStep DEF IInv
    <3>2. Hash'
      BY <1>3, <1>9, NoHashYet DEF IInv, Hash
    <3>3. pc'[t] \notin InMonitor \cup {"publish"} /\ mark'.state # "heavy"
      BY <1>5, <1>10 DEF Becomes, InMonitor
    <3>4. QED
      BY <1>1, <1>3, <1>5, <1>9, <1>10, <1>11, <3>1, <3>2, <3>3, SwapKeeps
<1>17. QED
  BY <1>15, <1>16

LEMMA HashSwaps ==
  ASSUME IInv, NEW t \in Threads, HashCAS(t), mark = seen[t]
  PROVE  Core'
<1>1. Known(t) /\ pc[t] = "hashcas" /\ op[t] = "hash"
  BY Knowledge DEF HashCAS, At, Known, Fits, OpFits
<1>2. mark = Unlocked /\ mark.state = "unlocked"
  BY <1>1, MarkMade DEF Known, Fits, SeenFits
<1>3. mark' \in Marks /\ mark'.state = "hashed"
  BY MarkMade DEF HashCAS
<1>4. UNCHANGED <<monitors, held, waitingMonitor_, interrupted, monitorCount_, suspendCount_,
                  gcVars, hashes>> /\ Loop(t)
  BY DEF HashCAS, threadVars
<1>5. Local(t) /\ Others(t) /\ Becomes(t, "hash", "hash", Unlocked, None, None, saved[t])
  BY <1>1, <1>4, LoopMakes DEF Known, Becomes, Local
<1>6. LevelFits(t)'
  BY <1>1, <1>4, <1>5 DEF Becomes, Known, LevelFits, Waiting, InWait, InMonitor, Enters, Waits
<1>7. Lock'
  <2>1. (Owns(t)' <=> Owns(t)) /\ (Taken(t)' <=> Taken(t))
    BY <1>1, <1>4, <1>5 DEF Becomes, Owns, Taken, Gone, InWait
  <2>2. CurOwner = None /\ CurLock = None /\ CurOwner' = None /\ CurLock' = None /\ CurCount' = 0
    BY <1>2, <1>3 DEF CurOwner, CurLock, CurCount
  <2>3. t # None /\ None \notin Threads
    BY MonitorAssumption
  <2>4. ~Owns(t) /\ ~Taken(t)
    BY <2>2, <2>3 DEF IInv, Lock
  <2>5. QED
    BY <1>5, <2>1, <2>2, <2>3, <2>4, LockStep DEF IInv
<1>8. Hash'
  BY <1>2, <1>4, NoHashYet DEF IInv, Hash
<1>9. pc'[t] \notin InMonitor \cup {"publish"} /\ mark'.state # "heavy" /\ mark.state # "heavy"
  BY <1>2, <1>3, <1>5 DEF Becomes, InMonitor
<1>10. QED
  BY <1>1, <1>3, <1>4, <1>5, <1>6, <1>7, <1>8, <1>9, SwapKeeps

-----------------------------------------------------------------------------
(* Steps on the Monitor of the object.                                     *)

Work(t) ==
  /\ Local(t) /\ LevelFits(t)' /\ InUse(t)'
  /\ pc[t] # "publish" /\ pc'[t] # "publish" /\ pc[t] # "signal"
  /\ mark' = mark /\ mark.state = "heavy" /\ Current' \in MonitorRec
  /\ monitors' \in [Ids -> MonitorRec \cup {Free}]
  /\ \A i \in Ids \ {mark.id} : monitors'[i] = monitors[i]
  /\ monitorCount_' \in [Threads -> Int]
  /\ UNCHANGED <<interrupted, suspendCount_, gcVars>>

SameHash == Current'.hashCode_ = Current.hashCode_ /\ UNCHANGED hashes
SameLists(t) ==
  /\ Current'.waiters_ = Current.waiters_ /\ Current'.toWakeup_ = Current.toWakeup_
  /\ (Waiting(t)' <=> Waiting(t)) /\ (Drowsy(t)' => Drowsy(t))
SameOwner == Current'.owner_ = Current.owner_ /\ UNCHANGED monitorCount_

LEMMA WorkKeeps ==
  ASSUME IInv, NEW t \in Threads, Work(t), hashes' \in SUBSET Hashes
  PROVE  Types' /\ Control' /\ Levels' /\ Memory'
<1>1. /\ Local(t) /\ LocalTypes' /\ Others(t) /\ LevelFits(t)' /\ mark' = mark
      /\ mark.id \in Ids /\ mark = Heavy(mark.id) /\ InUse(t)'
  BY CurrentLive DEF Work, Local, IInv
<1>2. Control' /\ Levels'
  BY <1>1, LocalKeeps DEF IInv
<1>3. Types'
  BY <1>1 DEF IInv, Types, LocalTypes, gcVars, Work
<1>4. ASSUME NEW u \in Threads, u # t
      PROVE  /\ pc'[u] = "publish" <=> pc[u] = "publish"
             /\ pc'[u] \in InMonitor <=> pc[u] \in InMonitor
             /\ mon'[u] = mon[u] /\ target'[u] = target[u] /\ seen'[u] = seen[u]
  BY <1>1, <1>4, OthersKeep DEF SamePart
<1>5. pc[t] # "publish" /\ pc'[t] # "publish"
  BY DEF Work
<1>6. ASSUME NEW u \in Threads PROVE InUse(u)' /\ New(u)'
  <2>1. CASE u = t
    BY <1>1, <1>5, <2>1 DEF New
  <2>2. CASE u # t
    <3>1. InUse(u)'
      BY <1>1, <1>4, <2>2 DEF IInv, Memory, InUse
    <3>2. SUFFICES ASSUME pc[u] = "publish" PROVE New(u)'
      BY <1>4, <2>2, <3>1 DEF New
    <3>3. /\ mark # Heavy(mon[u]) /\ mon[u] \in Ids
          /\ monitors[mon[u]] =
               Created(target[u], IF seen[u].state = "light" THEN seen[u].count ELSE 1,
                       IF seen[u].state = "hashed" THEN seen[u].hash ELSE None)
      BY <3>2 DEF IInv, Memory, New, Control, Fits, Types
    <3>4. monitors'[mon[u]] = monitors[mon[u]]
      BY <1>1, <3>3 DEF Work
    <3>5. QED
      BY <1>1, <1>4, <2>2, <3>3, <3>4 DEF New
  <2>3. QED
    BY <2>1, <2>2
<1>7. \A a \in Threads, b \in Threads :
        pc'[a] = "publish" /\ pc'[b] = "publish" /\ mon'[a] = mon'[b] => a = b
  BY <1>4, <1>5 DEF IInv, Memory
<1>8. ASSUME NEW i \in Ids
      PROVE  monitors'[i].live <=>
               mark' = Heavy(i) \/ \E u \in Threads : pc'[u] = "publish" /\ mon'[u] = i
  <2>1. monitors[i].live <=> mark = Heavy(i) \/ \E u \in Threads : pc[u] = "publish" /\ mon[u] = i
    BY DEF IInv, Memory
  <2>2. monitors'[mark.id].live
    BY <1>1, MonitorFields DEF Work, Current
  <2>3. CASE i = mark.id
    BY <1>1, <2>2, <2>3
  <2>4. CASE i # mark.id
    <3>1. monitors'[i] = monitors[i]
      BY <2>4 DEF Work
    <3>2. QED
      BY <1>1, <1>4, <1>5, <2>1, <3>1
  <2>5. QED
    BY <2>3, <2>4
<1>9. Memory'
  BY <1>6, <1>7, <1>8 DEF Memory
<1>10. QED
  BY <1>2, <1>3, <1>9

LEMMA HashKept ==
  ASSUME IInv, NEW t \in Threads, Work(t), SameHash
  PROVE  Hash' /\ hashes' \in SUBSET Hashes
<1>1. CurHash' = CurHash
  BY DEF CurHash, Work, SameHash
<1>2. QED
  BY <1>1 DEF IInv, Hash, SameHash, Types

LEMMA ListsKept ==
  ASSUME IInv, NEW t \in Threads, Work(t), SameLists(t)
  PROVE  Lists'
<1>1. Others(t) /\ mark' = mark /\ mark.state = "heavy" /\ pc[t] # "signal"
  BY DEF Work, Local
<1>2. \A u \in Threads : (Waiting(u)' <=> Waiting(u)) /\ (Drowsy(u)' => Drowsy(u))
  BY <1>1, OthersKeep DEF SameLists, SamePart
<1>3. Linked(Current)' /\ (\A u \in Threads : ListedIn(Current, u)' <=> ListedIn(Current, u))
  BY <1>1 DEF IInv, Lists, Linked, ListedIn, SameLists
<1>4. \A v \in Threads : pc[v] = "signal" => pc'[v] = "signal" /\ target'[v] = target[v]
  BY <1>1, OthersKeep
<1>5. \A u \in Threads :
        /\ ListedIn(Current, u) => Waiting(u)
        /\ Drowsy(u) => ListedIn(Current, u)
                          \/ \E v \in Threads : pc[v] = "signal" /\ target[v] = u
  BY <1>1 DEF IInv, Lists
<1>6. QED
  BY <1>2, <1>3, <1>4, <1>5 DEF Lists

LEMMA TallyKept ==
  ASSUME IInv, NEW t \in Threads, Work(t), SameOwner
  PROVE  Tally'
BY DEF IInv, Tally, HeavyOwner, Work, SameOwner

\* The lock while a Monitor holds it.
LEMMA HeavyLock ==
  ASSUME mark.state = "heavy"
  PROVE  CurOwner = Current.owner_ /\ CurLock = Current.lock_
         /\ CurCount = Current.recursiveCounter_ /\ CurHash = Current.hashCode_
         /\ HeavyOwner = Current.owner_
BY DEF CurOwner, CurLock, CurCount, CurHash, HeavyOwner

LEMMA WorkOnLock ==
  ASSUME IInv, NEW t \in Threads, Work(t),
         Owns(t)' <=> Current'.owner_ = t,
         Owns(t)' \/ Taken(t)' <=> Current'.lock_ = t,
         Current'.owner_ = t => Current'.recursiveCounter_ = Level(t)',
         \A u \in Threads \ {t} :
           /\ Current'.owner_ = u <=> Current.owner_ = u
           /\ Current'.lock_ = u <=> Current.lock_ = u
           /\ Current.owner_ = u => Current'.recursiveCounter_ = Current.recursiveCounter_,
         Current'.owner_ = None => Current'.recursiveCounter_ = 0
  PROVE  Lock'
<1>1. mark.state = "heavy" /\ mark' = mark /\ Others(t)
  BY DEF Work, Local
<1>2. CurOwner = Current.owner_ /\ CurLock = Current.lock_ /\ CurCount = Current.recursiveCounter_
  BY <1>1, HeavyLock
<1>3. /\ CurOwner' = Current'.owner_ /\ CurLock' = Current'.lock_
      /\ CurCount' = Current'.recursiveCounter_
  BY <1>1 DEF CurOwner, CurLock, CurCount
<1>4. QED
  BY <1>1, <1>2, <1>3, LockStep DEF IInv

LEMMA WorkCounts ==
  ASSUME IInv, NEW t \in Threads, Work(t)
  PROVE  /\ (Blocked(t)' <=> Blocked(t)) /\ (Waiting(t)' <=> Waiting(t))
              /\ Current'.waitersCounter_ = Current.waitersCounter_ => Counted'
         /\ ~Blocked(t) /\ Blocked(t)' /\ (Waiting(t)' <=> Waiting(t))
              /\ Current'.waitersCounter_ = Current.waitersCounter_ + 1 => Counted'
         /\ Blocked(t) /\ ~Blocked(t)' /\ (Waiting(t)' <=> Waiting(t))
              /\ Current'.waitersCounter_ = Current.waitersCounter_ - 1 => Counted'
         /\ (Blocked(t)' <=> Blocked(t)) /\ ~Waiting(t) /\ Waiting(t)'
              /\ Current'.waitersCounter_ = Current.waitersCounter_ + 1 => Counted'
         /\ (Blocked(t)' <=> Blocked(t)) /\ Waiting(t) /\ ~Waiting(t)'
              /\ Current'.waitersCounter_ = Current.waitersCounter_ - 1 => Counted'
<1>1. Others(t) /\ mark' = mark /\ mark.state = "heavy"
  BY DEF Work, Local
<1>2. Current.waitersCounter_ = Cardinality(BlockedSet) + Cardinality(WaitingSet)
  BY <1>1 DEF IInv, Counted
<1>3. Counted' <=>
        Current'.waitersCounter_ = Cardinality(BlockedSet)' + Cardinality(WaitingSet)'
  BY <1>1 DEF Counted
<1>4. QED
  BY <1>1, <1>2, <1>3, PartsCounted

Fields(m, o, l, n, c) ==
  /\ m \in MonitorRec /\ m.owner_ = o /\ m.lock_ = l /\ m.recursiveCounter_ = n
  /\ m.waitersCounter_ = c

LEMMA Worked ==
  ASSUME Types, Memory, mark.state = "heavy", NEW m \in MonitorRec,
         monitors' = [monitors EXCEPT ![mark.id] = m], mark' = mark
  PROVE  /\ Current' = m /\ Current' \in MonitorRec
         /\ monitors' \in [Ids -> MonitorRec \cup {Free}]
         /\ \A i \in Ids \ {mark.id} : monitors'[i] = monitors[i]
<1>1. mark.id \in Ids
  BY CurrentLive
<1>2. QED
  BY <1>1 DEF Types, Current

LEMMA LockFacts ==
  ASSUME IInv, NEW t \in Threads, mark.state = "heavy"
  PROVE  /\ Owns(t) <=> Current.owner_ = t
         /\ Owns(t) \/ Taken(t) <=> Current.lock_ = t
         /\ Owns(t) => Current.recursiveCounter_ = Level(t)
         /\ Current.owner_ = None => Current.recursiveCounter_ = 0
         /\ Current.owner_ # None => Current.lock_ = Current.owner_
         /\ Current.lock_ = None => Current.owner_ = None
         /\ Taken(t) => Current.owner_ = None /\ Current.lock_ = t
<1>1. CurOwner = Current.owner_ /\ CurLock = Current.lock_ /\ CurCount = Current.recursiveCounter_
  BY HeavyLock
<1>2. Current.owner_ \in Threads \cup {None} /\ None \notin Threads
  BY CurrentLive, MonitorFields, MonitorAssumption DEF IInv
<1>3. ASSUME NEW u \in Threads
      PROVE  /\ Owns(u) <=> Current.owner_ = u
             /\ Owns(u) \/ Taken(u) <=> Current.lock_ = u
             /\ Owns(u) => Current.recursiveCounter_ = Level(u)
             /\ Current.owner_ = None => Current.recursiveCounter_ = 0
  BY <1>1 DEF IInv, Lock
<1>4. Current.owner_ # None => Current.lock_ = Current.owner_
  BY <1>2, <1>3
<1>5. Taken(t) => ~Owns(t)
  BY DEF Owns
<1>6. Taken(t) => Current.owner_ = None
  <2>1. SUFFICES ASSUME Taken(t), Current.owner_ # None PROVE FALSE
    OBVIOUS
  <2>2. Current.owner_ \in Threads /\ Current.lock_ = t
    BY <1>2, <1>3, <2>1
  <2>3. Current.owner_ = t
    BY <1>4, <2>1, <2>2
  <2>4. QED
    BY <1>3, <1>5, <2>1, <2>3
<1>7. QED
  BY <1>2, <1>3, <1>4, <1>6

LEMMA AcquiredMakes ==
  ASSUME LocalTypes, NEW t \in Threads, Acquired(t), UNCHANGED waitingMonitor_, Fits(t),
         pc[t] \in InMonitor
  PROVE  /\ Local(t) /\ LocalTypes' /\ Others(t)
         /\ InWait(t) => /\ Becomes(t, "waitdone", op[t], seen[t], mon[t], target[t], saved[t])
                         /\ held'[t] = held[t]
         /\ ~InWait(t) => /\ Becomes(t, "managed", "none", Unlocked, None, None, 0)
                          /\ held'[t] = held[t] + 1
<1>1. CASE InWait(t)
  <2>1. Goto(t, "waitdone") /\ UNCHANGED <<held, op, seen, mon, target, saved>>
    BY <1>1 DEF Acquired
  <2>2. LocalTypes' /\ Others(t)
    BY <2>1 DEF LocalTypes, Goto, Labels, Others, Untouched
  <2>3. Becomes(t, "waitdone", op[t], seen[t], mon[t], target[t], saved[t]) /\ held'[t] = held[t]
    BY <2>1 DEF LocalTypes, Goto, Becomes
  <2>4. Fits(t)'
    BY <1>1, <2>3
       DEF Becomes, Fits, OpFits, SeenFits, TargetFits, InMonitor, InWait, Waits
  <2>5. QED
    BY <1>1, <2>2, <2>3, <2>4 DEF Local
<1>2. CASE ~InWait(t)
  <2>1. Entered(t) /\ Return(t)
    BY <1>2 DEF Acquired
  <2>2. /\ held' \in [Threads -> Int] /\ held'[t] = held[t] + 1
        /\ \A u \in Threads \ {t} : held'[u] = held[u]
    BY <2>1 DEF LocalTypes, Entered
  <2>3. QED
    BY <1>2, <2>1, <2>2, ReturnMakes DEF Becomes, Local
<1>3. QED
  BY <1>1, <1>2

LEMMA GotoMakes ==
  ASSUME LocalTypes, NEW t \in Threads, NEW l \in Labels, Goto(t, l),
         UNCHANGED <<op, seen, mon, target, saved, held, waitingMonitor_>>
  PROVE  /\ LocalTypes' /\ Others(t)
         /\ Becomes(t, l, op[t], seen[t], mon[t], target[t], saved[t]) /\ held'[t] = held[t]
<1>1. pc' = [pc EXCEPT ![t] = l]
  BY DEF Goto
<1>2. LocalTypes'
  BY <1>1 DEF LocalTypes
<1>3. QED
  BY <1>1, <1>2 DEF LocalTypes, Others, Untouched, Becomes

LEMMA TallyMoved ==
  ASSUME IInv, NEW t \in Threads, Work(t),
         \/ Current.owner_ = None /\ Current'.owner_ = t /\ AddMonitor(t)
         \/ Current.owner_ = t /\ Current'.owner_ = None /\ RemoveMonitor(t)
  PROVE  Tally'
<1>1. HeavyOwner = Current.owner_ /\ HeavyOwner' = Current'.owner_ /\ None \notin Threads
  BY MonitorAssumption DEF HeavyOwner, Work
<1>2. /\ monitorCount_ \in [Threads -> Int]
      /\ \A u \in Threads : monitorCount_[u] = IF HeavyOwner = u THEN 1 ELSE 0
  BY DEF IInv, Types, Tally
<1>3. ASSUME NEW u \in Threads PROVE monitorCount_'[u] = IF HeavyOwner' = u THEN 1 ELSE 0
  <2>1. CASE Current.owner_ = None /\ Current'.owner_ = t /\ AddMonitor(t)
    BY <1>1, <1>2, <2>1 DEF AddMonitor
  <2>2. CASE Current.owner_ = t /\ Current'.owner_ = None /\ RemoveMonitor(t)
    BY <1>1, <1>2, <2>2 DEF RemoveMonitor
  <2>3. QED
    BY <2>1, <2>2
<1>4. QED
  BY <1>3 DEF Tally

LEMMA StepAcquireRecursive ==
  ASSUME IInv, NEW t \in Threads, AcquireRecursive(t)
  PROVE  Core'
<1>1. Known(t) /\ pc[t] = "acquire" /\ pc[t] \in InMonitor /\ op[t] \in Enters \cup Waits
  BY Knowledge DEF AcquireRecursive, Jump, At, Known, Fits, OpFits, InMonitor
<1>2. /\ mark.id = mon[t] /\ mark.state = "heavy" /\ mark.id \in Ids
      /\ Current = monitors[mon[t]] /\ Current \in MonitorRec
  BY <1>1, MonitorInUse DEF IInv
<1>3. PICK r \in MonitorRec : r = Current
  BY <1>2
<1>4. PICK m : m = [r EXCEPT !.recursiveCounter_ = @ + 1]
  OBVIOUS
<1>5. /\ Fields(m, r.owner_, r.lock_, r.recursiveCounter_ + 1, r.waitersCounter_)
      /\ m.hashCode_ = r.hashCode_ /\ m.waiters_ = r.waiters_ /\ m.toWakeup_ = r.toWakeup_
  <2>1. r.recursiveCounter_ + 1 \in Int
    BY <1>3 DEF MonitorRec
  <2>2. m \in MonitorRec
    BY <1>3, <1>4, <2>1 DEF MonitorRec
  <2>3. QED
    BY <1>3, <1>4, <2>2 DEF Fields, MonitorRec
<1>6. /\ monitors' = [monitors EXCEPT ![mark.id] = m] /\ mark' = mark
      /\ UNCHANGED <<waitingMonitor_, interrupted, monitorCount_, suspendCount_, gcVars, hashes>>
  BY <1>2, <1>3, <1>4 DEF AcquireRecursive, SetOwner, threadVars, AddMonitor
<1>7. /\ Current' = m /\ Current' \in MonitorRec /\ monitors' \in [Ids -> MonitorRec \cup {Free}]
      /\ \A i \in Ids \ {mark.id} : monitors'[i] = monitors[i]
  BY <1>2, <1>5, <1>6, Worked DEF IInv, Fields
<1>8. r.owner_ = t /\ Owns(t) /\ ~InWait(t) /\ op[t] \in Enters
  BY <1>1, <1>2, <1>3, LockFacts DEF AcquireRecursive, Owns, Gone, InWait, Waits
<1>9. r.recursiveCounter_ = held[t] /\ r.lock_ = t /\ held[t] \in 1 .. MaxDepth - 1
  <2>1. Level(t) = held[t] /\ held[t] > 0
    BY <1>1, <1>8 DEF Level, Waiting, Owns
  <2>2. held[t] \in 0 .. MaxDepth /\ held[t] < MaxDepth
    BY <1>1, <1>8 DEF Known, LevelFits
  <2>3. QED
    BY <1>2, <1>3, <1>8, <2>1, <2>2, LockFacts, MonitorAssumption
<1>10. /\ Local(t) /\ Becomes(t, "managed", "none", Unlocked, None, None, 0)
       /\ held'[t] = held[t] + 1
  BY <1>1, <1>6, <1>8, AcquiredMakes DEF Known, AcquireRecursive
<1>11. LevelFits(t)'
  BY <1>9, <1>10, MonitorAssumption
     DEF Becomes, LevelFits, Waiting, InWait, InMonitor, Enters, Waits
<1>12. Work(t)
  BY <1>1, <1>2, <1>6, <1>7, <1>10, <1>11
     DEF Work, Becomes, InUse, InMonitor, IInv, Types
<1>13. /\ ~Waiting(t) /\ ~Waiting(t)' /\ ~Drowsy(t)' /\ ~Blocked(t) /\ ~Blocked(t)'
       /\ Owns(t)' /\ Level(t)' = held[t] + 1
  BY <1>1, <1>8, <1>9, <1>10
     DEF Becomes, Waiting, Drowsy, Blocked, InWait, Owns, Gone, Taken, Level, InMonitor
<1>14. SameHash /\ SameLists(t) /\ SameOwner
  BY <1>3, <1>5, <1>6, <1>7, <1>13 DEF SameHash, SameLists, SameOwner, Fields
<1>15. Lock'
  <2>1. t # None
    BY MonitorAssumption
  <2>2. QED
    BY <1>3, <1>5, <1>7, <1>8, <1>9, <1>12, <1>13, <2>1, WorkOnLock DEF Fields
<1>16. Counted'
  BY <1>3, <1>5, <1>7, <1>12, <1>13, WorkCounts DEF Fields
<1>17. QED
  BY <1>12, <1>14, <1>15, <1>16, WorkKeeps, HashKept, ListsKept, TallyKept DEF Core

LEMMA StepAcquireTry ==
  ASSUME IInv, NEW t \in Threads, AcquireTry(t)
  PROVE  Core'
<1>1. Known(t) /\ pc[t] = "acquire" /\ pc[t] \in InMonitor /\ op[t] \in Enters \cup Waits
  BY Knowledge DEF AcquireTry, Jump, At, Known, Fits, OpFits, InMonitor
<1>2. /\ mark.id = mon[t] /\ mark.state = "heavy" /\ mark.id \in Ids
      /\ Current = monitors[mon[t]] /\ Current \in MonitorRec
  BY <1>1, MonitorInUse DEF IInv
<1>3. PICK r \in MonitorRec : r = Current
  BY <1>2
<1>4. PICK m : m = [r EXCEPT !.lock_ = t]
  OBVIOUS
<1>5. /\ Fields(m, r.owner_, t, r.recursiveCounter_, r.waitersCounter_)
      /\ m.hashCode_ = r.hashCode_ /\ m.waiters_ = r.waiters_ /\ m.toWakeup_ = r.toWakeup_
  <2>1. t \in Threads \cup {None}
    BY <1>3 DEF MonitorRec
  <2>2. m \in MonitorRec
    BY <1>3, <1>4, <2>1 DEF MonitorRec
  <2>3. QED
    BY <1>3, <1>4, <2>2 DEF Fields, MonitorRec
<1>6. /\ monitors' = [monitors EXCEPT ![mark.id] = m] /\ mark' = mark
      /\ UNCHANGED <<monitorCount_, waitingMonitor_, interrupted, suspendCount_, gcVars, hashes, op, seen, mon,
                     target, saved, held>>
  BY <1>2, <1>3, <1>4 DEF AcquireTry, SetOwner, threadVars, AddMonitor
<1>7. /\ Current' = m /\ Current' \in MonitorRec /\ monitors' \in [Ids -> MonitorRec \cup {Free}]
      /\ \A i \in Ids \ {mark.id} : monitors'[i] = monitors[i]
  BY <1>2, <1>5, <1>6, Worked DEF IInv, Fields
<1>8. "own" \in Labels /\ Goto(t, "own")
  BY DEF AcquireTry, Jump, Labels
<1>9. /\ LocalTypes' /\ Others(t) /\ held'[t] = held[t]
      /\ Becomes(t, "own", op[t], seen[t], mon[t], target[t], saved[t])
  BY <1>1, <1>6, <1>8, GotoMakes DEF Known

<1>10. /\ r.lock_ = None /\ r.owner_ = None /\ r.recursiveCounter_ = 0 /\ t # None /\ ~Owns(t)
       /\ None \notin Threads
  BY <1>2, <1>3, LockFacts, MonitorAssumption DEF AcquireTry
<1>11. held[t] \in 0 .. MaxDepth /\ (op[t] \in Enters => held[t] = 0)
  BY <1>1, <1>10, MonitorAssumption
     DEF Known, LevelFits, Owns, Gone, Taken, InWait, Enters
<1>12. Work(t)
  <2>1. Fits(t)' /\ InUse(t)'
    BY <1>1, <1>2, <1>6, <1>9
       DEF Known, Becomes, Fits, OpFits, SeenFits, TargetFits, InMonitor, InUse, Enters, Waits
  <2>2. LevelFits(t)'
    BY <1>1, <1>6, <1>9, <1>11
       DEF Becomes, Known, LevelFits, Waiting, InWait, InMonitor, Enters, Waits
  <2>3. QED
    BY <1>1, <1>2, <1>6, <1>7, <1>9, <2>1, <2>2 DEF Work, Local, Becomes, IInv, Types
<1>13. /\ (Waiting(t)' <=> Waiting(t)) /\ ~Drowsy(t)' /\ ~Blocked(t) /\ ~Blocked(t)'
       /\ ~Owns(t)' /\ Taken(t)'
  BY <1>1, <1>9 DEF Becomes, Waiting, Drowsy, Blocked, InWait, Owns, Taken, InMonitor
<1>14. SameHash /\ SameLists(t) /\ SameOwner
  BY <1>3, <1>5, <1>6, <1>7, <1>13 DEF SameHash, SameLists, SameOwner, Fields
<1>15. Lock'
  BY <1>3, <1>5, <1>7, <1>10, <1>12, <1>13, WorkOnLock DEF Fields
<1>16. Counted'
  BY <1>3, <1>5, <1>7, <1>12, <1>13, WorkCounts DEF Fields

<1>17. QED
  BY <1>12, <1>14, <1>15, <1>16, WorkKeeps, HashKept, ListsKept, TallyKept DEF Core

LEMMA StepAcquireBlock ==
  ASSUME IInv, NEW t \in Threads, AcquireBlock(t)
  PROVE  Core'
<1>1. Known(t) /\ pc[t] = "block" /\ pc[t] \in InMonitor /\ op[t] \in {"enter"} \cup Waits
  BY Knowledge DEF AcquireBlock, Jump, At, Known, Fits, OpFits, InMonitor
<1>2. /\ mark.id = mon[t] /\ mark.state = "heavy" /\ mark.id \in Ids
      /\ Current = monitors[mon[t]] /\ Current \in MonitorRec
  BY <1>1, MonitorInUse DEF IInv
<1>3. PICK r \in MonitorRec : r = Current
  BY <1>2
<1>4. PICK m : m = [r EXCEPT !.lock_ = t]
  OBVIOUS
<1>5. /\ Fields(m, r.owner_, t, r.recursiveCounter_, r.waitersCounter_)
      /\ m.hashCode_ = r.hashCode_ /\ m.waiters_ = r.waiters_ /\ m.toWakeup_ = r.toWakeup_
  <2>1. t \in Threads \cup {None}
    BY <1>3 DEF MonitorRec
  <2>2. m \in MonitorRec
    BY <1>3, <1>4, <2>1 DEF MonitorRec
  <2>3. QED
    BY <1>3, <1>4, <2>2 DEF Fields, MonitorRec
<1>6. /\ monitors' = [monitors EXCEPT ![mark.id] = m] /\ mark' = mark
      /\ UNCHANGED <<monitorCount_, waitingMonitor_, interrupted, suspendCount_, gcVars, hashes, op, seen, mon,
                     target, saved, held>>
  BY <1>2, <1>3, <1>4 DEF AcquireBlock, SetOwner, threadVars, AddMonitor
<1>7. /\ Current' = m /\ Current' \in MonitorRec /\ monitors' \in [Ids -> MonitorRec \cup {Free}]
      /\ \A i \in Ids \ {mark.id} : monitors'[i] = monitors[i]
  BY <1>2, <1>5, <1>6, Worked DEF IInv, Fields
<1>8. "setowner" \in Labels /\ Goto(t, "setowner")
  BY DEF AcquireBlock, Jump, Labels
<1>9. /\ LocalTypes' /\ Others(t) /\ held'[t] = held[t]
      /\ Becomes(t, "setowner", op[t], seen[t], mon[t], target[t], saved[t])
  BY <1>1, <1>6, <1>8, GotoMakes DEF Known

<1>10. /\ r.lock_ = None /\ r.owner_ = None /\ r.recursiveCounter_ = 0 /\ t # None /\ ~Owns(t)
       /\ None \notin Threads
  <2>1. r.lock_ = None
    BY <1>2, <1>3 DEF AcquireBlock
  <2>2. QED
    BY <1>2, <1>3, <2>1, LockFacts, MonitorAssumption
<1>11. held[t] \in 0 .. MaxDepth /\ (op[t] \in Enters => held[t] = 0)
  BY <1>1 DEF Known, LevelFits
<1>12. Work(t)
  <2>1. Fits(t)' /\ InUse(t)'
    BY <1>1, <1>2, <1>6, <1>9
       DEF Known, Becomes, Fits, OpFits, SeenFits, TargetFits, InMonitor, InUse, Enters, Waits
  <2>2. LevelFits(t)'
    BY <1>1, <1>6, <1>9, <1>11
       DEF Becomes, Known, LevelFits, Waiting, InWait, InMonitor, Enters, Waits
  <2>3. QED
    BY <1>1, <1>2, <1>6, <1>7, <1>9, <2>1, <2>2 DEF Work, Local, Becomes, IInv, Types
<1>13. /\ (Waiting(t)' <=> Waiting(t)) /\ ~Drowsy(t)' /\ Blocked(t) /\ Blocked(t)'
       /\ ~Owns(t)' /\ Taken(t)'
  BY <1>1, <1>9 DEF Becomes, Waiting, Drowsy, Blocked, InWait, Owns, Taken, InMonitor
<1>14. SameHash /\ SameLists(t) /\ SameOwner
  BY <1>3, <1>5, <1>6, <1>7, <1>13 DEF SameHash, SameLists, SameOwner, Fields
<1>15. Lock'
  BY <1>3, <1>5, <1>7, <1>10, <1>12, <1>13, WorkOnLock DEF Fields
<1>16. Counted'
  BY <1>3, <1>5, <1>7, <1>12, <1>13, WorkCounts DEF Fields

<1>17. QED
  BY <1>12, <1>14, <1>15, <1>16, WorkKeeps, HashKept, ListsKept, TallyKept DEF Core

LEMMA StepAcquireFailed ==
  ASSUME IInv, NEW t \in Threads, AcquireFailed(t), op[t] # "tryenter"
  PROVE  Core'
<1>1. Known(t) /\ pc[t] = "acquire" /\ pc[t] \in InMonitor /\ op[t] \in {"enter"} \cup Waits
  BY Knowledge DEF AcquireFailed, Jump, At, Known, Fits, OpFits, InMonitor, Enters
<1>2. /\ mark.id = mon[t] /\ mark.state = "heavy" /\ mark.id \in Ids
      /\ Current = monitors[mon[t]] /\ Current \in MonitorRec
  BY <1>1, MonitorInUse DEF IInv
<1>3. PICK r \in MonitorRec : r = Current
  BY <1>2
<1>4. PICK m : m = [r EXCEPT !.waitersCounter_ = @ + 1]
  OBVIOUS
<1>5. /\ Fields(m, r.owner_, r.lock_, r.recursiveCounter_, r.waitersCounter_ + 1)
      /\ m.hashCode_ = r.hashCode_ /\ m.waiters_ = r.waiters_ /\ m.toWakeup_ = r.toWakeup_
  <2>1. r.waitersCounter_ + 1 \in Int
    BY <1>3 DEF MonitorRec
  <2>2. m \in MonitorRec
    BY <1>3, <1>4, <2>1 DEF MonitorRec
  <2>3. QED
    BY <1>3, <1>4, <2>2 DEF Fields, MonitorRec
<1>6. /\ monitors' = [monitors EXCEPT ![mark.id] = m] /\ mark' = mark
      /\ UNCHANGED <<monitorCount_, waitingMonitor_, interrupted, suspendCount_, gcVars, hashes, op, seen, mon,
                     target, saved, held>>
  BY <1>2, <1>3, <1>4 DEF AcquireFailed, SetOwner, threadVars, AddMonitor
<1>7. /\ Current' = m /\ Current' \in MonitorRec /\ monitors' \in [Ids -> MonitorRec \cup {Free}]
      /\ \A i \in Ids \ {mark.id} : monitors'[i] = monitors[i]
  BY <1>2, <1>5, <1>6, Worked DEF IInv, Fields
<1>8. "block" \in Labels /\ Goto(t, "block")
  BY DEF AcquireFailed, Labels
<1>9. /\ LocalTypes' /\ Others(t) /\ held'[t] = held[t]
      /\ Becomes(t, "block", op[t], seen[t], mon[t], target[t], saved[t])
  BY <1>1, <1>6, <1>8, GotoMakes DEF Known
<1>10. r.owner_ # t /\ ~Owns(t) /\ ~Taken(t) /\ r.lock_ # t
  <2>1. r.owner_ # t
    BY <1>2, <1>3 DEF AcquireFailed
  <2>2. ~Owns(t) /\ ~Taken(t)
    BY <1>1, <1>2, <1>3, <2>1, LockFacts DEF Taken
  <2>3. QED
    BY <1>2, <1>3, <2>1, <2>2, LockFacts
<1>11. held[t] \in 0 .. MaxDepth /\ (op[t] \in Enters => held[t] = 0)
  BY <1>1, <1>10, MonitorAssumption
     DEF Known, LevelFits, Owns, Gone, Taken, InWait, Enters
<1>12. Work(t)
  <2>1. Fits(t)' /\ InUse(t)'
    BY <1>1, <1>2, <1>6, <1>9
       DEF Known, Becomes, Fits, OpFits, SeenFits, TargetFits, InMonitor, InUse, Enters, Waits
  <2>2. LevelFits(t)'
    BY <1>1, <1>6, <1>9, <1>11
       DEF Becomes, Known, LevelFits, Waiting, InWait, InMonitor, Enters, Waits
  <2>3. QED
    BY <1>1, <1>2, <1>6, <1>7, <1>9, <2>1, <2>2 DEF Work, Local, Becomes, IInv, Types
<1>13. /\ (Waiting(t)' <=> Waiting(t)) /\ ~Drowsy(t)' /\ ~Blocked(t) /\ Blocked(t)'
       /\ ~Owns(t)' /\ ~Taken(t)'
  BY <1>1, <1>9, <1>11
     DEF Becomes, Waiting, Drowsy, Blocked, InWait, Owns, Gone, Taken, InMonitor, Waits, Enters
<1>14. SameHash /\ SameLists(t) /\ SameOwner
  BY <1>3, <1>5, <1>6, <1>7, <1>13 DEF SameHash, SameLists, SameOwner, Fields
<1>15. Lock'
  <2>1. r.owner_ = None => r.recursiveCounter_ = 0
    BY <1>2, <1>3, LockFacts
  <2>2. QED
    BY <1>3, <1>5, <1>7, <1>10, <1>12, <1>13, <2>1, WorkOnLock DEF Fields
<1>16. Counted'
  BY <1>3, <1>5, <1>7, <1>12, <1>13, WorkCounts DEF Fields

<1>17. QED
  BY <1>12, <1>14, <1>15, <1>16, WorkKeeps, HashKept, ListsKept, TallyKept DEF Core

LEMMA StepAcquireBlocked ==
  ASSUME IInv, NEW t \in Threads, AcquireBlocked(t)
  PROVE  Core'
<1>1. Known(t) /\ pc[t] = "setowner" /\ pc[t] \in InMonitor /\ op[t] \in {"enter"} \cup Waits
  BY Knowledge DEF AcquireBlocked, Jump, At, Known, Fits, OpFits, InMonitor
<1>2. /\ mark.id = mon[t] /\ mark.state = "heavy" /\ mark.id \in Ids
      /\ Current = monitors[mon[t]] /\ Current \in MonitorRec
  BY <1>1, MonitorInUse DEF IInv
<1>3. PICK r \in MonitorRec : r = Current
  BY <1>2
<1>4. PICK m : m = [r EXCEPT !.owner_ = t, !.recursiveCounter_ = @ + 1]
  OBVIOUS
<1>5. /\ Fields(m, t, r.lock_, r.recursiveCounter_ + 1, r.waitersCounter_)
      /\ m.hashCode_ = r.hashCode_ /\ m.waiters_ = r.waiters_ /\ m.toWakeup_ = r.toWakeup_
  <2>1. t \in Threads \cup {None} /\ r.recursiveCounter_ + 1 \in Int
    BY <1>3 DEF MonitorRec
  <2>2. m \in MonitorRec
    BY <1>3, <1>4, <2>1 DEF MonitorRec
  <2>3. QED
    BY <1>3, <1>4, <2>2 DEF Fields, MonitorRec
<1>6. /\ monitors' = [monitors EXCEPT ![mark.id] = m] /\ mark' = mark
      /\ UNCHANGED <<waitingMonitor_, interrupted, suspendCount_, gcVars, hashes, op, seen, mon,
                     target, saved, held>>
  BY <1>2, <1>3, <1>4 DEF AcquireBlocked, SetOwner, threadVars, AddMonitor
<1>7. /\ Current' = m /\ Current' \in MonitorRec /\ monitors' \in [Ids -> MonitorRec \cup {Free}]
      /\ \A i \in Ids \ {mark.id} : monitors'[i] = monitors[i]
  BY <1>2, <1>5, <1>6, Worked DEF IInv, Fields
<1>8. "unblock" \in Labels /\ Goto(t, "unblock") /\ AddMonitor(t)
  BY DEF AcquireBlocked, Jump, Labels
<1>9. /\ LocalTypes' /\ Others(t) /\ held'[t] = held[t]
      /\ Becomes(t, "unblock", op[t], seen[t], mon[t], target[t], saved[t])
  BY <1>1, <1>6, <1>8, GotoMakes DEF Known
<1>10. /\ r.lock_ = t /\ r.owner_ = None /\ r.recursiveCounter_ = 0 /\ t # None
       /\ None \notin Threads
  <2>1. Taken(t)
    BY <1>1 DEF Taken
  <2>2. QED
    BY <1>2, <1>3, <2>1, LockFacts, MonitorAssumption
<1>11. monitorCount_' \in [Threads -> Int]
  BY <1>8 DEF IInv, Types, AddMonitor
<1>12. Work(t)
  <2>1. Fits(t)' /\ InUse(t)'
    BY <1>1, <1>2, <1>6, <1>9
       DEF Known, Becomes, Fits, OpFits, SeenFits, TargetFits, InMonitor, InUse, Enters, Waits
  <2>2. LevelFits(t)'
    BY <1>1, <1>6, <1>9
       DEF Becomes, Known, LevelFits, Waiting, InWait, InMonitor, Enters, Waits
  <2>3. QED
    BY <1>1, <1>2, <1>6, <1>7, <1>9, <1>11, <2>1, <2>2 DEF Work, Local, Becomes, IInv, Types
<1>13. /\ (Waiting(t)' <=> Waiting(t)) /\ ~Drowsy(t)' /\ Blocked(t) /\ Blocked(t)'
       /\ Owns(t)' /\ Level(t)' = 1
  BY <1>1, <1>9
     DEF Becomes, Waiting, Drowsy, Blocked, InWait, Owns, Gone, Taken, Level, InMonitor
<1>14. SameHash /\ SameLists(t) /\ r.owner_ = None /\ Current'.owner_ = t /\ Current.owner_ = None
  BY <1>3, <1>5, <1>6, <1>7, <1>10, <1>13 DEF SameHash, SameLists, Fields
<1>15. Lock'
  BY <1>3, <1>5, <1>7, <1>10, <1>12, <1>13, WorkOnLock DEF Fields
<1>16. Counted'
  BY <1>3, <1>5, <1>7, <1>12, <1>13, WorkCounts DEF Fields
<1>17. QED
  BY <1>8, <1>12, <1>14, <1>15, <1>16, WorkKeeps, HashKept, ListsKept, TallyMoved DEF Core

LEMMA StepAcquireUnblock ==
  ASSUME IInv, NEW t \in Threads, AcquireUnblock(t)
  PROVE  Core'
<1>1. Known(t) /\ pc[t] = "unblock" /\ pc[t] \in InMonitor /\ op[t] \in {"enter"} \cup Waits
  BY Knowledge DEF AcquireUnblock, Jump, At, Known, Fits, OpFits, InMonitor
<1>2. /\ mark.id = mon[t] /\ mark.state = "heavy" /\ mark.id \in Ids
      /\ Current = monitors[mon[t]] /\ Current \in MonitorRec
  BY <1>1, MonitorInUse DEF IInv
<1>3. PICK r \in MonitorRec : r = Current
  BY <1>2
<1>4. PICK m : m = [r EXCEPT !.waitersCounter_ = @ - 1]
  OBVIOUS
<1>5. /\ Fields(m, r.owner_, r.lock_, r.recursiveCounter_, r.waitersCounter_ - 1)
      /\ m.hashCode_ = r.hashCode_ /\ m.waiters_ = r.waiters_ /\ m.toWakeup_ = r.toWakeup_
  <2>1. r.waitersCounter_ - 1 \in Int
    BY <1>3 DEF MonitorRec
  <2>2. m \in MonitorRec
    BY <1>3, <1>4, <2>1 DEF MonitorRec
  <2>3. QED
    BY <1>3, <1>4, <2>2 DEF Fields, MonitorRec
<1>6. /\ monitors' = [monitors EXCEPT ![mark.id] = m] /\ mark' = mark
      /\ UNCHANGED <<waitingMonitor_, interrupted, monitorCount_, suspendCount_, gcVars, hashes>>
  BY <1>2, <1>3, <1>4 DEF AcquireUnblock, SetOwner, threadVars, AddMonitor
<1>7. /\ Current' = m /\ Current' \in MonitorRec /\ monitors' \in [Ids -> MonitorRec \cup {Free}]
      /\ \A i \in Ids \ {mark.id} : monitors'[i] = monitors[i]
  BY <1>2, <1>5, <1>6, Worked DEF IInv, Fields
<1>8. Acquired(t)
  BY DEF AcquireUnblock
<1>9. /\ Local(t) /\ LocalTypes' /\ Others(t)
      /\ InWait(t) => /\ Becomes(t, "waitdone", op[t], seen[t], mon[t], target[t], saved[t])
                      /\ held'[t] = held[t]
      /\ ~InWait(t) => /\ Becomes(t, "managed", "none", Unlocked, None, None, 0)
                       /\ held'[t] = held[t] + 1
  BY <1>1, <1>6, <1>8, AcquiredMakes DEF Known
<1>10. /\ held[t] \in 0 .. MaxDepth /\ MaxDepth \in Nat /\ MaxDepth > 0
       /\ InWait(t) => held[t] > 0 /\ saved[t] = held[t] /\ waitingMonitor_[t] = mon[t]
       /\ ~InWait(t) => held[t] = 0
  BY <1>1, MonitorAssumption DEF Known, LevelFits, InWait, Waiting, Enters, Waits
<1>11. LevelFits(t)' /\ InUse(t)' /\ pc'[t] # "publish"
  <2>1. CASE InWait(t)
    BY <1>1, <1>6, <1>9, <1>10, <2>1
       DEF Becomes, Known, LevelFits, Waiting, InWait, InMonitor, Enters, Waits, InUse
  <2>2. CASE ~InWait(t)
    BY <1>9, <1>10, <2>2
       DEF Becomes, LevelFits, Waiting, InWait, InMonitor, Enters, Waits, InUse
  <2>3. QED
    BY <2>1, <2>2
<1>12. Work(t)
  BY <1>1, <1>2, <1>6, <1>7, <1>9, <1>11 DEF Work, IInv, Types
<1>13. /\ (Waiting(t)' <=> Waiting(t)) /\ ~Drowsy(t)' /\ ~Blocked(t)' /\ Owns(t)' /\ Level(t)' = 1
  <2>1. CASE InWait(t)
    BY <1>1, <1>9, <1>10, <2>1
       DEF Becomes, Waiting, Drowsy, Blocked, InWait, Owns, Gone, Taken, Level, InMonitor
  <2>2. CASE ~InWait(t)
    BY <1>1, <1>9, <1>10, <2>2
       DEF Becomes, Waiting, Drowsy, Blocked, InWait, Owns, Gone, Taken, Level, InMonitor
  <2>3. QED
    BY <2>1, <2>2
<1>14. SameHash /\ SameLists(t) /\ SameOwner
  BY <1>3, <1>5, <1>6, <1>7, <1>13 DEF SameHash, SameLists, SameOwner, Fields
<1>15. Lock'
  <2>1. Owns(t) /\ Level(t) = 1 /\ t # None
    BY <1>1, MonitorAssumption DEF Owns, Gone, Taken, Level
  <2>2. r.owner_ = t /\ r.recursiveCounter_ = 1 /\ r.lock_ = t
    BY <1>2, <1>3, <2>1, LockFacts
  <2>3. QED
    BY <1>3, <1>5, <1>7, <1>12, <1>13, <2>1, <2>2, WorkOnLock DEF Fields
<1>16. Counted'
  <2>1. Blocked(t)
    BY <1>1 DEF Blocked
  <2>2. QED
    BY <1>3, <1>5, <1>7, <1>12, <1>13, <2>1, WorkCounts DEF Fields

<1>17. QED
  BY <1>12, <1>14, <1>15, <1>16, WorkKeeps, HashKept, ListsKept, TallyKept DEF Core

LEMMA StepAcquireOwn ==
  ASSUME IInv, NEW t \in Threads, AcquireOwn(t)
  PROVE  Core'
<1>1. Known(t) /\ pc[t] = "own" /\ pc[t] \in InMonitor /\ op[t] \in Enters \cup Waits
  BY Knowledge DEF AcquireOwn, Jump, At, Known, Fits, OpFits, InMonitor
<1>2. /\ mark.id = mon[t] /\ mark.state = "heavy" /\ mark.id \in Ids
      /\ Current = monitors[mon[t]] /\ Current \in MonitorRec
  BY <1>1, MonitorInUse DEF IInv
<1>3. PICK r \in MonitorRec : r = Current
  BY <1>2
<1>4. PICK m : m = [r EXCEPT !.owner_ = t, !.recursiveCounter_ = @ + 1]
  OBVIOUS
<1>5. /\ Fields(m, t, r.lock_, r.recursiveCounter_ + 1, r.waitersCounter_)
      /\ m.hashCode_ = r.hashCode_ /\ m.waiters_ = r.waiters_ /\ m.toWakeup_ = r.toWakeup_
  <2>1. t \in Threads \cup {None} /\ r.recursiveCounter_ + 1 \in Int
    BY <1>3 DEF MonitorRec
  <2>2. m \in MonitorRec
    BY <1>3, <1>4, <2>1 DEF MonitorRec
  <2>3. QED
    BY <1>3, <1>4, <2>2 DEF Fields, MonitorRec
<1>6. /\ monitors' = [monitors EXCEPT ![mark.id] = m] /\ mark' = mark
      /\ UNCHANGED <<waitingMonitor_, interrupted, suspendCount_, gcVars, hashes>>
  BY <1>2, <1>3, <1>4 DEF AcquireOwn, SetOwner, threadVars, AddMonitor
<1>7. /\ Current' = m /\ Current' \in MonitorRec /\ monitors' \in [Ids -> MonitorRec \cup {Free}]
      /\ \A i \in Ids \ {mark.id} : monitors'[i] = monitors[i]
  BY <1>2, <1>5, <1>6, Worked DEF IInv, Fields
<1>8. Acquired(t)
  BY DEF AcquireOwn
<1>9. /\ Local(t) /\ LocalTypes' /\ Others(t)
      /\ InWait(t) => /\ Becomes(t, "waitdone", op[t], seen[t], mon[t], target[t], saved[t])
                      /\ held'[t] = held[t]
      /\ ~InWait(t) => /\ Becomes(t, "managed", "none", Unlocked, None, None, 0)
                       /\ held'[t] = held[t] + 1
  BY <1>1, <1>6, <1>8, AcquiredMakes DEF Known
<1>10. /\ held[t] \in 0 .. MaxDepth /\ MaxDepth \in Nat /\ MaxDepth > 0
       /\ InWait(t) => held[t] > 0 /\ saved[t] = held[t] /\ waitingMonitor_[t] = mon[t]
       /\ ~InWait(t) => held[t] = 0
  BY <1>1, MonitorAssumption DEF Known, LevelFits, InWait, Waiting, Enters, Waits
<1>11. LevelFits(t)' /\ InUse(t)' /\ pc'[t] # "publish"
  <2>1. CASE InWait(t)
    BY <1>1, <1>6, <1>9, <1>10, <2>1
       DEF Becomes, Known, LevelFits, Waiting, InWait, InMonitor, Enters, Waits, InUse
  <2>2. CASE ~InWait(t)
    BY <1>9, <1>10, <2>2
       DEF Becomes, LevelFits, Waiting, InWait, InMonitor, Enters, Waits, InUse
  <2>3. QED
    BY <2>1, <2>2
<1>12. Work(t) /\ AddMonitor(t)
  <2>1. AddMonitor(t)
    BY DEF AcquireOwn
  <2>2. monitorCount_' \in [Threads -> Int]
    BY <2>1 DEF IInv, Types, AddMonitor
  <2>3. QED
    BY <1>1, <1>2, <1>6, <1>7, <1>9, <1>11, <2>1, <2>2 DEF Work
<1>13. /\ (Waiting(t)' <=> Waiting(t)) /\ ~Drowsy(t)' /\ ~Blocked(t)' /\ Owns(t)' /\ Level(t)' = 1
  <2>1. CASE InWait(t)
    BY <1>1, <1>9, <1>10, <2>1
       DEF Becomes, Waiting, Drowsy, Blocked, InWait, Owns, Gone, Taken, Level, InMonitor
  <2>2. CASE ~InWait(t)
    BY <1>1, <1>9, <1>10, <2>2
       DEF Becomes, Waiting, Drowsy, Blocked, InWait, Owns, Gone, Taken, Level, InMonitor
  <2>3. QED
    BY <2>1, <2>2
<1>14. SameHash /\ SameLists(t)
  BY <1>3, <1>5, <1>6, <1>7, <1>13 DEF SameHash, SameLists, Fields
<1>15. Lock' /\ Tally'
  <2>1. Taken(t) /\ t # None
    BY <1>1, MonitorAssumption DEF Taken
  <2>2. r.owner_ = None /\ r.recursiveCounter_ = 0 /\ r.lock_ = t
    BY <1>2, <1>3, <2>1, LockFacts
  <2>3. m.owner_ = t /\ m.recursiveCounter_ = 1 /\ m.lock_ = t
    BY <1>5, <2>2 DEF Fields
  <2>4. Tally'
    BY <1>3, <1>7, <1>12, <2>2, <2>3, TallyMoved
  <2>5. None \notin Threads
    BY MonitorAssumption
  <2>6. QED
    BY <1>3, <1>7, <1>12, <1>13, <2>1, <2>2, <2>3, <2>4, <2>5, WorkOnLock
<1>16. Counted'
  <2>1. ~Blocked(t)
    BY <1>1 DEF Blocked
  <2>2. QED
    BY <1>3, <1>5, <1>7, <1>12, <1>13, <2>1, WorkCounts DEF Fields
<1>17. QED
  BY <1>12, <1>14, <1>15, <1>16, WorkKeeps, HashKept, ListsKept DEF Core

LEMMA StepReleaseNested ==
  ASSUME IInv, NEW t \in Threads, ReleaseNested(t)
  PROVE  Core'
<1>1. Known(t) /\ pc[t] = "release" /\ pc[t] \in InMonitor /\ op[t] \in {"exit"} \cup Waits
  BY Knowledge DEF ReleaseNested, Jump, At, Known, Fits, OpFits, InMonitor
<1>2. /\ mark.id = mon[t] /\ mark.state = "heavy" /\ mark.id \in Ids
      /\ Current = monitors[mon[t]] /\ Current \in MonitorRec
  BY <1>1, MonitorInUse DEF IInv
<1>3. PICK r \in MonitorRec : r = Current
  BY <1>2
<1>4. PICK m : m = [r EXCEPT !.recursiveCounter_ = @ - 1]
  OBVIOUS
<1>5. /\ Fields(m, r.owner_, r.lock_, r.recursiveCounter_ - 1, r.waitersCounter_)
      /\ m.hashCode_ = r.hashCode_ /\ m.waiters_ = r.waiters_ /\ m.toWakeup_ = r.toWakeup_
  <2>1. r.recursiveCounter_ - 1 \in Int
    BY <1>3 DEF MonitorRec
  <2>2. m \in MonitorRec
    BY <1>3, <1>4, <2>1 DEF MonitorRec
  <2>3. QED
    BY <1>3, <1>4, <2>2 DEF Fields, MonitorRec
<1>6. /\ monitors' = [monitors EXCEPT ![mark.id] = m] /\ mark' = mark
      /\ UNCHANGED <<waitingMonitor_, interrupted, monitorCount_, suspendCount_, gcVars, hashes>>
  BY <1>2, <1>3, <1>4 DEF ReleaseNested, SetOwner, threadVars, AddMonitor
<1>7. /\ Current' = m /\ Current' \in MonitorRec /\ monitors' \in [Ids -> MonitorRec \cup {Free}]
      /\ \A i \in Ids \ {mark.id} : monitors'[i] = monitors[i]
  BY <1>2, <1>5, <1>6, Worked DEF IInv, Fields
<1>8. /\ r.recursiveCounter_ > 1 /\ Exited(t) /\ Return(t)
      /\ held[t] \in 0 .. MaxDepth /\ held[t] > 0
  BY <1>1, <1>2, <1>3 DEF ReleaseNested, Known, LevelFits
<1>9. r.owner_ = t /\ r.lock_ = t /\ r.recursiveCounter_ = held[t] /\ ~InWait(t)
  <2>1. Owns(t)
    BY <1>1, <1>8 DEF Owns, Gone, Taken
  <2>2. r.owner_ = t /\ r.lock_ = t /\ r.recursiveCounter_ = Level(t)
    BY <1>2, <1>3, <2>1, LockFacts
  <2>3. QED
    BY <1>1, <1>8, <2>2 DEF Level, Waiting
<1>10. /\ Local(t) /\ Becomes(t, "managed", "none", Unlocked, None, None, 0)
       /\ held'[t] = held[t] - 1
  <2>1. /\ held' \in [Threads -> Int] /\ held'[t] = held[t] - 1
        /\ \A u \in Threads \ {t} : held'[u] = held[u]
    BY <1>1, <1>8 DEF Known, LocalTypes, Exited
  <2>2. QED
    BY <1>1, <1>6, <1>8, <2>1, ReturnMakes DEF Known, Becomes
<1>11. LevelFits(t)'
  BY <1>8, <1>10, MonitorAssumption
     DEF Becomes, LevelFits, Waiting, InWait, InMonitor, Enters, Waits
<1>12. Work(t)
  BY <1>1, <1>2, <1>6, <1>7, <1>10, <1>11
     DEF Work, Becomes, InUse, InMonitor, IInv, Types
<1>13. /\ ~Waiting(t) /\ ~Waiting(t)' /\ ~Drowsy(t)' /\ ~Blocked(t) /\ ~Blocked(t)'
       /\ Owns(t)' /\ Level(t)' = held[t] - 1
  BY <1>1, <1>8, <1>9, <1>10
     DEF Becomes, Waiting, Drowsy, Blocked, InWait, Owns, Gone, Taken, Level, InMonitor
<1>14. SameHash /\ SameLists(t) /\ SameOwner
  BY <1>3, <1>5, <1>6, <1>7, <1>13 DEF SameHash, SameLists, SameOwner, Fields
<1>15. Lock'
  <2>1. t # None
    BY MonitorAssumption
  <2>2. QED
    BY <1>3, <1>5, <1>7, <1>8, <1>9, <1>12, <1>13, <2>1, WorkOnLock DEF Fields
<1>16. Counted'
  BY <1>3, <1>5, <1>7, <1>12, <1>13, WorkCounts DEF Fields

<1>17. QED
  BY <1>12, <1>14, <1>15, <1>16, WorkKeeps, HashKept, ListsKept, TallyKept DEF Core

LEMMA StepReleaseUnlock ==
  ASSUME IInv, NEW t \in Threads, ReleaseUnlock(t)
  PROVE  Core'
<1>1. Known(t) /\ pc[t] = "unlock" /\ pc[t] \in InMonitor /\ op[t] \in {"exit"} \cup Waits
  BY Knowledge DEF ReleaseUnlock, Jump, At, Known, Fits, OpFits, InMonitor
<1>2. /\ mark.id = mon[t] /\ mark.state = "heavy" /\ mark.id \in Ids
      /\ Current = monitors[mon[t]] /\ Current \in MonitorRec
  BY <1>1, MonitorInUse DEF IInv
<1>3. PICK r \in MonitorRec : r = Current
  BY <1>2
<1>4. PICK m : m = [r EXCEPT !.lock_ = None]
  OBVIOUS
<1>5. /\ Fields(m, r.owner_, None, r.recursiveCounter_, r.waitersCounter_)
      /\ m.hashCode_ = r.hashCode_ /\ m.waiters_ = r.waiters_ /\ m.toWakeup_ = r.toWakeup_
  <2>1. None \in Threads \cup {None}
    BY <1>3 DEF MonitorRec
  <2>2. m \in MonitorRec
    BY <1>3, <1>4, <2>1 DEF MonitorRec
  <2>3. QED
    BY <1>3, <1>4, <2>2 DEF Fields, MonitorRec
<1>6. /\ monitors' = [monitors EXCEPT ![mark.id] = m] /\ mark' = mark
      /\ UNCHANGED <<waitingMonitor_, interrupted, monitorCount_, suspendCount_, gcVars, hashes>>
  BY <1>2, <1>3, <1>4 DEF ReleaseUnlock, SetOwner, threadVars, AddMonitor
<1>7. /\ Current' = m /\ Current' \in MonitorRec /\ monitors' \in [Ids -> MonitorRec \cup {Free}]
      /\ \A i \in Ids \ {mark.id} : monitors'[i] = monitors[i]
  BY <1>2, <1>5, <1>6, Worked DEF IInv, Fields
<1>8. /\ held[t] \in 0 .. MaxDepth /\ held[t] > 0
      /\ InWait(t) => saved[t] = held[t] /\ waitingMonitor_[t] = mon[t]
      /\ ~InWait(t) => held[t] = 1
  BY <1>1 DEF Known, LevelFits, Waiting, InWait, Waits
<1>9. /\ Local(t) /\ LocalTypes' /\ Others(t)
      /\ InWait(t) => /\ Becomes(t, "presleep", op[t], seen[t], mon[t], None, saved[t])
                      /\ held'[t] = held[t]
      /\ ~InWait(t) => /\ Becomes(t, "managed", "none", Unlocked, None, None, 0)
                       /\ held'[t] = 0
  <2>1. CASE InWait(t)
    <3>1. /\ Goto(t, "presleep") /\ target' = [target EXCEPT ![t] = None]
          /\ UNCHANGED <<held, op, seen, mon, saved>>
      BY <2>1 DEF ReleaseUnlock
    <3>2. LocalTypes' /\ Others(t)
      BY <1>1, <1>6, <3>1 DEF Known, LocalTypes, Goto, Labels, Others, Untouched
    <3>3. Becomes(t, "presleep", op[t], seen[t], mon[t], None, saved[t]) /\ held'[t] = held[t]
      BY <1>1, <3>1 DEF Known, LocalTypes, Goto, Becomes
    <3>4. Fits(t)'
      BY <1>1, <2>1, <3>3
         DEF Known, Becomes, Fits, OpFits, SeenFits, TargetFits, InMonitor, InWait, Waits
    <3>5. QED
      BY <2>1, <3>2, <3>3, <3>4 DEF Local
  <2>2. CASE ~InWait(t)
    <3>1. Exited(t) /\ Return(t)
      BY <2>2 DEF ReleaseUnlock
    <3>2. /\ held' \in [Threads -> Int] /\ held'[t] = held[t] - 1
          /\ \A u \in Threads \ {t} : held'[u] = held[u]
      BY <1>1, <3>1 DEF Known, LocalTypes, Exited
    <3>3. held'[t] = 0
      BY <1>8, <2>2, <3>2
    <3>4. QED
      BY <1>1, <1>6, <2>2, <3>1, <3>2, <3>3, ReturnMakes DEF Known, Becomes, Local
  <2>3. QED
    BY <2>1, <2>2
<1>10. LevelFits(t)' /\ InUse(t)' /\ pc'[t] # "publish"
  <2>1. CASE InWait(t)
    BY <1>1, <1>6, <1>8, <1>9, <2>1
       DEF Becomes, Known, LevelFits, Waiting, InWait, InMonitor, Enters, Waits, InUse
  <2>2. CASE ~InWait(t)
    BY <1>9, <2>2, MonitorAssumption
       DEF Becomes, LevelFits, Waiting, InWait, InMonitor, Enters, Waits, InUse
  <2>3. QED
    BY <2>1, <2>2
<1>11. /\ r.lock_ = t /\ r.owner_ = None /\ r.recursiveCounter_ = 0 /\ t # None
       /\ None \notin Threads
  <2>1. Taken(t)
    BY <1>1 DEF Taken
  <2>2. QED
    BY <1>2, <1>3, <2>1, LockFacts, MonitorAssumption
<1>12. Work(t)
  BY <1>1, <1>2, <1>6, <1>7, <1>9, <1>10 DEF Work, IInv, Types
<1>13. /\ (Waiting(t)' <=> Waiting(t)) /\ (Drowsy(t)' => Drowsy(t)) /\ ~Blocked(t)' /\ ~Blocked(t)
       /\ ~Owns(t)' /\ ~Taken(t)'
  <2>1. CASE InWait(t)
    BY <1>1, <1>9, <2>1
       DEF Becomes, Waiting, Drowsy, Blocked, InWait, Owns, Gone, Taken, InMonitor
  <2>2. CASE ~InWait(t)
    BY <1>1, <1>9, <2>2
       DEF Becomes, Waiting, Drowsy, Blocked, InWait, Owns, Gone, Taken, InMonitor
  <2>3. QED
    BY <2>1, <2>2
<1>14. SameHash /\ SameLists(t) /\ SameOwner
  BY <1>3, <1>5, <1>6, <1>7, <1>13 DEF SameHash, SameLists, SameOwner, Fields
<1>15. Lock'
  BY <1>3, <1>5, <1>7, <1>11, <1>12, <1>13, WorkOnLock DEF Fields
<1>16. Counted'
  BY <1>3, <1>5, <1>7, <1>12, <1>13, WorkCounts DEF Fields

<1>17. QED
  BY <1>12, <1>14, <1>15, <1>16, WorkKeeps, HashKept, ListsKept, TallyKept DEF Core

\* The Monitors that Release, Wait, Notify and GetHashCode make of one of the pool.
Released(r, n, o, b) == [r EXCEPT !.recursiveCounter_ = n, !.owner_ = o, !.toWakeup_ = b]
Joined(r, n, c, a) ==
  [r EXCEPT !.waiters_ = a, !.recursiveCounter_ = n, !.waitersCounter_ = c]
Left(r, n, c, a, b) ==
  [r EXCEPT !.waitersCounter_ = c, !.recursiveCounter_ = n, !.waiters_ = a, !.toWakeup_ = b]
Picked(r, a, b) == [r EXCEPT !.toWakeup_ = b, !.waiters_ = a]
Rest(m, h, a, b) == m.hashCode_ = h /\ m.waiters_ = a /\ m.toWakeup_ = b
WithHash(r, h) == [r EXCEPT !.hashCode_ = h]

LEMMA ReleasedMakes ==
  ASSUME NEW r \in MonitorRec, NEW n \in Int, NEW o \in Threads \cup {None}, NEW b \in Seq(Threads), NEW m, m = Released(r, n, o, b)
  PROVE  /\ Fields(m, o, r.lock_, n, r.waitersCounter_)
         /\ Rest(m, r.hashCode_, r.waiters_, b)
<1>1. m \in MonitorRec
  BY DEF Released, MonitorRec
<1>2. QED
  BY <1>1 DEF Fields, Rest, Released, MonitorRec

LEMMA JoinedMakes ==
  ASSUME NEW r \in MonitorRec, NEW n \in Int, NEW c \in Int, NEW a \in Seq(Threads), NEW m, m = Joined(r, n, c, a)
  PROVE  /\ Fields(m, r.owner_, r.lock_, n, c)
         /\ Rest(m, r.hashCode_, a, r.toWakeup_)
<1>1. m \in MonitorRec
  BY DEF Joined, MonitorRec
<1>2. QED
  BY <1>1 DEF Fields, Rest, Joined, MonitorRec

LEMMA LeftMakes ==
  ASSUME NEW r \in MonitorRec, NEW n \in Int, NEW c \in Int,
         NEW a \in Seq(Threads), NEW b \in Seq(Threads), NEW m, m = Left(r, n, c, a, b)
  PROVE  /\ Fields(m, r.owner_, r.lock_, n, c)
         /\ Rest(m, r.hashCode_, a, b)
<1>1. m \in MonitorRec
  BY DEF Left, MonitorRec
<1>2. QED
  BY <1>1 DEF Fields, Rest, Left, MonitorRec

LEMMA PickedMakes ==
  ASSUME NEW r \in MonitorRec, NEW a \in Seq(Threads), NEW b \in Seq(Threads), NEW m, m = Picked(r, a, b)
  PROVE  /\ Fields(m, r.owner_, r.lock_, r.recursiveCounter_, r.waitersCounter_)
         /\ Rest(m, r.hashCode_, a, b)
<1>1. m \in MonitorRec
  BY DEF Picked, MonitorRec
<1>2. QED
  BY <1>1 DEF Fields, Rest, Picked, MonitorRec

LEMMA WithHashMakes ==
  ASSUME NEW r \in MonitorRec, NEW h \in Hashes, NEW m, m = WithHash(r, h)
  PROVE  /\ Fields(m, r.owner_, r.lock_, r.recursiveCounter_, r.waitersCounter_)
         /\ Rest(m, h, r.waiters_, r.toWakeup_)
<1>1. m \in MonitorRec
  BY DEF WithHash, MonitorRec
<1>2. QED
  BY <1>1 DEF Fields, Rest, WithHash, MonitorRec

\* Who is in a list of the Monitor waits on it.
LEMMA ListedWaits ==
  ASSUME IInv, mark.state = "heavy", NEW u \in Threads, ListedIn(Current, u)
  PROVE  Waiting(u) /\ waitingMonitor_[u] = mark.id /\ mon[u] = mark.id
<1>1. Waiting(u) /\ pc[u] \in InMonitor
  BY DEF IInv, Lists, Waiting
<1>2. mark.id = mon[u]
  BY <1>1, MonitorInUse DEF IInv
<1>3. waitingMonitor_[u] = mon[u]
  BY <1>1 DEF IInv, Levels, LevelFits
<1>4. QED
  BY <1>1, <1>2, <1>3

LEMMA StepReleaseLast ==
  ASSUME IInv, NEW t \in Threads, ReleaseLast(t)
  PROVE  Core'
<1>1. /\ Known(t) /\ pc[t] = "release" /\ pc[t] \in InMonitor /\ op[t] \in {"exit"} \cup Waits
      /\ held[t] \in 0 .. MaxDepth /\ held[t] > 0
  BY Knowledge DEF ReleaseLast, At, Known, Fits, OpFits, InMonitor, LevelFits
<1>2. /\ mark.id = mon[t] /\ mark.state = "heavy" /\ mark.id \in Ids
      /\ Current = monitors[mon[t]] /\ Current \in MonitorRec
  BY <1>1, MonitorInUse DEF IInv
<1>3. PICK r \in MonitorRec : r = Current
  BY <1>2
<1>4. PICK w : w = r.toWakeup_
  OBVIOUS
<1>5. PICK v : v = IF w = <<>> THEN w ELSE Tail(w)
  OBVIOUS
<1>6. PICK m : m = Released(r, 0, None, v)
  OBVIOUS
<1>7. w \in Seq(Threads) /\ v \in Seq(Threads)
  <2>1. w \in Seq(Threads)
    BY <1>3, <1>4 DEF MonitorRec
  <2>2. QED
    BY <1>5, <2>1, HeadAndTail
<1>8. /\ Fields(m, None, r.lock_, 0, r.waitersCounter_)
      /\ m.hashCode_ = r.hashCode_ /\ m.waiters_ = r.waiters_ /\ m.toWakeup_ = v
  <2>1. 0 \in Int /\ None \in Threads \cup {None}
    OBVIOUS
  <2>2. Fields(m, None, r.lock_, 0, r.waitersCounter_)
    BY <1>3, <1>6, <1>7, <2>1, ReleasedMakes
  <2>3. Rest(m, r.hashCode_, r.waiters_, v)
    BY <1>3, <1>6, <1>7, <2>1, ReleasedMakes
  <2>4. QED
    BY <2>2, <2>3 DEF Rest
<1>9. /\ monitors' = [monitors EXCEPT ![mark.id] = m] /\ mark' = mark
      /\ UNCHANGED <<op, seen, mon, saved, held, waitingMonitor_, interrupted, suspendCount_,
                     gcVars, hashes>>
      /\ RemoveMonitor(t) /\ r.recursiveCounter_ = 1
  BY <1>2, <1>3, <1>4, <1>5, <1>6 DEF ReleaseLast, Released
<1>10. /\ Current' = m /\ Current' \in MonitorRec /\ monitors' \in [Ids -> MonitorRec \cup {Free}]
       /\ \A i \in Ids \ {mark.id} : monitors'[i] = monitors[i]
  BY <1>2, <1>8, <1>9, Worked DEF IInv, Fields
<1>11. r.owner_ = t /\ r.lock_ = t /\ (op[t] = "exit" => held[t] = 1)
  <2>1. Owns(t)
    BY <1>1 DEF Owns, Gone, Taken
  <2>2. r.owner_ = t /\ r.lock_ = t /\ Level(t) = 1
    BY <1>2, <1>3, <1>9, <2>1, LockFacts
  <2>3. QED
    BY <1>1, <2>2 DEF Level, Waiting, InWait
<1>12. /\ w # <<>> => Head(w) \in Threads /\ pc' = [pc EXCEPT ![t] = "signal"]
                      /\ target' = [target EXCEPT ![t] = Head(w)]
       /\ w = <<>> => pc' = [pc EXCEPT ![t] = "unlock"] /\ target' = target
  <2>1. CASE w # <<>>
    <3>1. Head(w) \in Threads /\ In(w, Head(w))
      BY <1>7, <2>1, HeadAndTail
    <3>2. waitingMonitor_[Head(w)] = mon[t]
      BY <1>2, <1>3, <1>4, <3>1, ListedWaits DEF ListedIn
    <3>3. QED
      BY <1>2, <1>3, <1>4, <2>1, <3>1, <3>2 DEF ReleaseLast, Goto
  <2>2. CASE w = <<>>
    BY <1>2, <1>3, <1>4, <2>2 DEF ReleaseLast, Goto
  <2>3. QED
    BY <2>1, <2>2
<1>13. /\ LocalTypes' /\ Others(t)
       /\ pc'[t] = IF w = <<>> THEN "unlock" ELSE "signal"
       /\ w # <<>> => target'[t] = Head(w)
  <2>1. pc' \in [Threads -> Labels] /\ target' \in [Threads -> Threads \cup {None}]
    <3>1. "signal" \in Labels /\ "unlock" \in Labels
      BY DEF Labels
    <3>2. CASE w = <<>>
      BY <1>1, <1>12, <3>1, <3>2 DEF Known, LocalTypes
    <3>3. CASE w # <<>>
      BY <1>1, <1>12, <3>1, <3>3 DEF Known, LocalTypes
    <3>4. QED
      BY <3>2, <3>3
  <2>2. LocalTypes'
    BY <1>1, <1>9, <2>1 DEF Known, LocalTypes
  <2>3. Others(t)
    BY <1>1, <1>9, <1>12 DEF Known, LocalTypes, Others, Untouched
  <2>4. QED
    BY <1>1, <1>12, <2>2, <2>3 DEF Known, LocalTypes
<1>14. Fits(t)' /\ InUse(t)'
  BY <1>1, <1>2, <1>9, <1>12, <1>13
     DEF Known, Fits, OpFits, SeenFits, TargetFits, InMonitor, InUse, Waits
<1>15. LevelFits(t)'
  BY <1>1, <1>9, <1>11, <1>13
     DEF Known, LevelFits, Waiting, InWait, InMonitor, Enters, Waits
<1>16. monitorCount_' \in [Threads -> Int]
  BY <1>9 DEF IInv, Types, RemoveMonitor
<1>17. Work(t)
  BY <1>1, <1>2, <1>9, <1>10, <1>13, <1>14, <1>15, <1>16 DEF Work, Local
<1>18. /\ (Waiting(t)' <=> Waiting(t)) /\ (Drowsy(t)' => Drowsy(t)) /\ ~Blocked(t)' /\ ~Blocked(t)
       /\ ~Owns(t)' /\ Taken(t)'
  BY <1>1, <1>9, <1>13
     DEF Waiting, Drowsy, Blocked, InWait, Owns, Gone, Taken, InMonitor
<1>19. SameHash /\ Tally'
  <2>1. SameHash
    BY <1>3, <1>8, <1>9, <1>10 DEF SameHash
  <2>2. Current.owner_ = t /\ Current'.owner_ = None
    BY <1>3, <1>8, <1>10, <1>11 DEF Fields
  <2>3. QED
    BY <1>9, <1>17, <2>1, <2>2, TallyMoved
<1>20. Lock'
  <2>1. t # None /\ None \notin Threads
    BY MonitorAssumption
  <2>2. QED
    BY <1>3, <1>8, <1>10, <1>11, <1>17, <1>18, <2>1, WorkOnLock DEF Fields
<1>21. Counted'
  BY <1>3, <1>8, <1>10, <1>17, <1>18, WorkCounts DEF Fields
<1>22. Lists'
  <2>1. CASE w = <<>>
    BY <1>3, <1>4, <1>5, <1>8, <1>10, <1>17, <1>18, <2>1, ListsKept DEF SameLists
  <2>2. CASE w # <<>>
    <3>1. /\ v = Tail(w) /\ Once(w) /\ Once(r.waiters_)
          /\ \A u \in Threads : ~ (In(r.waiters_, u) /\ In(w, u))
      BY <1>2, <1>3, <1>4, <1>5, <2>2 DEF IInv, Lists, Linked
    <3>2. /\ Once(v) /\ (\A u : In(v, u) => In(w, u))
          /\ \A u : In(w, u) => u = Head(w) \/ In(v, u)
      BY <1>7, <2>2, <3>1, HeadAndTail
    <3>3. Linked(m)
      BY <1>8, <3>1, <3>2 DEF Linked
    <3>4. ASSUME NEW u \in Threads, ListedIn(m, u) PROVE Waiting(u)'
      <4>1. ListedIn(Current, u)
        BY <1>3, <1>4, <1>8, <3>2, <3>4 DEF ListedIn
      <4>2. Waiting(u)
        BY <1>2, <4>1, ListedWaits
      <4>3. QED
        BY <1>13, <1>18, <4>2, OthersKeep DEF SamePart
    <3>5. ASSUME NEW u \in Threads, Drowsy(u)'
          PROVE  ListedIn(m, u) \/ \E x \in Threads : pc'[x] = "signal" /\ target'[x] = u
      <4>1. Drowsy(u)
        BY <1>13, <1>18, <3>5, OthersKeep DEF SamePart
      <4>2. CASE ListedIn(Current, u)
        BY <1>3, <1>4, <1>8, <1>13, <2>2, <3>2, <4>2 DEF ListedIn
      <4>3. CASE \E x \in Threads : pc[x] = "signal" /\ target[x] = u
        <5>1. PICK x \in Threads : pc[x] = "signal" /\ target[x] = u
          BY <4>3
        <5>2. x # t
          BY <1>1, <5>1
        <5>3. QED
          BY <1>13, <5>1, <5>2, OthersKeep
      <4>4. QED
        BY <1>2, <4>1, <4>2, <4>3 DEF IInv, Lists
    <3>6. QED
      BY <1>10, <3>3, <3>4, <3>5 DEF Lists
  <2>3. QED
    BY <2>1, <2>2
<1>23. QED
  BY <1>17, <1>19, <1>20, <1>21, <1>22, WorkKeeps, HashKept DEF Core

LEMMA StepWaitEnqueue ==
  ASSUME IInv, NEW t \in Threads, WaitEnqueue(t)
  PROVE  Core'
<1>1. /\ Known(t) /\ pc[t] = "wait" /\ op[t] \in Waits /\ held[t] \in 0 .. MaxDepth /\ held[t] > 0
      /\ mark.state = "heavy"
  BY Knowledge DEF WaitEnqueue, Jump, At, Known, Fits, OpFits, LevelFits
<1>2. mark.id \in Ids /\ mark = Heavy(mark.id) /\ Current = monitors[mark.id]
      /\ Current \in MonitorRec
  BY <1>1, CurrentLive DEF IInv, Current
<1>3. PICK r \in MonitorRec : r = Current
  BY <1>2
<1>4. PICK a : a = <<t>> \o r.waiters_
  OBVIOUS
<1>5. PICK c : c = r.waitersCounter_ + 1
  OBVIOUS
<1>6. PICK m : m = Joined(r, 1, c, a)
  OBVIOUS
<1>7. ~Waiting(t) /\ ~In(r.waiters_, t) /\ ~In(r.toWakeup_, t)
  <2>1. ~Waiting(t)
    BY <1>1 DEF Waiting, InMonitor
  <2>2. QED
    BY <1>1, <1>3, <2>1, ListedWaits DEF ListedIn
<1>8. /\ a \in Seq(Threads) /\ Once(a) /\ (\A u : In(a, u) <=> u = t \/ In(r.waiters_, u))
      /\ c \in Int
  <2>1. r.waiters_ \in Seq(Threads) /\ c \in Int
    BY <1>3, <1>5 DEF MonitorRec
  <2>2. Once(r.waiters_)
    BY <1>1, <1>3 DEF IInv, Lists, Linked
  <2>3. QED
    BY <1>4, <1>7, <2>1, <2>2, Prepended
<1>9. Fields(m, r.owner_, r.lock_, 1, c) /\ Rest(m, r.hashCode_, a, r.toWakeup_)
  <2>1. 1 \in Int
    OBVIOUS
  <2>2. QED
    BY <1>3, <1>6, <1>8, <2>1, JoinedMakes
<1>10. /\ monitors' = [monitors EXCEPT ![mark.id] = m] /\ mark' = mark /\ r.owner_ = t
       /\ mon' = [mon EXCEPT ![t] = mark.id] /\ pc' = [pc EXCEPT ![t] = "release"]
       /\ saved' = [saved EXCEPT ![t] = r.recursiveCounter_]
       /\ waitingMonitor_' = [waitingMonitor_ EXCEPT ![t] = mark.id]
       /\ UNCHANGED <<op, seen, target, held, interrupted, monitorCount_, suspendCount_, gcVars,
                      hashes>>
  BY <1>2, <1>3, <1>4, <1>5, <1>6 DEF WaitEnqueue, Joined, Jump, Goto
<1>11. /\ Current' = m /\ Current' \in MonitorRec /\ monitors' \in [Ids -> MonitorRec \cup {Free}]
       /\ \A i \in Ids \ {mark.id} : monitors'[i] = monitors[i]
  BY <1>1, <1>9, <1>10, Worked DEF IInv, Fields
<1>12. r.lock_ = t /\ r.recursiveCounter_ = held[t]
  <2>1. Owns(t)
    BY <1>1, <1>3, <1>10, LockFacts
  <2>2. r.lock_ = t /\ r.recursiveCounter_ = Level(t)
    BY <1>1, <1>3, <2>1, LockFacts
  <2>3. QED
    BY <1>1, <1>7, <2>2 DEF Level
<1>13. /\ LocalTypes' /\ Others(t) /\ held'[t] = held[t] /\ waitingMonitor_'[t] = mark.id
       /\ Becomes(t, "release", op[t], seen[t], mark.id, target[t], held[t])
  <2>1. "release" \in Labels /\ r.recursiveCounter_ \in Int
    BY <1>3 DEF Labels, MonitorRec
  <2>2. pc' \in [Threads -> Labels] /\ mon' \in [Threads -> Ids \cup {None}]
    BY <1>1, <1>2, <1>10, <2>1 DEF Known, LocalTypes
  <2>3. saved' \in [Threads -> Int] /\ waitingMonitor_' \in [Threads -> Ids \cup {None}]
    BY <1>1, <1>2, <1>10, <2>1 DEF Known, LocalTypes
  <2>4. LocalTypes'
    BY <1>1, <1>10, <2>2, <2>3 DEF Known, LocalTypes
  <2>5. Others(t)
    BY <1>1, <1>10 DEF Known, LocalTypes, Others, Untouched
  <2>6. QED
    BY <1>1, <1>10, <1>12, <2>4, <2>5 DEF Known, LocalTypes, Becomes
<1>14. Fits(t)' /\ InUse(t)' /\ LevelFits(t)'
  <2>1. Fits(t)' /\ InUse(t)'
    BY <1>1, <1>2, <1>10, <1>13, MonitorAssumption
       DEF Becomes, Fits, OpFits, SeenFits, TargetFits, InMonitor, InUse, Waits
  <2>2. LevelFits(t)'
    BY <1>1, <1>13 DEF Becomes, LevelFits, Waiting, InWait, InMonitor, Enters, Waits
  <2>3. QED
    BY <2>1, <2>2
<1>15. Work(t)
  BY <1>1, <1>10, <1>11, <1>13, <1>14 DEF Work, Local, Becomes, IInv, Types
<1>16. Waiting(t)' /\ ~Blocked(t)' /\ ~Blocked(t) /\ Owns(t)' /\ ~Taken(t)' /\ Level(t)' = 1
  BY <1>1, <1>13
     DEF Becomes, Waiting, Blocked, InWait, Owns, Gone, Taken, Level, InMonitor, Waits
<1>17. SameHash /\ SameOwner
  BY <1>3, <1>9, <1>10, <1>11 DEF SameHash, SameOwner, Fields, Rest
<1>18. Lock'
  <2>1. t # None
    BY MonitorAssumption
  <2>2. QED
    BY <1>3, <1>9, <1>10, <1>11, <1>12, <1>15, <1>16, <2>1, WorkOnLock DEF Fields
<1>19. Counted'
  BY <1>3, <1>5, <1>7, <1>9, <1>11, <1>15, <1>16, WorkCounts DEF Fields
<1>20. Lists'
  <2>1. /\ Once(r.toWakeup_) /\ \A u \in Threads : ~ (In(r.waiters_, u) /\ In(r.toWakeup_, u))
    BY <1>1, <1>3 DEF IInv, Lists, Linked
  <2>2. Linked(m)
    BY <1>7, <1>8, <1>9, <2>1 DEF Linked, Rest
  <2>3. \A u \in Threads : ListedIn(m, u) <=> u = t \/ ListedIn(Current, u)
    BY <1>3, <1>8, <1>9 DEF ListedIn, Rest
  <2>4. ASSUME NEW u \in Threads, ListedIn(m, u) PROVE Waiting(u)'
    <3>1. CASE u = t
      BY <1>16, <3>1
    <3>2. CASE u # t
      <4>1. Waiting(u)
        BY <1>1, <2>3, <2>4, <3>2, ListedWaits
      <4>2. QED
        BY <1>13, <3>2, <4>1, OthersKeep DEF SamePart
    <3>3. QED
      BY <3>1, <3>2
  <2>5. ASSUME NEW u \in Threads, Drowsy(u)', u # t
        PROVE  ListedIn(m, u) \/ \E x \in Threads : pc'[x] = "signal" /\ target'[x] = u
    <3>1. Drowsy(u)
      BY <1>13, <2>5, OthersKeep DEF SamePart
    <3>2. CASE ListedIn(Current, u)
      BY <2>3, <3>2
    <3>3. CASE \E x \in Threads : pc[x] = "signal" /\ target[x] = u
      <4>1. PICK x \in Threads : pc[x] = "signal" /\ target[x] = u
        BY <3>3
      <4>2. x # t
        BY <1>1, <4>1
      <4>3. QED
        BY <1>13, <4>1, <4>2, OthersKeep
    <3>4. QED
      BY <1>1, <3>1, <3>2, <3>3 DEF IInv, Lists
  <2>6. QED
    BY <1>11, <2>2, <2>3, <2>4, <2>5 DEF Lists
<1>21. QED
  BY <1>15, <1>17, <1>18, <1>19, <1>20, WorkKeeps, HashKept, TallyKept DEF Core

\* Unlisted takes the thread out of toWakeup_, wherever it was.
LEMMA UnlistedMakes ==
  ASSUME NEW t \in Threads, NEW i, NEW r \in MonitorRec, r = monitors[i], Linked(r)
  PROVE  /\ Unlisted(i, t) \in Seq(Threads) /\ Once(Unlisted(i, t))
         /\ \A u : In(Unlisted(i, t), u) <=> In(r.toWakeup_, u) /\ u # t
<1>1. r.waiters_ \in Seq(Threads) /\ r.toWakeup_ \in Seq(Threads) /\ Once(r.toWakeup_)
  BY DEF MonitorRec, Linked
<1>2. Contains(r.waiters_, t) <=> In(r.waiters_, t)
  <2>1. DOMAIN r.waiters_ = 1 .. Len(r.waiters_)
    BY <1>1
  <2>2. QED
    BY <2>1 DEF Contains, In
<1>3. CASE In(r.waiters_, t)
  <2>1. Unlisted(i, t) = r.toWakeup_ /\ ~In(r.toWakeup_, t)
    BY <1>2, <1>3 DEF Unlisted, Linked
  <2>2. QED
    BY <1>1, <2>1
<1>4. CASE ~In(r.waiters_, t)
  <2>1. Unlisted(i, t) = RemoveFirst(r.toWakeup_, t)
    BY <1>2, <1>4 DEF Unlisted
  <2>2. QED
    BY <1>1, <2>1, Removed
<1>5. QED
  BY <1>3, <1>4

LEMMA StepWaitDone ==
  ASSUME IInv, NEW t \in Threads, WaitDone(t)
  PROVE  Core'
<1>1. /\ Known(t) /\ pc[t] = "waitdone" /\ pc[t] \in InMonitor /\ op[t] \in Waits
      /\ held[t] \in 0 .. MaxDepth /\ held[t] > 0 /\ Waiting(t) /\ saved[t] = held[t]
  BY Knowledge
     DEF WaitDone, At, Known, Fits, OpFits, InMonitor, LevelFits, Waiting, InWait, Waits
<1>2. /\ mark.id = mon[t] /\ mark.state = "heavy" /\ mark.id \in Ids
      /\ Current = monitors[mon[t]] /\ Current \in MonitorRec
  BY <1>1, MonitorInUse DEF IInv
<1>3. PICK r \in MonitorRec : r = Current
  BY <1>2
<1>4. PICK a : a = RemoveFirst(r.waiters_, t)
  OBVIOUS
<1>5. PICK b : b = Unlisted(mon[t], t)
  OBVIOUS
<1>6. PICK c : c = r.waitersCounter_ - 1
  OBVIOUS
<1>7. PICK n \in Int : n = saved[t]
  BY <1>1
<1>8. PICK m : m = Left(r, n, c, a, b)
  OBVIOUS
<1>9. Linked(r)
  BY <1>2, <1>3 DEF IInv, Lists
<1>10. /\ a \in Seq(Threads) /\ Once(a) /\ (\A u : In(a, u) <=> In(r.waiters_, u) /\ u # t)
       /\ b \in Seq(Threads) /\ Once(b) /\ (\A u : In(b, u) <=> In(r.toWakeup_, u) /\ u # t)
       /\ c \in Int
  <2>1. r.waiters_ \in Seq(Threads) /\ c \in Int
    BY <1>3, <1>6 DEF MonitorRec
  <2>2. Once(r.waiters_)
    BY <1>9 DEF Linked
  <2>3. a \in Seq(Threads) /\ Once(a) /\ (\A u : In(a, u) <=> In(r.waiters_, u) /\ u # t)
    BY <1>4, <2>1, <2>2, Removed
  <2>4. b \in Seq(Threads) /\ Once(b) /\ (\A u : In(b, u) <=> In(r.toWakeup_, u) /\ u # t)
    BY <1>2, <1>3, <1>5, <1>9, UnlistedMakes
  <2>5. QED
    BY <2>1, <2>3, <2>4
<1>11. Fields(m, r.owner_, r.lock_, n, c) /\ Rest(m, r.hashCode_, a, b)
  BY <1>3, <1>7, <1>8, <1>10, LeftMakes
<1>12. /\ monitors' = [monitors EXCEPT ![mark.id] = m] /\ mark' = mark
       /\ waitingMonitor_' = [waitingMonitor_ EXCEPT ![t] = None] /\ Return(t)
       /\ UNCHANGED <<held, interrupted, monitorCount_, suspendCount_, gcVars, hashes>>
  BY <1>2, <1>3, <1>4, <1>5, <1>6, <1>7, <1>8 DEF WaitDone, Left
<1>13. /\ Current' = m /\ Current' \in MonitorRec /\ monitors' \in [Ids -> MonitorRec \cup {Free}]
       /\ \A i \in Ids \ {mark.id} : monitors'[i] = monitors[i]
  BY <1>2, <1>11, <1>12, Worked DEF IInv, Fields
<1>14. r.owner_ = t /\ r.lock_ = t
  <2>1. Owns(t)
    BY <1>1 DEF Owns, Gone, Taken
  <2>2. QED
    BY <1>2, <1>3, <2>1, LockFacts
<1>15. /\ Local(t) /\ LocalTypes' /\ Others(t) /\ held'[t] = held[t]
       /\ Becomes(t, "managed", "none", Unlocked, None, None, 0)
  <2>1. Unlocked \in Marks /\ "managed" \in Labels /\ "none" \in OpNames
    BY MarkMade DEF Labels, OpNames
  <2>2. pc' \in [Threads -> Labels] /\ op' \in [Threads -> OpNames]
    BY <1>1, <1>12, <2>1 DEF Known, LocalTypes, Return, Goto
  <2>3. seen' \in [Threads -> Marks] /\ mon' \in [Threads -> Ids \cup {None}]
    BY <1>1, <1>12, <2>1 DEF Known, LocalTypes, Return
  <2>4. target' \in [Threads -> Threads \cup {None}] /\ saved' \in [Threads -> Int]
    BY <1>1, <1>12 DEF Known, LocalTypes, Return
  <2>5. waitingMonitor_' \in [Threads -> Ids \cup {None}]
    BY <1>1, <1>12 DEF Known, LocalTypes
  <2>6. LocalTypes'
    BY <1>1, <1>12, <2>2, <2>3, <2>4, <2>5 DEF Known, LocalTypes
  <2>7. Others(t)
    BY <1>1, <1>12 DEF Known, LocalTypes, Others, Untouched, Return, Goto
  <2>8. Becomes(t, "managed", "none", Unlocked, None, None, 0)
    BY <1>1, <1>12 DEF Known, LocalTypes, Return, Goto, Becomes
  <2>9. Fits(t)'
    BY <2>8 DEF Becomes, Fits, OpFits, SeenFits, TargetFits, InMonitor
  <2>10. QED
    BY <1>12, <2>6, <2>7, <2>8, <2>9 DEF Local
<1>16. LevelFits(t)'
  BY <1>1, <1>15 DEF Becomes, LevelFits, Waiting, InWait, InMonitor, Enters, Waits
<1>17. Work(t)
  BY <1>1, <1>2, <1>12, <1>13, <1>15, <1>16 DEF Work, Becomes, InUse, InMonitor, IInv, Types
<1>18. /\ ~Waiting(t)' /\ ~Drowsy(t)' /\ ~Blocked(t)' /\ ~Blocked(t) /\ Owns(t)' /\ ~Taken(t)'
       /\ Level(t)' = held[t]
  BY <1>1, <1>15
     DEF Becomes, Waiting, Drowsy, Blocked, InWait, Owns, Gone, Taken, Level, InMonitor
<1>19. SameHash /\ SameOwner
  BY <1>3, <1>11, <1>12, <1>13 DEF SameHash, SameOwner, Fields, Rest
<1>20. Lock'
  <2>1. t # None
    BY MonitorAssumption
  <2>2. m.owner_ = t /\ m.lock_ = t /\ m.recursiveCounter_ = held[t]
    BY <1>1, <1>7, <1>11, <1>14 DEF Fields
  <2>3. QED
    BY <1>3, <1>13, <1>14, <1>17, <1>18, <2>1, <2>2, WorkOnLock
<1>21. Counted'
  BY <1>1, <1>3, <1>6, <1>11, <1>13, <1>17, <1>18, WorkCounts DEF Fields
<1>22. Lists'
  <2>1. Linked(m)
    BY <1>9, <1>10, <1>11 DEF Linked, Rest
  <2>2. \A u \in Threads : ListedIn(m, u) <=> u # t /\ ListedIn(Current, u)
    BY <1>3, <1>10, <1>11 DEF ListedIn, Rest
  <2>3. ASSUME NEW u \in Threads, ListedIn(m, u) PROVE Waiting(u)'
    <3>1. u # t /\ Waiting(u)
      BY <1>2, <2>2, <2>3, ListedWaits
    <3>2. QED
      BY <1>15, <3>1, OthersKeep DEF SamePart
  <2>4. ASSUME NEW u \in Threads, Drowsy(u)'
        PROVE  ListedIn(m, u) \/ \E x \in Threads : pc'[x] = "signal" /\ target'[x] = u
    <3>1. u # t /\ Drowsy(u)
      BY <1>15, <1>18, <2>4, OthersKeep DEF SamePart
    <3>2. CASE ListedIn(Current, u)
      BY <2>2, <3>1, <3>2
    <3>3. CASE \E x \in Threads : pc[x] = "signal" /\ target[x] = u
      <4>1. PICK x \in Threads : pc[x] = "signal" /\ target[x] = u
        BY <3>3
      <4>2. x # t
        BY <1>1, <4>1
      <4>3. QED
        BY <1>15, <4>1, <4>2, OthersKeep
    <3>4. QED
      BY <1>2, <3>1, <3>2, <3>3 DEF IInv, Lists
  <2>5. QED
    BY <1>13, <2>1, <2>3, <2>4 DEF Lists
<1>23. QED
  BY <1>17, <1>19, <1>20, <1>21, <1>22, WorkKeeps, HashKept, TallyKept DEF Core

\* Notify and NotifyAll only move threads from one list to the other.
LEMMA ListsMoved ==
  ASSUME IInv, NEW t \in Threads, mark.state = "heavy", pc[t] = "managed",
         NEW r \in MonitorRec, r = Current, NEW a \in Seq(Threads), NEW b \in Seq(Threads),
         NEW m, m = Picked(r, a, b), monitors' = [monitors EXCEPT ![mark.id] = m],
         UNCHANGED <<mark, locals, threadVars, gcVars, hashes>>,
         Once(a), Once(b), \A u \in Threads : ~ (In(a, u) /\ In(b, u)),
         \A u \in Threads : ListedIn(r, u) <=> In(a, u) \/ In(b, u)
  PROVE  Core'
<1>1. Known(t)
  BY Knowledge
<1>2. /\ Fields(m, r.owner_, r.lock_, r.recursiveCounter_, r.waitersCounter_)
      /\ Rest(m, r.hashCode_, a, b)
  BY PickedMakes
<1>3. UNCHANGED <<mark, pc, op, seen, mon, target, saved, held, waitingMonitor_, interrupted,
                  monitorCount_, suspendCount_, gcVars, hashes>>
  BY DEF locals, threadVars
<1>4. /\ Current' = m /\ Current' \in MonitorRec /\ monitors' \in [Ids -> MonitorRec \cup {Free}]
      /\ \A i \in Ids \ {mark.id} : monitors'[i] = monitors[i]
  BY <1>2, <1>3, Worked DEF IInv, Fields
<1>5. LocalTypes' /\ Others(t) /\ Untouched(t)
  BY <1>1, <1>3 DEF Known, LocalTypes, Others, Untouched
<1>6. Fits(t)' /\ LevelFits(t)' /\ InUse(t)' /\ \A u \in Threads : SamePart(u)
  BY <1>1, <1>3, <1>5, UntouchedKeeps, OthersKeep DEF Known, InUse
<1>7. Work(t)
  BY <1>3, <1>4, <1>5, <1>6 DEF Work, Local, IInv, Types
<1>8. SameHash /\ SameOwner
  BY <1>2, <1>3, <1>4 DEF SameHash, SameOwner, Fields, Rest
<1>9. Lock'
  <2>1. /\ CurOwner' = CurOwner /\ CurLock' = CurLock /\ CurCount' = CurCount
    BY <1>2, <1>3, <1>4 DEF CurOwner, CurLock, CurCount, Fields
  <2>2. QED
    BY <1>6, <2>1 DEF IInv, Lock, SamePart
<1>10. Counted'
  BY <1>2, <1>4, <1>6, <1>7, WorkCounts DEF Fields, SamePart
<1>11. Lists'
  <2>1. Linked(m) /\ (\A u \in Threads : ListedIn(m, u) <=> ListedIn(Current, u))
    BY <1>2 DEF Linked, ListedIn, Rest
  <2>2. \A u \in Threads :
          /\ ListedIn(Current, u) => Waiting(u)
          /\ Drowsy(u) => ListedIn(Current, u)
                            \/ \E v \in Threads : pc[v] = "signal" /\ target[v] = u
    BY DEF IInv, Lists
  <2>3. QED
    BY <1>3, <1>4, <1>6, <2>1, <2>2 DEF Lists, SamePart
<1>12. QED
  BY <1>7, <1>8, <1>9, <1>10, <1>11, WorkKeeps, HashKept, TallyKept DEF Core

LEMMA StepNotify ==
  ASSUME IInv, NEW t \in Threads, Notify(t)
  PROVE  Core'
<1>1. /\ mark.state = "heavy" /\ pc[t] = "managed" /\ Current.waiters_ # <<>>
      /\ UNCHANGED <<mark, locals, threadVars, gcVars, hashes>>
  BY DEF Notify, At, Current
<1>2. mark.id \in Ids /\ Current = monitors[mark.id] /\ Current \in MonitorRec
  BY <1>1, CurrentLive DEF IInv, Current
<1>3. PICK r \in MonitorRec : r = Current
  BY <1>2
<1>4. PICK a : a = Tail(r.waiters_)
  OBVIOUS
<1>5. PICK b : b = <<Head(r.waiters_)>> \o r.toWakeup_
  OBVIOUS
<1>6. PICK m : m = Picked(r, a, b)
  OBVIOUS
<1>7. monitors' = [monitors EXCEPT ![mark.id] = m]
  BY <1>2, <1>3, <1>4, <1>5, <1>6 DEF Notify, Picked
<1>8. Linked(r) /\ r.waiters_ \in Seq(Threads) /\ r.toWakeup_ \in Seq(Threads) /\ r.waiters_ # <<>>
  BY <1>1, <1>3 DEF IInv, Lists, MonitorRec
<1>9. /\ a \in Seq(Threads) /\ Head(r.waiters_) \in Threads /\ In(r.waiters_, Head(r.waiters_))
      /\ (\A u : In(a, u) => In(r.waiters_, u)) /\ Once(a) /\ ~In(a, Head(r.waiters_))
      /\ \A u : In(r.waiters_, u) => u = Head(r.waiters_) \/ In(a, u)
  BY <1>4, <1>8, HeadAndTail DEF Linked
<1>10. ~In(r.toWakeup_, Head(r.waiters_)) /\ Once(r.toWakeup_)
  BY <1>8, <1>9 DEF Linked
<1>11. /\ b \in Seq(Threads) /\ Once(b)
       /\ \A u : In(b, u) <=> u = Head(r.waiters_) \/ In(r.toWakeup_, u)
  BY <1>5, <1>8, <1>9, <1>10, Prepended
<1>12. /\ \A u \in Threads : ~ (In(a, u) /\ In(b, u))
       /\ \A u \in Threads : ListedIn(r, u) <=> In(a, u) \/ In(b, u)
  BY <1>8, <1>9, <1>11 DEF Linked, ListedIn
<1>13. QED
  BY <1>1, <1>3, <1>6, <1>7, <1>9, <1>11, <1>12, ListsMoved

LEMMA StepNotifyAll ==
  ASSUME IInv, NEW t \in Threads, NotifyAll(t)
  PROVE  Core'
<1>1. /\ mark.state = "heavy" /\ pc[t] = "managed"
      /\ UNCHANGED <<mark, locals, threadVars, gcVars, hashes>>
  BY DEF NotifyAll, At
<1>2. mark.id \in Ids /\ Current = monitors[mark.id] /\ Current \in MonitorRec
  BY <1>1, CurrentLive DEF IInv, Current
<1>3. PICK r \in MonitorRec : r = Current
  BY <1>2
<1>4. PICK b : b = r.toWakeup_ \o r.waiters_
  OBVIOUS
<1>5. PICK a \in Seq(Threads) : a = <<>>
  BY EmptyList
<1>6. PICK m : m = Picked(r, a, b)
  OBVIOUS
<1>7. monitors' = [monitors EXCEPT ![mark.id] = m]
  BY <1>2, <1>3, <1>4, <1>5, <1>6 DEF NotifyAll, Picked
<1>8. Linked(r) /\ r.waiters_ \in Seq(Threads) /\ r.toWakeup_ \in Seq(Threads)
  BY <1>1, <1>3 DEF IInv, Lists, MonitorRec
<1>9. Once(a) /\ (\A u : ~In(a, u))
  BY <1>5, EmptyList
<1>10. /\ b \in Seq(Threads) /\ Once(b)
       /\ \A u : In(b, u) <=> In(r.toWakeup_, u) \/ In(r.waiters_, u)
  BY <1>4, <1>8, Appended DEF Linked
<1>11. /\ \A u \in Threads : ~ (In(a, u) /\ In(b, u))
       /\ \A u \in Threads : ListedIn(r, u) <=> In(a, u) \/ In(b, u)
  BY <1>9, <1>10 DEF ListedIn
<1>12. QED
  BY <1>1, <1>3, <1>5, <1>6, <1>7, <1>9, <1>10, <1>11, ListsMoved

LEMMA StepHashHeavy ==
  ASSUME IInv, NEW t \in Threads, HashHeavy(t)
  PROVE  Core'
<1>1. Known(t) /\ pc[t] = "hash" /\ op[t] = "hash" /\ mark.state = "heavy"
  BY Knowledge DEF HashHeavy, At, Known, Fits, OpFits
<1>2. mark.id \in Ids /\ Current = monitors[mark.id] /\ Current \in MonitorRec
  BY <1>1, CurrentLive DEF IInv, Current
<1>3. PICK r \in MonitorRec : r = Current
  BY <1>2
<1>4. PICK h \in Hashes : /\ r.hashCode_ # None => h = r.hashCode_
                          /\ monitors' = [monitors EXCEPT ![mark.id].hashCode_ = h]
                          /\ hashes' = hashes \cup {h}
  BY <1>2, <1>3 DEF HashHeavy
<1>5. PICK m : m = WithHash(r, h)
  OBVIOUS
<1>6. /\ Fields(m, r.owner_, r.lock_, r.recursiveCounter_, r.waitersCounter_)
      /\ Rest(m, h, r.waiters_, r.toWakeup_)
  BY <1>3, <1>5, WithHashMakes
<1>7. /\ monitors' = [monitors EXCEPT ![mark.id] = m] /\ mark' = mark /\ Return(t)
      /\ UNCHANGED <<held, waitingMonitor_, interrupted, monitorCount_, suspendCount_, gcVars>>
  BY <1>2, <1>3, <1>4, <1>5 DEF HashHeavy, WithHash, threadVars
<1>8. /\ Current' = m /\ Current' \in MonitorRec /\ monitors' \in [Ids -> MonitorRec \cup {Free}]
      /\ \A i \in Ids \ {mark.id} : monitors'[i] = monitors[i]
  BY <1>1, <1>6, <1>7, Worked DEF IInv, Fields
<1>9. Local(t) /\ Becomes(t, "managed", "none", Unlocked, None, None, 0) /\ held'[t] = held[t]
  <2>1. held' \in [Threads -> Int] /\ (\A u \in Threads \ {t} : held'[u] = held[u])
    BY <1>1, <1>7 DEF Known, LocalTypes
  <2>2. QED
    BY <1>1, <1>7, <2>1, ReturnMakes DEF Known, Becomes
<1>10. LevelFits(t)'
  BY <1>1, <1>9 DEF Becomes, Known, LevelFits, Waiting, InWait, InMonitor, Enters, Waits
<1>11. Work(t)
  BY <1>1, <1>2, <1>7, <1>8, <1>9, <1>10 DEF Work, Becomes, InUse, InMonitor, IInv, Types
<1>12. /\ ~Waiting(t) /\ ~Waiting(t)' /\ ~Drowsy(t)' /\ ~Blocked(t) /\ ~Blocked(t)'
       /\ (Owns(t)' <=> Owns(t)) /\ ~Taken(t) /\ ~Taken(t)' /\ Level(t)' = Level(t)
  BY <1>1, <1>9
     DEF Becomes, Waiting, Drowsy, Blocked, InWait, Owns, Gone, Taken, Level, InMonitor
<1>13. SameLists(t) /\ SameOwner
  BY <1>3, <1>6, <1>7, <1>8, <1>12 DEF SameLists, SameOwner, Fields, Rest
<1>14. Lock'
  <2>1. /\ Owns(t) <=> r.owner_ = t
        /\ Owns(t) <=> r.lock_ = t
        /\ Owns(t) => r.recursiveCounter_ = Level(t)
        /\ r.owner_ = None => r.recursiveCounter_ = 0
    BY <1>1, <1>3, <1>12, LockFacts
  <2>2. QED
    BY <1>3, <1>6, <1>8, <1>11, <1>12, <2>1, WorkOnLock DEF Fields
<1>15. Counted'
  BY <1>3, <1>6, <1>8, <1>11, <1>12, WorkCounts DEF Fields
<1>16. Hash' /\ hashes' \in SUBSET Hashes
  <2>1. CurHash = r.hashCode_ /\ CurHash' = h
    BY <1>1, <1>3, <1>6, <1>7, <1>8 DEF CurHash, Rest
  <2>2. \A g \in hashes : g = h
    BY <1>4, <2>1, MonitorAssumption DEF IInv, Hash, Types
  <2>3. QED
    BY <1>4, <2>1, <2>2 DEF Hash, IInv, Types
<1>17. QED
  BY <1>11, <1>13, <1>14, <1>15, <1>16, WorkKeeps, ListsKept, TallyKept DEF Core

-----------------------------------------------------------------------------
(* Inflation.                                                              *)

LEMMA LightLevel ==
  ASSUME IInv, NEW o \in Threads, LightLockedBy(mark, o)
  PROVE  mark.count <= MaxDepth
<1>1. Level(o) = mark.count /\ Owns(o)
  BY LightIsHeld DEF IInv
<1>2. held[o] \in 0 .. MaxDepth
  BY DEF IInv, Levels, LevelFits
<1>3. QED
  BY <1>1, <1>2, MonitorAssumption DEF Level

LEMMA StepInflateCreate ==
  ASSUME IInv, NEW t \in Threads, InflateCreate(t)
  PROVE  Core'
<1>1. /\ Known(t) /\ pc[t] = "inflate" /\ op[t] \in Enters \cup Waits \cup {"hash"}
      /\ target[t] \in Threads /\ mark \in Marks
  BY Knowledge DEF InflateCreate, Jump, At, Known, Fits, OpFits, TargetFits
<1>2. /\ mark.state # "heavy"
      /\ mark.state = "light" => mark.tid = target[t]
      /\ target[t] # t => mark.state = "light"
  BY DEF InflateCreate, InflateNot, LightLockedBy
<1>3. mark.state = "light" => mark.count \in 1 .. LightMax - 1 /\ mark.count <= MaxDepth
  BY <1>1, <1>2, MarkCases, LightLevel DEF LightLockedBy
<1>4. PICK n : n = IF mark.state = "light" THEN mark.count ELSE 1
  OBVIOUS
<1>5. PICK h : h = IF mark.state = "hashed" THEN mark.hash ELSE None
  OBVIOUS
<1>6. PICK m : m = Created(target[t], n, h)
  OBVIOUS
<1>7. n \in Int /\ h \in Hashes \cup {None}
  BY <1>1, <1>3, <1>4, <1>5, MarkCases
<1>8. PICK i \in Ids : /\ ~monitors[i].live /\ monitors' = [monitors EXCEPT ![i] = m]
                       /\ mon' = [mon EXCEPT ![t] = i]
  BY <1>4, <1>5, <1>6 DEF InflateCreate
<1>9. /\ seen' = [seen EXCEPT ![t] = mark] /\ pc' = [pc EXCEPT ![t] = "publish"]
      /\ UNCHANGED <<mark, op, target, saved, held, waitingMonitor_, interrupted, monitorCount_,
                     suspendCount_, gcVars, hashes>>
  BY DEF InflateCreate, Jump, Goto, threadVars
<1>10. m \in MonitorRec /\ m.live /\ monitors' \in [Ids -> MonitorRec \cup {Free}]
  <2>1. m \in MonitorRec
    BY <1>1, <1>6, <1>7, CreatedMade
  <2>2. monitors \in [Ids -> MonitorRec \cup {Free}]
    BY DEF IInv, Types
  <2>3. QED
    BY <1>8, <2>1, <2>2, MonitorFields
<1>11. LocalTypes' /\ Others(t) /\ Becomes(t, "publish", op[t], mark, i, target[t], saved[t])
  <2>1. "publish" \in Labels
    BY DEF Labels
  <2>2. LocalTypes'
    BY <1>1, <1>8, <1>9, <2>1 DEF Known, LocalTypes
  <2>3. Others(t)
    BY <1>1, <1>8, <1>9 DEF Known, LocalTypes, Others, Untouched
  <2>4. QED
    BY <1>1, <1>8, <1>9, <2>2, <2>3 DEF Known, LocalTypes, Becomes
<1>12. Fits(t)' /\ LevelFits(t)'
  <2>1. Fits(t)'
    BY <1>1, <1>2, <1>8, <1>11, MonitorAssumption
       DEF Known, Becomes, Fits, OpFits, SeenFits, TargetFits, InMonitor, Enters, Waits
  <2>2. LevelFits(t)'
    BY <1>1, <1>3, <1>9, <1>11
       DEF Known, Becomes, LevelFits, Waiting, InWait, InMonitor, Enters, Waits
  <2>3. QED
    BY <2>1, <2>2
<1>13. Control' /\ Levels'
  BY <1>11, <1>12, LocalKeeps DEF IInv, Local
<1>14. Types'
  BY <1>9, <1>10, <1>11 DEF IInv, Types, LocalTypes, gcVars
<1>15. ASSUME NEW u \in Threads, u # t
       PROVE  /\ pc'[u] = "publish" <=> pc[u] = "publish"
              /\ pc'[u] \in InMonitor <=> pc[u] \in InMonitor
              /\ mon'[u] = mon[u] /\ target'[u] = target[u] /\ seen'[u] = seen[u]
  BY <1>11, <1>15, OthersKeep DEF SamePart
<1>16. \A j : mark # Heavy(j)
  BY <1>2, MarkMade
<1>17. ASSUME NEW u \in Threads, pc[u] = "publish" PROVE mon[u] # i /\ mon[u] \in Ids
  <2>1. mon[u] \in Ids
    BY <1>17 DEF IInv, Control, Fits, Types
  <2>2. monitors[mon[u]].live
    BY <1>17, <2>1 DEF IInv, Memory
  <2>3. QED
    BY <1>8, <2>1, <2>2
<1>18. monitors'[i] = m /\ (\A j \in Ids \ {i} : monitors'[j] = monitors[j])
  BY <1>8 DEF IInv, Types
<1>19. Memory'
  <2>1. ASSUME NEW u \in Threads PROVE InUse(u)' /\ New(u)'
    <3>1. InUse(u)'
      <4>1. pc[u] \notin InMonitor
        BY <1>16 DEF IInv, Memory, InUse
      <4>2. pc'[u] \notin InMonitor
        BY <1>11, <1>15, <4>1 DEF Becomes, InMonitor
      <4>3. QED
        BY <4>2 DEF InUse
    <3>2. CASE u = t
      BY <1>4, <1>5, <1>6, <1>9, <1>11, <1>16, <1>18, <3>1, <3>2 DEF Becomes, New
    <3>3. CASE u # t
      <4>1. SUFFICES ASSUME pc[u] = "publish" PROVE New(u)'
        BY <1>15, <3>1, <3>3 DEF New
      <4>2. monitors'[mon[u]] = monitors[mon[u]]
        BY <1>17, <1>18, <4>1
      <4>3. monitors[mon[u]] =
              Created(target[u], IF seen[u].state = "light" THEN seen[u].count ELSE 1,
                      IF seen[u].state = "hashed" THEN seen[u].hash ELSE None)
        BY <4>1 DEF IInv, Memory, New
      <4>4. QED
        BY <1>9, <1>15, <1>16, <3>3, <4>2, <4>3 DEF New
    <3>4. QED
      BY <3>2, <3>3
  <2>2. ASSUME NEW a \in Threads, NEW b \in Threads,
               pc'[a] = "publish", pc'[b] = "publish", mon'[a] = mon'[b]
        PROVE  a = b
    <3>1. mon'[t] = i
      BY <1>11 DEF Becomes
    <3>2. CASE a = t \/ b = t
      BY <1>15, <1>17, <2>2, <3>1, <3>2
    <3>3. CASE a # t /\ b # t
      BY <1>15, <2>2, <3>3 DEF IInv, Memory
    <3>4. QED
      BY <3>2, <3>3
  <2>3. ASSUME NEW j \in Ids
        PROVE  monitors'[j].live <=>
                 mark' = Heavy(j) \/ \E u \in Threads : pc'[u] = "publish" /\ mon'[u] = j
    <3>1. CASE j = i
      BY <1>10, <1>11, <1>18, <3>1 DEF Becomes
    <3>2. CASE j # i
      <4>1. monitors[j].live <=> \E u \in Threads : pc[u] = "publish" /\ mon[u] = j
        BY <1>16 DEF IInv, Memory
      <4>2. pc[t] # "publish" /\ mon'[t] # j
        BY <1>1, <1>11, <3>2 DEF Becomes
      <4>3. monitors'[j] = monitors[j]
        BY <1>18, <3>2
      <4>4. QED
        BY <1>9, <1>15, <1>16, <4>1, <4>2, <4>3
    <3>3. QED
      BY <3>1, <3>2
  <2>4. QED
    BY <2>1, <2>2, <2>3 DEF Memory
<1>20. Lock'
  <2>1. CurOwner' = CurOwner /\ CurLock' = CurLock /\ CurCount' = CurCount
    BY <1>2, <1>9 DEF CurOwner, CurLock, CurCount
  <2>2. (Owns(t)' <=> Owns(t)) /\ (Taken(t)' <=> Taken(t)) /\ Level(t)' = Level(t)
    BY <1>1, <1>9, <1>11 DEF Becomes, Owns, Gone, Taken, Level, Waiting, InWait, InMonitor
  <2>3. /\ Owns(t) <=> CurOwner = t
        /\ Owns(t) \/ Taken(t) <=> CurLock = t
        /\ CurOwner = t => CurCount = Level(t)
        /\ CurOwner = None => CurCount = 0
    BY DEF IInv, Lock
  <2>4. QED
    BY <1>11, <2>1, <2>2, <2>3, LockStep DEF IInv
<1>21. Counted' /\ Lists' /\ Tally' /\ Hash'
  BY <1>2, <1>9 DEF IInv, Counted, Lists, Tally, HeavyOwner, Hash, CurHash
<1>22. QED
  BY <1>13, <1>14, <1>19, <1>20, <1>21 DEF Core
\* What the caller of Inflate does after the exchange.  The one that had no
\* light lock to keep has entered.
Caught(t, ok) == target[t] = t /\ op[t] \in Enters /\ ok /\ seen[t].state # "light"

LEMMA InflatedMakes ==
  ASSUME NEW t \in Threads, Known(t), pc[t] = "publish", NEW ok \in BOOLEAN,
         Inflated(t, ok, seen[t]), UNCHANGED waitingMonitor_
  PROVE  /\ Local(t) /\ LevelFits(t)'
         /\ pc'[t] \in {"managed", "enter", "hash", "wait", "resume"}
         /\ held'[t] = IF Caught(t, ok) THEN held[t] + 1 ELSE held[t]
<1>1. op[t] \in Enters \cup Waits \cup {"hash"} /\ target[t] \in Threads /\ LocalTypes
  BY DEF Known, Fits, OpFits, TargetFits
<1>2. held \in [Threads -> Int] /\ held[t] \in 0 .. MaxDepth
  BY DEF Known, LocalTypes, LevelFits
<1>3. CASE target[t] # t
  <2>1. /\ pc' = [pc EXCEPT ![t] = "resume"] /\ seen' = [seen EXCEPT ![t] = Unlocked]
        /\ mon' = [mon EXCEPT ![t] = None] /\ UNCHANGED <<held, op, target, saved>>
    BY <1>3 DEF Inflated, Goto
  <2>2. "resume" \in Labels /\ Unlocked \in Marks
    BY MarkMade DEF Labels
  <2>3. LocalTypes'
    BY <1>1, <2>1, <2>2 DEF LocalTypes
  <2>4. Others(t) /\ Becomes(t, "resume", op[t], Unlocked, None, target[t], saved[t])
    BY <1>1, <2>1 DEF LocalTypes, Others, Untouched, Becomes
  <2>5. op[t] \in {"enter", "hash"}
    BY <1>3 DEF Known, Fits, TargetFits
  <2>6. Fits(t)'
    BY <1>1, <1>3, <2>4, <2>5 DEF Becomes, Fits, OpFits, SeenFits, TargetFits, InMonitor
  <2>7. LevelFits(t)'
    BY <1>1, <2>1, <2>4 DEF Known, Becomes, LevelFits, Waiting, InWait, InMonitor, Enters, Waits
  <2>8. QED
    BY <1>3, <2>1, <2>3, <2>4, <2>6, <2>7 DEF Local, Becomes, Caught
<1>4. CASE Caught(t, ok)
  <2>1. Return(t) /\ held' = [held EXCEPT ![t] = @ + 1]
    BY <1>4 DEF Inflated, Caught, Entered, Enters
  <2>2. held' \in [Threads -> Int] /\ (\A u \in Threads \ {t} : held'[u] = held[u])
        /\ held'[t] = held[t] + 1
    BY <1>2, <2>1
  <2>3. Local(t) /\ Becomes(t, "managed", "none", Unlocked, None, None, 0)
    BY <1>1, <2>1, <2>2, ReturnMakes DEF Becomes
  <2>4. held'[t] \in 0 .. MaxDepth
    BY <1>2, <1>4, <2>2, MonitorAssumption DEF Known, LevelFits, Caught
  <2>5. LevelFits(t)'
    BY <2>3, <2>4 DEF Becomes, LevelFits, Waiting, InWait, InMonitor, Enters, Waits
  <2>6. QED
    BY <1>4, <2>2, <2>3, <2>5 DEF Becomes
<1>5. CASE target[t] = t /\ ~Caught(t, ok) /\ op[t] = "tryenter"
  <2>1. Return(t) /\ held' = held
    BY <1>5 DEF Inflated, Caught, Enters
  <2>2. Local(t) /\ Becomes(t, "managed", "none", Unlocked, None, None, 0)
    BY <1>1, <1>2, <2>1, ReturnMakes DEF Becomes
  <2>3. LevelFits(t)'
    BY <1>2, <2>1, <2>2 DEF Becomes, LevelFits, Waiting, InWait, InMonitor, Enters, Waits
  <2>4. QED
    BY <1>5, <2>1, <2>2, <2>3 DEF Becomes
<1>6. CASE target[t] = t /\ ~Caught(t, ok) /\ op[t] # "tryenter"
  <2>1. Loop(t) /\ held' = held
    BY <1>6 DEF Inflated, Caught, Enters
  <2>2. /\ Local(t) /\ Becomes(t, pc'[t], op[t], Unlocked, None, None, saved[t])
        /\ pc'[t] \in {"enter", "hash", "wait"}
    BY <1>1, <2>1, LoopMakes DEF Becomes
  <2>3. LevelFits(t)'
    BY <1>2, <2>1, <2>2 DEF Known, Becomes, LevelFits, Waiting, InWait, InMonitor, Enters, Waits
  <2>4. QED
    BY <1>6, <2>1, <2>2, <2>3 DEF Becomes
<1>7. QED
  BY <1>3, <1>4, <1>5, <1>6 DEF Caught

\* The part in the lock of a thread that leaves Inflate.
LEMMA PublishPart ==
  ASSUME NEW t \in Threads, pc[t] = "publish",
         pc'[t] \in {"managed", "enter", "hash", "wait", "resume"}
  PROVE  /\ ~Blocked(t) /\ ~Waiting(t) /\ ~Taken(t) /\ ~Drowsy(t)
         /\ (Owns(t) <=> held[t] > 0) /\ Level(t) = held[t]
         /\ ~Blocked(t)' /\ ~Waiting(t)' /\ ~Taken(t)' /\ ~Drowsy(t)'
         /\ (Owns(t)' <=> held'[t] > 0) /\ Level(t)' = held'[t]
         /\ pc'[t] \notin InMonitor
BY DEF Blocked, Waiting, Taken, Drowsy, Owns, Gone, Level, InMonitor

\* Only one thread knows a Monitor that is not published.
LEMMA Publishers ==
  ASSUME IInv, NEW t \in Threads, pc[t] = "publish"
  PROVE  /\ mon[t] \in Ids /\ mark # Heavy(mon[t])
         /\ mark.state = "heavy" => mark.id \in Ids /\ mark.id # mon[t]
         /\ \A u \in Threads : pc[u] = "publish" /\ u # t => mon[u] \in Ids /\ mon[u] # mon[t]
<1>1. \A u \in Threads : pc[u] = "publish" => mon[u] \in Ids
  BY DEF IInv, Control, Fits, Types
<1>2. mark # Heavy(mon[t])
  BY DEF IInv, Memory, New
<1>3. mark.state = "heavy" => mark.id \in Ids /\ mark.id # mon[t]
  BY <1>2, MarkCases DEF IInv, Types
<1>4. QED
  BY <1>1, <1>2, <1>3 DEF IInv, Memory

LEMMA StepPublishFails ==
  ASSUME IInv, NEW t \in Threads, InflatePublish(t), mark # seen[t]
  PROVE  Core'
<1>1. Known(t) /\ pc[t] = "publish"
  BY Knowledge DEF InflatePublish, At
<1>2. /\ monitors' = [monitors EXCEPT ![mon[t]] = Free] /\ Inflated(t, FALSE, seen[t])
      /\ UNCHANGED <<mark, monitorCount_, waitingMonitor_, interrupted, suspendCount_, gcVars,
                     hashes>>
  BY DEF InflatePublish
<1>3. /\ Local(t) /\ LevelFits(t)' /\ Others(t) /\ LocalTypes' /\ held'[t] = held[t]
      /\ pc'[t] \in {"managed", "enter", "hash", "wait", "resume"}
  <2>1. UNCHANGED waitingMonitor_ /\ FALSE \in BOOLEAN
    BY <1>2
  <2>2. QED
    BY <1>1, <1>2, <2>1, InflatedMakes DEF Caught, Local
<1>4. mon[t] \in Ids /\ mark # Heavy(mon[t])
      /\ (mark.state = "heavy" => mark.id \in Ids /\ mark.id # mon[t])
  BY <1>1, Publishers
<1>5. /\ monitors'[mon[t]] = Free /\ (\A j \in Ids \ {mon[t]} : monitors'[j] = monitors[j])
      /\ monitors' \in [Ids -> MonitorRec \cup {Free}]
  BY <1>2, <1>4 DEF IInv, Types
<1>6. mark.state = "heavy" => Current' = Current
  BY <1>2, <1>4, <1>5 DEF Current
<1>7. Types' /\ Control' /\ Levels'
  <2>1. Control' /\ Levels'
    BY <1>3, LocalKeeps DEF IInv
  <2>2. Types'
    BY <1>2, <1>3, <1>5 DEF IInv, Types, LocalTypes, gcVars
  <2>3. QED
    BY <2>1, <2>2
<1>8. ASSUME NEW u \in Threads, u # t
      PROVE  /\ pc'[u] = "publish" <=> pc[u] = "publish"
             /\ pc'[u] \in InMonitor <=> pc[u] \in InMonitor
             /\ mon'[u] = mon[u] /\ target'[u] = target[u] /\ seen'[u] = seen[u]
  BY <1>3, <1>8, OthersKeep DEF SamePart
<1>9. Memory'
  <2>1. pc'[t] \notin InMonitor /\ pc'[t] # "publish"
    BY <1>3 DEF InMonitor
  <2>2. ASSUME NEW u \in Threads PROVE InUse(u)' /\ New(u)'
    <3>1. CASE u = t
      BY <2>1, <3>1 DEF InUse, New
    <3>2. CASE u # t
      <4>1. InUse(u)'
        BY <1>2, <1>8, <3>2 DEF IInv, Memory, InUse
      <4>2. SUFFICES ASSUME pc[u] = "publish" PROVE New(u)'
        BY <1>8, <3>2, <4>1 DEF New
      <4>3. monitors'[mon[u]] = monitors[mon[u]]
        BY <1>1, <1>5, <3>2, <4>2, Publishers
      <4>4. /\ mark # Heavy(mon[u])
            /\ monitors[mon[u]] =
                 Created(target[u], IF seen[u].state = "light" THEN seen[u].count ELSE 1,
                         IF seen[u].state = "hashed" THEN seen[u].hash ELSE None)
        BY <4>2 DEF IInv, Memory, New
      <4>5. QED
        BY <1>2, <1>8, <3>2, <4>3, <4>4 DEF New
    <3>3. QED
      BY <3>1, <3>2
  <2>3. ASSUME NEW a \in Threads, NEW b \in Threads,
               pc'[a] = "publish", pc'[b] = "publish", mon'[a] = mon'[b]
        PROVE  a = b
    <3>1. a # t /\ b # t
      BY <2>1, <2>3
    <3>2. QED
      BY <1>8, <2>3, <3>1 DEF IInv, Memory
  <2>4. ASSUME NEW j \in Ids
        PROVE  monitors'[j].live <=>
                 mark' = Heavy(j) \/ \E u \in Threads : pc'[u] = "publish" /\ mon'[u] = j
    <3>1. CASE j = mon[t]
      <4>1. ~monitors'[j].live
        BY <1>5, <3>1, FreeMade
      <4>2. ASSUME NEW u \in Threads, pc'[u] = "publish" PROVE mon'[u] # j
        <5>1. u # t /\ pc[u] = "publish" /\ mon'[u] = mon[u]
          BY <1>8, <2>1, <4>2
        <5>2. QED
          BY <1>1, <3>1, <5>1, Publishers
      <4>3. QED
        BY <1>2, <1>4, <3>1, <4>1, <4>2
    <3>2. CASE j # mon[t]
      <4>1. monitors[j].live <=>
              mark = Heavy(j) \/ \E u \in Threads : pc[u] = "publish" /\ mon[u] = j
        BY DEF IInv, Memory
      <4>2. monitors'[j] = monitors[j]
        BY <1>5, <3>2
      <4>3. (\E u \in Threads : pc[u] = "publish" /\ mon[u] = j)
              <=> \E u \in Threads : pc'[u] = "publish" /\ mon'[u] = j
        BY <1>8, <2>1, <3>2
      <4>4. QED
        BY <1>2, <4>1, <4>2, <4>3
    <3>3. QED
      BY <3>1, <3>2
  <2>5. QED
    BY <2>2, <2>3, <2>4 DEF Memory
<1>10. /\ ~Blocked(t) /\ ~Waiting(t) /\ ~Taken(t) /\ (Owns(t) <=> held[t] > 0)
       /\ Level(t) = held[t] /\ ~Blocked(t)' /\ ~Waiting(t)' /\ ~Taken(t)' /\ ~Drowsy(t)'
       /\ (Owns(t)' <=> held[t] > 0) /\ Level(t)' = held[t]
  BY <1>1, <1>3, PublishPart
<1>11. Lock'
  <2>1. CurOwner' = CurOwner /\ CurLock' = CurLock /\ CurCount' = CurCount
    BY <1>2, <1>6 DEF CurOwner, CurLock, CurCount
  <2>2. /\ Owns(t) <=> CurOwner = t
        /\ Owns(t) \/ Taken(t) <=> CurLock = t
        /\ CurOwner = t => CurCount = Level(t)
        /\ CurOwner = None => CurCount = 0
    BY DEF IInv, Lock
  <2>3. QED
    BY <1>3, <1>10, <2>1, <2>2, LockStep DEF IInv
<1>12. Counted'
  <2>1. /\ Cardinality(BlockedSet)' = Cardinality(BlockedSet)
        /\ Cardinality(WaitingSet)' = Cardinality(WaitingSet)
    BY <1>3, <1>10, PartsCounted
  <2>2. QED
    BY <1>2, <1>6, <2>1 DEF IInv, Counted
<1>13. Tally' /\ Hash'
  BY <1>2, <1>6 DEF IInv, Tally, HeavyOwner, Hash, CurHash
<1>14. Lists'
  <2>1. SUFFICES ASSUME mark.state = "heavy" PROVE Lists'
    BY <1>2 DEF Lists
  <2>2. Current' = Current
    BY <1>6, <2>1
  <2>3. /\ Linked(Current)
        /\ \A u \in Threads :
             /\ ListedIn(Current, u) => Waiting(u)
             /\ Drowsy(u) => ListedIn(Current, u)
                               \/ \E v \in Threads : pc[v] = "signal" /\ target[v] = u
    BY <2>1 DEF IInv, Lists
  <2>4. ASSUME NEW u \in Threads
        PROVE  /\ ListedIn(Current, u) => Waiting(u)'
               /\ Drowsy(u)' => ListedIn(Current, u)
                                  \/ \E v \in Threads : pc'[v] = "signal" /\ target'[v] = u
    <3>1. CASE u = t
      BY <1>10, <2>3, <3>1
    <3>2. CASE u # t
      <4>1. (Waiting(u)' <=> Waiting(u)) /\ (Drowsy(u)' => Drowsy(u))
        BY <1>3, <3>2, OthersKeep DEF SamePart
      <4>2. \A v \in Threads : pc[v] = "signal" => pc'[v] = "signal" /\ target'[v] = target[v]
        BY <1>1, <1>3, OthersKeep
      <4>3. QED
        BY <2>3, <4>1, <4>2
    <3>3. QED
      BY <3>1, <3>2
  <2>5. QED
    BY <2>2, <2>3, <2>4 DEF Lists
<1>15. QED
  BY <1>7, <1>9, <1>11, <1>12, <1>13, <1>14 DEF Core

LEMMA StepPublishSucceeds ==
  ASSUME IInv, NEW t \in Threads, InflatePublish(t), mark = seen[t]
  PROVE  Core'
<1>1. /\ Known(t) /\ pc[t] = "publish" /\ op[t] \in Enters \cup Waits \cup {"hash"}
      /\ target[t] \in Threads /\ mark \in Marks
  BY Knowledge DEF InflatePublish, At, Known, Fits, OpFits, TargetFits
<1>2. /\ mark' = Heavy(mon[t]) /\ Inflated(t, TRUE, seen[t])
      /\ monitorCount_' = [monitorCount_ EXCEPT ![target[t]] = @ + 1]
      /\ UNCHANGED <<monitors, waitingMonitor_, interrupted, suspendCount_, gcVars, hashes>>
  BY DEF InflatePublish, AddMonitor
<1>3. /\ Local(t) /\ LevelFits(t)' /\ Others(t) /\ LocalTypes'
      /\ pc'[t] \in {"managed", "enter", "hash", "wait", "resume"}
      /\ held'[t] = IF Caught(t, TRUE) THEN held[t] + 1 ELSE held[t]
  <2>1. UNCHANGED waitingMonitor_ /\ TRUE \in BOOLEAN
    BY <1>2
  <2>2. QED
    BY <1>1, <1>2, <2>1, InflatedMakes DEF Local
<1>4. mon[t] \in Ids /\ mark'.state = "heavy" /\ mark'.id = mon[t] /\ mark' \in Marks
  BY <1>1, <1>2, Publishers, MarkMade
<1>5. /\ mark.state # "heavy" /\ (mark.state = "light" => mark.tid = target[t])
      /\ (target[t] # t => mark.state = "light")
  BY <1>1 DEF Known, Fits, SeenFits
<1>6. PICK n : n = IF mark.state = "light" THEN mark.count ELSE 1
  OBVIOUS
<1>7. PICK h : h = IF mark.state = "hashed" THEN mark.hash ELSE None
  OBVIOUS
<1>8. n \in Int /\ h \in Hashes \cup {None}
  BY <1>1, <1>6, <1>7, MarkCases
<1>9. Current' = Created(target[t], n, h)
  <2>1. Current' = monitors[mon[t]]
    BY <1>2, <1>4 DEF Current
  <2>2. QED
    BY <1>1, <1>6, <1>7, <2>1 DEF IInv, Memory, New
<1>10. /\ Current' \in MonitorRec /\ Current'.owner_ = target[t] /\ Current'.lock_ = target[t]
       /\ Current'.recursiveCounter_ = n /\ Current'.hashCode_ = h
       /\ Current'.waitersCounter_ = 0
       /\ Current'.waiters_ = <<>> /\ Current'.toWakeup_ = <<>>
  BY <1>1, <1>8, <1>9, CreatedMade
<1>11. \A i : mark # Heavy(i)
  BY <1>5, MarkMade
<1>12. ASSUME NEW u \in Threads
       PROVE  pc[u] \notin InMonitor /\ pc'[u] \notin InMonitor
  <2>1. pc[u] \notin InMonitor
    BY <1>11 DEF IInv, Memory, InUse
  <2>2. CASE u = t
    BY <1>3, <2>1, <2>2 DEF InMonitor
  <2>3. CASE u # t
    BY <1>3, <2>1, <2>3, OthersKeep
  <2>4. QED
    BY <2>1, <2>2, <2>3
<1>13. \A u \in Threads : ~Blocked(u)' /\ ~Waiting(u)' /\ ~Drowsy(u)'
  BY <1>12 DEF Blocked, Waiting, Drowsy, InMonitor
<1>14. Types' /\ Control' /\ Levels'
  <2>1. Control' /\ Levels'
    BY <1>3, LocalKeeps DEF IInv
  <2>2. monitorCount_' \in [Threads -> Int]
    BY <1>1, <1>2 DEF IInv, Types
  <2>3. Types'
    BY <1>2, <1>3, <1>4, <2>2 DEF IInv, Types, LocalTypes, gcVars
  <2>4. QED
    BY <2>1, <2>3
<1>15. ASSUME NEW u \in Threads, u # t
       PROVE  /\ pc'[u] = "publish" <=> pc[u] = "publish"
              /\ mon'[u] = mon[u] /\ target'[u] = target[u] /\ seen'[u] = seen[u]
  BY <1>3, <1>15, OthersKeep DEF SamePart
<1>16. Memory'
  <2>1. pc'[t] # "publish"
    BY <1>3
  <2>2. ASSUME NEW u \in Threads PROVE InUse(u)' /\ New(u)'
    <3>1. SUFFICES ASSUME u # t, pc[u] = "publish" PROVE New(u)'
      BY <1>12, <1>15, <2>1 DEF InUse, New
    <3>2. mark' # Heavy(mon[u])
      BY <1>1, <1>4, <3>1, Publishers, MarkMade
    <3>3. monitors[mon[u]] =
            Created(target[u], IF seen[u].state = "light" THEN seen[u].count ELSE 1,
                    IF seen[u].state = "hashed" THEN seen[u].hash ELSE None)
      BY <3>1 DEF IInv, Memory, New
    <3>4. QED
      BY <1>2, <1>15, <3>1, <3>2, <3>3 DEF New
  <2>3. ASSUME NEW a \in Threads, NEW b \in Threads,
               pc'[a] = "publish", pc'[b] = "publish", mon'[a] = mon'[b]
        PROVE  a = b
    <3>1. a # t /\ b # t
      BY <2>1, <2>3
    <3>2. QED
      BY <1>15, <2>3, <3>1 DEF IInv, Memory
  <2>4. ASSUME NEW j \in Ids
        PROVE  monitors'[j].live <=>
                 mark' = Heavy(j) \/ \E u \in Threads : pc'[u] = "publish" /\ mon'[u] = j
    <3>1. monitors[j].live <=> \E u \in Threads : pc[u] = "publish" /\ mon[u] = j
      BY <1>11 DEF IInv, Memory
    <3>2. CASE j = mon[t]
      BY <1>1, <1>2, <3>1, <3>2
    <3>3. CASE j # mon[t]
      <4>1. mark' # Heavy(j)
        BY <1>4, <3>3, MarkMade
      <4>2. (\E u \in Threads : pc[u] = "publish" /\ mon[u] = j)
              <=> \E u \in Threads : pc'[u] = "publish" /\ mon'[u] = j
        BY <1>15, <2>1, <3>3
      <4>3. QED
        BY <1>2, <3>1, <4>1, <4>2
    <3>4. QED
      BY <3>2, <3>3
  <2>5. QED
    BY <2>2, <2>3, <2>4 DEF Memory
<1>17. /\ ~Taken(t) /\ (Owns(t) <=> held[t] > 0) /\ Level(t) = held[t]
       /\ ~Taken(t)' /\ (Owns(t)' <=> held'[t] > 0) /\ Level(t)' = held'[t]
  BY <1>1, <1>3, PublishPart
<1>18. Lock'
  <2>1. CurOwner' = target[t] /\ CurLock' = target[t] /\ CurCount' = n
    BY <1>4, <1>10 DEF CurOwner, CurLock, CurCount
  <2>2. /\ Owns(t) <=> CurOwner = t
        /\ CurOwner = t => CurCount = Level(t)
    BY DEF IInv, Lock
  <2>3. None \notin Threads
    BY MonitorAssumption
  <2>4. CASE mark.state = "light"
    <3>1. CurOwner = target[t] /\ CurLock = target[t] /\ CurCount = n
      BY <1>5, <1>6, <2>4 DEF CurOwner, CurLock, CurCount
    <3>2. held'[t] = held[t]
      BY <1>3, <2>4 DEF Caught
    <3>3. /\ Owns(t)' <=> CurOwner' = t
          /\ Owns(t)' \/ Taken(t)' <=> CurLock' = t
          /\ CurOwner' = t => CurCount' = Level(t)'
      BY <1>17, <2>1, <2>2, <3>1, <3>2
    <3>4. QED
      BY <1>1, <1>3, <2>1, <2>3, <3>1, <3>3, LockStep DEF IInv
  <2>5. CASE mark.state # "light"
    <3>1. CurOwner = None /\ CurLock = None /\ n = 1 /\ target[t] = t
      BY <1>5, <1>6, <2>5 DEF CurOwner, CurLock
    <3>2. held[t] = 0
      BY <1>1, <1>17, <2>2, <2>3, <3>1 DEF Known, LevelFits
    <3>3. op[t] \in Enters
      BY <1>1, <3>1, <3>2 DEF Known, LevelFits
    <3>4. held'[t] = 1
      BY <1>3, <2>5, <3>1, <3>2, <3>3 DEF Caught
    <3>5. /\ Owns(t)' <=> CurOwner' = t
          /\ Owns(t)' \/ Taken(t)' <=> CurLock' = t
          /\ CurOwner' = t => CurCount' = Level(t)'
      BY <1>17, <2>1, <3>1, <3>4
    <3>6. QED
      BY <1>1, <1>3, <2>1, <2>3, <3>1, <3>5, LockStep DEF IInv
  <2>6. QED
    BY <2>4, <2>5
<1>19. Counted'
  <2>1. BlockedSet' = {} /\ WaitingSet' = {}
    BY <1>13 DEF BlockedSet, WaitingSet
  <2>2. Cardinality(BlockedSet)' = 0 /\ Cardinality(WaitingSet)' = 0
    BY <2>1, FS_EmptySet
  <2>3. QED
    BY <1>10, <2>2 DEF Counted
<1>20. Lists'
  <2>1. Linked(Current')
    BY <1>10, EmptyList DEF Linked
  <2>2. \A u \in Threads : ~ListedIn(Current', u)
    BY <1>10, EmptyList DEF ListedIn
  <2>3. QED
    BY <1>13, <2>1, <2>2 DEF Lists
<1>21. Tally'
  <2>1. HeavyOwner = None /\ HeavyOwner' = target[t] /\ None \notin Threads
    BY <1>4, <1>5, <1>10, MonitorAssumption DEF HeavyOwner
  <2>2. monitorCount_ \in [Threads -> Int] /\ \A u \in Threads : monitorCount_[u] = 0
    BY <2>1 DEF IInv, Types, Tally
  <2>3. \A u \in Threads : monitorCount_'[u] = IF u = target[t] THEN 1 ELSE 0
    BY <1>1, <1>2, <2>2
  <2>4. QED
    BY <2>1, <2>3 DEF Tally
<1>22. Hash'
  <2>1. CurHash' = CurHash
    BY <1>4, <1>5, <1>7, <1>10 DEF CurHash
  <2>2. QED
    BY <1>2, <2>1 DEF IInv, Hash
<1>23. QED
  BY <1>14, <1>16, <1>18, <1>19, <1>20, <1>21, <1>22 DEF Core

-----------------------------------------------------------------------------
(* Pauses of the garbage collector.                                        *)

\* A step of the collector that leaves the Monitors alone.
LEMMA CollectorKeeps ==
  ASSUME IInv, UNCHANGED <<mark, monitors, locals, threadVars, hashes>>,
         paused' \in BOOLEAN, unvisited' \in SUBSET Ids, Pausing'
  PROVE  IInv'
<1>1. UNCHANGED <<mark, monitors, pc, op, seen, mon, target, saved, held, waitingMonitor_,
                  interrupted, monitorCount_, suspendCount_, hashes>>
  BY DEF locals, threadVars
<1>2. Types'
  BY <1>1 DEF IInv, Types
<1>3. Control'
  BY <1>1 DEF IInv, Control, Fits
<1>4. Levels'
  BY <1>1 DEF IInv, Levels, LevelFits, Waiting, InWait
<1>5. Lock'
  BY <1>1 DEF IInv, Lock, CurOwner, CurLock, CurCount, Current, Owns, Taken, Gone, Level, Waiting,
     InWait
<1>6. Memory'
  <2>1. \A u \in Threads : InUse(u)' /\ New(u)'
    BY <1>1 DEF IInv, Memory, InUse, New
  <2>2. QED
    BY <1>1, <2>1 DEF IInv, Memory
<1>7. Counted'
  BY <1>1 DEF IInv, Counted, Current, BlockedSet, WaitingSet, Blocked, Waiting, InWait
<1>8. Suspended'
  BY <1>1 DEF IInv, Suspended, SuspendersOf, Suspends, Past, Parked
<1>9. Tally' /\ Hash'
  BY <1>1 DEF IInv, Tally, HeavyOwner, Hash, CurHash, Current
<1>10. Lists'
  <2>1. Current' = Current
    BY <1>1 DEF Current
  <2>2. \A u \in Threads : (Waiting(u)' <=> Waiting(u)) /\ (Drowsy(u)' <=> Drowsy(u))
    BY <1>1 DEF Waiting, Drowsy, InWait
  <2>3. QED
    BY <1>1, <2>1, <2>2 DEF IInv, Lists
<1>11. QED
  BY <1>2, <1>3, <1>4, <1>5, <1>6, <1>7, <1>8, <1>9, <1>10 DEF IInv

\* Nobody uses a Monitor that a pause can deflate.
LEMMA NobodyUses ==
  ASSUME IInv, NEW i \in unvisited, Deflatable(monitors[i])
  PROVE  /\ i \in Ids /\ mark = Heavy(i) /\ mark.state = "heavy" /\ mark.id = i
         /\ monitors[i] \in MonitorRec
         /\ \A u \in Threads : /\ pc[u] \notin InMonitor /\ pc[u] # "publish"
                               /\ ~Owns(u) /\ ~Taken(u)
<1>1. paused /\ i \in Ids /\ monitors[i].live /\ \A u \in Threads : Parked(u)
  BY DEF IInv, Pausing, Types
<1>2. \A u \in Threads : pc[u] # "publish"
  BY <1>1 DEF Parked, SafeLabels
<1>3. mark = Heavy(i)
  BY <1>1, <1>2 DEF IInv, Memory
<1>4. mark.state = "heavy" /\ mark.id = i /\ Current = monitors[i]
  BY <1>3, MarkMade DEF Current
<1>5. monitors[i] \in MonitorRec
  BY <1>1, LiveMonitor DEF IInv
<1>6. Current.owner_ = None /\ Current.lock_ = None /\ Current.waitersCounter_ = 0
  BY <1>4 DEF Deflatable
<1>7. \A u \in Threads : ~Blocked(u) /\ ~Waiting(u)
  <2>1. IsFiniteSet(BlockedSet) /\ IsFiniteSet(WaitingSet)
    BY MonitorAssumption, FS_Subset DEF BlockedSet, WaitingSet
  <2>2. Cardinality(BlockedSet) \in Nat /\ Cardinality(WaitingSet) \in Nat
    BY <2>1, FS_CardinalityType
  <2>3. Cardinality(BlockedSet) + Cardinality(WaitingSet) = 0
    BY <1>4, <1>6 DEF IInv, Counted
  <2>4. Cardinality(BlockedSet) = 0 /\ Cardinality(WaitingSet) = 0
    BY <2>2, <2>3
  <2>5. BlockedSet = {} /\ WaitingSet = {}
    BY <2>1, <2>4, FS_EmptySet
  <2>6. QED
    BY <2>5 DEF BlockedSet, WaitingSet
<1>8. ASSUME NEW u \in Threads PROVE pc[u] \notin InMonitor
  <2>1. Parked(u) /\ ~Blocked(u) /\ ~Waiting(u) /\ OpFits(pc[u], op[u])
    BY <1>1, <1>7 DEF IInv, Control, Fits
  <2>2. QED
    BY <2>1 DEF Parked, SafeLabels, Blocked, Waiting, OpFits, Waits, InWait, InMonitor
<1>9. \A u \in Threads : ~Owns(u) /\ ~Taken(u)
  BY <1>4, <1>6, LockFacts, MonitorAssumption
<1>10. QED
  BY <1>1, <1>2, <1>3, <1>4, <1>5, <1>8, <1>9

LEMMA StepDeflate ==
  ASSUME IInv, NEW i \in Ids, DeflateInternal(i)
  PROVE  IInv'
<1>1. /\ i \in unvisited /\ unvisited' = unvisited \ {i} /\ unvisited' \in SUBSET Ids
      /\ UNCHANGED <<pc, op, seen, mon, target, saved, held, waitingMonitor_, interrupted,
                     monitorCount_, suspendCount_, paused, hashes>>
  BY DEF DeflateInternal, locals, threadVars, IInv, Types
<1>2. paused /\ \A u \in Threads : Parked(u)
  BY <1>1 DEF IInv, Pausing
<1>3. CASE ~Deflatable(monitors[i])
  <2>1. UNCHANGED <<mark, monitors>>
    BY <1>3 DEF DeflateInternal
  <2>2. Pausing'
    BY <1>1, <1>2, <2>1 DEF IInv, Pausing, Parked
  <2>3. UNCHANGED <<mark, monitors, locals, threadVars, hashes>> /\ paused' \in BOOLEAN
    BY <1>1, <2>1 DEF locals, threadVars, IInv, Types
  <2>4. QED
    BY <1>1, <2>2, <2>3, CollectorKeeps
<1>4. CASE Deflatable(monitors[i])
  <2>1. PICK h : h = monitors[i].hashCode_
    OBVIOUS
  <2>2. /\ mark' = IF h # None THEN Hashed(h) ELSE Unlocked
        /\ monitors' = [monitors EXCEPT ![i] = Free]
    BY <1>4, <2>1 DEF DeflateInternal
  <2>3. /\ mark = Heavy(i) /\ mark.state = "heavy" /\ mark.id = i /\ monitors[i] \in MonitorRec
        /\ \A u \in Threads : /\ pc[u] \notin InMonitor /\ pc[u] # "publish"
                              /\ ~Owns(u) /\ ~Taken(u)
    BY <1>1, <1>4, NobodyUses
  <2>4. h \in Hashes \cup {None}
    BY <2>1, <2>3, MonitorFields
  <2>5. /\ mark' \in Marks /\ mark'.state \in {"hashed", "unlocked"}
        /\ mark'.state = "hashed" => h # None /\ mark'.hash = h
        /\ mark'.state = "unlocked" => h = None
    BY <2>2, <2>4, MarkMade
  <2>6. /\ monitors'[i] = Free /\ (\A j \in Ids \ {i} : monitors'[j] = monitors[j])
        /\ monitors' \in [Ids -> MonitorRec \cup {Free}]
    BY <2>2 DEF IInv, Types
  <2>7. Types'
    BY <1>1, <2>5, <2>6 DEF IInv, Types
  <2>8. Control' /\ Levels' /\ Suspended'
    <3>1. Control'
      BY <1>1 DEF IInv, Control, Fits
    <3>2. Levels'
      BY <1>1 DEF IInv, Levels, LevelFits, Waiting, InWait
    <3>3. Suspended'
      BY <1>1 DEF IInv, Suspended, SuspendersOf, Suspends, Past, Parked
    <3>4. QED
      BY <3>1, <3>2, <3>3
  <2>9. Lock'
    <3>1. CurOwner' = None /\ CurLock' = None /\ CurCount' = 0 /\ None \notin Threads
      BY <2>5, MonitorAssumption DEF CurOwner, CurLock, CurCount
    <3>2. \A u \in Threads : ~Owns(u)' /\ ~Taken(u)'
      BY <1>1, <2>3 DEF Owns, Taken, Gone, InWait
    <3>3. QED
      BY <3>1, <3>2 DEF Lock
  <2>10. Memory'
    <3>1. \A j : mark' # Heavy(j)
      BY <2>5, MarkMade
    <3>2. \A u \in Threads : pc'[u] \notin InMonitor /\ pc'[u] # "publish"
      BY <1>1, <2>3
    <3>3. \A j \in Ids : ~monitors'[j].live
      <4>1. SUFFICES ASSUME NEW j \in Ids, j # i PROVE ~monitors[j].live
        BY <2>6, FreeMade
      <4>2. mark # Heavy(j)
        BY <2>3, <4>1, MarkMade
      <4>3. QED
        BY <2>3, <4>2 DEF IInv, Memory
    <3>4. QED
      BY <3>1, <3>2, <3>3 DEF Memory, InUse, New
  <2>11. Counted' /\ Lists'
    BY <2>5 DEF Counted, Lists
  <2>12. Tally'
    <3>1. HeavyOwner = None /\ HeavyOwner' = None
      BY <1>4, <2>3, <2>5 DEF HeavyOwner, Current, Deflatable
    <3>2. QED
      BY <1>1, <3>1 DEF IInv, Tally
  <2>13. Hash'
    <3>1. CurHash = h /\ CurHash' = h
      BY <2>1, <2>3, <2>5 DEF CurHash, Current
    <3>2. QED
      BY <1>1, <3>1 DEF IInv, Hash
  <2>14. Pausing'
    <3>1. \A j \in unvisited' : monitors'[j].live
      BY <1>1, <2>6 DEF IInv, Pausing
    <3>2. QED
      BY <1>1, <1>2, <3>1 DEF Pausing, Parked
  <2>15. QED
    BY <2>7, <2>8, <2>9, <2>10, <2>11, <2>12, <2>13, <2>14 DEF IInv
<1>5. QED
  BY <1>3, <1>4

LEMMA StepPause ==
  ASSUME IInv, PauseBegin \/ PauseEnd
  PROVE  IInv'
<1>1. CASE PauseBegin
  <2>1. /\ \A u \in Threads : Parked(u)
        /\ paused' = TRUE /\ unvisited' = {i \in Ids : monitors[i].live}
        /\ UNCHANGED <<mark, monitors, locals, threadVars, hashes>>
    BY <1>1 DEF PauseBegin
  <2>2. Pausing'
    BY <2>1 DEF Pausing, Parked, locals
  <2>3. unvisited' \in SUBSET Ids /\ paused' \in BOOLEAN
    BY <2>1
  <2>4. QED
    BY <2>1, <2>2, <2>3, CollectorKeeps
<1>2. CASE PauseEnd
  <2>1. /\ unvisited' = {} /\ paused' = FALSE
        /\ UNCHANGED <<mark, monitors, locals, threadVars, hashes>>
    BY <1>2 DEF PauseEnd
  <2>2. Pausing' /\ unvisited' \in SUBSET Ids /\ paused' \in BOOLEAN
    BY <2>1 DEF Pausing
  <2>3. QED
    BY <2>1, <2>2, CollectorKeeps
<1>3. QED
  BY <1>1, <1>2

-----------------------------------------------------------------------------
(* Suspension.                                                             *)

\* A step that suspends and resumes nobody; a parked thread that may not run
\* stays parked.
Scheduled(t) ==
  /\ UNCHANGED <<suspendCount_, paused, unvisited>>
  /\ Parked(t) => mark' = mark
  /\ Parked(t) /\ ~MayRun(t) => Parked(t)'
  /\ Suspends(t)' <=> Suspends(t)
  /\ Suspends(t) => target'[t] = target[t]
  /\ Past(t)' /\ ~Past(t) => target[t] \in Threads /\ Parked(target[t])

Inflating == {"await", "resume", "inflate", "publish"}

LEMMA ByLabels ==
  ASSUME NEW t \in Threads, UNCHANGED <<suspendCount_, gcVars>>, pc[t] \notin Inflating,
         pc'[t] \in Inflating => pc'[t] = "inflate" /\ target'[t] = t,
         Parked(t) => mark' = mark /\ (MayRun(t) \/ Parked(t)')
  PROVE  Scheduled(t)
BY DEF Scheduled, Inflating, Suspends, Past, gcVars

LEMMA ScheduledCalls ==
  ASSUME IInv, NEW t \in Threads,
         EnterBegin(t) \/ ExitBegin(t) \/ WaitBegin(t) \/ HashBegin(t)
  PROVE  Scheduled(t)
<1>1. pc \in [Threads -> Labels] /\ target \in [Threads -> Threads \cup {None}]
  BY DEF IInv, Types
<1>2. CASE EnterBegin(t)
  <2>1. /\ UNCHANGED <<suspendCount_, gcVars>>
        /\ Parked(t) => mark' = mark /\ (MayRun(t) \/ Parked(t)')
    BY <1>1, <1>2 DEF EnterBegin, Begin, Jump, Goto, At, threadVars, Parked, SafeLabels
  <2>2. /\ pc[t] \notin Inflating
        /\ pc'[t] \in Inflating => pc'[t] = "inflate" /\ target'[t] = t
    BY <1>1, <1>2 DEF EnterBegin, Begin, Jump, Goto, At, Inflating
  <2>3. QED
    BY <2>1, <2>2, ByLabels
<1>3. CASE ExitBegin(t)
  <2>1. /\ UNCHANGED <<suspendCount_, gcVars>>
        /\ Parked(t) => mark' = mark /\ (MayRun(t) \/ Parked(t)')
    BY <1>1, <1>3 DEF ExitBegin, Begin, Jump, Goto, At, threadVars, Parked, SafeLabels
  <2>2. /\ pc[t] \notin Inflating
        /\ pc'[t] \in Inflating => pc'[t] = "inflate" /\ target'[t] = t
    BY <1>1, <1>3 DEF ExitBegin, Begin, Jump, Goto, At, Inflating
  <2>3. QED
    BY <2>1, <2>2, ByLabels
<1>4. CASE WaitBegin(t)
  <2>1. /\ UNCHANGED <<suspendCount_, gcVars>>
        /\ Parked(t) => mark' = mark /\ (MayRun(t) \/ Parked(t)')
    BY <1>1, <1>4 DEF WaitBegin, Begin, Jump, Goto, At, threadVars, Parked, SafeLabels
  <2>2. /\ pc[t] \notin Inflating
        /\ pc'[t] \in Inflating => pc'[t] = "inflate" /\ target'[t] = t
    BY <1>1, <1>4 DEF WaitBegin, Begin, Jump, Goto, At, Inflating
  <2>3. QED
    BY <2>1, <2>2, ByLabels
<1>5. CASE HashBegin(t)
  <2>1. /\ UNCHANGED <<suspendCount_, gcVars>>
        /\ Parked(t) => mark' = mark /\ (MayRun(t) \/ Parked(t)')
    BY <1>1, <1>5 DEF HashBegin, Begin, Jump, Goto, At, threadVars, Parked, SafeLabels
  <2>2. /\ pc[t] \notin Inflating
        /\ pc'[t] \in Inflating => pc'[t] = "inflate" /\ target'[t] = t
    BY <1>1, <1>5 DEF HashBegin, Begin, Jump, Goto, At, Inflating
  <2>3. QED
    BY <2>1, <2>2, ByLabels
<1>6. QED
  BY <1>2, <1>3, <1>4, <1>5

LEMMA ScheduledEnter ==
  ASSUME IInv, NEW t \in Threads,
         EnterHeavy(t) \/ EnterFree(t) \/ EnterInflate(t) \/ EnterContended(t)
           \/ EnterCAS(t)
  PROVE  Scheduled(t)
<1>1. pc \in [Threads -> Labels] /\ target \in [Threads -> Threads \cup {None}]
  BY DEF IInv, Types
<1>2. CASE EnterHeavy(t)
  <2>1. /\ UNCHANGED <<suspendCount_, gcVars>>
        /\ Parked(t) => mark' = mark /\ (MayRun(t) \/ Parked(t)')
    BY <1>1, <1>2 DEF EnterHeavy, Return, Loop, Jump, Goto, At, threadVars, Parked, SafeLabels
  <2>2. /\ pc[t] \notin Inflating
        /\ pc'[t] \in Inflating => pc'[t] = "inflate" /\ target'[t] = t
    BY <1>1, <1>2 DEF EnterHeavy, Return, Loop, Jump, Goto, At, Inflating
  <2>3. QED
    BY <2>1, <2>2, ByLabels
<1>3. CASE EnterFree(t)
  <2>1. /\ UNCHANGED <<suspendCount_, gcVars>>
        /\ Parked(t) => mark' = mark /\ (MayRun(t) \/ Parked(t)')
    BY <1>1, <1>3 DEF EnterFree, Return, Loop, Jump, Goto, At, threadVars, Parked, SafeLabels
  <2>2. /\ pc[t] \notin Inflating
        /\ pc'[t] \in Inflating => pc'[t] = "inflate" /\ target'[t] = t
    BY <1>1, <1>3 DEF EnterFree, Return, Loop, Jump, Goto, At, Inflating
  <2>3. QED
    BY <2>1, <2>2, ByLabels
<1>4. CASE EnterInflate(t)
  <2>1. /\ UNCHANGED <<suspendCount_, gcVars>>
        /\ Parked(t) => mark' = mark /\ (MayRun(t) \/ Parked(t)')
    BY <1>1, <1>4 DEF EnterInflate, Return, Loop, Jump, Goto, At, threadVars, Parked, SafeLabels
  <2>2. /\ pc[t] \notin Inflating
        /\ pc'[t] \in Inflating => pc'[t] = "inflate" /\ target'[t] = t
    BY <1>1, <1>4 DEF EnterInflate, Return, Loop, Jump, Goto, At, Inflating
  <2>3. QED
    BY <2>1, <2>2, ByLabels
<1>5. CASE EnterContended(t)
  <2>1. /\ UNCHANGED <<suspendCount_, gcVars>>
        /\ Parked(t) => mark' = mark /\ (MayRun(t) \/ Parked(t)')
    BY <1>1, <1>5 DEF EnterContended, Return, Loop, Jump, Goto, At, threadVars, Parked, SafeLabels
  <2>2. /\ pc[t] \notin Inflating
        /\ pc'[t] \in Inflating => pc'[t] = "inflate" /\ target'[t] = t
    BY <1>1, <1>5 DEF EnterContended, Return, Loop, Jump, Goto, At, Inflating
  <2>3. QED
    BY <2>1, <2>2, ByLabels
<1>6. CASE EnterCAS(t)
  <2>1. /\ UNCHANGED <<suspendCount_, gcVars>>
        /\ Parked(t) => mark' = mark /\ (MayRun(t) \/ Parked(t)')
    BY <1>1, <1>6 DEF EnterCAS, Return, Loop, Jump, Goto, At, threadVars, Parked, SafeLabels
  <2>2. /\ pc[t] \notin Inflating
        /\ pc'[t] \in Inflating => pc'[t] = "inflate" /\ target'[t] = t
    BY <1>1, <1>6 DEF EnterCAS, Return, Loop, Jump, Goto, At, Inflating
  <2>3. QED
    BY <2>1, <2>2, ByLabels
<1>7. QED
  BY <1>2, <1>3, <1>4, <1>5, <1>6

LEMMA ScheduledAcquire ==
  ASSUME IInv, NEW t \in Threads,
         AcquireRecursive(t) \/ AcquireTry(t) \/ AcquireFailed(t) \/ AcquireBlock(t)
           \/ AcquireBlocked(t) \/ AcquireUnblock(t) \/ AcquireOwn(t)
  PROVE  Scheduled(t)
<1>1. pc \in [Threads -> Labels] /\ target \in [Threads -> Threads \cup {None}]
  BY DEF IInv, Types
<1>2. CASE AcquireRecursive(t)
  <2>1. /\ UNCHANGED <<suspendCount_, gcVars>>
        /\ Parked(t) => mark' = mark /\ (MayRun(t) \/ Parked(t)')
    BY <1>1, <1>2 DEF AcquireRecursive, Acquired, Return, Jump, Goto, At, threadVars, Parked, SafeLabels
  <2>2. /\ pc[t] \notin Inflating
        /\ pc'[t] \in Inflating => pc'[t] = "inflate" /\ target'[t] = t
    BY <1>1, <1>2 DEF AcquireRecursive, Acquired, Return, Jump, Goto, At, Inflating
  <2>3. QED
    BY <2>1, <2>2, ByLabels
<1>3. CASE AcquireTry(t)
  <2>1. /\ UNCHANGED <<suspendCount_, gcVars>>
        /\ Parked(t) => mark' = mark /\ (MayRun(t) \/ Parked(t)')
    BY <1>1, <1>3 DEF AcquireTry, Acquired, Return, Jump, Goto, At, threadVars, Parked, SafeLabels
  <2>2. /\ pc[t] \notin Inflating
        /\ pc'[t] \in Inflating => pc'[t] = "inflate" /\ target'[t] = t
    BY <1>1, <1>3 DEF AcquireTry, Acquired, Return, Jump, Goto, At, Inflating
  <2>3. QED
    BY <2>1, <2>2, ByLabels
<1>4. CASE AcquireFailed(t)
  <2>1. /\ UNCHANGED <<suspendCount_, gcVars>>
        /\ Parked(t) => mark' = mark /\ (MayRun(t) \/ Parked(t)')
    BY <1>1, <1>4 DEF AcquireFailed, Acquired, Return, Jump, Goto, At, threadVars, Parked, SafeLabels
  <2>2. /\ pc[t] \notin Inflating
        /\ pc'[t] \in Inflating => pc'[t] = "inflate" /\ target'[t] = t
    BY <1>1, <1>4 DEF AcquireFailed, Acquired, Return, Jump, Goto, At, Inflating
  <2>3. QED
    BY <2>1, <2>2, ByLabels
<1>5. CASE AcquireBlock(t)
  <2>1. /\ UNCHANGED <<suspendCount_, gcVars>>
        /\ Parked(t) => mark' = mark /\ (MayRun(t) \/ Parked(t)')
    BY <1>1, <1>5 DEF AcquireBlock, Acquired, Return, Jump, Goto, At, threadVars, Parked, SafeLabels
  <2>2. /\ pc[t] \notin Inflating
        /\ pc'[t] \in Inflating => pc'[t] = "inflate" /\ target'[t] = t
    BY <1>1, <1>5 DEF AcquireBlock, Acquired, Return, Jump, Goto, At, Inflating
  <2>3. QED
    BY <2>1, <2>2, ByLabels
<1>6. CASE AcquireBlocked(t)
  <2>1. /\ UNCHANGED <<suspendCount_, gcVars>>
        /\ Parked(t) => mark' = mark /\ (MayRun(t) \/ Parked(t)')
    BY <1>1, <1>6 DEF AcquireBlocked, Acquired, Return, Jump, Goto, At, threadVars, Parked, SafeLabels
  <2>2. /\ pc[t] \notin Inflating
        /\ pc'[t] \in Inflating => pc'[t] = "inflate" /\ target'[t] = t
    BY <1>1, <1>6 DEF AcquireBlocked, Acquired, Return, Jump, Goto, At, Inflating
  <2>3. QED
    BY <2>1, <2>2, ByLabels
<1>7. CASE AcquireUnblock(t)
  <2>1. /\ UNCHANGED <<suspendCount_, gcVars>>
        /\ Parked(t) => mark' = mark /\ (MayRun(t) \/ Parked(t)')
    BY <1>1, <1>7 DEF AcquireUnblock, Acquired, Return, Jump, Goto, At, threadVars, Parked, SafeLabels
  <2>2. /\ pc[t] \notin Inflating
        /\ pc'[t] \in Inflating => pc'[t] = "inflate" /\ target'[t] = t
    BY <1>1, <1>7 DEF AcquireUnblock, Acquired, Return, Jump, Goto, At, Inflating
  <2>3. QED
    BY <2>1, <2>2, ByLabels
<1>8. CASE AcquireOwn(t)
  <2>1. /\ UNCHANGED <<suspendCount_, gcVars>>
        /\ Parked(t) => mark' = mark /\ (MayRun(t) \/ Parked(t)')
    BY <1>1, <1>8 DEF AcquireOwn, Acquired, Return, Jump, Goto, At, threadVars, Parked, SafeLabels
  <2>2. /\ pc[t] \notin Inflating
        /\ pc'[t] \in Inflating => pc'[t] = "inflate" /\ target'[t] = t
    BY <1>1, <1>8 DEF AcquireOwn, Acquired, Return, Jump, Goto, At, Inflating
  <2>3. QED
    BY <2>1, <2>2, ByLabels
<1>9. QED
  BY <1>2, <1>3, <1>4, <1>5, <1>6, <1>7, <1>8

LEMMA ScheduledRelease ==
  ASSUME IInv, NEW t \in Threads,
         ExitHeavy(t) \/ ExitLight(t) \/ ExitCAS(t) \/ ReleaseNested(t) \/ ReleaseLast(t)
           \/ ReleaseSignal(t) \/ ReleaseUnlock(t)
  PROVE  Scheduled(t)
<1>1. pc \in [Threads -> Labels] /\ target \in [Threads -> Threads \cup {None}]
  BY DEF IInv, Types
<1>2. CASE ExitHeavy(t)
  <2>1. /\ UNCHANGED <<suspendCount_, gcVars>>
        /\ Parked(t) => mark' = mark /\ (MayRun(t) \/ Parked(t)')
    BY <1>1, <1>2 DEF ExitHeavy, Return, Jump, Goto, At, threadVars, Parked, SafeLabels
  <2>2. /\ pc[t] \notin Inflating
        /\ pc'[t] \in Inflating => pc'[t] = "inflate" /\ target'[t] = t
    BY <1>1, <1>2 DEF ExitHeavy, Return, Jump, Goto, At, Inflating
  <2>3. QED
    BY <2>1, <2>2, ByLabels
<1>3. CASE ExitLight(t)
  <2>1. /\ UNCHANGED <<suspendCount_, gcVars>>
        /\ Parked(t) => mark' = mark /\ (MayRun(t) \/ Parked(t)')
    BY <1>1, <1>3 DEF ExitLight, Return, Jump, Goto, At, threadVars, Parked, SafeLabels
  <2>2. /\ pc[t] \notin Inflating
        /\ pc'[t] \in Inflating => pc'[t] = "inflate" /\ target'[t] = t
    BY <1>1, <1>3 DEF ExitLight, Return, Jump, Goto, At, Inflating
  <2>3. QED
    BY <2>1, <2>2, ByLabels
<1>4. CASE ExitCAS(t)
  <2>1. /\ UNCHANGED <<suspendCount_, gcVars>>
        /\ Parked(t) => mark' = mark /\ (MayRun(t) \/ Parked(t)')
    BY <1>1, <1>4 DEF ExitCAS, Return, Jump, Goto, At, threadVars, Parked, SafeLabels
  <2>2. /\ pc[t] \notin Inflating
        /\ pc'[t] \in Inflating => pc'[t] = "inflate" /\ target'[t] = t
    BY <1>1, <1>4 DEF ExitCAS, Return, Jump, Goto, At, Inflating
  <2>3. QED
    BY <2>1, <2>2, ByLabels
<1>5. CASE ReleaseNested(t)
  <2>1. /\ UNCHANGED <<suspendCount_, gcVars>>
        /\ Parked(t) => mark' = mark /\ (MayRun(t) \/ Parked(t)')
    BY <1>1, <1>5 DEF ReleaseNested, Return, Jump, Goto, At, threadVars, Parked, SafeLabels
  <2>2. /\ pc[t] \notin Inflating
        /\ pc'[t] \in Inflating => pc'[t] = "inflate" /\ target'[t] = t
    BY <1>1, <1>5 DEF ReleaseNested, Return, Jump, Goto, At, Inflating
  <2>3. QED
    BY <2>1, <2>2, ByLabels
<1>6. CASE ReleaseLast(t)
  <2>1. /\ UNCHANGED <<suspendCount_, gcVars>>
        /\ Parked(t) => mark' = mark /\ (MayRun(t) \/ Parked(t)')
    BY <1>1, <1>6 DEF ReleaseLast, Return, Jump, Goto, At, threadVars, Parked, SafeLabels
  <2>2. /\ pc[t] \notin Inflating
        /\ pc'[t] \in Inflating => pc'[t] = "inflate" /\ target'[t] = t
    BY <1>1, <1>6 DEF ReleaseLast, Return, Jump, Goto, At, Inflating
  <2>3. QED
    BY <2>1, <2>2, ByLabels
<1>7. CASE ReleaseSignal(t)
  <2>1. /\ UNCHANGED <<suspendCount_, gcVars>>
        /\ Parked(t) => mark' = mark /\ (MayRun(t) \/ Parked(t)')
    BY <1>1, <1>7 DEF ReleaseSignal, Return, Jump, Goto, At, threadVars, Parked, SafeLabels
  <2>2. /\ pc[t] \notin Inflating
        /\ pc'[t] \in Inflating => pc'[t] = "inflate" /\ target'[t] = t
    BY <1>1, <1>7 DEF ReleaseSignal, Return, Jump, Goto, At, Inflating
  <2>3. QED
    BY <2>1, <2>2, ByLabels
<1>8. CASE ReleaseUnlock(t)
  <2>1. /\ UNCHANGED <<suspendCount_, gcVars>>
        /\ Parked(t) => mark' = mark /\ (MayRun(t) \/ Parked(t)')
    BY <1>1, <1>8 DEF ReleaseUnlock, Return, Jump, Goto, At, threadVars, Parked, SafeLabels
  <2>2. /\ pc[t] \notin Inflating
        /\ pc'[t] \in Inflating => pc'[t] = "inflate" /\ target'[t] = t
    BY <1>1, <1>8 DEF ReleaseUnlock, Return, Jump, Goto, At, Inflating
  <2>3. QED
    BY <2>1, <2>2, ByLabels
<1>9. QED
  BY <1>2, <1>3, <1>4, <1>5, <1>6, <1>7, <1>8

LEMMA ScheduledWait ==
  ASSUME IInv, NEW t \in Threads,
         WaitInflate(t) \/ WaitEnqueue(t) \/ WaitSleep(t) \/ WaitTimeout(t)
           \/ WaitReacquire(t) \/ WaitDone(t) \/ Notify(t) \/ NotifyAll(t) \/ Interrupted(t)
  PROVE  Scheduled(t)
<1>1. pc \in [Threads -> Labels] /\ target \in [Threads -> Threads \cup {None}]
  BY DEF IInv, Types
<1>2. CASE WaitInflate(t)
  <2>1. /\ UNCHANGED <<suspendCount_, gcVars>>
        /\ Parked(t) => mark' = mark /\ (MayRun(t) \/ Parked(t)')
    BY <1>1, <1>2 DEF WaitInflate, Return, Jump, Goto, At, threadVars, Parked, SafeLabels
  <2>2. /\ pc[t] \notin Inflating
        /\ pc'[t] \in Inflating => pc'[t] = "inflate" /\ target'[t] = t
    BY <1>1, <1>2 DEF WaitInflate, Return, Jump, Goto, At, Inflating
  <2>3. QED
    BY <2>1, <2>2, ByLabels
<1>3. CASE WaitEnqueue(t)
  <2>1. /\ UNCHANGED <<suspendCount_, gcVars>>
        /\ Parked(t) => mark' = mark /\ (MayRun(t) \/ Parked(t)')
    BY <1>1, <1>3 DEF WaitEnqueue, Return, Jump, Goto, At, threadVars, Parked, SafeLabels
  <2>2. /\ pc[t] \notin Inflating
        /\ pc'[t] \in Inflating => pc'[t] = "inflate" /\ target'[t] = t
    BY <1>1, <1>3 DEF WaitEnqueue, Return, Jump, Goto, At, Inflating
  <2>3. QED
    BY <2>1, <2>2, ByLabels
<1>4. CASE WaitSleep(t)
  <2>1. /\ UNCHANGED <<suspendCount_, gcVars>>
        /\ Parked(t) => mark' = mark /\ (MayRun(t) \/ Parked(t)')
    BY <1>1, <1>4 DEF WaitSleep, Return, Jump, Goto, At, threadVars, Parked, SafeLabels
  <2>2. /\ pc[t] \notin Inflating
        /\ pc'[t] \in Inflating => pc'[t] = "inflate" /\ target'[t] = t
    BY <1>1, <1>4 DEF WaitSleep, Return, Jump, Goto, At, Inflating
  <2>3. QED
    BY <2>1, <2>2, ByLabels
<1>5. CASE WaitTimeout(t)
  <2>1. /\ UNCHANGED <<suspendCount_, gcVars>>
        /\ Parked(t) => mark' = mark /\ (MayRun(t) \/ Parked(t)')
    BY <1>1, <1>5 DEF WaitTimeout, Return, Jump, Goto, At, threadVars, Parked, SafeLabels
  <2>2. /\ pc[t] \notin Inflating
        /\ pc'[t] \in Inflating => pc'[t] = "inflate" /\ target'[t] = t
    BY <1>1, <1>5 DEF WaitTimeout, Return, Jump, Goto, At, Inflating
  <2>3. QED
    BY <2>1, <2>2, ByLabels
<1>6. CASE WaitReacquire(t)
  <2>1. /\ UNCHANGED <<suspendCount_, gcVars>>
        /\ Parked(t) => mark' = mark /\ (MayRun(t) \/ Parked(t)')
    BY <1>1, <1>6 DEF WaitReacquire, Return, Jump, Goto, At, threadVars, Parked, SafeLabels
  <2>2. /\ pc[t] \notin Inflating
        /\ pc'[t] \in Inflating => pc'[t] = "inflate" /\ target'[t] = t
    BY <1>1, <1>6 DEF WaitReacquire, Return, Jump, Goto, At, Inflating
  <2>3. QED
    BY <2>1, <2>2, ByLabels
<1>7. CASE WaitDone(t)
  <2>1. /\ UNCHANGED <<suspendCount_, gcVars>>
        /\ Parked(t) => mark' = mark /\ (MayRun(t) \/ Parked(t)')
    BY <1>1, <1>7 DEF WaitDone, Return, Jump, Goto, At, threadVars, Parked, SafeLabels
  <2>2. /\ pc[t] \notin Inflating
        /\ pc'[t] \in Inflating => pc'[t] = "inflate" /\ target'[t] = t
    BY <1>1, <1>7 DEF WaitDone, Return, Jump, Goto, At, Inflating
  <2>3. QED
    BY <2>1, <2>2, ByLabels
<1>8. CASE Notify(t)
  <2>1. /\ UNCHANGED <<suspendCount_, gcVars>>
        /\ Parked(t) => mark' = mark /\ (MayRun(t) \/ Parked(t)')
    BY <1>1, <1>8 DEF Notify, Return, Jump, Goto, At, locals, threadVars, Parked, SafeLabels
  <2>2. /\ pc[t] \notin Inflating
        /\ pc'[t] \in Inflating => pc'[t] = "inflate" /\ target'[t] = t
    BY <1>1, <1>8 DEF Notify, Return, Jump, Goto, At, locals, threadVars, Inflating
  <2>3. QED
    BY <2>1, <2>2, ByLabels
<1>9. CASE NotifyAll(t)
  <2>1. /\ UNCHANGED <<suspendCount_, gcVars>>
        /\ Parked(t) => mark' = mark /\ (MayRun(t) \/ Parked(t)')
    BY <1>1, <1>9 DEF NotifyAll, Return, Jump, Goto, At, locals, threadVars, Parked, SafeLabels
  <2>2. /\ pc[t] \notin Inflating
        /\ pc'[t] \in Inflating => pc'[t] = "inflate" /\ target'[t] = t
    BY <1>1, <1>9 DEF NotifyAll, Return, Jump, Goto, At, locals, threadVars, Inflating
  <2>3. QED
    BY <2>1, <2>2, ByLabels
<1>10. CASE Interrupted(t)
  <2>1. /\ UNCHANGED <<suspendCount_, gcVars>>
        /\ Parked(t) => mark' = mark /\ (MayRun(t) \/ Parked(t)')
    BY <1>1, <1>10 DEF Interrupted, Return, Jump, Goto, At, locals, threadVars, Parked, SafeLabels
  <2>2. /\ pc[t] \notin Inflating
        /\ pc'[t] \in Inflating => pc'[t] = "inflate" /\ target'[t] = t
    BY <1>1, <1>10 DEF Interrupted, Return, Jump, Goto, At, locals, threadVars, Inflating
  <2>3. QED
    BY <2>1, <2>2, ByLabels
<1>11. QED
  BY <1>2, <1>3, <1>4, <1>5, <1>6, <1>7, <1>8, <1>9, <1>10

LEMMA ScheduledHash ==
  ASSUME IInv, NEW t \in Threads,
         ThinLoad(t) \/ ThinNobody(t) \/ HashUnlocked(t) \/ HashCAS(t) \/ HashLight(t)
           \/ HashHeavy(t) \/ HashHashed(t)
  PROVE  Scheduled(t)
<1>1. pc \in [Threads -> Labels] /\ target \in [Threads -> Threads \cup {None}]
  BY DEF IInv, Types
<1>2. CASE ThinLoad(t)
  <2>1. /\ UNCHANGED <<suspendCount_, gcVars>>
        /\ Parked(t) => mark' = mark /\ (MayRun(t) \/ Parked(t)')
    BY <1>1, <1>2 DEF ThinLoad, Return, Loop, Jump, Goto, At, threadVars, Parked, SafeLabels
  <2>2. /\ pc[t] \notin Inflating
        /\ pc'[t] \in Inflating => pc'[t] = "inflate" /\ target'[t] = t
    BY <1>1, <1>2 DEF ThinLoad, Return, Loop, Jump, Goto, At, Inflating
  <2>3. QED
    BY <2>1, <2>2, ByLabels
<1>3. CASE ThinNobody(t)
  <2>1. /\ UNCHANGED <<suspendCount_, gcVars>>
        /\ Parked(t) => mark' = mark /\ (MayRun(t) \/ Parked(t)')
    BY <1>1, <1>3 DEF ThinNobody, Return, Loop, Jump, Goto, At, threadVars, Parked, SafeLabels
  <2>2. /\ pc[t] \notin Inflating
        /\ pc'[t] \in Inflating => pc'[t] = "inflate" /\ target'[t] = t
    BY <1>1, <1>3 DEF ThinNobody, Return, Loop, Jump, Goto, At, Inflating
  <2>3. QED
    BY <2>1, <2>2, ByLabels
<1>4. CASE HashUnlocked(t)
  <2>1. /\ UNCHANGED <<suspendCount_, gcVars>>
        /\ Parked(t) => mark' = mark /\ (MayRun(t) \/ Parked(t)')
    BY <1>1, <1>4 DEF HashUnlocked, Return, Loop, Jump, Goto, At, threadVars, Parked, SafeLabels
  <2>2. /\ pc[t] \notin Inflating
        /\ pc'[t] \in Inflating => pc'[t] = "inflate" /\ target'[t] = t
    BY <1>1, <1>4 DEF HashUnlocked, Return, Loop, Jump, Goto, At, Inflating
  <2>3. QED
    BY <2>1, <2>2, ByLabels
<1>5. CASE HashCAS(t)
  <2>1. /\ UNCHANGED <<suspendCount_, gcVars>>
        /\ Parked(t) => mark' = mark /\ (MayRun(t) \/ Parked(t)')
    BY <1>1, <1>5 DEF HashCAS, Return, Loop, Jump, Goto, At, threadVars, Parked, SafeLabels
  <2>2. /\ pc[t] \notin Inflating
        /\ pc'[t] \in Inflating => pc'[t] = "inflate" /\ target'[t] = t
    BY <1>1, <1>5 DEF HashCAS, Return, Loop, Jump, Goto, At, Inflating
  <2>3. QED
    BY <2>1, <2>2, ByLabels
<1>6. CASE HashLight(t)
  <2>1. /\ UNCHANGED <<suspendCount_, gcVars>>
        /\ Parked(t) => mark' = mark /\ (MayRun(t) \/ Parked(t)')
    BY <1>1, <1>6 DEF HashLight, Return, Loop, Jump, Goto, At, threadVars, Parked, SafeLabels
  <2>2. /\ pc[t] \notin Inflating
        /\ pc'[t] \in Inflating => pc'[t] = "inflate" /\ target'[t] = t
    BY <1>1, <1>6 DEF HashLight, Return, Loop, Jump, Goto, At, Inflating
  <2>3. QED
    BY <2>1, <2>2, ByLabels
<1>7. CASE HashHeavy(t)
  <2>1. /\ UNCHANGED <<suspendCount_, gcVars>>
        /\ Parked(t) => mark' = mark /\ (MayRun(t) \/ Parked(t)')
    BY <1>1, <1>7 DEF HashHeavy, Return, Loop, Jump, Goto, At, threadVars, Parked, SafeLabels
  <2>2. /\ pc[t] \notin Inflating
        /\ pc'[t] \in Inflating => pc'[t] = "inflate" /\ target'[t] = t
    BY <1>1, <1>7 DEF HashHeavy, Return, Loop, Jump, Goto, At, Inflating
  <2>3. QED
    BY <2>1, <2>2, ByLabels
<1>8. CASE HashHashed(t)
  <2>1. /\ UNCHANGED <<suspendCount_, gcVars>>
        /\ Parked(t) => mark' = mark /\ (MayRun(t) \/ Parked(t)')
    BY <1>1, <1>8 DEF HashHashed, Return, Loop, Jump, Goto, At, threadVars, Parked, SafeLabels
  <2>2. /\ pc[t] \notin Inflating
        /\ pc'[t] \in Inflating => pc'[t] = "inflate" /\ target'[t] = t
    BY <1>1, <1>8 DEF HashHashed, Return, Loop, Jump, Goto, At, Inflating
  <2>3. QED
    BY <2>1, <2>2, ByLabels
<1>9. QED
  BY <1>2, <1>3, <1>4, <1>5, <1>6, <1>7, <1>8

LEMMA ScheduledInflate ==
  ASSUME IInv, NEW t \in Threads,
         Interrupt(t) \/ ThinAwait(t) \/ InflateFail(t) \/ InflateCreate(t) \/ InflatePublish(t)
  PROVE  Scheduled(t)
<1>1. pc \in [Threads -> Labels] /\ target \in [Threads -> Threads \cup {None}]
  BY DEF IInv, Types
<1>2. Fits(t)
  BY DEF IInv, Control
<1>3. CASE Interrupt(t)
  <2>1. Untouched(t) /\ UNCHANGED <<mark, suspendCount_, paused, unvisited>>
    BY <1>3, QuietInterrupt DEF Interrupt, gcVars
  <2>2. target'[t] = target[t]
    BY <2>1 DEF Untouched
  <2>3. QED
    BY <2>1, <2>2, UntouchedKeeps DEF Scheduled
<1>4. CASE ThinAwait(t)
  <2>1. target[t] # t /\ target[t] \in Threads
    BY <1>2, <1>4, NotItself DEF IInv, ThinAwait, Jump, At, Fits, TargetFits
  <2>2. /\ pc[t] = "await" /\ pc'[t] = "inflate" /\ target' = target /\ Parked(target[t])
        /\ MayRun(t) /\ UNCHANGED <<mark, suspendCount_, paused, unvisited>>
    BY <1>1, <1>4 DEF ThinAwait, Jump, At, Goto, threadVars, gcVars
  <2>3. QED
    BY <2>1, <2>2 DEF Scheduled, Suspends, Past
<1>5. CASE InflateFail(t) \/ InflatePublish(t)
  <2>1. /\ pc[t] \in {"inflate", "publish"} /\ UNCHANGED <<suspendCount_, paused, unvisited>>
        /\ \E ok \in BOOLEAN, w \in {mark, seen[t]} : Inflated(t, ok, w)
    BY <1>5 DEF InflateFail, InflatePublish, At, gcVars
  <2>2. ~Parked(t)
    BY <2>1 DEF Parked, SafeLabels
  <2>3. CASE target[t] # t
    <3>1. pc'[t] = "resume" /\ target' = target
      BY <1>1, <2>1, <2>3 DEF Inflated, Goto
    <3>2. QED
      BY <2>1, <2>2, <2>3, <3>1 DEF Scheduled, Suspends, Past
  <2>4. CASE target[t] = t
    <3>1. pc'[t] \in {"managed", "enter", "hash", "wait"}
      BY <1>1, <2>1, <2>4 DEF Inflated, Goto, Return, Loop
    <3>2. QED
      BY <2>1, <2>2, <2>4, <3>1 DEF Scheduled, Suspends, Past
  <2>5. QED
    BY <2>3, <2>4
<1>6. CASE InflateCreate(t)
  <2>1. /\ pc[t] = "inflate" /\ pc'[t] = "publish" /\ target' = target
        /\ UNCHANGED <<suspendCount_, paused, unvisited>>
    BY <1>1, <1>6 DEF InflateCreate, Jump, At, Goto, threadVars, gcVars
  <2>2. QED
    BY <2>1 DEF Scheduled, Suspends, Past, Parked, SafeLabels
<1>7. QED
  BY <1>3, <1>4, <1>5, <1>6

\* A thread that somebody suspends may not run.
LEMMA SuspendedStays ==
  ASSUME IInv, NEW v \in Threads, Suspends(v), NEW w \in Threads, w = target[v]
  PROVE  ~MayRun(w)
<1>1. v \in SuspendersOf(w) /\ IsFiniteSet(SuspendersOf(w))
  BY MonitorAssumption, FS_Subset DEF SuspendersOf
<1>2. Cardinality(SuspendersOf(w)) # 0
  BY <1>1, FS_EmptySet
<1>3. QED
  BY <1>2 DEF IInv, Suspended, MayRun

LEMMA PausingKept ==
  ASSUME IInv, Memory', NEW t \in Threads, Others(t), UNCHANGED <<paused, unvisited>>,
         Parked(t) => mark' = mark, Parked(t) /\ ~MayRun(t) => Parked(t)'
  PROVE  Pausing'
<1>1. CASE ~paused
  BY <1>1 DEF IInv, Pausing
<1>2. CASE paused
  <2>1. \A u \in Threads : Parked(u)
    BY <1>2 DEF IInv, Pausing
  <2>2. ~MayRun(t)
    BY <1>2 DEF MayRun
  <2>3. \A u \in Threads : Parked(u)'
    BY <2>1, <2>2, OthersKeep
  <2>4. mark' = mark
    BY <2>1
  <2>5. ASSUME NEW i \in unvisited PROVE monitors'[i].live
    <3>1. i \in Ids /\ monitors[i].live
      BY <2>5 DEF IInv, Pausing, Types
    <3>2. \A u \in Threads : pc[u] # "publish"
      BY <2>1 DEF Parked, SafeLabels
    <3>3. mark = Heavy(i)
      BY <3>1, <3>2 DEF IInv, Memory
    <3>4. QED
      BY <2>4, <3>1, <3>3 DEF Memory
  <2>6. QED
    BY <1>2, <2>3, <2>5 DEF Pausing
<1>3. QED
  BY <1>1, <1>2 DEF IInv, Types

\* A thread that was found parked is parked until it is resumed.
LEMMA ParkedKept ==
  ASSUME IInv, NEW t \in Threads, Others(t), Parked(t) /\ ~MayRun(t) => Parked(t)',
         NEW v \in Threads, Suspends(v), NEW w \in Threads, w = target[v], Parked(w)
  PROVE  Parked(w)'
<1>1. CASE w = t
  BY <1>1, SuspendedStays
<1>2. CASE w # t
  BY <1>2, OthersKeep
<1>3. QED
  BY <1>1, <1>2

LEMMA SuspendedKept ==
  ASSUME IInv, NEW t \in Threads, Others(t), Scheduled(t), Control'
  PROVE  Suspended'
<1>1. ASSUME NEW u \in Threads
      PROVE  (Suspends(u)' <=> Suspends(u)) /\ (Suspends(u) => target'[u] = target[u])
  <2>1. CASE u = t
    BY <2>1 DEF Scheduled
  <2>2. CASE u # t
    BY <2>2, OthersKeep
  <2>3. QED
    BY <2>1, <2>2
<1>2. ASSUME NEW u \in Threads PROVE suspendCount_'[u] = Cardinality(SuspendersOf(u)')
  <2>1. SuspendersOf(u)' = SuspendersOf(u)
    BY <1>1 DEF SuspendersOf
  <2>2. suspendCount_'[u] = suspendCount_[u]
    BY DEF Scheduled
  <2>3. QED
    BY <2>1, <2>2 DEF IInv, Suspended
<1>3. ASSUME NEW u \in Threads, Past(u)' PROVE \A w \in Threads : w = target'[u] => Parked(w)'
  <2>1. Suspends(u) /\ target'[u] = target[u]
    BY <1>1, <1>3 DEF Suspends
  <2>2. target[u] \in Threads /\ Parked(target[u])
    <3>1. CASE Past(u)
      <4>1. target[u] \in Threads
        BY <3>1 DEF Past, IInv, Control, Fits, TargetFits
      <4>2. QED
        BY <3>1, <4>1 DEF IInv, Suspended
    <3>2. CASE ~Past(u)
      <4>1. u = t
        BY <1>3, <3>2, OthersKeep
      <4>2. QED
        BY <1>3, <3>2, <4>1 DEF Scheduled
    <3>3. QED
      BY <3>1, <3>2
  <2>3. ASSUME NEW w \in Threads, w = target[u] PROVE Parked(w)'
    <3>1. Parked(w) /\ (Parked(t) /\ ~MayRun(t) => Parked(t)')
      BY <2>2, <2>3 DEF Scheduled
    <3>2. QED
      BY <2>1, <2>3, <3>1, ParkedKept
  <2>4. QED
    BY <2>1, <2>3
<1>4. ASSUME NEW u \in Threads, Past(u)' PROVE Parked(target[u])'
  <2>1. target'[u] \in Threads
    BY <1>4 DEF Past, Control, Fits, TargetFits
  <2>2. PICK w \in Threads : w = target'[u]
    BY <2>1
  <2>3. Parked(w)'
    BY <1>3, <1>4, <2>2
  <2>4. QED
    BY <2>2, <2>3 DEF Parked
<1>5. QED
  BY <1>2, <1>4 DEF Suspended

\* One thread starts or ends the suspension of its target.
LEMMA SuspendersMove ==
  ASSUME IInv, NEW t \in Threads, Others(t), Control', NEW g \in Threads, NEW d \in {1, -1},
         suspendCount_'[g] = suspendCount_[g] + d,
         \A u \in Threads \ {g} : suspendCount_'[u] = suspendCount_[u],
         d = 1 => ~Suspends(t) /\ Suspends(t)' /\ target'[t] = g,
         d = -1 => Suspends(t) /\ target[t] = g /\ ~Suspends(t)',
         ~Past(t)', Parked(t) /\ ~MayRun(t) => Parked(t)'
  PROVE  Suspended'
<1>1. \A u \in Threads \ {t} : (Suspends(u)' <=> Suspends(u)) /\ target'[u] = target[u]
  BY OthersKeep
<1>2. ASSUME NEW u \in Threads PROVE suspendCount_'[u] = Cardinality(SuspendersOf(u)')
  <2>1. PICK P : P = SuspendersOf(u)
    OBVIOUS
  <2>2. PICK Q : Q = SuspendersOf(u)'
    OBVIOUS
  <2>3. P \in SUBSET Threads /\ Q \in SUBSET Threads
    BY <2>1, <2>2 DEF SuspendersOf
  <2>4. \A v \in Threads \ {t} : v \in P <=> v \in Q
    BY <1>1, <2>1, <2>2 DEF SuspendersOf
  <2>5. suspendCount_ \in [Threads -> Int] /\ suspendCount_[u] = Cardinality(P)
    BY <2>1 DEF IInv, Suspended, Types
  <2>6. CASE u # g
    <3>1. t \notin P /\ t \notin Q
      BY <2>1, <2>2, <2>6 DEF SuspendersOf
    <3>2. suspendCount_'[u] = suspendCount_[u]
      BY <2>5, <2>6
    <3>3. QED
      BY <2>2, <2>3, <2>4, <2>5, <3>1, <3>2, OneMoves
  <2>7. CASE u = g /\ d = 1
    <3>1. t \notin P /\ t \in Q
      BY <2>1, <2>2, <2>7 DEF SuspendersOf
    <3>2. suspendCount_'[u] = suspendCount_[u] + 1
      BY <2>5, <2>7
    <3>3. QED
      BY <2>2, <2>3, <2>4, <2>5, <3>1, <3>2, OneMoves
  <2>8. CASE u = g /\ d = -1
    <3>1. t \in P /\ t \notin Q
      BY <2>1, <2>2, <2>8 DEF SuspendersOf
    <3>2. suspendCount_'[u] = suspendCount_[u] - 1
      BY <2>5, <2>8
    <3>3. Cardinality(Q) = Cardinality(P) - 1
      BY <2>3, <2>4, <3>1, OneMoves
    <3>4. QED
      BY <2>2, <2>5, <3>2, <3>3
  <2>9. QED
    BY <2>6, <2>7, <2>8
<1>3. ASSUME NEW u \in Threads, Past(u)' PROVE Parked(target[u])'
  <2>1. u # t /\ Past(u)
    BY <1>3, OthersKeep
  <2>2. target'[u] = target[u] /\ target[u] \in Threads /\ Suspends(u)
    BY <1>1, <2>1 DEF Past, Suspends, IInv, Control, Fits, TargetFits
  <2>3. PICK w \in Threads : w = target[u]
    BY <2>2
  <2>4. Parked(w)
    BY <2>1, <2>3 DEF IInv, Suspended
  <2>5. Parked(w)'
    BY <2>2, <2>3, <2>4, ParkedKept
  <2>6. QED
    BY <2>2, <2>3, <2>5 DEF Parked
<1>4. QED
  BY <1>2, <1>3 DEF Suspended

LEMMA ThinScheduled ==
  ASSUME IInv, NEW t \in Threads, Others(t), Control', Memory', ThinSuspend(t) \/ ThinResume(t)
  PROVE  Suspended' /\ Pausing'
<1>1. /\ pc \in [Threads -> Labels] /\ target \in [Threads -> Threads \cup {None}]
      /\ Fits(t)
  BY DEF IInv, Types, Control
<1>2. CASE ThinSuspend(t)
  <2>1. /\ pc[t] = "suspend" /\ pc'[t] = "await" /\ target[t] \in Threads /\ target' = target
        /\ MayRun(t) /\ UNCHANGED <<mark, paused, unvisited>>
        /\ suspendCount_' = [suspendCount_ EXCEPT ![target[t]] = @ + 1]
    BY <1>1, <1>2 DEF ThinSuspend, Jump, At, Goto, gcVars
  <2>2. ~Suspends(t) /\ Suspends(t)' /\ ~Past(t)'
    BY <2>1 DEF Suspends, Past
  <2>3. Suspended'
    <3>1. PICK g \in Threads : g = target[t]
      BY <2>1
    <3>2. PICK d \in {1, -1} : d = 1
      OBVIOUS
    <3>3. /\ suspendCount_'[g] = suspendCount_[g] + d
          /\ \A u \in Threads \ {g} : suspendCount_'[u] = suspendCount_[u]
      BY <2>1, <3>1, <3>2 DEF IInv, Types
    <3>4. QED
      BY <2>1, <2>2, <3>1, <3>2, <3>3, SuspendersMove
  <2>4. Pausing'
    BY <2>1, PausingKept
  <2>5. QED
    BY <2>3, <2>4
<1>3. CASE ThinResume(t)
  <2>1. pc[t] = "resume" /\ op[t] \in {"enter", "hash"} /\ target[t] \in Threads
    BY <1>1, <1>3 DEF ThinResume, At, Fits, OpFits, TargetFits
  <2>2. /\ pc'[t] \in {"enter", "hash"} /\ UNCHANGED <<mark, paused, unvisited>>
        /\ suspendCount_' = [suspendCount_ EXCEPT ![target[t]] = @ - 1]
    BY <1>1, <1>3, <2>1 DEF ThinResume, Loop, Goto, gcVars
  <2>3. Suspends(t) /\ ~Suspends(t)' /\ ~Past(t)' /\ ~Parked(t)
    BY <2>1, <2>2 DEF Suspends, Past, Parked, SafeLabels
  <2>4. Suspended'
    <3>1. PICK g \in Threads : g = target[t]
      BY <2>1
    <3>2. PICK d \in {1, -1} : d = -1
      OBVIOUS
    <3>3. /\ suspendCount_'[g] = suspendCount_[g] + d
          /\ \A u \in Threads \ {g} : suspendCount_'[u] = suspendCount_[u]
      BY <2>2, <3>1, <3>2 DEF IInv, Types
    <3>4. QED
      BY <2>3, <3>1, <3>2, <3>3, SuspendersMove
  <2>5. Pausing'
    BY <2>2, <2>3, PausingKept
  <2>6. QED
    BY <2>4, <2>5
<1>4. QED
  BY <1>2, <1>3

\* The steps on the mark word and the Monitors are steps of one thread.
LEMMA OthersStay ==
  ASSUME IInv, NEW t \in Threads,
         \/ EnterCAS(t) /\ mark = seen[t]
         \/ ExitCAS(t) /\ mark = seen[t]
         \/ HashCAS(t)
         \/ AcquireRecursive(t)
         \/ AcquireTry(t)
         \/ AcquireFailed(t)
         \/ AcquireBlock(t)
         \/ AcquireBlocked(t)
         \/ AcquireUnblock(t)
         \/ AcquireOwn(t)
         \/ ReleaseNested(t)
         \/ ReleaseLast(t)
         \/ ReleaseUnlock(t)
         \/ WaitEnqueue(t)
         \/ WaitDone(t)
         \/ Notify(t)
         \/ NotifyAll(t)
         \/ HashHeavy(t)
         \/ InflateCreate(t)
         \/ InflatePublish(t)
  PROVE  Others(t)
<1>1. LocalTypes
  BY Knowledge DEF Known
<1>2. CASE EnterCAS(t) /\ mark = seen[t]
  BY <1>1, <1>2 DEF EnterCAS, Entered, Return, Jump, Goto, threadVars, LocalTypes, Others, Untouched
<1>3. CASE ExitCAS(t) /\ mark = seen[t]
  BY <1>1, <1>3 DEF ExitCAS, Exited, Return, Jump, Goto, threadVars, LocalTypes, Others, Untouched
<1>4. CASE HashCAS(t)
  BY <1>1, <1>4 DEF HashCAS, Loop, Jump, Goto, threadVars, LocalTypes, Others, Untouched
<1>5. CASE AcquireRecursive(t)
  BY <1>1, <1>5 DEF AcquireRecursive, Acquired, Entered, Return, Jump, Goto, threadVars, LocalTypes, Others, Untouched
<1>6. CASE AcquireTry(t)
  BY <1>1, <1>6 DEF AcquireTry, Jump, Goto, threadVars, LocalTypes, Others, Untouched
<1>7. CASE AcquireFailed(t)
  BY <1>1, <1>7 DEF AcquireFailed, Return, Jump, Goto, threadVars, LocalTypes, Others, Untouched
<1>8. CASE AcquireBlock(t)
  BY <1>1, <1>8 DEF AcquireBlock, Jump, Goto, threadVars, LocalTypes, Others, Untouched
<1>9. CASE AcquireBlocked(t)
  BY <1>1, <1>9 DEF AcquireBlocked, Jump, Goto, threadVars, LocalTypes, Others, Untouched
<1>10. CASE AcquireUnblock(t)
  BY <1>1, <1>10 DEF AcquireUnblock, Acquired, Entered, Return, Jump, Goto, threadVars, LocalTypes, Others, Untouched
<1>11. CASE AcquireOwn(t)
  BY <1>1, <1>11 DEF AcquireOwn, Acquired, Entered, Return, Jump, Goto, threadVars, LocalTypes, Others, Untouched
<1>12. CASE ReleaseNested(t)
  BY <1>1, <1>12 DEF ReleaseNested, Exited, Return, Jump, Goto, threadVars, LocalTypes, Others, Untouched
<1>13. CASE ReleaseLast(t)
  BY <1>1, <1>13 DEF ReleaseLast, Jump, Goto, threadVars, LocalTypes, Others, Untouched
<1>14. CASE ReleaseUnlock(t)
  BY <1>1, <1>14 DEF ReleaseUnlock, Exited, Return, Jump, Goto, threadVars, LocalTypes, Others, Untouched
<1>15. CASE WaitEnqueue(t)
  BY <1>1, <1>15 DEF WaitEnqueue, Jump, Goto, threadVars, LocalTypes, Others, Untouched
<1>16. CASE WaitDone(t)
  BY <1>1, <1>16 DEF WaitDone, Return, Jump, Goto, threadVars, LocalTypes, Others, Untouched
<1>17. CASE Notify(t)
  BY <1>1, <1>17 DEF Notify, locals, Jump, Goto, threadVars, LocalTypes, Others, Untouched
<1>18. CASE NotifyAll(t)
  BY <1>1, <1>18 DEF NotifyAll, locals, Jump, Goto, threadVars, LocalTypes, Others, Untouched
<1>19. CASE HashHeavy(t)
  BY <1>1, <1>19 DEF HashHeavy, Return, Jump, Goto, threadVars, LocalTypes, Others, Untouched
<1>20. CASE InflateCreate(t)
  BY <1>1, <1>20 DEF InflateCreate, Jump, Goto, threadVars, LocalTypes, Others, Untouched
<1>21. CASE InflatePublish(t)
  BY <1>1, <1>21 DEF InflatePublish, Inflated, Entered, Loop, Return, Jump, Goto, threadVars, LocalTypes, Others, Untouched
<1>22. QED
  BY <1>2, <1>3, <1>4, <1>5, <1>6, <1>7, <1>8, <1>9, <1>10, <1>11, <1>12, <1>13, <1>14, <1>15, <1>16, <1>17, <1>18, <1>19, <1>20, <1>21

-----------------------------------------------------------------------------
(* The invariant.                                                          *)

LEMMA Init_IInv == Init => IInv
<1> SUFFICES ASSUME Init PROVE IInv
  OBVIOUS
<1>1. Types
  <2>1. "managed" \in Labels /\ "none" \in OpNames /\ Unlocked \in Marks
    BY MarkMade DEF Labels, OpNames
  <2>2. /\ mark \in Marks /\ pc \in [Threads -> Labels] /\ op \in [Threads -> OpNames]
        /\ seen \in [Threads -> Marks]
    BY <2>1 DEF Init
  <2>3. /\ mon \in [Threads -> Ids \cup {None}] /\ target \in [Threads -> Threads \cup {None}]
        /\ waitingMonitor_ \in [Threads -> Ids \cup {None}]
        /\ interrupted \in [Threads -> BOOLEAN]
    BY DEF Init
  <2>4. /\ saved \in [Threads -> Int] /\ held \in [Threads -> Int]
        /\ monitorCount_ \in [Threads -> Int] /\ suspendCount_ \in [Threads -> Int]
    BY DEF Init
  <2>5. monitors \in [Ids -> MonitorRec \cup {Free}]
    BY DEF Init
  <2>6. paused \in BOOLEAN /\ unvisited \in SUBSET Ids /\ hashes \in SUBSET Hashes
    BY DEF Init
  <2>7. QED
    BY <2>2, <2>3, <2>4, <2>5, <2>6 DEF Types
<1>2. /\ mark.state = "unlocked"
      /\ \A t \in Threads : /\ pc[t] = "managed" /\ op[t] = "none" /\ held[t] = 0
                            /\ mon[t] = None /\ suspendCount_[t] = 0 /\ monitorCount_[t] = 0
  BY MarkMade DEF Init
<1>3. Control
  BY <1>2 DEF Control, Fits, OpFits, TargetFits, SeenFits, InMonitor
<1>4. Levels
  BY <1>2, MonitorAssumption DEF Levels, LevelFits, Waiting, InWait, InMonitor, Enters, Waits
<1>5. Lock
  <2>1. CurOwner = None /\ CurLock = None /\ CurCount = 0 /\ None \notin Threads
    BY <1>2, MonitorAssumption DEF CurOwner, CurLock, CurCount
  <2>2. \A t \in Threads : ~Owns(t) /\ ~Taken(t)
    BY <1>2 DEF Owns, Taken
  <2>3. QED
    BY <2>1, <2>2 DEF Lock
<1>6. Memory
  <2>1. \A i \in Ids : monitors[i].live = FALSE /\ mark # Heavy(i)
    BY <1>2, FreeMade, MarkMade DEF Init
  <2>2. \A t \in Threads : pc[t] \notin InMonitor /\ pc[t] # "publish"
    BY <1>2 DEF InMonitor
  <2>3. QED
    BY <2>1, <2>2 DEF Memory, InUse, New
<1>7. Counted /\ Lists
  BY <1>2 DEF Counted, Lists
<1>8. Suspended
  <2>1. \A t \in Threads : ~Suspends(t) /\ ~Past(t)
    BY <1>2 DEF Suspends, Past
  <2>2. \A u \in Threads : SuspendersOf(u) = {}
    BY <2>1 DEF SuspendersOf
  <2>3. QED
    BY <1>2, <2>1, <2>2, FS_EmptySet DEF Suspended
<1>9. Pausing /\ Hash
  BY DEF Init, Pausing, Hash
<1>10. Tally
  BY <1>2, MonitorAssumption DEF Tally, HeavyOwner
<1>11. QED
  BY <1>1, <1>3, <1>4, <1>5, <1>6, <1>7, <1>8, <1>9, <1>10 DEF IInv

LEMMA StepHolds ==
  ASSUME IInv, NEW t \in Threads, Core', Others(t), Scheduled(t)
  PROVE  IInv' /\ Others(t)
<1>1. Control' /\ Memory'
  BY DEF Core
<1>2. Suspended'
  BY <1>1, SuspendedKept
<1>3. /\ UNCHANGED <<paused, unvisited>> /\ (Parked(t) => mark' = mark)
      /\ Parked(t) /\ ~MayRun(t) => Parked(t)'
  BY DEF Scheduled
<1>4. Pausing'
  BY <1>1, <1>3, PausingKept
<1>5. QED
  BY <1>2, <1>4 DEF IInv, Core

LEMMA QuietHolds ==
  ASSUME IInv, NEW t \in Threads, Quiet(t), Scheduled(t), interrupted' \in [Threads -> BOOLEAN],
         UNCHANGED hashes
  PROVE  IInv' /\ Others(t)
<1>1. /\ suspendCount_' \in [Threads -> Int] /\ UNCHANGED gcVars /\ hashes' \in SUBSET Hashes
      /\ \A h \in hashes' : h \in hashes \/ h = CurHash
  BY DEF Scheduled, IInv, Types, gcVars
<1>2. Core'
  BY <1>1, QuietKeeps
<1>3. Others(t)
  BY DEF Quiet, Local
<1>4. QED
  BY <1>2, <1>3, StepHolds

LEMMA EnterHolds ==
  ASSUME IInv, NEW t \in Threads, MonitorEnter(t)
  PROVE  IInv' /\ Others(t)
<1>1. CASE EnterBegin(t)
  <2>1. Quiet(t) /\ Scheduled(t)
    BY <1>1, QuietCalls, ScheduledCalls
  <2>2. interrupted' \in [Threads -> BOOLEAN] /\ UNCHANGED hashes
    BY <1>1 DEF EnterBegin, Begin, threadVars, IInv, Types
  <2>3. QED
    BY <2>1, <2>2, QuietHolds
<1>2. CASE EnterHeavy(t)
  <2>1. Quiet(t) /\ Scheduled(t)
    BY <1>2, QuietEnterHeavy, ScheduledEnter
  <2>2. interrupted' \in [Threads -> BOOLEAN] /\ UNCHANGED hashes
    BY <1>2 DEF EnterHeavy, threadVars, IInv, Types
  <2>3. QED
    BY <2>1, <2>2, QuietHolds
<1>3. CASE EnterFree(t)
  <2>1. Quiet(t) /\ Scheduled(t)
    BY <1>3, QuietEnterFree, ScheduledEnter
  <2>2. interrupted' \in [Threads -> BOOLEAN] /\ UNCHANGED hashes
    BY <1>3 DEF EnterFree, threadVars, IInv, Types
  <2>3. QED
    BY <2>1, <2>2, QuietHolds
<1>4. CASE EnterInflate(t)
  <2>1. Quiet(t) /\ Scheduled(t)
    BY <1>4, QuietEnterInflate, ScheduledEnter
  <2>2. interrupted' \in [Threads -> BOOLEAN] /\ UNCHANGED hashes
    BY <1>4 DEF EnterInflate, threadVars, IInv, Types
  <2>3. QED
    BY <2>1, <2>2, QuietHolds
<1>5. CASE EnterContended(t) /\ op[t] = "tryenter"
  <2>1. Quiet(t) /\ Scheduled(t)
    BY <1>5, QuietFailure, ScheduledEnter
  <2>2. interrupted' \in [Threads -> BOOLEAN] /\ UNCHANGED hashes
    BY <1>5 DEF EnterContended, threadVars, IInv, Types
  <2>3. QED
    BY <2>1, <2>2, QuietHolds
<1>6. CASE EnterContended(t) /\ op[t] # "tryenter"
  <2>1. Quiet(t) /\ Scheduled(t)
    BY <1>6, QuietEnterThin, ScheduledEnter
  <2>2. interrupted' \in [Threads -> BOOLEAN] /\ UNCHANGED hashes
    BY <1>6 DEF EnterContended, threadVars, IInv, Types
  <2>3. QED
    BY <2>1, <2>2, QuietHolds
<1>7. CASE EnterCAS(t) /\ mark # seen[t]
  <2>1. Quiet(t) /\ Scheduled(t)
    BY <1>7, QuietFailure, ScheduledEnter
  <2>2. interrupted' \in [Threads -> BOOLEAN] /\ UNCHANGED hashes
    BY <1>7 DEF EnterCAS, threadVars, IInv, Types
  <2>3. QED
    BY <2>1, <2>2, QuietHolds
<1>8. CASE EnterCAS(t) /\ mark = seen[t]
  <2>1. Core'
    BY <1>8, EnterSwaps
  <2>2. Others(t) /\ Scheduled(t)
    BY <1>8, OthersStay, ScheduledEnter
  <2>3. QED
    BY <2>1, <2>2, StepHolds
<1>9. QED
  BY <1>1, <1>2, <1>3, <1>4, <1>5, <1>6, <1>7, <1>8 DEF MonitorEnter

LEMMA AcquireHolds ==
  ASSUME IInv, NEW t \in Threads, Acquire(t)
  PROVE  IInv' /\ Others(t)
<1>1. CASE AcquireRecursive(t)
  <2>1. Core'
    BY <1>1, StepAcquireRecursive
  <2>2. Others(t) /\ Scheduled(t)
    BY <1>1, OthersStay, ScheduledAcquire
  <2>3. QED
    BY <2>1, <2>2, StepHolds
<1>2. CASE AcquireTry(t)
  <2>1. Core'
    BY <1>2, StepAcquireTry
  <2>2. Others(t) /\ Scheduled(t)
    BY <1>2, OthersStay, ScheduledAcquire
  <2>3. QED
    BY <2>1, <2>2, StepHolds
<1>3. CASE AcquireFailed(t) /\ op[t] = "tryenter"
  <2>1. Quiet(t) /\ Scheduled(t)
    BY <1>3, QuietFailure, ScheduledAcquire
  <2>2. interrupted' \in [Threads -> BOOLEAN] /\ UNCHANGED hashes
    BY <1>3 DEF AcquireFailed, threadVars, IInv, Types
  <2>3. QED
    BY <2>1, <2>2, QuietHolds
<1>4. CASE AcquireFailed(t) /\ op[t] # "tryenter"
  <2>1. Core'
    BY <1>4, StepAcquireFailed
  <2>2. Others(t) /\ Scheduled(t)
    BY <1>4, OthersStay, ScheduledAcquire
  <2>3. QED
    BY <2>1, <2>2, StepHolds
<1>5. CASE AcquireBlock(t)
  <2>1. Core'
    BY <1>5, StepAcquireBlock
  <2>2. Others(t) /\ Scheduled(t)
    BY <1>5, OthersStay, ScheduledAcquire
  <2>3. QED
    BY <2>1, <2>2, StepHolds
<1>6. CASE AcquireBlocked(t)
  <2>1. Core'
    BY <1>6, StepAcquireBlocked
  <2>2. Others(t) /\ Scheduled(t)
    BY <1>6, OthersStay, ScheduledAcquire
  <2>3. QED
    BY <2>1, <2>2, StepHolds
<1>7. CASE AcquireUnblock(t)
  <2>1. Core'
    BY <1>7, StepAcquireUnblock
  <2>2. Others(t) /\ Scheduled(t)
    BY <1>7, OthersStay, ScheduledAcquire
  <2>3. QED
    BY <2>1, <2>2, StepHolds
<1>8. CASE AcquireOwn(t)
  <2>1. Core'
    BY <1>8, StepAcquireOwn
  <2>2. Others(t) /\ Scheduled(t)
    BY <1>8, OthersStay, ScheduledAcquire
  <2>3. QED
    BY <2>1, <2>2, StepHolds
<1>9. QED
  BY <1>1, <1>2, <1>3, <1>4, <1>5, <1>6, <1>7, <1>8 DEF Acquire

LEMMA ExitHolds ==
  ASSUME IInv, NEW t \in Threads, MonitorExit(t)
  PROVE  IInv' /\ Others(t)
<1>1. CASE ExitBegin(t)
  <2>1. Quiet(t) /\ Scheduled(t)
    BY <1>1, QuietCalls, ScheduledCalls
  <2>2. interrupted' \in [Threads -> BOOLEAN] /\ UNCHANGED hashes
    BY <1>1 DEF ExitBegin, Begin, threadVars, IInv, Types
  <2>3. QED
    BY <2>1, <2>2, QuietHolds
<1>2. CASE ExitHeavy(t)
  <2>1. Quiet(t) /\ Scheduled(t)
    BY <1>2, QuietExitHeavy, ScheduledRelease
  <2>2. interrupted' \in [Threads -> BOOLEAN] /\ UNCHANGED hashes
    BY <1>2 DEF ExitHeavy, threadVars, IInv, Types
  <2>3. QED
    BY <2>1, <2>2, QuietHolds
<1>3. CASE ExitLight(t)
  <2>1. Quiet(t) /\ Scheduled(t)
    BY <1>3, QuietExitLight, ScheduledRelease
  <2>2. interrupted' \in [Threads -> BOOLEAN] /\ UNCHANGED hashes
    BY <1>3 DEF ExitLight, threadVars, IInv, Types
  <2>3. QED
    BY <2>1, <2>2, QuietHolds
<1>4. CASE ExitCAS(t) /\ mark # seen[t]
  <2>1. Quiet(t) /\ Scheduled(t)
    BY <1>4, QuietExitRetry, ScheduledRelease
  <2>2. interrupted' \in [Threads -> BOOLEAN] /\ UNCHANGED hashes
    BY <1>4 DEF ExitCAS, threadVars, IInv, Types
  <2>3. QED
    BY <2>1, <2>2, QuietHolds
<1>5. CASE ExitCAS(t) /\ mark = seen[t]
  <2>1. Core'
    BY <1>5, ExitSwaps
  <2>2. Others(t) /\ Scheduled(t)
    BY <1>5, OthersStay, ScheduledRelease
  <2>3. QED
    BY <2>1, <2>2, StepHolds
<1>6. QED
  BY <1>1, <1>2, <1>3, <1>4, <1>5 DEF MonitorExit

LEMMA ReleaseHolds ==
  ASSUME IInv, NEW t \in Threads, Release(t)
  PROVE  IInv' /\ Others(t)
<1>1. CASE ReleaseNested(t)
  <2>1. Core'
    BY <1>1, StepReleaseNested
  <2>2. Others(t) /\ Scheduled(t)
    BY <1>1, OthersStay, ScheduledRelease
  <2>3. QED
    BY <2>1, <2>2, StepHolds
<1>2. CASE ReleaseLast(t)
  <2>1. Core'
    BY <1>2, StepReleaseLast
  <2>2. Others(t) /\ Scheduled(t)
    BY <1>2, OthersStay, ScheduledRelease
  <2>3. QED
    BY <2>1, <2>2, StepHolds
<1>3. CASE ReleaseSignal(t)
  <2>1. Quiet(t) /\ Scheduled(t)
    BY <1>3, QuietSignal, ScheduledRelease
  <2>2. interrupted' \in [Threads -> BOOLEAN] /\ UNCHANGED hashes
    BY <1>3 DEF ReleaseSignal, threadVars, IInv, Types
  <2>3. QED
    BY <2>1, <2>2, QuietHolds
<1>4. CASE ReleaseUnlock(t)
  <2>1. Core'
    BY <1>4, StepReleaseUnlock
  <2>2. Others(t) /\ Scheduled(t)
    BY <1>4, OthersStay, ScheduledRelease
  <2>3. QED
    BY <2>1, <2>2, StepHolds
<1>5. QED
  BY <1>1, <1>2, <1>3, <1>4 DEF Release

LEMMA WaitHolds ==
  ASSUME IInv, NEW t \in Threads, Wait(t)
  PROVE  IInv' /\ Others(t)
<1>1. CASE WaitBegin(t)
  <2>1. Quiet(t) /\ Scheduled(t)
    BY <1>1, QuietCalls, ScheduledCalls
  <2>2. interrupted' \in [Threads -> BOOLEAN] /\ UNCHANGED hashes
    BY <1>1 DEF WaitBegin, Begin, threadVars, IInv, Types
  <2>3. QED
    BY <2>1, <2>2, QuietHolds
<1>2. CASE WaitInflate(t)
  <2>1. Quiet(t) /\ Scheduled(t)
    BY <1>2, QuietWaitInflate, ScheduledWait
  <2>2. interrupted' \in [Threads -> BOOLEAN] /\ UNCHANGED hashes
    BY <1>2 DEF WaitInflate, threadVars, IInv, Types
  <2>3. QED
    BY <2>1, <2>2, QuietHolds
<1>3. CASE WaitEnqueue(t)
  <2>1. Core'
    BY <1>3, StepWaitEnqueue
  <2>2. Others(t) /\ Scheduled(t)
    BY <1>3, OthersStay, ScheduledWait
  <2>3. QED
    BY <2>1, <2>2, StepHolds
<1>4. CASE WaitSleep(t)
  <2>1. Quiet(t) /\ Scheduled(t)
    BY <1>4, QuietWaitSleep, ScheduledWait
  <2>2. interrupted' \in [Threads -> BOOLEAN] /\ UNCHANGED hashes
    BY <1>4 DEF WaitSleep, threadVars, IInv, Types
  <2>3. QED
    BY <2>1, <2>2, QuietHolds
<1>5. CASE WaitTimeout(t)
  <2>1. Quiet(t) /\ Scheduled(t)
    BY <1>5, QuietWaitTimeout, ScheduledWait
  <2>2. interrupted' \in [Threads -> BOOLEAN] /\ UNCHANGED hashes
    BY <1>5 DEF WaitTimeout, threadVars, IInv, Types
  <2>3. QED
    BY <2>1, <2>2, QuietHolds
<1>6. CASE WaitReacquire(t)
  <2>1. Quiet(t) /\ Scheduled(t)
    BY <1>6, QuietWaitReacquire, ScheduledWait
  <2>2. interrupted' \in [Threads -> BOOLEAN] /\ UNCHANGED hashes
    BY <1>6 DEF WaitReacquire, threadVars, IInv, Types
  <2>3. QED
    BY <2>1, <2>2, QuietHolds
<1>7. CASE WaitDone(t)
  <2>1. Core'
    BY <1>7, StepWaitDone
  <2>2. Others(t) /\ Scheduled(t)
    BY <1>7, OthersStay, ScheduledWait
  <2>3. QED
    BY <2>1, <2>2, StepHolds
<1>8. QED
  BY <1>1, <1>2, <1>3, <1>4, <1>5, <1>6, <1>7 DEF Wait

LEMMA NotifyHolds ==
  ASSUME IInv, NEW t \in Threads, Notify(t) \/ NotifyAll(t) \/ Interrupt(t) \/ Interrupted(t)
  PROVE  IInv' /\ Others(t)
<1>1. CASE Notify(t) \/ NotifyAll(t)
  <2>1. Core'
    BY <1>1, StepNotify, StepNotifyAll
  <2>2. Others(t) /\ Scheduled(t)
    BY <1>1, OthersStay, ScheduledWait
  <2>3. QED
    BY <2>1, <2>2, StepHolds
<1>2. CASE Interrupt(t) \/ Interrupted(t)
  <2>1. Quiet(t) /\ Scheduled(t)
    BY <1>2, QuietInterrupt, ScheduledInflate, ScheduledWait
  <2>2. interrupted' \in [Threads -> BOOLEAN] /\ UNCHANGED hashes
    BY <1>2 DEF Interrupt, Interrupted, IInv, Types
  <2>3. QED
    BY <2>1, <2>2, QuietHolds
<1>3. QED
  BY <1>1, <1>2

LEMMA ThinHolds ==
  ASSUME IInv, NEW t \in Threads, InflateThinLock(t)
  PROVE  IInv' /\ Others(t)
<1>1. CASE ThinLoad(t)
  <2>1. Quiet(t) /\ Scheduled(t)
    BY <1>1, QuietThinLoad, ScheduledHash
  <2>2. interrupted' \in [Threads -> BOOLEAN] /\ UNCHANGED hashes
    BY <1>1 DEF ThinLoad, threadVars, IInv, Types
  <2>3. QED
    BY <2>1, <2>2, QuietHolds
<1>2. CASE ThinNobody(t)
  <2>1. Quiet(t) /\ Scheduled(t)
    BY <1>2, QuietFailure, ScheduledHash
  <2>2. interrupted' \in [Threads -> BOOLEAN] /\ UNCHANGED hashes
    BY <1>2 DEF ThinNobody, threadVars, IInv, Types
  <2>3. QED
    BY <2>1, <2>2, QuietHolds
<1>3. CASE ThinSuspend(t)
  <2>1. Quiet(t) /\ Others(t)
    BY <1>3, QuietThinSuspend DEF Quiet, Local
  <2>2. suspendCount_' \in [Threads -> Int]
    BY <1>3 DEF ThinSuspend, IInv, Types
  <2>3. /\ interrupted' \in [Threads -> BOOLEAN] /\ UNCHANGED <<gcVars, hashes>>
        /\ hashes' \in SUBSET Hashes /\ \A h \in hashes' : h \in hashes
    BY <1>3 DEF ThinSuspend, threadVars, IInv, Types
  <2>4. Core'
    BY <2>1, <2>2, <2>3, QuietKeeps
  <2>5. Suspended' /\ Pausing'
    BY <1>3, <2>1, <2>4, ThinScheduled DEF Core
  <2>6. QED
    BY <2>1, <2>4, <2>5 DEF IInv, Core
<1>4. CASE ThinAwait(t)
  <2>1. Quiet(t) /\ Scheduled(t)
    BY <1>4, QuietThinAwait, ScheduledInflate
  <2>2. interrupted' \in [Threads -> BOOLEAN] /\ UNCHANGED hashes
    BY <1>4 DEF ThinAwait, threadVars, IInv, Types
  <2>3. QED
    BY <2>1, <2>2, QuietHolds
<1>5. CASE ThinResume(t)
  <2>1. Quiet(t) /\ Others(t)
    BY <1>5, QuietFailure DEF Quiet, Local
  <2>2. suspendCount_' \in [Threads -> Int]
    <3>1. suspendCount_ \in [Threads -> Int]
      BY DEF IInv, Types
    <3>2. target[t] \in Threads
      BY <1>5 DEF ThinResume, At, IInv, Control, Fits, TargetFits
    <3>3. suspendCount_' = [suspendCount_ EXCEPT ![target[t]] = @ - 1]
      BY <1>5 DEF ThinResume
    <3>4. QED
      BY <3>1, <3>2, <3>3
  <2>3. /\ interrupted' \in [Threads -> BOOLEAN] /\ UNCHANGED <<gcVars, hashes>>
        /\ hashes' \in SUBSET Hashes /\ \A h \in hashes' : h \in hashes
    BY <1>5 DEF ThinResume, threadVars, IInv, Types
  <2>4. Core'
    BY <2>1, <2>2, <2>3, QuietKeeps
  <2>5. Suspended' /\ Pausing'
    BY <1>5, <2>1, <2>4, ThinScheduled DEF Core
  <2>6. QED
    BY <2>1, <2>4, <2>5 DEF IInv, Core
<1>6. QED
  BY <1>1, <1>2, <1>3, <1>4, <1>5 DEF InflateThinLock

LEMMA InflateHolds ==
  ASSUME IInv, NEW t \in Threads, Inflate(t)
  PROVE  IInv' /\ Others(t)
<1>1. CASE InflateFail(t) /\ target[t] = t
  <2>1. Quiet(t) /\ Scheduled(t)
    BY <1>1, QuietFailure, ScheduledInflate
  <2>2. interrupted' \in [Threads -> BOOLEAN] /\ UNCHANGED hashes
    BY <1>1 DEF InflateFail, threadVars, IInv, Types
  <2>3. QED
    BY <2>1, <2>2, QuietHolds
<1>2. CASE InflateFail(t) /\ target[t] # t
  <2>1. Quiet(t) /\ Scheduled(t)
    BY <1>2, QuietInflateGivesUp, ScheduledInflate
  <2>2. interrupted' \in [Threads -> BOOLEAN] /\ UNCHANGED hashes
    BY <1>2 DEF InflateFail, threadVars, IInv, Types
  <2>3. QED
    BY <2>1, <2>2, QuietHolds
<1>3. CASE InflateCreate(t)
  <2>1. Core'
    BY <1>3, StepInflateCreate
  <2>2. Others(t) /\ Scheduled(t)
    BY <1>3, OthersStay, ScheduledInflate
  <2>3. QED
    BY <2>1, <2>2, StepHolds
<1>4. CASE InflatePublish(t)
  <2>1. Core'
    BY <1>4, StepPublishFails, StepPublishSucceeds
  <2>2. Others(t) /\ Scheduled(t)
    BY <1>4, OthersStay, ScheduledInflate
  <2>3. QED
    BY <2>1, <2>2, StepHolds
<1>5. QED
  BY <1>1, <1>2, <1>3, <1>4 DEF Inflate

LEMMA HashHolds ==
  ASSUME IInv, NEW t \in Threads, GetHashCode(t)
  PROVE  IInv' /\ Others(t)
<1>1. CASE HashBegin(t)
  <2>1. Quiet(t) /\ Scheduled(t)
    BY <1>1, QuietCalls, ScheduledCalls
  <2>2. interrupted' \in [Threads -> BOOLEAN] /\ UNCHANGED hashes
    BY <1>1 DEF HashBegin, Begin, threadVars, IInv, Types
  <2>3. QED
    BY <2>1, <2>2, QuietHolds
<1>2. CASE HashUnlocked(t)
  <2>1. Quiet(t) /\ Scheduled(t)
    BY <1>2, QuietHashUnlocked, ScheduledHash
  <2>2. interrupted' \in [Threads -> BOOLEAN] /\ UNCHANGED hashes
    BY <1>2 DEF HashUnlocked, threadVars, IInv, Types
  <2>3. QED
    BY <2>1, <2>2, QuietHolds
<1>3. CASE HashCAS(t) /\ mark # seen[t]
  <2>1. Quiet(t) /\ Scheduled(t)
    BY <1>3, QuietFailure, ScheduledHash
  <2>2. interrupted' \in [Threads -> BOOLEAN] /\ UNCHANGED hashes
    BY <1>3 DEF HashCAS, threadVars, IInv, Types
  <2>3. QED
    BY <2>1, <2>2, QuietHolds
<1>4. CASE HashCAS(t) /\ mark = seen[t]
  <2>1. Core'
    BY <1>4, HashSwaps
  <2>2. Others(t) /\ Scheduled(t)
    BY <1>4, OthersStay, ScheduledHash
  <2>3. QED
    BY <2>1, <2>2, StepHolds
<1>5. CASE HashLight(t)
  <2>1. Quiet(t) /\ Scheduled(t)
    BY <1>5, QuietHashThin, QuietHashInflate, ScheduledHash
  <2>2. interrupted' \in [Threads -> BOOLEAN] /\ UNCHANGED hashes
    BY <1>5 DEF HashLight, threadVars, IInv, Types
  <2>3. QED
    BY <2>1, <2>2, QuietHolds
<1>6. CASE HashHeavy(t)
  <2>1. Core'
    BY <1>6, StepHashHeavy
  <2>2. Others(t) /\ Scheduled(t)
    BY <1>6, OthersStay, ScheduledHash
  <2>3. QED
    BY <2>1, <2>2, StepHolds
<1>7. CASE HashHashed(t)
  <2>1. Quiet(t) /\ Scheduled(t) /\ Others(t)
    BY <1>7, QuietFailure, ScheduledHash DEF Quiet, Local
  <2>2. mark.state = "hashed" /\ hashes' = hashes \cup {mark.hash} /\ mark.hash \in Hashes
    BY <1>7, MarkCases DEF HashHashed, IInv, Types
  <2>3. /\ interrupted' \in [Threads -> BOOLEAN] /\ suspendCount_' \in [Threads -> Int]
        /\ UNCHANGED gcVars
    BY <1>7 DEF HashHashed, threadVars, IInv, Types
  <2>4. hashes' \in SUBSET Hashes /\ \A h \in hashes' : h \in hashes \/ h = CurHash
    BY <2>2 DEF CurHash, IInv, Types
  <2>5. Core'
    BY <2>1, <2>3, <2>4, QuietKeeps
  <2>6. QED
    BY <2>1, <2>5, StepHolds
<1>8. QED
  BY <1>1, <1>2, <1>3, <1>4, <1>5, <1>6, <1>7 DEF GetHashCode

\* A step of a thread.
ThreadStep(t) ==
  \/ MonitorEnter(t) \/ Acquire(t) \/ MonitorExit(t) \/ Release(t) \/ Wait(t)
  \/ Notify(t) \/ NotifyAll(t) \/ Interrupt(t) \/ Interrupted(t)
  \/ InflateThinLock(t) \/ Inflate(t) \/ GetHashCode(t)

LEMMA ThreadHolds ==
  ASSUME IInv, NEW t \in Threads, ThreadStep(t)
  PROVE  IInv' /\ Others(t)
BY EnterHolds, AcquireHolds, ExitHolds, ReleaseHolds, WaitHolds, NotifyHolds, ThinHolds,
   InflateHolds, HashHolds DEF ThreadStep

LEMMA Next_IInv == IInv /\ [Next]_vars => IInv'
<1> SUFFICES ASSUME IInv, [Next]_vars PROVE IInv'
  OBVIOUS
<1>1. ASSUME NEW t \in Threads, ThreadStep(t) PROVE IInv'
  BY <1>1, ThreadHolds
<1>2. CASE DeflateMonitors
  BY <1>2, StepDeflate, StepPause DEF DeflateMonitors
<1>3. CASE UNCHANGED vars
  <2>1. UNCHANGED <<mark, monitors, locals, threadVars, hashes>>
    BY <1>3 DEF vars
  <2>2. UNCHANGED <<paused, unvisited, pc, monitors>>
    BY <1>3 DEF vars, gcVars, locals
  <2>3. Pausing' /\ paused' \in BOOLEAN /\ unvisited' \in SUBSET Ids
    BY <2>2 DEF IInv, Types, Pausing, Parked
  <2>4. QED
    BY <2>1, <2>3, CollectorKeeps
<1>4. QED
  BY <1>1, <1>2, <1>3 DEF Next, ThreadStep

\* The lock moves between the mark word and the Monitors, and at every moment the
\* mark word or the Monitor behind it says who holds it and how often, every Monitor
\* in use is the one of the mark word, the waiters are in its lists and counted, and
\* whoever is suspended or paused stays parked (monitor.cpp, monitor_pool.cpp).
THEOREM Invariance == Spec => []IInv
BY Init_IInv, Next_IInv, PTL DEF Spec

-----------------------------------------------------------------------------
(* The properties of module Monitor.                                       *)

LEMMA PartsBounded ==
  /\ Cardinality(Threads) \in Nat
  /\ Cardinality(BlockedSet) \in 0 .. Cardinality(Threads)
  /\ Cardinality(WaitingSet) \in 0 .. Cardinality(Threads)
  /\ \A u : Cardinality(SuspendersOf(u)) \in 0 .. Cardinality(Threads)
<1>1. IsFiniteSet(Threads) /\ Cardinality(Threads) \in Nat
  BY MonitorAssumption, FS_CardinalityType
<1>2. \A S \in SUBSET Threads : Cardinality(S) \in 0 .. Cardinality(Threads)
  <2>1. SUFFICES ASSUME NEW S \in SUBSET Threads
                 PROVE  Cardinality(S) \in 0 .. Cardinality(Threads)
    OBVIOUS
  <2>2. IsFiniteSet(S) /\ Cardinality(S) <= Cardinality(Threads)
    BY <1>1, FS_Subset
  <2>3. Cardinality(S) \in Nat
    BY <2>2, FS_CardinalityType
  <2>4. QED
    BY <1>1, <2>2, <2>3
<1>3. /\ BlockedSet \in SUBSET Threads /\ WaitingSet \in SUBSET Threads
      /\ \A u : SuspendersOf(u) \in SUBSET Threads
  BY DEF BlockedSet, WaitingSet, SuspendersOf
<1>4. QED
  BY <1>1, <1>2, <1>3

LEMMA LevelBounded ==
  ASSUME IInv, NEW t \in Threads
  PROVE  Level(t) \in 0 .. MaxDepth
<1>1. held[t] \in 0 .. MaxDepth
  BY DEF IInv, Levels, LevelFits
<1>2. QED
  BY <1>1, MonitorAssumption DEF Level

\* A Monitor in the pool is the one of the mark word or a new one.
LEMMA PoolTyped ==
  ASSUME IInv, NEW i \in Ids, monitors[i].live
  PROVE  MonitorType(monitors[i])
<1>1. monitors[i] \in MonitorRec
  BY LiveMonitor DEF IInv
<1>2. /\ monitors[i].recursiveCounter_ \in 0 .. MaxDepth
      /\ monitors[i].waitersCounter_ \in 0 .. 2 * Cardinality(Threads)
  <2>1. CASE mark = Heavy(i)
    <3>1. mark.state = "heavy" /\ mark.id = i /\ Current = monitors[i]
      BY <2>1, MarkMade DEF Current
    <3>2. Current.waitersCounter_ = Cardinality(BlockedSet) + Cardinality(WaitingSet)
      BY <3>1 DEF IInv, Counted
    <3>3. Current.waitersCounter_ \in 0 .. 2 * Cardinality(Threads)
      BY <3>2, PartsBounded
    <3>4. Current.owner_ \in Threads \cup {None}
      BY <1>1, <3>1, MonitorFields
    <3>5. CASE Current.owner_ = None
      BY <3>1, <3>3, <3>5, HeavyLock, MonitorAssumption DEF IInv, Lock
    <3>6. ASSUME NEW u \in Threads, Current.owner_ = u
          PROVE  Current.recursiveCounter_ \in 0 .. MaxDepth
      <4>1. Current.recursiveCounter_ = Level(u)
        BY <3>1, <3>6, HeavyLock DEF IInv, Lock
      <4>2. QED
        BY <4>1, LevelBounded
    <3>7. QED
      BY <3>1, <3>3, <3>4, <3>5, <3>6
  <2>2. ASSUME NEW u \in Threads, pc[u] = "publish", mon[u] = i
        PROVE  /\ monitors[i].recursiveCounter_ \in 0 .. MaxDepth
               /\ monitors[i].waitersCounter_ \in 0 .. 2 * Cardinality(Threads)
    <3>1. PICK n : n = IF seen[u].state = "light" THEN seen[u].count ELSE 1
      OBVIOUS
    <3>2. PICK h : h = IF seen[u].state = "hashed" THEN seen[u].hash ELSE None
      OBVIOUS
    <3>3. monitors[i] = Created(target[u], n, h)
      BY <2>2, <3>1, <3>2 DEF IInv, Memory, New
    <3>4. seen[u] \in Marks
      BY DEF IInv, Types
    <3>5. seen[u].state = "light" => seen[u].count \in 1 .. LightMax - 1 /\ seen[u].count <= MaxDepth
      BY <2>2, <3>4, MarkCases DEF IInv, Levels, LevelFits
    <3>6. n \in 0 .. MaxDepth
      BY <3>1, <3>5, MonitorAssumption
    <3>7. monitors[i].recursiveCounter_ = n /\ monitors[i].waitersCounter_ = 0
      BY <3>3 DEF Created
    <3>8. QED
      BY <3>6, <3>7, PartsBounded
  <2>3. QED
    BY <2>1, <2>2 DEF IInv, Memory
<1>3. QED
  BY <1>1, <1>2, MonitorFields DEF MonitorType

\* The light count stays below LIGHT_LOCK_LOCK_MAX_COUNT, recursiveCounter_ within the
\* nesting of the owner, and waitersCounter_, monitorCount_ and the suspend counts within
\* the numbers of threads and Monitors, without underflow (monitor.cpp, monitor.h).
THEOREM TypeCorrect == Spec => []TypeOK
<1>1. IInv => TypeOK
  <2>1. SUFFICES ASSUME IInv PROVE TypeOK
    OBVIOUS
  <2>2. \A i \in Ids : monitors[i] = Free \/ MonitorType(monitors[i])
    <3>1. SUFFICES ASSUME NEW i \in Ids, monitors[i] # Free PROVE MonitorType(monitors[i])
      OBVIOUS
    <3>2. monitors[i].live
      BY <2>1, <3>1, MonitorFields DEF IInv, Types
    <3>3. QED
      BY <2>1, <3>2, PoolTyped
  <2>3. mark \in Marks /\ held \in [Threads -> 0 .. MaxDepth]
    BY <2>1 DEF IInv, Types, Levels, LevelFits
  <2>4. suspendCount_ \in [Threads -> 0 .. Cardinality(Threads)]
    BY <2>1, PartsBounded DEF IInv, Types, Suspended
  <2>5. monitorCount_ \in [Threads -> 0 .. Cardinality(Ids)]
    <3>1. Cardinality(Ids) \in Nat
      BY MonitorAssumption, FS_CardinalityType
    <3>2. ASSUME NEW u \in Threads, HeavyOwner = u PROVE Cardinality(Ids) >= 1
      <4>1. mark.state = "heavy"
        BY <3>2, MonitorAssumption DEF HeavyOwner
      <4>2. mark.id \in Ids
        BY <2>1, <4>1, CurrentLive DEF IInv
      <4>3. Cardinality(Ids) # 0
        BY <4>2, MonitorAssumption, FS_EmptySet
      <4>4. QED
        BY <3>1, <4>3
    <3>3. \A u \in Threads : monitorCount_[u] \in 0 .. Cardinality(Ids)
      BY <2>1, <3>1, <3>2 DEF IInv, Tally
    <3>4. QED
      BY <2>1, <3>3 DEF IInv, Types
  <2>6. QED
    BY <2>2, <2>3, <2>4, <2>5 DEF TypeOK
<1>2. QED
  BY <1>1, Invariance, PTL

\* Two threads are never inside the monitor of the object, wherever its lock is
\* (MonitorEnter, Inflate, Wait and DeflateInternal of monitor.cpp).
THEOREM MutualExclusion == Spec => []Exclusion
<1>1. IInv => Exclusion
  <2>1. SUFFICES ASSUME IInv, NEW t \in Threads, Inside(t) PROVE CurLock = t
    BY DEF Exclusion
  <2>2. Owns(t) \/ Taken(t)
    BY <2>1 DEF Inside, Outside, Owns, Gone
  <2>3. QED
    BY <2>1, <2>2 DEF IInv, Lock
<1>2. QED
  BY <1>1, Invariance, PTL

\* Between two calls a thread holds the lock as often as it has entered it: inflation by
\* another thread, overflow of the light count and Wait keep every level (monitor.cpp).
THEOREM NestingCorrect == Spec => []NestingKept
<1>1. IInv => NestingKept
  <2>1. SUFFICES ASSUME IInv, NEW t \in Threads, pc[t] = "managed" PROVE LockCount(t) = held[t]
    BY DEF NestingKept, At
  <2>2. op[t] = "none" /\ held[t] \in 0 .. MaxDepth
    BY <2>1 DEF IInv, Control, Fits, OpFits, Levels, LevelFits
  <2>3. (Owns(t) <=> held[t] > 0) /\ Level(t) = held[t]
    BY <2>1, <2>2 DEF Owns, Gone, Taken, Level, Waiting, InWait
  <2>4. LockCount(t) = IF CurOwner = t THEN CurCount ELSE 0
    BY MonitorAssumption DEF LockCount, LightLockedBy, CurOwner, CurCount, Current
  <2>5. CASE CurOwner = t
    BY <2>1, <2>3, <2>4, <2>5 DEF IInv, Lock
  <2>6. CASE CurOwner # t
    <3>1. ~(held[t] > 0)
      BY <2>1, <2>3, <2>6 DEF IInv, Lock
    <3>2. QED
      BY <2>2, <2>4, <2>6, <3>1, MonitorAssumption
  <2>7. QED
    BY <2>5, <2>6
<1>2. QED
  BY <1>1, Invariance, PTL

\* The Monitor a thread works on, sleeps on or is blocked on is the one of the mark word
\* and in the pool: deflation never frees it (DeflateInternal of monitor.cpp:815).
THEOREM NothingDangles == Spec => []NoDanglingMonitor
<1>1. IInv => NoDanglingMonitor
  <2>1. SUFFICES ASSUME IInv PROVE NoDanglingMonitor
    OBVIOUS
  <2>2. mark.state = "heavy" => monitors[mark.id].live
    BY <2>1, CurrentLive, MonitorFields DEF IInv, Current
  <2>3. ASSUME NEW t \in Threads, UsesMonitor(t)
        PROVE  monitors[mon[t]].live /\ mark = Heavy(mon[t])
    <3>1. pc[t] \in InMonitor
      BY <2>1, <2>3 DEF UsesMonitor, IInv, Control, Fits
    <3>2. QED
      BY <2>1, <3>1, MonitorInUse, MonitorFields DEF IInv
  <2>4. QED
    BY <2>2, <2>3 DEF NoDanglingMonitor
<1>2. QED
  BY <1>1, Invariance, PTL

LEMMA OwnedMonitors ==
  ASSUME IInv, NEW t \in Threads
  PROVE  monitorCount_[t] =
           Cardinality({i \in Ids : monitors[i].live /\ monitors[i].owner_ = t
                                     /\ mark = Heavy(i)})
<1> DEFINE S == {i \in Ids : monitors[i].live /\ monitors[i].owner_ = t /\ mark = Heavy(i)}
<1>1. monitorCount_[t] = IF HeavyOwner = t THEN 1 ELSE 0
  BY DEF IInv, Tally
<1>2. CASE HeavyOwner = t
  <2>1. mark.state = "heavy" /\ Current.owner_ = t
    BY <1>2, MonitorAssumption DEF HeavyOwner
  <2>2. mark.id \in Ids /\ mark = Heavy(mark.id) /\ monitors[mark.id].live
    BY <2>1, CurrentLive, MonitorFields DEF IInv, Current
  <2>3. \A i \in Ids : mark = Heavy(i) => i = mark.id
    BY MarkMade
  <2>4. S = {mark.id}
    BY <2>1, <2>2, <2>3 DEF Current
  <2>5. QED
    BY <1>1, <1>2, <2>4, FS_Singleton
<1>3. CASE HeavyOwner # t
  <2>1. \A i \in Ids : mark = Heavy(i) => mark.state = "heavy" /\ mark.id = i
    BY MarkMade
  <2>2. S = {}
    BY <1>3, <2>1 DEF HeavyOwner, Current
  <2>3. QED
    BY <1>1, <1>3, <2>2, FS_EmptySet
<1>4. QED
  BY <1>2, <1>3

\* The assertions and fatal errors of monitor.cpp cannot fail: whoever sets the owner
\* finds none, whoever releases is the owner, the target of an inflation is parked,
\* monitorCount_ is what ReleaseMonitors expects, and a deflated Monitor has empty lists.
THEOREM AssertionsHold == Spec => []AssertsHold
<1>1. IInv => AssertsHold
  <2>1. SUFFICES ASSUME IInv PROVE AssertsHold
    OBVIOUS
  <2>2. ASSUME NEW t \in Threads
        PROVE  /\ pc[t] \in {"own", "setowner"} => monitors[mon[t]].owner_ = None
               /\ pc[t] = "release" => monitors[mon[t]].owner_ = t
               /\ pc[t] \in {"inflate", "publish"} => target[t] = t \/ Parked(target[t])
    <3>1. ASSUME pc[t] \in {"own", "setowner"} PROVE monitors[mon[t]].owner_ = None
      <4>1. Taken(t) /\ pc[t] \in InMonitor
        BY <3>1 DEF Taken, InMonitor
      <4>2. mark.state = "heavy" /\ Current = monitors[mon[t]]
        BY <2>1, <4>1, MonitorInUse DEF IInv
      <4>3. QED
        BY <2>1, <4>1, <4>2, LockFacts
    <3>2. ASSUME pc[t] = "release" PROVE monitors[mon[t]].owner_ = t
      <4>1. held[t] > 0
        BY <2>1, <3>2 DEF IInv, Control, Fits, OpFits, Levels, LevelFits
      <4>2. Owns(t) /\ pc[t] \in InMonitor
        BY <3>2, <4>1 DEF Owns, Gone, Taken, InMonitor
      <4>3. mark.state = "heavy" /\ Current = monitors[mon[t]]
        BY <2>1, <4>2, MonitorInUse DEF IInv
      <4>4. QED
        BY <2>1, <4>2, <4>3, LockFacts
    <3>3. pc[t] \in {"inflate", "publish"} => target[t] = t \/ Parked(target[t])
      BY <2>1 DEF IInv, Suspended, Past
    <3>4. QED
      BY <3>1, <3>2, <3>3
  <2>3. ASSUME NEW i \in unvisited, Deflatable(monitors[i])
        PROVE  /\ monitors[i].waiters_ = <<>> /\ monitors[i].toWakeup_ = <<>>
               /\ monitors[i].recursiveCounter_ = 0
    <3>1. /\ mark.state = "heavy" /\ mark.id = i /\ monitors[i] \in MonitorRec
          /\ \A u \in Threads : pc[u] \notin InMonitor
      BY <2>1, <2>3, NobodyUses
    <3>2. Current = monitors[i]
      BY <3>1 DEF Current
    <3>3. \A u \in Threads : ~ListedIn(Current, u)
      BY <2>1, <3>1 DEF IInv, Lists, Waiting
    <3>4. Current.waiters_ \in Seq(Threads) /\ Current.toWakeup_ \in Seq(Threads)
      BY <3>1, <3>2, MonitorFields
    <3>5. Current.waiters_ = <<>>
      BY <3>3, <3>4, HeadAndTail DEF ListedIn
    <3>6. Current.toWakeup_ = <<>>
      BY <3>3, <3>4, HeadAndTail DEF ListedIn
    <3>7. Current.recursiveCounter_ = 0
      BY <2>1, <2>3, <3>1, <3>2, HeavyLock DEF IInv, Lock, Deflatable
    <3>8. QED
      BY <3>2, <3>5, <3>6, <3>7
  <2>4. QED
    BY <2>1, <2>2, <2>3, OwnedMonitors DEF AssertsHold
<1>2. QED
  BY <1>1, Invariance, PTL

\* GetHashCode always returns the same value, although the hash moves between the mark
\* word and the Monitors (Inflate, DeflateInternal and GetHashCode).
THEOREM HashNeverChanges == Spec => []HashStable
<1>1. IInv => HashStable
  <2>1. SUFFICES ASSUME IInv PROVE Cardinality(hashes) <= 1
    BY DEF HashStable
  <2>2. hashes \subseteq {CurHash}
    BY <2>1 DEF IInv, Hash
  <2>3. PICK c : c = CurHash
    OBVIOUS
  <2>4. IsFiniteSet({c}) /\ Cardinality({c}) = 1
    BY FS_Singleton
  <2>5. QED
    BY <2>2, <2>3, <2>4, FS_Subset
<1>2. QED
  BY <1>1, Invariance, PTL

LEMMA ListedOnce ==
  ASSUME NEW i, NEW t \in Threads, Linked(monitors[i])
  PROVE  Listed(t, i) = IF ListedIn(monitors[i], t) THEN 1 ELSE 0
<1>1. PICK a : a = monitors[i].waiters_
  OBVIOUS
<1>2. PICK b : b = monitors[i].toWakeup_
  OBVIOUS
<1>3. Once(a) /\ Once(b) /\ ~(In(a, t) /\ In(b, t))
  BY <1>1, <1>2 DEF Linked
<1>4. Cardinality({k \in DOMAIN a : a[k] = t}) = IF In(a, t) THEN 1 ELSE 0
  BY <1>3, CountedOnce
<1>5. Cardinality({k \in DOMAIN b : b[k] = t}) = IF In(b, t) THEN 1 ELSE 0
  BY <1>3, CountedOnce
<1>6. Listed(t, i) = Cardinality({k \in DOMAIN a : a[k] = t})
                       + Cardinality({k \in DOMAIN b : b[k] = t})
  BY <1>1, <1>2 DEF Listed
<1>7. QED
  BY <1>1, <1>2, <1>3, <1>4, <1>5, <1>6 DEF ListedIn

\* A thread asleep in Wait is in exactly one list of its Monitor or about to be
\* signalled, and whoever is listed is in Wait on that Monitor: no list holds a stale
\* thread (monitor.cpp:86, 424-430, 690-699).
THEOREM ListsCorrect == Spec => []ListsExact
<1>1. IInv => ListsExact
  <2>1. SUFFICES ASSUME IInv PROVE ListsExact
    OBVIOUS
  <2>2. ASSUME NEW t \in Threads, At(t, "asleep")
        PROVE  \/ Listed(t, mon[t]) = 1
               \/ \E u \in Threads : At(u, "signal") /\ target[u] = t
    <3>1. pc[t] = "asleep" /\ pc[t] \in InMonitor /\ Drowsy(t)
      BY <2>1, <2>2 DEF At, IInv, Control, Fits, OpFits, Drowsy, InWait, InMonitor, Waits
    <3>2. mark.state = "heavy" /\ Current = monitors[mon[t]]
      BY <2>1, <3>1, MonitorInUse DEF IInv
    <3>3. /\ Linked(Current)
          /\ ListedIn(Current, t) \/ \E u \in Threads : pc[u] = "signal" /\ target[u] = t
      BY <2>1, <3>1, <3>2 DEF IInv, Lists
    <3>4. QED
      BY <3>2, <3>3, ListedOnce DEF At
  <2>3. ASSUME NEW i \in Ids, NEW t \in Threads, monitors[i].live, Listed(t, i) > 0
        PROVE  Listed(t, i) = 1 /\ waitingMonitor_[t] = i /\ InWait(t)
    <3>1. CASE mark = Heavy(i)
      <4>1. mark.state = "heavy" /\ mark.id = i /\ Current = monitors[i]
        BY <3>1, MarkMade DEF Current
      <4>2. Linked(monitors[i])
        BY <2>1, <4>1 DEF IInv, Lists
      <4>3. Listed(t, i) = 1 /\ ListedIn(monitors[i], t)
        BY <2>3, <4>2, ListedOnce
      <4>4. QED
        BY <2>1, <4>1, <4>3, ListedWaits DEF Waiting
    <3>2. ASSUME NEW u \in Threads, pc[u] = "publish", mon[u] = i PROVE FALSE
      <4>1. monitors[i].waiters_ = <<>> /\ monitors[i].toWakeup_ = <<>>
        <5>1. \E n, h : monitors[i] = Created(target[u], n, h)
          BY <2>1, <3>2 DEF IInv, Memory, New
        <5>2. QED
          BY <5>1 DEF Created
      <4>2. Linked(monitors[i]) /\ ~ListedIn(monitors[i], t)
        BY <4>1, EmptyList DEF Linked, ListedIn
      <4>3. QED
        BY <2>3, <4>2, ListedOnce
    <3>3. QED
      BY <2>1, <2>3, <3>1, <3>2 DEF IInv, Memory
  <2>4. QED
    BY <2>2, <2>3 DEF ListsExact
<1>2. QED
  BY <1>1, Invariance, PTL

-----------------------------------------------------------------------------
(* InflateThinLock and the thread that runs it.                            *)

\* A thread goes to InflateThinLock for the lock of another one, so it holds none
\* itself; the thread it names is then never itself, unless the bits of the thread
\* id are those of a hash code or of a monitor id.
NamedByBits(t) == \E x \in Hashes \cup Ids : IdBits[x] = t
ThinFits(t) ==
  /\ pc[t] = "thin" => held[t] = 0
  /\ pc[t] \in {"suspend", "await"} /\ target[t] = t => NamedByBits(t)
Thin == \A t \in Threads : ThinFits(t)

\* A thread suspends itself only when a hash code or a monitor id has its own id in
\* the bits of the thread id: the word that InflateThinLock reads again is then a
\* hashed or a heavy one (monitor.cpp:90-124), never a light lock of its own.
SelfOnlyByBits == \A t \in Threads : pc[t] = "await" /\ target[t] = t => NamedByBits(t)

LEMMA ThinUntouched ==
  ASSUME NEW u \in Threads, ThinFits(u), Untouched(u)
  PROVE  ThinFits(u)'
<1>1. /\ pc'[u] \in {"thin", "suspend", "await"} => pc'[u] = pc[u]
      /\ held'[u] = held[u] /\ target'[u] = target[u]
  BY DEF Untouched
<1>2. NamedByBits(u)' <=> NamedByBits(u)
  BY DEF NamedByBits
<1>3. QED
  BY <1>1, <1>2 DEF ThinFits

\* The steps that do not go to InflateThinLock.
LEMMA LeavesThin ==
  ASSUME IInv, NEW t \in Threads,
         \/ EnterBegin(t) \/ ExitBegin(t) \/ WaitBegin(t) \/ HashBegin(t)
         \/ EnterHeavy(t) \/ EnterFree(t) \/ EnterInflate(t) \/ EnterCAS(t)
         \/ AcquireRecursive(t) \/ AcquireTry(t) \/ AcquireFailed(t) \/ AcquireBlock(t)
         \/ AcquireBlocked(t) \/ AcquireUnblock(t) \/ AcquireOwn(t)
         \/ ExitHeavy(t) \/ ExitLight(t) \/ ExitCAS(t) \/ ReleaseNested(t) \/ ReleaseLast(t)
         \/ ReleaseSignal(t) \/ ReleaseUnlock(t)
         \/ WaitInflate(t) \/ WaitEnqueue(t) \/ WaitSleep(t) \/ WaitTimeout(t)
         \/ WaitReacquire(t) \/ WaitDone(t) \/ Notify(t) \/ NotifyAll(t) \/ Interrupted(t)
         \/ ThinNobody(t) \/ ThinAwait(t) \/ ThinResume(t) \/ InflateFail(t)
         \/ InflateCreate(t) \/ InflatePublish(t)
         \/ HashUnlocked(t) \/ HashCAS(t) \/ HashHeavy(t) \/ HashHashed(t)
  PROVE  pc'[t] \notin {"thin", "suspend", "await"}
<1>1. pc \in [Threads -> Labels]
  BY DEF IInv, Types
<1>2. CASE EnterBegin(t)
  BY <1>1, <1>2 DEF EnterBegin, Begin, Jump, Goto, At
<1>3. CASE ExitBegin(t)
  BY <1>1, <1>3 DEF ExitBegin, Begin, Jump, Goto, At
<1>4. CASE WaitBegin(t)
  BY <1>1, <1>4 DEF WaitBegin, Begin, Jump, Goto, At
<1>5. CASE HashBegin(t)
  BY <1>1, <1>5 DEF HashBegin, Begin, Jump, Goto, At
<1>6. CASE EnterHeavy(t)
  BY <1>1, <1>6 DEF EnterHeavy, Return, Loop, Jump, Goto, At
<1>7. CASE EnterFree(t)
  BY <1>1, <1>7 DEF EnterFree, Return, Loop, Jump, Goto, At
<1>8. CASE EnterInflate(t)
  BY <1>1, <1>8 DEF EnterInflate, Return, Loop, Jump, Goto, At
<1>9. CASE EnterCAS(t)
  BY <1>1, <1>9 DEF EnterCAS, Return, Loop, Jump, Goto, At
<1>10. CASE AcquireRecursive(t)
  BY <1>1, <1>10 DEF AcquireRecursive, Acquired, Return, Jump, Goto, At
<1>11. CASE AcquireTry(t)
  BY <1>1, <1>11 DEF AcquireTry, Acquired, Return, Jump, Goto, At
<1>12. CASE AcquireFailed(t)
  BY <1>1, <1>12 DEF AcquireFailed, Acquired, Return, Jump, Goto, At
<1>13. CASE AcquireBlock(t)
  BY <1>1, <1>13 DEF AcquireBlock, Acquired, Return, Jump, Goto, At
<1>14. CASE AcquireBlocked(t)
  BY <1>1, <1>14 DEF AcquireBlocked, Acquired, Return, Jump, Goto, At
<1>15. CASE AcquireUnblock(t)
  BY <1>1, <1>15 DEF AcquireUnblock, Acquired, Return, Jump, Goto, At
<1>16. CASE AcquireOwn(t)
  BY <1>1, <1>16 DEF AcquireOwn, Acquired, Return, Jump, Goto, At
<1>17. CASE ExitHeavy(t)
  BY <1>1, <1>17 DEF ExitHeavy, Return, Jump, Goto, At
<1>18. CASE ExitLight(t)
  BY <1>1, <1>18 DEF ExitLight, Return, Jump, Goto, At
<1>19. CASE ExitCAS(t)
  BY <1>1, <1>19 DEF ExitCAS, Return, Jump, Goto, At
<1>20. CASE ReleaseNested(t)
  BY <1>1, <1>20 DEF ReleaseNested, Return, Jump, Goto, At
<1>21. CASE ReleaseLast(t)
  BY <1>1, <1>21 DEF ReleaseLast, Return, Jump, Goto, At
<1>22. CASE ReleaseSignal(t)
  BY <1>1, <1>22 DEF ReleaseSignal, Return, Jump, Goto, At
<1>23. CASE ReleaseUnlock(t)
  BY <1>1, <1>23 DEF ReleaseUnlock, Return, Jump, Goto, At
<1>24. CASE WaitInflate(t)
  BY <1>1, <1>24 DEF WaitInflate, Return, locals, Jump, Goto, At
<1>25. CASE WaitEnqueue(t)
  BY <1>1, <1>25 DEF WaitEnqueue, Return, locals, Jump, Goto, At
<1>26. CASE WaitSleep(t)
  BY <1>1, <1>26 DEF WaitSleep, Return, locals, Jump, Goto, At
<1>27. CASE WaitTimeout(t)
  BY <1>1, <1>27 DEF WaitTimeout, Return, locals, Jump, Goto, At
<1>28. CASE WaitReacquire(t)
  BY <1>1, <1>28 DEF WaitReacquire, Return, locals, Jump, Goto, At
<1>29. CASE WaitDone(t)
  BY <1>1, <1>29 DEF WaitDone, Return, locals, Jump, Goto, At
<1>30. CASE Notify(t)
  BY <1>1, <1>30 DEF Notify, Return, locals, Jump, Goto, At
<1>31. CASE NotifyAll(t)
  BY <1>1, <1>31 DEF NotifyAll, Return, locals, Jump, Goto, At
<1>32. CASE Interrupted(t)
  BY <1>1, <1>32 DEF Interrupted, Return, locals, Jump, Goto, At
<1>33. CASE ThinNobody(t)
  BY <1>1, <1>33 DEF ThinNobody, Inflated, Return, Loop, Jump, Goto, At
<1>34. CASE ThinAwait(t)
  BY <1>1, <1>34 DEF ThinAwait, Inflated, Return, Loop, Jump, Goto, At
<1>35. CASE ThinResume(t)
  BY <1>1, <1>35 DEF ThinResume, Inflated, Return, Loop, Jump, Goto, At
<1>36. CASE InflateFail(t)
  BY <1>1, <1>36 DEF InflateFail, Inflated, Return, Loop, Jump, Goto, At
<1>37. CASE InflateCreate(t)
  BY <1>1, <1>37 DEF InflateCreate, Inflated, Return, Loop, Jump, Goto, At
<1>38. CASE InflatePublish(t)
  BY <1>1, <1>38 DEF InflatePublish, Inflated, Return, Loop, Jump, Goto, At
<1>39. CASE HashUnlocked(t)
  BY <1>1, <1>39 DEF HashUnlocked, Return, Loop, Jump, Goto, At
<1>40. CASE HashCAS(t)
  BY <1>1, <1>40 DEF HashCAS, Return, Loop, Jump, Goto, At
<1>41. CASE HashHeavy(t)
  BY <1>1, <1>41 DEF HashHeavy, Return, Loop, Jump, Goto, At
<1>42. CASE HashHashed(t)
  BY <1>1, <1>42 DEF HashHashed, Return, Loop, Jump, Goto, At
<1>43. QED
  BY <1>2, <1>3, <1>4, <1>5, <1>6, <1>7, <1>8, <1>9, <1>10, <1>11, <1>12, <1>13, <1>14,
     <1>15, <1>16, <1>17, <1>18, <1>19, <1>20, <1>21, <1>22, <1>23, <1>24, <1>25, <1>26,
     <1>27, <1>28, <1>29, <1>30, <1>31, <1>32, <1>33, <1>34, <1>35, <1>36, <1>37, <1>38,
     <1>39, <1>40, <1>41, <1>42

LEMMA Next_Thin == IInv /\ Thin /\ [Next]_vars => Thin'
<1> SUFFICES ASSUME IInv, Thin, [Next]_vars PROVE Thin'
  OBVIOUS
<1>1. pc \in [Threads -> Labels] /\ target \in [Threads -> Threads \cup {None}]
  BY DEF IInv, Types
<1>2. ASSUME NEW t \in Threads, ThreadStep(t), ThinFits(t)' PROVE Thin'
  BY <1>2, ThreadHolds, ThinUntouched DEF Thin, Others
<1>3. \A t \in Threads : NamedByBits(t)' <=> NamedByBits(t)
  BY DEF NamedByBits
<1>4. ASSUME NEW t \in Threads, ThreadStep(t) PROVE ThinFits(t)'
  <2>1. CASE Interrupt(t)
    BY <2>1, QuietInterrupt, ThinUntouched DEF Thin
  <2>2. CASE EnterContended(t) \/ HashLight(t)
    <3>1. mark.state = "light" /\ held' = held /\ pc[t] \in {"enter", "hash"}
      BY <2>2 DEF EnterContended, HashLight, Jump, At, threadVars
    <3>2. pc'[t] \in {"thin", "suspend", "await"} => pc'[t] = "thin" /\ mark.tid # t
      BY <1>1, <2>2 DEF EnterContended, HashLight, Jump, Goto, Return
    <3>3. ASSUME mark.tid # t PROVE held[t] = 0
      <4>1. CurOwner # t
        BY <3>1, <3>3 DEF CurOwner
      <4>2. ~Owns(t) /\ held[t] \in 0 .. MaxDepth
        BY <4>1 DEF IInv, Lock, Levels, LevelFits
      <4>3. ~Gone(t) /\ ~Taken(t)
        BY <3>1 DEF Gone, Taken
      <4>4. QED
        BY <4>2, <4>3, MonitorAssumption DEF Owns
    <3>4. QED
      BY <3>1, <3>2, <3>3 DEF ThinFits
  <2>3. CASE ThinLoad(t)
    <3>1. /\ pc[t] = "thin" /\ pc'[t] = "suspend" /\ target'[t] = GetThreadId(mark)
      BY <1>1, <2>3 DEF ThinLoad, Jump, At, Goto
    <3>2. held[t] = 0
      BY <3>1 DEF Thin, ThinFits
    <3>3. ~LightLockedBy(mark, t)
      <4>1. SUFFICES ASSUME LightLockedBy(mark, t) PROVE FALSE
        OBVIOUS
      <4>2. held[t] > 0
        BY <3>1, <4>1, LightIsHeld DEF IInv
      <4>3. QED
        BY <3>2, <4>2
    <3>4. GetThreadId(mark) = t => NamedByBits(t)
      <4>1. mark \in Marks
        BY DEF IInv, Types
      <4>2. CASE mark.state = "light"
        BY <3>3, <4>2 DEF GetThreadId, LightLockedBy
      <4>3. CASE mark.state = "hashed"
        BY <4>1, <4>3, MarkCases DEF GetThreadId, NamedByBits
      <4>4. CASE mark.state = "heavy"
        BY <4>1, <4>4, MarkCases DEF GetThreadId, NamedByBits
      <4>5. CASE mark.state \notin {"light", "hashed", "heavy"}
        BY <4>5, MonitorAssumption DEF GetThreadId
      <4>6. QED
        BY <4>2, <4>3, <4>4, <4>5
    <3>5. QED
      BY <1>3, <3>1, <3>4 DEF ThinFits
  <2>4. CASE ThinSuspend(t)
    <3>1. pc[t] = "suspend" /\ pc'[t] = "await" /\ target' = target
      BY <1>1, <2>4 DEF ThinSuspend, Jump, At, Goto
    <3>2. QED
      BY <1>3, <3>1 DEF Thin, ThinFits
  <2>5. CASE pc'[t] \notin {"thin", "suspend", "await"}
    BY <2>5 DEF ThinFits
  <2>6. QED
    BY <1>4, <2>1, <2>2, <2>3, <2>4, <2>5, LeavesThin
       DEF ThreadStep, MonitorEnter, Acquire, MonitorExit, Release, Wait, InflateThinLock, Inflate,
           GetHashCode
<1>5. CASE DeflateMonitors \/ UNCHANGED vars
  <2>1. UNCHANGED <<pc, target, held>>
    BY <1>5 DEF DeflateMonitors, PauseBegin, DeflateInternal, PauseEnd, locals, threadVars, vars
  <2>2. QED
    BY <1>3, <2>1 DEF Thin, ThinFits
<1>6. QED
  BY <1>2, <1>4, <1>5 DEF Next, ThreadStep

\* The assertion current != suspended of mt_thread_manager.cpp:353 can fail in one way
\* only: a thread that goes to inflate a light lock of another reads, in the place of
\* that lock, a hash code or a monitor id that has its own id in the bits of the thread
\* id. Where no hash and no monitor id does (monitor.cpp:106-109 gives no reason why
\* not), no thread ever suspends itself: it never names itself in a light lock.
THEOREM SelfSuspension == Spec => []SelfOnlyByBits
<1>1. Init => Thin
  BY DEF Init, Thin, ThinFits
<1>2. Thin => SelfOnlyByBits
  BY DEF Thin, ThinFits, SelfOnlyByBits
<1>3. QED
  BY <1>1, <1>2, Next_Thin, Invariance, PTL DEF Spec

=============================================================================
