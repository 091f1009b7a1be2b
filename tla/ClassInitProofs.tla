--------------------------- MODULE ClassInitProofs ---------------------------
(***************************************************************************)
(* Proofs, for any threads and any class hierarchy, that a class is        *)
(* initialized by one call of one thread and that a call says TRUE only    *)
(* for a class that can be used; and, when classes do not need each other  *)
(* in a circle, that the supertypes are initialized first.                 *)
(*                                                                         *)
(* The invariant describes the stacks: below the head every frame waits    *)
(* for the one above (Nested), a pending exception is on its way to a      *)
(* frame that handles it (Calm), the calls at work on a class belong to    *)
(* the thread in initTid_ (Owned) and are one per class (Single), and a    *)
(* class in INITIALIZING has such a call, a bad superclass, or lost its    *)
(* thread to the shutdown (Left).                                          *)
(***************************************************************************)
EXTENDS ClassInit, TLAPS, SequenceTheorems, FiniteSetTheorems

Frames == [pc : Labels, klass : Classes, rest : Seq(Classes)]
Types ==
  /\ state_ \in [Classes -> LOADED .. INITIALIZED]
  /\ initTid_ \in [Classes -> Threads \cup {None}]
  /\ stack \in [Threads -> Seq(Frames)]
  /\ ret \in [Threads -> BOOLEAN] /\ exception \in [Threads -> BOOLEAN]
  /\ termination \subseteq interrupted /\ interrupted \subseteq Threads
  /\ aborted \in BOOLEAN

\* The frames that wait for the one above, and those of InitializeInterface.
Calling == {"super_return", "interface_return", "superinterface_return", "cctor_return"}
IfaceCalls == {"interface_return", "superinterface_return"}

\* A frame has come to its label in the way of the code.
WellMade(f) ==
  /\ f.pc = "super_return" => f.klass \notin InterfaceClasses /\ Base[f.klass] # None
  /\ f.pc \in Calling \ {"super_return"} => f.rest # <<>>
  /\ f.pc \in {"interfaces", "interface_return"} => f.klass \notin InterfaceClasses

\* g waits for f, and only for a call that it makes.
Awaits(g, f) ==
  /\ g.pc \in Calling
  /\ f.klass = IF g.pc = "super_return" THEN Base[g.klass] ELSE Head(g.rest)
  /\ f.pc \in {"iface", "superinterfaces", "superinterface_return"} => g.pc \in IfaceCalls
  /\ g.pc \in IfaceCalls /\ f.pc # "iface" => f.klass \in InterfaceClasses
Nested ==
  \A t \in Threads :
    /\ \A k \in DOMAIN stack[t] : WellMade(stack[t][k])
    /\ \A k \in DOMAIN stack[t] : k + 1 \in DOMAIN stack[t] => Awaits(stack[t][k + 1], stack[t][k])

\* No exception is pending where code goes on.
Quiet == {"entry", "lock", "wait", "notified", "woken", "super", "interfaces", "iface",
          "superinterfaces"}
Calm ==
  \A t \in Threads :
    /\ stack[t] = <<>> => ~exception[t]
    /\ stack[t] # <<>> /\ stack[t][1].pc \in Quiet => ~exception[t]
    /\ /\ stack[t] # <<>> /\ ret[t]
       /\ stack[t][1].pc \in {"super_return", "interface_return", "superinterface_return"}
       => ~exception[t]

Owned ==
  \A t \in Threads, c \in Classes : \A k \in DOMAIN stack[t] : Works(t, k, c) =>
    /\ initTid_[c] = t /\ state_[c] >= INITIALIZING
    /\ termination = {} => state_[c] = INITIALIZING
Single ==
  \A t \in Threads, c \in Classes : \A j \in DOMAIN stack[t], k \in DOMAIN stack[t] :
    Works(t, j, c) /\ Works(t, k, c) => j = k

Dead(t) == t \in termination /\ stack[t] # <<>> /\ stack[t][1].pc = "dead"
Left ==
  \A c \in Classes : state_[c] = INITIALIZING =>
    \E t \in Threads :
      /\ initTid_[c] = t
      /\ BadBase(c) \/ Dead(t) \/ \E k \in DOMAIN stack[t] : Works(t, k, c)

Fatal == aborted => termination # {}

IInv == Types /\ Nested /\ Calm /\ Owned /\ Single /\ Left /\ Fatal

-----------------------------------------------------------------------------
\* For layered classes: the frames of a stack are in the order of the layers,
\* what a frame has still to do is in its lists, and what it has done holds.
Done(st, c) == st[c] = INITIALIZED
Member(c, s) == \E i \in DOMAIN s : s[i] = c

Ordered(rank) ==
  \A t \in Threads : \A j \in DOMAIN stack[t], k \in DOMAIN stack[t] :
    j < k => rank[stack[t][j].klass] < rank[stack[t][k].klass]

Ahead(f) ==
  /\ f.pc \in {"interfaces", "interface_return", "superinterfaces", "superinterface_return"} =>
       \A i \in DOMAIN f.rest : Member(f.rest[i], Interfaces[f.klass])
  /\ f.pc \in {"cctor", "cctor_return"} =>
       \A i \in DOMAIN f.rest : Member(f.rest[i], Uses[f.klass])
Behind(st, f) ==
  /\ f.pc \in {"interfaces", "interface_return"} =>
       /\ Base[f.klass] # None => Done(st, Base[f.klass])
       /\ \A m \in DOMAIN Interfaces[f.klass] :
            Interfaces[f.klass][m] \in WithDefaults =>
              Done(st, Interfaces[f.klass][m]) \/ Member(Interfaces[f.klass][m], f.rest)
  /\ f.pc \in {"cctor", "cctor_return", "finish"} => \A s \in Supers(f.klass) : Done(st, s)
Reported(t) ==
  ~aborted /\ stack[t] # <<>> /\ ret[t] =>
    /\ stack[t][1].pc = "super_return" => Done(state_, Base[stack[t][1].klass])
    /\ stack[t][1].pc = "interface_return" /\ Head(stack[t][1].rest) \in WithDefaults =>
         Done(state_, Head(stack[t][1].rest))

Progress ==
  /\ \A t \in Threads :
       /\ \A k \in DOMAIN stack[t] : Ahead(stack[t][k]) /\ Behind(state_, stack[t][k])
       /\ Reported(t)
  /\ \A c \in Classes : Done(state_, c) => \A s \in Supers(c) : Done(state_, s)

RInv(rank) == Ordered(rank) /\ Progress

-----------------------------------------------------------------------------
(* Frames and stacks.                                                      *)

\* A frame is made of a label, a class and a list of classes.
LEMMA FrameType ==
  ASSUME NEW l \in Labels, NEW c \in Classes, NEW r \in Seq(Classes)
  PROVE  /\ Frame(l, c, r) \in Frames
         /\ Frame(l, c, r).pc = l
         /\ Frame(l, c, r).klass = c
         /\ Frame(l, c, r).rest = r
BY DEF Frame, Frames

\* The fields of a frame.
LEMMA FrameFields ==
  ASSUME NEW f \in Frames
  PROVE  f.pc \in Labels /\ f.klass \in Classes /\ f.rest \in Seq(Classes)
BY DEF Frames

\* Call leaves the caller's frame with another label.
LEMMA Relabel ==
  ASSUME NEW f \in Frames, NEW l \in Labels
  PROVE  /\ [f EXCEPT !.pc = l] \in Frames
         /\ [f EXCEPT !.pc = l].pc = l
         /\ [f EXCEPT !.pc = l].klass = f.klass
         /\ [f EXCEPT !.pc = l].rest = f.rest
BY DEF Frames

\* A stack with another head.
LEMMA ReplaceShape ==
  ASSUME NEW S, NEW s \in Seq(S), s # <<>>, NEW f \in S
  PROVE  /\ [s EXCEPT ![1] = f] \in Seq(S)
         /\ DOMAIN [s EXCEPT ![1] = f] = DOMAIN s
         /\ 1 \in DOMAIN s /\ Head(s) = s[1] /\ [s EXCEPT ![1] = f] # <<>>
         /\ [s EXCEPT ![1] = f][1] = f
         /\ \A k \in DOMAIN s : k # 1 => [s EXCEPT ![1] = f][k] = s[k]
<1>1. 1 \in 1 .. Len(s) /\ Head(s) = s[1] /\ DOMAIN s = 1 .. Len(s)
  BY HeadTailProperties, EmptySeq, LenProperties
<1>2. [s EXCEPT ![1] = f] \in Seq(S)
  BY <1>1, ExceptSeq
<1>3. [s EXCEPT ![1] = f] # <<>>
  BY <1>1, <1>2, EmptySeq, LenProperties
<1>4. QED
  BY <1>1, <1>2, <1>3

\* A stack without its head.
LEMMA DropShape ==
  ASSUME NEW S, NEW s \in Seq(S), s # <<>>
  PROVE  /\ Tail(s) \in Seq(S)
         /\ 1 \in DOMAIN s /\ Head(s) = s[1]
         /\ Len(Tail(s)) = Len(s) - 1
         /\ \A k : k \in DOMAIN Tail(s) <=> (k \in Nat /\ k # 0 /\ k + 1 \in DOMAIN s)
         /\ \A k \in DOMAIN Tail(s) : k + 1 \in DOMAIN s /\ Tail(s)[k] = s[k + 1]
<1>1. 1 \in 1 .. Len(s) /\ Head(s) = s[1] /\ DOMAIN s = 1 .. Len(s) /\ Len(s) \in Nat
  BY HeadTailProperties, EmptySeq, LenProperties
<1>2. /\ Tail(s) \in Seq(S) /\ Len(Tail(s)) = Len(s) - 1
      /\ \A k \in 1 .. Len(Tail(s)) : Tail(s)[k] = s[k + 1]
  BY HeadTailProperties
<1>3. DOMAIN Tail(s) = 1 .. Len(Tail(s))
  BY <1>2, LenProperties
<1>4. QED
  BY <1>1, <1>2, <1>3

\* A stack with another head and a frame above it.
LEMMA PushShape ==
  ASSUME NEW S, NEW s \in Seq(S), s # <<>>, NEW f \in S, NEW g \in S
  PROVE  /\ <<f, g>> \o Tail(s) \in Seq(S)
         /\ 1 \in DOMAIN s /\ Head(s) = s[1]
         /\ Len(<<f, g>> \o Tail(s)) = Len(s) + 1
         /\ \A k : k \in DOMAIN (<<f, g>> \o Tail(s)) <=> (k = 1 \/ (k \in Nat /\ k - 1 \in DOMAIN s))
         /\ (<<f, g>> \o Tail(s))[1] = f /\ (<<f, g>> \o Tail(s))[2] = g
         /\ \A k \in DOMAIN s : k # 1 => (<<f, g>> \o Tail(s))[k + 1] = s[k]
<1>1. 1 \in 1 .. Len(s) /\ Head(s) = s[1] /\ DOMAIN s = 1 .. Len(s) /\ Len(s) \in Nat
  BY HeadTailProperties, EmptySeq, LenProperties
<1>2. /\ Tail(s) \in Seq(S) /\ Len(Tail(s)) = Len(s) - 1
      /\ \A k \in 1 .. Len(Tail(s)) : Tail(s)[k] = s[k + 1]
  BY HeadTailProperties
<1>3. <<f, g>> \in Seq(S) /\ Len(<<f, g>>) = 2 /\ <<f, g>>[1] = f /\ <<f, g>>[2] = g
  OBVIOUS
<1> DEFINE z == <<f, g>> \o Tail(s)
<1>4. /\ z \in Seq(S) /\ Len(z) = 2 + Len(Tail(s))
      /\ \A k \in 1 .. 2 + Len(Tail(s)) :
           z[k] = IF k <= 2 THEN <<f, g>>[k] ELSE Tail(s)[k - 2]
  BY <1>2, <1>3, ConcatProperties
<1>5. DOMAIN z = 1 .. Len(s) + 1
  BY <1>1, <1>2, <1>4, LenProperties
<1>6. z[1] = f /\ z[2] = g
  BY <1>1, <1>2, <1>3, <1>4
<1>7. ASSUME NEW k \in DOMAIN s, k # 1 PROVE z[k + 1] = s[k]
  <2>1. k + 1 \in 1 .. 2 + Len(Tail(s)) /\ ~ (k + 1 <= 2) /\ (k + 1) - 2 = k - 1
    BY <1>1, <1>2, <1>7
  <2>2. k - 1 \in 1 .. Len(Tail(s)) /\ (k - 1) + 1 = k
    BY <1>1, <1>2, <1>7
  <2>3. z[k + 1] = Tail(s)[k - 1]
    BY <2>1, <1>4
  <2>4. QED
    BY <2>2, <2>3, <1>2
<1> HIDE DEF z
<1>8. \A k : k \in DOMAIN z <=> (k = 1 \/ (k \in Nat /\ k - 1 \in DOMAIN s))
  BY <1>1, <1>5
<1>9. QED
  BY <1>1, <1>2, <1>4, <1>6, <1>7, <1>8 DEF z

-----------------------------------------------------------------------------
(* What a step does to the stack of a thread.                              *)

\* The frame o goes on as f.
InIface == {"iface", "superinterfaces", "superinterface_return"}
Refit(o, f) ==
  /\ f \in Frames /\ f.klass = o.klass /\ WellMade(f)
  /\ f.pc \in InIface => o.pc \in InIface
  /\ o.pc = "iface" /\ f.pc # "iface" => f.klass \in InterfaceClasses

Same(u) == stack'[u] = stack[u]
Replace(u, f) ==
  /\ stack[u] # <<>> /\ Refit(stack[u][1], f)
  /\ stack'[u] = [stack[u] EXCEPT ![1] = f]
Push(u, g, f) ==
  /\ stack[u] # <<>> /\ Refit(stack[u][1], g)
  /\ f \in Frames /\ WellMade(f) /\ Awaits(g, f)
  /\ stack'[u] = <<f, g>> \o Tail(stack[u])
Drop(u) == stack[u] # <<>> /\ stack'[u] = Tail(stack[u])
Start(u, f) ==
  /\ stack[u] = <<>> /\ f \in Frames /\ WellMade(f) /\ f.pc = "entry"
  /\ stack'[u] = <<f>>
Notified(u) ==
  \/ Same(u)
  \/ /\ stack[u] # <<>> /\ stack[u][1].pc = "wait"
     /\ Replace(u, Frame("notified", stack[u][1].klass, <<>>))

NestedIn(t) ==
  /\ \A k \in DOMAIN stack[t] : WellMade(stack[t][k])
  /\ \A k \in DOMAIN stack[t] : k + 1 \in DOMAIN stack[t] => Awaits(stack[t][k + 1], stack[t][k])
Stack(t) == stack[t] \in Seq(Frames)

\* A frame in the place of another one is awaited in the same way.
LEMMA RefitAwaited ==
  ASSUME NEW g, NEW o, NEW f, Awaits(g, o), Refit(o, f)
  PROVE  Awaits(g, f)
BY DEF Awaits, Refit, InIface, IfaceCalls

\* The stacks stay nested when the head goes on.
LEMMA ReplaceNested ==
  ASSUME NEW t \in Threads, Stack(t), NestedIn(t), NEW f, Replace(t, f)
  PROVE  Stack(t)' /\ NestedIn(t)'
<1> DEFINE s == stack[t]  z == stack'[t]
<1>1. s \in Seq(Frames) /\ s # <<>> /\ f \in Frames /\ z = [s EXCEPT ![1] = f]
  BY DEF Stack, Replace, Refit
<1>2. /\ z \in Seq(Frames) /\ DOMAIN z = DOMAIN s
      /\ 1 \in DOMAIN s /\ z[1] = f
      /\ \A k \in DOMAIN s : k # 1 => z[k] = s[k]
  BY <1>1, ReplaceShape
<1>3. DOMAIN s = 1 .. Len(s) /\ Len(s) \in Nat
  BY <1>1, LenProperties
<1>4. WellMade(f) /\ Refit(s[1], f)
  BY DEF Replace, Refit
<1>5. /\ \A k \in DOMAIN s : WellMade(s[k])
      /\ \A k \in DOMAIN s : k + 1 \in DOMAIN s => Awaits(s[k + 1], s[k])
  BY DEF NestedIn
<1> HIDE DEF s, z
<1>6. \A k \in DOMAIN z : WellMade(z[k])
  BY <1>2, <1>4, <1>5
<1>7. ASSUME NEW k \in DOMAIN z, k + 1 \in DOMAIN z PROVE Awaits(z[k + 1], z[k])
  <2>1. k + 1 # 1 /\ z[k + 1] = s[k + 1]
    BY <1>2, <1>3, <1>7
  <2>2. CASE k = 1
    BY <2>1, <2>2, <1>2, <1>4, <1>5, <1>7, RefitAwaited
  <2>3. CASE k # 1
    BY <2>1, <2>3, <1>2, <1>5, <1>7
  <2>4. QED
    BY <2>2, <2>3
<1>8. QED
  BY <1>2, <1>6, <1>7 DEF Stack, NestedIn, z

\* The stacks stay nested when the head makes a call.
LEMMA PushNested ==
  ASSUME NEW t \in Threads, Stack(t), NestedIn(t), NEW f, NEW g, Push(t, g, f)
  PROVE  Stack(t)' /\ NestedIn(t)'
<1> DEFINE s == stack[t]  z == stack'[t]
<1>1. s \in Seq(Frames) /\ s # <<>> /\ f \in Frames /\ g \in Frames /\ z = <<f, g>> \o Tail(s)
  BY DEF Stack, Push, Refit
<1>2. /\ z \in Seq(Frames)
      /\ \A k : k \in DOMAIN z <=> (k = 1 \/ (k \in Nat /\ k - 1 \in DOMAIN s))
      /\ 1 \in DOMAIN s /\ z[1] = f /\ z[2] = g
      /\ \A k \in DOMAIN s : k # 1 => z[k + 1] = s[k]
  <2> HIDE DEF s, z
  <2> DEFINE w == <<f, g>> \o Tail(s)
  <2>1. /\ w \in Seq(Frames)
        /\ \A k : k \in DOMAIN w <=> (k = 1 \/ (k \in Nat /\ k - 1 \in DOMAIN s))
        /\ 1 \in DOMAIN s /\ w[1] = f /\ w[2] = g
        /\ \A k \in DOMAIN s : k # 1 => w[k + 1] = s[k]
    BY <1>1, PushShape
  <2> HIDE DEF w
  <2>2. z = w
    BY <1>1 DEF w
  <2>3. QED
    BY <2>1, <2>2
<1>3. DOMAIN s = 1 .. Len(s) /\ Len(s) \in Nat
  BY <1>1, LenProperties
<1>4. WellMade(f) /\ Refit(s[1], g) /\ WellMade(g) /\ Awaits(g, f)
  BY DEF Push, Refit
<1>5. /\ \A k \in DOMAIN s : WellMade(s[k])
      /\ \A k \in DOMAIN s : k + 1 \in DOMAIN s => Awaits(s[k + 1], s[k])
  BY DEF NestedIn
<1> HIDE DEF s, z
<1>6. ASSUME NEW k \in DOMAIN z
      PROVE  \/ k = 1 /\ z[k] = f
             \/ k = 2 /\ z[k] = g
             \/ k - 1 \in DOMAIN s /\ k - 1 # 1 /\ k \in Nat /\ z[k] = s[k - 1]
  <2>1. CASE k = 1
    BY <2>1, <1>2
  <2>2. CASE k # 1
    <3>1. k \in Nat /\ k - 1 \in DOMAIN s /\ k = (k - 1) + 1
      BY <2>2, <1>2
    <3>2. k = 2 \/ k - 1 # 1
      BY <3>1
    <3>3. QED
      BY <3>1, <3>2, <1>2
  <2>3. QED
    BY <2>1, <2>2
<1>7. \A k \in DOMAIN z : WellMade(z[k])
  BY <1>4, <1>5, <1>6
<1>8. ASSUME NEW k \in DOMAIN z, k + 1 \in DOMAIN z PROVE Awaits(z[k + 1], z[k])
  <2>1. CASE k = 1
    BY <2>1, <1>2, <1>4
  <2>2. CASE k = 2
    <3>1. 2 \in DOMAIN s
      BY <2>2, <1>2, <1>8
    <3>2. z[k + 1] = s[2] /\ z[k] = g
      BY <3>1, <2>2, <1>2
    <3>3. Awaits(s[2], s[1])
      <4>1. 1 + 1 \in DOMAIN s => Awaits(s[1 + 1], s[1])
        BY <1>2, <1>5
      <4>2. 1 + 1 = 2
        OBVIOUS
      <4>3. QED
        BY <4>1, <4>2, <3>1
    <3>4. QED
      BY <3>2, <3>3, <1>4, RefitAwaited
  <2>3. CASE k # 1 /\ k # 2
    <3>1. k \in Nat /\ k - 1 \in DOMAIN s /\ k - 1 # 1 /\ z[k] = s[k - 1]
      BY <2>3, <1>6
    <3>2. k \in DOMAIN s /\ k = (k - 1) + 1
      BY SMTT(30), <3>1, <1>2, <1>3, <1>8, <2>3
    <3>3. z[k + 1] = s[k]
      BY <3>2, <2>3, <1>2
    <3>4. QED
      BY <3>1, <3>2, <3>3, <1>5
  <2>4. QED
    BY <2>1, <2>2, <2>3
<1>9. QED
  BY <1>2, <1>7, <1>8 DEF Stack, NestedIn, z

\* The stacks stay nested when the head returns.
LEMMA DropNested ==
  ASSUME NEW t \in Threads, Stack(t), NestedIn(t), Drop(t)
  PROVE  Stack(t)' /\ NestedIn(t)'
<1> DEFINE s == stack[t]  z == stack'[t]
<1>1. s \in Seq(Frames) /\ s # <<>> /\ z = Tail(s)
  BY DEF Stack, Drop
<1>2. /\ z \in Seq(Frames)
      /\ \A k : k \in DOMAIN z <=> (k \in Nat /\ k # 0 /\ k + 1 \in DOMAIN s)
      /\ \A k \in DOMAIN z : k + 1 \in DOMAIN s /\ z[k] = s[k + 1]
  BY <1>1, DropShape
<1>5. /\ \A k \in DOMAIN s : WellMade(s[k])
      /\ \A k \in DOMAIN s : k + 1 \in DOMAIN s => Awaits(s[k + 1], s[k])
  BY DEF NestedIn
<1> HIDE DEF s, z
<1>6. \A k \in DOMAIN z : WellMade(z[k])
  BY <1>2, <1>5
<1>7. ASSUME NEW k \in DOMAIN z, k + 1 \in DOMAIN z PROVE Awaits(z[k + 1], z[k])
  BY <1>2, <1>5, <1>7
<1>8. QED
  BY <1>2, <1>6, <1>7 DEF Stack, NestedIn, z

\* A new stack is nested.
LEMMA StartNested ==
  ASSUME NEW t \in Threads, NEW f, Start(t, f)
  PROVE  Stack(t)' /\ NestedIn(t)'
<1>1. /\ stack'[t] = <<f>> /\ f \in Frames /\ WellMade(f)
  BY DEF Start
<1>2. <<f>> \in Seq(Frames) /\ DOMAIN <<f>> = {1} /\ <<f>>[1] = f
  BY <1>1
<1>3. QED
  BY <1>1, <1>2 DEF Stack, NestedIn

-----------------------------------------------------------------------------
(* The calls at work after a step.                                         *)

\* When the head goes on, the others work as before.
LEMMA ReplaceWorks ==
  ASSUME NEW t \in Threads, Stack(t), NEW f, Replace(t, f), NEW c, NEW k
  PROVE  Works(t, k, c)' <=> IF k = 1 THEN f.klass = c /\ f.pc \in AtWork ELSE Works(t, k, c)
<1>1. stack[t] \in Seq(Frames) /\ stack[t] # <<>> /\ f \in Frames /\ stack'[t] = [stack[t] EXCEPT ![1] = f]
  BY DEF Stack, Replace, Refit
<1>2. /\ DOMAIN stack'[t] = DOMAIN stack[t]
      /\ 1 \in DOMAIN stack[t] /\ stack'[t][1] = f
      /\ \A j \in DOMAIN stack[t] : j # 1 => stack'[t][j] = stack[t][j]
  BY <1>1, ReplaceShape
<1>3. QED
  BY <1>2 DEF Works

\* When the head makes a call, the calls at work move down by one.
LEMMA PushWorks ==
  ASSUME NEW t \in Threads, Stack(t), NEW f, NEW g, Push(t, g, f),
         f.pc \notin AtWork, g.pc \in AtWork <=> stack[t][1].pc \in AtWork,
         NEW c, NEW k \in Nat
  PROVE  Works(t, k, c)' <=> Works(t, k - 1, c)
<1> DEFINE s == stack[t]  z == stack'[t]
<1>1. s \in Seq(Frames) /\ s # <<>> /\ f \in Frames /\ g \in Frames /\ z = <<f, g>> \o Tail(s)
  BY DEF Stack, Push, Refit
<1>2. /\ \A j : j \in DOMAIN z <=> (j = 1 \/ (j \in Nat /\ j - 1 \in DOMAIN s))
      /\ 1 \in DOMAIN s /\ z[1] = f /\ z[2] = g
      /\ \A j \in DOMAIN s : j # 1 => z[j + 1] = s[j]
  <2> HIDE DEF s, z
  <2> DEFINE w == <<f, g>> \o Tail(s)
  <2>1. /\ \A j : j \in DOMAIN w <=> (j = 1 \/ (j \in Nat /\ j - 1 \in DOMAIN s))
        /\ 1 \in DOMAIN s /\ w[1] = f /\ w[2] = g
        /\ \A j \in DOMAIN s : j # 1 => w[j + 1] = s[j]
    BY <1>1, PushShape
  <2> HIDE DEF w
  <2>2. z = w
    BY <1>1 DEF w
  <2>3. QED
    BY <2>1, <2>2
<1>3. DOMAIN s = 1 .. Len(s) /\ Len(s) \in Nat
  BY <1>1, LenProperties
<1>4. g.klass = s[1].klass
  BY DEF Push, Refit
<1>5. /\ Works(t, k, c)' <=> (k \in DOMAIN z /\ z[k].klass = c /\ z[k].pc \in AtWork)
      /\ Works(t, k - 1, c) <=> (k - 1 \in DOMAIN s /\ s[k - 1].klass = c /\ s[k - 1].pc \in AtWork)
  BY DEF Works
<1>6. g.pc \in AtWork <=> s[1].pc \in AtWork
  OBVIOUS
<1> HIDE DEF s, z
<1>7. CASE k = 1
  BY <1>7, <1>2, <1>3, <1>5
<1>8. CASE k = 2
  <2>1. k - 1 = 1
    BY <1>8
  <2>2. QED
    BY <2>1, <1>8, <1>2, <1>4, <1>5, <1>6
<1>9. CASE k # 1 /\ k # 2
  <2>1. k - 1 # 1 /\ (k - 1) + 1 = k
    BY <1>9
  <2>2. k - 1 \in DOMAIN s => z[k] = s[k - 1]
    BY <2>1, <1>2
  <2>3. QED
    BY <1>9, <2>2, <1>2, <1>5
<1>10. QED
  BY <1>7, <1>8, <1>9

\* When the head returns, the calls at work move up by one.
LEMMA DropWorks ==
  ASSUME NEW t \in Threads, Stack(t), Drop(t), NEW c, NEW k \in Nat \ {0}
  PROVE  Works(t, k, c)' <=> Works(t, k + 1, c)
<1>1. stack[t] \in Seq(Frames) /\ stack[t] # <<>> /\ stack'[t] = Tail(stack[t])
  BY DEF Stack, Drop
<1>2. /\ \A j : j \in DOMAIN stack'[t] <=> (j \in Nat /\ j # 0 /\ j + 1 \in DOMAIN stack[t])
      /\ \A j \in DOMAIN stack'[t] : j + 1 \in DOMAIN stack[t] /\ stack'[t][j] = stack[t][j + 1]
  BY <1>1, DropShape
<1>3. QED
  BY <1>2 DEF Works

\* A thread that is notified works on nothing at its head.
LEMMA NotifiedWorks ==
  ASSUME NEW u \in Threads, Stack(u), Notified(u), NEW c, NEW k
  PROVE  Works(u, k, c)' <=> Works(u, k, c)
<1>1. CASE Same(u)
  BY <1>1 DEF Same, Works
<1>2. CASE /\ stack[u] # <<>> /\ stack[u][1].pc = "wait"
           /\ Replace(u, Frame("notified", stack[u][1].klass, <<>>))
  <2>1. Frame("notified", stack[u][1].klass, <<>>).pc = "notified"
    BY DEF Frame
  <2>2. "notified" \notin AtWork /\ "wait" \notin AtWork
    BY DEF AtWork
  <2>3. Works(u, k, c)' <=> IF k = 1 THEN FALSE ELSE Works(u, k, c)
    BY <1>2, <2>1, <2>2, ReplaceWorks
  <2>4. Works(u, 1, c) => FALSE
    BY <1>2, <2>2 DEF Works
  <2>5. QED
    BY <2>3, <2>4
<1>3. QED
  BY <1>1, <1>2 DEF Notified

-----------------------------------------------------------------------------
(* The kinds of steps.                                                     *)

CalmIn(t) ==
  /\ stack[t] = <<>> => ~exception[t]
  /\ stack[t] # <<>> /\ stack[t][1].pc \in Quiet => ~exception[t]
  /\ /\ stack[t] # <<>> /\ ret[t]
     /\ stack[t][1].pc \in {"super_return", "interface_return", "superinterface_return"}
     => ~exception[t]

Untouched == UNCHANGED <<classVars, aborted>>
StillWorks(f, o) == f.pc \in AtWork <=> o.pc \in AtWork
Others(t) == \A u \in Threads \ {t} : Same(u)

Continue(t) ==
  \E f : /\ Replace(t, f) /\ StillWorks(f, stack[t][1]) /\ f.pc \notin Calling
         /\ Others(t) /\ Untouched
Calls(p, l) ==
  \/ p = "super" /\ l = "super_return"
  \/ p = "interfaces" /\ l = "interface_return"
  \/ p = "superinterfaces" /\ l = "superinterface_return"
  \/ p = "cctor" /\ l = "cctor_return"
Enter(t) ==
  \E f, g : /\ Push(t, g, f) /\ f.pc \in {"entry", "iface"} /\ StillWorks(g, stack[t][1])
            /\ g.rest = stack[t][1].rest /\ Calls(stack[t][1].pc, g.pc)
            /\ Others(t) /\ Untouched
Leave(t) ==
  /\ Drop(t) /\ Others(t) /\ Untouched
  /\ stack[t][1].pc \notin AtWork \/ BadBase(stack[t][1].klass)
Claim(t) ==
  /\ \E f : Replace(t, f) /\ f.pc = "super"
  /\ stack[t][1].pc = "lock" /\ Others(t)
  /\ state_[stack[t][1].klass] < INITIALIZING /\ aborted' = FALSE
  /\ state_' = [state_ EXCEPT ![stack[t][1].klass] = INITIALIZING]
  /\ initTid_' = [initTid_ EXCEPT ![stack[t][1].klass] = t]
Verify(t) ==
  /\ Drop(t) /\ Others(t) /\ stack[t][1].pc = "lock" /\ state_[stack[t][1].klass] < INITIALIZING
  /\ state_' = [state_ EXCEPT ![stack[t][1].klass] = ERRONEOUS]
  /\ aborted' = FALSE /\ UNCHANGED initTid_
Kill(t) ==
  /\ Drop(t) /\ Others(t) /\ stack[t][1].pc = "woken" /\ t \in termination
  /\ SetState(stack[t][1].klass, ERRONEOUS) /\ UNCHANGED initTid_
Settle(t) ==
  /\ Drop(t) /\ \A u \in Threads \ {t} : Notified(u)
  /\ stack[t][1].pc \in AtWork
  /\ \E s \in {ERRONEOUS, INITIALIZED} :
       SetState(stack[t][1].klass, s) /\ (s = INITIALIZED => stack[t][1].pc = "finish")
  /\ UNCHANGED initTid_
Die(t) ==
  /\ \E f : Replace(t, f) /\ f.pc = "dead"
  /\ t \in termination /\ Others(t) /\ Untouched

\* What all of them have in common.
Values(t) ==
  /\ ret' \in [Threads -> BOOLEAN] /\ exception' \in [Threads -> BOOLEAN]
  /\ \A u \in Threads \ {t} : ret'[u] = ret[u] /\ exception'[u] = exception[u]
Whole == stack = [u \in Threads |-> stack[u]]
Ready(t) == ~aborted /\ stack[t] # <<>> /\ stack[t][1].pc # "dead"
Kind(t) ==
  \/ Continue(t) \/ Enter(t) \/ Leave(t) \/ Claim(t)
  \/ Verify(t) \/ Kill(t) \/ Settle(t) \/ Die(t)
Move(t) == Ready(t) /\ Whole' /\ Values(t) /\ CalmIn(t)' /\ UNCHANGED requestVars /\ Kind(t)

\* The states of a class that threads see.
LEMMA StateValues ==
  ASSUME Types, NEW c \in Classes
  PROVE  state_[c] \in {LOADED, VERIFIED, INITIALIZING, ERRONEOUS, INITIALIZED}
<1>1. state_[c] \in LOADED .. INITIALIZED
  BY DEF Types
<1>2. QED
  BY <1>1 DEF LOADED, VERIFIED, INITIALIZING, ERRONEOUS, INITIALIZED

\* The head of a stack.
LEMMA HeadFacts ==
  ASSUME Types, NEW t \in Threads, stack[t] # <<>>
  PROVE  /\ Stack(t) /\ 1 \in DOMAIN stack[t] /\ Head(stack[t]) = stack[t][1]
         /\ stack[t][1] \in Frames /\ stack[t][1].pc \in Labels
         /\ stack[t][1].klass \in Classes /\ stack[t][1].rest \in Seq(Classes)
         /\ Klass(t) = stack[t][1].klass /\ Rest(t) = stack[t][1].rest
<1>1. stack[t] \in Seq(Frames)
  BY DEF Types
<1>2. 1 \in DOMAIN stack[t] /\ Head(stack[t]) = stack[t][1]
  BY <1>1, DropShape
<1>3. stack[t][1] \in Frames
  BY <1>1, <1>2, ElementOfSeq, LenProperties
<1>4. QED
  BY <1>1, <1>2, <1>3, FrameFields DEF Stack, Klass, Rest

\* At names the label of the head.
LEMMA AtFacts ==
  ASSUME Types, NEW t \in Threads, NEW l, At(t, l)
  PROVE  ~aborted /\ stack[t] # <<>> /\ stack[t][1].pc = l
<1>1. ~aborted /\ stack[t] # <<>> /\ Head(stack[t]).pc = l
  BY DEF At
<1>2. QED
  BY <1>1, HeadFacts

\* Goto replaces the head.
LEMMA GotoStep ==
  ASSUME Types, NEW t \in Threads, stack[t] # <<>>,
         NEW l \in Labels, NEW r \in Seq(Classes), Goto(t, l, r)
  PROVE  /\ Others(t) /\ Whole'
         /\ \E f \in Frames : /\ f.pc = l /\ f.klass = stack[t][1].klass /\ f.rest = r
                              /\ stack'[t] = [stack[t] EXCEPT ![1] = f]
                              /\ stack'[t] # <<>> /\ stack'[t][1] = f
<1> DEFINE f == Frame(l, stack[t][1].klass, r)
<1>1. f \in Frames /\ f.pc = l /\ f.klass = stack[t][1].klass /\ f.rest = r
  BY HeadFacts, FrameType
<1> HIDE DEF f
<1>2. stack \in [Threads -> Seq(Frames)] /\ stack[t] \in Seq(Frames)
  BY DEF Types
<1>3. stack' = [stack EXCEPT ![t] = [stack[t] EXCEPT ![1] = f]]
  BY DEF Goto, f
<1>4. stack'[t] = [stack[t] EXCEPT ![1] = f] /\ Others(t) /\ Whole'
  BY <1>2, <1>3 DEF Others, Same, Whole
<1>5. stack'[t] # <<>> /\ stack'[t][1] = f
  BY <1>1, <1>2, <1>4, ReplaceShape
<1>6. QED
  BY <1>1, <1>4, <1>5

\* Call puts a frame above the head.
Called(t, l, f, g) ==
  /\ g.pc = l /\ g.klass = stack[t][1].klass /\ g.rest = stack[t][1].rest
  /\ stack'[t] = <<f, g>> \o Tail(stack[t])
  /\ stack'[t] # <<>> /\ stack'[t][1] = f
LEMMA CallStep ==
  ASSUME Types, NEW t \in Threads, stack[t] # <<>>,
         NEW l \in Labels, NEW f \in Frames, Call(t, l, f)
  PROVE  Others(t) /\ Whole' /\ \E g \in Frames : Called(t, l, f, g)
<1> DEFINE g == [stack[t][1] EXCEPT !.pc = l]
<1>0. Head(stack[t]) = stack[t][1] /\ stack[t][1] \in Frames
  BY HeadFacts
<1>1. g \in Frames /\ g.pc = l /\ g.klass = stack[t][1].klass /\ g.rest = stack[t][1].rest
  BY <1>0, Relabel
<1>2. stack \in [Threads -> Seq(Frames)] /\ stack[t] \in Seq(Frames)
  BY DEF Types
<1>3. stack' = [stack EXCEPT ![t] = <<f, g>> \o Tail(stack[t])]
  BY <1>0 DEF Call
<1> HIDE DEF g
<1>4. stack'[t] = <<f, g>> \o Tail(stack[t]) /\ Others(t) /\ Whole'
  BY <1>2, <1>3 DEF Others, Same, Whole
<1>5. stack'[t] # <<>> /\ stack'[t][1] = f
  <2> DEFINE w == <<f, g>> \o Tail(stack[t])
  <2>1. w \in Seq(Frames) /\ Len(w) = Len(stack[t]) + 1 /\ w[1] = f
    BY <1>1, <1>2, PushShape
  <2>2. Len(stack[t]) \in Nat
    BY <1>2, LenProperties
  <2> HIDE DEF w
  <2>3. w # <<>>
    BY <2>1, <2>2, EmptySeq
  <2>4. QED
    BY <1>4, <2>1, <2>3 DEF w
<1>6. QED
  BY <1>1, <1>4, <1>5 DEF Called

\* Pop takes the head away.
LEMMA PopStep ==
  ASSUME Types, NEW t \in Threads, stack[t] # <<>>, Pop(t)
  PROVE  Drop(t) /\ Others(t) /\ Whole'
<1>1. stack \in [Threads -> Seq(Frames)]
  BY DEF Types
<1>2. QED
  BY <1>1 DEF Pop, Drop, Others, Same, Whole

\* NotifyAll takes the head away and wakes the threads that wait.
LEMMA NotifyStep ==
  ASSUME Types, NEW t \in Threads, stack[t] # <<>>, NEW c \in Classes, NotifyAll(t, c)
  PROVE  Drop(t) /\ Whole' /\ \A u \in Threads \ {t} : Notified(u)
<1>1. stack \in [Threads -> Seq(Frames)]
  BY DEF Types
<1>2. Drop(t) /\ Whole'
  BY <1>1 DEF NotifyAll, Drop, Whole
<1>3. ASSUME NEW u \in Threads \ {t} PROVE Notified(u)
  <2>1. CASE At(u, "wait") /\ Klass(u) = c
    <3> DEFINE f == Frame("notified", c, <<>>)
    <3>1. stack[u] # <<>> /\ stack[u][1].pc = "wait" /\ stack[u][1].klass = c
      BY <2>1, AtFacts, HeadFacts
    <3>2. "notified" \in Labels /\ <<>> \in Seq(Classes)
      BY DEF Labels
    <3>3. f \in Frames /\ f.pc = "notified" /\ f.klass = c
      BY <3>2 DEF Frame, Frames
    <3>4. stack'[u] = <<f>> \o Tail(stack[u])
      BY <2>1, <1>3 DEF NotifyAll
    <3> HIDE DEF f
    <3>5. <<f>> \o Tail(stack[u]) = [stack[u] EXCEPT ![1] = f]
      <4> DEFINE s == stack[u]  w == <<f>> \o Tail(stack[u])
      <4>1. s \in Seq(Frames) /\ s # <<>> /\ DOMAIN s = 1 .. Len(s) /\ Len(s) \in Nat
        BY <1>1, <3>1, LenProperties
      <4>2. /\ Tail(s) \in Seq(Frames) /\ Len(Tail(s)) = Len(s) - 1
            /\ \A k \in 1 .. Len(Tail(s)) : Tail(s)[k] = s[k + 1]
        BY <4>1, HeadTailProperties
      <4>3. <<f>> \in Seq(Frames) /\ Len(<<f>>) = 1 /\ <<f>>[1] = f
        BY <3>3
      <4>4. /\ w \in Seq(Frames) /\ Len(w) = 1 + Len(Tail(s))
            /\ \A k \in 1 .. 1 + Len(Tail(s)) : w[k] = IF k <= 1 THEN <<f>>[k] ELSE Tail(s)[k - 1]
        BY <4>2, <4>3, ConcatProperties
      <4>5. /\ [s EXCEPT ![1] = f] \in Seq(Frames)
            /\ DOMAIN [s EXCEPT ![1] = f] = DOMAIN s
            /\ 1 \in DOMAIN s /\ [s EXCEPT ![1] = f][1] = f
            /\ \A k \in DOMAIN s : k # 1 => [s EXCEPT ![1] = f][k] = s[k]
        BY <4>1, <3>3, ReplaceShape
      <4> HIDE DEF s, w
      <4> DEFINE z == [s EXCEPT ![1] = f]
      <4>6. Len(w) = Len(s) /\ Len(z) = Len(s)
        BY <4>1, <4>2, <4>4, <4>5, LenProperties
      <4>7. ASSUME NEW k \in 1 .. Len(s) PROVE w[k] = z[k]
        <5>1. CASE k = 1
          BY <5>1, <4>2, <4>3, <4>4, <4>5, <4>6
        <5>2. CASE k # 1
          <6>1. k \in 1 .. 1 + Len(Tail(s)) /\ ~(k <= 1) /\ k - 1 \in 1 .. Len(Tail(s)) /\ (k - 1) + 1 = k
            BY <5>2, <4>1, <4>2
          <6>2. w[k] = Tail(s)[k - 1] /\ Tail(s)[k - 1] = s[k]
            BY <6>1, <4>2, <4>4
          <6>3. z[k] = s[k]
            BY <5>2, <4>1, <4>5
          <6>4. QED
            BY <6>2, <6>3
        <5>3. QED
          BY <5>1, <5>2
      <4>8. w = z
        <5> HIDE DEF z
        <5>1. z \in Seq(Frames)
          BY <4>5 DEF z
        <5>2. QED
          BY <5>1, <4>4, <4>6, <4>7, SeqEqual
      <4>9. QED
        BY <4>8 DEF s, w
    <3>6. WellMade(f) /\ Refit(stack[u][1], f)
      BY <3>1, <3>3 DEF WellMade, Refit, Calling, InIface
    <3>7. QED
      BY <3>1, <3>4, <3>5, <3>6 DEF Notified, Replace, f
  <2>2. CASE ~ (At(u, "wait") /\ Klass(u) = c)
    BY <2>2, <1>3 DEF NotifyAll, Notified, Same
  <2>3. QED
    BY <2>1, <2>2
<1>4. QED
  BY <1>2, <1>3

\* The frame below the head waits for it and is the next head.
LEMMA DropHead ==
  ASSUME NEW t \in Threads, Stack(t), NestedIn(t), Drop(t)
  PROVE  \/ stack'[t] = <<>> /\ ~(Len(stack[t]) > 1)
         \/ /\ stack'[t] # <<>> /\ Len(stack[t]) > 1 /\ 2 \in DOMAIN stack[t]
            /\ stack'[t][1] = stack[t][2] /\ Awaits(stack[t][2], stack[t][1])
            /\ stack'[t][1].pc \in Calling
<1> DEFINE s == stack[t]  z == stack'[t]
<1>1. s \in Seq(Frames) /\ s # <<>> /\ z = Tail(s)
  BY DEF Stack, Drop
<1>2. /\ z \in Seq(Frames) /\ Len(z) = Len(s) - 1 /\ 1 \in DOMAIN s
      /\ \A k : k \in DOMAIN z <=> (k \in Nat /\ k # 0 /\ k + 1 \in DOMAIN s)
      /\ \A k \in DOMAIN z : k + 1 \in DOMAIN s /\ z[k] = s[k + 1]
  BY <1>1, DropShape
<1>3. \A k \in DOMAIN s : k + 1 \in DOMAIN s => Awaits(s[k + 1], s[k])
  BY DEF NestedIn
<1>4. DOMAIN s = 1 .. Len(s) /\ Len(s) \in Nat /\ DOMAIN z = 1 .. Len(z) /\ Len(z) \in Nat
  BY <1>1, <1>2, LenProperties
<1> HIDE DEF s, z
<1>5. CASE z = <<>>
  <2>1. Len(z) = 0
    BY <1>5
  <2>2. ~(Len(s) > 1)
    BY <2>1, <1>2, <1>4
  <2>3. QED
    BY <1>5, <2>2 DEF s, z
<1>6. CASE z # <<>>
  <2>1. Len(z) # 0
    BY <1>6, <1>2, EmptySeq
  <2>2. Len(s) > 1 /\ 1 \in DOMAIN z /\ 1 + 1 \in DOMAIN s /\ 1 + 1 = 2
    BY <2>1, <1>2, <1>4
  <2>3. z[1] = s[2] /\ Awaits(s[2], s[1])
    BY <2>2, <1>2, <1>3
  <2>4. s[2].pc \in Calling
    BY <2>3 DEF Awaits
  <2>5. QED
    BY <1>6, <2>2, <2>3, <2>4 DEF s, z
<1>7. QED
  BY <1>5, <1>6

\* A call that returns TRUE returns without an exception.
LEMMA ReturnCalm ==
  ASSUME Types, NEW t \in Threads, NestedIn(t), Drop(t),
         NEW r \in BOOLEAN, NEW e \in BOOLEAN, Result(t, r, e), r => ~e
  PROVE  Values(t) /\ CalmIn(t)'
<1>1. /\ ret \in [Threads -> BOOLEAN] /\ exception \in [Threads -> BOOLEAN]
      /\ stack[t] \in Seq(Frames)
  BY DEF Types
<1>2. Len(stack[t]) \in Nat
  BY <1>1, LenProperties
<1>3. ret'[t] = r /\ exception'[t] = (e /\ Len(stack[t]) > 1)
  BY <1>1 DEF Result
<1>4. Values(t)
  BY <1>1 DEF Values, Result
<1>5. \/ stack'[t] = <<>> /\ ~(Len(stack[t]) > 1)
      \/ stack'[t] # <<>> /\ stack'[t][1].pc \in Calling
  BY <1>1, DropHead DEF Stack
<1>6. CalmIn(t)'
  BY <1>3, <1>5 DEF CalmIn, Calling, Quiet
<1>7. QED
  BY <1>4, <1>6

\* Return(t, r, e).
LEMMA ReturnStep ==
  ASSUME Types, NEW t \in Threads, NestedIn(t), stack[t] # <<>>,
         NEW r \in BOOLEAN, NEW e \in BOOLEAN, Return(t, r, e), r => ~e
  PROVE  Drop(t) /\ Others(t) /\ Whole' /\ Values(t) /\ CalmIn(t)'
<1>1. Pop(t) /\ Result(t, r, e)
  BY DEF Return
<1>2. Drop(t) /\ Others(t) /\ Whole'
  BY <1>1, PopStep
<1>3. QED
  BY <1>1, <1>2, ReturnCalm

\* Where the head is quiet no exception is pending.
LEMMA QuietHead ==
  ASSUME Types, Calm, NEW t \in Threads, stack[t] # <<>>, stack[t][1].pc \in Quiet
  PROVE  exception[t] = FALSE
<1>1. exception[t] \in BOOLEAN
  BY DEF Types
<1>2. QED
  BY <1>1 DEF Calm

\* Values that stay.
LEMMA KeepValues ==
  ASSUME Types, NEW t \in Threads, UNCHANGED <<ret, exception>>
  PROVE  Values(t)
BY DEF Types, Values

\* The head may go on as the label l.
Fits(o, l) ==
  /\ l \in Labels \ Calling
  /\ l = "interfaces" => o.klass \notin InterfaceClasses
  /\ l \in InIface => o.pc \in InIface
  /\ o.pc = "iface" /\ l # "iface" => o.klass \in InterfaceClasses
Becomes(t, l) ==
  /\ \E f : Replace(t, f) /\ f.pc = l
  /\ Others(t) /\ Whole' /\ stack'[t] # <<>> /\ stack'[t][1].pc = l

LEMMA GotoReplaces ==
  ASSUME Types, NEW t \in Threads, stack[t] # <<>>,
         NEW l, Fits(stack[t][1], l), NEW r \in Seq(Classes), Goto(t, l, r)
  PROVE  Becomes(t, l)
<1>0. l \in Labels
  BY DEF Fits
<1>1. /\ Others(t) /\ Whole'
      /\ \E f \in Frames : /\ f.pc = l /\ f.klass = stack[t][1].klass /\ f.rest = r
                           /\ stack'[t] = [stack[t] EXCEPT ![1] = f]
                           /\ stack'[t] # <<>> /\ stack'[t][1] = f
  BY <1>0, GotoStep
<1>2. PICK f \in Frames : /\ f.pc = l /\ f.klass = stack[t][1].klass /\ f.rest = r
                          /\ stack'[t] = [stack[t] EXCEPT ![1] = f]
                          /\ stack'[t] # <<>> /\ stack'[t][1] = f
  BY <1>1
<1>3. Refit(stack[t][1], f)
  BY <1>2 DEF Fits, Refit, WellMade, Calling
<1>4. QED
  BY <1>1, <1>2, <1>3 DEF Replace, Becomes

LEMMA GotoEmpty ==
  ASSUME Types, NEW t \in Threads, stack[t] # <<>>,
         NEW l, Fits(stack[t][1], l), Goto(t, l, <<>>)
  PROVE  Becomes(t, l)
<1> DEFINE r == <<>>
<1>1. r \in Seq(Classes) /\ Goto(t, l, r)
  OBVIOUS
<1> HIDE DEF r
<1>2. QED
  BY <1>1, GotoReplaces

USE ClassesAssumption

\* A call returns and its class stays as it is.
LEMMA LeaveMove ==
  ASSUME Types, Nested, NEW t \in Threads, Ready(t),
         stack[t][1].pc \notin AtWork \/ BadBase(stack[t][1].klass),
         NEW r \in BOOLEAN, NEW e \in BOOLEAN, Return(t, r, e), r => ~e,
         UNCHANGED <<classVars, requestVars, aborted>>
  PROVE  Move(t)
<1>1. NestedIn(t) /\ stack[t] # <<>>
  BY DEF Nested, NestedIn, Ready
<1>2. Drop(t) /\ Others(t) /\ Whole' /\ Values(t) /\ CalmIn(t)'
  BY <1>1, ReturnStep
<1>3. Leave(t)
  BY <1>2 DEF Leave, Untouched
<1>4. QED
  BY <1>2, <1>3 DEF Move, Kind

\* A call goes on and its class stays as it is.
LEMMA ContinueMove ==
  ASSUME NEW t \in Threads, Ready(t), NEW l, Becomes(t, l), l \notin Calling,
         l \in AtWork <=> stack[t][1].pc \in AtWork,
         Values(t), l \in Quiet => ~exception'[t],
         UNCHANGED <<classVars, requestVars, aborted>>
  PROVE  Move(t)
<1>1. Continue(t)
  BY DEF Continue, Becomes, StillWorks, Untouched
<1>2. CalmIn(t)'
  BY DEF CalmIn, Becomes, Calling
<1>3. QED
  BY <1>1, <1>2 DEF Move, Kind, Becomes

\* A call makes another one.
LEMMA EnterMove ==
  ASSUME Types, NEW t \in Threads, Ready(t), exception[t] = FALSE,
         NEW l \in Calling, NEW f \in Frames, Call(t, l, f),
         f.pc = IF l \in IfaceCalls THEN "iface" ELSE "entry",
         f.klass = IF l = "super_return" THEN Base[stack[t][1].klass] ELSE Head(stack[t][1].rest),
         l = "super_return" => stack[t][1].klass \notin InterfaceClasses /\ Base[stack[t][1].klass] # None,
         l # "super_return" => stack[t][1].rest # <<>>,
         l = "interface_return" => stack[t][1].klass \notin InterfaceClasses,
         l = "superinterface_return" => stack[t][1].pc \in InIface,
         l \in AtWork <=> stack[t][1].pc \in AtWork, stack[t][1].pc # "iface",
         Calls(stack[t][1].pc, l),
         UNCHANGED <<ret, exception>>, UNCHANGED <<classVars, requestVars, aborted>>
  PROVE  Move(t)
<1>0. stack[t] # <<>> /\ l \in Labels
  BY DEF Ready, Calling, Labels
<1>1. Others(t) /\ Whole' /\ \E g \in Frames : Called(t, l, f, g)
  BY <1>0, CallStep
<1>a. PICK g \in Frames : Called(t, l, f, g)
  BY <1>1
<1>2. /\ g.pc = l /\ g.klass = stack[t][1].klass /\ g.rest = stack[t][1].rest
      /\ stack'[t] = <<f, g>> \o Tail(stack[t])
      /\ stack'[t] # <<>> /\ stack'[t][1] = f
  BY <1>a DEF Called
<1>3. WellMade(g)
  BY <1>2 DEF WellMade, Calling
<1>4. Refit(stack[t][1], g)
  BY <1>2, <1>3 DEF Refit, InIface, Calling
<1>5. WellMade(f) /\ Awaits(g, f)
  BY <1>2 DEF WellMade, Awaits, Calling, IfaceCalls
<1>6. Push(t, g, f)
  BY <1>0, <1>2, <1>4, <1>5 DEF Push
<1>7. f.pc \notin AtWork /\ f.pc \in {"entry", "iface"}
  BY DEF AtWork
<1>8. Enter(t)
  BY <1>1, <1>2, <1>6, <1>7 DEF Enter, StillWorks, Untouched
<1>9. CalmIn(t)'
  BY <1>2, <1>7 DEF CalmIn
<1>10. QED
  BY <1>1, <1>8, <1>9, KeepValues DEF Move, Kind

\* The head of a thread that takes a step.
LEMMA Heads ==
  ASSUME Types, Nested, Calm, NEW t \in Threads, NEW l \in Labels \ {"dead"}, At(t, l)
  PROVE  /\ Ready(t) /\ stack[t] # <<>> /\ stack[t][1].pc = l
         /\ Klass(t) = stack[t][1].klass /\ Rest(t) = stack[t][1].rest
         /\ stack[t][1].klass \in Classes /\ stack[t][1].rest \in Seq(Classes)
         /\ stack[t][1] \in Frames /\ WellMade(stack[t][1]) /\ NestedIn(t) /\ Stack(t)
         /\ l \in Quiet => exception[t] = FALSE
<1>1. ~aborted /\ stack[t] # <<>> /\ stack[t][1].pc = l
  BY AtFacts
<1>2. Ready(t)
  BY <1>1 DEF Ready
<1>3. NestedIn(t)
  BY DEF Nested, NestedIn
<1>4. l \in Quiet => exception[t] = FALSE
  BY <1>1, QuietHead
<1>5. WellMade(stack[t][1])
  BY <1>1, <1>3, HeadFacts DEF NestedIn
<1>6. QED
  BY <1>1, <1>2, <1>3, <1>4, <1>5, HeadFacts

LEMMA EntryMove ==
  ASSUME Types, Nested, Calm, NEW t \in Threads, Entry(t)
  PROVE  Move(t)
<1>1. /\ Ready(t) /\ stack[t] # <<>> /\ stack[t][1].pc = "entry" /\ exception[t] = FALSE
  BY Heads DEF Entry, Labels, Quiet
<1>2. UNCHANGED <<classVars, requestVars, aborted>>
  BY DEF Entry
<1>3. CASE Return(t, TRUE, exception[t])
  <2>1. Return(t, TRUE, FALSE)
    BY <1>1, <1>3
  <2>2. QED
    BY <1>1, <1>2, <2>1, LeaveMove DEF AtWork
<1>4. CASE Goto(t, "lock", <<>>) /\ UNCHANGED <<ret, exception>>
  <2>1. Fits(stack[t][1], "lock")
    BY <1>1 DEF Fits, InIface, Calling, Labels
  <2>2. Becomes(t, "lock")
    BY <1>1, <1>4, <2>1, GotoEmpty
  <2>3. QED
    BY <1>1, <1>2, <1>4, <2>2, KeepValues, ContinueMove DEF AtWork, Calling
<1>5. QED
  BY <1>3, <1>4 DEF Entry

LEMMA AlreadyMove ==
  ASSUME Types, Nested, Calm, NEW t \in Threads, Already(t)
  PROVE  Move(t)
<1>1. /\ Ready(t) /\ stack[t] # <<>> /\ stack[t][1].pc = "lock" /\ exception[t] = FALSE
  BY Heads DEF Already, Labels, Quiet
<1>2. UNCHANGED <<classVars, requestVars, aborted>>
  BY DEF Already
<1>3. CASE Return(t, TRUE, exception[t])
  <2>1. Return(t, TRUE, FALSE)
    BY <1>1, <1>3
  <2>2. QED
    BY <1>1, <1>2, <2>1, LeaveMove DEF AtWork
<1>4. CASE Return(t, FALSE, TRUE)
  BY <1>1, <1>2, <1>4, LeaveMove DEF AtWork
<1>5. CASE Goto(t, "wait", <<>>) /\ UNCHANGED <<ret, exception>>
  <2>1. Fits(stack[t][1], "wait")
    BY <1>1 DEF Fits, InIface, Calling, Labels
  <2>2. Becomes(t, "wait")
    BY <1>1, <1>5, <2>1, GotoEmpty
  <2>3. QED
    BY <1>1, <1>2, <1>5, <2>2, KeepValues, ContinueMove DEF AtWork, Calling
<1>6. QED
  BY <1>3, <1>4, <1>5 DEF Already

LEMMA VerifyFailsMove ==
  ASSUME Types, Nested, Calm, NEW t \in Threads, VerifyFails(t)
  PROVE  Move(t)
<1>1. /\ Ready(t) /\ stack[t] # <<>> /\ stack[t][1].pc = "lock" /\ exception[t] = FALSE
      /\ NestedIn(t) /\ Klass(t) = stack[t][1].klass /\ stack[t][1].klass \in Classes
  BY Heads DEF VerifyFails, Labels, Quiet
<1>2. Drop(t) /\ Others(t) /\ Whole' /\ Values(t) /\ CalmIn(t)'
  BY <1>1, ReturnStep DEF VerifyFails
<1>3. state_[stack[t][1].klass] = LOADED
  <2>1. state_[stack[t][1].klass] < VERIFIED
    BY <1>1 DEF VerifyFails
  <2>2. state_[stack[t][1].klass] \in {LOADED, VERIFIED, INITIALIZING, ERRONEOUS, INITIALIZED}
    BY <1>1, StateValues
  <2>3. QED
    BY <2>1, <2>2 DEF LOADED, VERIFIED, INITIALIZING, ERRONEOUS, INITIALIZED
<1>4. /\ aborted' = FALSE
      /\ state_' = [state_ EXCEPT ![stack[t][1].klass] = ERRONEOUS]
  BY <1>1, <1>3 DEF VerifyFails, SetState, LOADED, ERRONEOUS, INITIALIZED
<1>5. Verify(t)
  BY <1>1, <1>2, <1>3, <1>4 DEF Verify, VerifyFails, LOADED, INITIALIZING
<1>6. QED
  BY <1>1, <1>2, <1>5 DEF Move, Kind, VerifyFails

LEMMA BeginMove ==
  ASSUME Types, Nested, Calm, NEW t \in Threads, Begin(t)
  PROVE  Move(t)
<1>1. /\ Ready(t) /\ stack[t] # <<>> /\ stack[t][1].pc = "lock" /\ exception[t] = FALSE
      /\ NestedIn(t) /\ Klass(t) = stack[t][1].klass /\ stack[t][1].klass \in Classes
  BY Heads DEF Begin, Labels, Quiet
<1>2. Fits(stack[t][1], "super")
  BY <1>1 DEF Fits, InIface, Calling, Labels
<1>3. Becomes(t, "super")
  BY <1>1, <1>2, GotoEmpty DEF Begin
<1>4. state_[stack[t][1].klass] \in {LOADED, VERIFIED}
  <2>1. state_[stack[t][1].klass] < INITIALIZING
    BY <1>1 DEF Begin
  <2>2. state_[stack[t][1].klass] \in {LOADED, VERIFIED, INITIALIZING, ERRONEOUS, INITIALIZED}
    BY <1>1, StateValues
  <2>3. QED
    BY <2>1, <2>2 DEF LOADED, VERIFIED, INITIALIZING, ERRONEOUS, INITIALIZED
<1>5. /\ aborted' = FALSE
      /\ state_' = [state_ EXCEPT ![stack[t][1].klass] = INITIALIZING]
  BY <1>1, <1>4 DEF Begin, SetState, LOADED, VERIFIED, ERRONEOUS, INITIALIZING, INITIALIZED
<1>6. Claim(t)
  BY <1>1, <1>3, <1>4, <1>5 DEF Claim, Begin, Becomes, LOADED, VERIFIED, INITIALIZING
<1>7. CalmIn(t)'
  BY <1>1, <1>3 DEF Begin, CalmIn, Becomes
<1>8. QED
  BY <1>1, <1>3, <1>6, <1>7, KeepValues DEF Move, Kind, Begin, Becomes

LEMMA WakeupMove ==
  ASSUME Types, Nested, Calm, NEW t \in Threads, Wakeup(t)
  PROVE  Move(t)
<1>1. /\ Ready(t) /\ stack[t] # <<>> /\ stack[t][1].pc \in {"wait", "notified"} /\ exception[t] = FALSE
  BY Heads DEF Wakeup, Labels, Quiet
<1>2. UNCHANGED <<classVars, requestVars, aborted>> /\ UNCHANGED <<ret, exception>>
  BY DEF Wakeup
<1>3. CASE t \in termination
  <2>1. Fits(stack[t][1], "dead")
    BY <1>1 DEF Fits, InIface, Calling, Labels
  <2>2. Becomes(t, "dead")
    BY <1>1, <1>3, <2>1, GotoEmpty DEF Wakeup
  <2>3. Die(t)
    BY <1>2, <1>3, <2>2 DEF Die, Becomes, Untouched
  <2>4. CalmIn(t)'
    BY <2>2 DEF CalmIn, Becomes, Quiet
  <2>5. QED
    BY <1>1, <1>2, <2>2, <2>3, <2>4, KeepValues DEF Move, Kind, Becomes
<1>4. CASE t \notin termination
  <2>1. Fits(stack[t][1], "woken")
    BY <1>1 DEF Fits, InIface, Calling, Labels
  <2>2. Becomes(t, "woken")
    BY <1>1, <1>4, <2>1, GotoEmpty DEF Wakeup
  <2>3. QED
    BY <1>1, <1>2, <2>2, KeepValues, ContinueMove DEF AtWork, Calling
<1>5. QED
  BY <1>3, <1>4

LEMMA SafepointMove ==
  ASSUME Types, Nested, Calm, NEW t \in Threads, Safepoint(t)
  PROVE  Move(t)
<1>1. /\ Ready(t) /\ stack[t] # <<>> /\ stack[t][1].pc = "cctor"
  BY Heads DEF Safepoint, Labels, Quiet
<1>2. UNCHANGED <<classVars, requestVars, aborted>> /\ UNCHANGED <<ret, exception>>
  BY DEF Safepoint
<1>3. Fits(stack[t][1], "dead")
  BY <1>1 DEF Fits, InIface, Calling, Labels
<1>4. Becomes(t, "dead")
  BY <1>1, <1>3, GotoEmpty DEF Safepoint
<1>5. Die(t)
  BY <1>2, <1>4 DEF Die, Becomes, Untouched, Safepoint
<1>6. CalmIn(t)'
  BY <1>4 DEF CalmIn, Becomes, Quiet
<1>7. QED
  BY <1>1, <1>2, <1>4, <1>5, <1>6, KeepValues DEF Move, Kind, Becomes

LEMMA WaitTerminatedMove ==
  ASSUME Types, Nested, Calm, NEW t \in Threads, WaitTerminated(t)
  PROVE  Move(t)
<1>1. /\ Ready(t) /\ stack[t] # <<>> /\ stack[t][1].pc = "woken" /\ exception[t] = FALSE
      /\ NestedIn(t) /\ Klass(t) = stack[t][1].klass /\ stack[t][1].klass \in Classes
  BY Heads DEF WaitTerminated, Labels, Quiet
<1>2. Drop(t) /\ Others(t) /\ Whole' /\ Values(t) /\ CalmIn(t)'
  BY <1>1, ReturnStep DEF WaitTerminated
<1>3. Kill(t)
  BY <1>1, <1>2 DEF Kill, WaitTerminated
<1>4. QED
  BY <1>1, <1>2, <1>3 DEF Move, Kind, WaitTerminated

LEMMA WaitInitializationMove ==
  ASSUME Types, Nested, Calm, NEW t \in Threads, WaitInitialization(t)
  PROVE  Move(t)
<1>1. /\ Ready(t) /\ stack[t] # <<>> /\ stack[t][1].pc = "woken" /\ exception[t] = FALSE
  BY Heads DEF WaitInitialization, Labels, Quiet
<1>2. UNCHANGED <<classVars, requestVars, aborted>>
  BY <1>1 DEF WaitInitialization, classVars
<1>3. CASE Goto(t, "wait", <<>>) /\ UNCHANGED <<ret, exception>>
  <2>1. Fits(stack[t][1], "wait")
    BY <1>1 DEF Fits, InIface, Calling, Labels
  <2>2. Becomes(t, "wait")
    BY <1>1, <1>3, <2>1, GotoEmpty
  <2>3. QED
    BY <1>1, <1>2, <1>3, <2>2, KeepValues, ContinueMove DEF AtWork, Calling
<1>4. CASE Return(t, FALSE, TRUE)
  BY <1>1, <1>2, <1>4, LeaveMove DEF AtWork
<1>5. CASE Return(t, TRUE, FALSE)
  BY <1>1, <1>2, <1>5, LeaveMove DEF AtWork
<1>6. QED
  BY <1>1, <1>3, <1>4, <1>5 DEF WaitInitialization

\* The lists of classes that frames work through.
LEMMA Lists ==
  ASSUME NEW c \in Classes
  PROVE  /\ Interfaces[c] \in Seq(Classes) /\ Uses[c] \in Seq(Classes)
         /\ Base[c] # None => Base[c] \in Classes
OBVIOUS

LEMMA Rests ==
  ASSUME NEW r \in Seq(Classes), r # <<>>
  PROVE  Head(r) \in Classes /\ Tail(r) \in Seq(Classes)
BY HeadTailProperties

LEMMA NewFrame ==
  ASSUME NEW l \in Labels, NEW c \in Classes
  PROVE  /\ Frame(l, c, <<>>) \in Frames
         /\ Frame(l, c, <<>>).pc = l
         /\ Frame(l, c, <<>>).klass = c
BY DEF Frame, Frames

LEMMA InitializeClassMove ==
  ASSUME Types, Nested, Calm, NEW t \in Threads, InitializeClass(t)
  PROVE  Move(t)
<1> DEFINE c == stack[t][1].klass
<1>1. /\ Ready(t) /\ stack[t] # <<>> /\ stack[t][1].pc = "super" /\ exception[t] = FALSE
      /\ Klass(t) = c /\ c \in Classes
  BY Heads DEF InitializeClass, Labels, Quiet
<1>2. UNCHANGED <<classVars, requestVars, aborted>>
  BY DEF InitializeClass
<1>3. Interfaces[c] \in Seq(Classes) /\ Uses[c] \in Seq(Classes) /\ (Base[c] # None => Base[c] \in Classes)
  BY <1>1, Lists
<1>4. CASE Goto(t, "cctor", Uses[c]) /\ UNCHANGED <<ret, exception>>
  <2>1. Fits(stack[t][1], "cctor")
    BY <1>1 DEF Fits, InIface, Calling, Labels
  <2>2. Becomes(t, "cctor")
    BY <1>1, <1>3, <1>4, <2>1, GotoReplaces
  <2>3. QED
    BY <1>1, <1>2, <1>4, <2>2, KeepValues, ContinueMove DEF AtWork, Calling
<1>5. CASE c \notin InterfaceClasses /\ Goto(t, "interfaces", Interfaces[c]) /\ UNCHANGED <<ret, exception>>
  <2>1. Fits(stack[t][1], "interfaces")
    BY <1>1, <1>5 DEF Fits, InIface, Calling, Labels
  <2>2. Becomes(t, "interfaces")
    BY <1>1, <1>3, <1>5, <2>1, GotoReplaces
  <2>3. QED
    BY <1>1, <1>2, <1>5, <2>2, KeepValues, ContinueMove DEF AtWork, Calling
<1>6. CASE c \notin InterfaceClasses /\ Base[c] # None /\ IsBadSuperClass(Base[c]) /\ Return(t, FALSE, TRUE)
  <2>1. BadBase(stack[t][1].klass)
    BY <1>6 DEF BadBase
  <2>2. QED
    BY <1>1, <1>2, <1>6, <2>1, LeaveMove
<1>7. CASE /\ c \notin InterfaceClasses /\ Base[c] # None
           /\ Call(t, "super_return", Frame("entry", Base[c], <<>>))
           /\ UNCHANGED <<ret, exception>>
  <2> DEFINE f == Frame("entry", Base[c], <<>>)
  <2>1. f \in Frames /\ f.pc = "entry" /\ f.klass = Base[c]
    BY <1>3, <1>7, NewFrame DEF Labels
  <2>2. Call(t, "super_return", f)
    BY <1>7
  <2> HIDE DEF f
  <2>3. QED
    BY <1>1, <1>2, <1>7, <2>1, <2>2, EnterMove DEF AtWork, Calling, IfaceCalls, Calls
<1>8. QED
  BY <1>1, <1>4, <1>5, <1>6, <1>7 DEF InitializeClass

LEMMA SuperReturnsMove ==
  ASSUME Types, Nested, Calm, NEW t \in Threads, SuperReturns(t)
  PROVE  Move(t)
<1> DEFINE c == stack[t][1].klass
<1>1. /\ Ready(t) /\ stack[t] # <<>> /\ stack[t][1].pc = "super_return" /\ WellMade(stack[t][1])
      /\ Klass(t) = c /\ c \in Classes
  BY Heads DEF SuperReturns, Labels
<1>2. UNCHANGED <<classVars, requestVars, aborted>> /\ UNCHANGED <<ret, exception>>
  BY DEF SuperReturns
<1>3. ~exception[t]
  BY <1>1 DEF Calm, SuperReturns
<1>4. Fits(stack[t][1], "interfaces")
  BY <1>1 DEF Fits, InIface, Calling, Labels, WellMade
<1>5. Becomes(t, "interfaces")
  BY <1>1, <1>4, Lists, GotoReplaces DEF SuperReturns
<1>6. QED
  BY <1>1, <1>2, <1>3, <1>5, KeepValues, ContinueMove DEF AtWork, Calling

LEMMA NextInterfaceMove ==
  ASSUME Types, Nested, Calm, NEW t \in Threads, NextInterface(t)
  PROVE  Move(t)
<1> DEFINE c == stack[t][1].klass
<1>1. /\ Ready(t) /\ stack[t] # <<>> /\ stack[t][1].pc = "interfaces" /\ WellMade(stack[t][1])
      /\ Klass(t) = c /\ c \in Classes /\ Rest(t) = stack[t][1].rest /\ exception[t] = FALSE
      /\ stack[t][1].rest \in Seq(Classes)
  BY Heads DEF NextInterface, Labels, Quiet
<1>2. UNCHANGED <<classVars, requestVars, aborted>> /\ UNCHANGED <<ret, exception>>
  BY DEF NextInterface
<1>3. c \notin InterfaceClasses
  BY <1>1 DEF WellMade
<1>4. CASE Goto(t, "cctor", Uses[c])
  <2>1. Fits(stack[t][1], "cctor")
    BY <1>1 DEF Fits, InIface, Calling, Labels
  <2>2. Becomes(t, "cctor")
    BY <1>1, <1>4, <2>1, Lists, GotoReplaces
  <2>3. QED
    BY <1>1, <1>2, <2>2, KeepValues, ContinueMove DEF AtWork, Calling
<1>5. CASE stack[t][1].rest # <<>> /\ Goto(t, "interfaces", Tail(stack[t][1].rest))
  <2>1. Fits(stack[t][1], "interfaces")
    BY <1>1, <1>3 DEF Fits, InIface, Calling, Labels
  <2>2. Becomes(t, "interfaces")
    BY <1>1, <1>5, <2>1, Rests, GotoReplaces
  <2>3. QED
    BY <1>1, <1>2, <2>2, KeepValues, ContinueMove DEF AtWork, Calling
<1>6. CASE /\ stack[t][1].rest # <<>>
           /\ Call(t, "interface_return", Frame("iface", Head(stack[t][1].rest), <<>>))
  <2> DEFINE f == Frame("iface", Head(stack[t][1].rest), <<>>)
  <2>1. f \in Frames /\ f.pc = "iface" /\ f.klass = Head(stack[t][1].rest)
    BY <1>1, <1>6, Rests, NewFrame DEF Labels
  <2>2. Call(t, "interface_return", f)
    BY <1>6
  <2> HIDE DEF f
  <2>3. QED
    BY <1>1, <1>2, <1>3, <1>6, <2>1, <2>2, EnterMove DEF AtWork, Calling, IfaceCalls, Calls
<1>7. QED
  BY <1>1, <1>4, <1>5, <1>6 DEF NextInterface

LEMMA InterfaceReturnsMove ==
  ASSUME Types, Nested, Calm, NEW t \in Threads, InterfaceReturns(t)
  PROVE  Move(t)
<1>1. /\ Ready(t) /\ stack[t] # <<>> /\ stack[t][1].pc = "interface_return" /\ WellMade(stack[t][1])
      /\ Rest(t) = stack[t][1].rest /\ stack[t][1].rest \in Seq(Classes)
  BY Heads DEF InterfaceReturns, Labels
<1>2. UNCHANGED <<classVars, requestVars, aborted>> /\ UNCHANGED <<ret, exception>>
  BY DEF InterfaceReturns
<1>3. ~exception[t] /\ stack[t][1].rest # <<>>
  BY <1>1 DEF Calm, InterfaceReturns, WellMade, Calling
<1>4. Fits(stack[t][1], "interfaces")
  BY <1>1 DEF Fits, InIface, Calling, Labels, WellMade
<1>5. Becomes(t, "interfaces")
  BY <1>1, <1>3, <1>4, Rests, GotoReplaces DEF InterfaceReturns
<1>6. QED
  BY <1>1, <1>2, <1>3, <1>5, KeepValues, ContinueMove DEF AtWork, Calling

LEMMA InitializeInterfaceMove ==
  ASSUME Types, Nested, Calm, NEW t \in Threads, InitializeInterface(t)
  PROVE  Move(t)
<1> DEFINE c == stack[t][1].klass
<1>1. /\ Ready(t) /\ stack[t] # <<>> /\ stack[t][1].pc = "iface" /\ exception[t] = FALSE
      /\ Klass(t) = c /\ c \in Classes
  BY Heads DEF InitializeInterface, Labels, Quiet
<1>2. UNCHANGED <<classVars, requestVars, aborted>>
  BY DEF InitializeInterface
<1>3. CASE c \in InterfaceClasses
  <2>1. Goto(t, "superinterfaces", Interfaces[c]) /\ UNCHANGED <<ret, exception>>
    BY <1>1, <1>3 DEF InitializeInterface
  <2>2. Fits(stack[t][1], "superinterfaces")
    BY <1>1, <1>3 DEF Fits, InIface, Calling, Labels
  <2>3. Becomes(t, "superinterfaces")
    BY <1>1, <2>1, <2>2, Lists, GotoReplaces
  <2>4. QED
    BY <1>1, <1>2, <2>1, <2>3, KeepValues, ContinueMove DEF AtWork, Calling
<1>4. CASE c \notin InterfaceClasses
  <2>1. Return(t, FALSE, TRUE)
    BY <1>1, <1>4 DEF InitializeInterface
  <2>2. QED
    BY <1>1, <1>2, <2>1, LeaveMove DEF AtWork
<1>5. QED
  BY <1>3, <1>4

LEMMA NextSuperinterfaceMove ==
  ASSUME Types, Nested, Calm, NEW t \in Threads, NextSuperinterface(t)
  PROVE  Move(t)
<1> DEFINE c == stack[t][1].klass
<1>1. /\ Ready(t) /\ stack[t] # <<>> /\ stack[t][1].pc = "superinterfaces"
      /\ Klass(t) = c /\ c \in Classes /\ Rest(t) = stack[t][1].rest /\ exception[t] = FALSE
      /\ stack[t][1].rest \in Seq(Classes)
  BY Heads DEF NextSuperinterface, Labels, Quiet
<1>2. UNCHANGED <<classVars, requestVars, aborted>>
  BY DEF NextSuperinterface
<1>3. CASE stack[t][1].rest # <<>> /\ Goto(t, "superinterfaces", Tail(stack[t][1].rest)) /\ UNCHANGED <<ret, exception>>
  <2>1. Fits(stack[t][1], "superinterfaces")
    BY <1>1 DEF Fits, InIface, Calling, Labels
  <2>2. Becomes(t, "superinterfaces")
    BY <1>1, <1>3, <2>1, Rests, GotoReplaces
  <2>3. QED
    BY <1>1, <1>2, <1>3, <2>2, KeepValues, ContinueMove DEF AtWork, Calling
<1>4. CASE /\ stack[t][1].rest # <<>> /\ UNCHANGED <<ret, exception>>
           /\ Call(t, "superinterface_return", Frame("iface", Head(stack[t][1].rest), <<>>))
  <2> DEFINE f == Frame("iface", Head(stack[t][1].rest), <<>>)
  <2>1. f \in Frames /\ f.pc = "iface" /\ f.klass = Head(stack[t][1].rest)
    BY <1>1, <1>4, Rests, NewFrame DEF Labels
  <2>2. Call(t, "superinterface_return", f)
    BY <1>4
  <2> HIDE DEF f
  <2>3. QED
    BY <1>1, <1>2, <1>4, <2>1, <2>2, EnterMove DEF AtWork, Calling, IfaceCalls, Calls, InIface
<1>5. CASE Return(t, TRUE, exception[t])
  <2>1. Return(t, TRUE, FALSE)
    BY <1>1, <1>5
  <2>2. QED
    BY <1>1, <1>2, <2>1, LeaveMove DEF AtWork
<1>6. CASE Goto(t, "entry", <<>>) /\ UNCHANGED <<ret, exception>>
  <2>1. Fits(stack[t][1], "entry")
    BY <1>1 DEF Fits, InIface, Calling, Labels
  <2>2. Becomes(t, "entry")
    BY <1>1, <1>6, <2>1, GotoEmpty
  <2>3. QED
    BY <1>1, <1>2, <1>6, <2>2, KeepValues, ContinueMove DEF AtWork, Calling
<1>7. QED
  BY <1>1, <1>3, <1>4, <1>5, <1>6 DEF NextSuperinterface

LEMMA SuperinterfaceReturnsMove ==
  ASSUME Types, Nested, Calm, NEW t \in Threads, SuperinterfaceReturns(t)
  PROVE  Move(t)
<1>1. /\ Ready(t) /\ stack[t] # <<>> /\ stack[t][1].pc = "superinterface_return" /\ WellMade(stack[t][1])
      /\ Rest(t) = stack[t][1].rest /\ stack[t][1].rest \in Seq(Classes)
  BY Heads DEF SuperinterfaceReturns, Labels
<1>2. UNCHANGED <<classVars, requestVars, aborted>>
  BY DEF SuperinterfaceReturns
<1>3. CASE ret[t]
  <2>1. Goto(t, "superinterfaces", Tail(stack[t][1].rest)) /\ UNCHANGED <<ret, exception>>
    BY <1>1, <1>3 DEF SuperinterfaceReturns
  <2>2. ~exception[t] /\ stack[t][1].rest # <<>>
    BY <1>1, <1>3 DEF Calm, WellMade, Calling
  <2>3. Fits(stack[t][1], "superinterfaces")
    BY <1>1 DEF Fits, InIface, Calling, Labels
  <2>4. Becomes(t, "superinterfaces")
    BY <1>1, <2>1, <2>2, <2>3, Rests, GotoReplaces
  <2>5. QED
    BY <1>1, <1>2, <2>1, <2>2, <2>4, KeepValues, ContinueMove DEF AtWork, Calling
<1>4. CASE ~ret[t]
  <2>1. Return(t, FALSE, exception[t])
    BY <1>4 DEF SuperinterfaceReturns
  <2>2. exception[t] \in BOOLEAN
    BY DEF Types
  <2>3. QED
    BY <1>1, <1>2, <2>1, <2>2, LeaveMove DEF AtWork
<1>5. QED
  BY <1>3, <1>4

LEMMA CctorMove ==
  ASSUME Types, Nested, Calm, NEW t \in Threads, Cctor(t)
  PROVE  Move(t)
<1> DEFINE c == stack[t][1].klass
<1>1. /\ Ready(t) /\ stack[t] # <<>> /\ stack[t][1].pc = "cctor"
      /\ Klass(t) = c /\ c \in Classes /\ Rest(t) = stack[t][1].rest
      /\ stack[t][1].rest \in Seq(Classes)
  BY Heads DEF Cctor, Labels
<1>2. UNCHANGED <<classVars, requestVars, aborted>> /\ UNCHANGED ret
  BY DEF Cctor
<1>3. /\ exception \in [Threads -> BOOLEAN] /\ ret \in [Threads -> BOOLEAN]
  BY DEF Types
<1>4. CASE /\ stack[t][1].rest # <<>> /\ ~exception[t] /\ UNCHANGED exception
           /\ Call(t, "cctor_return", Frame("entry", Head(stack[t][1].rest), <<>>))
  <2> DEFINE f == Frame("entry", Head(stack[t][1].rest), <<>>)
  <2>1. f \in Frames /\ f.pc = "entry" /\ f.klass = Head(stack[t][1].rest)
    BY SMTT(30), <1>1, <1>4, Rests, NewFrame DEF Labels
  <2>2. Call(t, "cctor_return", f)
    BY <1>4
  <2>3. exception[t] = FALSE
    BY <1>3, <1>4
  <2> HIDE DEF f
  <2>4. QED
    BY <1>1, <1>2, <1>4, <2>1, <2>2, <2>3, EnterMove DEF AtWork, Calling, IfaceCalls, Calls
<1>5. CASE /\ Goto(t, "finish", <<>>)
           /\ \E e \in {FALSE, exception[t], c \in Throwing} : exception' = [exception EXCEPT ![t] = e]
  <2>1. Fits(stack[t][1], "finish")
    BY <1>1 DEF Fits, InIface, Calling, Labels
  <2>2. Becomes(t, "finish")
    BY <1>1, <1>5, <2>1, GotoEmpty
  <2>3. Values(t)
    <3>1. PICK e \in {FALSE, exception[t], c \in Throwing} : exception' = [exception EXCEPT ![t] = e]
      BY <1>5
    <3>2. exception[t] \in BOOLEAN
      BY <1>3
    <3>3. (c \in Throwing) \in BOOLEAN
      OBVIOUS
    <3>4. e \in BOOLEAN
      BY <3>1, <3>2, <3>3
    <3>5. QED
      BY <1>2, <1>3, <3>1, <3>4 DEF Values
  <2>4. QED
    BY <1>1, <1>2, <2>2, <2>3, ContinueMove DEF AtWork, Calling, Quiet
<1>6. QED
  BY <1>1, <1>4, <1>5 DEF Cctor

LEMMA CctorReturnsMove ==
  ASSUME Types, Nested, Calm, NEW t \in Threads, CctorReturns(t)
  PROVE  Move(t)
<1>1. /\ Ready(t) /\ stack[t] # <<>> /\ stack[t][1].pc = "cctor_return" /\ WellMade(stack[t][1])
      /\ Rest(t) = stack[t][1].rest /\ stack[t][1].rest \in Seq(Classes)
  BY Heads DEF CctorReturns, Labels
<1>2. UNCHANGED <<classVars, requestVars, aborted>>
  BY DEF CctorReturns
<1>3. stack[t][1].rest # <<>>
  BY <1>1 DEF WellMade, Calling
<1>4. Fits(stack[t][1], "cctor")
  BY <1>1 DEF Fits, InIface, Calling, Labels
<1>5. Becomes(t, "cctor")
  BY <1>1, <1>3, <1>4, Rests, GotoReplaces DEF CctorReturns
<1>6. Values(t)
  BY DEF CctorReturns, Values, Types
<1>7. QED
  BY <1>1, <1>2, <1>5, <1>6, ContinueMove DEF AtWork, Calling, Quiet

\* A call that settles the state of its class.
LEMMA SettleMove ==
  ASSUME Types, Nested, NEW t \in Threads, Ready(t), stack[t][1].pc \in AtWork,
         NEW r \in BOOLEAN, NEW e \in BOOLEAN, Result(t, r, e), r => ~e,
         NotifyAll(t, stack[t][1].klass),
         NEW s \in {ERRONEOUS, INITIALIZED}, SetState(stack[t][1].klass, s),
         s = INITIALIZED => stack[t][1].pc = "finish",
         UNCHANGED <<initTid_, requestVars>>
  PROVE  Move(t)
<1>1. NestedIn(t) /\ stack[t] # <<>>
  BY DEF Nested, NestedIn, Ready
<1>2. Drop(t) /\ Whole' /\ \A u \in Threads \ {t} : Notified(u)
  BY <1>1, HeadFacts, NotifyStep
<1>3. Values(t) /\ CalmIn(t)'
  BY <1>1, <1>2, ReturnCalm
<1>4. Settle(t)
  BY <1>2 DEF Settle
<1>5. QED
  BY <1>2, <1>3, <1>4 DEF Move, Kind

LEMMA FailMove ==
  ASSUME Types, Nested, Calm, NEW t \in Threads, Fail(t)
  PROVE  Move(t)
<1>1. /\ Ready(t) /\ stack[t] # <<>> /\ stack[t][1].pc \in {"super_return", "interface_return"}
      /\ Klass(t) = stack[t][1].klass
  BY Heads DEF Fail, Labels
<1>2. exception[t] \in BOOLEAN
  BY DEF Types
<1>3. /\ SetState(stack[t][1].klass, ERRONEOUS) /\ NotifyAll(t, stack[t][1].klass)
      /\ Result(t, FALSE, exception[t]) /\ UNCHANGED <<initTid_, requestVars>>
  BY <1>1 DEF Fail
<1>4. ERRONEOUS # INITIALIZED /\ stack[t][1].pc \in AtWork
  BY <1>1 DEF ERRONEOUS, INITIALIZED, AtWork
<1>5. QED
  BY <1>1, <1>2, <1>3, <1>4, SettleMove

LEMMA FinishMove ==
  ASSUME Types, Nested, Calm, NEW t \in Threads, Finish(t)
  PROVE  Move(t)
<1>1. /\ Ready(t) /\ stack[t] # <<>> /\ stack[t][1].pc = "finish"
      /\ Klass(t) = stack[t][1].klass
  BY Heads DEF Finish, Labels
<1>2. NotifyAll(t, stack[t][1].klass) /\ UNCHANGED <<initTid_, requestVars>>
  BY <1>1 DEF Finish
<1>3. \/ SetState(stack[t][1].klass, ERRONEOUS) /\ Result(t, FALSE, TRUE)
      \/ SetState(stack[t][1].klass, INITIALIZED) /\ Result(t, TRUE, FALSE)
  BY <1>1 DEF Finish
<1>4. CASE SetState(stack[t][1].klass, ERRONEOUS) /\ Result(t, FALSE, TRUE)
  BY <1>1, <1>2, <1>4, SettleMove DEF AtWork
<1>5. CASE SetState(stack[t][1].klass, INITIALIZED) /\ Result(t, TRUE, FALSE)
  BY <1>1, <1>2, <1>5, SettleMove DEF AtWork
<1>6. QED
  BY <1>3, <1>4, <1>5

\* Every step of a thread is of one of the kinds.
LEMMA StepMoves ==
  ASSUME Types, Nested, Calm, NEW t \in Threads, Step(t) \/ Safepoint(t)
  PROVE  Move(t)
BY EntryMove, AlreadyMove, VerifyFailsMove, BeginMove, WakeupMove, WaitTerminatedMove,
   WaitInitializationMove, InitializeClassMove, SuperReturnsMove, NextInterfaceMove,
   InterfaceReturnsMove, FailMove, InitializeInterfaceMove, NextSuperinterfaceMove,
   SuperinterfaceReturnsMove, CctorMove, CctorReturnsMove, FinishMove, SafepointMove DEF Step

-----------------------------------------------------------------------------
(* A step of a thread keeps the invariant.                                 *)

\* The stack of any thread after a step of t.
LEMMA MoveNested ==
  ASSUME Types, Nested, NEW t \in Threads, Move(t), NEW u \in Threads
  PROVE  Stack(u)' /\ NestedIn(u)'
<1>1. Stack(u) /\ NestedIn(u)
  BY DEF Types, Stack, Nested, NestedIn
<1>2. CASE Same(u)
  BY <1>1, <1>2 DEF Same, Stack, NestedIn
<1>3. CASE \E f : Replace(u, f)
  BY <1>1, <1>3, ReplaceNested
<1>4. CASE \E f, g : Push(u, g, f)
  BY <1>1, <1>4, PushNested
<1>5. CASE Drop(u)
  BY <1>1, <1>5, DropNested
<1>6. Same(u) \/ (\E f : Replace(u, f)) \/ (\E f, g : Push(u, g, f)) \/ Drop(u)
  BY DEF Move, Kind, Continue, Enter, Leave, Claim, Verify, Kill, Settle, Die, Others, Notified
<1>7. QED
  BY <1>2, <1>3, <1>4, <1>5, <1>6

\* SetState keeps the type of state_.
LEMMA SetStateType ==
  ASSUME Types, NEW c \in Classes, NEW s \in LOADED .. INITIALIZED, SetState(c, s)
  PROVE  /\ state_' \in [Classes -> LOADED .. INITIALIZED] /\ aborted' \in BOOLEAN
         /\ \A d \in Classes : d # c => state_'[d] = state_[d]
         /\ \/ aborted' = FALSE /\ state_'[c] = s
            \/ /\ aborted' = TRUE /\ state_'[c] = state_[c]
               /\ \/ state_[c] = ERRONEOUS \/ s < state_[c]
                  \/ state_[c] = LOADED /\ s = INITIALIZED
BY DEF SetState, Types

\* The states of the classes after a step.
LEMMA MoveClasses ==
  ASSUME Types, NEW t \in Threads, Move(t)
  PROVE  /\ state_' \in [Classes -> LOADED .. INITIALIZED] /\ aborted' \in BOOLEAN
         /\ initTid_' \in [Classes -> Threads \cup {None}]
         /\ \A d \in Classes : d # stack[t][1].klass => state_'[d] = state_[d] /\ initTid_'[d] = initTid_[d]
<1> DEFINE c == stack[t][1].klass
<1>1. stack[t] # <<>> /\ c \in Classes
  BY HeadFacts DEF Move, Ready
<1>2. /\ state_ \in [Classes -> LOADED .. INITIALIZED] /\ aborted \in BOOLEAN
      /\ initTid_ \in [Classes -> Threads \cup {None}]
  BY DEF Types
<1>3. {INITIALIZING, ERRONEOUS, INITIALIZED} \subseteq LOADED .. INITIALIZED
  BY DEF LOADED, INITIALIZING, ERRONEOUS, INITIALIZED
<1>4. CASE Untouched
  BY <1>2, <1>4 DEF Untouched, classVars
<1>5. CASE Claim(t)
  BY <1>1, <1>2, <1>3, <1>5 DEF Claim
<1>6. CASE Verify(t)
  BY <1>1, <1>2, <1>3, <1>6 DEF Verify
<1>7. CASE \E s \in {ERRONEOUS, INITIALIZED} : SetState(c, s) /\ UNCHANGED initTid_
  <2>1. PICK s \in {ERRONEOUS, INITIALIZED} : SetState(c, s) /\ UNCHANGED initTid_
    BY <1>7
  <2>2. s \in LOADED .. INITIALIZED
    BY <1>3
  <2>3. /\ state_' \in [Classes -> LOADED .. INITIALIZED] /\ aborted' \in BOOLEAN
        /\ \A d \in Classes : d # c => state_'[d] = state_[d]
    BY ZenonT(30), <1>1, <2>1, <2>2, SetStateType
  <2>4. QED
    BY <1>2, <2>1, <2>3
<1>8. QED
  BY <1>4, <1>5, <1>6, <1>7 DEF Move, Kind, Continue, Enter, Leave, Kill, Settle, Die

LEMMA MoveTypes ==
  ASSUME Types, Nested, NEW t \in Threads, Move(t)
  PROVE  Types'
<1>1. stack' \in [Threads -> Seq(Frames)]
  <2>1. \A u \in Threads : stack'[u] \in Seq(Frames)
    BY MoveNested DEF Stack
  <2>2. stack' = [u \in Threads |-> stack'[u]]
    BY DEF Move, Whole
  <2>3. QED
    BY <2>1, <2>2
<1>2. QED
  BY <1>1, MoveClasses DEF Types, Move, Values, requestVars

\* The calls at work of the other threads.
LEMMA OthersWork ==
  ASSUME Types, NEW t \in Threads, Move(t), NEW u \in Threads \ {t}, NEW c, NEW k
  PROVE  Works(u, k, c)' <=> Works(u, k, c)
<1>1. Stack(u)
  BY DEF Types, Stack
<1>2. Notified(u)
  BY DEF Move, Kind, Continue, Enter, Leave, Claim, Verify, Kill, Settle, Die, Others, Notified
<1>3. QED
  BY <1>1, <1>2, NotifiedWorks

\* Positions in a stack are natural numbers.
LEMMA Positions ==
  ASSUME Types, NEW t \in Threads
  PROVE  DOMAIN stack[t] \subseteq Nat \ {0}
<1>1. stack[t] \in Seq(Frames)
  BY DEF Types
<1>2. QED
  BY <1>1, LenProperties

\* The calls at work after a step were at work before it, in places that
\* correspond, but for one that begins now.
Stay(t, c) == \A k \in Nat \ {0} : Works(t, k, c)' => Works(t, k, c)
Down(t, c) == \A k \in Nat \ {0} : Works(t, k, c)' => Works(t, k - 1, c)
Up(t, c) == \A k \in Nat \ {0} : Works(t, k, c)' => Works(t, k + 1, c)
New(t, c) == \A k \in Nat \ {0} : Works(t, k, c)' =>
                IF k = 1 THEN c = stack[t][1].klass ELSE Works(t, k, c)

LEMMA WorkedBefore ==
  ASSUME Types, Nested, NEW t \in Threads, Move(t), NEW c
  PROVE  Stay(t, c) \/ Down(t, c) \/ Up(t, c) \/ (Claim(t) /\ New(t, c))
<1>1. Stack(t) /\ stack[t] # <<>>
  BY DEF Types, Stack, Move, Ready
<1>3. 1 \in DOMAIN stack[t]
  BY <1>1, HeadFacts
<1>4. ASSUME NEW f, Replace(t, f), NEW k
      PROVE  /\ f.klass = stack[t][1].klass
             /\ Works(t, k, c)' <=> IF k = 1 THEN f.klass = c /\ f.pc \in AtWork ELSE Works(t, k, c)
  <2>1. f.klass = stack[t][1].klass
    BY <1>4 DEF Replace, Refit
  <2>2. QED
    BY <2>1, <1>1, <1>4, ReplaceWorks
<1>5. CASE Continue(t)
  <2>1. PICK f : Replace(t, f) /\ StillWorks(f, stack[t][1])
    BY <1>5 DEF Continue
  <2>2. f.klass = c /\ f.pc \in AtWork => Works(t, 1, c)
    BY <1>3, <1>4, <2>1 DEF Works, StillWorks
  <2>3. Stay(t, c)
    BY <1>4, <2>1, <2>2 DEF Stay
  <2>4. QED
    BY <2>3
<1>6. CASE Die(t)
  <2>1. PICK f : Replace(t, f) /\ f.pc = "dead"
    BY <1>6 DEF Die
  <2>2. "dead" \notin AtWork
    BY DEF AtWork
  <2>3. Stay(t, c)
    BY <1>4, <2>1, <2>2 DEF Stay
  <2>4. QED
    BY <2>3
<1>7. CASE Enter(t)
  <2>1. PICK f, g : Push(t, g, f) /\ f.pc \notin AtWork /\ StillWorks(g, stack[t][1])
    BY <1>7 DEF Enter, AtWork
  <2>2. \A k \in Nat : Works(t, k, c)' <=> Works(t, k - 1, c)
    BY <1>1, <2>1, PushWorks DEF StillWorks
  <2>3. Down(t, c)
    BY <2>2 DEF Down
  <2>4. QED
    BY <2>3
<1>8. CASE Leave(t) \/ Verify(t) \/ Kill(t) \/ Settle(t)
  <2>1. Drop(t)
    BY <1>8 DEF Leave, Verify, Kill, Settle
  <2>2. Up(t, c)
    BY <1>1, <2>1, DropWorks DEF Up
  <2>3. QED
    BY <2>2
<1>9. CASE Claim(t)
  <2>1. PICK f : Replace(t, f)
    BY <1>9 DEF Claim
  <2>2. New(t, c)
    BY <1>4, <2>1 DEF New
  <2>3. QED
    BY <1>9, <2>2
<1>10. QED
  BY <1>5, <1>6, <1>7, <1>8, <1>9 DEF Move, Kind

\* Positions after a step.
LEMMA NewPositions ==
  ASSUME Types, Nested, NEW t \in Threads, Move(t), NEW u \in Threads
  PROVE  DOMAIN stack'[u] \subseteq Nat \ {0}
<1>1. stack'[u] \in Seq(Frames)
  BY MoveNested DEF Stack
<1>2. QED
  BY <1>1, LenProperties

\* Nobody is at work on a class that a call settles.
LEMMA SettledAlone ==
  ASSUME Types, Nested, Owned, Single, NEW t \in Threads, Settle(t), Move(t),
         NEW c, c = stack[t][1].klass,
         NEW u \in Threads, NEW k \in DOMAIN stack'[u], Works(u, k, c)'
  PROVE  FALSE
<1>1. stack[t] # <<>> /\ c \in Classes /\ 1 \in DOMAIN stack[t] /\ Stack(t)
  BY HeadFacts DEF Move, Ready
<1>2. Works(t, 1, c)
  BY <1>1 DEF Works, Settle
<1>3. CASE u = t
  <2>1. k \in Nat \ {0}
    BY NewPositions
  <2>2. Works(t, k + 1, c)
    BY <1>1, <1>3, <2>1, DropWorks DEF Settle
  <2>3. k + 1 \in DOMAIN stack[t]
    BY <2>2 DEF Works
  <2>4. k + 1 = 1
    BY <1>1, <1>2, <2>2, <2>3 DEF Single
  <2>5. QED
    BY <2>1, <2>4
<1>4. CASE u # t
  <2>1. Works(u, k, c)
    BY <1>4, OthersWork
  <2>2. k \in DOMAIN stack[u]
    BY <2>1 DEF Works
  <2>3. initTid_[c] = u /\ initTid_[c] = t
    BY <1>1, <1>2, <2>1, <2>2 DEF Owned
  <2>4. QED
    BY <1>4, <2>3
<1>5. QED
  BY <1>3, <1>4

\* The classes somebody works on.
OwnedBy(u, c) ==
  /\ initTid_[c] = u /\ state_[c] >= INITIALIZING
  /\ termination = {} => state_[c] = INITIALIZING

LEMMA MoveOwned ==
  ASSUME Types, Nested, Owned, Single, NEW t \in Threads, Move(t)
  PROVE  Owned'
<1> DEFINE d == stack[t][1].klass
<1>1. stack[t] # <<>> /\ d \in Classes /\ 1 \in DOMAIN stack[t]
  BY HeadFacts DEF Move, Ready
<1>2. SUFFICES ASSUME NEW u \in Threads, NEW c \in Classes, NEW k \in DOMAIN stack'[u], Works(u, k, c)'
               PROVE  OwnedBy(u, c)'
  BY DEF Owned, OwnedBy
<1>3. \A v \in Threads, e \in Classes : \A j : Works(v, j, e) => OwnedBy(v, e)
  BY DEF Owned, OwnedBy, Works
<1>4. termination' = termination
  BY DEF Move, requestVars
<1>5. (\E j : Works(u, j, c)) \/ (Claim(t) /\ u = t /\ c = d)
  <2>1. CASE u = t
    BY <2>1, <1>2, NewPositions, WorkedBefore DEF Stay, Down, Up, New
  <2>2. CASE u # t
    BY <2>2, <1>2, OthersWork
  <2>3. QED
    BY <2>1, <2>2
<1>6. /\ state_ \in [Classes -> LOADED .. INITIALIZED]
      /\ initTid_ \in [Classes -> Threads \cup {None}]
  BY DEF Types
<1>7. CASE Untouched
  <2>1. (\E j : Works(u, j, c)) => OwnedBy(u, c)'
    BY <1>3, <1>4, <1>7 DEF OwnedBy, Untouched, classVars
  <2>2. CASE Claim(t) /\ u = t /\ c = d
    <3>1. state_'[d] = INITIALIZING /\ state_[d] < INITIALIZING /\ state_[d] = state_'[d]
      BY <2>2, <1>1, <1>6, <1>7 DEF Claim, Untouched, classVars
    <3>2. QED
      BY <3>1 DEF INITIALIZING
  <2>3. QED
    BY <1>5, <2>1, <2>2
<1>8. CASE Claim(t)
  <2>1. /\ state_'[d] = INITIALIZING /\ initTid_'[d] = t /\ state_[d] < INITIALIZING
        /\ c # d => state_'[c] = state_[c] /\ initTid_'[c] = initTid_[c]
    BY <1>1, <1>6, <1>8 DEF Claim
  <2>2. CASE c = d
    <3>1. ~ \E j : Works(u, j, c)
      <4>1. state_[d] \in {LOADED, VERIFIED, INITIALIZING, ERRONEOUS, INITIALIZED}
        BY <1>1, StateValues
      <4>2. ~ (state_[d] >= INITIALIZING)
        BY SMTT(30), <2>1, <4>1 DEF LOADED, VERIFIED, INITIALIZING, ERRONEOUS, INITIALIZED
      <4>3. QED
        BY <1>3, <2>2, <4>2 DEF OwnedBy
    <3>2. u = t
      BY <1>5, <3>1
    <3>3. QED
      BY <2>1, <2>2, <3>2 DEF OwnedBy, INITIALIZING
  <2>3. CASE c # d
    BY <1>3, <1>4, <1>5, <2>1, <2>3 DEF OwnedBy
  <2>4. QED
    BY <2>2, <2>3
<1>9. CASE Verify(t)
  <2>1. /\ state_[d] < INITIALIZING /\ initTid_' = initTid_
        /\ c # d => state_'[c] = state_[c]
    BY <1>1, <1>6, <1>9 DEF Verify
  <2>2. CASE \E j : Works(u, j, c)
    <3>1. state_[d] \in {LOADED, VERIFIED, INITIALIZING, ERRONEOUS, INITIALIZED}
      BY <1>1, StateValues
    <3>2. ~ (state_[d] >= INITIALIZING)
      BY <2>1, <3>1 DEF LOADED, VERIFIED, INITIALIZING, ERRONEOUS, INITIALIZED
    <3>3. OwnedBy(u, c)
      BY <2>2, <1>3
    <3>4. c # d
      BY <3>2, <3>3 DEF OwnedBy
    <3>5. QED
      BY <1>4, <2>1, <3>3, <3>4 DEF OwnedBy
  <2>3. CASE Claim(t) /\ u = t /\ c = d
    BY <2>3, <1>8
  <2>4. QED
    BY <1>5, <2>2, <2>3
<1>10. CASE Kill(t)
  <2>1. CASE Claim(t)
    BY <2>1, <1>8
  <2>2. CASE ~Claim(t)
    <3>1. OwnedBy(u, c)
      BY <2>2, <1>3, <1>5
    <3>2. termination' # {} /\ initTid_' = initTid_
      BY <1>4, <1>10 DEF Kill
    <3>3. ERRONEOUS \in LOADED .. INITIALIZED
      BY DEF LOADED, ERRONEOUS, INITIALIZED
    <3>4. /\ c # d => state_'[c] = state_[c]
          /\ state_'[d] = ERRONEOUS \/ state_'[d] = state_[d]
      BY ZenonT(30), <1>1, <1>10, <3>3, SetStateType DEF Kill
    <3>5. ERRONEOUS >= INITIALIZING
      BY DEF ERRONEOUS, INITIALIZING
    <3>6. QED
      BY <3>1, <3>2, <3>4, <3>5 DEF OwnedBy
  <2>3. QED
    BY <2>1, <2>2
<1>11. CASE Settle(t)
  <2>1. c # d
    BY <1>2, <1>11, SettledAlone
  <2>2. OwnedBy(u, c)
    BY <1>3, <1>5, <2>1
  <2>3. state_'[c] = state_[c] /\ initTid_'[c] = initTid_[c]
    BY <2>1, MoveClasses
  <2>4. QED
    BY <1>4, <2>2, <2>3 DEF OwnedBy
<1>12. QED
  BY <1>7, <1>8, <1>9, <1>10, <1>11 DEF Move, Kind, Continue, Enter, Leave, Die

LEMMA MoveSingle ==
  ASSUME Types, Nested, Owned, Single, NEW t \in Threads, Move(t)
  PROVE  Single'
<1>1. SUFFICES ASSUME NEW u \in Threads, NEW c \in Classes,
                      NEW j \in DOMAIN stack'[u], NEW k \in DOMAIN stack'[u],
                      Works(u, j, c)', Works(u, k, c)'
               PROVE  j = k
  BY DEF Single
<1>2. \A v \in Threads : \A i, n : Works(v, i, c) /\ Works(v, n, c) => i = n
  BY DEF Single, Works
<1>3. CASE u # t
  BY <1>1, <1>2, <1>3, OthersWork
<1>4. CASE u = t
  <2>1. j \in Nat \ {0} /\ k \in Nat \ {0}
    BY NewPositions
  <2>2. CASE Stay(t, c)
    BY <1>1, <1>2, <1>4, <2>1, <2>2 DEF Stay
  <2>3. CASE Down(t, c)
    <3>1. j - 1 = k - 1
      BY <1>1, <1>2, <1>4, <2>1, <2>3 DEF Down
    <3>2. QED
      BY <2>1, <3>1
  <2>4. CASE Up(t, c)
    <3>1. j + 1 = k + 1
      BY <1>1, <1>2, <1>4, <2>1, <2>4 DEF Up
    <3>2. QED
      BY <2>1, <3>1
  <2>5. CASE Claim(t) /\ New(t, c)
    <3>1. c = stack[t][1].klass => \A i : ~Works(t, i, c)
      <4>1. SUFFICES ASSUME c = stack[t][1].klass, NEW i, Works(t, i, c) PROVE FALSE
        OBVIOUS
      <4>2. state_[c] >= INITIALIZING /\ state_[c] < INITIALIZING
        BY <2>5, <4>1 DEF Claim, Owned, Works
      <4>3. state_[c] \in {LOADED, VERIFIED, INITIALIZING, ERRONEOUS, INITIALIZED}
        BY StateValues
      <4>4. QED
        BY <4>2, <4>3 DEF LOADED, VERIFIED, INITIALIZING, ERRONEOUS, INITIALIZED
    <3>2. /\ IF j = 1 THEN c = stack[t][1].klass ELSE Works(t, j, c)
          /\ IF k = 1 THEN c = stack[t][1].klass ELSE Works(t, k, c)
      BY <1>1, <1>4, <2>1, <2>5 DEF New
    <3>3. QED
      BY <1>2, <3>1, <3>2
  <2>6. QED
    BY <2>2, <2>3, <2>4, <2>5, WorkedBefore
<1>5. QED
  BY <1>3, <1>4

\* A call at work goes on, settles its class, leaves a class with a bad
\* superclass, or dies with its thread.
LEMMA WorkKept ==
  ASSUME Types, NEW t \in Threads, Move(t), NEW c, NEW k \in DOMAIN stack[t], Works(t, k, c)
  PROVE  \/ \E j : Works(t, j, c)'
         \/ BadBase(c)
         \/ Dead(t)'
         \/ Settle(t) /\ c = stack[t][1].klass
<1>1. Stack(t) /\ stack[t] # <<>> /\ k \in Nat \ {0}
  BY Positions DEF Types, Stack, Move, Ready
<1>2. k = 1 => c = stack[t][1].klass /\ stack[t][1].pc \in AtWork
  BY DEF Works
<1>3. ASSUME NEW f, Replace(t, f)
      PROVE  /\ f.klass = stack[t][1].klass
             /\ Works(t, k, c)' <=> IF k = 1 THEN f.klass = c /\ f.pc \in AtWork ELSE Works(t, k, c)
  <2>1. f.klass = stack[t][1].klass
    BY <1>3 DEF Replace, Refit
  <2>2. QED
    BY <2>1, <1>1, <1>3, ReplaceWorks
<1>4. ASSUME Drop(t), k # 1 PROVE \E j : Works(t, j, c)'
  <2>1. k - 1 \in Nat \ {0} /\ (k - 1) + 1 = k
    BY <1>1, <1>4
  <2>2. Works(t, k - 1, c)' <=> Works(t, (k - 1) + 1, c)
    <3> DEFINE i == k - 1
    <3>1. i \in Nat \ {0}
      BY <2>1
    <3> HIDE DEF i
    <3>2. Works(t, i, c)' <=> Works(t, i + 1, c)
      BY <1>1, <1>4, <3>1, DropWorks
    <3>3. QED
      BY <3>2 DEF i
  <2>3. QED
    BY <2>1, <2>2
<1>5. CASE Continue(t)
  <2>1. PICK f : Replace(t, f) /\ StillWorks(f, stack[t][1])
    BY <1>5 DEF Continue
  <2>2. Works(t, k, c)'
    BY <1>2, <1>3, <2>1 DEF StillWorks
  <2>3. QED
    BY <2>2
<1>6. CASE Die(t)
  <2>1. PICK f : Replace(t, f) /\ f.pc = "dead"
    BY <1>6 DEF Die
  <2>2. f \in Frames /\ stack[t] \in Seq(Frames) /\ stack'[t] = [stack[t] EXCEPT ![1] = f]
    BY <1>1, <2>1 DEF Replace, Refit, Stack
  <2>3. stack'[t] # <<>> /\ stack'[t][1] = f
    BY <1>1, <2>2, ReplaceShape
  <2>4. t \in termination'
    BY <1>6 DEF Die, Move, requestVars
  <2>5. QED
    BY <2>1, <2>3, <2>4 DEF Dead
<1>7. CASE Enter(t)
  <2>1. PICK f, g : Push(t, g, f) /\ f.pc \notin AtWork /\ StillWorks(g, stack[t][1])
    BY <1>7 DEF Enter, AtWork
  <2>2. \A i \in Nat : Works(t, i, c)' <=> Works(t, i - 1, c)
    BY <1>1, <2>1, PushWorks DEF StillWorks
  <2>3. k + 1 \in Nat /\ (k + 1) - 1 = k
    BY <1>1
  <2>4. QED
    BY <2>2, <2>3
<1>8. CASE Leave(t)
  BY <1>2, <1>4, <1>8 DEF Leave
<1>9. CASE Verify(t) \/ Kill(t)
  <2>1. k # 1 /\ Drop(t)
    BY <1>2, <1>9 DEF Verify, Kill, AtWork
  <2>2. QED
    BY <1>4, <2>1
<1>10. CASE Settle(t)
  BY <1>2, <1>4, <1>10 DEF Settle
<1>11. CASE Claim(t)
  <2>1. PICK f : Replace(t, f)
    BY <1>11 DEF Claim
  <2>2. k # 1
    BY <1>2, <1>11 DEF Claim, AtWork
  <2>3. QED
    BY <1>3, <2>1, <2>2
<1>12. QED
  BY <1>5, <1>6, <1>7, <1>8, <1>9, <1>10, <1>11 DEF Move, Kind

\* A call settles its class: INITIALIZED or ERRONEOUS, or the process ends.
LEMMA Settled ==
  ASSUME Types, Owned, NEW t \in Threads, Settle(t), stack[t] # <<>>
  PROVE  /\ state_'[stack[t][1].klass] \in {ERRONEOUS, INITIALIZED}
         /\ termination = {} => ~aborted'
<1> DEFINE d == stack[t][1].klass
<1>1. d \in Classes /\ 1 \in DOMAIN stack[t]
  BY HeadFacts
<1>2. Works(t, 1, d)
  BY <1>1 DEF Settle, Works
<1>3. state_[d] >= INITIALIZING /\ (termination = {} => state_[d] = INITIALIZING)
  BY <1>1, <1>2 DEF Owned
<1>4. PICK s \in {ERRONEOUS, INITIALIZED} : SetState(d, s)
  BY DEF Settle
<1>5. s \in LOADED .. INITIALIZED
  BY DEF LOADED, ERRONEOUS, INITIALIZED
<1>6. \/ aborted' = FALSE /\ state_'[d] = s
      \/ /\ aborted' = TRUE /\ state_'[d] = state_[d]
         /\ \/ state_[d] = ERRONEOUS \/ s < state_[d]
            \/ state_[d] = LOADED /\ s = INITIALIZED
  BY ZenonT(30), <1>1, <1>4, <1>5, SetStateType
<1>7. state_[d] \in {LOADED, VERIFIED, INITIALIZING, ERRONEOUS, INITIALIZED}
  BY <1>1, StateValues
<1> HIDE DEF d
<1>8. state_'[d] \in {ERRONEOUS, INITIALIZED}
  BY <1>3, <1>4, <1>6, <1>7 DEF LOADED, VERIFIED, INITIALIZING, ERRONEOUS, INITIALIZED
<1>9. termination = {} => ~aborted'
  BY <1>3, <1>4, <1>6 DEF LOADED, VERIFIED, INITIALIZING, ERRONEOUS, INITIALIZED
<1>10. QED
  BY <1>8, <1>9 DEF d

LEMMA MoveLeft ==
  ASSUME Types, Nested, Owned, Single, Left, NEW t \in Threads, Move(t)
  PROVE  Left'
<1> DEFINE d == stack[t][1].klass
<1>1. stack[t] # <<>> /\ d \in Classes /\ 1 \in DOMAIN stack[t] /\ Stack(t)
  BY HeadFacts DEF Move, Ready
<1>2. SUFFICES ASSUME NEW c \in Classes, state_'[c] = INITIALIZING
               PROVE  \E u \in Threads :
                        /\ initTid_'[c] = u
                        /\ BadBase(c) \/ Dead(u)' \/ \E k \in DOMAIN stack'[u] : Works(u, k, c)'
  BY DEF Left
<1>3. /\ state_ \in [Classes -> LOADED .. INITIALIZED]
      /\ initTid_ \in [Classes -> Threads \cup {None}]
  BY DEF Types
<1>4. CASE Claim(t) /\ c = d
  <2>1. initTid_'[c] = t
    BY <1>1, <1>3, <1>4 DEF Claim
  <2>2. PICK f : Replace(t, f) /\ f.pc = "super"
    BY <1>4 DEF Claim
  <2>3. f.klass = d /\ f.pc \in AtWork
    BY <2>2 DEF Replace, Refit, AtWork
  <2>4. Works(t, 1, c)'
    BY <1>1, <1>4, <2>2, <2>3, ReplaceWorks
  <2>5. 1 \in DOMAIN stack'[t]
    BY <2>4 DEF Works
  <2>6. QED
    BY <2>1, <2>4, <2>5
<1>5. CASE ~ (Claim(t) /\ c = d)
  <2>1. state_[c] = INITIALIZING /\ initTid_'[c] = initTid_[c] /\ ~(Settle(t) /\ c = d)
    <3>1. CASE c # d
      BY <1>2, <3>1, MoveClasses
    <3>2. CASE c = d
      <4>1. CASE Untouched
        <5>1. ~Settle(t)
          <6>1. SUFFICES ASSUME Settle(t) PROVE FALSE
            OBVIOUS
          <6>2. state_'[c] \in {ERRONEOUS, INITIALIZED}
            BY <1>1, <3>2, <6>1, Settled
          <6>3. QED
            BY <1>2, <6>2 DEF INITIALIZING, ERRONEOUS, INITIALIZED
        <5>2. QED
          BY <1>2, <4>1, <5>1 DEF Untouched, classVars
      <4>2. CASE Verify(t)
        <5>1. state_'[c] = ERRONEOUS
          BY <1>1, <1>3, <3>2, <4>2 DEF Verify
        <5>2. QED
          BY <1>2, <5>1 DEF INITIALIZING, ERRONEOUS
      <4>3. CASE Kill(t)
        <5>0. ERRONEOUS \in LOADED .. INITIALIZED
          BY DEF LOADED, ERRONEOUS, INITIALIZED
        <5>1. \/ aborted' = FALSE /\ state_'[c] = ERRONEOUS
              \/ /\ aborted' = TRUE /\ state_'[c] = state_[c]
                 /\ \/ state_[c] = ERRONEOUS \/ ERRONEOUS < state_[c]
                    \/ state_[c] = LOADED /\ ERRONEOUS = INITIALIZED
          BY ZenonT(30), <1>1, <3>2, <4>3, <5>0, SetStateType DEF Kill
        <5>2. QED
          BY <1>2, <5>1 DEF LOADED, INITIALIZING, ERRONEOUS, INITIALIZED
      <4>4. CASE Settle(t)
        <5>1. state_'[c] \in {ERRONEOUS, INITIALIZED}
          BY <1>1, <3>2, <4>4, Settled
        <5>2. QED
          BY <1>2, <5>1 DEF INITIALIZING, ERRONEOUS, INITIALIZED
      <4>5. QED
        BY <1>5, <3>2, <4>1, <4>2, <4>3, <4>4 DEF Move, Kind, Continue, Enter, Leave, Die
    <3>3. QED
      BY <3>1, <3>2
  <2>2. PICK u \in Threads :
          /\ initTid_[c] = u
          /\ BadBase(c) \/ Dead(u) \/ \E k \in DOMAIN stack[u] : Works(u, k, c)
    BY <2>1 DEF Left
  <2>3. CASE BadBase(c)
    BY <2>1, <2>2, <2>3
  <2>4. CASE Dead(u)
    <3>1. u # t
      BY <2>4 DEF Dead, Move, Ready
    <3>2. Notified(u)
      BY <3>1 DEF Move, Kind, Continue, Enter, Leave, Claim, Verify, Kill, Settle, Die, Others, Notified
    <3>3. Dead(u)'
      BY <2>4, <3>2 DEF Dead, Notified, Same, Move, requestVars
    <3>4. QED
      BY <2>1, <2>2, <3>3
  <2>5. CASE \E k \in DOMAIN stack[u] : Works(u, k, c)
    <3>1. PICK k \in DOMAIN stack[u] : Works(u, k, c)
      BY <2>5
    <3>2. CASE u # t
      <4>1. Works(u, k, c)'
        BY <3>1, <3>2, OthersWork
      <4>2. k \in DOMAIN stack'[u]
        BY <4>1 DEF Works
      <4>3. QED
        BY <2>1, <2>2, <4>1, <4>2
    <3>3. CASE u = t
      <4>1. (\E j : Works(t, j, c)') \/ BadBase(c) \/ Dead(t)'
        BY <2>1, <3>1, <3>3, WorkKept
      <4>2. (\E j : Works(t, j, c)') => \E j \in DOMAIN stack'[t] : Works(t, j, c)'
        BY DEF Works
      <4>3. QED
        BY <2>1, <2>2, <3>3, <4>1, <4>2
    <3>4. QED
      BY <3>2, <3>3
  <2>6. QED
    BY <2>2, <2>3, <2>4, <2>5
<1>6. QED
  BY <1>4, <1>5

LEMMA MoveFatal ==
  ASSUME Types, Owned, Fatal, NEW t \in Threads, Move(t)
  PROVE  Fatal'
<1>1. termination' = termination /\ ~aborted /\ stack[t] # <<>>
  BY DEF Move, Ready, requestVars
<1>2. CASE Untouched \/ Claim(t) \/ Verify(t)
  BY <1>1, <1>2 DEF Fatal, Untouched, Claim, Verify
<1>3. CASE Kill(t)
  BY <1>1, <1>3 DEF Fatal, Kill
<1>4. CASE Settle(t)
  BY <1>1, <1>4, Settled DEF Fatal
<1>5. QED
  BY <1>2, <1>3, <1>4 DEF Move, Kind, Continue, Enter, Leave, Die

LEMMA MoveCalm ==
  ASSUME Types, Calm, NEW t \in Threads, Move(t)
  PROVE  Calm'
<1>1. SUFFICES ASSUME NEW u \in Threads PROVE CalmIn(u)'
  BY DEF Calm, CalmIn
<1>2. CASE u = t
  BY <1>2 DEF Move
<1>3. CASE u # t
  <2>1. Notified(u)
    BY <1>3 DEF Move, Kind, Continue, Enter, Leave, Claim, Verify, Kill, Settle, Die, Others, Notified
  <2>2. ret'[u] = ret[u] /\ exception'[u] = exception[u] /\ CalmIn(u)
    BY <1>3 DEF Move, Values, Calm, CalmIn
  <2>3. CASE Same(u)
    BY <2>2, <2>3 DEF Same, CalmIn
  <2>4. CASE ~Same(u)
    <3>1. ~exception[u]
      BY <2>1, <2>2, <2>4 DEF Notified, CalmIn, Quiet
    <3>2. QED
      BY <2>2, <3>1 DEF CalmIn
  <2>5. QED
    BY <2>3, <2>4
<1>4. QED
  BY <1>2, <1>3

\* A step of a thread keeps the invariant.
LEMMA MoveKeeps ==
  ASSUME IInv, NEW t \in Threads, Move(t)
  PROVE  IInv'
<1>1. Types /\ Nested /\ Calm /\ Owned /\ Single /\ Left /\ Fatal
  BY DEF IInv
<1>2. Types'
  BY <1>1, MoveTypes
<1>3. Nested'
  BY <1>1, MoveNested DEF Nested, NestedIn
<1>4. Calm' /\ Owned' /\ Single' /\ Left' /\ Fatal'
  BY <1>1, MoveCalm, MoveOwned, MoveSingle, MoveLeft, MoveFatal
<1>5. QED
  BY <1>2, <1>3, <1>4 DEF IInv

LEMMA RequestKeeps ==
  ASSUME IInv, NEW t \in Threads, NEW c \in Requested, Request(t, c)
  PROVE  IInv'
<1>1. Types /\ Nested /\ Calm /\ Owned /\ Single /\ Left /\ Fatal
  BY DEF IInv
<1> DEFINE f == Frame("entry", c, <<>>)
<1>2. f \in Frames /\ f.pc = "entry" /\ f.klass = c
  BY NewFrame DEF Labels
<1>3. stack \in [Threads -> Seq(Frames)] /\ stack[t] = <<>> /\ stack' = [stack EXCEPT ![t] = <<f>>]
  BY <1>1 DEF Types, Request
<1>4. /\ UNCHANGED <<classVars, exception, termination, aborted>>
      /\ ret' = [ret EXCEPT ![t] = TRUE] /\ t \notin termination
      /\ interrupted' = interrupted \ {t} /\ ~aborted
  BY DEF Request
<1> HIDE DEF f
<1>5. /\ stack'[t] = <<f>> /\ DOMAIN stack'[t] = {1} /\ stack'[t][1] = f
      /\ DOMAIN stack[t] = {} /\ stack'[t] # <<>>
      /\ \A u \in Threads : u # t => stack'[u] = stack[u]
  BY <1>3
<1>6. WellMade(f) /\ Start(t, f)
  BY <1>2, <1>3, <1>5 DEF WellMade, Calling, Start
<1>7. Types'
  <2>1. stack' \in [Threads -> Seq(Frames)]
    BY <1>2, <1>3
  <2>2. termination' \subseteq interrupted' /\ interrupted' \subseteq Threads
    BY <1>1, <1>4 DEF Types
  <2>3. QED
    BY <1>1, <1>4, <2>1, <2>2 DEF Types, classVars
<1>8. Nested'
  <2>1. \A u \in Threads : NestedIn(u)'
    BY <1>1, <1>5, <1>6, StartNested DEF Nested, NestedIn
  <2>2. QED
    BY <2>1 DEF Nested, NestedIn
<1>9. Calm'
  <2>1. SUFFICES ASSUME NEW u \in Threads PROVE CalmIn(u)'
    BY DEF Calm, CalmIn
  <2>2. CASE u = t
    BY <1>1, <1>3, <1>4, <1>5, <2>2 DEF Calm, CalmIn
  <2>3. CASE u # t
    BY <1>1, <1>4, <1>5, <2>3 DEF Calm, CalmIn, Types
  <2>4. QED
    BY <2>2, <2>3
<1>10. \A u \in Threads : \A k, d : Works(u, k, d)' <=> Works(u, k, d)
  BY <1>2, <1>5 DEF Works, AtWork
<1>11. \A u, k, d : /\ Works(u, k, d) => k \in DOMAIN stack[u]
                    /\ Works(u, k, d)' => k \in DOMAIN stack'[u]
  BY DEF Works
<1>a. Owned'
  BY <1>1, <1>4, <1>10, <1>11 DEF Owned, classVars
<1>b. Single'
  BY <1>1, <1>10, <1>11 DEF Single
<1>12. Left'
  <2>1. \A u \in Threads : Dead(u) => Dead(u)'
    BY <1>4, <1>5 DEF Dead
  <2>2. \A u \in Threads : \A d :
          (\E k \in DOMAIN stack[u] : Works(u, k, d)) => \E k \in DOMAIN stack'[u] : Works(u, k, d)'
    BY <1>10, <1>11
  <2>3. QED
    BY <1>1, <1>4, <2>1, <2>2 DEF Left, classVars
<1>13. Fatal'
  BY <1>4 DEF Fatal
<1>14. QED
  BY <1>7, <1>8, <1>9, <1>a, <1>b, <1>12, <1>13 DEF IInv

LEMMA InterruptKeeps ==
  ASSUME IInv, NEW t \in Threads, Interrupt(t)
  PROVE  IInv'
<1>1. Types /\ Nested /\ Calm /\ Owned /\ Single /\ Left /\ Fatal
  BY DEF IInv
<1>2. /\ UNCHANGED <<classVars, stack, ret, exception, aborted>>
      /\ termination \subseteq termination' /\ termination' \subseteq interrupted'
      /\ interrupted' \subseteq Threads
  BY <1>1 DEF Interrupt, Types
<1>3. Types' /\ Nested' /\ Calm' /\ Single'
  BY <1>1, <1>2 DEF Types, Nested, Calm, Single, Works, classVars
<1>4. Owned'
  BY <1>1, <1>2 DEF Owned, Works, classVars
<1>5. Left'
  <2>1. \A u \in Threads : Dead(u) => Dead(u)'
    BY <1>2 DEF Dead
  <2>2. \A u, k, c : Works(u, k, c)' <=> Works(u, k, c)
    BY <1>2 DEF Works
  <2>3. QED
    BY <1>1, <1>2, <2>1, <2>2 DEF Left, classVars
<1>6. Fatal'
  BY <1>1, <1>2 DEF Fatal
<1>7. QED
  BY <1>3, <1>4, <1>5, <1>6 DEF IInv

LEMMA StutterKeeps ==
  ASSUME IInv, UNCHANGED vars
  PROVE  IInv'
BY DEF IInv, vars, classVars, requestVars, Types, Nested, Calm, Owned, Single, Left, Fatal, Works, Dead

LEMMA InitIInv == Init => IInv
<1> SUFFICES ASSUME Init PROVE IInv
  OBVIOUS
<1>1. Types
  <2>1. LOADED \in LOADED .. INITIALIZED
    BY DEF LOADED, INITIALIZED
  <2>2. <<>> \in Seq(Frames)
    OBVIOUS
  <2>3. stack \in [Threads -> Seq(Frames)]
    BY <2>2 DEF Init
  <2>4. QED
    BY <2>1, <2>3 DEF Init, Types
<1>2. \A t \in Threads : stack[t] = <<>> /\ DOMAIN stack[t] = {}
  BY DEF Init
<1>3. Nested /\ Owned /\ Single
  BY <1>2 DEF Nested, Owned, Single
<1>4. Calm /\ Left /\ Fatal
  BY <1>2 DEF Init, Calm, Left, Fatal, LOADED, INITIALIZING
<1>5. QED
  BY <1>1, <1>3, <1>4 DEF IInv

\* The invariant is inductive.
LEMMA NextIInv == IInv /\ [Next]_vars => IInv'
<1> SUFFICES ASSUME IInv, [Next]_vars PROVE IInv'
  OBVIOUS
<1>1. CASE UNCHANGED vars
  BY <1>1, StutterKeeps
<1>2. ASSUME NEW t \in Threads, NEW c \in Requested, Request(t, c) PROVE IInv'
  BY <1>2, RequestKeeps
<1>3. ASSUME NEW t \in Threads, Step(t) \/ Safepoint(t) PROVE IInv'
  <2>1. Move(t)
    BY <1>3, StepMoves DEF IInv
  <2>2. QED
    BY <2>1, MoveKeeps
<1>4. ASSUME NEW t \in Threads, Interrupt(t) PROVE IInv'
  BY <1>4, InterruptKeeps
<1>5. QED
  BY <1>1, <1>2, <1>3, <1>4 DEF Next, Aborted

\* The invariant holds in every state.
THEOREM Invariance == Spec => []IInv
BY InitIInv, NextIInv, PTL DEF Spec

-----------------------------------------------------------------------------
(* What follows from the invariant.                                        *)

\* The calls that initialize a class, written without the sets.
LEMMA InitializersAre ==
  ASSUME NEW c
  PROVE  \A i : i \in Initializers(c) <=>
                  \E t \in Threads : \E k \in DOMAIN stack[t] : i = <<t, k>> /\ Works(t, k, c)
BY DEF Initializers

LEMMA TypesGiveTypeOK == IInv => TypeOK
<1> SUFFICES ASSUME IInv PROVE TypeOK
  OBVIOUS
<1>1. Types
  BY DEF IInv
<1>2. ASSUME NEW t \in Threads, NEW k \in DOMAIN stack[t]
      PROVE  stack[t][k].pc \in Labels /\ stack[t][k].klass \in Classes
  <2>1. stack[t] \in Seq(Frames)
    BY <1>1 DEF Types
  <2>2. stack[t][k] \in Frames
    BY <2>1, ElementOfSeq, LenProperties
  <2>3. QED
    BY <2>2, FrameFields
<1>3. QED
  BY <1>1, <1>2 DEF Types, TypeOK

\* The type invariant: state_ and initTid_ of the classes, the frames of the
\* calls, and the termination requests of the threads keep their types.
THEOREM TypeCorrect == Spec => []TypeOK
BY Invariance, TypesGiveTypeOK, PTL

LEMMA SingleInitializer == IInv => OneInitializer
<1> SUFFICES ASSUME IInv, NEW c \in Classes
             PROVE  /\ Cardinality(Initializers(c)) <= 1
                    /\ \A i \in Initializers(c) :
                         initTid_[c] = i[1] /\ (termination = {} => state_[c] = INITIALIZING)
                    /\ (state_[c] = INITIALIZING /\ termination = {} /\ Initializers(c) = {})
                         => Base[c] # None /\ IsBadSuperClass(Base[c])
  BY DEF OneInitializer
<1>1. Types /\ Owned /\ Single /\ Left
  BY DEF IInv
<1>2. \A i : i \in Initializers(c) <=>
               \E t \in Threads : \E k \in DOMAIN stack[t] : i = <<t, k>> /\ Works(t, k, c)
  BY InitializersAre
<1>3. ASSUME NEW i \in Initializers(c), NEW j \in Initializers(c) PROVE i = j
  <2>1. PICK t \in Threads : \E k \in DOMAIN stack[t] : i = <<t, k>> /\ Works(t, k, c)
    BY <1>2
  <2>2. PICK k \in DOMAIN stack[t] : i = <<t, k>> /\ Works(t, k, c)
    BY <2>1
  <2>3. PICK u \in Threads : \E n \in DOMAIN stack[u] : j = <<u, n>> /\ Works(u, n, c)
    BY <1>2
  <2>4. PICK n \in DOMAIN stack[u] : j = <<u, n>> /\ Works(u, n, c)
    BY <2>3
  <2>5. t = u
    <3>1. initTid_[c] = t
      BY <1>1, <2>2 DEF Owned
    <3>2. initTid_[c] = u
      BY <1>1, <2>4 DEF Owned
    <3>3. QED
      BY <3>1, <3>2
  <2>6. k = n
    BY <1>1, <2>2, <2>4, <2>5 DEF Single
  <2>7. QED
    BY <2>2, <2>4, <2>5, <2>6
<1>4. Cardinality(Initializers(c)) <= 1
  <2>1. CASE Initializers(c) = {}
    BY <2>1, FS_EmptySet
  <2>2. CASE Initializers(c) # {}
    <3>1. PICK i : i \in Initializers(c)
      BY <2>2
    <3>2. Initializers(c) = {i}
      BY <3>1, <1>3
    <3>3. Cardinality({i}) = 1
      BY FS_Singleton
    <3>4. QED
      BY <3>2, <3>3
  <2>3. QED
    BY <2>1, <2>2
<1>5. ASSUME NEW i \in Initializers(c)
      PROVE  initTid_[c] = i[1] /\ (termination = {} => state_[c] = INITIALIZING)
  <2>1. PICK t \in Threads : \E k \in DOMAIN stack[t] : i = <<t, k>> /\ Works(t, k, c)
    BY <1>2
  <2>2. PICK k \in DOMAIN stack[t] : i = <<t, k>> /\ Works(t, k, c)
    BY <2>1
  <2>3. i[1] = t
    BY <2>2
  <2>4. QED
    BY <1>1, <2>2, <2>3 DEF Owned
<1>6. ASSUME state_[c] = INITIALIZING, termination = {}, Initializers(c) = {}
      PROVE  Base[c] # None /\ IsBadSuperClass(Base[c])
  <2>1. PICK t \in Threads : BadBase(c) \/ Dead(t) \/ \E k \in DOMAIN stack[t] : Works(t, k, c)
    BY <1>1, <1>6 DEF Left
  <2>2. ~Dead(t)
    BY <1>6 DEF Dead
  <2>3. ~ \E k \in DOMAIN stack[t] : Works(t, k, c)
    BY <1>2, <1>6
  <2>4. QED
    BY <2>1, <2>2, <2>3 DEF BadBase
<1>7. QED
  BY <1>4, <1>5, <1>6

\* One initializer: at most one call of one thread is between
\* SetState(INITIALIZING) and the end of the initialization of a class, it is
\* the thread in initTid_, and a class stays INITIALIZING with nobody at work
\* only when its superclass is bad or a thread was terminated.
THEOREM InitializedOnce == Spec => []OneInitializer
BY Invariance, SingleInitializer, PTL

\* Class::SetState and the UNREACHABLE in WaitInitialization are not reached
\* with a wrong state unless the shutdown terminates a thread.
THEOREM FatalOnlyAtShutdown == Spec => [](aborted => termination # {})
<1>1. IInv => (aborted => termination # {})
  BY DEF IInv, Fatal
<1>2. QED
  BY <1>1, Invariance, PTL

Usable(t) ==
  \/ state_'[Klass(t)] = INITIALIZED
  \/ \E i \in Initializers(Klass(t)) : i[1] = t
  \/ Base[Klass(t)] # None /\ IsBadSuperClass(Base[Klass(t)]) /\ initTid_[Klass(t)] = t

\* Only the thread itself returns from its call.
LEMMA OwnReturn ==
  ASSUME Types, NEW t \in Threads, Move(t), NEW u \in Threads \ {t}
  PROVE  Len(stack'[u]) = Len(stack[u])
<1>1. Notified(u)
  BY DEF Move, Kind, Continue, Enter, Leave, Claim, Verify, Kill, Settle, Die, Others, Notified
<1>2. CASE Same(u)
  BY <1>2 DEF Same
<1>3. CASE ~Same(u)
  <2>1. PICK f : Replace(u, f)
    BY <1>1, <1>3 DEF Notified
  <2>2. stack[u] \in Seq(Frames) /\ stack[u] # <<>> /\ f \in Frames /\ stack'[u] = [stack[u] EXCEPT ![1] = f]
    BY <2>1 DEF Types, Replace, Refit
  <2>3. stack'[u] \in Seq(Frames) /\ DOMAIN stack'[u] = DOMAIN stack[u]
    BY <2>2, ReplaceShape
  <2>4. QED
    BY <2>2, <2>3, LenProperties
<1>4. QED
  BY <1>2, <1>3

LEMMA StepUsable ==
  ASSUME IInv, NEW t \in Threads, Step(t) \/ Safepoint(t), Finished(t)
  PROVE  Usable(t)
<1>1. Types /\ Nested /\ Calm /\ Owned /\ Left
  BY DEF IInv
<1>2. Move(t)
  BY <1>1, StepMoves
<1> DEFINE c == stack[t][1].klass
<1>3. /\ stack[t] # <<>> /\ c \in Classes /\ 1 \in DOMAIN stack[t]
      /\ Head(stack[t]) = stack[t][1] /\ Klass(t) = c /\ ~aborted
  BY <1>1, <1>2, HeadFacts DEF Move, Ready
<1>4. ret'[t] /\ stack[t][1].pc \in {"entry", "lock", "woken", "finish"} /\ Len(stack'[t]) # Len(stack[t])
  <2>1. Len(stack'[t]) < Len(stack[t]) /\ ret'[t] /\ stack[t][1].pc \in {"entry", "lock", "woken", "finish"}
    BY <1>3 DEF Finished
  <2>2. stack[t] \in Seq(Frames) /\ stack'[t] \in Seq(Frames)
    BY <1>1, <1>2, MoveTypes DEF Types
  <2>3. Len(stack[t]) \in Nat /\ Len(stack'[t]) \in Nat
    BY <2>2, LenProperties
  <2>4. QED
    BY <2>1, <2>3
<1>5. \A r, e : Return(t, r, e) => r
  BY <1>1, <1>4 DEF Return, Result, Types
<1>6. ASSUME NEW k \in DOMAIN stack[t], Works(t, k, c) PROVE Usable(t)
  <2>1. <<t, k>> \in Initializers(c) /\ <<t, k>>[1] = t
    BY <1>6, InitializersAre
  <2>2. QED
    BY <1>3, <2>1 DEF Usable
<1>7. \A l : At(t, l) => stack[t][1].pc = l
  BY <1>1, AtFacts
<1>8. \A f, l : Becomes(t, l) => Len(stack'[t]) = Len(stack[t])
  <2>1. ASSUME NEW f, Replace(t, f) PROVE Len(stack'[t]) = Len(stack[t])
    <3>2. stack[t] \in Seq(Frames) /\ stack[t] # <<>> /\ f \in Frames /\ stack'[t] = [stack[t] EXCEPT ![1] = f]
      BY <1>1, <2>1 DEF Types, Replace, Refit
    <3>3. stack'[t] \in Seq(Frames) /\ DOMAIN stack'[t] = DOMAIN stack[t]
      BY <3>2, ReplaceShape
    <3>4. QED
      BY <3>2, <3>3, LenProperties
  <2>2. QED
    BY <2>1 DEF Becomes
<1>9. \A l : l \in {"lock", "wait", "super"} => ~Goto(t, l, <<>>)
  <2>1. \A l : l \in {"lock", "wait", "super"} => Fits(stack[t][1], l)
    BY <1>4 DEF Fits, InIface, Calling, Labels
  <2>2. QED
    BY <1>1, <1>3, <1>4, <1>8, <2>1, GotoEmpty
<1>10. CASE Entry(t)
  BY <1>3, <1>9, <1>10 DEF Entry, Usable, classVars
<1>11. CASE Already(t)
  <2>1. CASE state_[c] = INITIALIZED
    BY <1>3, <1>11, <2>1 DEF Already, Usable, classVars
  <2>2. CASE state_[c] = INITIALIZING /\ initTid_[c] = t
    <3>1. BadBase(c) \/ Dead(t) \/ \E k \in DOMAIN stack[t] : Works(t, k, c)
      BY <1>1, <1>3, <2>2 DEF Left
    <3>2. ~Dead(t)
      BY <1>4 DEF Dead
    <3>3. CASE BadBase(c)
      BY <1>3, <2>2, <3>3 DEF BadBase, Usable
    <3>4. QED
      BY <1>6, <3>1, <3>2, <3>3
  <2>3. QED
    BY <1>3, <1>5, <1>9, <1>11, <2>1, <2>2 DEF Already
<1>12. CASE WaitInitialization(t)
  <2>1. state_[c] = INITIALIZED /\ state_' = state_
    <3>1. exception[t] = FALSE
      BY <1>1, <1>3, <1>7, <1>12, QuietHead DEF WaitInitialization, Quiet
    <3>2. QED
      BY <1>3, <1>5, <1>9, <1>12, <3>1 DEF WaitInitialization
  <2>2. QED
    BY <1>3, <2>1 DEF Usable
<1>13. CASE Finish(t)
  <2>1. stack[t][1].pc = "finish"
    BY <1>7, <1>13 DEF Finish
  <2>2. Works(t, 1, c)
    BY <1>3, <2>1 DEF Works, AtWork
  <2>3. QED
    BY <1>3, <1>6, <2>2
<1>14. ~VerifyFails(t) /\ ~WaitTerminated(t) /\ ~Begin(t)
  BY <1>5, <1>9 DEF VerifyFails, WaitTerminated, Begin
<1>15. QED
  BY <1>4, <1>7, <1>10, <1>11, <1>12, <1>13, <1>14
     DEF Step, Wakeup, InitializeClass, SuperReturns, NextInterface, InterfaceReturns, Fail,
         InitializeInterface, NextSuperinterface, SuperinterfaceReturns, Cctor, CctorReturns, Safepoint

\* No step says TRUE for a class that cannot be used.
LEMMA NextUsable == IInv /\ [Next]_vars => [\A t \in Threads : Finished(t) => Usable(t)]_vars
<1> SUFFICES ASSUME IInv, Next, NEW t \in Threads, Finished(t) PROVE Usable(t)
  OBVIOUS
<1>1. Types /\ Nested /\ Calm
  BY DEF IInv
<1>2. stack[t] \in Seq(Frames) /\ Len(stack[t]) \in Nat
  BY <1>1, LenProperties DEF Types
<1>3. Len(stack'[t]) # Len(stack[t]) /\ stack'[t] # stack[t] /\ Len(stack'[t]) < Len(stack[t])
  <2>1. ~ (Len(stack[t]) < Len(stack[t]))
    BY <1>2
  <2>2. Len(stack'[t]) < Len(stack[t])
    BY DEF Finished
  <2>3. QED
    BY <2>1, <2>2
<1>4. ASSUME NEW u \in Threads, Step(u) \/ Safepoint(u) PROVE Usable(t)
  <2>1. Move(u)
    BY <1>1, <1>4, StepMoves
  <2>2. u = t
    BY <1>1, <1>3, <2>1, OwnReturn
  <2>3. QED
    BY <1>4, <2>2, StepUsable
<1>5. ASSUME NEW u \in Threads, NEW c \in Requested, Request(u, c) PROVE FALSE
  <2>1. u = t => stack[t] = <<>>
    BY <1>5 DEF Request
  <2>2. u # t => stack'[t] = stack[t]
    BY <1>1, <1>5 DEF Request, Types
  <2>3. stack[t] = <<>>
    BY <1>3, <2>1, <2>2
  <2>4. stack[t] = <<>> => Len(stack[t]) = 0
    OBVIOUS
  <2>5. Len(stack'[t]) \in Nat
    <3>1. IInv'
      BY <1>5, RequestKeeps
    <3>2. stack'[t] \in Seq(Frames)
      BY <3>1 DEF IInv, Types
    <3>3. QED
      BY <3>2, LenProperties
  <2>6. QED
    BY <1>3, <2>3, <2>4, <2>5
<1>6. ASSUME NEW u \in Threads, Interrupt(u) PROVE FALSE
  BY <1>3, <1>6 DEF Interrupt
<1>7. ~Aborted
  BY <1>3 DEF Aborted, vars
<1>8. QED
  BY <1>4, <1>5, <1>6, <1>7 DEF Next

\* TRUE means usable: Initialize returns TRUE only for a class that is
\* INITIALIZED, that the same thread is initializing further out, or whose
\* superclass is bad and that the thread has left INITIALIZING.
THEOREM TrueIsUsable == Spec => TrueMeansUsable
<1>1. IInv /\ [Next]_vars =>
        [\A t \in Threads : Finished(t) =>
           LET c == Klass(t) IN
           \/ state_'[c] = INITIALIZED
           \/ \E i \in Initializers(c) : i[1] = t
           \/ Base[c] # None /\ IsBadSuperClass(Base[c]) /\ initTid_[c] = t]_vars
  BY NextUsable DEF Usable
<1>2. QED
  BY <1>1, Invariance, PTL DEF Spec, TrueMeansUsable

-----------------------------------------------------------------------------
(* Supertypes first.                                                       *)

\* The supertypes of a class are classes.
LEMMA SupersAreClasses ==
  ASSUME NEW c \in Classes
  PROVE  Supers(c) \subseteq Classes
<1>1. Interfaces[c] \in Seq(Classes) /\ (Base[c] # None => Base[c] \in Classes)
  BY Lists
<1>2. \A k \in DOMAIN Interfaces[c] : Interfaces[c][k] \in Classes
  BY <1>1, ElementOfSeq, LenProperties
<1>3. QED
  BY <1>1, <1>2 DEF Supers

\* A class that is INITIALIZED stays so.
LEMMA DoneKept ==
  ASSUME Types, NEW t \in Threads, Move(t), NEW c \in Classes, Done(state_, c)
  PROVE  Done(state_', c)
<1> DEFINE d == stack[t][1].klass
<1>1. stack[t] # <<>> /\ d \in Classes
  BY HeadFacts DEF Move, Ready
<1>2. state_[c] = INITIALIZED
  BY DEF Done
<1>3. CASE c # d
  BY <1>2, <1>3, MoveClasses DEF Done
<1>4. CASE c = d
  <2>1. CASE Untouched
    BY <1>2, <2>1 DEF Done, Untouched, classVars
  <2>2. ~Claim(t) /\ ~Verify(t)
    BY <1>2, <1>4 DEF Claim, Verify, INITIALIZING, INITIALIZED
  <2>3. CASE \E s \in {ERRONEOUS, INITIALIZED} : SetState(c, s)
    <3>1. PICK s \in {ERRONEOUS, INITIALIZED} : SetState(c, s)
      BY <2>3
    <3>2. s \in LOADED .. INITIALIZED
      BY DEF LOADED, ERRONEOUS, INITIALIZED
    <3>3. \/ aborted' = FALSE /\ state_'[c] = s
          \/ aborted' = TRUE /\ state_'[c] = state_[c]
      BY <3>1, <3>2, SetStateType
    <3>4. CASE s = INITIALIZED
      BY <1>2, <3>3, <3>4 DEF Done
    <3>5. CASE s = ERRONEOUS
      <4>1. s < state_[c]
        BY <1>2, <3>5 DEF ERRONEOUS, INITIALIZED
      <4>2. state_' = state_
        BY <3>1, <4>1 DEF SetState
      <4>3. QED
        BY <4>2 DEF Done
    <3>6. QED
      BY <3>4, <3>5
  <2>4. QED
    BY <1>4, <2>1, <2>2, <2>3 DEF Move, Kind, Continue, Enter, Leave, Kill, Settle, Die
<1>5. QED
  BY <1>3, <1>4

\* What a frame has done stays done.
LEMMA BehindKept ==
  ASSUME Types, NEW t \in Threads, Move(t), NEW f \in Frames, Behind(state_, f)
  PROVE  Behind(state_', f)
<1>1. f.klass \in Classes
  BY FrameFields
<1>2. Interfaces[f.klass] \in Seq(Classes) /\ (Base[f.klass] # None => Base[f.klass] \in Classes)
  BY <1>1, Lists
<1>3. \A m \in DOMAIN Interfaces[f.klass] : Interfaces[f.klass][m] \in Classes
  BY <1>2, ElementOfSeq, LenProperties
<1>4. \A c \in Classes : Done(state_, c) => Done(state_', c)
  BY DoneKept
<1>5. Supers(f.klass) \subseteq Classes
  BY <1>1, SupersAreClasses
<1>6. QED
  BY <1>2, <1>3, <1>4, <1>5 DEF Behind

\* A list without its head.
LEMMA RestOf ==
  ASSUME NEW r \in Seq(Classes), r # <<>>, NEW L, \A i \in DOMAIN r : Member(r[i], L)
  PROVE  /\ \A i \in DOMAIN Tail(r) : Member(Tail(r)[i], L)
         /\ Member(Head(r), L)
         /\ \A x : Member(x, r) => x = Head(r) \/ Member(x, Tail(r))
<1>1. /\ 1 \in DOMAIN r /\ Head(r) = r[1]
      /\ \A k : k \in DOMAIN Tail(r) <=> (k \in Nat /\ k # 0 /\ k + 1 \in DOMAIN r)
      /\ \A k \in DOMAIN Tail(r) : k + 1 \in DOMAIN r /\ Tail(r)[k] = r[k + 1]
  BY DropShape
<1>2. DOMAIN r = 1 .. Len(r) /\ Len(r) \in Nat
  BY LenProperties
<1>3. ASSUME NEW x, Member(x, r) PROVE x = Head(r) \/ Member(x, Tail(r))
  <2>1. PICK i \in DOMAIN r : r[i] = x
    BY <1>3 DEF Member
  <2>2. CASE i = 1
    BY <1>1, <2>1, <2>2
  <2>3. CASE i # 1
    <3>1. i - 1 \in DOMAIN Tail(r) /\ (i - 1) + 1 = i
      BY <1>1, <1>2, <2>1, <2>3
    <3>2. Tail(r)[i - 1] = x
      BY <1>1, <2>1, <3>1
    <3>3. QED
      BY <3>1, <3>2 DEF Member
  <2>4. QED
    BY <2>2, <2>3
<1>4. QED
  BY <1>1, <1>3

\* The lists of a class contain themselves.
LEMMA WholeList ==
  ASSUME NEW L
  PROVE  \A i \in DOMAIN L : Member(L[i], L)
BY DEF Member

TopMade(t) == stack'[t] # <<>> /\ Ahead(stack'[t][1]) /\ Behind(state_', stack'[t][1])
Listing == {"interfaces", "interface_return", "superinterfaces", "superinterface_return",
            "cctor", "cctor_return", "finish"}

\* Labels that say nothing.
LEMMA TopFree ==
  ASSUME NEW t, stack'[t] # <<>>, stack'[t][1].pc \notin Listing
  PROVE  TopMade(t)
BY DEF TopMade, Ahead, Behind, Listing

LEMMA GotoTop ==
  ASSUME Types, NEW t \in Threads, stack[t] # <<>>,
         NEW l \in Labels, NEW r \in Seq(Classes), Goto(t, l, r)
  PROVE  /\ stack'[t] # <<>> /\ stack'[t][1].pc = l
         /\ stack'[t][1].klass = stack[t][1].klass /\ stack'[t][1].rest = r
<1>1. \E f \in Frames : /\ f.pc = l /\ f.klass = stack[t][1].klass /\ f.rest = r
                        /\ stack'[t] = [stack[t] EXCEPT ![1] = f]
                        /\ stack'[t] # <<>> /\ stack'[t][1] = f
  BY GotoStep
<1>2. QED
  BY <1>1

LEMMA GotoTail ==
  ASSUME Types, NEW t \in Threads, stack[t] # <<>>, stack[t][1].rest # <<>>,
         NEW l \in Labels, Goto(t, l, Tail(stack[t][1].rest))
  PROVE  /\ stack'[t] # <<>> /\ stack'[t][1].pc = l
         /\ stack'[t][1].klass = stack[t][1].klass /\ stack'[t][1].rest = Tail(stack[t][1].rest)
<1> DEFINE q == Tail(stack[t][1].rest)
<1>1. stack[t][1].rest \in Seq(Classes)
  BY HeadFacts
<1>2. q \in Seq(Classes) /\ Goto(t, l, q)
  BY <1>1, Rests
<1> HIDE DEF q
<1>3. /\ stack'[t] # <<>> /\ stack'[t][1].pc = l
      /\ stack'[t][1].klass = stack[t][1].klass /\ stack'[t][1].rest = q
  BY <1>2, GotoTop
<1>4. QED
  BY <1>3 DEF q

LEMMA GotoTopEmpty ==
  ASSUME Types, NEW t \in Threads, stack[t] # <<>>, NEW l \in Labels, Goto(t, l, <<>>)
  PROVE  /\ stack'[t] # <<>> /\ stack'[t][1].pc = l
         /\ stack'[t][1].klass = stack[t][1].klass
<1> DEFINE r == <<>>
<1>1. r \in Seq(Classes) /\ Goto(t, l, r)
  OBVIOUS
<1> HIDE DEF r
<1>2. QED
  BY <1>1, GotoTop

LEMMA GotoFree ==
  ASSUME Types, NEW t \in Threads, stack[t] # <<>>, NEW l \in Labels \ Listing, Goto(t, l, <<>>)
  PROVE  TopMade(t)
BY GotoTopEmpty, TopFree

LEMMA CallFree ==
  ASSUME Types, NEW t \in Threads, stack[t] # <<>>, NEW l \in Labels,
         NEW p \in {"entry", "iface"}, NEW b \in Classes, Call(t, l, Frame(p, b, <<>>))
  PROVE  TopMade(t)
<1> DEFINE f == Frame(p, b, <<>>)
<1>1. p \in Labels \ Listing
  BY DEF Labels, Listing
<1>2. f \in Frames /\ f.pc = p /\ Call(t, l, f)
  BY <1>1, NewFrame
<1> HIDE DEF f
<1>3. PICK g \in Frames : Called(t, l, f, g)
  BY <1>2, CallStep
<1>4. stack'[t] # <<>> /\ stack'[t][1] = f
  BY <1>3 DEF Called
<1>5. QED
  BY <1>1, <1>2, <1>4, TopFree

\* What a thread finds at its head.
LEMMA TopHeld ==
  ASSUME Types, Progress, NEW t \in Threads, stack[t] # <<>>
  PROVE  /\ Ahead(stack[t][1]) /\ Behind(state_, stack[t][1]) /\ Reported(t)
BY HeadFacts DEF Progress

LEMMA InitializeClassTop ==
  ASSUME Types, Nested, Calm, Progress, NEW t \in Threads, InitializeClass(t)
  PROVE  Drop(t) \/ TopMade(t)
<1> DEFINE c == stack[t][1].klass
<1>1. /\ stack[t] # <<>> /\ stack[t][1].pc = "super" /\ Klass(t) = c /\ c \in Classes
  BY Heads DEF InitializeClass, Labels
<1>2. Interfaces[c] \in Seq(Classes) /\ Uses[c] \in Seq(Classes) /\ (Base[c] # None => Base[c] \in Classes)
  BY <1>1, Lists
<1>3. CASE c \in InterfaceClasses /\ Goto(t, "cctor", Uses[c])
  <2>1. /\ stack'[t] # <<>> /\ stack'[t][1].pc = "cctor"
        /\ stack'[t][1].klass = c /\ stack'[t][1].rest = Uses[c]
    BY <1>1, <1>2, <1>3, GotoTop DEF Labels
  <2>2. Supers(c) = {}
    BY <1>3 DEF Supers
  <2>3. QED
    BY <2>1, <2>2, WholeList DEF TopMade, Ahead, Behind
<1>4. CASE Base[c] = None /\ Goto(t, "interfaces", Interfaces[c])
  <2>1. /\ stack'[t] # <<>> /\ stack'[t][1].pc = "interfaces"
        /\ stack'[t][1].klass = c /\ stack'[t][1].rest = Interfaces[c]
    BY <1>1, <1>2, <1>4, GotoTop DEF Labels
  <2>2. QED
    BY <1>4, <2>1, WholeList DEF TopMade, Ahead, Behind
<1>5. CASE Return(t, FALSE, TRUE)
  BY <1>1, <1>5, PopStep DEF Return
<1>6. CASE Base[c] # None /\ Call(t, "super_return", Frame("entry", Base[c], <<>>))
  BY <1>1, <1>2, <1>6, CallFree DEF Labels
<1>7. QED
  BY <1>1, <1>3, <1>4, <1>5, <1>6 DEF InitializeClass

LEMMA SuperReturnsTop ==
  ASSUME Types, Nested, Calm, Progress, NEW t \in Threads, SuperReturns(t)
  PROVE  TopMade(t)
<1> DEFINE c == stack[t][1].klass
<1>1. /\ stack[t] # <<>> /\ stack[t][1].pc = "super_return" /\ Klass(t) = c /\ c \in Classes /\ Ready(t)
  BY Heads DEF SuperReturns, Labels
<1>2. Interfaces[c] \in Seq(Classes)
  BY <1>1, Lists
<1>3. /\ stack'[t] # <<>> /\ stack'[t][1].pc = "interfaces"
      /\ stack'[t][1].klass = c /\ stack'[t][1].rest = Interfaces[c]
  BY <1>1, <1>2, GotoTop DEF SuperReturns, Labels
<1>4. Done(state_, Base[c]) /\ state_' = state_
  BY <1>1, TopHeld DEF Reported, SuperReturns, Ready, classVars
<1>5. QED
  BY <1>3, <1>4, WholeList DEF TopMade, Ahead, Behind

\* The loop over the interfaces goes on behind one that is done.
LEMMA NextInTheLoop ==
  ASSUME Types, Progress, NEW t \in Threads, stack[t] # <<>>,
         stack[t][1].pc \in {"interfaces", "interface_return"}, stack[t][1].rest # <<>>,
         Head(stack[t][1].rest) \in WithDefaults => Done(state_, Head(stack[t][1].rest)),
         Goto(t, "interfaces", Tail(stack[t][1].rest)), state_' = state_
  PROVE  TopMade(t)
<1> DEFINE c == stack[t][1].klass  r == stack[t][1].rest
<1>1. r \in Seq(Classes) /\ c \in Classes
  BY HeadFacts
<1>2. Tail(r) \in Seq(Classes)
  BY <1>1, Rests
<1>3. /\ stack'[t] # <<>> /\ stack'[t][1].pc = "interfaces"
      /\ stack'[t][1].klass = c /\ stack'[t][1].rest = Tail(r)
  BY GotoTail DEF Labels
<1>4. Ahead(stack[t][1]) /\ Behind(state_, stack[t][1])
  BY TopHeld
<1>5. \A i \in DOMAIN r : Member(r[i], Interfaces[c])
  BY <1>4 DEF Ahead
<1>6. /\ \A i \in DOMAIN Tail(r) : Member(Tail(r)[i], Interfaces[c])
      /\ \A x : Member(x, r) => x = Head(r) \/ Member(x, Tail(r))
  BY <1>1, <1>5, RestOf
<1>7. /\ Base[c] # None => Done(state_, Base[c])
      /\ \A m \in DOMAIN Interfaces[c] :
            Interfaces[c][m] \in WithDefaults =>
              Done(state_, Interfaces[c][m]) \/ Member(Interfaces[c][m], r)
  BY <1>4 DEF Behind
<1>8. Head(r) \in WithDefaults => Done(state_, Head(r))
  OBVIOUS
<1> HIDE DEF c, r
<1>9. Ahead(stack'[t][1])
  BY <1>3, <1>6 DEF Ahead
<1>10. Behind(state_', stack'[t][1])
  BY <1>3, <1>6, <1>7, <1>8 DEF Behind
<1>11. QED
  BY <1>3, <1>9, <1>10 DEF TopMade

LEMMA NextInterfaceTop ==
  ASSUME Types, Nested, Calm, Progress, NEW t \in Threads, NextInterface(t)
  PROVE  TopMade(t)
<1> DEFINE c == stack[t][1].klass  r == stack[t][1].rest
<1>1. /\ stack[t] # <<>> /\ stack[t][1].pc = "interfaces" /\ Klass(t) = c /\ c \in Classes
      /\ Rest(t) = r /\ r \in Seq(Classes)
  BY Heads DEF NextInterface, Labels
<1>2. Uses[c] \in Seq(Classes) /\ state_' = state_
  BY <1>1, Lists DEF NextInterface, classVars
<1>3. CASE r = <<>> /\ Goto(t, "cctor", Uses[c])
  <2>1. /\ stack'[t] # <<>> /\ stack'[t][1].pc = "cctor"
        /\ stack'[t][1].klass = c /\ stack'[t][1].rest = Uses[c]
    BY <1>1, <1>2, <1>3, GotoTop DEF Labels
  <2>2. Behind(state_, stack[t][1])
    BY <1>1, TopHeld
  <2>3. \A x : ~Member(x, r)
    BY <1>3 DEF Member
  <2>4. \A s \in Supers(c) : Done(state_, s)
    <3>1. /\ Base[c] # None => Done(state_, Base[c])
          /\ \A m \in DOMAIN Interfaces[c] :
               Interfaces[c][m] \in WithDefaults => Done(state_, Interfaces[c][m])
      BY <1>1, <2>2, <2>3 DEF Behind
    <3> HIDE DEF c
    <3>2. QED
      BY <3>1 DEF Supers
  <2>5. QED
    BY <1>2, <2>1, <2>4, WholeList DEF TopMade, Ahead, Behind
<1>4. CASE r # <<>> /\ state_[Head(r)] = INITIALIZED /\ Goto(t, "interfaces", Tail(r))
  BY <1>1, <1>2, <1>4, NextInTheLoop DEF Done
<1>5. CASE r # <<>> /\ Call(t, "interface_return", Frame("iface", Head(r), <<>>))
  BY <1>1, <1>5, Rests, CallFree DEF Labels
<1>6. QED
  BY <1>1, <1>3, <1>4, <1>5 DEF NextInterface

LEMMA InterfaceReturnsTop ==
  ASSUME Types, Nested, Calm, Progress, NEW t \in Threads, InterfaceReturns(t)
  PROVE  TopMade(t)
<1> DEFINE r == stack[t][1].rest
<1>1. /\ stack[t] # <<>> /\ stack[t][1].pc = "interface_return" /\ Ready(t)
      /\ Rest(t) = r /\ WellMade(stack[t][1])
  BY Heads DEF InterfaceReturns, Labels
<1>2. r # <<>> /\ state_' = state_
  BY <1>1 DEF InterfaceReturns, classVars, WellMade, Calling
<1>3. Head(r) \in WithDefaults => Done(state_, Head(r))
  BY <1>1, TopHeld DEF Reported, InterfaceReturns, Ready
<1>4. QED
  BY <1>1, <1>2, <1>3, NextInTheLoop DEF InterfaceReturns

\* The same for the superinterfaces, where nothing is kept of what is done.
LEMMA NextSuperInTheLoop ==
  ASSUME Types, Progress, NEW t \in Threads, stack[t] # <<>>,
         stack[t][1].pc \in {"superinterfaces", "superinterface_return"}, stack[t][1].rest # <<>>,
         Goto(t, "superinterfaces", Tail(stack[t][1].rest))
  PROVE  TopMade(t)
<1> DEFINE c == stack[t][1].klass  r == stack[t][1].rest
<1>1. r \in Seq(Classes) /\ c \in Classes
  BY HeadFacts
<1>2. Tail(r) \in Seq(Classes)
  BY <1>1, Rests
<1>3. /\ stack'[t] # <<>> /\ stack'[t][1].pc = "superinterfaces"
      /\ stack'[t][1].klass = c /\ stack'[t][1].rest = Tail(r)
  BY GotoTail DEF Labels
<1>4. \A i \in DOMAIN r : Member(r[i], Interfaces[c])
  BY TopHeld DEF Ahead
<1>5. \A i \in DOMAIN Tail(r) : Member(Tail(r)[i], Interfaces[c])
  BY <1>1, <1>4, RestOf
<1>6. QED
  BY <1>3, <1>5 DEF TopMade, Ahead, Behind

LEMMA InitializeInterfaceTop ==
  ASSUME Types, Nested, Calm, Progress, NEW t \in Threads, InitializeInterface(t)
  PROVE  Drop(t) \/ TopMade(t)
<1> DEFINE c == stack[t][1].klass
<1>1. /\ stack[t] # <<>> /\ Klass(t) = c /\ c \in Classes
  BY Heads DEF InitializeInterface, Labels
<1>2. Interfaces[c] \in Seq(Classes)
  BY <1>1, Lists
<1>3. CASE Goto(t, "superinterfaces", Interfaces[c])
  <2>1. /\ stack'[t] # <<>> /\ stack'[t][1].pc = "superinterfaces"
        /\ stack'[t][1].klass = c /\ stack'[t][1].rest = Interfaces[c]
    BY <1>1, <1>2, <1>3, GotoTop DEF Labels
  <2>2. QED
    BY <2>1, WholeList DEF TopMade, Ahead, Behind
<1>4. CASE Return(t, FALSE, TRUE)
  BY <1>1, <1>4, PopStep DEF Return
<1>5. QED
  BY <1>1, <1>3, <1>4 DEF InitializeInterface

LEMMA NextSuperinterfaceTop ==
  ASSUME Types, Nested, Calm, Progress, NEW t \in Threads, NextSuperinterface(t)
  PROVE  Drop(t) \/ TopMade(t)
<1> DEFINE r == stack[t][1].rest
<1>1. /\ stack[t] # <<>> /\ stack[t][1].pc = "superinterfaces" /\ Rest(t) = r /\ r \in Seq(Classes)
  BY Heads DEF NextSuperinterface, Labels
<1>2. CASE r # <<>> /\ Goto(t, "superinterfaces", Tail(r))
  BY <1>1, <1>2, NextSuperInTheLoop
<1>3. CASE r # <<>> /\ Call(t, "superinterface_return", Frame("iface", Head(r), <<>>))
  BY <1>1, <1>3, Rests, CallFree DEF Labels
<1>4. CASE Return(t, TRUE, exception[t])
  BY <1>1, <1>4, PopStep DEF Return
<1>5. CASE Goto(t, "entry", <<>>)
  BY <1>1, <1>5, GotoFree DEF Labels, Listing
<1>6. QED
  BY <1>1, <1>2, <1>3, <1>4, <1>5 DEF NextSuperinterface

LEMMA SuperinterfaceReturnsTop ==
  ASSUME Types, Nested, Calm, Progress, NEW t \in Threads, SuperinterfaceReturns(t)
  PROVE  Drop(t) \/ TopMade(t)
<1> DEFINE r == stack[t][1].rest
<1>1. /\ stack[t] # <<>> /\ stack[t][1].pc = "superinterface_return" /\ Rest(t) = r
      /\ WellMade(stack[t][1])
  BY Heads DEF SuperinterfaceReturns, Labels
<1>2. CASE Goto(t, "superinterfaces", Tail(r))
  BY <1>1, <1>2, NextSuperInTheLoop DEF WellMade, Calling
<1>3. CASE Return(t, FALSE, exception[t])
  BY <1>1, <1>3, PopStep DEF Return
<1>4. QED
  BY <1>1, <1>2, <1>3 DEF SuperinterfaceReturns

LEMMA CctorTop ==
  ASSUME Types, Nested, Calm, Progress, NEW t \in Threads, Cctor(t)
  PROVE  TopMade(t)
<1> DEFINE c == stack[t][1].klass  r == stack[t][1].rest
<1>1. /\ stack[t] # <<>> /\ stack[t][1].pc = "cctor" /\ Rest(t) = r /\ r \in Seq(Classes)
  BY Heads DEF Cctor, Labels
<1>2. CASE r # <<>> /\ Call(t, "cctor_return", Frame("entry", Head(r), <<>>))
  BY <1>1, <1>2, Rests, CallFree DEF Labels
<1>3. CASE Goto(t, "finish", <<>>)
  <2>1. stack'[t] # <<>> /\ stack'[t][1].pc = "finish" /\ stack'[t][1].klass = c
    BY <1>1, <1>3, GotoTopEmpty DEF Labels
  <2>2. \A s \in Supers(c) : Done(state_, s)
    BY <1>1, TopHeld DEF Behind
  <2>3. state_' = state_
    BY DEF Cctor, classVars
  <2>4. QED
    BY <2>1, <2>2, <2>3 DEF TopMade, Ahead, Behind
<1>4. QED
  BY <1>1, <1>2, <1>3 DEF Cctor

LEMMA CctorReturnsTop ==
  ASSUME Types, Nested, Calm, Progress, NEW t \in Threads, CctorReturns(t)
  PROVE  TopMade(t)
<1> DEFINE c == stack[t][1].klass  r == stack[t][1].rest
<1>1. /\ stack[t] # <<>> /\ stack[t][1].pc = "cctor_return" /\ Rest(t) = r /\ r \in Seq(Classes)
      /\ WellMade(stack[t][1])
  BY Heads DEF CctorReturns, Labels
<1>2. r # <<>> /\ state_' = state_
  BY <1>1 DEF WellMade, Calling, CctorReturns, classVars
<1>3. /\ stack'[t] # <<>> /\ stack'[t][1].pc = "cctor"
      /\ stack'[t][1].klass = c /\ stack'[t][1].rest = Tail(r)
  BY <1>1, <1>2, GotoTail DEF CctorReturns, Labels
<1>4. /\ \A s \in Supers(c) : Done(state_, s)
      /\ \A i \in DOMAIN r : Member(r[i], Uses[c])
  BY <1>1, TopHeld DEF Behind, Ahead
<1>5. \A i \in DOMAIN Tail(r) : Member(Tail(r)[i], Uses[c])
  BY <1>1, <1>2, <1>4, RestOf
<1>6. QED
  BY <1>2, <1>3, <1>4, <1>5 DEF TopMade, Ahead, Behind

LEMMA OtherTops ==
  ASSUME Types, Nested, Calm, NEW t \in Threads,
         \/ Entry(t) \/ Already(t) \/ VerifyFails(t) \/ Begin(t) \/ Wakeup(t) \/ WaitTerminated(t)
         \/ WaitInitialization(t) \/ Fail(t) \/ Finish(t) \/ Safepoint(t)
  PROVE  Drop(t) \/ TopMade(t)
<1>0. \E l : At(t, l)
  BY DEF Entry, Already, VerifyFails, Begin, Wakeup, WaitTerminated, WaitInitialization,
         Fail, Finish, Safepoint
<1>1. stack[t] # <<>> /\ Klass(t) \in Classes
  BY <1>0, AtFacts, HeadFacts
<1>2. \A r, e : Return(t, r, e) => Drop(t)
  BY <1>1, PopStep DEF Return
<1>3. \A l \in {"lock", "wait", "super", "woken", "dead"} : Goto(t, l, <<>>) => TopMade(t)
  BY <1>1, GotoFree DEF Labels, Listing
<1>4. \A c \in Classes : NotifyAll(t, c) => Drop(t)
  BY <1>1, NotifyStep
<1>5. CASE Fail(t) \/ Finish(t)
  BY <1>1, <1>4, <1>5 DEF Fail, Finish
<1>6. CASE Entry(t) \/ Already(t) \/ VerifyFails(t) \/ Begin(t)
  BY <1>2, <1>3, <1>6 DEF Entry, Already, VerifyFails, Begin
<1>7. CASE Wakeup(t) \/ WaitTerminated(t) \/ Safepoint(t)
  BY <1>2, <1>3, <1>7 DEF Wakeup, WaitTerminated, Safepoint
<1>8. CASE WaitInitialization(t)
  BY <1>2, <1>3, <1>8 DEF WaitInitialization
<1>9. QED
  BY <1>5, <1>6, <1>7, <1>8

\* A step leaves a head that is as far as its label says.
LEMMA StepTop ==
  ASSUME Types, Nested, Calm, Progress, NEW t \in Threads, Step(t) \/ Safepoint(t)
  PROVE  Drop(t) \/ TopMade(t)
BY OtherTops, InitializeClassTop, SuperReturnsTop, NextInterfaceTop, InterfaceReturnsTop,
   InitializeInterfaceTop, NextSuperinterfaceTop, SuperinterfaceReturnsTop, CctorTop,
   CctorReturnsTop DEF Step

\* A call is for a class of a lower layer.
LEMMA CallsGoUp ==
  ASSUME NEW rank \in [Classes -> Nat], Layered(rank), NEW f \in Frames, NEW g \in Frames,
         WellMade(g), Awaits(g, f), Ahead(g)
  PROVE  rank[f.klass] < rank[g.klass] /\ (g.pc = "super_return" => ~BadBase(f.klass))
<1>1. g.klass \in Classes /\ g.rest \in Seq(Classes)
  BY FrameFields
<1>2. CASE g.pc = "super_return"
  <2>1. f.klass = Base[g.klass] /\ Base[g.klass] # None
    BY <1>2 DEF Awaits, WellMade
  <2>2. QED
    BY <1>1, <2>1 DEF Layered
<1>3. CASE g.pc # "super_return"
  <2>1. f.klass = Head(g.rest) /\ g.rest # <<>> /\ g.pc \in Calling
    BY <1>3 DEF Awaits, WellMade
  <2>2. 1 \in DOMAIN g.rest /\ Head(g.rest) = g.rest[1]
    BY <1>1, <2>1, DropShape
  <2>3. CASE g.pc \in {"interface_return", "superinterface_return"}
    <3>1. PICK i \in DOMAIN Interfaces[g.klass] : Interfaces[g.klass][i] = f.klass
      BY <2>1, <2>2, <2>3 DEF Ahead, Member
    <3>2. QED
      BY <1>1, <1>3, <3>1 DEF Layered
  <2>4. CASE g.pc = "cctor_return"
    <3>1. PICK i \in DOMAIN Uses[g.klass] : Uses[g.klass][i] = f.klass
      BY <2>1, <2>2, <2>4 DEF Ahead, Member
    <3>2. QED
      BY <1>1, <1>3, <3>1 DEF Layered
  <2>5. QED
    BY <1>3, <2>1, <2>3, <2>4 DEF Calling
<1>4. QED
  BY <1>2, <1>3

\* The frame that makes a call is as far as before.
LEMMA CallerMade ==
  ASSUME NEW o, NEW g, NEW st, Calls(o.pc, g.pc), g.rest = o.rest, g.klass = o.klass, Ahead(o), Behind(st, o)
  PROVE  Ahead(g) /\ Behind(st, g)
BY DEF Calls, Ahead, Behind

OrderedIn(rank, t) ==
  \A j \in DOMAIN stack[t], k \in DOMAIN stack[t] :
    j < k => rank[stack[t][j].klass] < rank[stack[t][k].klass]
FramesIn(t) == \A k \in DOMAIN stack[t] : Ahead(stack[t][k]) /\ Behind(state_, stack[t][k])

\* Another head for the same class.
LEMMA ReplaceProgress ==
  ASSUME Types, NEW t \in Threads, Move(t), NEW u \in Threads, FramesIn(u),
         NEW rank \in [Classes -> Nat], OrderedIn(rank, u),
         NEW f, Replace(u, f), TopMade(u)
  PROVE  OrderedIn(rank, u)' /\ FramesIn(u)'
<1> DEFINE s == stack[u]  z == stack'[u]
<1>1. s \in Seq(Frames) /\ s # <<>> /\ f \in Frames /\ z = [s EXCEPT ![1] = f] /\ f.klass = s[1].klass
  BY DEF Types, Replace, Refit
<1>2. /\ DOMAIN z = DOMAIN s /\ z[1] = f /\ 1 \in DOMAIN s
      /\ \A k \in DOMAIN s : k # 1 => z[k] = s[k]
  BY <1>1, ReplaceShape
<1>3. \A k \in DOMAIN s : s[k] \in Frames
  BY <1>1, ElementOfSeq, LenProperties
<1>4. \A k \in DOMAIN s : Ahead(s[k]) /\ Behind(state_, s[k])
  BY DEF FramesIn
<1>5. \A j \in DOMAIN s, k \in DOMAIN s : j < k => rank[s[j].klass] < rank[s[k].klass]
  BY DEF OrderedIn
<1>6. Ahead(z[1]) /\ Behind(state_', z[1])
  BY DEF TopMade
<1> HIDE DEF s, z
<1>7. \A k \in DOMAIN z : z[k].klass = s[k].klass
  BY <1>1, <1>2
<1>8. \A j \in DOMAIN z, k \in DOMAIN z : j < k => rank[z[j].klass] < rank[z[k].klass]
  BY <1>2, <1>5, <1>7
<1>9. \A k \in DOMAIN z : Ahead(z[k]) /\ Behind(state_', z[k])
  <2>1. \A g \in Frames : Behind(state_, g) => Behind(state_', g)
    BY BehindKept
  <2>2. QED
    BY <1>2, <1>3, <1>4, <1>6, <2>1
<1>10. QED
  BY <1>8, <1>9 DEF OrderedIn, FramesIn, z

\* A call that is made.
LEMMA PushProgress ==
  ASSUME Types, NEW t \in Threads, Move(t), Nested, FramesIn(t),
         NEW rank \in [Classes -> Nat], Layered(rank), OrderedIn(rank, t), Enter(t), TopMade(t)
  PROVE  OrderedIn(rank, t)' /\ FramesIn(t)'
<1> DEFINE s == stack[t]  z == stack'[t]
<1>0. PICK f, g : /\ Push(t, g, f) /\ g.rest = s[1].rest /\ Calls(s[1].pc, g.pc) /\ Untouched
  BY DEF Enter
<1>1. /\ s \in Seq(Frames) /\ s # <<>> /\ f \in Frames /\ g \in Frames /\ z = <<f, g>> \o Tail(s)
      /\ g.klass = s[1].klass /\ WellMade(g) /\ Awaits(g, f)
  BY <1>0 DEF Types, Push, Refit
<1>2. /\ \A k : k \in DOMAIN z <=> (k = 1 \/ (k \in Nat /\ k - 1 \in DOMAIN s))
      /\ 1 \in DOMAIN s /\ z[1] = f /\ z[2] = g
      /\ \A k \in DOMAIN s : k # 1 => z[k + 1] = s[k]
  <2> HIDE DEF s, z
  <2> DEFINE w == <<f, g>> \o Tail(s)
  <2>1. /\ \A k : k \in DOMAIN w <=> (k = 1 \/ (k \in Nat /\ k - 1 \in DOMAIN s))
        /\ 1 \in DOMAIN s /\ w[1] = f /\ w[2] = g
        /\ \A k \in DOMAIN s : k # 1 => w[k + 1] = s[k]
    BY <1>1, PushShape
  <2> HIDE DEF w
  <2>2. z = w
    BY <1>1 DEF w
  <2>3. QED
    BY <2>1, <2>2
<1>3. /\ \A k \in DOMAIN s : s[k] \in Frames
      /\ DOMAIN s = 1 .. Len(s) /\ Len(s) \in Nat
  BY <1>1, ElementOfSeq, LenProperties
<1>4. \A k \in DOMAIN s : Ahead(s[k]) /\ Behind(state_, s[k])
  BY DEF FramesIn
<1>5. \A j \in DOMAIN s, k \in DOMAIN s : j < k => rank[s[j].klass] < rank[s[k].klass]
  BY DEF OrderedIn
<1>6. Ahead(z[1]) /\ Behind(state_', z[1]) /\ state_' = state_
  BY <1>0 DEF TopMade, Untouched, classVars
<1> HIDE DEF s, z
<1>7. Ahead(g) /\ Behind(state_, g)
  BY ZenonT(30), <1>0, <1>1, <1>2, <1>4, CallerMade DEF s
<1>8. rank[f.klass] < rank[g.klass]
  BY <1>1, <1>7, CallsGoUp
<1>9. ASSUME NEW k \in DOMAIN z
      PROVE  \/ k = 1 /\ z[k] = f
             \/ /\ k \in Nat /\ k > 1 /\ k - 1 \in DOMAIN s /\ z[k].klass = s[k - 1].klass
                /\ z[k] = g \/ z[k] = s[k - 1]
  <2>1. CASE k = 1
    BY <2>1, <1>2
  <2>2. CASE k # 1
    <3>1. k \in Nat /\ k - 1 \in DOMAIN s /\ k = (k - 1) + 1 /\ k > 1
      BY <2>2, <1>2, <1>3
    <3>2. CASE k = 2
      <4>1. k - 1 = 1
        BY <3>2
      <4>2. QED
        BY <3>1, <3>2, <4>1, <1>1, <1>2
    <3>3. CASE k # 2
      <4>1. k - 1 # 1
        BY <3>1, <3>3
      <4>2. z[k] = s[k - 1]
        BY <3>1, <4>1, <1>2
      <4>3. QED
        BY <3>1, <4>2
    <3>4. QED
      BY <3>2, <3>3
  <2>3. QED
    BY <2>1, <2>2
<1>10. \A k \in DOMAIN z : Ahead(z[k]) /\ Behind(state_', z[k])
  BY <1>2, <1>4, <1>6, <1>7, <1>9
<1>11. ASSUME NEW j \in DOMAIN z, NEW k \in DOMAIN z, j < k
       PROVE  rank[z[j].klass] < rank[z[k].klass]
  <2>1. j \in Nat /\ k \in Nat
    BY <1>9
  <2>2. k # 1
    <3>0. j = 1 \/ j > 1
      BY <1>9
    <3>1. j >= 1
      BY <2>1, <3>0
    <3>2. QED
      BY <2>1, <3>1, <1>11
  <2>3. k - 1 \in DOMAIN s /\ z[k].klass = s[k - 1].klass /\ k > 1
    BY <2>2, <1>9
  <2>4. CASE j # 1
    <3>1. j - 1 \in DOMAIN s /\ z[j].klass = s[j - 1].klass
      BY <2>4, <1>9
    <3>2. j - 1 < k - 1
      BY <2>1, <1>11
    <3>3. QED
      BY <2>3, <3>1, <3>2, <1>5
  <2>5. CASE j = 1
    <3>1. z[j] = f /\ rank[f.klass] < rank[s[1].klass]
      BY <2>5, <1>1, <1>2, <1>8
    <3>2. CASE k - 1 = 1
      BY <2>3, <3>1, <3>2
    <3>3. CASE k - 1 # 1
      <4>0. k \in Nat /\ k > 1 /\ k - 1 # 1
        BY <2>1, <2>3, <3>3
      <4>1. 1 < k - 1
        BY <4>0
      <4>2. rank[s[1].klass] < rank[s[k - 1].klass]
        BY <2>3, <4>1, <1>2, <1>5
      <4>3. f.klass \in Classes /\ s[1].klass \in Classes /\ s[k - 1].klass \in Classes
        BY <2>3, <1>1, <1>2, <1>3, FrameFields
      <4>4. rank[f.klass] \in Nat /\ rank[s[1].klass] \in Nat /\ rank[s[k - 1].klass] \in Nat
        BY <4>3
      <4>5. rank[f.klass] < rank[s[k - 1].klass]
        BY <3>1, <4>2, <4>4
      <4>6. QED
        BY <2>3, <3>1, <4>5
    <3>4. QED
      BY <3>2, <3>3
  <2>6. QED
    BY <2>4, <2>5
<1>12. QED
  BY <1>10, <1>11 DEF OrderedIn, FramesIn, z

\* A call that returns.
LEMMA DropProgress ==
  ASSUME Types, NEW t \in Threads, Move(t), FramesIn(t),
         NEW rank \in [Classes -> Nat], OrderedIn(rank, t), Drop(t)
  PROVE  OrderedIn(rank, t)' /\ FramesIn(t)'
<1> DEFINE s == stack[t]  z == stack'[t]
<1>1. s \in Seq(Frames) /\ s # <<>> /\ z = Tail(s)
  BY DEF Types, Drop
<1>2. /\ \A k : k \in DOMAIN z <=> (k \in Nat /\ k # 0 /\ k + 1 \in DOMAIN s)
      /\ \A k \in DOMAIN z : k + 1 \in DOMAIN s /\ z[k] = s[k + 1]
  BY <1>1, DropShape
<1>3. \A k \in DOMAIN s : s[k] \in Frames
  BY <1>1, ElementOfSeq, LenProperties
<1>4. \A k \in DOMAIN s : Ahead(s[k]) /\ Behind(state_, s[k])
  BY DEF FramesIn
<1>5. \A j \in DOMAIN s, k \in DOMAIN s : j < k => rank[s[j].klass] < rank[s[k].klass]
  BY DEF OrderedIn
<1> HIDE DEF s, z
<1>6. ASSUME NEW j \in DOMAIN z, NEW k \in DOMAIN z, j < k
      PROVE  rank[z[j].klass] < rank[z[k].klass]
  <2>1. j + 1 \in DOMAIN s /\ k + 1 \in DOMAIN s /\ z[j] = s[j + 1] /\ z[k] = s[k + 1]
    BY <1>2
  <2>2. j + 1 < k + 1
    BY <1>2, <1>6
  <2>3. QED
    BY <2>1, <2>2, <1>5
<1>7. \A k \in DOMAIN z : Ahead(z[k]) /\ Behind(state_', z[k])
  <2>1. \A g \in Frames : Behind(state_, g) => Behind(state_', g)
    BY BehindKept
  <2>2. QED
    BY <1>2, <1>3, <1>4, <2>1
<1>8. QED
  BY <1>6, <1>7 DEF OrderedIn, FramesIn, z

\* The frames of all threads after a step.
LEMMA MoveProgress ==
  ASSUME Types, Nested, NEW t \in Threads, Move(t), Drop(t) \/ TopMade(t), NEW u \in Threads, FramesIn(u),
         NEW rank \in [Classes -> Nat], Layered(rank), OrderedIn(rank, u)
  PROVE  OrderedIn(rank, u)' /\ FramesIn(u)'
<1>1. CASE u = t
  <2>1. CASE Drop(t)
    BY <1>1, <2>1, DropProgress
  <2>2. CASE TopMade(t) /\ ~Drop(t)
    <3>1. CASE Enter(t)
      BY <1>1, <2>2, <3>1, PushProgress
    <3>2. CASE \E f : Replace(t, f)
      BY <1>1, <2>2, <3>2, ReplaceProgress
    <3>3. QED
      BY <2>2, <3>1, <3>2 DEF Move, Kind, Continue, Leave, Claim, Verify, Kill, Settle, Die
  <2>3. QED
    BY <2>1, <2>2
<1>2. CASE u # t
  <2>1. Notified(u)
    BY <1>2 DEF Move, Kind, Continue, Enter, Leave, Claim, Verify, Kill, Settle, Die, Others, Notified
  <2>2. CASE Same(u)
    <3>1. stack[u] \in Seq(Frames)
      BY DEF Types
    <3>2. \A k \in DOMAIN stack[u] : stack[u][k] \in Frames
      BY <3>1, ElementOfSeq, LenProperties
    <3>3. \A g \in Frames : Behind(state_, g) => Behind(state_', g)
      BY BehindKept
    <3>4. QED
      BY <2>2, <3>2, <3>3 DEF Same, OrderedIn, FramesIn
  <2>3. CASE ~Same(u)
    <3> DEFINE f == Frame("notified", stack[u][1].klass, <<>>)
    <3>1. Replace(u, f)
      BY <2>1, <2>3 DEF Notified
    <3>2. f.pc = "notified"
      BY DEF Frame
    <3> HIDE DEF f
    <3>3. stack'[u] # <<>> /\ stack'[u][1] = f
      <4>1. stack[u] \in Seq(Frames) /\ stack[u] # <<>> /\ f \in Frames /\ stack'[u] = [stack[u] EXCEPT ![1] = f]
        BY <3>1 DEF Types, Replace, Refit
      <4>2. QED
        BY <4>1, ReplaceShape
    <3>4. TopMade(u)
      BY <3>2, <3>3, TopFree DEF Listing
    <3>5. QED
      BY <3>1, <3>4, ReplaceProgress
  <2>4. QED
    BY <2>2, <2>3
<1>3. QED
  BY <1>1, <1>2

\* A step that returns neither goes on nor makes a call.
LEMMA NoGoto ==
  ASSUME Types, NEW t \in Threads, Drop(t), NEW l, NEW r, Goto(t, l, r)
  PROVE  FALSE
<1>1. stack \in [Threads -> Seq(Frames)] /\ stack[t] \in Seq(Frames) /\ stack[t] # <<>>
  BY DEF Types, Drop
<1>2. DOMAIN stack'[t] = DOMAIN stack[t]
  BY <1>1 DEF Goto
<1>3. /\ stack'[t] \in Seq(Frames) /\ Len(stack'[t]) = Len(stack[t]) - 1
  BY <1>1, DropShape DEF Drop
<1>4. /\ DOMAIN stack[t] = 1 .. Len(stack[t]) /\ Len(stack[t]) \in Nat
      /\ DOMAIN stack'[t] = 1 .. Len(stack'[t]) /\ Len(stack'[t]) \in Nat
      /\ 1 \in DOMAIN stack[t]
  BY <1>1, <1>3, LenProperties, DropShape
<1>5. Len(stack[t]) \in DOMAIN stack[t] /\ Len(stack[t]) \notin DOMAIN stack'[t]
  BY <1>3, <1>4
<1>6. QED
  BY <1>2, <1>5

LEMMA NoCall ==
  ASSUME Types, NEW t \in Threads, Drop(t), NEW l \in Labels,
         NEW p \in {"entry", "iface"}, NEW b \in Classes, Call(t, l, Frame(p, b, <<>>))
  PROVE  FALSE
<1> DEFINE f == Frame(p, b, <<>>)
<1>1. stack[t] \in Seq(Frames) /\ stack[t] # <<>>
  BY DEF Types, Drop
<1>2. f \in Frames /\ Call(t, l, f)
  BY NewFrame DEF Labels
<1> HIDE DEF f
<1>3. PICK g \in Frames : Called(t, l, f, g)
  BY <1>1, <1>2, CallStep
<1> DEFINE w == <<f, g>> \o Tail(stack[t])
<1>4. Len(w) = Len(stack[t]) + 1
  BY <1>1, <1>2, <1>3, PushShape
<1>5. stack'[t] = w
  BY <1>3 DEF Called
<1> HIDE DEF w
<1>6. Len(stack'[t]) = Len(stack[t]) - 1 /\ Len(stack[t]) \in Nat
  BY <1>1, DropShape, LenProperties DEF Drop
<1>7. QED
  BY <1>4, <1>5, <1>6

\* A call that says TRUE, when the process goes on, is for a class that is
\* INITIALIZED, for an interface without default methods, or for a class with
\* a bad superclass.
LEMMA PopReports ==
  ASSUME IInv, NEW t \in Threads, NEW rank \in [Classes -> Nat], OrderedIn(rank, t),
         Step(t) \/ Safepoint(t), Drop(t), ret'[t], ~aborted'
  PROVE  \/ Done(state_', stack[t][1].klass)
         \/ stack[t][1].pc = "superinterfaces" /\ stack[t][1].klass \notin WithDefaults
         \/ stack[t][1].pc = "lock" /\ BadBase(stack[t][1].klass)
<1>1. Types /\ Nested /\ Calm /\ Owned /\ Left
  BY DEF IInv
<1>2. Move(t)
  BY <1>1, StepMoves
<1> DEFINE c == stack[t][1].klass
<1>3. /\ stack[t] # <<>> /\ c \in Classes /\ 1 \in DOMAIN stack[t]
      /\ Klass(t) = c /\ Rest(t) = stack[t][1].rest /\ ~aborted
      /\ stack[t][1].rest \in Seq(Classes)
  BY <1>1, <1>2, HeadFacts DEF Move, Ready
<1>4. ret \in [Threads -> BOOLEAN]
  BY <1>1 DEF Types
<1>5. \A r, e : Result(t, r, e) => r
  BY <1>4 DEF Result
<1>6. \A r, e : Return(t, r, e) => r
  BY <1>5 DEF Return
<1>7. \A l : At(t, l) => stack[t][1].pc = l
  BY <1>1, AtFacts
<1>8. \A l, r : ~Goto(t, l, r)
  BY <1>1, NoGoto
<1>9. ~Call(t, "superinterface_return", Frame("iface", Head(Rest(t)), <<>>)) \/ Rest(t) = <<>>
  BY <1>1, <1>3, Rests, NoCall DEF Labels
<1>10. ~Call(t, "interface_return", Frame("iface", Head(Rest(t)), <<>>)) \/ Rest(t) = <<>>
  BY <1>1, <1>3, Rests, NoCall DEF Labels
<1>11. ~Call(t, "cctor_return", Frame("entry", Head(Rest(t)), <<>>)) \/ Rest(t) = <<>>
  BY <1>1, <1>3, Rests, NoCall DEF Labels
<1>12. CASE Entry(t)
  <2>1. state_' = state_
    BY <1>12 DEF Entry, classVars
  <2>2. QED
    BY <1>3, <1>8, <1>12, <2>1 DEF Entry, Done
<1>13. CASE Already(t)
  <2>1. stack[t][1].pc = "lock" /\ state_' = state_
    BY <1>7, <1>13 DEF Already, classVars
  <2>2. CASE state_[c] = INITIALIZED
    BY <2>1, <2>2 DEF Done
  <2>3. CASE state_[c] = INITIALIZING /\ initTid_[c] = t
    <3>1. BadBase(c) \/ Dead(t) \/ \E k \in DOMAIN stack[t] : Works(t, k, c)
      BY <1>1, <1>3, <2>3 DEF Left
    <3>2. ~Dead(t)
      BY <2>1 DEF Dead
    <3>3. ~ \E k \in DOMAIN stack[t] : Works(t, k, c)
      <4>1. SUFFICES ASSUME NEW k \in DOMAIN stack[t], Works(t, k, c) PROVE FALSE
        OBVIOUS
      <4>2. k # 1 /\ stack[t][k].klass = c
        BY <2>1, <4>1 DEF Works, AtWork
      <4>3. k \in Nat \ {0}
        BY <1>1, Positions
      <4>4. 1 < k
        BY <4>2, <4>3
      <4>5. rank[c] < rank[c]
        BY <1>3, <4>2, <4>4 DEF OrderedIn
      <4>6. rank[c] \in Nat
        BY <1>3
      <4>7. QED
        BY <4>5, <4>6
    <3>4. QED
      BY <2>1, <3>1, <3>2, <3>3
  <2>4. QED
    BY <1>3, <1>6, <1>8, <1>13, <2>1, <2>2, <2>3 DEF Already
<1>14. CASE WaitInitialization(t)
  <2>1. stack[t][1].pc = "woken"
    BY <1>7, <1>14 DEF WaitInitialization
  <2>2. exception[t] = FALSE
    BY <1>1, <1>3, <2>1, QuietHead DEF Quiet
  <2>3. state_[c] = INITIALIZED /\ state_' = state_
    BY <1>3, <1>6, <1>8, <1>14, <2>1, <2>2 DEF WaitInitialization
  <2>4. QED
    BY <2>3 DEF Done
<1>15. CASE Finish(t)
  <2>1. SetState(c, INITIALIZED)
    BY <1>3, <1>5, <1>15 DEF Finish
  <2>2. INITIALIZED \in LOADED .. INITIALIZED
    BY DEF LOADED, INITIALIZED
  <2>3. aborted' = FALSE /\ state_'[c] = INITIALIZED
    BY <1>1, <1>3, <2>1, <2>2, SetStateType
  <2>4. QED
    BY <2>3 DEF Done
<1>16. CASE NextSuperinterface(t)
  <2>1. stack[t][1].pc = "superinterfaces"
    BY <1>7, <1>16 DEF NextSuperinterface
  <2>2. c \notin WithDefaults
    BY <1>3, <1>8, <1>9, <1>16 DEF NextSuperinterface
  <2>3. QED
    BY <2>1, <2>2
<1>17. ~InitializeClass(t)
  <2>1. Base[c] # None => ~Call(t, "super_return", Frame("entry", Base[c], <<>>))
    BY <1>1, <1>3, Lists, NoCall DEF Labels
  <2>2. QED
    BY <1>3, <1>6, <1>8, <2>1 DEF InitializeClass
<1>18. ~VerifyFails(t) /\ ~WaitTerminated(t) /\ ~Fail(t) /\ ~InitializeInterface(t) /\ ~SuperinterfaceReturns(t)
  BY <1>5, <1>6, <1>8 DEF VerifyFails, WaitTerminated, Fail, InitializeInterface, SuperinterfaceReturns
<1>19. ~Begin(t) /\ ~Wakeup(t) /\ ~SuperReturns(t) /\ ~InterfaceReturns(t) /\ ~CctorReturns(t) /\ ~Safepoint(t)
  BY <1>8 DEF Begin, Wakeup, SuperReturns, InterfaceReturns, CctorReturns, Safepoint
<1>20. ~NextInterface(t) /\ ~Cctor(t)
  BY <1>8, <1>10, <1>11 DEF NextInterface, Cctor
<1>21. QED
  BY <1>12, <1>13, <1>14, <1>15, <1>16, <1>17, <1>18, <1>19, <1>20 DEF Step

LEMMA StepReported ==
  ASSUME IInv, NEW rank \in [Classes -> Nat], Layered(rank), RInv(rank),
         NEW t \in Threads, Step(t) \/ Safepoint(t), NEW u \in Threads
  PROVE  Reported(u)'
<1>1. Types /\ Nested /\ Calm /\ Progress /\ OrderedIn(rank, t)
  BY DEF IInv, RInv, Ordered, OrderedIn
<1>2. Move(t)
  BY <1>1, StepMoves
<1>3. SUFFICES ASSUME ~aborted', stack'[u] # <<>>, ret'[u]
               PROVE  /\ stack'[u][1].pc = "super_return" => Done(state_', Base[stack'[u][1].klass])
                      /\ stack'[u][1].pc = "interface_return" /\ Head(stack'[u][1].rest) \in WithDefaults =>
                           Done(state_', Head(stack'[u][1].rest))
  BY DEF Reported
<1>4. CASE u # t
  <2>1. Notified(u) /\ ret'[u] = ret[u] /\ ~aborted
    BY <1>2, <1>4 DEF Move, Ready, Values, Kind, Continue, Enter, Leave, Claim, Verify, Kill, Settle, Die, Others, Notified
  <2>2. CASE Same(u)
    <3>1. stack[u] # <<>> /\ stack'[u] = stack[u] /\ ret[u]
      BY <1>3, <2>1, <2>2 DEF Same
    <3>2. Reported(u)
      BY <1>1 DEF Progress
    <3>3. /\ stack[u][1] \in Frames /\ stack[u][1].klass \in Classes /\ stack[u][1].rest \in Seq(Classes)
          /\ 1 \in DOMAIN stack[u]
      BY <1>1, <3>1, HeadFacts
    <3>4. WellMade(stack[u][1])
      BY <1>1, <3>3 DEF Nested
    <3>5. CASE stack[u][1].pc = "super_return"
      <4>1. Base[stack[u][1].klass] \in Classes
        BY <3>3, <3>4, <3>5, Lists DEF WellMade
      <4>2. Done(state_, Base[stack[u][1].klass])
        BY <2>1, <3>1, <3>2, <3>5 DEF Reported
      <4>3. Done(state_', Base[stack[u][1].klass])
        BY <1>1, <1>2, <4>1, <4>2, DoneKept
      <4>4. QED
        BY <3>1, <3>5, <4>3
    <3>6. CASE stack[u][1].pc = "interface_return" /\ Head(stack[u][1].rest) \in WithDefaults
      <4>1. Head(stack[u][1].rest) \in Classes
        BY <3>3, <3>4, <3>6, Rests DEF WellMade, Calling
      <4>2. Done(state_, Head(stack[u][1].rest))
        BY <2>1, <3>1, <3>2, <3>6 DEF Reported
      <4>3. Done(state_', Head(stack[u][1].rest))
        BY <1>1, <1>2, <4>1, <4>2, DoneKept
      <4>4. QED
        BY <3>1, <3>6, <4>3
    <3>7. QED
      BY <3>1, <3>5, <3>6
  <2>3. CASE ~Same(u)
    <3> DEFINE f == Frame("notified", stack[u][1].klass, <<>>)
    <3>1. Replace(u, f)
      BY <2>1, <2>3 DEF Notified
    <3>2. f.pc = "notified"
      BY DEF Frame
    <3> HIDE DEF f
    <3>3. stack[u] \in Seq(Frames) /\ stack[u] # <<>> /\ f \in Frames /\ stack'[u] = [stack[u] EXCEPT ![1] = f]
      BY <1>1, <3>1 DEF Types, Replace, Refit
    <3>4. stack'[u][1] = f
      BY <3>3, ReplaceShape
    <3>5. QED
      BY <3>2, <3>4
  <2>4. QED
    BY <2>2, <2>3
<1>5. CASE u = t /\ Drop(t)
  <2> DEFINE c == stack[t][1].klass
  <2>1. Stack(t) /\ NestedIn(t)
    BY <1>1 DEF Types, Stack, Nested, NestedIn
  <2>2. /\ 2 \in DOMAIN stack[t] /\ stack'[t][1] = stack[t][2] /\ Awaits(stack[t][2], stack[t][1])
    BY <1>3, <1>5, <2>1, DropHead
  <2>3. \/ Done(state_', c)
        \/ stack[t][1].pc = "superinterfaces" /\ c \notin WithDefaults
        \/ stack[t][1].pc = "lock" /\ BadBase(c)
    BY <1>1, <1>3, <1>5, PopReports
  <2>4. /\ stack[t][2] \in Frames /\ stack[t][1] \in Frames /\ WellMade(stack[t][2]) /\ Ahead(stack[t][2])
    <3>1. stack[t] # <<>> /\ stack[t] \in Seq(Frames)
      BY <1>5, <2>1 DEF Drop, Stack
    <3>2. \A k \in DOMAIN stack[t] : stack[t][k] \in Frames
      BY <3>1, ElementOfSeq, LenProperties
    <3>3. 1 \in DOMAIN stack[t]
      BY <1>1, <3>1, HeadFacts
    <3>4. QED
      BY <1>1, <2>1, <2>2, <3>2, <3>3 DEF NestedIn, Progress
  <2>5. stack[t][2].pc = "super_return" => ~BadBase(c)
    BY <2>2, <2>4, CallsGoUp
  <2>6. CASE stack[t][2].pc = "super_return"
    <3>1. c = Base[stack[t][2].klass] /\ stack[t][1].pc # "superinterfaces"
      BY <2>2, <2>6 DEF Awaits, IfaceCalls
    <3>2. Done(state_', c)
      BY <2>3, <2>5, <2>6, <3>1
    <3>3. QED
      BY <1>5, <2>2, <2>6, <3>1, <3>2
  <2>7. CASE stack[t][2].pc = "interface_return" /\ Head(stack[t][2].rest) \in WithDefaults
    <3>1. c = Head(stack[t][2].rest) /\ (stack[t][1].pc = "lock" => c \in InterfaceClasses)
      BY <2>2, <2>7 DEF Awaits, IfaceCalls
    <3>2. Done(state_', c)
      BY <2>3, <2>7, <3>1 DEF BadBase
    <3>3. QED
      BY <1>5, <2>2, <2>7, <3>1, <3>2
  <2>8. QED
    BY <1>5, <2>2, <2>6, <2>7
<1>6. CASE u = t /\ ~Drop(t)
  <2>1. stack[t] \in Seq(Frames) /\ stack[t] # <<>>
    BY <1>1, <1>2 DEF Types, Move, Ready
  <2>2. ASSUME NEW f, Replace(t, f), f.pc \notin Calling PROVE stack'[t][1].pc \notin Calling
    <3>1. f \in Frames /\ stack'[t] = [stack[t] EXCEPT ![1] = f]
      BY <2>2 DEF Replace, Refit
    <3>2. stack'[t][1] = f
      BY <2>1, <3>1, ReplaceShape
    <3>3. QED
      BY <2>2, <3>2
  <2>3. ASSUME Enter(t) PROVE stack'[t][1].pc \notin Calling
    <3>1. PICK f, g : Push(t, g, f) /\ f.pc \in {"entry", "iface"}
      BY <2>3 DEF Enter
    <3>2. f \in Frames /\ g \in Frames /\ stack'[t] = <<f, g>> \o Tail(stack[t])
      BY <3>1 DEF Push, Refit
    <3> DEFINE w == <<f, g>> \o Tail(stack[t])
    <3>3. w[1] = f
      BY <2>1, <3>2, PushShape
    <3>4. stack'[t][1] = f
      <4>1. stack'[t] = w
        BY <3>2
      <4> HIDE DEF w
      <4>2. QED
        BY <3>3, <4>1
    <3>5. QED
      BY <3>1, <3>4 DEF Calling
  <2>4. stack'[t][1].pc \notin Calling
    BY <1>2, <1>6, <2>2, <2>3 DEF Move, Kind, Continue, Leave, Claim, Verify, Kill, Settle, Die, Calling
  <2>5. QED
    BY <1>6, <2>4 DEF Calling
<1>7. QED
  BY <1>4, <1>5, <1>6

\* A class becomes INITIALIZED at the end of its static constructor.
LEMMA StepSupers ==
  ASSUME Types, NEW t \in Threads, Move(t), Progress,
         NEW c \in Classes, Done(state_', c), NEW s \in Supers(c)
  PROVE  Done(state_', s)
<1>1. s \in Classes
  BY SupersAreClasses
<1> DEFINE d == stack[t][1].klass
<1>2. stack[t] # <<>> /\ d \in Classes /\ 1 \in DOMAIN stack[t]
  BY HeadFacts DEF Move, Ready
<1>3. SUFFICES Done(state_, s)
  BY <1>1, DoneKept
<1>4. CASE Done(state_, c)
  BY <1>4 DEF Progress
<1>5. CASE ~Done(state_, c)
  <2>1. c = d
    BY <1>5, MoveClasses DEF Done
  <2>2. state_ \in [Classes -> LOADED .. INITIALIZED]
    BY DEF Types
  <2>3. ~Untouched
    BY <1>5 DEF Done, Untouched, classVars
  <2>4. ~Claim(t) /\ ~Verify(t)
    BY <1>2, <2>1, <2>2 DEF Done, Claim, Verify, INITIALIZING, ERRONEOUS, INITIALIZED
  <2>5. \A e \in {ERRONEOUS} : ~SetState(c, e)
    <3>1. SUFFICES ASSUME SetState(c, ERRONEOUS) PROVE FALSE
      OBVIOUS
    <3>2. ERRONEOUS \in LOADED .. INITIALIZED
      BY DEF LOADED, ERRONEOUS, INITIALIZED
    <3>3. state_'[c] = ERRONEOUS \/ state_'[c] = state_[c]
      BY <3>1, <3>2, SetStateType
    <3>4. QED
      BY <1>5, <3>3 DEF Done, ERRONEOUS, INITIALIZED
  <2>6. stack[t][1].pc = "finish"
    BY <2>1, <2>3, <2>4, <2>5 DEF Move, Kind, Continue, Enter, Leave, Kill, Settle, Die
  <2>7. Behind(state_, stack[t][1])
    BY <1>2 DEF Progress
  <2>8. QED
    BY <2>1, <2>6, <2>7 DEF Behind
<1>6. QED
  BY <1>4, <1>5

LEMMA StepRInv ==
  ASSUME IInv, NEW rank \in [Classes -> Nat], Layered(rank), RInv(rank),
         NEW t \in Threads, Step(t) \/ Safepoint(t)
  PROVE  RInv(rank)'
<1>1. Types /\ Nested /\ Calm /\ Progress
  BY DEF IInv, RInv
<1>2. Move(t) /\ (Drop(t) \/ TopMade(t))
  BY <1>1, StepMoves, StepTop
<1>3. \A u \in Threads : FramesIn(u) /\ OrderedIn(rank, u)
  BY DEF RInv, Progress, FramesIn, Ordered, OrderedIn
<1>4. \A u \in Threads : OrderedIn(rank, u)' /\ FramesIn(u)'
  BY <1>1, <1>2, <1>3, MoveProgress
<1>5. \A u \in Threads : Reported(u)'
  BY StepReported
<1>6. \A c \in Classes : Done(state_', c) => \A s \in Supers(c) : Done(state_', s)
  BY <1>1, <1>2, StepSupers
<1>7. Ordered(rank)'
  BY <1>4 DEF Ordered, OrderedIn
<1>8. Progress'
  BY <1>4, <1>5, <1>6 DEF Progress, FramesIn
<1>9. QED
  BY <1>7, <1>8 DEF RInv

LEMMA RequestRInv ==
  ASSUME IInv, NEW rank \in [Classes -> Nat], RInv(rank),
         NEW t \in Threads, NEW c \in Requested, Request(t, c)
  PROVE  RInv(rank)'
<1> DEFINE f == Frame("entry", c, <<>>)
<1>1. f.pc = "entry"
  BY DEF Frame
<1>2. stack \in [Threads -> Seq(Frames)] /\ stack' = [stack EXCEPT ![t] = <<f>>] /\ ret \in [Threads -> BOOLEAN]
  BY DEF IInv, Types, Request
<1>3. UNCHANGED <<classVars, aborted>> /\ ret' = [ret EXCEPT ![t] = TRUE]
  BY DEF Request
<1> HIDE DEF f
<1>4. /\ DOMAIN stack'[t] = {1} /\ stack'[t][1] = f
      /\ \A u \in Threads : u # t => stack'[u] = stack[u] /\ ret'[u] = ret[u]
  BY <1>2, <1>3
<1>5. Ordered(rank)'
  <2>1. \A u \in Threads : OrderedIn(rank, u)'
    <3>1. ASSUME NEW u \in Threads PROVE OrderedIn(rank, u)'
      <4>1. CASE u = t
        BY <1>4, <4>1 DEF OrderedIn
      <4>2. CASE u # t
        BY <1>4, <4>2 DEF OrderedIn, RInv, Ordered
      <4>3. QED
        BY <4>1, <4>2
    <3>2. QED
      BY <3>1
  <2>2. QED
    BY <2>1 DEF Ordered, OrderedIn
<1>6. Progress'
  <2>1. state_' = state_ /\ aborted' = aborted
    BY <1>3 DEF classVars
  <2>2. Ahead(f) /\ Behind(state_, f)
    BY <1>1 DEF Ahead, Behind
  <2>3. \A u \in Threads : FramesIn(u)'
    BY <1>4, <2>1, <2>2 DEF FramesIn, RInv, Progress
  <2>4. \A u \in Threads : Reported(u)'
    BY <1>1, <1>4, <2>1 DEF Reported, RInv, Progress
  <2>5. QED
    BY <2>1, <2>3, <2>4 DEF Progress, FramesIn, RInv
<1>7. QED
  BY <1>5, <1>6 DEF RInv

LEMMA StillRInv ==
  ASSUME NEW rank, RInv(rank), UNCHANGED <<state_, stack, ret, aborted>>
  PROVE  RInv(rank)'
BY DEF RInv, Ordered, Progress, Reported

\* For layered classes the second invariant is inductive relative to the first.
LEMMA NextRInv ==
  ASSUME NEW rank \in [Classes -> Nat], Layered(rank)
  PROVE  IInv /\ RInv(rank) /\ [Next]_vars => RInv(rank)'
<1> SUFFICES ASSUME IInv, RInv(rank), [Next]_vars PROVE RInv(rank)'
  OBVIOUS
<1>1. CASE UNCHANGED vars
  BY <1>1, StillRInv DEF vars, classVars
<1>2. ASSUME NEW t \in Threads, NEW c \in Requested, Request(t, c) PROVE RInv(rank)'
  BY <1>2, RequestRInv
<1>3. ASSUME NEW t \in Threads, Step(t) \/ Safepoint(t) PROVE RInv(rank)'
  BY <1>3, StepRInv
<1>4. ASSUME NEW t \in Threads, Interrupt(t) PROVE RInv(rank)'
  BY <1>4, StillRInv DEF Interrupt, classVars
<1>5. QED
  BY <1>1, <1>2, <1>3, <1>4 DEF Next, Aborted

LEMMA InitRInv ==
  ASSUME NEW rank
  PROVE  Init => RInv(rank)
<1> SUFFICES ASSUME Init PROVE RInv(rank)
  OBVIOUS
<1>1. \A t \in Threads : stack[t] = <<>> /\ DOMAIN stack[t] = {}
  BY DEF Init
<1>2. \A c \in Classes : ~Done(state_, c)
  BY DEF Init, Done, LOADED, INITIALIZED
<1>3. QED
  BY <1>1, <1>2 DEF RInv, Ordered, Progress, Reported

LEMMA RInvSupers ==
  ASSUME NEW rank
  PROVE  RInv(rank) => SupersFirst
<1> SUFFICES ASSUME RInv(rank), NEW c \in Classes, Constructed(c), NEW s \in Supers(c)
             PROVE  state_[s] = INITIALIZED
  BY DEF SupersFirst
<1>1. Progress
  BY DEF RInv
<1>2. CASE state_[c] = INITIALIZED
  BY <1>1, <1>2 DEF Progress, Done
<1>3. CASE \E i \in Initializers(c) : stack[i[1]][i[2]].pc \in {"cctor", "cctor_return", "finish"}
  <2>1. PICK i \in Initializers(c) : stack[i[1]][i[2]].pc \in {"cctor", "cctor_return", "finish"}
    BY <1>3
  <2>2. PICK t \in Threads : \E k \in DOMAIN stack[t] : i = <<t, k>> /\ Works(t, k, c)
    BY InitializersAre
  <2>3. PICK k \in DOMAIN stack[t] : i = <<t, k>> /\ Works(t, k, c)
    BY <2>2
  <2>4. i[1] = t /\ i[2] = k /\ stack[t][k].klass = c
    BY <2>3 DEF Works
  <2>5. Behind(state_, stack[t][k])
    BY <1>1 DEF Progress
  <2>6. QED
    BY <2>1, <2>4, <2>5 DEF Behind, Done
<1>4. QED
  BY <1>2, <1>3 DEF Constructed

\* Supertypes first: when the static constructor of a class runs or has run,
\* its superclass and its interfaces with default methods are INITIALIZED,
\* provided that classes can be given layers.
THEOREM SupertypesFirst ==
  ASSUME NEW rank \in [Classes -> Nat], Layered(rank)
  PROVE  Spec => []SupersFirst
<1>1. Init => RInv(rank)
  BY InitRInv
<1>2. IInv /\ RInv(rank) /\ [Next]_vars => RInv(rank)'
  BY NextRInv
<1>3. RInv(rank) => SupersFirst
  BY RInvSupers
<1>4. QED
  BY <1>1, <1>2, <1>3, Invariance, PTL DEF Spec
=============================================================================
