------------------------------ MODULE ClassInit ------------------------------
(***************************************************************************)
(* Initialization of classes by several threads (ClassInitializer in the   *)
(* mode MT_MODE_MULTI, Class::SetState).                                   *)
(*                                                                         *)
(* A thread has a stack of calls: Initialize, InitializeClass and the      *)
(* static constructor it runs share a frame, InitializeInterface has one   *)
(* of its own.  A block under the ObjectLock of a class is one step: every *)
(* write of state_ is in such a block, and the only read outside, the test *)
(* for INITIALIZED, depends on the last write of a block.  ObjectLock is   *)
(* the monitor of module Monitor: its Wait sleeps until NotifyAll or an    *)
(* interrupt.                                                              *)
(***************************************************************************)
EXTENDS Integers, Sequences, FiniteSets

CONSTANTS
  Threads, Daemons,
  Classes, Requested,     \* the classes, and those that code asks for first
  None,
  Base,                   \* Class::GetBase
  Interfaces,             \* Class::GetInterfaces, a sequence for each class
  Uses,                   \* the classes a static constructor needs, in order
  InterfaceClasses, FinalClasses, WithDefaults,
  Unverifiable,           \* VerifyClass may fail, mode AHEAD_OF_TIME
  Throwing                \* the static constructor may throw

ASSUME ClassesAssumption ==
  /\ None \notin Classes \cup Threads
  /\ Daemons \subseteq Threads /\ Requested \subseteq Classes
  /\ Base \in [Classes -> Classes \cup {None}]
  /\ Interfaces \in [Classes -> Seq(Classes)] /\ Uses \in [Classes -> Seq(Classes)]

\* enum class State, in its order.
INITIAL == 0
LOADED == 1
VERIFIED == 2
INITIALIZING == 3
ERRONEOUS == 4
INITIALIZED == 5

VARIABLES
  state_, initTid_,       \* of a class
  stack,                  \* the frames of a thread, the innermost first
  ret, exception,         \* of a thread: the last result, HasPendingException
  interrupted, termination,
  aborted                 \* LOG(FATAL) or UNREACHABLE was reached

classVars == <<state_, initTid_>>
requestVars == <<interrupted, termination>>
vars == <<classVars, stack, ret, exception, requestVars, aborted>>

Init ==
  /\ state_ = [c \in Classes |-> LOADED]
  /\ initTid_ = [c \in Classes |-> None]
  /\ stack = [t \in Threads |-> <<>>]
  /\ ret = [t \in Threads |-> TRUE] /\ exception = [t \in Threads |-> FALSE]
  /\ interrupted = {} /\ termination = {} /\ aborted = FALSE

-----------------------------------------------------------------------------
Frame(l, c, r) == [pc |-> l, klass |-> c, rest |-> r]
At(t, l) == ~ aborted /\ stack[t] # <<>> /\ Head(stack[t]).pc = l
Klass(t) == Head(stack[t]).klass
Rest(t) == Head(stack[t]).rest

Goto(t, l, r) == stack' = [stack EXCEPT ![t][1] = Frame(l, @.klass, r)]
Call(t, l, f) == stack' = [stack EXCEPT ![t] = <<f, [Head(@) EXCEPT !.pc = l]>> \o Tail(@)]
Pop(t) == stack' = [stack EXCEPT ![t] = Tail(@)]

\* The result goes to the caller; the code around the outermost call handles
\* the exception.
Result(t, r, e) ==
  /\ ret' = [ret EXCEPT ![t] = r]
  /\ exception' = [exception EXCEPT ![t] = e /\ Len(stack[t]) > 1]
Return(t, r, e) == Pop(t) /\ Result(t, r, e)

\* Class::SetState: fatal for a class that is ERRONEOUS, a step back, and
\* LOADED -> INITIALIZED.
SetState(c, s) ==
  LET bad == \/ state_[c] = ERRONEOUS \/ s < state_[c]
             \/ state_[c] = LOADED /\ s = INITIALIZED
  IN  /\ aborted' = bad
      /\ state_' = IF bad THEN state_ ELSE [state_ EXCEPT ![c] = s]

\* lock.NotifyAll() and return: the threads asleep in WaitInitialization go on.
NotifyAll(t, c) ==
  stack' = [u \in Threads |->
    IF u = t THEN Tail(stack[t])
    ELSE IF At(u, "wait") /\ Klass(u) = c
         THEN <<Frame("notified", c, <<>>)>> \o Tail(stack[u])
         ELSE stack[u]]

-----------------------------------------------------------------------------
(* Initialize.                                                             *)

\* Code asks for a class: a new object, a static member, an entry point.  An
\* interrupt that came earlier is no different from one that comes in the wait.
Request(t, c) ==
  /\ ~ aborted /\ stack[t] = <<>> /\ t \notin termination
  /\ stack' = [stack EXCEPT ![t] = <<Frame("entry", c, <<>>)>>]
  /\ ret' = [ret EXCEPT ![t] = TRUE]
  /\ interrupted' = interrupted \ {t}
  /\ UNCHANGED <<classVars, exception, termination, aborted>>

\* The test without the lock.
Entry(t) ==
  /\ At(t, "entry")
  /\ IF state_[Klass(t)] = INITIALIZED THEN Return(t, TRUE, exception[t])
     ELSE Goto(t, "lock", <<>>) /\ UNCHANGED <<ret, exception>>
  /\ UNCHANGED <<classVars, requestVars, aborted>>

\* Somebody was here before: finished, failed, this thread further out on its
\* stack, or another thread, for which it waits.
Already(t) ==
  /\ At(t, "lock")
  /\ LET c == Klass(t) IN
     \/ /\ state_[c] = INITIALIZED
        /\ Return(t, TRUE, exception[t])
     \/ /\ state_[c] = ERRONEOUS
        /\ Return(t, FALSE, TRUE)
     \/ /\ state_[c] = INITIALIZING /\ initTid_[c] = t
        /\ Return(t, TRUE, exception[t])
     \/ /\ state_[c] = INITIALIZING /\ initTid_[c] # t
        /\ Goto(t, "wait", <<>>)
        /\ UNCHANGED <<ret, exception>>
  /\ UNCHANGED <<classVars, requestVars, aborted>>

\* InitClassVerificationMode: VerifyClass fails.
VerifyFails(t) ==
  /\ At(t, "lock") /\ state_[Klass(t)] < VERIFIED /\ Klass(t) \in Unverifiable
  /\ SetState(Klass(t), ERRONEOUS)
  /\ Return(t, FALSE, TRUE)
  /\ UNCHANGED <<initTid_, requestVars>>

\* Wrong variant: the state is left for later.
BeginLate(t) ==
  /\ At(t, "lock") /\ state_[Klass(t)] < INITIALIZING
  /\ initTid_' = [initTid_ EXCEPT ![Klass(t)] = t]
  /\ Goto(t, "super", <<>>)
  /\ UNCHANGED <<state_, aborted, ret, exception, requestVars>>

\* Verified by now, or later method by method in mode ON_THE_FLY, the class is
\* this thread's to initialize.  InitializeFields always succeeds.
Begin(t) ==
  /\ At(t, "lock") /\ state_[Klass(t)] < INITIALIZING
  /\ initTid_' = [initTid_ EXCEPT ![Klass(t)] = t]
  /\ SetState(Klass(t), INITIALIZING)
  /\ Goto(t, "super", <<>>)
  /\ UNCHANGED <<ret, exception, requestVars>>

-----------------------------------------------------------------------------
(* WaitInitialization.                                                     *)

\* Wait returns after a notification or an interrupt; on the way back to
\* RUNNING a thread that has to terminate does so.
Wakeup(t) ==
  /\ At(t, "notified") \/ (At(t, "wait") /\ t \in interrupted)
  /\ Goto(t, IF t \in termination THEN "dead" ELSE "woken", <<>>)
  /\ UNCHANGED <<classVars, ret, exception, requestVars, aborted>>

\* Interrupted by the shutdown.
WaitTerminated(t) ==
  /\ At(t, "woken") /\ t \in interrupted \cap termination
  /\ SetState(Klass(t), ERRONEOUS)
  /\ Return(t, FALSE, TRUE)
  /\ UNCHANGED <<initTid_, requestVars>>

\* Wrong variant: a thread that is woken takes the class for initialized.
WaitOver(t) ==
  /\ At(t, "woken") /\ t \notin interrupted \cap termination
  /\ Return(t, TRUE, exception[t])
  /\ UNCHANGED <<classVars, requestVars, aborted>>

WaitInitialization(t) ==
  /\ At(t, "woken") /\ t \notin interrupted \cap termination
  /\ LET c == Klass(t) IN
     IF exception[t]
     THEN SetState(c, ERRONEOUS) /\ Return(t, FALSE, TRUE)
     ELSE /\ \/ /\ state_[c] = INITIALIZING
                /\ Goto(t, "wait", <<>>)
                /\ UNCHANGED <<ret, exception>>
             \/ state_[c] = ERRONEOUS /\ Return(t, FALSE, TRUE)
             \/ state_[c] = INITIALIZED /\ Return(t, TRUE, FALSE)
          /\ UNCHANGED <<state_, aborted>>
  /\ UNCHANGED <<initTid_, requestVars>>

-----------------------------------------------------------------------------
(* InitializeClass.                                                        *)

IsBadSuperClass(b) == b \in InterfaceClasses \cup FinalClasses

\* The superclass first.  A bad one ends the call, and only the call.
InitializeClass(t) ==
  /\ At(t, "super")
  /\ LET c == Klass(t)  b == Base[c] IN
     \/ /\ c \in InterfaceClasses
        /\ Goto(t, "cctor", Uses[c])
        /\ UNCHANGED <<ret, exception>>
     \/ /\ c \notin InterfaceClasses /\ b = None
        /\ Goto(t, "interfaces", Interfaces[c])
        /\ UNCHANGED <<ret, exception>>
     \/ /\ c \notin InterfaceClasses /\ b # None /\ IsBadSuperClass(b)
        /\ Return(t, FALSE, TRUE)
     \/ /\ c \notin InterfaceClasses /\ b # None /\ ~ IsBadSuperClass(b)
        /\ Call(t, "super_return", Frame("entry", b, <<>>))
        /\ UNCHANGED <<ret, exception>>
  /\ UNCHANGED <<classVars, requestVars, aborted>>

\* Wrong variant: the result of the superclass is not looked at.
SuperReturnsAnyway(t) ==
  /\ At(t, "super_return")
  /\ Goto(t, "interfaces", Interfaces[Klass(t)])
  /\ UNCHANGED <<classVars, ret, exception, requestVars, aborted>>

SuperReturns(t) ==
  /\ At(t, "super_return") /\ ret[t]
  /\ Goto(t, "interfaces", Interfaces[Klass(t)])
  /\ UNCHANGED <<classVars, ret, exception, requestVars, aborted>>

\* The loop over the interfaces, initialized ones are skipped.
NextInterface(t) ==
  /\ At(t, "interfaces")
  /\ \/ /\ Rest(t) = <<>>
        /\ Goto(t, "cctor", Uses[Klass(t)])
     \/ /\ Rest(t) # <<>> /\ state_[Head(Rest(t))] = INITIALIZED
        /\ Goto(t, "interfaces", Tail(Rest(t)))
     \/ /\ Rest(t) # <<>> /\ state_[Head(Rest(t))] # INITIALIZED
        /\ Call(t, "interface_return", Frame("iface", Head(Rest(t)), <<>>))
  /\ UNCHANGED <<classVars, ret, exception, requestVars, aborted>>

InterfaceReturns(t) ==
  /\ At(t, "interface_return") /\ ret[t]
  /\ Goto(t, "interfaces", Tail(Rest(t)))
  /\ UNCHANGED <<classVars, ret, exception, requestVars, aborted>>

\* A superclass or an interface has failed.
Fail(t) ==
  /\ At(t, "super_return") \/ At(t, "interface_return")
  /\ ~ ret[t]
  /\ SetState(Klass(t), ERRONEOUS)
  /\ NotifyAll(t, Klass(t)) /\ Result(t, FALSE, exception[t])
  /\ UNCHANGED <<initTid_, requestVars>>

\* InitializeInterface: the superinterfaces first, then Initialize for an
\* interface with default methods.
InitializeInterface(t) ==
  /\ At(t, "iface")
  /\ IF Klass(t) \in InterfaceClasses
     THEN Goto(t, "superinterfaces", Interfaces[Klass(t)]) /\ UNCHANGED <<ret, exception>>
     ELSE Return(t, FALSE, TRUE)
  /\ UNCHANGED <<classVars, requestVars, aborted>>

NextSuperinterface(t) ==
  /\ At(t, "superinterfaces")
  /\ \/ /\ Rest(t) # <<>> /\ state_[Head(Rest(t))] = INITIALIZED
        /\ Goto(t, "superinterfaces", Tail(Rest(t)))
        /\ UNCHANGED <<ret, exception>>
     \/ /\ Rest(t) # <<>> /\ state_[Head(Rest(t))] # INITIALIZED
        /\ Call(t, "superinterface_return", Frame("iface", Head(Rest(t)), <<>>))
        /\ UNCHANGED <<ret, exception>>
     \/ /\ Rest(t) = <<>> /\ Klass(t) \notin WithDefaults
        /\ Return(t, TRUE, exception[t])
     \/ /\ Rest(t) = <<>> /\ Klass(t) \in WithDefaults
        /\ Goto(t, "entry", <<>>)
        /\ UNCHANGED <<ret, exception>>
  /\ UNCHANGED <<classVars, requestVars, aborted>>

SuperinterfaceReturns(t) ==
  /\ At(t, "superinterface_return")
  /\ IF ret[t] THEN Goto(t, "superinterfaces", Tail(Rest(t))) /\ UNCHANGED <<ret, exception>>
     ELSE Return(t, FALSE, exception[t])
  /\ UNCHANGED <<classVars, requestVars, aborted>>

\* The static constructor: it asks for the classes it needs, may handle the
\* exception of one that fails, and may throw.
Cctor(t) ==
  /\ At(t, "cctor")
  /\ \/ /\ Rest(t) # <<>> /\ ~ exception[t]
        /\ Call(t, "cctor_return", Frame("entry", Head(Rest(t)), <<>>))
        /\ UNCHANGED exception
     \/ /\ Rest(t) = <<>> \/ exception[t]
        /\ Goto(t, "finish", <<>>)
        /\ \E e \in {FALSE, exception[t], Klass(t) \in Throwing} :
             exception' = [exception EXCEPT ![t] = e]
  /\ UNCHANGED <<classVars, ret, requestVars, aborted>>

CctorReturns(t) ==
  /\ At(t, "cctor_return")
  /\ Goto(t, "cctor", Tail(Rest(t)))
  /\ ret' = [ret EXCEPT ![t] = TRUE]
  /\ UNCHANGED <<classVars, exception, requestVars, aborted>>

\* Wrong variant: the failure is not announced.
FinishQuietly(t) ==
  /\ At(t, "finish")
  /\ IF exception[t]
     THEN SetState(Klass(t), ERRONEOUS) /\ Return(t, FALSE, TRUE)
     ELSE /\ SetState(Klass(t), INITIALIZED) /\ Result(t, TRUE, FALSE)
          /\ NotifyAll(t, Klass(t))
  /\ UNCHANGED <<initTid_, requestVars>>

Finish(t) ==
  /\ At(t, "finish")
  /\ IF exception[t]
     THEN SetState(Klass(t), ERRONEOUS) /\ Result(t, FALSE, TRUE)
     ELSE SetState(Klass(t), INITIALIZED) /\ Result(t, TRUE, FALSE)
  /\ NotifyAll(t, Klass(t))
  /\ UNCHANGED <<initTid_, requestVars>>

-----------------------------------------------------------------------------
(* The threads from outside.                                               *)

\* Interrupt(thread), and StopDaemonThread at the shutdown, in the places from
\* which the requests are seen.
Interrupt(t) ==
  /\ \E l \in {"wait", "notified", "woken", "cctor"} : At(t, l)
  /\ \/ t \notin interrupted /\ interrupted' = interrupted \cup {t} /\ UNCHANGED termination
     \/ /\ t \in Daemons \ termination
        /\ interrupted' = interrupted \cup {t} /\ termination' = termination \cup {t}
  /\ UNCHANGED <<classVars, stack, ret, exception, aborted>>

\* A safepoint in a static constructor: TerminationLoop.
Safepoint(t) ==
  /\ At(t, "cctor") /\ t \in termination
  /\ Goto(t, "dead", <<>>)
  /\ UNCHANGED <<classVars, ret, exception, requestVars, aborted>>

Step(t) ==
  \/ Entry(t) \/ Already(t) \/ VerifyFails(t) \/ Begin(t)
  \/ Wakeup(t) \/ WaitTerminated(t) \/ WaitInitialization(t)
  \/ InitializeClass(t) \/ SuperReturns(t) \/ NextInterface(t) \/ InterfaceReturns(t)
  \/ Fail(t) \/ InitializeInterface(t) \/ NextSuperinterface(t)
  \/ SuperinterfaceReturns(t) \/ Cctor(t) \/ CctorReturns(t) \/ Finish(t)

Aborted == aborted /\ UNCHANGED vars

Next ==
  \/ \E t \in Threads : \/ \E c \in Requested : Request(t, c)
                         \/ Step(t) \/ Interrupt(t) \/ Safepoint(t)
  \/ Aborted

Spec == Init /\ [][Next]_vars

\* Every call goes on and every static constructor ends.
FairSpec == Spec /\ \A t \in Threads : WF_vars(Step(t))

-----------------------------------------------------------------------------
Labels ==
  {"entry", "lock", "wait", "notified", "woken", "super", "super_return",
   "interfaces", "interface_return", "iface", "superinterfaces",
   "superinterface_return", "cctor", "cctor_return", "finish", "dead"}

\* The variables have their types; the nesting of calls is finite.
TypeOK ==
  /\ state_ \in [Classes -> LOADED .. INITIALIZED]
  /\ initTid_ \in [Classes -> Threads \cup {None}]
  /\ \A t \in Threads : \A k \in DOMAIN stack[t] :
       stack[t][k].pc \in Labels /\ stack[t][k].klass \in Classes
  /\ ret \in [Threads -> BOOLEAN] /\ exception \in [Threads -> BOOLEAN]
  /\ termination \subseteq interrupted /\ interrupted \subseteq Threads

\* The calls that initialize a class, as thread and frame: from
\* SetState(INITIALIZING) to the end.
AtWork == {"super", "super_return", "interfaces", "interface_return",
           "cctor", "cctor_return", "finish"}
Works(t, k, c) == k \in DOMAIN stack[t] /\ stack[t][k].klass = c /\ stack[t][k].pc \in AtWork
Initializers(c) ==
  UNION {{<<t, k>> : k \in {j \in DOMAIN stack[t] : Works(t, j, c)}} : t \in Threads}

\* A class is initialized by one call of one thread, the one in initTid_, so
\* its static constructor runs once; the others wait or see the result, also
\* when the thread comes back to the class in the middle.  Only a class with
\* a bad superclass, or of a thread that was terminated, is left INITIALIZING
\* with nobody at work.
OneInitializer ==
  \A c \in Classes :
    /\ Cardinality(Initializers(c)) <= 1
    /\ \A i \in Initializers(c) :
         initTid_[c] = i[1] /\ (termination = {} => state_[c] = INITIALIZING)
    /\ (state_[c] = INITIALIZING /\ termination = {} /\ Initializers(c) = {})
         => Base[c] # None /\ IsBadSuperClass(Base[c])

\* A class that names a superclass it may not have.
BadBase(c) == c \notin InterfaceClasses /\ Base[c] # None /\ IsBadSuperClass(Base[c])

\* No class needs itself through superclasses, interfaces and static
\* constructors, and no class with a bad superclass is extended.
Layered(rank) ==
  \A c \in Classes :
    /\ Base[c] # None => rank[Base[c]] < rank[c] /\ ~ BadBase(Base[c])
    /\ \A k \in DOMAIN Interfaces[c] : rank[Interfaces[c][k]] < rank[c]
    /\ \A k \in DOMAIN Uses[c] : rank[Uses[c][k]] < rank[c]

\* InitializeClass works from the top down: when the static constructor of a
\* class runs, or has run, its superclass and its interfaces with default
\* methods are initialized.  The classes are Layered: a static constructor
\* that needs a subclass finds its own class INITIALIZING and lets it pass.
Supers(c) ==
  IF c \in InterfaceClasses THEN {}
  ELSE ({Base[c]} \ {None})
       \cup ({Interfaces[c][k] : k \in DOMAIN Interfaces[c]} \cap WithDefaults)
Constructed(c) ==
  \/ state_[c] = INITIALIZED
  \/ \E i \in Initializers(c) : stack[i[1]][i[2]].pc \in {"cctor", "cctor_return", "finish"}
SupersFirst ==
  \A c \in Classes : Constructed(c) => \A s \in Supers(c) : state_[s] = INITIALIZED

\* Initialize says TRUE only for a class that is INITIALIZED or that the same
\* thread is initializing further out; the class with a bad superclass, which
\* stays INITIALIZING, is the exception: its thread is told TRUE ever after.
Finished(t) ==
  /\ Len(stack'[t]) < Len(stack[t]) /\ ret'[t]
  /\ Head(stack[t]).pc \in {"entry", "lock", "woken", "finish"}
TrueMeansUsable ==
  [][\A t \in Threads : Finished(t) =>
       LET c == Klass(t) IN
       \/ state_'[c] = INITIALIZED
       \/ \E i \in Initializers(c) : i[1] = t
       \/ Base[c] # None /\ IsBadSuperClass(Base[c]) /\ initTid_[c] = t]_vars

\* A call of Initialize returns: nobody sleeps in WaitInitialization after the
\* class is done, and threads that initialize classes that need each other's
\* do not wait in a circle as long as the classes do not need each other in a
\* circle.  A class with a bad superclass keeps its waiters for ever.
CallsReturn ==
  [](termination = {}) =>
    \A t \in Threads :
      stack[t] # <<>> ~>
        \/ stack[t] = <<>>
        \/ At(t, "wait") /\ Initializers(Klass(t)) = {} /\ state_[Klass(t)] = INITIALIZING

\* "Invalid class state transition" (class.cpp:108) is never logged: the state
\* of a class only goes forward and never leaves ERRONEOUS.
TransitionsValid == ~ aborted
=============================================================================
