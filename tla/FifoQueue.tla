----------------------------- MODULE FifoQueue -----------------------------
(***************************************************************************)
(* What the local queue of a worker promises to the worker and to those    *)
(* who steal from it: tasks leave in the order they entered, each exactly  *)
(* once, and a Pop that reports an empty queue does so only when no task   *)
(* is left, or one that is owed to another Pop in progress.                *)
(*                                                                         *)
(* The last clause is weaker than an exact answer.  A Pop that crosses     *)
(* into the next node first moves the index and then the head, and between *)
(* the two the queue looks empty to others although the task is still in   *)
(* it.                                                                     *)
(***************************************************************************)
EXTENDS Naturals, Sequences

CONSTANTS
  Tasks,
  Consumers,
  None        \* no task

VARIABLES
  queue,      \* the tasks pushed and not popped, oldest first
  popping,    \* the consumers inside a Pop that has not taken effect
  result      \* what the finished Pop of a consumer returns

fifoVars == <<queue, popping, result>>

\* Idle consumers and consumers that were told "empty" both have None.
FifoInit ==
  /\ queue = <<>>
  /\ popping = {}
  /\ result = [c \in Consumers |-> None]

Enqueue(t) ==
  /\ queue' = Append(queue, t)
  /\ UNCHANGED <<popping, result>>

Call(c) ==
  /\ c \notin popping /\ result[c] = None
  /\ popping' = popping \cup {c}
  /\ UNCHANGED <<queue, result>>

Dequeue(c) ==
  /\ c \in popping /\ queue # <<>>
  /\ result' = [result EXCEPT ![c] = Head(queue)]
  /\ queue' = Tail(queue)
  /\ popping' = popping \ {c}

ReportEmpty(c) ==
  /\ c \in popping
  /\ \/ queue = <<>>
     \/ Len(queue) = 1 /\ popping # {c}
  /\ popping' = popping \ {c}
  /\ UNCHANGED <<queue, result>>

Return(c) ==
  /\ c \notin popping /\ result[c] # None
  /\ result' = [result EXCEPT ![c] = None]
  /\ UNCHANGED <<queue, popping>>

FifoNext ==
  \/ \E t \in Tasks : Enqueue(t)
  \/ \E c \in Consumers : Call(c) \/ Dequeue(c) \/ ReportEmpty(c) \/ Return(c)

FifoSpec == FifoInit /\ [][FifoNext]_fifoVars
=============================================================================
