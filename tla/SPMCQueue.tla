----------------------------- MODULE SPMCQueue -----------------------------
(***************************************************************************)
(* The local task queue of a worker: SPMCLockFreeQueue                     *)
(* (taskmanager/utils/sp_mc_lock_free_queue.h) under the size counter of   *)
(* WorkerThreadLocalQueue (utils/worker_thread_local_queue.h), used the    *)
(* way WorkerThread and TaskScheduler use it.                              *)
(*                                                                         *)
(* The owner repeats: free the retired nodes, push a batch of tasks, pop   *)
(* until its queue is empty.  Other workers (Thieves) look at size_ and    *)
(* pop one task; helper threads (Helpers) look at Size() and pop one task. *)
(* One action is one access to a location that other threads change.       *)
(* The queue of one TaskProperties is modelled; tasks are numbered in the  *)
(* order of their pushes and a node is named by its id, which is never     *)
(* reused: that a pointer held by a consumer is never freed                *)
(* (NoUseAfterFree) is also why an address cannot come back under it.      *)
(***************************************************************************)
EXTENDS Integers, Sequences, FiniteSets

CONSTANTS
  Owner,      \* the worker whose queue it is
  Thieves,    \* the other workers
  Helpers,    \* the thread inside HelpWorkersWithTasks, if there is one
  None,
  NodeSize,   \* QUEUE_NODE_SIZE, also the limit of a batch (WORKER_QUEUE_SIZE)
  SizeMod,    \* 2^64, one more than SIZE_MAX
  MaxPush     \* bound on the tasks pushed

Consumers == {Owner} \cup Thieves \cup Helpers

ASSUME SPMCAssumption ==
  /\ NodeSize \in Nat /\ NodeSize > 1
  /\ MaxPush \in Nat /\ SizeMod \in Nat /\ MaxPush < SizeMod
  /\ Owner \notin Thieves \cup Helpers /\ Thieves \cap Helpers = {}
  /\ IsFiniteSet(Consumers) /\ None \notin Nat

\* All helpers use the one schedulerPopId_ of the worker, hence one unsynchronised
\* vector of retired nodes: the module is about one helper at a time, as the one
\* caller of HelpWorkersWithTasks, the thread of the GC, is.
ASSUME OneHelper == \A h, k \in Helpers : h = k

Tasks == 0 .. MaxPush - 1
GetBufferIndex(i) == i % NodeSize
GetNodeId(i) == i \div NodeSize
Nodes == 0 .. MaxPush \div NodeSize

VARIABLES
  pushIndex_, popIndex_, head_, tail_,
  next,                     \* next[n]: successor of node n
  buffer,                   \* buffer[n][i]: the task in slot i, None if moved from
  popUserCount_,
  retired,                  \* perConsumerRetiredPtrs_
  freed,                    \* the nodes that were deleted
  size_,                    \* of WorkerThreadLocalQueue
  pc,
  loc,                      \* locals of Size and Pop, Fresh when dead
  val,                      \* the task a Pop returns
  batch,                    \* tasks the owner has still to push
  sweep                     \* consumers TryDeleteRetiredPtrs has still to visit

idxVars == <<pushIndex_, popIndex_>>
nodeVars == <<head_, tail_, next, buffer>>
memVars == <<popUserCount_, retired, freed>>
locals == <<loc, val>>
ownVars == <<batch, sweep>>
vars == <<idxVars, nodeVars, memVars, size_, pc, locals, ownVars>>

Fresh == [push |-> 0, pop |-> 0, cur |-> 0, nxt |-> 0]

Init ==
  /\ pushIndex_ = 0 /\ popIndex_ = 0
  /\ head_ = 0 /\ tail_ = 0
  /\ next = [n \in Nodes |-> None]
  /\ buffer = [n \in Nodes |-> [i \in 0 .. NodeSize - 1 |-> None]]
  /\ popUserCount_ = 0
  /\ retired = [c \in Consumers |-> {}]
  /\ freed = {}
  /\ size_ = 0
  /\ pc = [c \in Consumers |-> IF c = Owner THEN "fill" ELSE "idle"]
  /\ loc = [c \in Consumers |-> Fresh]
  /\ val = [c \in Consumers |-> None]
  /\ batch = 0
  /\ sweep = {}

Goto(c, from, to) == pc[c] = from /\ pc' = [pc EXCEPT ![c] = to]
Keep(c, r) == loc' = [loc EXCEPT ![c] = r]

-----------------------------------------------------------------------------
(* The owner: PutTasksInWorker, then ExecuteTasksFromLocalQueue.           *)

\* Wrong variant: popUserCount_ is not looked at.
TryDeleteUnchecked ==
  /\ pc[Owner] = "fill" /\ pushIndex_ < MaxPush
  /\ Goto(Owner, "fill", "sweep")
  /\ sweep' = Consumers
  /\ UNCHANGED <<idxVars, nodeVars, memVars, size_, locals, batch>>

\* TryDeleteRetiredPtrs looks at popUserCount_ once, before its loop.
TryDeleteRetiredPtrs ==
  /\ pc[Owner] = "fill" /\ pushIndex_ < MaxPush
  /\ Goto(Owner, "fill", "sweep")
  /\ sweep' = IF popUserCount_ = 0 THEN Consumers ELSE {}
  /\ UNCHANGED <<idxVars, nodeVars, memVars, size_, locals, batch>>

DeleteRetiredOf(c) ==
  /\ pc[Owner] = "sweep" /\ c \in sweep
  /\ freed' = freed \cup retired[c]
  /\ retired' = [retired EXCEPT ![c] = {}]
  /\ sweep' = sweep \ {c}
  /\ UNCHANGED <<idxVars, nodeVars, popUserCount_, size_, pc, locals, batch>>

\* At most WORKER_QUEUE_SIZE tasks are taken from a task queue.
PopTasksToWorker ==
  /\ Goto(Owner, "sweep", "push") /\ sweep = {}
  /\ \E k \in 1 .. NodeSize :
       /\ pushIndex_ + k <= MaxPush
       /\ batch' = k
  /\ UNCHANGED <<idxVars, nodeVars, memVars, size_, locals, sweep>>

\* Everything Push writes before it publishes the index.  tail_ is read only
\* by the owner, so storing it together with next hides nothing.
PushWrite ==
  /\ Goto(Owner, "push", "publish")
  /\ IF GetBufferIndex(pushIndex_) = 0 /\ pushIndex_ # 0
     THEN LET new == tail_ + 1 IN
          /\ buffer' = [buffer EXCEPT ![new][0] = pushIndex_]
          /\ next' = [next EXCEPT ![tail_] = new]
          /\ tail_' = new
     ELSE /\ buffer' = [buffer EXCEPT ![tail_][GetBufferIndex(pushIndex_)] = pushIndex_]
          /\ UNCHANGED <<next, tail_>>
  /\ UNCHANGED <<idxVars, head_, memVars, size_, locals, ownVars>>

PushPublish ==
  /\ Goto(Owner, "publish", "count")
  /\ pushIndex_' = pushIndex_ + 1
  /\ UNCHANGED <<popIndex_, nodeVars, memVars, size_, locals, ownVars>>

PushCount ==
  /\ Goto(Owner, "count", IF batch = 1 THEN "test" ELSE "push")
  /\ size_' = (size_ + 1) % SizeMod
  /\ batch' = batch - 1
  /\ UNCHANGED <<idxVars, nodeVars, memVars, locals, sweep>>

\* Wrong variant: off by one, the last task is left for others.
OwnerTestEarly ==
  /\ Goto(Owner, "test", IF size_ <= 1 THEN "fill" ELSE "enter")
  /\ UNCHANGED <<idxVars, nodeVars, memVars, size_, locals, ownVars>>

\* The condition of the loop in ExecuteTasksFromLocalQueue.
OwnerTest ==
  /\ Goto(Owner, "test", IF size_ = 0 THEN "fill" ELSE "enter")
  /\ UNCHANGED <<idxVars, nodeVars, memVars, size_, locals, ownVars>>

-----------------------------------------------------------------------------
(* Who else pops.                                                          *)

\* StealTaskFromOtherWorker: no task is taken if Size() of the chosen worker
\* is zero.
ThiefTest(c) ==
  /\ c \in Thieves
  /\ Goto(c, "idle", "enter") /\ size_ # 0
  /\ UNCHANGED <<idxVars, nodeVars, memVars, size_, locals, ownVars>>

\* SPMCLockFreeQueue::Size, for StealAndExecuteOneTaskFromWorkers.
SizeLoadPush(c) ==
  /\ c \in Helpers
  /\ pc[c] \in {"idle", "sizing"}
  /\ pc' = [pc EXCEPT ![c] = "size"]
  /\ Keep(c, [Fresh EXCEPT !.push = pushIndex_])
  /\ UNCHANGED <<idxVars, nodeVars, memVars, size_, val, ownVars>>

SizeLoadPop(c) ==
  LET behind == loc[c].push < popIndex_ IN
  /\ Goto(c, "size", IF behind THEN "resize"
                     ELSE IF loc[c].push = popIndex_ THEN "idle" ELSE "enter")
  /\ Keep(c, IF behind THEN [Fresh EXCEPT !.pop = popIndex_] ELSE Fresh)
  /\ UNCHANGED <<idxVars, nodeVars, memVars, size_, val, ownVars>>

\* When the index loaded first is behind and the queue is empty now, the
\* result is pushIndex - popIndex < 0 as a size_t: not zero, and Pop is called.
SizeReload(c) ==
  /\ Goto(c, "resize", IF loc[c].pop # pushIndex_ THEN "sizing" ELSE "enter")
  /\ Keep(c, Fresh)
  /\ UNCHANGED <<idxVars, nodeVars, memVars, size_, val, ownVars>>

-----------------------------------------------------------------------------
(* Pop(consumerId).  "load" is the top of its loop, a retry goes there.    *)

PopEnter(c) ==
  /\ Goto(c, "enter", "load")
  /\ popUserCount_' = popUserCount_ + 1
  /\ UNCHANGED <<idxVars, nodeVars, retired, freed, size_, locals, ownVars>>

PopLoadPush(c) ==
  /\ Goto(c, "load", "loadPop")
  /\ Keep(c, [Fresh EXCEPT !.push = pushIndex_])
  /\ UNCHANGED <<idxVars, nodeVars, memVars, size_, val, ownVars>>

PopLoadPop(c) ==
  LET p == loc[c].push IN
  /\ Goto(c, "loadPop", IF p < popIndex_ THEN "load"
                        ELSE IF p = popIndex_ THEN "reload" ELSE "loadHead")
  /\ Keep(c, IF p < popIndex_ THEN Fresh
             ELSE IF p = popIndex_ THEN loc[c] ELSE [Fresh EXCEPT !.pop = popIndex_])
  /\ UNCHANGED <<idxVars, nodeVars, memVars, size_, val, ownVars>>

PopReloadPush(c) ==
  /\ Goto(c, "reload", IF loc[c].push = pushIndex_ THEN "leave" ELSE "load")
  /\ Keep(c, Fresh)
  /\ UNCHANGED <<idxVars, nodeVars, memVars, size_, val, ownVars>>

PopLoadHead(c) ==
  /\ Goto(c, "loadHead", "checkId")
  /\ Keep(c, [loc[c] EXCEPT !.cur = head_])
  /\ UNCHANGED <<idxVars, nodeVars, memVars, size_, val, ownVars>>

\* Reads currentHead->id.  Behind the node of the index, the index was moved
\* by another consumer and head_ was not: help it.
PopCheckId(c) ==
  LET id == loc[c].cur
      nodeId == GetNodeId(loc[c].pop)
      boundary == GetBufferIndex(loc[c].pop) = 0 /\ loc[c].pop # 0
  IN /\ Goto(c, "checkId", IF id > nodeId THEN "load"
                           ELSE IF boundary THEN "claimFirst"
                           ELSE IF id < nodeId THEN "loadNext" ELSE "claim")
     /\ Keep(c, IF id > nodeId THEN Fresh ELSE loc[c])
     /\ UNCHANGED <<idxVars, nodeVars, memVars, size_, val, ownVars>>

\* Wrong variant: a plain store instead of a compare-exchange.
StorePopIndex(c, from, to) ==
  /\ Goto(c, from, to)
  /\ popIndex_' = loc[c].pop + 1
  /\ UNCHANGED <<pushIndex_, nodeVars, memVars, size_, locals, ownVars>>

\* A failed compare-exchange retries the loop.
TryMovePopIndex(c, from, to) ==
  LET ok == popIndex_ = loc[c].pop IN
  /\ Goto(c, from, IF ok THEN to ELSE "load")
  /\ popIndex_' = IF ok THEN popIndex_ + 1 ELSE popIndex_
  /\ Keep(c, IF ok THEN loc[c] ELSE Fresh)
  /\ UNCHANGED <<pushIndex_, nodeVars, memVars, size_, val, ownVars>>

PopClaimFirst(c) == TryMovePopIndex(c, "claimFirst", "loadNext")

PopClaim(c) == TryMovePopIndex(c, "claim", "take")

\* CompareAndSetNextHead: load the successor, swing head_, retire the old
\* node, take the first task of the new one.
PopLoadNext(c) ==
  /\ Goto(c, "loadNext", "casHead")
  /\ Keep(c, [loc[c] EXCEPT !.pop = 0, !.nxt = next[loc[c].cur]])
  /\ UNCHANGED <<idxVars, nodeVars, memVars, size_, val, ownVars>>

PopCasHead(c) ==
  LET ok == head_ = loc[c].cur IN
  /\ Goto(c, "casHead", IF ok THEN "retire" ELSE "load")
  /\ head_' = IF ok THEN loc[c].nxt ELSE head_
  /\ Keep(c, IF ok THEN loc[c] ELSE Fresh)
  /\ UNCHANGED <<idxVars, tail_, next, buffer, memVars, size_, val, ownVars>>

RetirePtr(c) ==
  /\ Goto(c, "retire", "takeFirst")
  /\ retired' = [retired EXCEPT ![c] = @ \cup {loc[c].cur}]
  /\ Keep(c, [Fresh EXCEPT !.nxt = loc[c].nxt])
  /\ UNCHANGED <<idxVars, nodeVars, popUserCount_, freed, size_, val, ownVars>>

\* Move the task out of the slot and leave.  The slot belongs to this consumer
\* alone, so moving it and leaving are one step.
Take(c, node, slot) ==
  /\ val' = [val EXCEPT ![c] = buffer[node][slot]]
  /\ buffer' = [buffer EXCEPT ![node][slot] = None]
  /\ popUserCount_' = popUserCount_ - 1
  /\ Keep(c, Fresh)
  /\ UNCHANGED <<idxVars, head_, tail_, next, retired, freed, size_, ownVars>>

PopTake(c) ==
  /\ Goto(c, "take", "uncount")
  /\ Take(c, loc[c].cur, GetBufferIndex(loc[c].pop))

PopTakeFirst(c) ==
  /\ Goto(c, "takeFirst", "uncount")
  /\ Take(c, loc[c].nxt, 0)

\* std::nullopt: the owner stops executing, the others return.
PopLeave(c) ==
  /\ Goto(c, "leave", IF c = Owner THEN "fill" ELSE "idle")
  /\ popUserCount_' = popUserCount_ - 1
  /\ UNCHANGED <<idxVars, nodeVars, retired, freed, size_, locals, ownVars>>

\* WorkerThreadLocalQueue::Pop counts the task it got; the caller runs it.
PopUncount(c) ==
  /\ Goto(c, "uncount", IF c = Owner THEN "test" ELSE "idle")
  /\ size_' = (size_ - 1) % SizeMod
  /\ val' = [val EXCEPT ![c] = None]
  /\ UNCHANGED <<idxVars, nodeVars, memVars, loc, ownVars>>

-----------------------------------------------------------------------------
\* Finalize joins the workers and deletes them; ~SPMCLockFreeQueue frees the
\* retired nodes and the head.
Destroy ==
  /\ Goto(Owner, "fill", "destroyed")
  /\ \A c \in Thieves \cup Helpers : pc[c] = "idle"
  /\ freed' = freed \cup {head_} \cup UNION {retired[c] : c \in Consumers}
  /\ retired' = [c \in Consumers |-> {}]
  /\ UNCHANGED <<idxVars, nodeVars, popUserCount_, size_, locals, ownVars>>

OwnerStep ==
  \/ TryDeleteRetiredPtrs \/ PopTasksToWorker
  \/ PushWrite \/ PushPublish \/ PushCount \/ OwnerTest
  \/ \E c \in Consumers : DeleteRetiredOf(c)

PopStep(c) ==
  \/ PopEnter(c) \/ PopLoadPush(c) \/ PopLoadPop(c) \/ PopReloadPush(c)
  \/ PopLoadHead(c) \/ PopCheckId(c) \/ PopClaimFirst(c) \/ PopClaim(c)
  \/ PopLoadNext(c) \/ PopCasHead(c) \/ RetirePtr(c)
  \/ PopTake(c) \/ PopTakeFirst(c) \/ PopLeave(c) \/ PopUncount(c)

\* The worker is gone, and nobody looks at its queue any more.
Alive == pc[Owner] # "destroyed"

StealStep(c) ==
  Alive /\ (ThiefTest(c) \/ SizeLoadPush(c) \/ SizeLoadPop(c) \/ SizeReload(c))

Next ==
  \/ OwnerStep
  \/ Destroy
  \/ \E c \in Consumers : PopStep(c)
  \/ \E c \in Thieves \cup Helpers : StealStep(c)

Spec == Init /\ [][Next]_vars

\* Threads run: the owner does not stop between tasks, and a Pop that was
\* entered goes on.  Nobody has to steal.
FairSpec ==
  /\ Spec
  /\ WF_vars(OwnerStep)
  /\ \A c \in Consumers : WF_vars(PopStep(c))

-----------------------------------------------------------------------------
(* Properties.                                                             *)

InLoop == {"load", "loadPop", "reload", "loadHead", "checkId",
           "claimFirst", "claim", "loadNext", "casHead"}
InPop == InLoop \cup {"retire", "take", "takeFirst", "leave"}
PcOf(c) ==
  InPop \cup {"enter", "uncount"} \cup
    (IF c = Owner THEN {"fill", "sweep", "push", "publish", "count", "test", "destroyed"}
     ELSE {"idle", "sizing", "size", "resize"})

\* Every variable has its type; size_ stays below 2^64 although it wraps.
TypeOK ==
  /\ pushIndex_ \in 0 .. MaxPush /\ popIndex_ \in 0 .. MaxPush
  /\ head_ \in Nodes /\ tail_ \in Nodes
  /\ next \in [Nodes -> Nodes \cup {None}]
  /\ buffer \in [Nodes -> [0 .. NodeSize - 1 -> Tasks \cup {None}]]
  /\ popUserCount_ \in 0 .. Cardinality(Consumers)
  /\ retired \in [Consumers -> SUBSET Nodes] /\ freed \in SUBSET Nodes
  /\ size_ \in 0 .. SizeMod - 1
  /\ \A c \in Consumers : pc[c] \in PcOf(c)
  /\ loc \in [Consumers -> [push : 0 .. MaxPush, pop : 0 .. MaxPush, cur : Nodes, nxt : Nodes]]
  /\ val \in [Consumers -> Tasks \cup {None}]
  /\ batch \in 0 .. NodeSize /\ sweep \in SUBSET Consumers

\* The nodes a consumer is about to read or write through a pointer it holds.
Dereferenced(c) ==
  CASE pc[c] \in {"checkId", "claimFirst", "claim", "loadNext", "take"} -> {loc[c].cur}
    [] pc[c] \in {"casHead", "retire"} -> {loc[c].cur, loc[c].nxt}
    [] pc[c] = "takeFirst" -> {loc[c].nxt}
    [] OTHER -> {}

\* A node is deleted only when no consumer can still reach it: a consumer that
\* enters Pop after TryDeleteRetiredPtrs read a zero popUserCount_ never holds a
\* node that the sweep deletes, and neither head_ nor tail_ is ever deleted.
NoUseAfterFree ==
  /\ \A c \in Consumers : Dereferenced(c) \cap freed = {}
  /\ Alive => {head_, tail_} \cap freed = {}

\* perConsumerRetiredPtrs_ has no lock: while the owner sweeps it, no consumer
\* appends to its list, although nothing keeps consumers out of Pop.
SweepAlone == sweep # {} => \A c \in Consumers : pc[c] # "retire"

\* The first task of a node that was claimed by moving the index is still there
\* as long as head_ is behind.
Lagging == popIndex_ > 0 /\ head_ < GetNodeId(popIndex_ - 1)
Slot(i) == buffer[GetNodeId(i)][GetBufferIndex(i)]
First == IF Lagging THEN popIndex_ - 1 ELSE popIndex_

Fifo == INSTANCE FifoQueue WITH
  queue <- [k \in 1 .. pushIndex_ - First |-> Slot(First + k - 1)],
  popping <- {c \in Consumers : pc[c] \in InLoop},
  result <- [c \in Consumers |->
               CASE pc[c] = "take" -> buffer[loc[c].cur][GetBufferIndex(loc[c].pop)]
                 [] pc[c] \in {"retire", "takeFirst"} -> buffer[loc[c].nxt][0]
                 [] OTHER -> val[c]]

\* The lock-free queue implements FifoQueue: a push takes effect when pushIndex_
\* is stored, a pop when it moves popIndex_ inside a node or head_ between nodes.
Refines == Fifo!FifoSpec

\* Every task that was pushed is taken: the owner never goes to sleep over it,
\* and no interplay of retries and helping keeps it in its slot.
EveryTaskTaken == []<>(\A i \in 0 .. pushIndex_ - 1 : Slot(i) = None)
=============================================================================
