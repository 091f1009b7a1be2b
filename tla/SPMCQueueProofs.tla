-------------------------- MODULE SPMCQueueProofs --------------------------
(***************************************************************************)
(* Proofs, for any node size, any set of thieves, with or without a helper *)
(* (OneHelper), and any number of pushes, that the local task queue frees  *)
(* no node that someone can still reach and that it implements FifoQueue.  *)
(*                                                                         *)
(* The inductive invariant follows the algorithm: where the two indices    *)
(* and the two ends of the list stand (Indices, HeadFits), what a consumer *)
(* at each label knows of them although they have moved on since it looked *)
(* (PopFits), which slots hold their task (Contents), what the two         *)
(* counters count (Counts), why a sweep meets nobody (Swept), and which    *)
(* nodes are retired and freed (Memory).                                   *)
(***************************************************************************)
EXTENDS SPMCQueue, TLAPS, FiniteSetTheorems, SequenceTheorems

\* The node of the last index below i, and the indices that open a node.
NodeOf(i) == IF i = 0 THEN 0 ELSE GetNodeId(i - 1)
Boundary(i) == GetBufferIndex(i) = 0 /\ i # 0

Labels ==
  InPop \cup {"enter", "uncount", "fill", "sweep", "push", "publish", "count", "test",
             "destroyed", "idle", "sizing", "size", "resize"}
Loc == [push : 0 .. MaxPush, pop : 0 .. MaxPush, cur : Nodes, nxt : Nodes]
Types ==
  /\ pushIndex_ \in 0 .. MaxPush /\ popIndex_ \in 0 .. MaxPush
  /\ head_ \in Nodes /\ tail_ \in Nodes
  /\ next \in [Nodes -> Nodes \cup {None}]
  /\ buffer \in [Nodes -> [0 .. NodeSize - 1 -> Tasks \cup {None}]]
  /\ popUserCount_ \in Int
  /\ retired \in [Consumers -> SUBSET Nodes] /\ freed \in SUBSET Nodes
  /\ size_ \in 0 .. SizeMod - 1
  /\ pc \in [Consumers -> Labels] /\ \A c \in Consumers : pc[c] \in PcOf(c)
  /\ loc \in [Consumers -> Loc] /\ val \in [Consumers -> Tasks \cup {None}]
  /\ batch \in 0 .. NodeSize /\ sweep \in SUBSET Consumers

\* The two indices, the batch being pushed, and the list up to tail_.
Indices ==
  /\ popIndex_ <= pushIndex_
  /\ pc[Owner] \in {"push", "publish"} => batch > 0 /\ pushIndex_ + batch <= MaxPush
  /\ pc[Owner] = "count" => batch > 0 /\ pushIndex_ + batch <= MaxPush + 1
  /\ tail_ = IF pc[Owner] = "publish" THEN GetNodeId(pushIndex_) ELSE NodeOf(pushIndex_)
  /\ \A n \in Nodes : next[n] = IF n < tail_ THEN n + 1 ELSE None

\* head_ is the node of the last task popped, or the one before while the
\* consumer that popped the first task of a node has still to move it.
HeadFits ==
  \/ head_ = NodeOf(popIndex_)
  \/ /\ popIndex_ > 0 /\ Boundary(popIndex_ - 1) /\ head_ + 1 = GetNodeId(popIndex_ - 1)
     /\ \E d \in Consumers : pc[d] \in {"loadNext", "casHead"} /\ loc[d].cur = head_

\* What a consumer's locals still say of the shared state.
PopFits(c) ==
  /\ pc[c] \in {"size", "loadPop", "reload"} => loc[c].push <= pushIndex_
  /\ pc[c] = "reload" => loc[c].push <= popIndex_
  /\ pc[c] \in {"loadHead", "checkId", "claimFirst", "claim"} =>
       loc[c].pop <= popIndex_ /\ loc[c].pop < pushIndex_
  /\ pc[c] \in {"checkId", "claimFirst", "claim", "loadNext", "casHead"} => loc[c].cur <= head_
  /\ pc[c] \in {"checkId", "claimFirst"} /\ loc[c].pop = popIndex_ /\ Boundary(popIndex_)
       => loc[c].cur = head_
  /\ pc[c] = "claimFirst" => Boundary(loc[c].pop)
  /\ pc[c] = "claim" => ~Boundary(loc[c].pop) /\ loc[c].cur = GetNodeId(loc[c].pop)
  /\ pc[c] \in {"loadNext", "casHead"} =>
       popIndex_ > 0 /\ loc[c].cur < GetNodeId(popIndex_ - 1)
  /\ pc[c] \in {"casHead", "retire"} => loc[c].nxt = loc[c].cur + 1
  /\ pc[c] = "retire" => loc[c].cur < head_
  /\ IF pc[c] = "uncount" THEN val[c] # None ELSE val[c] = None
Locals == \A c \in Consumers : PopFits(c)

\* Consumer c has popped index i and not taken the task out of its slot.
Claims(c, i) ==
  \/ pc[c] = "take" /\ loc[c].pop = i /\ loc[c].cur = GetNodeId(i)
  \/ pc[c] \in {"retire", "takeFirst"} /\ loc[c].nxt = GetNodeId(i) /\ GetBufferIndex(i) = 0

\* The slots not popped yet, or popped and not emptied, hold their task.
Contents ==
  /\ \A i \in First .. pushIndex_ - 1 : Slot(i) = i
  /\ pc[Owner] = "publish" => Slot(pushIndex_) = pushIndex_
  /\ \A c \in Consumers : pc[c] \in {"retire", "take", "takeFirst"} =>
       \E i \in 0 .. First - 1 : Claims(c, i) /\ Slot(i) = i
  /\ \A c \in Consumers, d \in Consumers : \A i \in 0 .. First - 1 :
       Claims(c, i) /\ Claims(d, i) => c = d

\* popUserCount_ counts the consumers in Pop, and size_ the tasks pushed and
\* not yet counted out; it is one short while the owner has still to count a
\* task that someone has already run.
Inside == {c \in Consumers : pc[c] \in InPop}
Holding == {c \in Consumers : pc[c] \in {"retire", "take", "takeFirst", "uncount"}}
Outstanding ==
  pushIndex_ - (IF pc[Owner] = "count" THEN 1 ELSE 0) - First + Cardinality(Holding)
Counts ==
  /\ popUserCount_ = Cardinality(Inside)
  /\ size_ = IF Outstanding < 0 THEN Outstanding + SizeMod ELSE Outstanding
  /\ Cardinality(Holding) <= First

\* A consumer at one of these labels has found a task or holds a node.
Reaching == {"loadHead", "checkId", "claimFirst", "claim", "loadNext", "casHead",
             "retire", "take", "takeFirst"}

\* The owner frees nodes only when its queue is empty, so nobody can find a
\* task, and began when nobody was in Pop, so nobody still holds a node.
Swept ==
  /\ pc[Owner] \in {"fill", "sweep", "leave", "destroyed"} => popIndex_ = pushIndex_
  /\ sweep # {} => pc[Owner] = "sweep" /\ \A c \in Consumers : pc[c] \notin Reaching
  /\ pc[Owner] = "destroyed" => \A c \in Thieves \cup Helpers : pc[c] = "idle"

\* Retired and freed nodes are behind head_, freed ones behind every consumer.
Holds == {"checkId", "claimFirst", "claim", "loadNext", "casHead", "retire", "take"}
Memory ==
  /\ \A c \in Consumers : \A n \in retired[c] : n < head_
  /\ Alive => \A n \in freed : n < head_
  /\ \A c \in Consumers : \A n \in freed :
       /\ pc[c] \in Holds => n < loc[c].cur
       /\ pc[c] = "takeFirst" => n < loc[c].nxt

IInv == Types /\ Indices /\ HeadFits /\ Locals /\ Contents /\ Counts /\ Swept /\ Memory

-----------------------------------------------------------------------------
(* Quotients and remainders of neighbours. *)
LEMMA Multiples ==
  ASSUME NEW n \in Nat, n > 1, NEW q \in Nat, NEW p \in Nat, NEW r \in Nat, NEW s \in Nat,
         r < n, s < n
  PROVE  /\ n * q + r <= n * p + s => q <= p
         /\ n * q + r + 1 = n * p + s =>
              IF s = 0 THEN p = q + 1 /\ r = n - 1 ELSE p = q /\ s = r + 1
<1>1. ASSUME NEW a \in Nat, NEW b \in Nat, a < b
      PROVE  /\ n * b \in Nat /\ n * a \in Nat /\ n * a + n <= n * b
             /\ b # a + 1 => n * a + 2 * n <= n * b
  <2>1. PICK k \in Nat : b = a + 1 + k
    <3>1. b - a - 1 \in Nat /\ b = a + 1 + (b - a - 1)
      BY <1>1
    <3> QED
      BY <3>1
  <2>2. n * b = n * a + n + n * k /\ n * a \in Nat /\ n * k \in Nat
    BY <2>1
  <2>3. k # 0 => n <= n * k
    <3>1. ASSUME k # 0 PROVE n <= n * k
      <4>1. k - 1 \in Nat
        BY <3>1
      <4>2. n * k = n + n * (k - 1) /\ n * (k - 1) \in Nat
        BY <4>1
      <4> QED
        BY <4>2
    <3> QED
      BY <3>1
  <2> QED
    BY <2>1, <2>2, <2>3
<1>2. n * q \in Nat /\ n * p \in Nat
  OBVIOUS
<1>3. CASE q < p
  <2>1. n * q + n <= n * p /\ (p # q + 1 => n * q + 2 * n <= n * p)
    BY <1>1, <1>3
  <2> HIDE <1>1
  <2> QED
    BY <1>2, <1>3, <2>1
<1>4. CASE p < q
  <2>1. n * p + n <= n * q
    BY <1>1, <1>4
  <2> QED
    BY <1>2, <1>4, <2>1
<1>5. CASE p = q
  BY <1>2, <1>5
<1> QED
  BY <1>3, <1>4, <1>5

(* How indices fall into nodes and slots. *)
LEMMA Division ==
  /\ \A i \in Nat : GetNodeId(i) \in Nat /\ GetBufferIndex(i) \in 0 .. NodeSize - 1
  /\ \A i \in Nat, j \in Nat : i <= j => GetNodeId(i) <= GetNodeId(j)
  /\ \A i \in Nat : GetBufferIndex(i + 1) = 0 => GetNodeId(i + 1) = GetNodeId(i) + 1
  /\ \A i \in Nat : GetBufferIndex(i + 1) # 0 => GetNodeId(i + 1) = GetNodeId(i)
  /\ \A i \in Nat : GetBufferIndex(i) = 0 => GetBufferIndex(i + 1) # 0
  /\ \A i \in Nat, j \in Nat :
       GetNodeId(i) = GetNodeId(j) /\ GetBufferIndex(i) = GetBufferIndex(j) => i = j
  /\ GetNodeId(0) = 0 /\ GetBufferIndex(0) = 0
  /\ \A i \in 0 .. MaxPush : GetNodeId(i) \in Nodes
<1>0. NodeSize \in Nat /\ NodeSize > 1 /\ MaxPush \in Nat
  BY SPMCAssumption
<1> USE DEF GetNodeId, GetBufferIndex
<1>1. \A i \in Nat : /\ i \div NodeSize \in Nat /\ i % NodeSize \in Nat
                     /\ i % NodeSize < NodeSize /\ i % NodeSize \in 0 .. NodeSize - 1
  BY <1>0
<1>2. \A i \in Nat : i = NodeSize * (i \div NodeSize) + (i % NodeSize)
  BY <1>0
<1>3. ASSUME NEW i \in Nat, NEW j \in Nat, i <= j PROVE i \div NodeSize <= j \div NodeSize
  <2>1. NodeSize * (i \div NodeSize) + (i % NodeSize)
          <= NodeSize * (j \div NodeSize) + (j % NodeSize)
    BY <1>2, <1>3
  <2> QED
    BY <1>0, <1>1, <2>1, Multiples
<1>4. ASSUME NEW i \in Nat
      PROVE  IF (i + 1) % NodeSize = 0
             THEN /\ (i + 1) \div NodeSize = (i \div NodeSize) + 1
                  /\ i % NodeSize = NodeSize - 1
             ELSE /\ (i + 1) \div NodeSize = i \div NodeSize
                  /\ (i + 1) % NodeSize = (i % NodeSize) + 1
  <2>0. i + 1 \in Nat
    OBVIOUS
  <2>1. NodeSize * (i \div NodeSize) + (i % NodeSize) + 1
          = NodeSize * ((i + 1) \div NodeSize) + ((i + 1) % NodeSize)
    BY <1>2, <2>0
  <2>2. /\ i \div NodeSize \in Nat /\ i % NodeSize \in Nat /\ i % NodeSize < NodeSize
        /\ (i + 1) \div NodeSize \in Nat /\ (i + 1) % NodeSize \in Nat
        /\ (i + 1) % NodeSize < NodeSize
    BY <1>1, <2>0
  <2> QED
    BY <1>0, <2>1, <2>2, Multiples
<1>6. ASSUME NEW i \in Nat, i % NodeSize = 0 PROVE (i + 1) % NodeSize # 0
  BY <1>0, <1>4, <1>6
<1>7. ASSUME NEW i \in Nat, NEW j \in Nat, i \div NodeSize = j \div NodeSize,
             i % NodeSize = j % NodeSize
      PROVE  i = j
  BY <1>2, <1>7
<1>8. 0 \div NodeSize = 0 /\ 0 % NodeSize = 0
  BY <1>0
<1>9. \A i \in 0 .. MaxPush : i \div NodeSize \in Nodes
  <2>1. \A i \in 0 .. MaxPush : i \in Nat /\ i <= MaxPush /\ MaxPush \in Nat
    BY <1>0
  <2> QED
    BY <2>1, <1>0, <1>1, <1>3 DEF Nodes
<1> QED
  BY <1>1, <1>3, <1>4, <1>6, <1>7, <1>8, <1>9

(* size_ goes up and down by one, around 0 and SIZE_MAX. *)
LEMMA Wraps ==
  \A n \in 0 .. SizeMod - 1 :
    /\ (n + 1) % SizeMod = IF n + 1 = SizeMod THEN 0 ELSE n + 1
    /\ (n - 1) % SizeMod = IF n = 0 THEN SizeMod - 1 ELSE n - 1
<1>1. SizeMod \in Nat /\ SizeMod > 0
  BY SPMCAssumption
<1> QED
  BY <1>1

(* The arithmetic content of the types. *)
Nums ==
  /\ pushIndex_ \in Nat /\ popIndex_ \in Nat /\ head_ \in Nat /\ tail_ \in Nat
  /\ Nodes \subseteq Nat /\ MaxPush \in Nat /\ NodeSize \in Nat /\ batch \in Nat
  /\ \A c \in Consumers : /\ loc[c].push \in Nat /\ loc[c].pop \in Nat
                          /\ loc[c].cur \in Nat /\ loc[c].nxt \in Nat
                          /\ loc[c].cur \in Nodes /\ loc[c].nxt \in Nodes
                          /\ loc[c].push <= MaxPush /\ loc[c].pop <= MaxPush
  /\ pushIndex_ <= MaxPush /\ popIndex_ <= MaxPush
  /\ Owner \in Consumers /\ Thieves \subseteq Consumers /\ Helpers \subseteq Consumers
  /\ \A n \in Nat, m \in Nodes : n <= m => n \in Nodes
LEMMA Numbers == Types => Nums
<1>1. MaxPush \div NodeSize \in Nat
  BY SPMCAssumption, Division DEF GetNodeId
<1> QED
  BY <1>1, SPMCAssumption DEF Types, Loc, Nodes, Consumers, Nums

(* The records that Pop and Size keep. *)
LEMMA Records ==
  /\ Fresh \in Loc
  /\ \A i \in 0 .. MaxPush : [Fresh EXCEPT !.push = i] \in Loc /\ [Fresh EXCEPT !.pop = i] \in Loc
  /\ \A n \in Nodes : [Fresh EXCEPT !.nxt = n] \in Loc
  /\ \A r \in Loc, n \in Nodes :
       [r EXCEPT !.cur = n] \in Loc /\ [r EXCEPT !.pop = 0, !.nxt = n] \in Loc
  /\ \A r \in Loc : r.cur \in Nodes /\ r.nxt \in Nodes
<1>1. 0 \in Nodes /\ 0 \in 0 .. MaxPush
  BY SPMCAssumption, Division
<1> QED
  BY <1>1 DEF Fresh, Loc

(* Where head_ can be. *)
LEMMA HeadFacts ==
  ASSUME Types, Indices, HeadFits
  PROVE  /\ First \in Nat /\ First <= popIndex_
         /\ Lagging => /\ First = popIndex_ - 1 /\ popIndex_ > 0 /\ Boundary(popIndex_ - 1)
                       /\ head_ + 1 = GetNodeId(popIndex_ - 1)
                       /\ \E d \in Consumers : /\ pc[d] \in {"loadNext", "casHead"}
                                               /\ loc[d].cur = head_
         /\ ~Lagging => First = popIndex_ /\ head_ = NodeOf(popIndex_)
         /\ head_ <= NodeOf(popIndex_)
         /\ NodeOf(popIndex_) <= NodeOf(pushIndex_) /\ NodeOf(pushIndex_) <= tail_
         /\ NodeOf(popIndex_) \in Nat /\ NodeOf(pushIndex_) \in Nat
<1>0. Nums
  BY Numbers
<1> USE <1>0 DEF Nums
<1>1. NodeOf(popIndex_) \in Nat /\ NodeOf(pushIndex_) \in Nat
  BY Division DEF NodeOf
<1>2. NodeOf(popIndex_) <= NodeOf(pushIndex_)
  <2>1. popIndex_ > 0 => popIndex_ - 1 \in Nat /\ pushIndex_ - 1 \in Nat
                         /\ popIndex_ - 1 <= pushIndex_ - 1
    BY DEF Indices
  <2> QED
    BY <1>1, <2>1, Division DEF NodeOf
<1>3. NodeOf(pushIndex_) <= tail_
  BY <1>1, Division DEF NodeOf, Indices
<1>4. head_ <= NodeOf(popIndex_)
  BY <1>1 DEF HeadFits, NodeOf
<1>5. ~Lagging => First = popIndex_ /\ head_ = NodeOf(popIndex_)
  BY <1>1 DEF HeadFits, Lagging, First, NodeOf
<1>6. Lagging => popIndex_ > 0 /\ head_ # NodeOf(popIndex_) /\ First = popIndex_ - 1
  BY Division DEF Lagging, First, NodeOf
<1> QED
  BY <1>1, <1>2, <1>3, <1>4, <1>5, <1>6 DEF HeadFits

-----------------------------------------------------------------------------
(* What a step of consumer c leaves alone, and how far it moves what it does not. *)
ConsumerStep(c) ==
  PopStep(c) \/ (c \in Thieves \cup Helpers /\ StealStep(c)) \/ (c = Owner /\ OwnerTest)

LEMMA ConsumerFrame ==
  ASSUME Types, NEW c \in Consumers, ConsumerStep(c)
  PROVE  /\ \A d \in Consumers \ {c} : pc'[d] = pc[d] /\ loc'[d] = loc[d] /\ val'[d] = val[d]
         /\ pushIndex_' = pushIndex_ /\ tail_' = tail_ /\ next' = next /\ freed' = freed
         /\ batch' = batch /\ sweep' = sweep
         /\ pc[c] \notin {"fill", "sweep", "push", "publish", "count", "destroyed"}
         /\ pc'[c] \notin {"sweep", "push", "publish", "count", "destroyed"}
         /\ \/ popIndex_' = popIndex_
            \/ PopClaim(c) /\ popIndex_ = loc[c].pop
            \/ PopClaimFirst(c) /\ popIndex_ = loc[c].pop
         /\ head_' = head_ \/ (PopCasHead(c) /\ head_ = loc[c].cur)
         /\ buffer' = buffer \/ PopTake(c) \/ PopTakeFirst(c)
<1>0. /\ pc \in [Consumers -> Labels] /\ \A d \in Consumers : pc[d] \in PcOf(d)
      /\ loc \in [Consumers -> Loc] /\ val \in [Consumers -> Tasks \cup {None}]
  BY DEF Types
<1> USE <1>0 DEF Goto, Keep, idxVars, nodeVars, memVars, locals, ownVars
<1>1. CASE PopEnter(c) \/ PopLoadPush(c) \/ PopLoadPop(c) \/ PopReloadPush(c) \/ PopLoadHead(c)
           \/ PopCheckId(c) \/ PopLoadNext(c)
  BY <1>1 DEF PopEnter, PopLoadPush, PopLoadPop, PopReloadPush, PopLoadHead, PopCheckId,
     PopLoadNext
<1>2. CASE PopClaimFirst(c) \/ PopClaim(c) \/ PopCasHead(c) \/ RetirePtr(c)
  BY <1>2 DEF PopClaimFirst, PopClaim, TryMovePopIndex, PopCasHead, RetirePtr
<1>3. CASE PopTake(c) \/ PopTakeFirst(c) \/ PopLeave(c) \/ PopUncount(c)
  <2>1. CASE PopTake(c)
    BY <2>1 DEF PopTake, Take
  <2>2. CASE PopTakeFirst(c)
    BY <2>2 DEF PopTakeFirst, Take
  <2>3. CASE PopLeave(c) \/ PopUncount(c)
    BY <2>3 DEF PopLeave, PopUncount
  <2> QED
    BY <1>3, <2>1, <2>2, <2>3
<1>4. CASE c \in Thieves \cup Helpers /\ StealStep(c)
  BY <1>4 DEF StealStep, ThiefTest, SizeLoadPush, SizeLoadPop, SizeReload
<1>5. CASE c = Owner /\ OwnerTest
  BY <1>5 DEF OwnerTest
<1> QED
  BY <1>1, <1>2, <1>3, <1>4, <1>5 DEF ConsumerStep, PopStep

LEMMA NextCases ==
  ASSUME Next
  PROVE  \/ \E c \in Consumers : ConsumerStep(c) \/ DeleteRetiredOf(c)
         \/ TryDeleteRetiredPtrs \/ PopTasksToWorker \/ PushWrite \/ PushPublish \/ PushCount
         \/ Destroy
<1>1. Owner \in Consumers /\ Thieves \cup Helpers \subseteq Consumers
  BY DEF Consumers
<1> QED
  BY <1>1 DEF Next, OwnerStep, ConsumerStep

(* Every variable keeps its type: the indices stay within what is pushed, and *)
(* a consumer that follows next finds a node.                                *)
LEMMA TypesNext ==
  ASSUME Types, Indices, HeadFits, Locals, [Next]_vars
  PROVE  Types'
<1>0. Nums
  BY Numbers
<1>h. NodeOf(popIndex_) <= tail_ /\ NodeOf(popIndex_) \in Nat
  BY <1>0, HeadFacts DEF Nums
<1>f. \A c \in Consumers : ConsumerStep(c) =>
        /\ \A d \in Consumers \ {c} : pc'[d] = pc[d] /\ loc'[d] = loc[d] /\ val'[d] = val[d]
        /\ pushIndex_' = pushIndex_ /\ tail_' = tail_ /\ next' = next /\ freed' = freed
        /\ batch' = batch /\ sweep' = sweep
        /\ \/ popIndex_' = popIndex_
           \/ PopClaim(c) /\ popIndex_ = loc[c].pop
           \/ PopClaimFirst(c) /\ popIndex_ = loc[c].pop
        /\ head_' = head_ \/ (PopCasHead(c) /\ head_ = loc[c].cur)
        /\ buffer' = buffer \/ PopTake(c) \/ PopTakeFirst(c)
  BY ConsumerFrame
<1>p. pc \in [Consumers -> Labels] /\ \A d \in Consumers : pc[d] \in PcOf(d)
  BY DEF Types
<1>l. loc \in [Consumers -> Loc]
  BY DEF Types
<1>v. /\ buffer \in [Nodes -> [0 .. NodeSize - 1 -> Tasks \cup {None}]]
      /\ val \in [Consumers -> Tasks \cup {None}]
  BY DEF Types
<1> USE DEF Goto, Keep, idxVars, nodeVars, memVars, locals, ownVars
<1>a. 0 \in Nodes /\ 0 \in 0 .. MaxPush /\ 0 \in 0 .. NodeSize - 1
  BY SPMCAssumption, Division
<1>b. pushIndex_ \in 0 .. MaxPush /\ popIndex_ \in 0 .. MaxPush /\ head_ \in Nodes
      /\ tail_ \in Nodes
  BY DEF Types
<1>1. ASSUME NEW c \in Consumers, ConsumerStep(c) PROVE Types'
  <2>2. \A d \in Consumers : pc'[d] \in PcOf(d)
    <3>1. ASSUME NEW d \in Consumers, d # c PROVE pc'[d] \in PcOf(d)
      BY <1>1, <1>p, <3>1, <1>f
    <3>2. PopStep(c) => pc'[c] \in PcOf(c)
      BY <1>p DEF PopStep, PopEnter, PopLoadPush, PopLoadPop, PopReloadPush,
         PopLoadHead, PopCheckId, PopLoadNext, PopClaimFirst, PopClaim, TryMovePopIndex,
         PopCasHead, RetirePtr, PopTake, PopTakeFirst, PopLeave, PopUncount, PcOf, InPop, InLoop
    <3>3. c \in Thieves \cup Helpers /\ StealStep(c) => pc'[c] \in PcOf(c)
      BY <1>p, SPMCAssumption DEF StealStep, ThiefTest, SizeLoadPush, SizeLoadPop, SizeReload, PcOf,
         InPop, InLoop
    <3>4. c = Owner /\ OwnerTest => pc'[c] \in PcOf(c)
      BY <1>p DEF OwnerTest, PcOf, InPop, InLoop
    <3> QED
      BY <1>1, <3>1, <3>2, <3>3, <3>4 DEF ConsumerStep
  <2>1. pc' \in [Consumers -> Labels]
    <3>1. \E l : pc' = [pc EXCEPT ![c] = l]
      BY <1>1 DEF ConsumerStep, PopStep, PopEnter, PopLoadPush, PopLoadPop, PopReloadPush,
         PopLoadHead, PopCheckId, PopLoadNext, PopClaimFirst, PopClaim, TryMovePopIndex,
         PopCasHead, RetirePtr, PopTake, PopTakeFirst, PopLeave, PopUncount, StealStep,
         ThiefTest, SizeLoadPush, SizeLoadPop, SizeReload, OwnerTest
    <3> QED
      BY <1>p, <2>2, <3>1 DEF PcOf, Labels
  <2>3. loc' \in [Consumers -> Loc]
    <3>1. CASE PopLoadNext(c)
      <4>1. loc[c].cur < tail_
        <5>1. popIndex_ > 0 /\ loc[c].cur < GetNodeId(popIndex_ - 1)
          BY <3>1 DEF PopLoadNext, Locals, PopFits
        <5> QED
          BY <5>1, <1>h, <1>0 DEF NodeOf, Nums
      <4>2. next[loc[c].cur] = loc[c].cur + 1
        BY <1>0, <4>1 DEF Indices, Nums
      <4>3. next[loc[c].cur] \in Nodes
        BY <1>0, <4>1, <4>2, <1>b DEF Nums
      <4> QED
        BY <1>l, <3>1, <4>3, Records DEF PopLoadNext
    <3>2. CASE PopEnter(c) \/ PopLoadPush(c) \/ PopReloadPush(c)
      BY <1>b, <1>l, <3>2, Records DEF PopEnter, PopLoadPush, PopReloadPush
    <3>3. CASE PopLoadPop(c) \/ PopLoadHead(c) \/ PopCheckId(c)
      <4>1. CASE PopLoadPop(c)
        BY <1>b, <1>l, <4>1, Records DEF PopLoadPop
      <4>2. CASE PopLoadHead(c)
        <5>1. [loc[c] EXCEPT !.cur = head_] \in Loc
          BY <1>b, <1>l, Records
        <5> QED
          BY <1>l, <4>2, <5>1 DEF PopLoadHead
      <4>3. CASE PopCheckId(c)
        BY <1>l, <4>3, Records DEF PopCheckId
      <4> QED
        BY <3>3, <4>1, <4>2, <4>3
    <3>7. CASE PopClaimFirst(c) \/ PopClaim(c) \/ PopCasHead(c)
      BY <1>l, <3>7, Records DEF PopClaimFirst, PopClaim, TryMovePopIndex, PopCasHead
    <3>8. CASE RetirePtr(c)
      BY <1>l, <3>8, Records DEF RetirePtr
    <3>4. CASE PopTake(c) \/ PopTakeFirst(c) \/ PopLeave(c) \/ PopUncount(c)
      BY <1>l, <3>4, Records DEF PopTake, PopTakeFirst, Take, PopLeave, PopUncount
    <3>5. CASE c \in Thieves \cup Helpers /\ StealStep(c)
      BY <1>b, <1>l, <3>5, Records DEF StealStep, ThiefTest, SizeLoadPush, SizeLoadPop, SizeReload
    <3>6. CASE c = Owner /\ OwnerTest
      BY <1>l, <3>6 DEF OwnerTest
    <3> QED
      BY <1>1, <3>1, <3>2, <3>3, <3>4, <3>5, <3>6, <3>7, <3>8 DEF ConsumerStep, PopStep
  <2>4. popIndex_' \in 0 .. MaxPush
    <3>1. PopClaim(c) \/ PopClaimFirst(c) => loc[c].pop < pushIndex_
      BY DEF PopClaim, PopClaimFirst, TryMovePopIndex, Locals, PopFits
    <3> QED
      BY <1>0, <1>1, <1>b, <3>1, <1>f DEF PopClaim, PopClaimFirst, TryMovePopIndex, Nums
  <2>5. head_' \in Nodes
    BY <1>0, <1>1, <1>b, <1>f DEF PopCasHead, Nums
  <2>6. /\ buffer' \in [Nodes -> [0 .. NodeSize - 1 -> Tasks \cup {None}]]
        /\ val' \in [Consumers -> Tasks \cup {None}]
    <3>1. CASE PopTake(c)
      <4>1. GetBufferIndex(loc[c].pop) \in 0 .. NodeSize - 1
        BY <1>0, Division DEF Nums
      <4>2. loc[c].cur \in Nodes
        BY <1>l, Records
      <4> QED
        BY <1>v, <3>1, <4>1, <4>2 DEF PopTake, Take
    <3>2. CASE PopTakeFirst(c)
      <4>2. loc[c].nxt \in Nodes
        BY <1>l, Records
      <4> QED
        BY <1>v, <3>2, <4>2, <1>a DEF PopTakeFirst, Take
    <3>3. CASE ~PopTake(c) /\ ~PopTakeFirst(c)
      <4>1. val' = val \/ val' = [val EXCEPT ![c] = None]
        BY <1>1, <3>3 DEF ConsumerStep, PopStep, PopEnter, PopLoadPush, PopLoadPop,
           PopReloadPush, PopLoadHead, PopCheckId, PopLoadNext, PopClaimFirst, PopClaim,
           TryMovePopIndex, PopCasHead, RetirePtr, PopLeave, PopUncount, StealStep, ThiefTest,
           SizeLoadPush, SizeLoadPop, SizeReload, OwnerTest
      <4> QED
        BY <1>1, <1>v, <3>3, <4>1, <1>f
    <3> QED
      BY <3>1, <3>2, <3>3
  <2>7. popUserCount_' \in Int /\ size_' \in 0 .. SizeMod - 1
    <3>1. popUserCount_ \in Int /\ size_ \in 0 .. SizeMod - 1
      BY DEF Types
    <3>2. (size_ - 1) % SizeMod \in 0 .. SizeMod - 1
      BY <3>1, Wraps, SPMCAssumption
    <3> QED
     BY <1>1, <3>1, <3>2
       DEF ConsumerStep, PopStep, PopEnter, PopLoadPush, PopLoadPop, PopReloadPush,
       PopLoadHead, PopCheckId, PopLoadNext, PopClaimFirst, PopClaim, TryMovePopIndex,
       PopCasHead, RetirePtr, PopTake, PopTakeFirst, Take, PopLeave, PopUncount, StealStep,
       ThiefTest, SizeLoadPush, SizeLoadPop, SizeReload, OwnerTest
  <2>8. retired' \in [Consumers -> SUBSET Nodes]
    <3>1. retired \in [Consumers -> SUBSET Nodes] /\ loc[c].cur \in Nodes
      BY <1>l, Records DEF Types
    <3> QED
     BY <1>1, <3>1
       DEF ConsumerStep, PopStep, PopEnter, PopLoadPush, PopLoadPop, PopReloadPush,
       PopLoadHead, PopCheckId, PopLoadNext, PopClaimFirst, PopClaim, TryMovePopIndex,
       PopCasHead, RetirePtr, PopTake, PopTakeFirst, Take, PopLeave, PopUncount, StealStep,
       ThiefTest, SizeLoadPush, SizeLoadPop, SizeReload, OwnerTest
  <2> QED
    BY <1>1, <2>1, <2>2, <2>3, <2>4, <2>5, <2>6, <2>7, <2>8, <1>f DEF Types
<1>2. ASSUME NEW c \in Consumers, DeleteRetiredOf(c) PROVE Types'
  BY <1>2 DEF DeleteRetiredOf, Types
<1>3. CASE TryDeleteRetiredPtrs \/ PopTasksToWorker \/ PushCount \/ PushPublish
  <2>0. batch \in 0 .. NodeSize /\ sweep \in SUBSET Consumers /\ size_ \in 0 .. SizeMod - 1
    BY DEF Types
  <2>1. pc' \in [Consumers -> Labels] /\ \A d \in Consumers : pc'[d] \in PcOf(d)
    BY <1>0, <1>3, <1>p DEF TryDeleteRetiredPtrs, PopTasksToWorker, PushCount, PushPublish, PcOf,
       Labels, Nums
  <2>2. pushIndex_' \in 0 .. MaxPush
    BY <1>0, <1>3, <1>b DEF TryDeleteRetiredPtrs, PopTasksToWorker, PushCount, PushPublish,
       Indices, Nums
  <2>3. size_' \in 0 .. SizeMod - 1
    <3>1. (size_ + 1) % SizeMod \in 0 .. SizeMod - 1
      BY <2>0, Wraps, SPMCAssumption
    <3> QED
      BY <1>3, <2>0, <3>1 DEF TryDeleteRetiredPtrs, PopTasksToWorker, PushCount, PushPublish
  <2>4. batch' \in 0 .. NodeSize /\ sweep' \in SUBSET Consumers
    BY <1>0, <1>3, <2>0 DEF TryDeleteRetiredPtrs, PopTasksToWorker, PushCount, PushPublish,
       Indices, Nums
  <2> QED
    BY <1>3, <2>1, <2>2, <2>3, <2>4
       DEF TryDeleteRetiredPtrs, PopTasksToWorker, PushCount, PushPublish, Types
<1>4. CASE PushWrite
  <2>1. pushIndex_ < MaxPush /\ pushIndex_ \in Tasks
    BY <1>0, <1>4 DEF PushWrite, Indices, Tasks, Nums
  <2>2. GetBufferIndex(pushIndex_) \in 0 .. NodeSize - 1 /\ GetNodeId(pushIndex_) \in Nodes
    BY <1>0, <1>b, Division DEF Nums
  <2>3. ASSUME GetBufferIndex(pushIndex_) = 0, pushIndex_ # 0
        PROVE  tail_ + 1 = GetNodeId(pushIndex_)
    <3>1. pushIndex_ - 1 \in Nat /\ pushIndex_ = (pushIndex_ - 1) + 1
      BY <1>0, <2>3 DEF Nums
    <3>2. tail_ = GetNodeId(pushIndex_ - 1)
      BY <1>4, <2>3 DEF PushWrite, Indices, NodeOf
    <3> QED
      BY <2>3, <3>1, <3>2, Division
  <2>4. pc' \in [Consumers -> Labels] /\ \A d \in Consumers : pc'[d] \in PcOf(d)
    BY <1>0, <1>4, <1>p DEF PushWrite, PcOf, Labels, Nums
  <2>5. next \in [Nodes -> Nodes \cup {None}]
    BY DEF Types
  <2>6. CASE GetBufferIndex(pushIndex_) = 0 /\ pushIndex_ # 0
    <3>1. /\ tail_' \in Nodes /\ next' \in [Nodes -> Nodes \cup {None}]
          /\ buffer' \in [Nodes -> [0 .. NodeSize - 1 -> Tasks \cup {None}]]
      <4>1. tail_ + 1 \in Nodes
        BY <2>2, <2>3, <2>6
      <4>2. /\ buffer' = [buffer EXCEPT ![tail_ + 1][0] = pushIndex_] /\ tail_' = tail_ + 1
            /\ next' = [next EXCEPT ![tail_] = tail_ + 1]
        BY <1>4, <2>6 DEF PushWrite
      <4> QED
        BY <1>a, <1>b, <1>v, <2>1, <2>5, <4>1, <4>2
    <3> QED
      BY <1>4, <2>4, <3>1 DEF PushWrite, Types
  <2>7. CASE ~(GetBufferIndex(pushIndex_) = 0 /\ pushIndex_ # 0)
    <3>1. /\ tail_' \in Nodes /\ next' \in [Nodes -> Nodes \cup {None}]
          /\ buffer' \in [Nodes -> [0 .. NodeSize - 1 -> Tasks \cup {None}]]
      <4>1. /\ buffer' = [buffer EXCEPT ![tail_][GetBufferIndex(pushIndex_)] = pushIndex_]
            /\ next' = next /\ tail_' = tail_
        BY <1>4, <2>7 DEF PushWrite
      <4> QED
        BY <1>b, <1>v, <2>1, <2>2, <2>5, <4>1
    <3> QED
      BY <1>4, <2>4, <3>1 DEF PushWrite, Types
  <2> QED
    BY <2>6, <2>7
<1>5. CASE Destroy
  <2>1. pc' \in [Consumers -> Labels] /\ \A d \in Consumers : pc'[d] \in PcOf(d)
    BY <1>0, <1>5, <1>p DEF Destroy, PcOf, Labels, Nums
  <2>2. freed' \in SUBSET Nodes
    BY <1>5 DEF Destroy, Types
  <2> QED
    BY <1>5, <2>1, <2>2 DEF Destroy, Types
<1>6. CASE UNCHANGED vars
  BY <1>6 DEF vars, Types
<1> QED
  BY <1>1, <1>2, <1>3, <1>4, <1>5, <1>6, NextCases

-----------------------------------------------------------------------------
(* The three steps that move popIndex_ or head_, and all the others.  Only two *)
(* of them pop a task: a claim inside a node, and the swing of head_.          *)
Quiet == popIndex_' = popIndex_ /\ head_' = head_ /\ First' = First /\ Lagging' = Lagging
Claimed(c) ==
  /\ PopClaim(c) /\ pc[c] = "claim" /\ pc'[c] = "take" /\ loc[c].pop = popIndex_
  /\ loc'[c] = loc[c] /\ loc[c].cur = head_ /\ head_ = GetNodeId(popIndex_)
  /\ popIndex_ < pushIndex_ /\ popIndex_' = popIndex_ + 1 /\ head_' = head_
  /\ ~Lagging /\ ~Lagging' /\ First = popIndex_ /\ First' = popIndex_ + 1
Opened(c) ==
  /\ PopClaimFirst(c) /\ pc[c] = "claimFirst" /\ pc'[c] = "loadNext" /\ loc[c].pop = popIndex_
  /\ loc'[c] = loc[c] /\ loc[c].cur = head_ /\ GetNodeId(popIndex_) = head_ + 1
  /\ popIndex_ < pushIndex_ /\ popIndex_' = popIndex_ + 1 /\ head_' = head_
  /\ Boundary(popIndex_) /\ ~Lagging /\ Lagging' /\ First = popIndex_ /\ First' = popIndex_
Swung(c) ==
  /\ PopCasHead(c) /\ pc[c] = "casHead" /\ pc'[c] = "retire" /\ loc[c].cur = head_
  /\ loc'[c] = loc[c] /\ loc[c].nxt = head_ + 1 /\ head_' = head_ + 1
  /\ popIndex_' = popIndex_ /\ popIndex_ > 0 /\ Boundary(popIndex_ - 1)
  /\ GetNodeId(popIndex_ - 1) = head_ + 1
  /\ Lagging /\ ~Lagging' /\ First = popIndex_ - 1 /\ First' = popIndex_

LEMMA Moves ==
  ASSUME Types, Indices, HeadFits, Locals, NEW c \in Consumers, ConsumerStep(c)
  PROVE  Quiet \/ Claimed(c) \/ Opened(c) \/ Swung(c)
<1>0. Nums
  BY Numbers
<1>h. /\ Lagging => /\ First = popIndex_ - 1 /\ popIndex_ > 0 /\ Boundary(popIndex_ - 1)
                    /\ head_ + 1 = GetNodeId(popIndex_ - 1)
      /\ ~Lagging => First = popIndex_ /\ head_ = NodeOf(popIndex_)
      /\ head_ <= NodeOf(popIndex_) /\ NodeOf(popIndex_) \in Nat
  BY HeadFacts
<1>f. /\ \/ popIndex_' = popIndex_
         \/ PopClaim(c) /\ popIndex_ = loc[c].pop
         \/ PopClaimFirst(c) /\ popIndex_ = loc[c].pop
      /\ head_' = head_ \/ (PopCasHead(c) /\ head_ = loc[c].cur)
  BY ConsumerFrame
<1>p. pc \in [Consumers -> Labels] /\ loc \in [Consumers -> Loc]
  BY DEF Types
<1>n. /\ GetNodeId(popIndex_) \in Nat
      /\ popIndex_ > 0 => /\ popIndex_ - 1 \in Nat /\ GetNodeId(popIndex_ - 1) \in Nat
                          /\ GetNodeId(popIndex_ - 1) <= GetNodeId(popIndex_)
                          /\ (popIndex_ - 1) + 1 = popIndex_
  BY <1>0, Division DEF Nums
<1>1. CASE PopClaim(c) /\ popIndex_ = loc[c].pop
  <2>1. /\ pc[c] = "claim" /\ pc'[c] = "take" /\ loc'[c] = loc[c] /\ popIndex_' = popIndex_ + 1
        /\ head_' = head_ /\ UNCHANGED pushIndex_
    BY <1>1, <1>p DEF PopClaim, TryMovePopIndex, Goto, Keep, nodeVars
  <2>2. /\ loc[c].cur = GetNodeId(popIndex_) /\ popIndex_ < pushIndex_ /\ loc[c].cur <= head_
    BY <1>1, <2>1 DEF Locals, PopFits
  <2>3. head_ = GetNodeId(popIndex_)
    BY SMTT(30), <2>2, <1>0, <1>h, <1>n, Division DEF NodeOf, Nums
  <2>4. ~Lagging /\ ~Lagging'
    <3>1. (popIndex_ + 1) - 1 = popIndex_
      BY <1>0 DEF Nums
    <3> QED
      BY <2>1, <2>3, <3>1, <1>0, <1>n DEF Lagging, Nums
  <2> QED
    BY <1>1, <2>1, <2>2, <2>3, <2>4, <1>h DEF Claimed, First
<1>2. CASE PopClaimFirst(c) /\ popIndex_ = loc[c].pop
  <2>1. /\ pc[c] = "claimFirst" /\ pc'[c] = "loadNext" /\ loc'[c] = loc[c]
        /\ popIndex_' = popIndex_ + 1 /\ head_' = head_
    BY <1>2, <1>p DEF PopClaimFirst, TryMovePopIndex, Goto, Keep, nodeVars
  <2>2. Boundary(popIndex_) /\ popIndex_ < pushIndex_ /\ loc[c].cur = head_
    BY <1>2, <2>1 DEF Locals, PopFits
  <2>3. popIndex_ > 0
    BY <2>2, <1>0 DEF Boundary, Nums
  <2>4. ~Lagging
    BY <2>2, <2>3, <1>h, <1>n, Division DEF Boundary
  <2>5. GetNodeId(popIndex_) = head_ + 1
    BY <2>2, <2>3, <2>4, <1>h, <1>n, Division DEF Boundary, NodeOf
  <2>6. Lagging' /\ First' = popIndex_
    <3>1. (popIndex_ + 1) - 1 = popIndex_ /\ popIndex_ + 1 > 0 /\ head_ < head_ + 1
      BY <1>0 DEF Nums
    <3> QED
      BY <2>1, <2>5, <3>1 DEF Lagging, First
  <2> QED
    BY <1>2, <2>1, <2>2, <2>4, <2>5, <2>6, <1>h DEF Opened
<1>3. CASE PopCasHead(c) /\ head_ = loc[c].cur
  <2>1. /\ pc[c] = "casHead" /\ pc'[c] = "retire" /\ loc'[c] = loc[c]
        /\ popIndex_' = popIndex_ /\ head_' = loc[c].nxt
    BY <1>3, <1>p DEF PopCasHead, Goto, Keep, idxVars
  <2>2. Lagging /\ popIndex_ > 0 /\ loc[c].nxt = head_ + 1
    BY <1>3, <2>1 DEF Locals, PopFits, Lagging
  <2>3. ~Lagging'
    BY <2>1, <2>2, <1>h, <1>0, <1>n DEF Lagging, Nums
  <2> QED
    BY <1>3, <2>1, <2>2, <2>3, <1>h DEF Swung, First
<1>4. CASE popIndex_' = popIndex_ /\ head_' = head_
  BY <1>4 DEF Quiet, First, Lagging
<1> QED
  BY <1>f, <1>1, <1>2, <1>3, <1>4

(* What the owner's own steps leave alone. *)
Housekeeping == {"fill", "sweep", "push", "publish", "count", "test", "destroyed"}
OwnerWork ==
  \/ \E c \in Consumers : DeleteRetiredOf(c)
  \/ TryDeleteRetiredPtrs \/ PopTasksToWorker \/ PushWrite \/ PushPublish \/ PushCount
  \/ Destroy \/ UNCHANGED vars

LEMMA OwnerFrame ==
  ASSUME Types, OwnerWork
  PROVE  /\ \A d \in Consumers : d # Owner => pc'[d] = pc[d]
         /\ pc' = pc \/ (pc[Owner] \in Housekeeping /\ pc'[Owner] \in Housekeeping)
         /\ popIndex_' = popIndex_ /\ head_' = head_ /\ loc' = loc /\ val' = val
         /\ popUserCount_' = popUserCount_ /\ First' = First /\ Lagging' = Lagging
<1>p. pc \in [Consumers -> Labels] /\ Owner \in Consumers
  BY DEF Types, Consumers
<1> USE <1>p DEF Goto, Keep, idxVars, nodeVars, memVars, locals, ownVars, Housekeeping
<1>1. CASE \E c \in Consumers : DeleteRetiredOf(c)
  BY <1>1 DEF DeleteRetiredOf, First, Lagging
<1>2. CASE TryDeleteRetiredPtrs \/ PopTasksToWorker \/ PushCount \/ PushPublish
  BY <1>2 DEF TryDeleteRetiredPtrs, PopTasksToWorker, PushCount, PushPublish, First, Lagging
<1>3. CASE PushWrite
  BY <1>3 DEF PushWrite, First, Lagging
<1>4. CASE Destroy
  BY <1>4 DEF Destroy, First, Lagging
<1>5. CASE UNCHANGED vars
  BY <1>5 DEF vars, First, Lagging
<1> QED
  BY <1>1, <1>2, <1>3, <1>4, <1>5 DEF OwnerWork

LEMMA Steps ==
  ASSUME [Next]_vars PROVE OwnerWork \/ \E c \in Consumers : ConsumerStep(c)
BY NextCases DEF OwnerWork

(* The indices stay in order, and the list ends at the node being filled. *)
LEMMA IndicesNext ==
  ASSUME Types, Indices, HeadFits, Locals, [Next]_vars
  PROVE  Indices'
<1>0. Nums
  BY Numbers
<1>p. /\ pc \in [Consumers -> Labels] /\ Owner \in Consumers
      /\ next \in [Nodes -> Nodes \cup {None}] /\ tail_ \in Nodes
  BY DEF Types, Consumers
<1>1. ASSUME NEW c \in Consumers, ConsumerStep(c) PROVE Indices'
  <2>1. /\ \A d \in Consumers \ {c} : pc'[d] = pc[d]
        /\ pushIndex_' = pushIndex_ /\ tail_' = tail_ /\ next' = next /\ batch' = batch
        /\ pc[c] \notin {"push", "publish", "count"}
        /\ pc'[c] \notin {"push", "publish", "count"}
    BY <1>1, ConsumerFrame
  <2>2. popIndex_' <= pushIndex_
    <3>1. Quiet \/ Claimed(c) \/ Opened(c) \/ Swung(c)
      BY <1>1, Moves
    <3> QED
      BY <1>0, <3>1 DEF Quiet, Claimed, Opened, Swung, Nums, Indices
  <2>3. NodeOf(pushIndex_)' = NodeOf(pushIndex_) /\ GetNodeId(pushIndex_)' = GetNodeId(pushIndex_)
    BY <2>1 DEF NodeOf, GetNodeId
  <2>4. c = Owner => pc[Owner] # "publish" /\ pc'[Owner] # "publish"
    BY <2>1
  <2> QED
    BY <1>0, <1>p, <2>1, <2>2, <2>3, <2>4 DEF Indices
<1> USE DEF Goto, Keep, idxVars, nodeVars, memVars, locals, ownVars
<1>2. CASE (\E c \in Consumers : DeleteRetiredOf(c)) \/ TryDeleteRetiredPtrs \/ Destroy
           \/ PopTasksToWorker \/ UNCHANGED vars
  <2>1. /\ pushIndex_' = pushIndex_ /\ tail_' = tail_ /\ next' = next /\ popIndex_' = popIndex_
        /\ pc' = pc \/ (pc[Owner] # "publish" /\ pc'[Owner] \notin {"publish", "count"})
        /\ pc'[Owner] = "push" => batch' > 0 /\ pushIndex_ + batch' <= MaxPush
        /\ (pc' = pc /\ batch' = batch) \/ pc'[Owner] \notin {"publish", "count"}
    BY <1>0, <1>2, <1>p DEF DeleteRetiredOf, TryDeleteRetiredPtrs, Destroy, PopTasksToWorker, vars,
       Nums, Indices
  <2>2. NodeOf(pushIndex_)' = NodeOf(pushIndex_) /\ GetNodeId(pushIndex_)' = GetNodeId(pushIndex_)
    BY <2>1 DEF NodeOf, GetNodeId
  <2> QED
    BY <1>0, <2>1, <2>2 DEF Indices
<1>3. CASE PushWrite
  <2>1. pc[Owner] = "push" /\ pc'[Owner] = "publish" /\ pushIndex_' = pushIndex_
        /\ popIndex_' = popIndex_ /\ batch' = batch
    BY <1>3, <1>p DEF PushWrite
  <2>2. GetNodeId(pushIndex_)' = GetNodeId(pushIndex_)
    BY <2>1 DEF GetNodeId
  <2>3. tail_ = NodeOf(pushIndex_)
    BY <2>1 DEF Indices
  <2>4. CASE Boundary(pushIndex_)
    <3>1. tail_' = tail_ + 1 /\ next' = [next EXCEPT ![tail_] = tail_ + 1]
      BY <1>3, <2>4 DEF PushWrite, Boundary
    <3>2. pushIndex_ - 1 \in Nat /\ pushIndex_ = (pushIndex_ - 1) + 1
      BY <1>0, <2>4 DEF Boundary, Nums
    <3>3. GetNodeId(pushIndex_) = tail_ + 1
      BY <2>3, <2>4, <3>2, Division DEF Boundary, NodeOf
    <3>4. \A n \in Nodes : next'[n] = IF n < tail_' THEN n + 1 ELSE None
      <4>1. \A n \in Nodes : next[n] = IF n < tail_ THEN n + 1 ELSE None
        BY DEF Indices
      <4> QED
        BY <1>0, <1>p, <3>1, <4>1 DEF Nums
    <3> QED
      BY <2>1, <2>2, <3>1, <3>3, <3>4 DEF Indices
  <2>5. CASE ~Boundary(pushIndex_)
    <3>1. tail_' = tail_ /\ next' = next
      BY <1>3, <2>5 DEF PushWrite, Boundary
    <3>2. pushIndex_ # 0 => pushIndex_ - 1 \in Nat /\ pushIndex_ = (pushIndex_ - 1) + 1
      BY <1>0 DEF Nums
    <3>3. GetNodeId(pushIndex_) = tail_
      BY <1>0, <2>3, <2>5, <3>2, Division DEF Boundary, NodeOf, Nums
    <3> QED
      BY <2>1, <2>2, <3>1, <3>3 DEF Indices
  <2> QED
    BY <2>4, <2>5
<1>4. CASE PushPublish
  <2>1. pc[Owner] = "publish" /\ pc'[Owner] = "count" /\ pushIndex_' = pushIndex_ + 1
        /\ popIndex_' = popIndex_ /\ batch' = batch /\ tail_' = tail_ /\ next' = next
    BY <1>4, <1>p DEF PushPublish
  <2>2. NodeOf(pushIndex_)' = GetNodeId(pushIndex_)
    <3>1. pushIndex_ + 1 # 0 /\ (pushIndex_ + 1) - 1 = pushIndex_
      BY <1>0 DEF Nums
    <3> QED
      BY <2>1, <3>1 DEF NodeOf
  <2> QED
    BY <1>0, <2>1, <2>2 DEF Indices, Nums
<1>5. CASE PushCount
  <2>1. pc[Owner] = "count" /\ pc'[Owner] = (IF batch = 1 THEN "test" ELSE "push")
        /\ pushIndex_' = pushIndex_
        /\ popIndex_' = popIndex_ /\ batch' = batch - 1 /\ tail_' = tail_ /\ next' = next
    BY <1>5, <1>p DEF PushCount
  <2>2. NodeOf(pushIndex_)' = NodeOf(pushIndex_)
    BY <2>1 DEF NodeOf
  <2> QED
    BY <1>0, <2>1, <2>2 DEF Indices, Nums
<1> QED
  BY <1>1, <1>2, <1>3, <1>4, <1>5, NextCases

(* head_ falls behind by at most one node, and only with someone about to move it. *)
LEMMA HeadFitsNext ==
  ASSUME Types, Indices, HeadFits, Locals, [Next]_vars
  PROVE  HeadFits'
<1>0. Nums
  BY Numbers
<1>p. pc \in [Consumers -> Labels] /\ loc \in [Consumers -> Loc]
  BY DEF Types
<1>1. ASSUME NEW c \in Consumers, ConsumerStep(c) PROVE HeadFits'
  <2>0. \A d \in Consumers \ {c} : pc'[d] = pc[d] /\ loc'[d] = loc[d]
    BY <1>1, ConsumerFrame
  <2>1. CASE Quiet
    <3>1. NodeOf(popIndex_)' = NodeOf(popIndex_) /\ Boundary(popIndex_ - 1)' = Boundary(popIndex_ - 1)
          /\ GetNodeId(popIndex_ - 1)' = GetNodeId(popIndex_ - 1)
          /\ popIndex_' = popIndex_ /\ head_' = head_
      BY <2>1 DEF Quiet, NodeOf, Boundary, GetNodeId, GetBufferIndex
    <3>2. ASSUME pc[c] \in {"loadNext", "casHead"}, loc[c].cur = head_
          PROVE  pc'[c] \in {"loadNext", "casHead"} /\ loc'[c].cur = head_
      <4>1. PopLoadNext(c) \/ PopCasHead(c)
        BY <1>1, <3>2, SPMCAssumption DEF ConsumerStep, PopStep, PopEnter, PopLoadPush, PopLoadPop, PopReloadPush,
           PopLoadHead, PopCheckId, PopClaimFirst, PopClaim, TryMovePopIndex, RetirePtr,
           PopTake, PopTakeFirst, PopLeave, PopUncount, StealStep, ThiefTest, SizeLoadPush,
           SizeLoadPop, SizeReload, OwnerTest, Goto
      <4>2. CASE PopLoadNext(c)
        BY <1>p, <3>2, <4>2 DEF PopLoadNext, Goto, Keep, Loc
      <4>3. CASE PopCasHead(c)
        <5>1. pc[c] = "casHead" /\ head_' = loc[c].nxt
          BY <3>2, <4>3 DEF PopCasHead, Goto
        <5>2. loc[c].nxt = head_ + 1
          BY <3>2, <5>1 DEF Locals, PopFits
        <5> QED
          BY <1>0, <3>1, <5>1, <5>2 DEF Nums
      <4> QED
        BY <4>1, <4>2, <4>3
    <3> QED
      BY <2>0, <3>1, <3>2 DEF HeadFits
  <2>2. CASE Claimed(c) \/ Opened(c)
    <3>1. popIndex_' > 0 /\ popIndex_' - 1 = popIndex_ /\ popIndex_' # 0
      BY <1>0, <2>2 DEF Claimed, Opened, Nums
    <3>2. NodeOf(popIndex_)' = GetNodeId(popIndex_)
          /\ Boundary(popIndex_ - 1)' = Boundary(popIndex_)
          /\ GetNodeId(popIndex_ - 1)' = GetNodeId(popIndex_)
      BY <3>1 DEF NodeOf, Boundary, GetNodeId, GetBufferIndex
    <3> QED
      BY <2>2, <3>1, <3>2 DEF Claimed, Opened, HeadFits
  <2>3. CASE Swung(c)
    BY <1>0, <2>3 DEF Swung, HeadFits, NodeOf, GetNodeId, Nums
  <2> QED
    BY <1>1, <2>1, <2>2, <2>3, Moves
<1>2. CASE OwnerWork
  <2>1. /\ \A d \in Consumers : d # Owner => pc'[d] = pc[d]
        /\ pc' = pc \/ (pc[Owner] \in Housekeeping /\ pc'[Owner] \in Housekeeping)
        /\ popIndex_' = popIndex_ /\ head_' = head_ /\ loc' = loc
    BY <1>2, OwnerFrame
  <2>2. \A d \in Consumers : pc[d] \in {"loadNext", "casHead"} => pc'[d] \in {"loadNext", "casHead"}
    BY <2>1 DEF Housekeeping
  <2> QED
    BY <2>1, <2>2 DEF HeadFits, NodeOf, Boundary, GetNodeId, GetBufferIndex
<1> QED
  BY <1>1, <1>2, Steps

(* What a consumer knows outlives the steps of the others: the indices and *)
(* head_ only grow, and head_ does not move while the next index opens a    *)
(* node.                                                                    *)
LEMMA OthersKeep ==
  ASSUME Types, Indices, HeadFits, Locals, NEW c \in Consumers, ConsumerStep(c),
         NEW d \in Consumers, d # c
  PROVE  PopFits(d)'
<1>0. Nums
  BY Numbers
<1>1. pc'[d] = pc[d] /\ loc'[d] = loc[d] /\ val'[d] = val[d] /\ pushIndex_' = pushIndex_
  BY ConsumerFrame
<1>2. PopFits(d)
  BY DEF Locals
<1>3. Quiet \/ Claimed(c) \/ Opened(c) \/ Swung(c)
  BY Moves
<1>4. popIndex_ <= popIndex_' /\ head_ <= head_' /\ popIndex_' \in Nat /\ head_' \in Nat
  BY <1>0, <1>3 DEF Quiet, Claimed, Opened, Swung, Nums
<1>5. popIndex_ > 0 => /\ popIndex_' > 0 /\ GetNodeId(popIndex_ - 1) <= GetNodeId(popIndex_' - 1)
                       /\ GetNodeId(popIndex_ - 1) \in Nat /\ GetNodeId(popIndex_' - 1) \in Nat
  <2>1. popIndex_ > 0 => /\ popIndex_ - 1 \in Nat /\ popIndex_' - 1 \in Nat
                         /\ popIndex_ - 1 <= popIndex_' - 1 /\ popIndex_' > 0
    <3>1. popIndex_ \in Nat /\ popIndex_' \in Nat /\ popIndex_ <= popIndex_'
      BY <1>0, <1>4 DEF Nums
    <3> HIDE <1>4
    <3>2. \A m \in Nat, n \in Nat :
            m > 0 /\ m <= n => m - 1 \in Nat /\ n - 1 \in Nat /\ m - 1 <= n - 1 /\ n > 0
      OBVIOUS
    <3> QED
      BY <3>1, <3>2
  <2> QED
    BY <2>1, Division
<1>6. ASSUME pc[d] \in {"checkId", "claimFirst"}, loc[d].pop = popIndex_', Boundary(popIndex_')
      PROVE  loc[d].cur = head_'
  <2>1. loc[d].pop <= popIndex_
    BY <1>2, <1>6 DEF PopFits
  <2>2. CASE Quiet
    BY <1>2, <1>6, <2>2 DEF PopFits, Quiet
  <2>3. CASE Claimed(c) \/ Opened(c)
    BY <1>0, <1>6, <2>1, <2>3 DEF Claimed, Opened, Nums
  <2>4. CASE Swung(c)
    <3>1. Boundary(popIndex_ - 1) /\ Boundary(popIndex_) /\ popIndex_ - 1 \in Nat
          /\ popIndex_ = (popIndex_ - 1) + 1
      BY <1>0, <1>6, <2>4 DEF Swung, Nums
    <3> QED
      BY <3>1, Division DEF Boundary
  <2> QED
    BY <1>3, <2>2, <2>3, <2>4
<1>7. /\ Boundary(popIndex_)' = Boundary(popIndex_')
      /\ GetNodeId(popIndex_ - 1)' = GetNodeId(popIndex_' - 1)
      /\ Boundary(loc[d].pop)' = Boundary(loc[d].pop)
      /\ GetNodeId(loc[d].pop)' = GetNodeId(loc[d].pop)
  BY <1>1 DEF Boundary, GetNodeId, GetBufferIndex
<1>8. /\ pushIndex_ \in Nat /\ popIndex_ \in Nat /\ head_ \in Nat
      /\ loc[d].push \in Nat /\ loc[d].pop \in Nat /\ loc[d].cur \in Nat
  BY <1>0 DEF Nums
<1> QED
  BY <1>1, <1>2, <1>4, <1>5, <1>6, <1>7, <1>8 DEF PopFits

(* A consumer about to take a task finds it in its slot. *)
LEMMA SlotFull ==
  ASSUME Types, Contents, Indices, HeadFits, NEW c \in Consumers
  PROVE  /\ pc[c] = "take" => /\ buffer[loc[c].cur][GetBufferIndex(loc[c].pop)] = loc[c].pop
                              /\ loc[c].pop \in Nat
         /\ pc[c] \in {"retire", "takeFirst"} => buffer[loc[c].nxt][0] \in Nat
<1>0. Nums
  BY Numbers
<1>1. First \in Nat
  BY HeadFacts
<1>2. ASSUME pc[c] \in {"retire", "take", "takeFirst"}
      PROVE  \E i \in Nat : Claims(c, i) /\ Slot(i) = i
  BY <1>1, <1>2 DEF Contents
<1> QED
  BY <1>0, <1>2 DEF Claims, Slot, Nums

(* The same for the consumer that takes the step. *)
LEMMA SelfKeeps ==
  ASSUME Types, Indices, HeadFits, Locals, Contents, NEW c \in Consumers, ConsumerStep(c)
  PROVE  PopFits(c)'
<1>0. Nums
  BY Numbers
<1>p. /\ pc \in [Consumers -> Labels] /\ loc \in [Consumers -> Loc]
      /\ val \in [Consumers -> Tasks \cup {None}]
  BY DEF Types
<1>m. Quiet \/ Claimed(c) \/ Opened(c) \/ Swung(c)
  BY Moves
<1>i. PopFits(c) /\ popIndex_ <= pushIndex_
  BY DEF Locals, Indices
<1> USE DEF Goto, Keep, idxVars, nodeVars, memVars, locals, ownVars, Fresh
<1>1. CASE PopEnter(c) \/ PopLoadPush(c) \/ PopReloadPush(c) \/ PopLeave(c) \/ PopUncount(c)
  BY <1>0, <1>p, <1>i, <1>1 DEF PopEnter, PopLoadPush, PopReloadPush, PopLeave, PopUncount,
     PopFits, Nums, Loc
<1>2. CASE PopLoadPop(c)
  <2>0. /\ pc[c] = "loadPop" /\ popIndex_' = popIndex_ /\ pushIndex_' = pushIndex_
        /\ head_' = head_ /\ val'[c] = val[c]
    BY <1>p, <1>2 DEF PopLoadPop
  <2>1. /\ loc[c].push < popIndex_ => pc'[c] = "load"
        /\ loc[c].push = popIndex_ => pc'[c] = "reload" /\ loc'[c] = loc[c]
        /\ loc[c].push > popIndex_ => pc'[c] = "loadHead" /\ loc'[c].pop = popIndex_
    BY <1>0, <1>p, <1>2 DEF PopLoadPop, Nums
  <2>2. /\ loc[c].push \in Nat /\ popIndex_ \in Nat /\ loc[c].push <= pushIndex_
        /\ pushIndex_ \in Nat /\ val[c] = None
    BY <1>0, <1>i, <2>0 DEF PopFits, Nums
  <2> QED
    BY <2>0, <2>1, <2>2 DEF PopFits
<1>3. CASE PopLoadHead(c)
  BY <1>0, <1>p, <1>i, <1>3 DEF PopLoadHead, PopFits, Nums, Loc
<1>4. CASE PopCheckId(c)
  <2>0. /\ pc[c] = "checkId" /\ popIndex_' = popIndex_ /\ pushIndex_' = pushIndex_
        /\ head_' = head_ /\ val'[c] = val[c] /\ loc'[c] \in {Fresh, loc[c]}
    BY <1>p, <1>4 DEF PopCheckId
  <2>1. pc'[c] \in {"load", "claimFirst", "loadNext", "claim"}
    BY <1>p, <1>4 DEF PopCheckId
  <2>2. CASE pc'[c] = "load"
    BY <1>i, <2>0, <2>2 DEF PopFits
  <2>3. CASE pc'[c] = "claimFirst"
    <3>1. loc'[c] = loc[c] /\ Boundary(loc[c].pop)
      BY <1>p, <1>4, <2>3 DEF PopCheckId, Boundary
    <3> QED
      BY <1>i, <2>0, <2>3, <3>1 DEF PopFits, Boundary, GetBufferIndex, GetNodeId
  <2>4. CASE pc'[c] = "claim"
    <3>1. loc'[c] = loc[c] /\ ~Boundary(loc[c].pop) /\ loc[c].cur = GetNodeId(loc[c].pop)
      BY <1>0, <1>p, <1>4, <2>4, Division DEF PopCheckId, Boundary, Nums
    <3> QED
      BY <1>i, <2>0, <2>4, <3>1 DEF PopFits, Boundary, GetBufferIndex, GetNodeId
  <2>5. CASE pc'[c] = "loadNext"
    <3>1. loc'[c] = loc[c] /\ ~Boundary(loc[c].pop) /\ loc[c].cur < GetNodeId(loc[c].pop)
      BY <1>p, <1>4, <2>5 DEF PopCheckId, Boundary
    <3>2. loc[c].pop # 0
      BY <1>0, <3>1, Division DEF Nums
    <3>3. /\ loc[c].pop - 1 \in Nat /\ loc[c].pop = (loc[c].pop - 1) + 1 /\ popIndex_ > 0
          /\ popIndex_ - 1 \in Nat /\ loc[c].pop - 1 <= popIndex_ - 1
      BY <1>0, <1>i, <2>0, <3>2 DEF Nums, PopFits
    <3>4. GetNodeId(loc[c].pop) <= GetNodeId(popIndex_ - 1)
      BY <3>1, <3>3, Division DEF Boundary
    <3>5. loc[c].cur < GetNodeId(popIndex_ - 1)
      <4>1. /\ loc[c].cur \in Nat /\ GetNodeId(loc[c].pop) \in Nat
            /\ GetNodeId(popIndex_ - 1) \in Nat
        BY <1>0, <3>3, Division DEF Nums
      <4> QED
        BY <3>1, <3>4, <4>1
    <3> QED
      BY <1>i, <2>0, <2>5, <3>1, <3>3, <3>5 DEF PopFits, GetNodeId
  <2> QED
    BY <2>1, <2>2, <2>3, <2>4, <2>5
<1>5. CASE PopClaimFirst(c) \/ PopClaim(c)
  <2>0. /\ pc[c] \in {"claimFirst", "claim"} /\ val'[c] = val[c] /\ pushIndex_' = pushIndex_
        /\ pc'[c] \in {"load", "take", "loadNext"}
        /\ pc'[c] = "loadNext" => PopClaimFirst(c) /\ popIndex_ = loc[c].pop
    BY <1>p, <1>5 DEF PopClaimFirst, PopClaim, TryMovePopIndex
  <2>1. CASE pc'[c] = "loadNext"
    <3>1. popIndex_' = popIndex_ + 1 /\ loc'[c] = loc[c] /\ head_' = head_
      BY <1>p, <2>0, <2>1 DEF PopClaimFirst, TryMovePopIndex
    <3>2. Opened(c)
      BY <1>0, <1>m, <2>1, <3>1 DEF Quiet, Claimed, Opened, Swung, Nums
    <3>3. popIndex_' > 0 /\ popIndex_' - 1 = popIndex_
      BY <1>0, <3>1 DEF Nums
    <3>4. GetNodeId(popIndex_ - 1)' = head_ + 1
      BY <3>2, <3>3 DEF Opened, GetNodeId
    <3> QED
      BY <1>0, <1>i, <2>0, <2>1, <3>1, <3>2, <3>3, <3>4 DEF PopFits, Opened, Nums
  <2>2. CASE pc'[c] # "loadNext"
    BY <1>i, <2>0, <2>2 DEF PopFits
  <2> QED
    BY <2>1, <2>2
<1>6. CASE PopLoadNext(c)
  <2>0. /\ pc[c] = "loadNext" /\ popIndex_' = popIndex_ /\ pushIndex_' = pushIndex_
        /\ head_' = head_ /\ val'[c] = val[c] /\ pc'[c] = "casHead"
        /\ loc'[c].cur = loc[c].cur /\ loc'[c].nxt = next[loc[c].cur]
    BY <1>p, <1>6 DEF PopLoadNext, Loc
  <2>1. popIndex_ > 0 /\ loc[c].cur < GetNodeId(popIndex_ - 1)
    BY <1>i, <2>0 DEF PopFits
  <2>2. NodeOf(popIndex_) <= tail_ /\ NodeOf(popIndex_) \in Nat
    BY <1>0, HeadFacts DEF Nums
  <2>3. next[loc[c].cur] = loc[c].cur + 1
    BY <1>0, <2>1, <2>2 DEF Indices, Nums, NodeOf
  <2> QED
    BY <1>i, <2>0, <2>1, <2>3 DEF PopFits, GetNodeId
<1>7. CASE PopCasHead(c)
  <2>0. /\ pc[c] = "casHead" /\ val'[c] = val[c]
        /\ pc'[c] \in {"load", "retire"}
        /\ pc'[c] = "retire" => head_ = loc[c].cur /\ head_' = loc[c].nxt /\ loc'[c] = loc[c]
    BY <1>p, <1>7 DEF PopCasHead
  <2> QED
    BY <1>0, <1>i, <2>0 DEF PopFits, Nums
<1>8. CASE RetirePtr(c)
  BY <1>p, <1>i, <1>8 DEF RetirePtr, PopFits
<1>9. CASE PopTake(c) \/ PopTakeFirst(c)
  <2>1. pc'[c] = "uncount" /\ val'[c] # None
    BY <1>p, <1>9, SlotFull, SPMCAssumption DEF PopTake, PopTakeFirst, Take
  <2> QED
    BY <2>1 DEF PopFits
<1>10. CASE StealStep(c)
  BY <1>0, <1>p, <1>i, <1>10 DEF StealStep, ThiefTest, SizeLoadPush, SizeLoadPop, SizeReload,
     PopFits, Nums, Loc
<1>11. CASE c = Owner /\ OwnerTest
  BY <1>p, <1>i, <1>11 DEF OwnerTest, PopFits
<1> QED
  BY <1>1, <1>2, <1>3, <1>4, <1>5, <1>6, <1>7, <1>8, <1>9, <1>10, <1>11
     DEF ConsumerStep, PopStep

LEMMA LocalsNext ==
  ASSUME Types, Indices, HeadFits, Locals, Contents, [Next]_vars
  PROVE  Locals'
<1>0. Nums
  BY Numbers
<1>1. ASSUME NEW c \in Consumers, ConsumerStep(c), NEW d \in Consumers PROVE PopFits(d)'
  BY <1>1, OthersKeep, SelfKeeps
<1>2. ASSUME OwnerWork, NEW d \in Consumers PROVE PopFits(d)'
  <2>1. /\ d # Owner => pc'[d] = pc[d]
        /\ pc' = pc \/ (pc[Owner] \in Housekeeping /\ pc'[Owner] \in Housekeeping)
        /\ popIndex_' = popIndex_ /\ head_' = head_ /\ loc' = loc /\ val' = val
    BY <1>2, OwnerFrame
  <2>2. pushIndex_ <= pushIndex_' /\ pushIndex_' \in Nat
    BY <1>0, <1>2 DEF OwnerWork, DeleteRetiredOf, TryDeleteRetiredPtrs, PopTasksToWorker,
       PushWrite, PushPublish, PushCount, Destroy, vars, idxVars, Nums
  <2>3. PopFits(d)
    BY DEF Locals
  <2>4. CASE d = Owner /\ pc' # pc
    BY <2>1, <2>3, <2>4 DEF PopFits, Housekeeping
  <2>5. CASE ~(d = Owner /\ pc' # pc)
    BY <1>0, <2>1, <2>2, <2>3, <2>5 DEF PopFits, Boundary, GetNodeId, GetBufferIndex, Nums
  <2> QED
    BY <2>4, <2>5
<1> QED
  BY <1>1, <1>2, Steps DEF Locals

-----------------------------------------------------------------------------
(* Indices name different slots. *)
LEMMA SlotWrite ==
  ASSUME Types, NEW i \in 0 .. MaxPush, NEW v,
         buffer' = [buffer EXCEPT ![GetNodeId(i)][GetBufferIndex(i)] = v]
  PROVE  \A j \in 0 .. MaxPush : Slot(j)' = IF j = i THEN v ELSE Slot(j)
<1>1. \A j \in 0 .. MaxPush : GetNodeId(j) \in Nodes /\ GetBufferIndex(j) \in 0 .. NodeSize - 1
  BY SPMCAssumption, Division
<1>2. buffer \in [Nodes -> [0 .. NodeSize - 1 -> Tasks \cup {None}]]
  BY DEF Types
<1>3. ASSUME NEW j \in 0 .. MaxPush PROVE Slot(j)' = IF j = i THEN v ELSE Slot(j)
  <2>1. j # i => GetNodeId(j) # GetNodeId(i) \/ GetBufferIndex(j) # GetBufferIndex(i)
    BY SPMCAssumption, Division
  <2>2. Slot(j)' = buffer'[GetNodeId(j)][GetBufferIndex(j)]
    BY DEF Slot, GetNodeId, GetBufferIndex
  <2> QED
    BY <1>1, <1>2, <2>1, <2>2 DEF Slot
<1> QED
  BY <1>3

(* PushWrite fills the slot of pushIndex_, wherever the list ends. *)
LEMMA PushSlot ==
  ASSUME Types, Indices, PushWrite
  PROVE  /\ pushIndex_ \in 0 .. MaxPush
         /\ buffer' = [buffer EXCEPT ![GetNodeId(pushIndex_)][GetBufferIndex(pushIndex_)] = pushIndex_]
<1>0. Nums
  BY Numbers
<1>1. pc[Owner] = "push" /\ tail_ = NodeOf(pushIndex_)
  BY DEF PushWrite, Goto, Indices
<1>2. pushIndex_ # 0 => pushIndex_ - 1 \in Nat /\ pushIndex_ = (pushIndex_ - 1) + 1
  BY <1>0 DEF Nums
<1>3. CASE Boundary(pushIndex_)
  <2>1. GetNodeId(pushIndex_) = tail_ + 1 /\ GetBufferIndex(pushIndex_) = 0
    BY <1>1, <1>2, <1>3, Division DEF Boundary, NodeOf
  <2> QED
    BY <1>0, <1>3, <2>1 DEF PushWrite, Boundary, Nums
<1>4. CASE ~Boundary(pushIndex_)
  <2>1. GetNodeId(pushIndex_) = tail_
    BY <1>1, <1>2, <1>4, Division DEF Boundary, NodeOf
  <2> QED
    BY <1>0, <1>4, <2>1 DEF PushWrite, Boundary, Nums
<1> QED
  BY <1>3, <1>4

(* A consumer claims one index, and it is below First. *)
LEMMA ClaimUnique ==
  ASSUME Types, Indices, HeadFits, Contents, NEW c \in Consumers, NEW i \in Nat, Claims(c, i)
  PROVE  i \in 0 .. First - 1 /\ Slot(i) = i
<1>1. First \in Nat
  BY HeadFacts
<1>2. pc[c] \in {"retire", "take", "takeFirst"}
  BY DEF Claims
<1>3. PICK j \in 0 .. First - 1 : Claims(c, j) /\ Slot(j) = j
  BY <1>2 DEF Contents
<1>4. j \in Nat
  BY <1>1, <1>3
<1>5. i = j
  BY <1>3, <1>4, Division DEF Claims
<1> QED
  BY <1>3, <1>5

(* What a step of consumer c does to the claims. *)
LEMMA ClaimsStep ==
  ASSUME Types, Indices, HeadFits, Locals, NEW c \in Consumers, ConsumerStep(c), NEW i \in Nat
  PROVE  /\ \A d \in Consumers : d # c => Claims(d, i)' = Claims(d, i)
         /\ Claims(c, i)' => Claims(c, i) \/ (i = First /\ First' = First + 1)
         /\ First' = First + 1 => (i = First => Claims(c, i)') /\ First < pushIndex_
         /\ First' # First => First' = First + 1
         /\ pc'[c] \in {"retire", "take", "takeFirst"} => PopClaim(c) \/ PopCasHead(c) \/ RetirePtr(c)
         /\ pc'[c] \in {"retire", "take", "takeFirst"} /\ First' = First =>
              (Claims(c, i) => Claims(c, i)') /\ pc[c] \in {"retire", "take", "takeFirst"}
<1>0. Nums /\ First \in Nat /\ popIndex_ <= pushIndex_
  BY Numbers, HeadFacts DEF Indices
<1>p. /\ pc \in [Consumers -> Labels] /\ loc \in [Consumers -> Loc]
  BY DEF Types
<1>m. Quiet \/ Claimed(c) \/ Opened(c) \/ Swung(c)
  BY Moves
<1>g. GetNodeId(i)' = GetNodeId(i) /\ GetBufferIndex(i)' = GetBufferIndex(i)
  BY DEF GetNodeId, GetBufferIndex
<1>1. \A d \in Consumers : d # c => Claims(d, i)' = Claims(d, i)
  <2>1. ASSUME NEW d \in Consumers, d # c PROVE pc'[d] = pc[d] /\ loc'[d] = loc[d]
    BY <2>1, ConsumerFrame
  <2> QED
    BY <2>1, <1>g DEF Claims
<1>2. First' # First => First' = First + 1
  BY <1>0, <1>m DEF Quiet, Claimed, Opened, Swung, Nums
<1>3. pc'[c] \in {"retire", "take", "takeFirst"} => PopClaim(c) \/ PopCasHead(c) \/ RetirePtr(c)
  BY <1>p, SPMCAssumption DEF ConsumerStep, PopStep, PopEnter, PopLoadPush, PopLoadPop, PopReloadPush,
     PopLoadHead, PopCheckId, PopClaimFirst, PopLoadNext, TryMovePopIndex, PopTake, PopTakeFirst,
     PopLeave, PopUncount, StealStep, ThiefTest, SizeLoadPush, SizeLoadPop, SizeReload, OwnerTest,
     Goto
<1>4. CASE Claimed(c)
  <2>1. i = First => Claims(c, i)'
    BY <1>4, <1>g DEF Claimed, Claims
  <2>2. Claims(c, i)' => i = First
    BY <1>4 DEF Claimed, Claims
  <2> QED
    BY <1>0, <1>1, <1>2, <1>3, <1>4, <2>1, <2>2 DEF Claimed, Nums
<1>5. CASE Swung(c)
  <2>1. GetBufferIndex(First) = 0 /\ GetNodeId(First) = head_ + 1 /\ (i = First => Claims(c, i)')
    BY <1>5, <1>g DEF Swung, Claims, Boundary
  <2>2. Claims(c, i)' => i = First
    BY <1>0, <1>5, <2>1, <1>g, Division DEF Swung, Claims
  <2> QED
    BY <1>0, <1>1, <1>2, <1>3, <1>5, <2>1, <2>2 DEF Swung, Nums
<1>6. CASE Quiet \/ Opened(c)
  <2>1. First' = First
    BY <1>6 DEF Quiet, Opened
  <2>2. pc'[c] \in {"retire", "take", "takeFirst"} => RetirePtr(c)
    <3>1. PopClaim(c) /\ pc'[c] \in {"retire", "take", "takeFirst"} => FALSE
      <4>1. PopClaim(c) /\ pc'[c] \in {"retire", "take", "takeFirst"}
               => pc[c] = "claim" /\ popIndex_' = popIndex_ + 1
        BY <1>p DEF PopClaim, TryMovePopIndex, Goto
      <4> QED
        BY <1>0, <1>6, <4>1 DEF Quiet, Opened, Nums
    <3>2. PopCasHead(c) /\ pc'[c] \in {"retire", "take", "takeFirst"} => FALSE
      <4>1. PopCasHead(c) /\ pc'[c] \in {"retire", "take", "takeFirst"}
               => pc[c] = "casHead" /\ head_ = loc[c].cur /\ head_' = loc[c].nxt
        BY <1>p DEF PopCasHead, Goto
      <4>2. pc[c] = "casHead" => loc[c].nxt = loc[c].cur + 1
        BY DEF Locals, PopFits
      <4> QED
        BY <1>0, <1>6, <4>1, <4>2 DEF Quiet, Opened, Nums
    <3> QED
      BY <1>3, <3>1, <3>2
  <2>3. RetirePtr(c) => /\ pc[c] = "retire" /\ pc'[c] = "takeFirst" /\ loc'[c].nxt = loc[c].nxt
    BY <1>p DEF RetirePtr, Goto, Keep, Fresh
  <2>4. Claims(c, i)' => pc'[c] \in {"retire", "take", "takeFirst"}
    BY DEF Claims
  <2>5. RetirePtr(c) => Claims(c, i)' = Claims(c, i)
    BY <2>3, <1>g DEF Claims
  <2> QED
    BY <1>0, <1>1, <1>2, <1>3, <2>1, <2>2, <2>3, <2>4, <2>5 DEF Nums
<1> QED
  BY <1>m, <1>4, <1>5, <1>6

(* A Pop empties the slot it claimed and no other. *)
LEMMA TakeSlot ==
  ASSUME Types, Indices, HeadFits, Contents, NEW c \in Consumers, PopTake(c) \/ PopTakeFirst(c)
  PROVE  \E i \in 0 .. First - 1 :
           /\ Claims(c, i) /\ i \in 0 .. MaxPush
           /\ buffer' = [buffer EXCEPT ![GetNodeId(i)][GetBufferIndex(i)] = None]
           /\ val' = [val EXCEPT ![c] = i]
<1>0. Nums /\ First \in Nat /\ First <= popIndex_
  BY Numbers, HeadFacts
<1>1. pc[c] \in {"take", "takeFirst"}
  BY DEF PopTake, PopTakeFirst, Goto
<1>2. PICK i \in 0 .. First - 1 : Claims(c, i) /\ Slot(i) = i
  BY <1>1 DEF Contents
<1>3. i \in 0 .. MaxPush
  BY <1>0, <1>2 DEF Nums
<1>4. /\ buffer' = [buffer EXCEPT ![GetNodeId(i)][GetBufferIndex(i)] = None]
      /\ val' = [val EXCEPT ![c] = Slot(i)]
  <2>1. CASE PopTake(c)
    <3>1. loc[c].pop = i /\ loc[c].cur = GetNodeId(i)
      BY <1>2, <2>1 DEF PopTake, Goto, Claims
    <3> QED
      BY <2>1, <3>1 DEF PopTake, Take, Slot
  <2>2. CASE PopTakeFirst(c)
    <3>1. GetBufferIndex(i) = 0 /\ loc[c].nxt = GetNodeId(i)
      BY <1>2, <2>2 DEF PopTakeFirst, Goto, Claims
    <3> QED
      BY <2>2, <3>1 DEF PopTakeFirst, Take, Slot
  <2> QED
    BY <2>1, <2>2
<1> QED
  BY <1>2, <1>3, <1>4

(* A slot changes only when its own claimant empties it, or before its push *)
(* is published.                                                             *)
LEMMA SlotKept ==
  ASSUME Types, Indices, HeadFits, Locals, Contents, NEW c \in Consumers, ConsumerStep(c),
         NEW i \in 0 .. MaxPush, ~Claims(c, i)
  PROVE  Slot(i)' = Slot(i)
<1>1. CASE buffer' = buffer
  BY <1>1 DEF Slot, GetNodeId, GetBufferIndex
<1>2. CASE PopTake(c) \/ PopTakeFirst(c)
  <2>1. PICK j \in 0 .. First - 1 :
           /\ Claims(c, j) /\ j \in 0 .. MaxPush
           /\ buffer' = [buffer EXCEPT ![GetNodeId(j)][GetBufferIndex(j)] = None]
    BY <1>2, TakeSlot
  <2>2. Slot(i)' = IF i = j THEN None ELSE Slot(i)
    BY <2>1, SlotWrite
  <2> QED
    BY <2>1, <2>2
<1> QED
  BY <1>1, <1>2, ConsumerFrame

LEMMA ContentsNext ==
  ASSUME Types, Indices, HeadFits, Locals, Contents, [Next]_vars
  PROVE  Contents'
<1>0. Nums /\ First \in Nat /\ First <= popIndex_ /\ popIndex_ <= pushIndex_
  BY Numbers, HeadFacts DEF Indices
<1>p. pc \in [Consumers -> Labels]
  BY DEF Types
<1>1. ASSUME NEW c \in Consumers, ConsumerStep(c) PROVE Contents'
  <2>0. /\ \A d \in Consumers \ {c} : pc'[d] = pc[d] /\ loc'[d] = loc[d]
        /\ pushIndex_' = pushIndex_
        /\ pc[c] # "publish" /\ pc'[c] # "publish"
    BY <1>1, ConsumerFrame
  <2>1. /\ First' = First \/ First' = First + 1
        /\ First' \in Nat /\ First' # First => First < pushIndex_
    <3>1. 0 \in Nat
      OBVIOUS
    <3> QED
      BY <1>0, <1>1, <3>1, ClaimsStep
  <2>2. ASSUME NEW i \in Nat, Claims(c, i) PROVE i < First
    BY <1>0, <1>1, <2>2, ClaimUnique
  <2>3. ASSUME NEW i \in First' .. pushIndex_' - 1 PROVE Slot(i)' = i
    <3>1. i \in Nat /\ i \in 0 .. MaxPush /\ i \in First .. pushIndex_ - 1 /\ i >= First
      BY <1>0, <2>0, <2>1, <2>3 DEF Nums
    <3>2. ~Claims(c, i)
      BY <1>0, <2>2, <3>1
    <3>3. Slot(i)' = Slot(i)
      BY <1>1, <3>1, <3>2, SlotKept
    <3> QED
      BY <3>1, <3>3 DEF Contents
  <2>4. pc'[Owner] = "publish" => Slot(pushIndex_)' = pushIndex_'
    <3>1. ASSUME pc'[Owner] = "publish" PROVE Slot(pushIndex_)' = pushIndex_'
      <4>1. pc[Owner] = "publish"
        BY <1>0, <2>0, <3>1 DEF Nums
      <4>2. ~Claims(c, pushIndex_) /\ pushIndex_ \in 0 .. MaxPush
        BY <1>0, <2>2 DEF Nums
      <4>3. PICK i \in 0 .. MaxPush : i = pushIndex_
        BY <4>2
      <4>4. Slot(i)' = Slot(i)
        BY <1>1, <4>2, <4>3, SlotKept
      <4>5. Slot(pushIndex_)' = Slot(i)'
        BY <2>0, <4>3 DEF Slot, GetNodeId, GetBufferIndex
      <4>6. Slot(pushIndex_) = pushIndex_
        BY <4>1 DEF Contents
      <4> QED
        BY <2>0, <4>3, <4>4, <4>5, <4>6
    <3> QED
      BY <3>1
  <2>5. ASSUME NEW d \in Consumers, pc'[d] \in {"retire", "take", "takeFirst"}
        PROVE  \E i \in 0 .. First' - 1 : Claims(d, i)' /\ Slot(i)' = i
    <3>1. CASE d # c
      <4>1. PICK i \in 0 .. First - 1 : Claims(d, i) /\ Slot(i) = i
        BY <2>0, <2>5, <3>1 DEF Contents
      <4>2. i \in 0 .. First' - 1 /\ i \in 0 .. MaxPush /\ i \in Nat
        BY <1>0, <2>1, <4>1 DEF Nums
      <4>3. ~Claims(c, i)
        BY <1>1, <3>1, <4>1 DEF Contents
      <4>4. Slot(i)' = Slot(i)
        BY <1>1, <4>2, <4>3, SlotKept
      <4>5. Claims(d, i)'
        BY <1>1, <3>1, <4>1, <4>2, ClaimsStep
      <4> QED
        BY <4>1, <4>2, <4>4, <4>5
    <3>2. CASE d = c /\ First' # First
      <4>1. PICK i \in Nat : i = First
        BY <1>0
      <4>2. Claims(c, i)' /\ First' = First + 1
        BY <1>1, <3>2, <4>1, <2>1, ClaimsStep
      <4>3. ~Claims(c, i) /\ i \in 0 .. MaxPush /\ i \in First .. pushIndex_ - 1
        BY <1>0, <2>1, <2>2, <3>2, <4>1 DEF Nums
      <4>4. Slot(i)' = Slot(i)
        BY <1>1, <4>3, SlotKept
      <4>5. i \in 0 .. First' - 1
        BY <4>1, <4>2
      <4> QED
        BY <3>2, <4>2, <4>3, <4>4, <4>5 DEF Contents
    <3>3. CASE d = c /\ First' = First
      <4>1. pc[c] \in {"retire", "take", "takeFirst"}
        <5>1. 0 \in Nat
          OBVIOUS
        <5> QED
          BY <1>1, <2>5, <3>3, <5>1, ClaimsStep
      <4>2. PICK i \in 0 .. First - 1 : Claims(c, i) /\ Slot(i) = i
        BY <1>1, <4>1 DEF Contents
      <4>3. i \in Nat
        BY <1>0, <4>2
      <4>4. Claims(c, i)'
        BY <1>1, <2>5, <3>3, <4>2, <4>3, ClaimsStep
      <4>5. Slot(i)' = Slot(i)
        <5>1. buffer' = buffer
          <6>1. pc'[c] \in {"retire", "take", "takeFirst"}
            BY <2>5, <3>3
          <6>2. ~PopTake(c) /\ ~PopTakeFirst(c)
            BY <1>1, <1>p, <6>1 DEF PopTake, PopTakeFirst, Goto
          <6> QED
            BY <1>1, <6>2, ConsumerFrame
        <5> QED
          BY <5>1 DEF Slot, GetNodeId, GetBufferIndex
      <4> QED
        BY <3>3, <4>2, <4>4, <4>5
    <3> QED
      BY <3>1, <3>2, <3>3
  <2>6. ASSUME NEW a \in Consumers, NEW b \in Consumers, NEW i \in 0 .. First' - 1,
               Claims(a, i)', Claims(b, i)'
        PROVE  a = b
    <3>1. i \in Nat
      BY <2>1, <2>6
    <3>2. \A d \in Consumers : Claims(d, i)' =>
            Claims(d, i) \/ (d = c /\ i = First)
      BY <1>1, <3>1, ClaimsStep
    <3>3. \A d \in Consumers : Claims(d, i) => i \in 0 .. First - 1
      BY <3>1, ClaimUnique
    <3>4. Claims(a, i) /\ Claims(b, i) => a = b
      BY <3>3 DEF Contents
    <3>5. i = First => i \notin 0 .. First - 1
      BY <1>0
    <3> QED
      BY <2>6, <3>2, <3>3, <3>4, <3>5
  <2> QED
    BY <2>3, <2>4, <2>5, <2>6 DEF Contents
<1>2. CASE OwnerWork
  <2>1. /\ \A d \in Consumers : d # Owner => pc'[d] = pc[d]
        /\ pc' = pc \/ (pc[Owner] \in Housekeeping /\ pc'[Owner] \in Housekeeping)
        /\ loc' = loc /\ First' = First
    BY <1>2, OwnerFrame
  <2>2. ASSUME NEW d \in Consumers
        PROVE  /\ pc'[d] \in {"retire", "take", "takeFirst"} => pc[d] = pc'[d]
               /\ \A i \in Nat : Claims(d, i)' = Claims(d, i)
    <3>1. pc'[d] = pc[d] \/ (pc[d] \in Housekeeping /\ pc'[d] \in Housekeeping)
      BY <2>1
    <3> QED
      BY <2>1, <3>1 DEF Claims, Housekeeping, GetNodeId, GetBufferIndex
  <2>3. \A i \in 0 .. pushIndex_ - 1 : Slot(i)' = Slot(i)
    <3>1. CASE PushWrite
      <4>1. \A j \in 0 .. MaxPush : Slot(j)' = IF j = pushIndex_ THEN pushIndex_ ELSE Slot(j)
        BY <3>1, PushSlot, SlotWrite
      <4> QED
        BY <1>0, <4>1 DEF Nums
    <3>2. CASE ~PushWrite
      <4>1. buffer' = buffer
        BY <1>2, <3>2 DEF OwnerWork, DeleteRetiredOf, TryDeleteRetiredPtrs, PopTasksToWorker,
           PushPublish, PushCount, Destroy, vars, nodeVars
      <4> QED
        BY <4>1 DEF Slot, GetNodeId, GetBufferIndex
    <3> QED
      BY <3>1, <3>2
  <2>4. \A i \in First .. pushIndex_ - 1 : Slot(i)' = i
    <3>1. \A i \in First .. pushIndex_ - 1 : i \in 0 .. pushIndex_ - 1
      BY <1>0
    <3> QED
      BY <2>3, <3>1 DEF Contents
  <2>5. \A i \in First' .. pushIndex_' - 1 : Slot(i)' = i
    <3>1. CASE PushPublish
      <4>1. pc[Owner] = "publish" /\ pushIndex_' = pushIndex_ + 1 /\ buffer' = buffer
        BY <3>1 DEF PushPublish, Goto, nodeVars
      <4>2. Slot(pushIndex_) = pushIndex_
        BY <4>1 DEF Contents
      <4>3. ASSUME NEW i \in First' .. pushIndex_' - 1, i = pushIndex_ PROVE Slot(i)' = i
        BY <4>1, <4>2, <4>3 DEF Slot, GetNodeId, GetBufferIndex
      <4>4. \A i \in First' .. pushIndex_' - 1 : i # pushIndex_ => i \in First .. pushIndex_ - 1
        BY <1>0, <2>1, <4>1 DEF Nums
      <4> QED
        BY <2>4, <4>3, <4>4
    <3>2. CASE ~PushPublish
      <4>1. pushIndex_' = pushIndex_
        BY <1>2, <3>2 DEF OwnerWork, DeleteRetiredOf, TryDeleteRetiredPtrs, PopTasksToWorker,
           PushWrite, PushCount, Destroy, vars, idxVars
      <4> QED
        BY <2>1, <2>4, <4>1
    <3> QED
      BY <3>1, <3>2
  <2>6. pc'[Owner] = "publish" => Slot(pushIndex_)' = pushIndex_'
    <3>1. CASE PushWrite
      <4>1. \A j \in 0 .. MaxPush : Slot(j)' = IF j = pushIndex_ THEN pushIndex_ ELSE Slot(j)
        BY <3>1, PushSlot, SlotWrite
      <4>2. PICK i \in 0 .. MaxPush : i = pushIndex_
        BY <1>0 DEF Nums
      <4>3. pushIndex_' = pushIndex_
        BY <3>1 DEF PushWrite, idxVars
      <4>4. Slot(pushIndex_)' = Slot(i)'
        BY <4>2, <4>3 DEF Slot, GetNodeId, GetBufferIndex
      <4> QED
        BY <4>1, <4>2, <4>3, <4>4
    <3>2. CASE ~PushWrite
      <4>1. pc'[Owner] = "publish" => pc[Owner] = "publish" /\ buffer' = buffer
                                      /\ pushIndex_' = pushIndex_
        BY <1>0, <1>p, <1>2, <3>2 DEF OwnerWork, DeleteRetiredOf, TryDeleteRetiredPtrs,
           PopTasksToWorker, PushPublish, PushCount, Destroy, vars, nodeVars, idxVars, Goto, Nums
      <4> QED
        BY <4>1 DEF Contents, Slot, GetNodeId, GetBufferIndex
    <3> QED
      BY <3>1, <3>2
  <2>7. ASSUME NEW d \in Consumers, pc'[d] \in {"retire", "take", "takeFirst"}
        PROVE  \E i \in 0 .. First' - 1 : Claims(d, i)' /\ Slot(i)' = i
    <3>1. PICK i \in 0 .. First - 1 : Claims(d, i) /\ Slot(i) = i
      BY <2>2, <2>7 DEF Contents
    <3>2. i \in Nat /\ i \in 0 .. pushIndex_ - 1
      BY <1>0, <3>1 DEF Nums
    <3> QED
      BY <2>1, <2>2, <2>3, <3>1, <3>2
  <2>8. ASSUME NEW a \in Consumers, NEW b \in Consumers, NEW i \in 0 .. First' - 1,
               Claims(a, i)', Claims(b, i)'
        PROVE  a = b
    <3>1. i \in Nat /\ i \in 0 .. First - 1
      BY <1>0, <2>1, <2>8
    <3> QED
      BY <2>2, <2>8, <3>1 DEF Contents
  <2> QED
    BY <2>5, <2>6, <2>7, <2>8 DEF Contents
<1> QED
  BY <1>1, <1>2, Steps

-----------------------------------------------------------------------------
(* The sets behind the two counters, when one consumer changes its label. *)
LEMMA SetMoves ==
  ASSUME NEW S, NEW T, IsFiniteSet(S), NEW c,
         \A d : d # c => (d \in T <=> d \in S)
  PROVE  /\ IsFiniteSet(T) /\ Cardinality(S) \in Nat /\ Cardinality(T) \in Nat
         /\ (c \in T <=> c \in S) => Cardinality(T) = Cardinality(S)
         /\ c \notin S /\ c \in T => Cardinality(T) = Cardinality(S) + 1
         /\ c \in S /\ c \notin T => Cardinality(T) = Cardinality(S) - 1
<1>1. CASE c \in T <=> c \in S
  <2>1. S = T
    BY <1>1
  <2> QED
    BY <1>1, <2>1, FS_CardinalityType
<1>2. CASE c \notin S /\ c \in T
  <2>1. T = S \cup {c}
    BY <1>2
  <2> QED
    BY <1>2, <2>1, FS_AddElement, FS_CardinalityType
<1>3. CASE c \in S /\ c \notin T
  <2>1. T = S \ {c}
    BY <1>3
  <2> QED
    BY <1>3, <2>1, FS_RemoveElement, FS_CardinalityType
<1> QED
  BY <1>1, <1>2, <1>3

HoldLabels == {"retire", "take", "takeFirst", "uncount"}

(* Who comes and goes, and how the counters follow. *)
LEMMA Accounts ==
  ASSUME Types, Indices, HeadFits, Locals, NEW c \in Consumers, ConsumerStep(c)
  PROVE  /\ \/ (pc[c] \in InPop <=> pc'[c] \in InPop) /\ popUserCount_' = popUserCount_
            \/ pc[c] \notin InPop /\ pc'[c] \in InPop /\ popUserCount_' = popUserCount_ + 1
            \/ pc[c] \in InPop /\ pc'[c] \notin InPop /\ popUserCount_' = popUserCount_ - 1
         /\ \/ /\ pc[c] \in HoldLabels <=> pc'[c] \in HoldLabels
               /\ size_' = size_ /\ First' = First
            \/ /\ pc[c] \notin HoldLabels /\ pc'[c] \in HoldLabels
               /\ size_' = size_ /\ First' = First + 1
            \/ /\ pc[c] \in HoldLabels /\ pc'[c] \notin HoldLabels
               /\ size_' = (size_ - 1) % SizeMod /\ First' = First
<1>0. Nums /\ First \in Nat
  BY Numbers, HeadFacts
<1>p. pc \in [Consumers -> Labels]
  BY DEF Types
<1>m. Quiet \/ Claimed(c) \/ Opened(c) \/ Swung(c)
  BY Moves
<1> USE DEF Goto, Keep, idxVars, nodeVars, memVars, locals, ownVars, InPop, InLoop
<1>1. \/ (pc[c] \in InPop <=> pc'[c] \in InPop) /\ popUserCount_' = popUserCount_
      \/ pc[c] \notin InPop /\ pc'[c] \in InPop /\ popUserCount_' = popUserCount_ + 1
      \/ pc[c] \in InPop /\ pc'[c] \notin InPop /\ popUserCount_' = popUserCount_ - 1
  <2>1. CASE PopEnter(c) \/ PopLeave(c) \/ PopTake(c) \/ PopTakeFirst(c)
    BY <1>p, <2>1 DEF PopEnter, PopLeave, PopTake, PopTakeFirst, Take
  <2>2. CASE PopLoadPush(c) \/ PopLoadPop(c) \/ PopReloadPush(c) \/ PopLoadHead(c) \/ PopCheckId(c)
    BY <1>p, <2>2 DEF PopLoadPush, PopLoadPop, PopReloadPush, PopLoadHead, PopCheckId
  <2>3. CASE PopClaimFirst(c) \/ PopClaim(c) \/ PopLoadNext(c) \/ PopCasHead(c) \/ RetirePtr(c)
    BY <1>p, <2>3 DEF PopClaimFirst, PopClaim, TryMovePopIndex, PopLoadNext, PopCasHead, RetirePtr
  <2>4. CASE PopUncount(c) \/ StealStep(c) \/ (c = Owner /\ OwnerTest)
    BY <1>p, <2>4 DEF PopUncount, StealStep, ThiefTest, SizeLoadPush, SizeLoadPop, SizeReload,
       OwnerTest
  <2> QED
    BY <2>1, <2>2, <2>3, <2>4 DEF ConsumerStep, PopStep
<1> USE DEF HoldLabels
<1>2. CASE Claimed(c) \/ Swung(c)
  <2>1. size_' = size_
    BY <1>2 DEF Claimed, Swung, PopClaim, TryMovePopIndex, PopCasHead
  <2>2. First' = First + 1 /\ pc[c] \notin HoldLabels /\ pc'[c] \in HoldLabels
    BY <1>0, <1>2 DEF Claimed, Swung, Nums
  <2> QED
    BY <1>1, <2>1, <2>2
<1>3. CASE Quiet \/ Opened(c)
  <2>0. First' = First
    BY <1>3 DEF Quiet, Opened
  <2>1. CASE PopEnter(c) \/ PopLeave(c) \/ PopTake(c) \/ PopTakeFirst(c)
    <3>1. (pc[c] \in HoldLabels <=> pc'[c] \in HoldLabels) /\ size_' = size_
      BY <1>p, <2>1 DEF PopEnter, PopLeave, PopTake, PopTakeFirst, Take
    <3> QED
      BY <1>1, <2>0, <3>1
  <2>2. CASE PopLoadPush(c) \/ PopLoadPop(c) \/ PopReloadPush(c) \/ PopLoadHead(c) \/ PopCheckId(c)
    <3>1. (pc[c] \in HoldLabels <=> pc'[c] \in HoldLabels) /\ size_' = size_
      BY <1>p, <2>2 DEF PopLoadPush, PopLoadPop, PopReloadPush, PopLoadHead, PopCheckId
    <3> QED
      BY <1>1, <2>0, <3>1
  <2>3. CASE PopClaimFirst(c) \/ PopClaim(c) \/ PopLoadNext(c) \/ PopCasHead(c) \/ RetirePtr(c)
    <3>1. PopClaim(c) => pc[c] = "claim" /\ pc'[c] = "load" /\ size_' = size_
      BY <1>0, <1>p, <1>3 DEF PopClaim, TryMovePopIndex, Quiet, Opened, Nums
    <3>2. PopCasHead(c) => pc[c] = "casHead" /\ pc'[c] = "load" /\ size_' = size_
      <4>1. pc[c] = "casHead" => loc[c].nxt = loc[c].cur + 1
        BY DEF Locals, PopFits
      <4> QED
        BY <1>0, <1>p, <1>3, <4>1 DEF PopCasHead, Quiet, Opened, Nums
    <3>3. (pc[c] \in HoldLabels <=> pc'[c] \in HoldLabels) /\ size_' = size_
      BY <1>p, <2>3, <3>1, <3>2 DEF PopClaimFirst, TryMovePopIndex, PopLoadNext, RetirePtr
    <3> QED
      BY <1>1, <2>0, <3>3
  <2>4. CASE StealStep(c) \/ (c = Owner /\ OwnerTest)
    <3>1. (pc[c] \in HoldLabels <=> pc'[c] \in HoldLabels) /\ size_' = size_
      BY <1>p, <2>4 DEF StealStep, ThiefTest, SizeLoadPush, SizeLoadPop, SizeReload, OwnerTest
    <3> QED
      BY <1>1, <2>0, <3>1
  <2>5. CASE PopUncount(c)
    <3>1. /\ pc[c] \in HoldLabels /\ pc'[c] \notin HoldLabels
          /\ size_' = (size_ - 1) % SizeMod
      BY <1>p, <2>5 DEF PopUncount
    <3> QED
      BY <1>1, <2>0, <3>1
  <2> QED
    BY <2>1, <2>2, <2>3, <2>4, <2>5 DEF ConsumerStep, PopStep
<1> QED
  BY <1>m, <1>2, <1>3

LEMMA Finite == IsFiniteSet(Inside) /\ IsFiniteSet(Holding)
<1>1. Inside \subseteq Consumers /\ Holding \subseteq Consumers /\ IsFiniteSet(Consumers)
  BY SPMCAssumption DEF Inside, Holding
<1> QED
  BY <1>1, FS_Subset

(* The two counters: neither can drift, although size_ may pass through -1. *)
LEMMA CountsNext ==
  ASSUME Types, Indices, HeadFits, Locals, Contents, Counts, [Next]_vars
  PROVE  Counts'
<1>0. Nums /\ First \in Nat /\ First <= popIndex_ /\ popIndex_ <= pushIndex_
  BY Numbers, HeadFacts DEF Indices
<1>p. pc \in [Consumers -> Labels] /\ size_ \in 0 .. SizeMod - 1 /\ popUserCount_ \in Int
  BY DEF Types
<1>s. SizeMod \in Nat /\ MaxPush < SizeMod /\ MaxPush \in Nat
  BY SPMCAssumption
<1>c. Cardinality(Inside) \in Nat /\ Cardinality(Holding) \in Nat
  BY Finite, FS_CardinalityType
<1>1. ASSUME NEW c \in Consumers, ConsumerStep(c) PROVE Counts'
  <2>0. /\ \A d \in Consumers \ {c} : pc'[d] = pc[d]
        /\ pushIndex_' = pushIndex_
        /\ pc[c] # "count" /\ pc'[c] # "count"
    BY <1>1, ConsumerFrame
  <2>1. (pc'[Owner] = "count") = (pc[Owner] = "count")
    BY <1>0, <2>0 DEF Nums
  <2>2. /\ Cardinality(Inside') \in Nat
        /\ (pc[c] \in InPop <=> pc'[c] \in InPop) => Cardinality(Inside') = Cardinality(Inside)
        /\ pc[c] \notin InPop /\ pc'[c] \in InPop => Cardinality(Inside') = Cardinality(Inside) + 1
        /\ pc[c] \in InPop /\ pc'[c] \notin InPop => Cardinality(Inside') = Cardinality(Inside) - 1
    <3>1. /\ \A d : d # c => (d \in Inside' <=> d \in Inside)
          /\ c \in Inside <=> pc[c] \in InPop
          /\ c \in Inside' <=> pc'[c] \in InPop
      BY <2>0, <1>1 DEF Inside, InPop, InLoop
    <3> HIDE DEF Inside
    <3> QED
      BY <3>1, Finite, SetMoves
  <2>3. /\ Cardinality(Holding') \in Nat
        /\ (pc[c] \in HoldLabels <=> pc'[c] \in HoldLabels)
             => Cardinality(Holding') = Cardinality(Holding)
        /\ pc[c] \notin HoldLabels /\ pc'[c] \in HoldLabels
             => Cardinality(Holding') = Cardinality(Holding) + 1
        /\ pc[c] \in HoldLabels /\ pc'[c] \notin HoldLabels
             => Cardinality(Holding') = Cardinality(Holding) - 1 /\ Cardinality(Holding) > 0
    <3>1. /\ \A d : d # c => (d \in Holding' <=> d \in Holding)
          /\ c \in Holding <=> pc[c] \in HoldLabels
          /\ c \in Holding' <=> pc'[c] \in HoldLabels
      BY <2>0, <1>1 DEF Holding, HoldLabels
    <3> QED
      BY <1>c, <3>1, Finite, SetMoves
  <2>4. popUserCount_' = Cardinality(Inside')
    BY <1>1, <1>p, <1>c, <2>2, Accounts DEF Counts
  <2> DEFINE k == IF pc[Owner] = "count" THEN 1 ELSE 0
             H == Cardinality(Holding)
  <2>5. /\ Outstanding = pushIndex_ - k - First + H
        /\ Outstanding' = pushIndex_ - k - First' + Cardinality(Holding')
    BY <2>0, <2>1 DEF Outstanding
  <2>6. k \in {0, 1} /\ H \in Nat /\ H <= First /\ First <= pushIndex_ /\ First \in Nat
        /\ pushIndex_ \in Nat /\ pushIndex_ <= MaxPush
    BY <1>0, <1>c DEF Counts, Nums
  <2>7. size_ = IF Outstanding < 0 THEN Outstanding + SizeMod ELSE Outstanding
    BY DEF Counts
  <2>8. Cardinality(Holding') <= First' /\
        size_' = IF Outstanding' < 0 THEN Outstanding' + SizeMod ELSE Outstanding'
    <3> HIDE DEF k, H
    <3>1. CASE /\ pc[c] \in HoldLabels <=> pc'[c] \in HoldLabels
               /\ size_' = size_ /\ First' = First
      BY <2>3, <2>5, <2>6, <2>7, <3>1 DEF H
    <3>2. CASE /\ pc[c] \notin HoldLabels /\ pc'[c] \in HoldLabels
               /\ size_' = size_ /\ First' = First + 1
      <4>1. Cardinality(Holding') = H + 1
        BY <2>3, <3>2 DEF H
      <4>2. Outstanding' = Outstanding
        BY <2>5, <2>6, <3>2, <4>1
      <4> QED
        BY <2>6, <2>7, <3>2, <4>1, <4>2
    <3>3. CASE /\ pc[c] \in HoldLabels /\ pc'[c] \notin HoldLabels
               /\ size_' = (size_ - 1) % SizeMod /\ First' = First
      <4>1. Cardinality(Holding') = H - 1 /\ H > 0
        BY <2>3, <3>3 DEF H
      <4>2. Outstanding' = Outstanding - 1 /\ Outstanding \in Nat /\ Outstanding <= MaxPush
        BY <1>s, <2>5, <2>6, <3>3, <4>1
      <4>3. size_ = Outstanding /\ size_' = IF size_ = 0 THEN SizeMod - 1 ELSE size_ - 1
        BY <1>p, <2>7, <3>3, <4>2, Wraps
      <4> QED
        BY <1>s, <2>6, <3>3, <4>1, <4>2, <4>3
    <3> QED
      BY <1>1, <3>1, <3>2, <3>3, Accounts
  <2> QED
    BY <2>4, <2>8 DEF Counts
<1>2. CASE OwnerWork
  <2>1. /\ \A d \in Consumers : d # Owner => pc'[d] = pc[d]
        /\ pc' = pc \/ (pc[Owner] \in Housekeeping /\ pc'[Owner] \in Housekeeping)
        /\ popUserCount_' = popUserCount_ /\ First' = First
    BY <1>2, OwnerFrame
  <2>2. Inside' = Inside /\ Holding' = Holding
    BY <2>1 DEF Inside, Holding, Housekeeping, InPop, InLoop
  <2>3. CASE PushPublish
    <3>1. pc[Owner] = "publish" /\ pc'[Owner] = "count" /\ pushIndex_' = pushIndex_ + 1
          /\ size_' = size_
      BY <1>0, <1>p, <2>3 DEF PushPublish, Goto, Nums
    <3>2. Outstanding' = Outstanding
      BY <1>0, <1>c, <2>1, <2>2, <3>1 DEF Outstanding, Nums
    <3> QED
      BY <2>1, <2>2, <3>1, <3>2 DEF Counts
  <2>4. CASE PushCount
    <3>1. pc[Owner] = "count" /\ pc'[Owner] # "count" /\ pushIndex_' = pushIndex_
          /\ size_' = (size_ + 1) % SizeMod
      BY <1>0, <1>p, <2>4 DEF PushCount, Goto, Nums, idxVars
    <3>2. Outstanding' = Outstanding + 1 /\ Outstanding \in Int /\ Outstanding >= -1
      BY <1>0, <1>c, <2>1, <2>2, <3>1 DEF Outstanding, Nums
    <3>3. Outstanding + 1 <= MaxPush
      BY <1>0, <1>c, <3>1 DEF Outstanding, Counts, Nums
    <3>4. size_' = IF size_ + 1 = SizeMod THEN 0 ELSE size_ + 1
      BY <1>p, <3>1, Wraps
    <3>5. size_ = IF Outstanding < 0 THEN Outstanding + SizeMod ELSE Outstanding
      BY DEF Counts
    <3>6. size_' = IF Outstanding' < 0 THEN Outstanding' + SizeMod ELSE Outstanding'
      BY <1>s, <3>2, <3>3, <3>4, <3>5
    <3> QED
      BY <2>1, <2>2, <3>6 DEF Counts
  <2>5. CASE ~PushPublish /\ ~PushCount
    <3>1. /\ pushIndex_' = pushIndex_ /\ size_' = size_
          /\ (pc'[Owner] = "count") = (pc[Owner] = "count")
      BY <1>0, <1>p, <1>2, <2>5 DEF OwnerWork, DeleteRetiredOf, TryDeleteRetiredPtrs,
         PopTasksToWorker, PushWrite, Destroy, vars, nodeVars, idxVars, Goto, Nums
    <3>2. Outstanding' = Outstanding
      BY <2>1, <2>2, <3>1 DEF Outstanding
    <3> QED
      BY <2>1, <2>2, <3>1, <3>2 DEF Counts
  <2> QED
    BY <2>3, <2>4, <2>5
<1> QED
  BY <1>1, <1>2, Steps

(* A sweep starts with nobody in Pop and an empty queue, and ends before the *)
(* next push: whoever enters Pop meanwhile finds no task and reaches no node. *)
LEMMA SweptNext ==
  ASSUME Types, Indices, HeadFits, Locals, Contents, Counts, Swept, [Next]_vars
  PROVE  Swept'
<1>0. Nums /\ First \in Nat /\ First <= popIndex_ /\ popIndex_ <= pushIndex_
  BY Numbers, HeadFacts DEF Indices
<1>p. /\ pc \in [Consumers -> Labels] /\ \A d \in Consumers : pc[d] \in PcOf(d)
      /\ loc \in [Consumers -> Loc]
  BY DEF Types
<1>c. Cardinality(Inside) \in Nat /\ Cardinality(Holding) \in Nat
  BY Finite, FS_CardinalityType
<1>1. ASSUME NEW c \in Consumers, ConsumerStep(c) PROVE Swept'
  <2>0. /\ \A d \in Consumers \ {c} : pc'[d] = pc[d]
        /\ pushIndex_' = pushIndex_ /\ sweep' = sweep
        /\ pc[c] \notin {"sweep", "destroyed"} /\ pc'[c] \notin {"sweep", "destroyed"}
    BY <1>1, ConsumerFrame
  <2>1. popIndex_' = popIndex_ \/ (popIndex_ < pushIndex_ /\ pc'[c] \in {"take", "loadNext"})
    <3>1. Quiet \/ Claimed(c) \/ Opened(c) \/ Swung(c)
      BY <1>1, Moves
    <3> QED
      BY <3>1 DEF Quiet, Claimed, Opened, Swung
  <2>2. pc'[Owner] \in {"fill", "sweep", "leave", "destroyed"} => popIndex_' = pushIndex_'
    <3>1. CASE c # Owner
      BY <1>0, <2>0, <2>1, <3>1 DEF Swept, Nums
    <3>2. CASE c = Owner
      <4>1. ASSUME pc'[c] \in {"fill", "leave"}
            PROVE  OwnerTest \/ PopLeave(c) \/ PopReloadPush(c)
        BY <1>1, <1>p, <3>2, <4>1, SPMCAssumption
           DEF ConsumerStep, PopStep, PopEnter, PopLoadPush, PopLoadPop, PopLoadHead, PopCheckId,
               PopClaimFirst, PopClaim, TryMovePopIndex, PopLoadNext, PopCasHead, RetirePtr,
               PopTake, PopTakeFirst, PopUncount, Goto
      <4>2. ASSUME OwnerTest, pc'[c] = "fill" PROVE popIndex_ = pushIndex_
        <5>1. pc[Owner] = "test" /\ size_ = 0
          BY <1>p, <3>2, <4>2 DEF OwnerTest, Goto
        <5>2. Outstanding = pushIndex_ - First + Cardinality(Holding)
          BY <1>0, <1>c, <5>1 DEF Outstanding, Nums
        <5>3. Outstanding >= 0 /\ Outstanding \in Int
          BY <1>0, <1>c, <5>2 DEF Nums
        <5>4. Outstanding = 0
          BY <5>1, <5>3 DEF Counts
        <5> QED
          BY <1>0, <1>c, <5>2, <5>4 DEF Nums
      <4>3. ASSUME PopLeave(c) PROVE popIndex_ = pushIndex_
        BY <3>2, <4>3 DEF PopLeave, Goto, Swept
      <4>4. ASSUME PopReloadPush(c), pc'[c] = "leave" PROVE popIndex_ = pushIndex_
        <5>1. pc[c] = "reload" /\ loc[c].push = pushIndex_
          BY <1>p, <4>4 DEF PopReloadPush, Goto
        <5>2. loc[c].push <= popIndex_
          BY <5>1 DEF Locals, PopFits
        <5> QED
          BY <1>0, <5>1, <5>2 DEF Nums
      <4>5. OwnerTest => pc'[c] # "leave"
        BY <1>p, <3>2 DEF OwnerTest, Goto
      <4>6. PopReloadPush(c) => pc'[c] # "fill"
        BY <1>p, <3>2 DEF PopReloadPush, Goto
      <4>7. pc'[c] \in {"fill", "leave"} => popIndex_ = pushIndex_
        BY <4>1, <4>2, <4>3, <4>4, <4>5, <4>6
      <4> QED
        BY <1>0, <2>0, <2>1, <3>2, <4>7 DEF Nums
    <3> QED
      BY <3>1, <3>2
  <2>3. sweep' # {} => pc'[Owner] = "sweep" /\ \A d \in Consumers : pc'[d] \notin Reaching
    <3>1. ASSUME sweep # {} PROVE pc'[Owner] = "sweep" /\ pc'[c] \notin Reaching
      <4>1. pc[Owner] = "sweep" /\ pc[c] \notin Reaching /\ c # Owner /\ popIndex_ = pushIndex_
        BY <1>1, <2>0, <3>1 DEF Swept
      <4>2. pc'[c] \in Reaching => PopLoadPop(c) /\ pc'[c] = "loadHead"
        BY <1>1, <1>p, <4>1 DEF Reaching, ConsumerStep, PopStep, PopEnter, PopLoadPush, PopLoadPop,
           PopReloadPush, PopLoadHead, PopCheckId,
           PopClaimFirst, PopClaim, TryMovePopIndex, PopLoadNext, PopCasHead, RetirePtr, PopTake,
           PopTakeFirst, PopUncount, PopLeave, StealStep, ThiefTest, SizeLoadPush, SizeLoadPop,
           SizeReload, Goto
      <4>3. ASSUME PopLoadPop(c), pc'[c] = "loadHead" PROVE FALSE
        <5>1. pc[c] = "loadPop" /\ ~(loc[c].push < popIndex_) /\ loc[c].push # popIndex_
          BY <1>p, <4>3 DEF PopLoadPop, Goto
        <5>2. loc[c].push <= pushIndex_
          BY <5>1 DEF Locals, PopFits
        <5> QED
          BY <1>0, <4>1, <5>1, <5>2 DEF Nums
      <4> QED
        BY <1>0, <2>0, <4>1, <4>2, <4>3 DEF Nums
    <3> QED
      BY <2>0, <3>1 DEF Swept
  <2>4. pc'[Owner] = "destroyed" => \A d \in Thieves \cup Helpers : pc'[d] = "idle"
    <3>1. ASSUME pc'[Owner] = "destroyed" PROVE FALSE
      <4>1. c # Owner /\ pc[Owner] = "destroyed" /\ c \in Thieves \cup Helpers
        BY <1>0, <1>1, <2>0, <3>1 DEF Consumers
      <4>2. pc[c] = "idle" /\ ~Alive
        BY <4>1 DEF Swept, Alive
      <4> QED
        BY <1>1, <4>1, <4>2 DEF ConsumerStep, PopStep, PopEnter, PopLoadPush, PopLoadPop,
           PopReloadPush, PopLoadHead, PopCheckId, PopClaimFirst, PopClaim, TryMovePopIndex,
           PopLoadNext, PopCasHead, RetirePtr, PopTake, PopTakeFirst, PopUncount, PopLeave,
           StealStep, Goto
    <3> QED
      BY <3>1
  <2> QED
    BY <2>2, <2>3, <2>4 DEF Swept
<1>2. CASE OwnerWork
  <2>1. /\ \A d \in Consumers : d # Owner => pc'[d] = pc[d]
        /\ pc' = pc \/ (pc[Owner] \in Housekeeping /\ pc'[Owner] \in Housekeeping)
        /\ popIndex_' = popIndex_
    BY <1>2, OwnerFrame
  <2>2. CASE TryDeleteRetiredPtrs
    <3>1. /\ pc[Owner] = "fill" /\ pc'[Owner] = "sweep" /\ pushIndex_' = pushIndex_
          /\ sweep' # {} => popUserCount_ = 0
      BY <1>0, <1>p, <2>2 DEF TryDeleteRetiredPtrs, Goto, idxVars, Nums
    <3>2. popUserCount_ = 0 => \A d \in Consumers : pc[d] \notin InPop
      <4>1. popUserCount_ = 0 => Inside = {}
        BY Finite, FS_EmptySet DEF Counts
      <4> QED
        BY <4>1 DEF Inside
    <3>3. sweep' # {} => \A d \in Consumers : pc'[d] \notin Reaching
      BY <2>1, <3>1, <3>2 DEF Reaching, InPop, InLoop
    <3> QED
      BY <2>1, <3>1, <3>3 DEF Swept
  <2>3. CASE \E c \in Consumers : DeleteRetiredOf(c)
    BY <2>3 DEF DeleteRetiredOf, Swept, idxVars
  <2>4. CASE PopTasksToWorker \/ PushWrite \/ PushPublish \/ PushCount
    <3>1. sweep' = sweep /\ sweep = {} /\ pc'[Owner] \in {"push", "publish", "count", "test"}
      BY <1>0, <1>p, <2>4 DEF PopTasksToWorker, PushWrite, PushPublish, PushCount, Goto, Swept,
         ownVars, Nums
    <3> QED
      BY <3>1 DEF Swept
  <2>5. CASE Destroy
    <3>1. /\ pc[Owner] = "fill" /\ pc'[Owner] = "destroyed" /\ sweep' = sweep
          /\ pushIndex_' = pushIndex_ /\ \A d \in Thieves \cup Helpers : pc[d] = "idle"
      BY <1>0, <1>p, <2>5 DEF Destroy, Goto, ownVars, idxVars, Nums
    <3>2. \A d \in Thieves \cup Helpers : pc'[d] = "idle"
      BY <1>0, <2>1, <3>1, SPMCAssumption DEF Nums
    <3> QED
      BY <2>1, <3>1, <3>2 DEF Swept
  <2>6. CASE UNCHANGED vars
    BY <2>6 DEF vars, idxVars, ownVars, Swept
  <2> QED
    BY <1>2, <2>2, <2>3, <2>4, <2>5, <2>6 DEF OwnerWork
<1> QED
  BY <1>1, <1>2, Steps

(* Only nodes behind head_ are retired, and nobody reaches a node behind the *)
(* head_ it started from.                                                     *)
LEMMA MemoryNext ==
  ASSUME Types, Indices, HeadFits, Locals, Swept, Memory, [Next]_vars
  PROVE  Memory'
<1>0. Nums
  BY Numbers
<1>p. /\ pc \in [Consumers -> Labels] /\ loc \in [Consumers -> Loc]
      /\ retired \in [Consumers -> SUBSET Nodes] /\ freed \in SUBSET Nodes
  BY DEF Types
<1>1. ASSUME NEW c \in Consumers, ConsumerStep(c) PROVE Memory'
  <2>0. /\ \A d \in Consumers \ {c} : pc'[d] = pc[d] /\ loc'[d] = loc[d]
        /\ freed' = freed /\ pc[c] # "destroyed" /\ pc'[c] # "destroyed"
    BY <1>1, ConsumerFrame
  <2>1. head_ <= head_' /\ head_' \in Nat
    <3>1. Quiet \/ Claimed(c) \/ Opened(c) \/ Swung(c)
      BY <1>1, Moves
    <3> QED
      BY <1>0, <3>1 DEF Quiet, Claimed, Opened, Swung, Nums
  <2>2. ASSUME NEW d \in Consumers, NEW n \in retired'[d] PROVE n < head_'
    <3>1. CASE RetirePtr(c)
      <4>1. pc[c] = "retire" /\ retired' = [retired EXCEPT ![c] = @ \cup {loc[c].cur}]
        BY <3>1 DEF RetirePtr, Goto
      <4>2. loc[c].cur < head_
        BY <1>1, <4>1 DEF Locals, PopFits
      <4>3. n \in retired[d] \/ n = loc[c].cur
        BY <1>p, <2>2, <4>1
      <4>4. n < head_ /\ n \in Nat
        BY <1>0, <1>1, <1>p, <4>2, <4>3 DEF Memory, Nums
      <4> QED
        BY <1>0, <2>1, <4>4 DEF Nums
    <3>2. CASE ~RetirePtr(c)
      <4>1. retired' = retired
        BY <1>1, <3>2 DEF ConsumerStep, PopStep, PopEnter, PopLoadPush, PopLoadPop,
           PopReloadPush, PopLoadHead, PopCheckId, PopClaimFirst, PopClaim, TryMovePopIndex,
           PopLoadNext, PopCasHead, PopTake, PopTakeFirst, Take, PopUncount, PopLeave,
           StealStep, ThiefTest, SizeLoadPush, SizeLoadPop, SizeReload, OwnerTest, memVars
      <4>2. n < head_ /\ n \in Nat
        BY <1>0, <1>p, <2>2, <4>1 DEF Memory, Nums
      <4> QED
        BY <1>0, <2>1, <4>2 DEF Nums
    <3> QED
      BY <3>1, <3>2
  <2>3. Alive' = Alive
    BY <1>0, <2>0 DEF Alive, Nums
  <2>4. ASSUME Alive', NEW n \in freed' PROVE n < head_'
    <3>1. n < head_ /\ n \in Nat
      BY <1>0, <1>p, <2>0, <2>3, <2>4 DEF Memory, Nums
    <3> QED
      BY <1>0, <2>1, <3>1 DEF Nums
  <2>5. ASSUME NEW n \in freed
        PROVE  /\ pc'[c] \in Holds => n < loc'[c].cur
               /\ pc'[c] = "takeFirst" => n < loc'[c].nxt
    <3>0. /\ pc[c] \in Holds => n < loc[c].cur
          /\ pc[c] = "takeFirst" => n < loc[c].nxt
          /\ n \in Nat
      BY <1>0, <1>1, <1>p, <2>5 DEF Memory, Nums
    <3> USE DEF Goto, Keep, idxVars, nodeVars, memVars, locals, ownVars, Holds
    <3>1. CASE PopLoadHead(c)
      <4>1. Alive
        <5>1. pc[c] = "loadHead"
          BY <3>1 DEF PopLoadHead
        <5> QED
          BY <1>1, <5>1 DEF Alive, Swept, Consumers
      <4>2. pc'[c] = "checkId" /\ loc'[c].cur = head_
        BY <1>p, <3>1 DEF PopLoadHead, Loc
      <4> QED
        BY <2>5, <4>1, <4>2 DEF Memory
    <3>2. CASE RetirePtr(c)
      <4>1. pc[c] = "retire" /\ pc'[c] = "takeFirst" /\ loc'[c].nxt = loc[c].nxt
        BY <1>p, <3>2 DEF RetirePtr, Fresh
      <4>2. loc[c].nxt = loc[c].cur + 1
        BY <1>1, <4>1 DEF Locals, PopFits
      <4> QED
        BY <1>0, <3>0, <4>1, <4>2 DEF Nums
    <3>3. CASE PopLoadNext(c)
      <4>1. pc[c] = "loadNext" /\ pc'[c] = "casHead" /\ loc'[c].cur = loc[c].cur
        BY <1>p, <3>3 DEF PopLoadNext, Loc
      <4> QED
        BY <3>0, <4>1
    <3>4. CASE PopCheckId(c)
      <4>1. pc[c] = "checkId" /\ (pc'[c] = "load" \/ loc'[c] = loc[c]) /\ pc'[c] # "takeFirst"
        BY <1>p, <3>4 DEF PopCheckId
      <4> QED
        BY <3>0, <4>1
    <3>5. CASE PopClaimFirst(c) \/ PopClaim(c) \/ PopCasHead(c)
      <4>1. pc[c] \in Holds /\ (pc'[c] = "load" \/ loc'[c] = loc[c]) /\ pc'[c] # "takeFirst"
        BY <1>p, <3>5 DEF PopClaimFirst, PopClaim, TryMovePopIndex, PopCasHead
      <4> QED
        BY <3>0, <4>1
    <3>6. CASE PopEnter(c) \/ PopLoadPush(c) \/ PopLoadPop(c) \/ PopReloadPush(c)
               \/ PopTake(c) \/ PopTakeFirst(c) \/ PopUncount(c) \/ PopLeave(c)
               \/ StealStep(c) \/ (c = Owner /\ OwnerTest)
      <4>1. pc'[c] \notin Holds /\ pc'[c] # "takeFirst"
        BY <1>p, <3>6 DEF PopEnter, PopLoadPush, PopLoadPop, PopReloadPush, PopTake, PopTakeFirst,
           PopUncount, PopLeave, StealStep, ThiefTest, SizeLoadPush, SizeLoadPop, SizeReload,
           OwnerTest
      <4> QED
        BY <4>1
    <3> QED
      BY <1>1, <3>1, <3>2, <3>3, <3>4, <3>5, <3>6 DEF ConsumerStep, PopStep
  <2>6. \A d \in Consumers : \A n \in freed' :
          /\ pc'[d] \in Holds => n < loc'[d].cur
          /\ pc'[d] = "takeFirst" => n < loc'[d].nxt
    BY <2>0, <2>5 DEF Memory
  <2> QED
    BY <2>2, <2>4, <2>6 DEF Memory
<1>2. CASE OwnerWork
  <2>1. /\ \A d \in Consumers : d # Owner => pc'[d] = pc[d]
        /\ pc' = pc \/ (pc[Owner] \in Housekeeping /\ pc'[Owner] \in Housekeeping)
        /\ head_' = head_ /\ loc' = loc
    BY <1>2, OwnerFrame
  <2>2. \A d \in Consumers : /\ pc'[d] \in Holds => pc[d] \in Holds
                             /\ pc'[d] = "takeFirst" => pc[d] = "takeFirst"
    BY <2>1 DEF Housekeeping, Holds
  <2>3. CASE \E c \in Consumers : DeleteRetiredOf(c)
    <3>1. PICK c \in Consumers : DeleteRetiredOf(c)
      BY <2>3
    <3>2. /\ c \in sweep /\ pc[Owner] = "sweep" /\ pc' = pc
          /\ freed' = freed \cup retired[c] /\ retired' = [retired EXCEPT ![c] = {}]
      BY <3>1 DEF DeleteRetiredOf
    <3>3. \A d \in Consumers : pc'[d] \notin Reaching
      BY <3>2 DEF Swept
    <3>4. \A d \in Consumers : pc'[d] \notin Holds /\ pc'[d] # "takeFirst"
      BY <3>3 DEF Holds, Reaching
    <3>5. \A d \in Consumers : \A n \in retired'[d] : n < head_'
      BY <1>p, <2>1, <3>2 DEF Memory
    <3>6. \A n \in freed' : n < head_'
      BY <1>p, <2>1, <3>1, <3>2 DEF Memory, Alive
    <3> QED
      BY <3>4, <3>5, <3>6 DEF Memory
  <2>4. CASE Destroy
    <3>1. /\ retired' = [c \in Consumers |-> {}] /\ pc'[Owner] = "destroyed"
          /\ \A d \in Thieves \cup Helpers : pc[d] = "idle"
      BY <1>0, <1>p, <2>4 DEF Destroy, Goto, Nums
    <3>2. \A d \in Consumers : pc'[d] \notin Holds /\ pc'[d] # "takeFirst"
      BY <2>1, <3>1 DEF Consumers, Holds
    <3> QED
      BY <3>1, <3>2 DEF Memory, Alive
  <2>5. CASE /\ ~Destroy
             /\ ~\E c \in Consumers : DeleteRetiredOf(c)
    <3>1. retired' = retired /\ freed' = freed
      BY <1>2, <2>5 DEF OwnerWork, TryDeleteRetiredPtrs, PopTasksToWorker, PushWrite, PushPublish,
         PushCount, vars, memVars
    <3>2. Alive' => Alive
      BY <1>0, <1>p, <1>2, <2>5 DEF OwnerWork, TryDeleteRetiredPtrs, PopTasksToWorker, PushWrite,
         PushPublish, PushCount, vars, Goto, Alive, Nums
    <3> QED
      BY <2>1, <2>2, <3>1, <3>2 DEF Memory
  <2> QED
    BY <2>3, <2>4, <2>5
<1> QED
  BY <1>1, <1>2, Steps

-----------------------------------------------------------------------------
LEMMA InitIInv == ASSUME Init PROVE IInv
<1>1. 0 \in Nodes /\ 0 \in 0 .. MaxPush /\ 0 \in 0 .. SizeMod - 1 /\ 0 \in 0 .. NodeSize
  BY SPMCAssumption, Division
<1>2. Types
  <2>1. pc \in [Consumers -> Labels] /\ \A c \in Consumers : pc[c] \in PcOf(c)
    BY DEF Init, Labels, PcOf
  <2>2. loc \in [Consumers -> Loc] /\ val \in [Consumers -> Tasks \cup {None}]
    BY Records DEF Init
  <2>3. /\ next \in [Nodes -> Nodes \cup {None}]
        /\ buffer \in [Nodes -> [0 .. NodeSize - 1 -> Tasks \cup {None}]]
        /\ retired \in [Consumers -> SUBSET Nodes] /\ freed \in SUBSET Nodes
    BY DEF Init
  <2>4. /\ pushIndex_ \in 0 .. MaxPush /\ popIndex_ \in 0 .. MaxPush
        /\ head_ \in Nodes /\ tail_ \in Nodes /\ popUserCount_ \in Int
        /\ size_ \in 0 .. SizeMod - 1 /\ batch \in 0 .. NodeSize /\ sweep \in SUBSET Consumers
    BY <1>1 DEF Init
  <2> QED
    BY <2>1, <2>2, <2>3, <2>4 DEF Types
<1>3. Nums
  BY <1>2, Numbers
<1>4. NodeOf(pushIndex_) = 0 /\ NodeOf(popIndex_) = 0 /\ ~Lagging /\ First = 0
  BY DEF Init, NodeOf, Lagging, First
<1>5. Indices /\ HeadFits
  BY <1>3, <1>4 DEF Init, Indices, HeadFits, Nums
<1>s. Owner \in Consumers /\ \A c \in Consumers : pc[c] \in {"fill", "idle"} /\ val[c] = None
  BY <1>3 DEF Init, Nums
<1>6. Locals /\ Memory
  BY <1>s DEF Init, Locals, PopFits, Memory, Holds
<1>a. Swept
  BY <1>s DEF Init, Swept
<1>b. Contents
  <2>1. First .. pushIndex_ - 1 = {} /\ 0 .. First - 1 = {}
    BY <1>4 DEF Init
  <2> QED
    BY <1>s, <2>1 DEF Contents
<1>7. Inside = {} /\ Holding = {}
  BY DEF Init, Inside, Holding, InPop, InLoop
<1>8. Outstanding = 0
  BY <1>3, <1>4, <1>7, FS_EmptySet DEF Init, Outstanding, Nums
<1>9. Counts
  BY <1>4, <1>7, <1>8, FS_EmptySet DEF Init, Counts
<1> QED
  BY <1>2, <1>5, <1>6, <1>9, <1>a, <1>b DEF IInv

LEMMA NextIInv == ASSUME IInv, [Next]_vars PROVE IInv'
BY TypesNext, IndicesNext, HeadFitsNext, LocalsNext, ContentsNext, CountsNext, SweptNext,
   MemoryNext DEF IInv

(* The invariant holds in every state of the queue. *)
THEOREM Invariance == Spec => []IInv
<1>1. Init => IInv
  BY InitIInv
<1>2. IInv /\ [Next]_vars => IInv'
  BY NextIInv
<1> QED
  BY <1>1, <1>2, PTL DEF Spec

(* Every variable has its type, and popUserCount_ never goes below zero nor  *)
(* beyond the number of consumers.                                            *)
THEOREM TypeCorrect == Spec => []TypeOK
<1>1. IInv => TypeOK
  <2>1. ASSUME IInv PROVE popUserCount_ \in 0 .. Cardinality(Consumers)
    <3>1. Inside \subseteq Consumers /\ IsFiniteSet(Consumers)
      BY SPMCAssumption DEF Inside
    <3>2. /\ Cardinality(Inside) \in Nat /\ Cardinality(Consumers) \in Nat
          /\ Cardinality(Inside) <= Cardinality(Consumers)
      BY <3>1, FS_Subset, FS_CardinalityType
    <3>3. popUserCount_ = Cardinality(Inside)
      BY <2>1 DEF IInv, Counts
    <3> QED
      BY <3>2, <3>3
  <2>2. IInv => Types
    BY DEF IInv
  <2> QED
    BY <2>1, <2>2 DEF Types, TypeOK, Loc
<1> QED
  BY <1>1, Invariance, PTL

(* No consumer dereferences a freed node, and head_ and tail_ are not freed: *)
(* the look at popUserCount_ in TryDeleteRetiredPtrs, taken once and without  *)
(* keeping anyone out, is enough, for any number of consumers.                *)
THEOREM NodesInUseStay == Spec => []NoUseAfterFree
<1>1. ASSUME IInv PROVE NoUseAfterFree
  <2>1. Types /\ Indices /\ HeadFits /\ Locals /\ Memory
    BY <1>1 DEF IInv
  <2>2. Nums /\ head_ <= tail_ /\ freed \in SUBSET Nodes
    <3>1. Nums /\ freed \in SUBSET Nodes
      BY <2>1, Numbers DEF Types
    <3>2. head_ <= NodeOf(popIndex_) /\ NodeOf(popIndex_) <= NodeOf(pushIndex_)
          /\ NodeOf(pushIndex_) <= tail_ /\ NodeOf(popIndex_) \in Nat /\ NodeOf(pushIndex_) \in Nat
      BY <2>1, HeadFacts
    <3> QED
      BY <3>1, <3>2 DEF Nums
  <2>3. ASSUME NEW c \in Consumers, NEW n \in freed PROVE n \notin Dereferenced(c)
    <3>1. /\ pc[c] \in Holds => n < loc[c].cur
          /\ pc[c] = "takeFirst" => n < loc[c].nxt
          /\ pc[c] \in {"casHead", "retire"} => loc[c].nxt = loc[c].cur + 1
      BY <2>1, <2>3 DEF Memory, Locals, PopFits
    <3>2. n \in Nat /\ loc[c].cur \in Nat /\ loc[c].nxt \in Nat
      BY <2>2, <2>3 DEF Nums
    <3> QED
      BY <3>1, <3>2 DEF Dereferenced, Holds
  <2>4. ASSUME Alive, NEW n \in freed PROVE n # head_ /\ n # tail_
    <3>1. n < head_ /\ n \in Nat
      BY <2>1, <2>2, <2>4 DEF Memory, Nums
    <3> QED
      BY <2>2, <3>1 DEF Nums
  <2> QED
    BY <2>3, <2>4 DEF NoUseAfterFree
<1> QED
  BY <1>1, Invariance, PTL

(* The owner sweeps the lists of retired nodes without a lock, and no *)
(* consumer appends to one meanwhile.                                  *)
THEOREM SweepIsAlone == Spec => []SweepAlone
<1>1. IInv => SweepAlone
  BY DEF IInv, Swept, SweepAlone, Reaching
<1> QED
  BY <1>1, Invariance, PTL

-----------------------------------------------------------------------------
(* The refinement: what FifoQueue sees of a state. *)
Queue == [k \in 1 .. pushIndex_ - First |-> Slot(First + k - 1)]
Popping == {c \in Consumers : pc[c] \in InLoop}
Result ==
  [c \in Consumers |->
     CASE pc[c] = "take" -> buffer[loc[c].cur][GetBufferIndex(loc[c].pop)]
       [] pc[c] \in {"retire", "takeFirst"} -> buffer[loc[c].nxt][0]
       [] OTHER -> val[c]]

(* The tasks from a up to b, in the order of their pushes. *)
Run(a, b) == [k \in 1 .. b - a |-> a + k - 1]

LEMMA FifoView ==
  /\ \A t \in Tasks :
       Queue' = Append(Queue, t) /\ Popping' = Popping /\ Result' = Result => Fifo!Enqueue(t)
  /\ \A c \in Consumers :
       /\ c \notin Popping /\ Result[c] = None /\ Popping' = Popping \cup {c}
       /\ Queue' = Queue /\ Result' = Result
       => Fifo!Call(c)
  /\ \A c \in Consumers :
       /\ c \in Popping /\ Queue # <<>> /\ Result' = [Result EXCEPT ![c] = Head(Queue)]
       /\ Queue' = Tail(Queue) /\ Popping' = Popping \ {c}
       => Fifo!Dequeue(c)
  /\ \A c \in Consumers :
       /\ c \in Popping /\ (Queue = <<>> \/ (Len(Queue) = 1 /\ Popping # {c}))
       /\ Popping' = Popping \ {c} /\ Queue' = Queue /\ Result' = Result
       => Fifo!ReportEmpty(c)
  /\ \A c \in Consumers :
       /\ c \notin Popping /\ Result[c] # None /\ Result' = [Result EXCEPT ![c] = None]
       /\ Queue' = Queue /\ Popping' = Popping
       => Fifo!Return(c)
  /\ Queue' = Queue /\ Popping' = Popping /\ Result' = Result => UNCHANGED Fifo!fifoVars
<1>1. \A t \in Tasks :
       Queue' = Append(Queue, t) /\ Popping' = Popping /\ Result' = Result => Fifo!Enqueue(t)
  BY DEF Queue, Popping, Result, Fifo!Enqueue
<1>2. \A c \in Consumers :
       /\ c \notin Popping /\ Result[c] = None /\ Popping' = Popping \cup {c}
       /\ Queue' = Queue /\ Result' = Result
       => Fifo!Call(c)
  BY DEF Queue, Popping, Result, Fifo!Call
<1>3. \A c \in Consumers :
       /\ c \in Popping /\ Queue # <<>> /\ Result' = [Result EXCEPT ![c] = Head(Queue)]
       /\ Queue' = Tail(Queue) /\ Popping' = Popping \ {c}
       => Fifo!Dequeue(c)
  BY DEF Queue, Popping, Result, Fifo!Dequeue
<1>4. \A c \in Consumers :
       /\ c \in Popping /\ (Queue = <<>> \/ (Len(Queue) = 1 /\ Popping # {c}))
       /\ Popping' = Popping \ {c} /\ Queue' = Queue /\ Result' = Result
       => Fifo!ReportEmpty(c)
  BY DEF Queue, Popping, Result, Fifo!ReportEmpty
<1>5. \A c \in Consumers :
       /\ c \notin Popping /\ Result[c] # None /\ Result' = [Result EXCEPT ![c] = None]
       /\ Queue' = Queue /\ Popping' = Popping
       => Fifo!Return(c)
  BY DEF Queue, Popping, Result, Fifo!Return
<1>6. Queue' = Queue /\ Popping' = Popping /\ Result' = Result => UNCHANGED Fifo!fifoVars
  BY DEF Queue, Popping, Result, Fifo!fifoVars
<1> QED
  BY <1>1, <1>2, <1>3, <1>4, <1>5, <1>6

LEMMA RunFacts ==
  ASSUME NEW a \in Nat, NEW b \in Nat, a <= b
  PROVE  /\ Run(a, b + 1) = Append(Run(a, b), b)
         /\ a = b => Run(a, b) = <<>>
         /\ a < b => /\ Run(a, b) # <<>> /\ Head(Run(a, b)) = a
                     /\ Tail(Run(a, b)) = Run(a + 1, b)
         /\ Len(Run(a, b)) = b - a
<1>0. b - a \in Nat /\ \A k \in 1 .. b - a : a + k - 1 \in Nat
  OBVIOUS
<1>1. Run(a, b) \in Seq(Nat) /\ Len(Run(a, b)) = b - a
      /\ \A k \in 1 .. b - a : Run(a, b)[k] = a + k - 1
  BY <1>0 DEF Run
<1>2. a = b => Run(a, b) = <<>>
  <2>1. a = b => Len(Run(a, b)) = 0
    BY <1>1
  <2> QED
    BY <1>1, <2>1, EmptySeq
<1>3. Run(a, b + 1) = Append(Run(a, b), b)
  <2>1. /\ Append(Run(a, b), b) \in Seq(Nat)
        /\ Len(Append(Run(a, b), b)) = (b - a) + 1
        /\ \A k \in 1 .. (b - a) + 1 :
             Append(Run(a, b), b)[k] = IF k = (b - a) + 1 THEN b ELSE Run(a, b)[k]
    BY <1>1, AppendProperties
  <2>2. /\ Run(a, b + 1) \in Seq(Nat) /\ Len(Run(a, b + 1)) = (b - a) + 1
        /\ \A k \in 1 .. (b - a) + 1 : Run(a, b + 1)[k] = a + k - 1
    <3>1. (b + 1) - a = (b - a) + 1 /\ (b - a) + 1 \in Nat
      BY <1>0
    <3>2. \A k \in 1 .. (b - a) + 1 : a + k - 1 \in Nat
      OBVIOUS
    <3> QED
      BY <3>1, <3>2 DEF Run
  <2>3. \A k \in 1 .. (b - a) + 1 : Append(Run(a, b), b)[k] = Run(a, b + 1)[k]
    <3>1. ASSUME NEW k \in 1 .. (b - a) + 1 PROVE Append(Run(a, b), b)[k] = Run(a, b + 1)[k]
      <4>1. CASE k = (b - a) + 1
        BY <2>1, <2>2, <4>1
      <4>2. CASE k # (b - a) + 1
        <5>1. k \in 1 .. b - a
          BY <1>0, <4>2
        <5> QED
          BY <1>1, <2>1, <2>2, <4>2, <5>1
      <4> QED
        BY <4>1, <4>2
    <3> QED
      BY <3>1
  <2> QED
    BY <2>1, <2>2, <2>3, SeqEqual
<1>4. ASSUME a < b PROVE /\ Run(a, b) # <<>> /\ Head(Run(a, b)) = a
                         /\ Tail(Run(a, b)) = Run(a + 1, b)
  <2>1. Run(a, b) # <<>>
    BY <1>1, <1>4
  <2>2. Head(Run(a, b)) = a
    BY <1>1, <1>4, <2>1, HeadTailProperties
  <2>3. /\ Tail(Run(a, b)) \in Seq(Nat) /\ Len(Tail(Run(a, b))) = (b - a) - 1
        /\ \A k \in 1 .. Len(Tail(Run(a, b))) : Tail(Run(a, b))[k] = Run(a, b)[k + 1]
    BY <1>1, <2>1, HeadTailProperties
  <2>4. /\ Run(a + 1, b) \in Seq(Nat) /\ Len(Run(a + 1, b)) = (b - a) - 1
        /\ \A k \in 1 .. (b - a) - 1 : Run(a + 1, b)[k] = (a + 1) + k - 1
    BY <1>4 DEF Run
  <2>5. \A k \in 1 .. (b - a) - 1 : Tail(Run(a, b))[k] = Run(a + 1, b)[k]
    <3>1. ASSUME NEW k \in 1 .. (b - a) - 1 PROVE Tail(Run(a, b))[k] = Run(a + 1, b)[k]
      <4>1. k + 1 \in 1 .. b - a /\ a + (k + 1) - 1 = (a + 1) + k - 1
        BY <3>1
      <4> QED
        BY <1>1, <2>3, <2>4, <4>1
    <3> QED
      BY <3>1
  <2>6. Tail(Run(a, b)) = Run(a + 1, b)
    BY <2>3, <2>4, <2>5, SeqEqual
  <2> QED
    BY <2>1, <2>2, <2>6
<1> QED
  BY <1>1, <1>2, <1>3, <1>4

(* The slots of the queue hold consecutive tasks. *)
LEMMA QueueIsRun ==
  ASSUME IInv PROVE Queue = Run(First, pushIndex_)
<1>0. Nums /\ First \in Nat
  BY Numbers, HeadFacts DEF IInv
<1>1. \A k \in 1 .. pushIndex_ - First : First + k - 1 \in First .. pushIndex_ - 1
  BY <1>0 DEF Nums
<1>2. \A k \in 1 .. pushIndex_ - First : Slot(First + k - 1) = First + k - 1
  BY <1>1 DEF IInv, Contents
<1> QED
  BY <1>2 DEF Queue, Run

(* A consumer that popped a task will return it. *)
LEMMA ResultIs ==
  ASSUME IInv, NEW c \in Consumers
  PROVE  /\ \A i \in Nat : Claims(c, i) => Result[c] = i
         /\ pc[c] \notin {"take", "retire", "takeFirst"} => Result[c] = val[c]
         /\ pc[c] \in {"take", "retire", "takeFirst"} => \E i \in Nat : Claims(c, i)
<1>0. Types /\ Indices /\ HeadFits /\ Contents /\ First \in Nat
  BY HeadFacts DEF IInv
<1>1. ASSUME NEW i \in Nat, Claims(c, i) PROVE Result[c] = i
  <2>1. Slot(i) = i
    BY <1>0, <1>1, ClaimUnique
  <2> QED
    BY <1>1, <2>1 DEF Claims, Result, Slot
<1>2. pc[c] \notin {"take", "retire", "takeFirst"} => Result[c] = val[c]
  BY DEF Result
<1>3. pc[c] \in {"take", "retire", "takeFirst"} => \E i \in Nat : Claims(c, i)
  BY <1>0 DEF Contents
<1> QED
  BY <1>1, <1>2, <1>3

Answers ==
  \A c \in Consumers :
    /\ \A i \in Nat : Claims(c, i) => Result[c] = i
    /\ pc[c] \notin {"take", "retire", "takeFirst"} => Result[c] = val[c]

(* The same of the state a step leads to. *)
LEMMA NextView == IInv' => Answers' /\ Queue' = Run(First', pushIndex_')
<1>1. IInv => Answers /\ Queue = Run(First, pushIndex_)
  BY ResultIs, QueueIsRun DEF Answers
<1>2. IInv' => Answers' /\ (Queue = Run(First, pushIndex_))'
  BY <1>1, PTL
<1> QED
  BY <1>2 DEF Run

(* Only the consumer that steps changes its result, by popping a task, or by *)
(* returning it.                                                              *)
LEMMA ResultStep ==
  ASSUME IInv, IInv', NEW c \in Consumers, ConsumerStep(c)
  PROVE  /\ First' = First /\ ~PopUncount(c) => Result' = Result
         /\ First' # First => Result' = [Result EXCEPT ![c] = First]
         /\ PopUncount(c) => /\ Result[c] # None
                             /\ Result' = [Result EXCEPT ![c] = None]
<1>0. Types /\ Indices /\ HeadFits /\ Locals /\ Contents /\ First \in Nat
  BY HeadFacts DEF IInv
<1>p. pc \in [Consumers -> Labels] /\ val \in [Consumers -> Tasks \cup {None}]
  BY <1>0 DEF Types
<1>f. \A d \in Consumers : d # c => pc'[d] = pc[d] /\ val'[d] = val[d]
  BY <1>0, ConsumerFrame
<1>r. \A d \in Consumers :
        /\ \A i \in Nat : Claims(d, i)' => Result'[d] = i
        /\ pc'[d] \notin {"take", "retire", "takeFirst"} => Result'[d] = val'[d]
  BY NextView DEF Answers
<1>d. Result = [d \in Consumers |-> Result[d]] /\ Result' = [d \in Consumers |-> Result'[d]]
  BY DEF Result
<1>1. \A d \in Consumers : d # c => Result'[d] = Result[d]
  <2>1. ASSUME NEW d \in Consumers, d # c PROVE Result'[d] = Result[d]
    <3>1. CASE pc[d] \in {"take", "retire", "takeFirst"}
      <4>1. PICK i \in Nat : Claims(d, i)
        BY <3>1, ResultIs
      <4>2. Claims(d, i)'
        BY <1>0, <2>1, <4>1, ClaimsStep
      <4> QED
        BY <1>r, <4>1, <4>2, ResultIs
    <3>2. CASE pc[d] \notin {"take", "retire", "takeFirst"}
      BY <1>f, <1>r, <2>1, <3>2, ResultIs
    <3> QED
      BY <3>1, <3>2
  <2> QED
    BY <2>1
<1>2. First' # First => Result'[c] = First
  <2>1. \A i \in Nat : i = First /\ First' # First => Claims(c, i)'
    BY <1>0, ClaimsStep
  <2> QED
    BY <1>0, <1>r, <2>1
<1>3. PopUncount(c) => Result[c] # None /\ Result'[c] = None
  <2>1. PopUncount(c) => pc[c] = "uncount" /\ val'[c] = None
                         /\ pc'[c] \notin {"take", "retire", "takeFirst"}
    BY <1>p DEF PopUncount, Goto
  <2>2. pc[c] = "uncount" => val[c] # None
    BY <1>0 DEF Locals, PopFits
  <2> QED
    BY <1>r, <2>1, <2>2, ResultIs
<1>4. First' = First /\ ~PopUncount(c) => Result'[c] = Result[c]
  <2>1. ASSUME First' = First, ~PopUncount(c), pc'[c] \in {"retire", "take", "takeFirst"}
        PROVE  Result'[c] = Result[c]
    <3>1. 0 \in Nat
      OBVIOUS
    <3>2. pc[c] \in {"take", "retire", "takeFirst"}
      BY <1>0, <2>1, <3>1, ClaimsStep
    <3>3. PICK i \in Nat : Claims(c, i)
      BY <3>2, ResultIs
    <3>4. Claims(c, i)'
      BY <1>0, <2>1, <3>3, ClaimsStep
    <3> QED
      BY <1>r, <3>3, <3>4, ResultIs
  <2>2. ASSUME PopTake(c) \/ PopTakeFirst(c) PROVE Result'[c] = Result[c]
    <3>1. PICK i \in 0 .. First - 1 : Claims(c, i) /\ val' = [val EXCEPT ![c] = i]
      BY <1>0, <2>2, TakeSlot
    <3>2. i \in Nat /\ val'[c] = i
      BY <1>0, <1>p, <3>1
    <3>3. pc'[c] \notin {"take", "retire", "takeFirst"}
      BY <1>p, <2>2 DEF PopTake, PopTakeFirst, Goto
    <3> QED
      BY <1>r, <3>1, <3>2, <3>3, ResultIs
  <2>3. ASSUME ~PopUncount(c), ~PopTake(c), ~PopTakeFirst(c),
               pc'[c] \notin {"retire", "take", "takeFirst"}
        PROVE  Result'[c] = Result[c]
    <3>1. val'[c] = val[c]
      BY <1>p, <2>3 DEF ConsumerStep, PopStep, PopEnter, PopLoadPush, PopLoadPop, PopReloadPush,
         PopLoadHead, PopCheckId, PopClaimFirst, PopClaim, TryMovePopIndex, PopLoadNext,
         PopCasHead, RetirePtr, PopLeave, StealStep, ThiefTest, SizeLoadPush, SizeLoadPop,
         SizeReload, OwnerTest, locals
    <3>2. pc[c] \notin {"retire", "take", "takeFirst"}
      BY <1>p, <2>3, SPMCAssumption DEF ConsumerStep, PopStep, PopEnter, PopLoadPush, PopLoadPop,
         PopReloadPush, PopLoadHead, PopCheckId, PopClaimFirst, PopClaim, TryMovePopIndex,
         PopLoadNext, PopCasHead, RetirePtr, PopLeave, StealStep, ThiefTest, SizeLoadPush,
         SizeLoadPop, SizeReload, OwnerTest, Goto
    <3> QED
      BY <1>r, <2>3, <3>1, <3>2, ResultIs
  <2> QED
    BY <2>1, <2>2, <2>3
<1>5. First' # First => ~PopUncount(c)
  <2>1. PopUncount(c) => First' = First
    BY DEF PopUncount, First, Lagging, idxVars, nodeVars
  <2> QED
    BY <2>1
<1> HIDE DEF Result
<1>6. First' = First /\ ~PopUncount(c) => Result' = Result
  BY <1>d, <1>1, <1>4
<1>7. First' # First => Result' = [Result EXCEPT ![c] = First]
  BY <1>d, <1>1, <1>2
<1>8. PopUncount(c) => Result' = [Result EXCEPT ![c] = None]
  BY <1>d, <1>1, <1>3
<1> QED
  BY <1>3, <1>6, <1>7, <1>8

(* Who is inside a Pop that has not taken effect. *)
LEMMA PoppingStep ==
  ASSUME Types, NEW c \in Consumers, ConsumerStep(c)
  PROVE  /\ c \in Popping <=> pc[c] \in InLoop
         /\ (pc[c] \in InLoop <=> pc'[c] \in InLoop) => Popping' = Popping
         /\ pc[c] \notin InLoop /\ pc'[c] \in InLoop => Popping' = Popping \cup {c}
         /\ pc[c] \in InLoop /\ pc'[c] \notin InLoop => Popping' = Popping \ {c}
<1>1. \A d \in Consumers : d # c => pc'[d] = pc[d]
  BY ConsumerFrame
<1>2. Popping' = {d \in Consumers : pc'[d] \in InLoop}
  BY DEF Popping, InLoop
<1> QED
  BY <1>1, <1>2 DEF Popping

(* Each step of the queue is a step of FifoQueue or changes nothing there. *)
LEMMA StepRefines ==
  ASSUME IInv, IInv', [Next]_vars
  PROVE  Fifo!FifoNext \/ UNCHANGED Fifo!fifoVars
<1>0. /\ Types /\ Indices /\ HeadFits /\ Locals /\ Contents /\ Nums /\ First \in Nat
      /\ First <= popIndex_ /\ popIndex_ <= pushIndex_
      /\ Lagging => First = popIndex_ - 1 /\ popIndex_ > 0 /\ Lagging
      /\ ~Lagging => First = popIndex_
      /\ Lagging => \E d \in Consumers : pc[d] \in {"loadNext", "casHead"}
  <2>1. Types /\ Indices /\ HeadFits /\ Locals /\ Contents
    BY DEF IInv
  <2> QED
    BY <2>1, Numbers, HeadFacts DEF Indices
<1>p. pc \in [Consumers -> Labels] /\ loc \in [Consumers -> Loc]
  BY <1>0 DEF Types
<1>q. Queue = Run(First, pushIndex_) /\ Queue' = Run(First', pushIndex_')
  BY QueueIsRun, NextView
<1>n. First \in Nat /\ pushIndex_ \in Nat /\ First <= pushIndex_
  BY <1>0 DEF Nums
<1>t. /\ Run(First, pushIndex_ + 1) = Append(Run(First, pushIndex_), pushIndex_)
      /\ First = pushIndex_ => Run(First, pushIndex_) = <<>>
      /\ First < pushIndex_ => /\ Run(First, pushIndex_) # <<>>
                               /\ Head(Run(First, pushIndex_)) = First
                               /\ Tail(Run(First, pushIndex_)) = Run(First + 1, pushIndex_)
      /\ Len(Run(First, pushIndex_)) = pushIndex_ - First
  BY <1>n, RunFacts
<1>1. ASSUME NEW c \in Consumers, ConsumerStep(c)
      PROVE  Fifo!FifoNext \/ UNCHANGED Fifo!fifoVars
  <2>0. pushIndex_' = pushIndex_
    BY <1>0, <1>1, ConsumerFrame
  <2>m. Quiet \/ Claimed(c) \/ Opened(c) \/ Swung(c)
    BY <1>0, <1>1, Moves
  <2>r. /\ First' = First /\ ~PopUncount(c) => Result' = Result
        /\ First' # First => Result' = [Result EXCEPT ![c] = First]
        /\ PopUncount(c) => /\ Result[c] # None
                            /\ Result' = [Result EXCEPT ![c] = None]
    BY <1>1, ResultStep
  <2>s. /\ c \in Popping <=> pc[c] \in InLoop
        /\ (pc[c] \in InLoop <=> pc'[c] \in InLoop) => Popping' = Popping
        /\ pc[c] \notin InLoop /\ pc'[c] \in InLoop => Popping' = Popping \cup {c}
        /\ pc[c] \in InLoop /\ pc'[c] \notin InLoop => Popping' = Popping \ {c}
    BY <1>0, <1>1, PoppingStep
  <2>1. CASE Claimed(c) \/ Swung(c)
    <3>1. /\ First' = First + 1 /\ First < pushIndex_
          /\ pc[c] \in InLoop /\ pc'[c] \notin InLoop
      BY <1>0, <2>1 DEF Claimed, Swung, InLoop, Nums
    <3>2. Queue # <<>> /\ Head(Queue) = First /\ Queue' = Tail(Queue)
      BY <1>q, <1>t, <2>0, <3>1
    <3>3. Result' = [Result EXCEPT ![c] = Head(Queue)]
      BY <1>0, <2>r, <3>1, <3>2
    <3>4. Fifo!Dequeue(c)
      BY <1>1, <2>s, <3>1, <3>2, <3>3, FifoView
    <3> QED
      BY <1>1, <3>4 DEF Fifo!FifoNext
  <2>2. CASE Quiet \/ Opened(c)
    <3>0. First' = First /\ Queue' = Queue
      BY <1>q, <2>0, <2>2 DEF Quiet, Opened
    <3>1. CASE PopEnter(c)
      <4>1. pc[c] = "enter" /\ pc'[c] = "load" /\ ~PopUncount(c)
        BY <1>1, <1>p, <3>1 DEF PopEnter, PopUncount, Goto
      <4>2. Result[c] = None
        <5>1. val[c] = None
          BY <1>0, <1>1, <4>1 DEF Locals, PopFits
        <5> QED
          BY <1>1, <4>1, <5>1, ResultIs
      <4>3. Fifo!Call(c)
        BY <1>1, <2>r, <2>s, <3>0, <4>1, <4>2, FifoView DEF InLoop
      <4> QED
        BY <1>1, <4>3 DEF Fifo!FifoNext
    <3>2. CASE PopUncount(c)
      <4>1. pc[c] = "uncount" /\ pc'[c] \notin InLoop
        BY <1>1, <1>p, <3>2 DEF PopUncount, Goto, InLoop
      <4>2. Fifo!Return(c)
        BY <1>1, <2>r, <2>s, <3>0, <3>2, <4>1, FifoView DEF InLoop
      <4> QED
        BY <1>1, <4>2 DEF Fifo!FifoNext
    <3>3. CASE PopReloadPush(c) /\ pc'[c] = "leave"
      <4>1. pc[c] = "reload" /\ loc[c].push = pushIndex_ /\ ~PopUncount(c)
        BY <1>1, <1>p, <3>3 DEF PopReloadPush, PopUncount, Goto
      <4>2. popIndex_ = pushIndex_
        <5>1. loc[c].push <= popIndex_
          BY <1>0, <1>1, <4>1 DEF Locals, PopFits
        <5> QED
          BY <1>0, <4>1, <5>1 DEF Nums
      <4>3. Queue = <<>> \/ (Len(Queue) = 1 /\ Popping # {c})
        <5>1. CASE ~Lagging
          BY <1>0, <1>q, <4>2, <5>1, RunFacts DEF Nums
        <5>2. CASE Lagging
          <6>1. Len(Queue) = 1
            <7>1. pushIndex_ - First = 1
              BY <1>0, <1>n, <4>2, <5>2
            <7> QED
              BY <1>q, <1>t, <7>1
          <6>2. PICK d \in Consumers : pc[d] \in {"loadNext", "casHead"}
            BY <1>0, <5>2
          <6>3. d \in Popping /\ d # c
            BY <4>1, <6>2 DEF Popping, InLoop
          <6> QED
            BY <6>1, <6>3
        <5> QED
          BY <5>1, <5>2
      <4>4. Fifo!ReportEmpty(c)
        BY <1>1, <2>r, <2>s, <3>0, <3>3, <4>1, <4>3, FifoView DEF InLoop
      <4> QED
        BY <1>1, <4>4 DEF Fifo!FifoNext
    <3>4. CASE ~PopEnter(c) /\ ~PopUncount(c) /\ ~(PopReloadPush(c) /\ pc'[c] = "leave")
      <4>1. pc[c] \in InLoop <=> pc'[c] \in InLoop
        <5>1. PopClaim(c) => pc[c] = "claim" /\ pc'[c] = "load"
          BY <1>0, <1>p, <1>1, <2>2 DEF PopClaim, TryMovePopIndex, Goto, Quiet, Opened, Nums
        <5>2. PopCasHead(c) => pc[c] = "casHead" /\ pc'[c] = "load"
          <6>1. pc[c] = "casHead" => loc[c].nxt = loc[c].cur + 1
            BY <1>0, <1>1 DEF Locals, PopFits
          <6> QED
            BY <1>0, <1>1, <1>p, <2>2, <6>1 DEF PopCasHead, Goto, Quiet, Opened, Nums
        <5>3. CASE PopLoadPush(c) \/ PopLoadPop(c) \/ PopReloadPush(c) \/ PopLoadHead(c)
                   \/ PopCheckId(c) \/ PopClaimFirst(c) \/ PopLoadNext(c)
          BY <1>1, <1>p, <3>4, <5>3 DEF PopLoadPush, PopLoadPop, PopReloadPush, PopLoadHead,
             PopCheckId, PopClaimFirst, TryMovePopIndex, PopLoadNext, Goto, InLoop
        <5>4. CASE RetirePtr(c) \/ PopTake(c) \/ PopTakeFirst(c) \/ PopLeave(c)
                   \/ StealStep(c) \/ (c = Owner /\ OwnerTest)
          BY <1>1, <1>p, <5>4 DEF RetirePtr, PopTake, PopTakeFirst, PopLeave, StealStep, ThiefTest,
             SizeLoadPush, SizeLoadPop, SizeReload, OwnerTest, Goto, InLoop
        <5> QED
          BY <1>1, <3>4, <5>1, <5>2, <5>3, <5>4 DEF ConsumerStep, PopStep, InLoop
      <4> QED
        BY <2>r, <2>s, <3>0, <3>4, <4>1, FifoView
    <3> QED
      BY <3>1, <3>2, <3>3, <3>4
  <2> QED
    BY <2>m, <2>1, <2>2
<1>2. CASE OwnerWork
  <2>1. /\ \A d \in Consumers : d # Owner => pc'[d] = pc[d]
        /\ pc' = pc \/ (pc[Owner] \in Housekeeping /\ pc'[Owner] \in Housekeeping)
        /\ loc' = loc /\ First' = First /\ val' = val
    BY <1>0, <1>2, OwnerFrame
  <2>2. ASSUME NEW d \in Consumers
        PROVE  /\ pc'[d] = pc[d] \/ (pc[d] \in Housekeeping /\ pc'[d] \in Housekeeping)
               /\ \A i \in Nat : Claims(d, i)' = Claims(d, i)
    <3>1. pc'[d] = pc[d] \/ (pc[d] \in Housekeeping /\ pc'[d] \in Housekeeping)
      BY <2>1
    <3> QED
      BY <2>1, <3>1 DEF Claims, Housekeeping, GetNodeId, GetBufferIndex
  <2>3. Popping' = Popping
    BY <2>2 DEF Popping, InLoop, Housekeeping
  <2>4. ASSUME NEW d \in Consumers PROVE Result'[d] = Result[d]
    <3>r. /\ \A i \in Nat : Claims(d, i)' => Result'[d] = i
          /\ pc'[d] \notin {"take", "retire", "takeFirst"} => Result'[d] = val'[d]
      BY NextView DEF Answers
    <3>1. CASE pc[d] \in {"take", "retire", "takeFirst"}
      <4>1. PICK i \in Nat : Claims(d, i)
        BY <3>1, ResultIs
      <4> QED
        BY <2>2, <3>r, <4>1, ResultIs
    <3>2. CASE pc[d] \notin {"take", "retire", "takeFirst"}
      <4>1. pc'[d] \notin {"take", "retire", "takeFirst"}
        BY <2>2, <3>2 DEF Housekeeping
      <4> QED
        BY <2>1, <3>r, <3>2, <4>1, ResultIs
    <3> QED
      BY <3>1, <3>2
  <2>5. Result' = Result
    <3>1. Result = [d \in Consumers |-> Result[d]] /\ Result' = [d \in Consumers |-> Result'[d]]
      BY DEF Result
    <3> QED
      BY <2>4, <3>1
  <2>6. CASE PushPublish
    <3>1. pushIndex_' = pushIndex_ + 1 /\ pushIndex_ \in Tasks
      BY <1>0, <2>6 DEF PushPublish, Goto, Indices, Tasks, Nums
    <3>2. Queue' = Append(Queue, pushIndex_)
      BY <1>q, <1>t, <2>1, <3>1
    <3>3. Fifo!Enqueue(pushIndex_)
      BY <2>3, <2>5, <3>1, <3>2, FifoView
    <3> QED
      BY <3>1, <3>3 DEF Fifo!FifoNext
  <2>7. CASE ~PushPublish
    <3>1. pushIndex_' = pushIndex_
      BY <1>2, <2>7 DEF OwnerWork, DeleteRetiredOf, TryDeleteRetiredPtrs, PopTasksToWorker,
         PushWrite, PushCount, Destroy, vars, idxVars
    <3>2. Queue' = Queue
      BY <1>q, <2>1, <3>1
    <3> QED
      BY <2>3, <2>5, <3>2, FifoView
  <2> QED
    BY <2>6, <2>7
<1> QED
  BY <1>1, <1>2, Steps

(* The lock-free queue implements FifoQueue, for every node size and any   *)
(* number of consumers: tasks leave in the order of their pushes, each to   *)
(* one consumer, and a Pop reports an empty queue only when no task is left *)
(* or the only one is owed to another Pop in progress.                      *)
THEOREM QueueIsFifo == Spec => Refines
<1>1. Init => Fifo!FifoInit
  <2>1. ASSUME Init PROVE Fifo!FifoInit
    <3>1. IInv
      BY <2>1, InitIInv
    <3>2. First = 0 /\ pushIndex_ = 0
      BY <2>1 DEF Init, First, Lagging
    <3>3. Queue = <<>>
      BY <3>1, <3>2, QueueIsRun, RunFacts
    <3>4. Popping = {}
      BY <2>1 DEF Init, Popping, InLoop
    <3>5. Result = [c \in Consumers |-> None]
      BY <2>1 DEF Init, Result
    <3> QED
      BY <3>3, <3>4, <3>5 DEF Queue, Popping, Result, Fifo!FifoInit
  <2> QED
    BY <2>1
<1>2. IInv /\ [Next]_vars => [Fifo!FifoNext]_(Fifo!fifoVars)
  <2>1. ASSUME IInv, [Next]_vars PROVE Fifo!FifoNext \/ UNCHANGED Fifo!fifoVars
    BY <2>1, NextIInv, StepRefines
  <2> QED
    BY <2>1
<1> QED
  BY <1>1, <1>2, Invariance, PTL DEF Spec, Refines, Fifo!FifoSpec
=============================================================================
