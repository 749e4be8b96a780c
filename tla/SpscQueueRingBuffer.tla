-------------------------- MODULE SpscQueueRingBuffer --------------------------
(***************************************************************************)
(* lib/spsc-queue/SpscQueueRingBuffer: the lock-free queue whose head and  *)
(* tail are atomics, stored with release and loaded with acquire order.    *)
(* Every access to shared memory is a step of its own.                     *)
(*                                                                         *)
(* A store to head or tail is visible to the other side some time later    *)
(* and in the order of the stores: the consumer loads headSeen, which      *)
(* follows head, and the producer loads tailSeen, which follows tail.      *)
(* Release/acquire makes the access to the slot precede the store of the   *)
(* index for whoever loads that index, so buffer needs no second copy.     *)
(***************************************************************************)
EXTENDS RingIndex

CONSTANTS
  Items,  \* the uint32_t values enqueued
  None    \* "no item": an unwritten (zero-filled) slot, an unused local

ASSUME ItemsAssumption == None \notin Items

VARIABLES
  head, tail, buffer,         \* struct QueueData, in shared memory
  headSeen, tailSeen,         \* what the other side can load of head and tail
  pPc, pHead, enqArg,         \* Enqueue: control and locals
  cPc, cTail, cItem, deqOut   \* Dequeue: control, locals, last result

producerVars == <<pPc, pHead, enqArg>>
consumerVars == <<cPc, cTail, cItem, deqOut>>
vars == <<head, tail, buffer, headSeen, tailSeen, producerVars, consumerVars>>

\* Control states between calls; "true" and "false" are the last return value.
Returned == {"idle", "true", "false"}

Init ==
  /\ head = 0 /\ tail = 0
  /\ headSeen = 0 /\ tailSeen = 0
  /\ buffer = [i \in Index |-> None]
  /\ pPc = "idle" /\ pHead = 0 /\ enqArg = None
  /\ cPc = "idle" /\ cTail = 0 /\ cItem = None /\ deqOut = None

-------------------------------------------------------------------------------
(* bool Enqueue(uint32_t item)                                             *)

\* Mutated form of the definition below.
RoomFor_Unchecked(i) == TRUE

\* nextHead == tail means full: one slot always stays free.
RoomFor(i) == Inc(i) # tailSeen

EnqueueFull(item) ==
  /\ pPc \in Returned
  /\ ~RoomFor(head)
  /\ pPc' = "false"
  /\ UNCHANGED <<head, tail, buffer, headSeen, tailSeen, pHead, enqArg, consumerVars>>

EnqueueStart_PublishesEarly(item) ==
  /\ pPc \in Returned
  /\ RoomFor(head)
  /\ pPc' = "write"
  /\ pHead' = head
  /\ head' = Inc(head)
  /\ enqArg' = item
  /\ UNCHANGED <<tail, buffer, headSeen, tailSeen, consumerVars>>

EnqueueStart(item) ==
  /\ pPc \in Returned
  /\ RoomFor(head)
  /\ pPc' = "write"
  /\ pHead' = head
  /\ enqArg' = item
  /\ UNCHANGED <<head, tail, buffer, headSeen, tailSeen, consumerVars>>

EnqueueWrite ==
  /\ pPc = "write"
  /\ buffer' = [buffer EXCEPT ![pHead] = enqArg]
  /\ pPc' = "publish"
  /\ UNCHANGED <<head, tail, headSeen, tailSeen, pHead, enqArg, consumerVars>>

\* head.store(nextHead, release), return true.
EnqueuePublish ==
  /\ pPc = "publish"
  /\ head' = Inc(pHead)
  /\ pPc' = "true"
  /\ enqArg' = None
  /\ UNCHANGED <<tail, buffer, headSeen, tailSeen, pHead, consumerVars>>

-------------------------------------------------------------------------------
(* bool Dequeue(uint32_t& item)                                            *)

LooksEmpty_Inverted == tail # headSeen

\* tail == head
LooksEmpty == tail = headSeen

DequeueEmpty ==
  /\ cPc \in Returned
  /\ LooksEmpty
  /\ cPc' = "false"
  /\ UNCHANGED <<head, tail, buffer, headSeen, tailSeen, producerVars, cTail, cItem, deqOut>>

DequeueStart ==
  /\ cPc \in Returned
  /\ ~LooksEmpty
  /\ cTail' = tail
  /\ cPc' = "read"
  /\ UNCHANGED <<head, tail, buffer, headSeen, tailSeen, producerVars, cItem, deqOut>>

DequeueRead ==
  /\ cPc = "read"
  /\ cItem' = buffer[cTail]
  /\ cPc' = "release"
  /\ UNCHANGED <<head, tail, buffer, headSeen, tailSeen, producerVars, cTail, deqOut>>

\* tail.store(nextTail, release), return true.
DequeueRelease ==
  /\ cPc = "release"
  /\ tail' = Inc(cTail)
  /\ deqOut' = cItem
  /\ cPc' = "true"
  /\ UNCHANGED <<head, buffer, headSeen, tailSeen, producerVars, cTail, cItem>>

-------------------------------------------------------------------------------
(* The stores to the two indices become visible to the other side.         *)

DrainHead ==
  /\ headSeen # head
  /\ headSeen' = Inc(headSeen)
  /\ UNCHANGED <<head, tail, buffer, tailSeen, producerVars, consumerVars>>

DrainTail ==
  /\ tailSeen # tail
  /\ tailSeen' = Inc(tailSeen)
  /\ UNCHANGED <<head, tail, buffer, headSeen, producerVars, consumerVars>>

-------------------------------------------------------------------------------
EnqueueCall == \E item \in Items : EnqueueStart(item) \/ EnqueueFull(item)

EnqueueStep == EnqueueWrite \/ EnqueuePublish

Dequeue == DequeueEmpty \/ DequeueStart \/ DequeueRead \/ DequeueRelease

Next ==
  \/ EnqueueCall
  \/ EnqueueStep
  \/ Dequeue
  \/ DrainHead
  \/ DrainTail

Spec == Init /\ [][Next]_vars

(* The consumer polls for ever, the producer retries, and a store becomes  *)
(* visible after a finite time.                                            *)
RetryingSpec ==
  /\ Spec
  /\ WF_vars(EnqueueCall)
  /\ WF_vars(EnqueueStep)
  /\ WF_vars(Dequeue)
  /\ WF_vars(DrainHead)
  /\ WF_vars(DrainTail)

-------------------------------------------------------------------------------
(* The queue the two callers see: what the producer has published and the  *)
(* consumer has not released, visible to the other side or not.            *)

Content == Segment(buffer, tail, Dist(tail, head))

Fifo == INSTANCE SpscFifo WITH Depth <- Capacity - 1, queue <- Content

\* The queue class implements the bounded FIFO: items come out once each, in
\* the order in which they went in, and at most GetRealCapacity() are held,
\* however late each side sees the index the other side stored.
ImplementsFifo == Fifo!Spec

-------------------------------------------------------------------------------
(* Properties.                                                             *)

TypeOK ==
  /\ head \in Index /\ tail \in Index /\ headSeen \in Index /\ tailSeen \in Index
  /\ buffer \in [Index -> Items \cup {None}]
  /\ pPc \in Returned \cup {"write", "publish"}
  /\ pHead \in Index
  /\ enqArg \in Items \cup {None}
  /\ cPc \in Returned \cup {"read", "release"}
  /\ cTail \in Index
  /\ cItem \in Items \cup {None}
  /\ deqOut \in Items \cup {None}

\* The producer never writes the slot the consumer is about to read: the
\* plain accesses to buffer do not race, however stale the indices are.
NoSlotRace == cPc = "read" /\ pPc = "write" => cTail # pHead

\* Every accepted item is eventually dequeued by a consumer that polls, and a
\* producer that retries a refused Enqueue is eventually served: neither side
\* waits for ever on an index the other has moved.
EventuallyServed ==
  /\ Content # << >> ~> cPc = "true"
  /\ pPc = "false" ~> pPc = "true"

-------------------------------------------------------------------------------
(* The inductive invariant behind ImplementsFifo and NoSlotRace.           *)

WriterInv ==
  /\ pPc \in Returned => enqArg = None
  /\ pPc \notin Returned => enqArg \in Items /\ pHead = head
  /\ pPc = "publish" => buffer[pHead] = enqArg

ReaderInv ==
  /\ cPc \in {"read", "release"} => cTail = tail /\ tail # headSeen
  /\ cPc = "release" => cItem = buffer[cTail]

\* The four indices lie round the ring in the order tailSeen, tail, headSeen,
\* head, with a free slot before tailSeen, two while an Enqueue is in progress.
RoomInv ==
  Dist(tailSeen, tail) + Dist(tail, headSeen) + Dist(headSeen, head) <
    IF pPc \in Returned THEN Capacity ELSE Capacity - 1

\* The strengthening of NoSlotRace that every step preserves.
IInv == TypeOK /\ WriterInv /\ ReaderInv /\ RoomInv
===============================================================================
