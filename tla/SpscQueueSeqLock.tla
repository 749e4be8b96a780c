---------------------------- MODULE SpscQueueSeqLock ----------------------------
(***************************************************************************)
(* lib/spsc-queue/SpscQueueSeqLock: the request queue between one client   *)
(* (the producer) and the server's dispatcher (the consumer).  head, tail  *)
(* and buffer are plain fields of a shared-memory object; only seq is      *)
(* atomic.  Every access to shared memory is a step of its own.            *)
(*                                                                         *)
(* The plain accesses race, so the model lets every outcome of the build   *)
(* (GCC, x86-64) happen:                                                   *)
(*   - between the two read-modify-writes of seq, which are full barriers, *)
(*     the stores to buffer[head] and to head may take effect in either    *)
(*     order (pTodo);                                                      *)
(*   - the consumer's plain store to tail may sit in its store buffer: the *)
(*     producer loads tailSeen, which follows tail (DrainTail).            *)
(* head is written by the producer alone and tail by the consumer alone,   *)
(* so each reads its own index exactly.                                    *)
(***************************************************************************)
EXTENDS RingIndex

CONSTANTS
  Items,     \* the uint32_t values enqueued
  SeqMod,    \* seq wraps here: 2^64 for the code's size_t
  None       \* "no item": an unwritten (zero-filled) slot, an unused local

ASSUME SeqModAssumption == SeqMod \in Nat /\ SeqMod >= 2 /\ SeqMod % 2 = 0
ASSUME ItemsAssumption == None \notin Items

VARIABLES
  head, tail, seq, buffer,         \* struct QueueData, in shared memory
  tailSeen,                        \* the value of tail the producer can load
  pPc, pHead, enqArg, pTodo,       \* Enqueue: control, locals, stores to come
  cPc, cSeqStart, cItem, deqOut,   \* Dequeue: control, seqStart, item, last result
  quiet                            \* no Enqueue has run during this Dequeue

sharedVars == <<head, tail, seq, buffer, tailSeen>>
producerVars == <<pPc, pHead, enqArg, pTodo>>
consumerVars == <<cPc, cSeqStart, cItem, deqOut>>
vars == <<sharedVars, producerVars, consumerVars, quiet>>

\* Control states between calls; "true" and "false" are the last return value.
Returned == {"idle", "true", "false"}

-------------------------------------------------------------------------------
\* Mutated forms of the definitions below.
StoresInFlight_ItemForgotten == {"head"}
RoomFor_Unchecked(i) == TRUE
SeqIsEven_Ignored == TRUE
SeqIsEven_Inverted == seq % 2 = 1

\* nextHead == tail means full: one slot always stays free.
RoomFor(i) == Inc(i) # tailSeen

BumpSeq == seq' = (seq + 1) % SeqMod

StoresInFlight == {"item", "head"}

SeqIsEven == seq % 2 = 0

Init ==
  /\ head = 0
  /\ tail = 0
  /\ seq = 0
  /\ buffer = [i \in Index |-> None]
  /\ tailSeen = 0
  /\ pPc = "idle" /\ pHead = 0 /\ enqArg = None /\ pTodo = {}
  /\ cPc = "idle" /\ cSeqStart = 0 /\ cItem = None /\ deqOut = None
  /\ quiet = TRUE

-------------------------------------------------------------------------------
(* bool Enqueue(uint32_t item)                                             *)

\* The queue looks full: return false before seq is touched.
EnqueueFull(item) ==
  /\ pPc \in Returned
  /\ ~RoomFor(head)
  /\ pPc' = "false"
  /\ quiet' = FALSE
  /\ UNCHANGED <<sharedVars, pHead, enqArg, pTodo, consumerVars>>

EnqueueStart(item) ==
  /\ pPc \in Returned
  /\ RoomFor(head)
  /\ pPc' = "lock"
  /\ pHead' = head
  /\ enqArg' = item
  /\ quiet' = FALSE
  /\ UNCHANGED <<sharedVars, pTodo, consumerVars>>

\* First seq.fetch_add: seq becomes odd.
EnqueueLock ==
  /\ pPc = "lock"
  /\ BumpSeq
  /\ pPc' = "store"
  /\ pTodo' = StoresInFlight
  /\ quiet' = FALSE
  /\ UNCHANGED <<head, tail, buffer, tailSeen, pHead, enqArg, consumerVars>>

EnqueueStoreItem ==
  /\ pPc = "store"
  /\ "item" \in pTodo
  /\ buffer' = [buffer EXCEPT ![pHead] = enqArg]
  /\ pTodo' = pTodo \ {"item"}
  /\ quiet' = FALSE
  /\ UNCHANGED <<head, tail, seq, tailSeen, pPc, pHead, enqArg, consumerVars>>

EnqueueStoreHead ==
  /\ pPc = "store"
  /\ "head" \in pTodo
  /\ head' = Inc(pHead)
  /\ pTodo' = pTodo \ {"head"}
  /\ quiet' = FALSE
  /\ UNCHANGED <<tail, seq, buffer, tailSeen, pPc, pHead, enqArg, consumerVars>>

\* Second seq.fetch_add: both stores are visible, seq is even, return true.
EnqueueUnlock ==
  /\ pPc = "store"
  /\ pTodo = {}
  /\ BumpSeq
  /\ pPc' = "true"
  /\ enqArg' = None
  /\ quiet' = FALSE
  /\ UNCHANGED <<head, tail, buffer, tailSeen, pHead, pTodo, consumerVars>>

-------------------------------------------------------------------------------
(* bool Dequeue(uint32_t& item)                                            *)

\* tail == head: return false.
DequeueEmpty ==
  /\ cPc \in Returned
  /\ tail = head
  /\ cPc' = "false"
  /\ quiet' = (pPc \in Returned)
  /\ UNCHANGED <<sharedVars, producerVars, cSeqStart, cItem, deqOut>>

DequeueStart ==
  /\ cPc \in Returned
  /\ tail # head
  /\ cPc' = "loadSeq"
  /\ quiet' = (pPc \in Returned)
  /\ UNCHANGED <<sharedVars, producerVars, cSeqStart, cItem, deqOut>>

\* seqStart is odd while an Enqueue is between its two increments.
DequeueLoadSeq ==
  /\ cPc = "loadSeq"
  /\ cSeqStart' = seq
  /\ cPc' = IF SeqIsEven THEN "read" ELSE "false"
  /\ UNCHANGED <<sharedVars, producerVars, cItem, deqOut, quiet>>

DequeueRead ==
  /\ cPc = "read"
  /\ cItem' = buffer[tail]
  /\ cPc' = "validate"
  /\ UNCHANGED <<sharedVars, producerVars, cSeqStart, deqOut, quiet>>

\* seqStart == seqEnd: free the slot and return true.
DequeueCommit ==
  /\ cPc = "validate"
  /\ seq = cSeqStart
  /\ tail' = Inc(tail)
  /\ deqOut' = cItem
  /\ cPc' = "true"
  /\ UNCHANGED <<head, seq, buffer, tailSeen, producerVars, cSeqStart, cItem, quiet>>

DequeueRetry ==
  /\ cPc = "validate"
  /\ seq # cSeqStart
  /\ cPc' = "false"
  /\ UNCHANGED <<sharedVars, producerVars, cSeqStart, cItem, deqOut, quiet>>

\* The oldest store to tail leaves the consumer's store buffer.
DrainTail ==
  /\ tailSeen # tail
  /\ tailSeen' = Inc(tailSeen)
  /\ UNCHANGED <<head, tail, seq, buffer, producerVars, consumerVars, quiet>>

-------------------------------------------------------------------------------
EnqueueCall == \E item \in Items : EnqueueStart(item) \/ EnqueueFull(item)

\* An Enqueue that has begun; its steps are those of a running process.
EnqueueStep == EnqueueLock \/ EnqueueStoreItem \/ EnqueueStoreHead \/ EnqueueUnlock

Dequeue ==
  \/ DequeueEmpty \/ DequeueStart
  \/ DequeueLoadSeq \/ DequeueRead \/ DequeueCommit \/ DequeueRetry

Next ==
  \/ EnqueueCall
  \/ EnqueueStep
  \/ Dequeue
  \/ DrainTail

Spec == Init /\ [][Next]_vars

(* The consumer polls for ever, the producer finishes the call it is in    *)
(* (but need not make another), and a store buffer drains.                 *)
FairSpec ==
  /\ Spec
  /\ WF_vars(EnqueueStep)
  /\ WF_vars(Dequeue)
  /\ WF_vars(DrainTail)

-------------------------------------------------------------------------------
(* The queue the two callers see.                                          *)

\* The head up to which items are published: the Enqueue in progress counts
\* only from its second increment of seq.
CommittedHead == IF pPc \in Returned THEN head ELSE pHead

Pending == Dist(tail, CommittedHead)

Content == Segment(buffer, tail, Pending)

Fifo == INSTANCE SpscFifo WITH
          Depth <- Capacity - 1, queue <- Content

\* The queue class implements the bounded FIFO: items come out once each, in
\* the order in which they went in, and at most GetRealCapacity() are held,
\* whatever the interleaving of Enqueue and Dequeue and the order in which
\* the plain stores of Enqueue become visible.
ImplementsFifo == Fifo!Spec

-------------------------------------------------------------------------------
(* Invariants.                                                             *)

TypeOK ==
  /\ head \in Index /\ tail \in Index /\ tailSeen \in Index
  /\ seq \in 0 .. SeqMod - 1
  /\ buffer \in [Index -> Items \cup {None}]
  /\ pPc \in Returned \cup {"lock", "store"}
  /\ pHead \in Index
  /\ enqArg \in Items \cup {None}
  /\ pTodo \subseteq {"item", "head"}
  /\ cPc \in Returned \cup {"loadSeq", "read", "validate"}
  /\ cSeqStart \in 0 .. SeqMod - 1
  /\ cItem \in Items \cup {None}
  /\ deqOut \in Items \cup {None}
  /\ quiet \in BOOLEAN

\* The slot Dequeue reads is never the slot an Enqueue in progress writes,
\* although nothing orders the plain accesses to buffer: the data race on
\* buffer cannot happen.
NoSlotRace ==
  cPc \in {"read", "validate"} /\ pPc = "store" => tail # pHead

\* A Dequeue returns false on a non-empty queue only when an Enqueue ran
\* during the call (seq odd, or changed): with the producer quiet, a queue
\* that holds an item always yields it, as the single-process test expects.
FailsOnlyOnOverlap ==
  [][ cPc' = "false" /\ cPc # "false" /\ quiet' => Content' = << >> ]_vars

\* A published item is eventually dequeued by a consumer that keeps polling:
\* a producer that enqueues without pause cannot starve it, because it runs
\* into the full queue, where Enqueue leaves seq alone.  And a queue that looks
\* full to the producer does not do so for ever: a retried Enqueue is accepted.
EventuallyServed ==
  /\ Content # << >> ~> cPc = "true"
  /\ ~RoomFor(head) ~> RoomFor(head)

-------------------------------------------------------------------------------
(* The inductive invariant behind ImplementsFifo and NoSlotRace.           *)

\* pHead is the head the Enqueue in progress started from; head moves past it
\* exactly when the store to head takes effect.
WriterInv ==
  /\ pPc \in Returned => enqArg = None
  /\ pPc \notin Returned => enqArg \in Items
  /\ pPc = "lock" => head = pHead
  /\ pPc = "store" =>
       /\ head = IF "head" \in pTodo THEN pHead ELSE Inc(pHead)
       /\ "item" \notin pTodo => buffer[pHead] = enqArg

\* seq is odd exactly between the two increments.
ParityInv == seq % 2 = IF pPc = "store" THEN 1 ELSE 0

\* Round the ring: tailSeen, tail, the published head, then back to tailSeen
\* with at least one free slot, two while an Enqueue is in progress.
RoomInv ==
  Dist(tailSeen, tail) + Pending <
    IF pPc \in Returned THEN Capacity ELSE Capacity - 1

\* From the check of head on there is an item at tail; once seq was seen even
\* it is a published one, and the copy Dequeue holds is that item.
ReaderInv ==
  /\ cPc = "loadSeq" => tail # head
  /\ cPc \in {"read", "validate"} => tail # CommittedHead
  /\ cPc = "validate" => cItem = buffer[tail]

\* While the producer is quiet no call of Enqueue is in progress, and seq is
\* what Dequeue saw at its start.
QuietInv ==
  quiet =>
    /\ pPc \in Returned
    /\ cPc \in {"read", "validate"} => seq = cSeqStart

\* The strengthening of NoSlotRace and FailsOnlyOnOverlap that
\* every step preserves: what relates the indices, the parity of seq and the
\* locals of both calls.
IInv == TypeOK /\ WriterInv /\ ParityInv /\ RoomInv /\ ReaderInv /\ QuietInv
===============================================================================
