------------------------ MODULE SpscQueueSeqLock_proofs ------------------------
(***************************************************************************)
(* For every capacity the constructor accepts, every set of items and      *)
(* every even modulus of seq: the inductive invariant of the sequence-lock *)
(* queue, the absence of a race on a slot, and the refinement of SpscFifo. *)
(***************************************************************************)
EXTENDS SpscQueueSeqLock, RingIndex_proofs

\* One increment of seq flips its parity, also where seq wraps.
LEMMA SeqParity ==
  ASSUME NEW s \in 0 .. SeqMod - 1
  PROVE  /\ (s + 1) % SeqMod \in 0 .. SeqMod - 1
         /\ ((s + 1) % SeqMod) % 2 = 1 - (s % 2)
<1>1. CASE s + 1 = SeqMod
  <2>1. (s + 1) % SeqMod = 0
    BY <1>1, SeqModAssumption, ModOnce
  <2>2. QED
    BY <2>1, <1>1, SeqModAssumption
<1>2. CASE s + 1 # SeqMod
  <2>1. (s + 1) % SeqMod = s + 1
    BY <1>2, SeqModAssumption, ModSmall
  <2>2. QED
    BY <2>1, <1>2, SeqModAssumption
<1>3. QED
  BY <1>1, <1>2

LEMMA InitIInv == Init => IInv
<1> SUFFICES ASSUME Init PROVE IInv
  OBVIOUS
<1>1. 0 \in Index
  BY CapacityFact DEF Index
<1>2. TypeOK
  BY <1>1, SeqModAssumption DEF Init, TypeOK, Returned
<1>3. WriterInv /\ ReaderInv
  BY DEF Init, WriterInv, ReaderInv, Returned
<1>4. ParityInv
  BY DEF Init, ParityInv
<1>5. RoomInv
  BY CapacityFact DEF Init, RoomInv, Pending, CommittedHead, Returned, Dist
<1>6. QuietInv
  BY DEF Init, QuietInv, Returned
<1>7. QED
  BY <1>2, <1>3, <1>4, <1>5, <1>6 DEF IInv

\* The distances RoomInv speaks of, as numbers.
LEMMA RoomTypes ==
  ASSUME TypeOK
  PROVE  /\ CommittedHead \in Index
         /\ Dist(tailSeen, tail) \in Nat
         /\ Pending \in 0 .. Capacity - 1
<1>1. CommittedHead \in Index
  BY DEF TypeOK, CommittedHead
<1>2. Dist(tailSeen, tail) \in 0 .. Capacity - 1 /\ Pending \in 0 .. Capacity - 1
  BY <1>1, DistType DEF TypeOK, Pending
<1>3. QED
  BY <1>1, <1>2, CapacityFact

\* A free slot the producer sees is free for the consumer too: tailSeen only
\* lags behind tail, so the slot after head is not tail either.
LEMMA RoomIsReal ==
  ASSUME TypeOK, RoomInv
  PROVE  /\ pPc \notin Returned => Inc(pHead) # tail /\ Inc(pHead) # tailSeen
         /\ pPc \in Returned /\ RoomFor(head) =>
              Dist(tailSeen, tail) + Dist(tail, head) < Capacity - 1
<1>1. Dist(tailSeen, tail) \in Nat /\ Pending \in 0 .. Capacity - 1
  BY RoomTypes
<1>2. pPc \notin Returned => Inc(pHead) # tail /\ Inc(pHead) # tailSeen
  BY <1>1, IncIs, CapacityFact
     DEF TypeOK, RoomInv, Pending, CommittedHead, Dist, Index
<1>3. pPc \in Returned /\ RoomFor(head) =>
        Dist(tailSeen, tail) + Dist(tail, head) < Capacity - 1
  BY <1>1, IncIs, CapacityFact
     DEF TypeOK, RoomInv, Pending, CommittedHead, RoomFor, Dist, Index
<1>4. QED
  BY <1>2, <1>3

\* Every step of Enqueue ends the quiet; Dequeue alone keeps seq as it was.
LEMMA NextQuiet == IInv /\ [Next]_vars => QuietInv'
<1> SUFFICES ASSUME IInv, [Next]_vars PROVE QuietInv'
  OBVIOUS
<1>inv. QuietInv
  BY DEF IInv
<1>1. ASSUME NEW item \in Items, EnqueueFull(item) \/ EnqueueStart(item)
      PROVE  quiet' = FALSE
  BY <1>1 DEF EnqueueFull, EnqueueStart
<1>2. ASSUME EnqueueStep
      PROVE  quiet' = FALSE
  BY <1>2 DEF EnqueueStep, EnqueueLock, EnqueueStoreItem, EnqueueStoreHead, EnqueueUnlock
<1>3. ASSUME DequeueEmpty \/ DequeueStart
      PROVE  QuietInv'
  <2>1. (quiet' => pPc' \in Returned) /\ cPc' \in {"false", "loadSeq"}
    BY <1>3, Zenon DEF DequeueEmpty, DequeueStart, producerVars
  <2>2. QED
    BY <2>1 DEF QuietInv
<1>4. ASSUME DequeueLoadSeq \/ DequeueRead \/ DequeueCommit \/ DequeueRetry
      PROVE  QuietInv'
  <2>1. (quiet' => quiet) /\ UNCHANGED <<seq, pPc>>
    <3>1. UNCHANGED <<seq, pPc>> /\ quiet' = quiet
      BY <1>4
         DEF DequeueLoadSeq, DequeueRead, DequeueCommit, DequeueRetry, sharedVars, producerVars
    <3>2. QED
      BY <3>1, Zenon
  <2>2. cPc' \in {"read", "validate"} /\ seq = cSeqStart => seq = cSeqStart'
    BY <1>4 DEF DequeueLoadSeq, DequeueRead, DequeueCommit, DequeueRetry
  <2>3. cPc' \in {"read", "validate"} => DequeueLoadSeq \/ cPc \in {"read", "validate"}
    BY <1>4 DEF DequeueRead, DequeueCommit, DequeueRetry
  <2>4. DequeueLoadSeq => seq = cSeqStart'
    BY DEF DequeueLoadSeq
  <2>5. QED
    BY <1>inv, <2>1, <2>2, <2>3, <2>4 DEF QuietInv
<1>5. ASSUME DrainTail \/ UNCHANGED vars
      PROVE  QuietInv'
  BY <1>5, <1>inv
     DEF DrainTail, QuietInv, vars, sharedVars, producerVars, consumerVars
<1>6. QED
  BY <1>1, <1>2, <1>3, <1>4, <1>5
     DEF Next, EnqueueCall, Dequeue, QuietInv

LEMMA NextIInv == IInv /\ [Next]_vars => IInv'
<1> SUFFICES ASSUME IInv, [Next]_vars PROVE IInv'
  OBVIOUS
<1>inv. TypeOK /\ WriterInv /\ ParityInv /\ RoomInv /\ ReaderInv
  BY DEF IInv
<1>quiet. QuietInv'
  BY NextQuiet
<1>1. ASSUME NEW item \in Items, EnqueueFull(item)
      PROVE  IInv'
  <2> USE <1>1 DEF EnqueueFull, sharedVars, consumerVars
  <2>1. TypeOK'
    BY <1>inv DEF TypeOK, Returned
  <2>2. WriterInv'
    BY <1>inv DEF WriterInv, Returned
  <2>3. ParityInv'
    BY <1>inv DEF ParityInv, Returned
  <2>4. CommittedHead' = CommittedHead
    BY DEF CommittedHead, Returned
  <2>5. RoomInv'
    BY <1>inv, <2>4 DEF RoomInv, Pending, Dist, Returned
  <2>6. ReaderInv'
    BY <1>inv, <2>4 DEF ReaderInv
  <2>7. QED
    BY <2>1, <2>2, <2>3, <2>5, <2>6, <1>quiet DEF IInv
<1>2. ASSUME NEW item \in Items, EnqueueStart(item)
      PROVE  IInv'
  <2> USE <1>2 DEF EnqueueStart, sharedVars, consumerVars
  <2>1. TypeOK'
    BY <1>inv DEF TypeOK
  <2>2. WriterInv'
    BY <1>inv DEF WriterInv, Returned
  <2>3. ParityInv'
    BY <1>inv DEF ParityInv, Returned
  <2>4. CommittedHead' = CommittedHead
    BY DEF CommittedHead, Returned
  <2>5. RoomInv'
    BY <1>inv, <2>4, RoomIsReal DEF RoomInv, Pending, CommittedHead, Dist, Returned
  <2>6. ReaderInv'
    BY <1>inv, <2>4 DEF ReaderInv
  <2>7. QED
    BY <2>1, <2>2, <2>3, <2>5, <2>6, <1>quiet DEF IInv
<1>3. ASSUME EnqueueLock
      PROVE  IInv'
  <2> USE <1>3 DEF EnqueueLock, BumpSeq, consumerVars
  <2>1. TypeOK'
    BY <1>inv, SeqParity DEF TypeOK, StoresInFlight
  <2>2. WriterInv'
    BY <1>inv DEF WriterInv, Returned, StoresInFlight
  <2>3. ParityInv'
    BY <1>inv, SeqParity DEF ParityInv, TypeOK
  <2>4. CommittedHead' = CommittedHead
    BY <1>inv DEF CommittedHead, Returned
  <2>5. RoomInv'
    BY <1>inv, <2>4 DEF RoomInv, Pending, Dist, Returned
  <2>6. ReaderInv'
    BY <1>inv, <2>4 DEF ReaderInv
  <2>7. QED
    BY <2>1, <2>2, <2>3, <2>5, <2>6, <1>quiet DEF IInv
<1>4. ASSUME EnqueueStoreItem
      PROVE  IInv'
  <2> USE <1>4 DEF EnqueueStoreItem, consumerVars
  <2>1. TypeOK'
    BY <1>inv DEF TypeOK, WriterInv
  <2>2. WriterInv'
    BY <1>inv DEF WriterInv, Returned, TypeOK
  <2>3. ParityInv'
    BY <1>inv DEF ParityInv
  <2>4. CommittedHead' = CommittedHead
    BY DEF CommittedHead
  <2>5. RoomInv'
    BY <1>inv, <2>4 DEF RoomInv, Pending, Dist
  <2>6. ReaderInv'
    BY <1>inv, <2>4 DEF ReaderInv, CommittedHead, Returned, TypeOK
  <2>7. QED
    BY <2>1, <2>2, <2>3, <2>5, <2>6, <1>quiet DEF IInv
<1>5. ASSUME EnqueueStoreHead
      PROVE  IInv'
  <2> USE <1>5 DEF EnqueueStoreHead, consumerVars
  <2>1. TypeOK'
    BY <1>inv, IncType DEF TypeOK
  <2>2. WriterInv'
    BY <1>inv DEF WriterInv, Returned
  <2>3. ParityInv'
    BY <1>inv DEF ParityInv
  <2>4. CommittedHead' = CommittedHead
    BY DEF CommittedHead, Returned
  <2>5. RoomInv'
    BY <1>inv, <2>4 DEF RoomInv, Pending, Dist
  <2>6. ReaderInv'
    BY <1>inv, <2>4, RoomIsReal DEF ReaderInv, Returned
  <2>7. QED
    BY <2>1, <2>2, <2>3, <2>5, <2>6, <1>quiet DEF IInv
<1>6. ASSUME EnqueueUnlock
      PROVE  IInv'
  <2> USE <1>6 DEF EnqueueUnlock, BumpSeq, consumerVars
  <2>1. TypeOK'
    BY <1>inv, SeqParity DEF TypeOK, Returned
  <2>2. WriterInv'
    BY <1>inv DEF WriterInv, Returned
  <2>3. ParityInv'
    BY <1>inv, SeqParity DEF ParityInv, TypeOK
  <2>4. CommittedHead = pHead /\ CommittedHead' = Inc(pHead)
    BY <1>inv DEF CommittedHead, WriterInv, Returned
  <2>5. RoomInv'
    <3>1. Inc(pHead) # tail
      BY <1>inv, RoomIsReal DEF Returned
    <3>2. Dist(tail, Inc(pHead)) = Dist(tail, pHead) + 1
      BY <1>inv, <3>1, DistIncHead DEF TypeOK
    <3>3. Pending' = Pending + 1
      BY <2>4, <3>2 DEF Pending, Dist
    <3>4. Dist(tailSeen, tail)' = Dist(tailSeen, tail)
      BY DEF Dist
    <3>5. QED
      BY <1>inv, <3>3, <3>4, RoomTypes, CapacityFact DEF RoomInv, Returned
  <2>6. ReaderInv'
    BY <1>inv, <2>4, RoomIsReal DEF ReaderInv, Returned
  <2>7. QED
    BY <2>1, <2>2, <2>3, <2>5, <2>6, <1>quiet DEF IInv
<1>7. ASSUME DequeueEmpty \/ DequeueStart
      PROVE  IInv'
  <2>q. quiet' \in BOOLEAN
    <3>1. quiet' = (pPc \in Returned)
      BY <1>7 DEF DequeueEmpty, DequeueStart
    <3>2. (pPc \in Returned) \in BOOLEAN
      OBVIOUS
    <3>3. QED
      BY <3>1, <3>2, Zenon
  <2>r. cPc' \in {"false", "loadSeq"} /\ UNCHANGED <<sharedVars, producerVars, cSeqStart, cItem, deqOut>>
    BY <1>7, Zenon DEF DequeueEmpty, DequeueStart
  <2> USE <1>7 DEF DequeueEmpty, DequeueStart, sharedVars, producerVars
  <2>1. TypeOK'
    BY <1>inv, <2>q, <2>r DEF TypeOK, Returned
  <2>2. WriterInv' /\ ParityInv'
    BY <1>inv DEF WriterInv, ParityInv
  <2>3. CommittedHead' = CommittedHead
    BY DEF CommittedHead
  <2>4. RoomInv'
    BY <1>inv, <2>3 DEF RoomInv, Pending, Dist
  <2>5. ReaderInv'
    BY <1>inv DEF ReaderInv, Returned
  <2>6. QED
    BY <2>1, <2>2, <2>4, <2>5, <1>quiet DEF IInv
<1>8. ASSUME DequeueLoadSeq
      PROVE  IInv'
  <2> USE <1>8 DEF DequeueLoadSeq, sharedVars, producerVars
  <2>1. TypeOK'
    BY <1>inv DEF TypeOK, Returned
  <2>2. WriterInv' /\ ParityInv'
    BY <1>inv DEF WriterInv, ParityInv
  <2>3. CommittedHead' = CommittedHead
    BY DEF CommittedHead
  <2>4. RoomInv'
    BY <1>inv, <2>3 DEF RoomInv, Pending, Dist
  <2>5. ReaderInv'
    \* seq even: no Enqueue is between its increments, so head is published.
    <3>1. SeqIsEven => head = CommittedHead
      BY <1>inv DEF SeqIsEven, ParityInv, WriterInv, TypeOK, CommittedHead
    <3>2. QED
      BY <1>inv, <2>3, <3>1 DEF ReaderInv
  <2>6. QED
    BY <2>1, <2>2, <2>4, <2>5, <1>quiet DEF IInv
<1>9. ASSUME DequeueRead
      PROVE  IInv'
  <2> USE <1>9 DEF DequeueRead, sharedVars, producerVars
  <2>1. TypeOK'
    BY <1>inv DEF TypeOK
  <2>2. WriterInv' /\ ParityInv'
    BY <1>inv DEF WriterInv, ParityInv
  <2>3. CommittedHead' = CommittedHead
    BY DEF CommittedHead
  <2>4. RoomInv'
    BY <1>inv, <2>3 DEF RoomInv, Pending, Dist
  <2>5. ReaderInv'
    BY <1>inv, <2>3 DEF ReaderInv
  <2>6. QED
    BY <2>1, <2>2, <2>4, <2>5, <1>quiet DEF IInv
<1>10. ASSUME DequeueCommit
       PROVE  IInv'
  <2> USE <1>10 DEF DequeueCommit, producerVars
  <2>1. TypeOK'
    BY <1>inv, IncType DEF TypeOK, Returned
  <2>2. WriterInv' /\ ParityInv'
    BY <1>inv DEF WriterInv, ParityInv
  <2>3. CommittedHead' = CommittedHead
    BY DEF CommittedHead
  <2>4. RoomInv'
    <3>1. tail # CommittedHead
      BY <1>inv DEF ReaderInv
    <3>2. Pending' = Pending - 1
      BY <1>inv, <2>3, <3>1, RoomTypes, DistIncTail DEF TypeOK, Pending, Dist
    <3>3. Inc(tail) # tailSeen
      BY <1>inv, <3>1, RoomTypes, IncIs, CapacityFact
         DEF TypeOK, RoomInv, Pending, Dist, Index
    <3>4. Dist(tailSeen, tail)' = Dist(tailSeen, tail) + 1
      BY <1>inv, <3>3, DistIncHead DEF TypeOK, Dist
    <3>5. QED
      BY <1>inv, <3>2, <3>4, RoomTypes, CapacityFact DEF RoomInv
  <2>5. ReaderInv'
    BY <1>inv DEF ReaderInv, Returned
  <2>6. QED
    BY <2>1, <2>2, <2>4, <2>5, <1>quiet DEF IInv
<1>11. ASSUME DequeueRetry
       PROVE  IInv'
  <2> USE <1>11 DEF DequeueRetry, sharedVars, producerVars
  <2>1. TypeOK'
    BY <1>inv DEF TypeOK, Returned
  <2>2. WriterInv' /\ ParityInv'
    BY <1>inv DEF WriterInv, ParityInv
  <2>3. CommittedHead' = CommittedHead
    BY DEF CommittedHead
  <2>4. RoomInv'
    BY <1>inv, <2>3 DEF RoomInv, Pending, Dist
  <2>5. ReaderInv'
    BY <1>inv DEF ReaderInv
  <2>6. QED
    BY <2>1, <2>2, <2>4, <2>5, <1>quiet DEF IInv
<1>12. ASSUME DrainTail
       PROVE  IInv'
  <2> USE <1>12 DEF DrainTail, producerVars, consumerVars
  <2>1. TypeOK'
    BY <1>inv, IncType DEF TypeOK
  <2>2. WriterInv' /\ ParityInv'
    BY <1>inv DEF WriterInv, ParityInv
  <2>3. CommittedHead' = CommittedHead
    BY DEF CommittedHead
  <2>4. RoomInv'
    <3>1. Pending' = Pending
      BY <2>3 DEF Pending, Dist
    <3>2. Dist(tailSeen, tail)' = Dist(tailSeen, tail) - 1
      BY <1>inv, DistIncTail DEF TypeOK, Dist
    <3>3. QED
      BY <1>inv, <3>1, <3>2, RoomTypes, CapacityFact DEF RoomInv
  <2>5. ReaderInv'
    BY <1>inv, <2>3 DEF ReaderInv
  <2>6. QED
    BY <2>1, <2>2, <2>4, <2>5, <1>quiet DEF IInv
<1>13. ASSUME UNCHANGED vars
       PROVE  IInv'
  BY <1>inv, <1>quiet, <1>13
     DEF IInv, TypeOK, WriterInv, ParityInv, RoomInv, ReaderInv, Pending, Dist,
         CommittedHead, vars, sharedVars, producerVars, consumerVars
<1>14. QED
  BY <1>1, <1>2, <1>3, <1>4, <1>5, <1>6, <1>7, <1>8, <1>9, <1>10, <1>11,
     <1>12, <1>13
     DEF Next, EnqueueCall, EnqueueStep, Dequeue

\* The indices, the parity of seq and the locals of the two calls agree in
\* every reachable state.
THEOREM Invariance == Spec => []IInv
<1>1. QED
  BY InitIInv, NextIInv, PTL DEF Spec

\* Every variable of the queue keeps its type, the indices their range and
\* seq its width.
THEOREM TypeCorrect == Spec => []TypeOK
<1>1. IInv => TypeOK
  BY DEF IInv
<1>2. QED
  BY <1>1, Invariance, PTL

\* Dequeue never reads the slot an Enqueue in progress writes.
THEOREM SlotRaceFree == Spec => []NoSlotRace
<1>1. IInv => NoSlotRace
  BY DEF IInv, ReaderInv, NoSlotRace, CommittedHead, Returned
<1>2. QED
  BY <1>1, Invariance, PTL

-------------------------------------------------------------------------------
(* Refinement: EnqueueStart is Begin, EnqueueUnlock is Put, DequeueCommit  *)
(* is Get, and every other step leaves the abstract queue as it is.        *)

\* A step that leaves tail, buffer and the published head alone leaves the
\* content of the queue alone.
LEMMA ContentSame ==
  ASSUME UNCHANGED <<tail, buffer, CommittedHead>>
  PROVE  Content' = Content
BY DEF Content, Segment, Pending, Dist, Slot

LEMMA RefineInit == Init => Fifo!Init
<1> SUFFICES ASSUME Init PROVE Fifo!Init
  OBVIOUS
<1>1. Pending = 0
  BY CapacityFact DEF Init, Pending, Dist, CommittedHead, Returned
<1>2. Content = << >>
  BY <1>1 DEF Content, Segment
<1>3. QED
  BY <1>2 DEF Init, Fifo!Init

LEMMA RefineNext == IInv /\ [Next]_vars => [Fifo!Next]_(Fifo!fifoVars)
<1> SUFFICES ASSUME IInv, [Next]_vars
             PROVE  Fifo!Next \/ UNCHANGED <<Content, enqArg, deqOut>>
  BY DEF Fifo!fifoVars
<1>inv. TypeOK /\ WriterInv /\ ParityInv /\ RoomInv /\ ReaderInv
  BY DEF IInv
<1> DEFINE V == Items \cup {None}
<1>buf. buffer \in [Index -> V] /\ tail \in Index /\ pHead \in Index /\ CommittedHead \in Index
  BY <1>inv, RoomTypes DEF TypeOK
<1>1. ASSUME NEW item \in Items, EnqueueFull(item)
      PROVE  UNCHANGED <<Content, enqArg, deqOut>>
  <2>1. UNCHANGED <<tail, buffer, CommittedHead, enqArg, deqOut>>
    BY <1>1 DEF EnqueueFull, CommittedHead, Returned, sharedVars, consumerVars
  <2>2. QED
    BY <2>1, ContentSame
<1>2. ASSUME NEW item \in Items, EnqueueStart(item)
      PROVE  Fifo!Begin(item)
  <2>1. UNCHANGED <<tail, buffer, CommittedHead, deqOut>>
    BY <1>2 DEF EnqueueStart, CommittedHead, Returned, sharedVars, consumerVars
  <2>2. enqArg = None /\ enqArg' = item
    BY <1>2, <1>inv DEF EnqueueStart, WriterInv
  <2>3. QED
    BY <2>1, <2>2, ContentSame DEF Fifo!Begin
<1>3. ASSUME EnqueueLock \/ EnqueueStoreHead
      PROVE  UNCHANGED <<Content, enqArg, deqOut>>
  <2>1. UNCHANGED <<tail, buffer, CommittedHead, enqArg, deqOut>>
    BY <1>3, <1>inv
       DEF EnqueueLock, EnqueueStoreHead, CommittedHead, Returned, WriterInv, consumerVars
  <2>2. QED
    BY <2>1, ContentSame
<1>4. ASSUME EnqueueStoreItem
      PROVE  UNCHANGED <<Content, enqArg, deqOut>>
  <2>1. UNCHANGED <<tail, enqArg, deqOut, CommittedHead>> /\ CommittedHead = pHead
    BY <1>4 DEF EnqueueStoreItem, CommittedHead, Returned, consumerVars
  <2>2. buffer' \in [Index -> V] /\ \A i \in Index \ {pHead} : buffer'[i] = buffer[i]
    BY <1>4, <1>inv DEF EnqueueStoreItem, TypeOK
  <2>3. Segment(buffer', tail, Dist(tail, pHead)) = Segment(buffer, tail, Dist(tail, pHead))
    <3> HIDE DEF V
    <3>1. QED
      BY <1>buf, <2>2, SegmentOutside
  <2>4. Content' = Segment(buffer', tail, Dist(tail, pHead))
    BY <2>1 DEF Content, Pending, Segment, Dist, Slot
  <2>5. QED
    BY <2>1, <2>3, <2>4 DEF Content, Pending
<1>5. ASSUME EnqueueUnlock
      PROVE  Fifo!Put
  <2>1. /\ UNCHANGED <<tail, buffer, deqOut>>
        /\ pTodo = {} /\ pPc = "store"
        /\ CommittedHead = pHead /\ CommittedHead' = Inc(pHead)
        /\ enqArg' = None
    BY <1>5, <1>inv DEF EnqueueUnlock, CommittedHead, Returned, WriterInv, consumerVars
  <2>2. enqArg \in Items /\ buffer[pHead] = enqArg /\ Inc(pHead) # tail
    BY <1>inv, <2>1, RoomIsReal DEF WriterInv, Returned
  <2>3. Segment(buffer, tail, Dist(tail, Inc(pHead)))
          = Append(Segment(buffer, tail, Dist(tail, pHead)), buffer[pHead])
    <3> HIDE DEF V
    <3>1. \A i \in Index \ {pHead} : buffer[i] = buffer[i]
      OBVIOUS
    <3>2. QED
      BY <1>buf, <2>2, <3>1, SegmentAppend, Zenon
  <2>4. Content' = Segment(buffer, tail, Dist(tail, Inc(pHead)))
    BY <2>1 DEF Content, Pending, Segment, Dist, Slot
  <2>5. Content' = Append(Content, enqArg)
    BY <2>1, <2>2, <2>3, <2>4 DEF Content, Pending
  <2>6. Len(Content) = Pending
    BY <1>buf, <1>inv, RoomTypes, SegmentType DEF Content
  <2>7. Pending < Capacity - 1
    BY <1>inv, <2>1, RoomTypes, CapacityFact DEF RoomInv, Returned
  <2>8. QED
    BY <2>1, <2>2, <2>5, <2>6, <2>7, ItemsAssumption DEF Fifo!Put
<1>6. ASSUME DequeueEmpty \/ DequeueStart \/ DequeueLoadSeq \/ DequeueRead \/ DequeueRetry
      PROVE  UNCHANGED <<Content, enqArg, deqOut>>
  <2>1. UNCHANGED <<tail, buffer, CommittedHead, enqArg, deqOut>>
    <3>1. UNCHANGED <<sharedVars, producerVars, deqOut>>
      BY <1>6 DEF DequeueEmpty, DequeueStart, DequeueLoadSeq, DequeueRead, DequeueRetry
    <3>2. QED
      BY <3>1 DEF CommittedHead, sharedVars, producerVars
  <2>2. QED
    BY <2>1, ContentSame
<1>7. ASSUME DequeueCommit
      PROVE  Fifo!Get
  <2>1. /\ UNCHANGED <<buffer, CommittedHead, enqArg>>
        /\ tail' = Inc(tail) /\ deqOut' = cItem
    BY <1>7 DEF DequeueCommit, CommittedHead, producerVars
  <2>2. tail # CommittedHead /\ cItem = buffer[tail]
    BY <1>7, <1>inv DEF DequeueCommit, ReaderInv
  <2>3. /\ Content # << >>
        /\ Head(Content) = buffer[tail]
        /\ Segment(buffer, Inc(tail), Dist(Inc(tail), CommittedHead)) = Tail(Content)
    BY <1>buf, <2>2, SegmentTail DEF Content, Pending
  <2>4. Content' = Segment(buffer, Inc(tail), Dist(Inc(tail), CommittedHead))
    BY <2>1 DEF Content, Pending, Segment, Dist, Slot
  <2>5. QED
    BY <2>1, <2>2, <2>3, <2>4 DEF Fifo!Get
<1>8. ASSUME DrainTail \/ UNCHANGED vars
      PROVE  UNCHANGED <<Content, enqArg, deqOut>>
  <2>1. UNCHANGED <<tail, buffer, CommittedHead, enqArg, deqOut>>
    BY <1>8 DEF DrainTail, CommittedHead, vars, sharedVars, producerVars, consumerVars
  <2>2. QED
    BY <2>1, ContentSame
<1>9. QED
  BY <1>1, <1>2, <1>3, <1>4, <1>5, <1>6, <1>7, <1>8
     DEF Next, EnqueueCall, EnqueueStep, Dequeue, Fifo!Next

\* The sequence-lock queue implements the bounded FIFO of Capacity - 1 items.
THEOREM Refinement == Spec => ImplementsFifo
<1>1. QED
  BY Invariance, RefineInit, RefineNext, PTL DEF Spec, ImplementsFifo, Fifo!Spec

\* With no Enqueue during the call, Dequeue returns false only on an empty
\* queue: neither of its two seq checks can fail.
THEOREM FailureNeedsOverlap == Spec => FailsOnlyOnOverlap
<1> DEFINE Good == cPc' = "false" /\ cPc # "false" /\ quiet' => Content' = << >>
<1>1. ASSUME IInv, Next, cPc' = "false", cPc # "false", quiet'
      PROVE  Content' = << >>
  <2>inv. TypeOK /\ WriterInv /\ ParityInv /\ QuietInv
    BY <1>1 DEF IInv
  <2>1. DequeueEmpty \/ DequeueLoadSeq \/ DequeueRetry
    BY <1>1
       DEF Next, EnqueueCall, EnqueueStep, Dequeue, EnqueueFull, EnqueueStart,
           EnqueueLock, EnqueueStoreItem, EnqueueStoreHead, EnqueueUnlock,
           DequeueStart, DequeueRead, DequeueCommit, DrainTail, consumerVars
  <2>2. ~DequeueLoadSeq
    BY <1>1, <2>inv
       DEF DequeueLoadSeq, SeqIsEven, QuietInv, ParityInv, Returned, TypeOK
  <2>3. ~DequeueRetry
    BY <1>1, <2>inv DEF DequeueRetry, QuietInv
  <2>4. DequeueEmpty
    BY <2>1, <2>2, <2>3
  <2>5. pPc \in Returned
    BY <1>1, <2>4, Zenon DEF DequeueEmpty
  <2>6. tail' = tail /\ tail \in Index /\ CommittedHead' = tail
    BY <2>4, <2>5, <2>inv
       DEF DequeueEmpty, CommittedHead, sharedVars, producerVars, TypeOK
  <2>7. Pending' = 0
    BY <2>6, CapacityFact DEF Pending, Dist, Index
  <2>8. QED
    BY <2>7 DEF Content, Segment
<1>2. IInv /\ [Next]_vars => [Good]_vars
  BY <1>1
<1>3. QED
  BY <1>2, Invariance, PTL DEF Spec, FailsOnlyOnOverlap
===============================================================================
