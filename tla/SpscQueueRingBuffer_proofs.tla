---------------------- MODULE SpscQueueRingBuffer_proofs ----------------------
(***************************************************************************)
(* For every capacity the constructor accepts and every set of items: the  *)
(* inductive invariant of the release/acquire queue, the absence of a race *)
(* on a slot, and the refinement of SpscFifo.                              *)
(***************************************************************************)
EXTENDS SpscQueueRingBuffer, RingIndex_proofs

LEMMA RoomTypes ==
  ASSUME TypeOK
  PROVE  /\ Dist(tailSeen, tail) \in Nat
         /\ Dist(tail, headSeen) \in Nat
         /\ Dist(headSeen, head) \in Nat
<1>1. /\ Dist(tailSeen, tail) \in 0 .. Capacity - 1
      /\ Dist(tail, headSeen) \in 0 .. Capacity - 1
      /\ Dist(headSeen, head) \in 0 .. Capacity - 1
  BY DistType DEF TypeOK
<1>2. QED
  BY <1>1, CapacityFact

\* What RoomInv says of the indices a step compares or moves.
LEMMA RoomFacts ==
  ASSUME TypeOK, RoomInv
  PROVE  /\ Dist(tail, head) = Dist(tail, headSeen) + Dist(headSeen, head)
         /\ pPc \notin Returned => Inc(head) # tail /\ Inc(head) # headSeen
         /\ tail # headSeen => Inc(tail) # tailSeen
         /\ pPc \in Returned /\ RoomFor(head) =>
              Dist(tailSeen, tail) + Dist(tail, headSeen) + Dist(headSeen, head) < Capacity - 1
<1> USE CapacityFact, IncIs, RoomTypes DEF TypeOK, RoomInv, Dist, Index
<1>1. Dist(tail, head) = Dist(tail, headSeen) + Dist(headSeen, head)
  OBVIOUS
<1>2. pPc \notin Returned => Inc(head) # tail /\ Inc(head) # headSeen
  OBVIOUS
<1>3. tail # headSeen => Inc(tail) # tailSeen
  OBVIOUS
<1>4. pPc \in Returned /\ RoomFor(head) =>
        Dist(tailSeen, tail) + Dist(tail, headSeen) + Dist(headSeen, head) < Capacity - 1
  BY DEF RoomFor
<1>5. QED
  BY <1>1, <1>2, <1>3, <1>4

LEMMA InitIInv == Init => IInv
<1> SUFFICES ASSUME Init PROVE IInv
  OBVIOUS
<1>1. TypeOK
  BY CapacityFact DEF Init, TypeOK, Returned, Index
<1>2. WriterInv /\ ReaderInv
  BY DEF Init, WriterInv, ReaderInv, Returned
<1>3. RoomInv
  BY CapacityFact DEF Init, RoomInv, Returned, Dist
<1>4. QED
  BY <1>1, <1>2, <1>3 DEF IInv

LEMMA NextIInv == IInv /\ [Next]_vars => IInv'
<1> SUFFICES ASSUME IInv, [Next]_vars PROVE IInv'
  OBVIOUS
<1>inv. TypeOK /\ WriterInv /\ ReaderInv /\ RoomInv
  BY DEF IInv
<1>1. ASSUME NEW item \in Items, EnqueueFull(item)
      PROVE  IInv'
  <2> USE <1>1 DEF EnqueueFull, consumerVars
  <2>1. TypeOK'
    BY <1>inv DEF TypeOK, Returned
  <2>2. WriterInv' /\ ReaderInv'
    BY <1>inv DEF WriterInv, ReaderInv, Returned
  <2>3. RoomInv'
    BY <1>inv DEF RoomInv, Dist, Returned
  <2>4. QED
    BY <2>1, <2>2, <2>3 DEF IInv
<1>2. ASSUME NEW item \in Items, EnqueueStart(item)
      PROVE  IInv'
  <2> USE <1>2 DEF EnqueueStart, consumerVars
  <2>1. TypeOK'
    BY <1>inv DEF TypeOK
  <2>2. WriterInv' /\ ReaderInv'
    BY <1>inv DEF WriterInv, ReaderInv, Returned
  <2>3. RoomInv'
    BY <1>inv, RoomFacts DEF RoomInv, Dist, Returned
  <2>4. QED
    BY <2>1, <2>2, <2>3 DEF IInv
<1>3. ASSUME EnqueueWrite
      PROVE  IInv'
  <2> USE <1>3 DEF EnqueueWrite, consumerVars
  <2>1. TypeOK'
    BY <1>inv DEF TypeOK
  <2>2. WriterInv'
    BY <1>inv DEF WriterInv, TypeOK, Returned
  <2>3. RoomInv'
    BY <1>inv DEF RoomInv, Dist, Returned
  \* The copy Dequeue holds is of another slot: tail is not head.
  <2>4. cPc = "release" => cTail # pHead
    BY <1>inv, RoomFacts, RoomTypes, DistZero, CapacityFact
       DEF ReaderInv, WriterInv, TypeOK, Returned
  <2>5. ReaderInv'
    BY <1>inv, <2>4 DEF ReaderInv, TypeOK
  <2>6. QED
    BY <2>1, <2>2, <2>3, <2>5 DEF IInv
<1>4. ASSUME EnqueuePublish
      PROVE  IInv'
  <2> USE <1>4 DEF EnqueuePublish, consumerVars
  <2>1. TypeOK'
    BY <1>inv, IncType DEF TypeOK, Returned
  <2>2. WriterInv' /\ ReaderInv'
    BY <1>inv DEF WriterInv, ReaderInv, Returned
  <2>3. RoomInv'
    <3>1. pHead = head /\ Inc(head) # headSeen
      BY <1>inv, RoomFacts DEF WriterInv, Returned
    <3>2. Dist(headSeen, head)' = Dist(headSeen, head) + 1
      BY <1>inv, <3>1, DistIncHead DEF TypeOK, Dist
    <3>3. UNCHANGED <<Dist(tailSeen, tail), Dist(tail, headSeen)>>
      BY DEF Dist
    <3>4. QED
      BY <1>inv, <3>2, <3>3, RoomTypes, CapacityFact DEF RoomInv, Returned
  <2>4. QED
    BY <2>1, <2>2, <2>3 DEF IInv
<1>5. ASSUME DequeueEmpty \/ DequeueStart
      PROVE  IInv'
  <2> USE <1>5 DEF DequeueEmpty, DequeueStart, LooksEmpty, producerVars
  <2>1. TypeOK'
    BY <1>inv DEF TypeOK, Returned
  <2>2. WriterInv' /\ ReaderInv'
    BY <1>inv DEF WriterInv, ReaderInv
  <2>3. RoomInv'
    BY <1>inv DEF RoomInv, Dist
  <2>4. QED
    BY <2>1, <2>2, <2>3 DEF IInv
<1>6. ASSUME DequeueRead
      PROVE  IInv'
  <2> USE <1>6 DEF DequeueRead, producerVars
  <2>1. TypeOK'
    BY <1>inv DEF TypeOK
  <2>2. WriterInv' /\ ReaderInv'
    BY <1>inv DEF WriterInv, ReaderInv
  <2>3. RoomInv'
    BY <1>inv DEF RoomInv, Dist
  <2>4. QED
    BY <2>1, <2>2, <2>3 DEF IInv
<1>7. ASSUME DequeueRelease
      PROVE  IInv'
  <2> USE <1>7 DEF DequeueRelease, producerVars
  <2>1. TypeOK'
    BY <1>inv, IncType DEF TypeOK, Returned
  <2>2. WriterInv' /\ ReaderInv'
    BY <1>inv DEF WriterInv, ReaderInv
  <2>3. RoomInv'
    <3>1. cTail = tail /\ tail # headSeen /\ Inc(tail) # tailSeen
      BY <1>inv, RoomFacts DEF ReaderInv
    <3>2. Dist(tailSeen, tail)' = Dist(tailSeen, tail) + 1
      BY <1>inv, <3>1, DistIncHead DEF TypeOK, Dist
    <3>3. Dist(tail, headSeen)' = Dist(tail, headSeen) - 1
      BY <1>inv, <3>1, DistIncTail DEF TypeOK, Dist
    <3>4. UNCHANGED Dist(headSeen, head)
      BY DEF Dist
    <3>5. QED
      BY <1>inv, <3>2, <3>3, <3>4, RoomTypes, CapacityFact DEF RoomInv
  <2>4. QED
    BY <2>1, <2>2, <2>3 DEF IInv
<1>8. ASSUME DrainHead
      PROVE  IInv'
  <2> USE <1>8 DEF DrainHead, producerVars, consumerVars
  <2>1. TypeOK'
    BY <1>inv, IncType DEF TypeOK
  <2>2. WriterInv'
    BY <1>inv DEF WriterInv
  <2>3. RoomInv' /\ Inc(headSeen) # tail
    <3>1. Inc(headSeen) # tail
      BY <1>inv, RoomTypes, IncIs, CapacityFact DEF TypeOK, RoomInv, Dist, Index
    <3>2. Dist(headSeen, head)' = Dist(headSeen, head) - 1
      BY <1>inv, DistIncTail DEF TypeOK, Dist
    <3>3. Dist(tail, headSeen)' = Dist(tail, headSeen) + 1
      BY <1>inv, <3>1, DistIncHead DEF TypeOK, Dist
    <3>4. UNCHANGED Dist(tailSeen, tail)
      BY DEF Dist
    <3>5. QED
      BY <1>inv, <3>1, <3>2, <3>3, <3>4, RoomTypes, CapacityFact DEF RoomInv
  <2>4. ReaderInv'
    BY <1>inv, <2>3 DEF ReaderInv
  <2>5. QED
    BY <2>1, <2>2, <2>3, <2>4 DEF IInv
<1>9. ASSUME DrainTail
      PROVE  IInv'
  <2> USE <1>9 DEF DrainTail, producerVars, consumerVars
  <2>1. TypeOK'
    BY <1>inv, IncType DEF TypeOK
  <2>2. WriterInv' /\ ReaderInv'
    BY <1>inv DEF WriterInv, ReaderInv
  <2>3. RoomInv'
    <3>1. Dist(tailSeen, tail)' = Dist(tailSeen, tail) - 1
      BY <1>inv, DistIncTail DEF TypeOK, Dist
    <3>2. UNCHANGED <<Dist(tail, headSeen), Dist(headSeen, head)>>
      BY DEF Dist
    <3>3. QED
      BY <1>inv, <3>1, <3>2, RoomTypes, CapacityFact DEF RoomInv
  <2>4. QED
    BY <2>1, <2>2, <2>3 DEF IInv
<1>10. ASSUME UNCHANGED vars
       PROVE  IInv'
  BY <1>inv, <1>10
     DEF IInv, TypeOK, WriterInv, ReaderInv, RoomInv, Dist, vars, producerVars, consumerVars
<1>11. QED
  BY <1>1, <1>2, <1>3, <1>4, <1>5, <1>6, <1>7, <1>8, <1>9, <1>10
     DEF Next, EnqueueCall, EnqueueStep, Dequeue

\* The four indices keep their order round the ring and the locals of both
\* calls agree with them, in every reachable state.
THEOREM Invariance == Spec => []IInv
<1>1. QED
  BY InitIInv, NextIInv, PTL DEF Spec

\* Every variable of the queue keeps its type and every index its range.
THEOREM TypeCorrect == Spec => []TypeOK
<1>1. IInv => TypeOK
  BY DEF IInv
<1>2. QED
  BY <1>1, Invariance, PTL

\* The producer never writes the slot the consumer is about to read.
THEOREM SlotRaceFree == Spec => []NoSlotRace
<1>1. ASSUME IInv PROVE NoSlotRace
  <2>1. TypeOK /\ WriterInv /\ ReaderInv /\ RoomInv
    BY <1>1 DEF IInv
  <2>2. tail # headSeen => tail # head
    BY <2>1, RoomFacts, RoomTypes, DistZero, CapacityFact DEF TypeOK
  <2>3. QED
    BY <2>1, <2>2 DEF NoSlotRace, WriterInv, ReaderInv, Returned
<1>2. QED
  BY <1>1, Invariance, PTL

-------------------------------------------------------------------------------
(* Refinement: EnqueueStart is Begin, EnqueuePublish is Put,               *)
(* DequeueRelease is Get, and every other step is a stutter.               *)

LEMMA RefineInit == Init => Fifo!Init
<1> SUFFICES ASSUME Init PROVE Fifo!Init
  OBVIOUS
<1>1. Dist(tail, head) = 0
  BY CapacityFact DEF Init, Dist
<1>2. Content = << >>
  BY <1>1 DEF Content, Segment
<1>3. QED
  BY <1>2 DEF Init, Fifo!Init

LEMMA ContentSame ==
  ASSUME UNCHANGED <<head, tail, buffer>>
  PROVE  Content' = Content
BY DEF Content, Segment, Dist, Slot

LEMMA RefineNext == IInv /\ [Next]_vars => [Fifo!Next]_(Fifo!fifoVars)
<1> SUFFICES ASSUME IInv, [Next]_vars
             PROVE  Fifo!Next \/ UNCHANGED <<Content, enqArg, deqOut>>
  BY DEF Fifo!fifoVars
<1>inv. TypeOK /\ WriterInv /\ ReaderInv /\ RoomInv
  BY DEF IInv
<1> DEFINE V == Items \cup {None}
<1>buf. buffer \in [Index -> V] /\ tail \in Index /\ head \in Index
  BY <1>inv DEF TypeOK
<1>1. ASSUME NEW item \in Items, EnqueueFull(item)
      PROVE  UNCHANGED <<Content, enqArg, deqOut>>
  BY <1>1, ContentSame DEF EnqueueFull, consumerVars
<1>2. ASSUME NEW item \in Items, EnqueueStart(item)
      PROVE  Fifo!Begin(item)
  BY <1>2, <1>inv, ContentSame DEF EnqueueStart, WriterInv, consumerVars, Fifo!Begin
<1>3. ASSUME EnqueueWrite
      PROVE  UNCHANGED <<Content, enqArg, deqOut>>
  <2>1. UNCHANGED <<head, tail, enqArg, deqOut>> /\ pHead = head
    BY <1>3, <1>inv DEF EnqueueWrite, WriterInv, Returned, consumerVars
  <2>2. buffer' \in [Index -> V] /\ \A i \in Index \ {head} : buffer'[i] = buffer[i]
    BY <1>3, <1>inv, <2>1 DEF EnqueueWrite, TypeOK
  <2>3. Segment(buffer', tail, Dist(tail, head)) = Segment(buffer, tail, Dist(tail, head))
    <3> HIDE DEF V
    <3>1. QED
      BY <1>buf, <2>2, SegmentOutside
  <2>4. Content' = Segment(buffer', tail, Dist(tail, head))
    BY <2>1 DEF Content, Segment, Dist, Slot
  <2>5. QED
    BY <2>1, <2>3, <2>4 DEF Content
<1>4. ASSUME EnqueuePublish
      PROVE  Fifo!Put
  <2>1. /\ UNCHANGED <<tail, buffer, deqOut>>
        /\ pPc = "publish" /\ head' = Inc(head) /\ enqArg' = None
    BY <1>4, <1>inv DEF EnqueuePublish, WriterInv, Returned, consumerVars
  <2>2. enqArg \in Items /\ buffer[head] = enqArg /\ Inc(head) # tail
    BY <1>inv, <2>1, RoomFacts DEF WriterInv, Returned
  <2>3. Segment(buffer, tail, Dist(tail, Inc(head)))
          = Append(Segment(buffer, tail, Dist(tail, head)), buffer[head])
    <3> HIDE DEF V
    <3>1. \A i \in Index \ {head} : buffer[i] = buffer[i]
      OBVIOUS
    <3>2. QED
      BY <1>buf, <2>2, <3>1, SegmentAppend, Zenon
  <2>4. Content' = Segment(buffer, tail, Dist(tail, Inc(head)))
    BY <2>1 DEF Content, Segment, Dist, Slot
  <2>5. Content' = Append(Content, enqArg)
    BY <2>2, <2>3, <2>4 DEF Content
  <2>6. Len(Content) = Dist(tail, head)
    BY <1>buf, DistType, SegmentType DEF Content
  <2>7. Dist(tail, head) < Capacity - 1
    BY <1>inv, <2>1, RoomFacts, RoomTypes, CapacityFact DEF RoomInv, Returned
  <2>8. QED
    BY <2>1, <2>2, <2>5, <2>6, <2>7, ItemsAssumption DEF Fifo!Put
<1>5. ASSUME DequeueEmpty \/ DequeueStart \/ DequeueRead
      PROVE  UNCHANGED <<Content, enqArg, deqOut>>
  BY <1>5, ContentSame DEF DequeueEmpty, DequeueStart, LooksEmpty, DequeueRead, producerVars
<1>6. ASSUME DequeueRelease
      PROVE  Fifo!Get
  <2>1. UNCHANGED <<head, buffer, enqArg>> /\ tail' = Inc(tail) /\ deqOut' = buffer[tail]
    BY <1>6, <1>inv DEF DequeueRelease, ReaderInv, producerVars
  <2>2. tail # head
    BY <1>6, <1>inv, RoomFacts, RoomTypes, DistZero, CapacityFact
       DEF DequeueRelease, ReaderInv, TypeOK
  <2>3. /\ Content # << >>
        /\ Head(Content) = buffer[tail]
        /\ Segment(buffer, Inc(tail), Dist(Inc(tail), head)) = Tail(Content)
    BY <1>buf, <2>2, SegmentTail DEF Content
  <2>4. Content' = Segment(buffer, Inc(tail), Dist(Inc(tail), head))
    BY <2>1 DEF Content, Segment, Dist, Slot
  <2>5. QED
    BY <2>1, <2>3, <2>4 DEF Fifo!Get
<1>7. ASSUME DrainHead \/ DrainTail \/ UNCHANGED vars
      PROVE  UNCHANGED <<Content, enqArg, deqOut>>
  BY <1>7, ContentSame DEF DrainHead, DrainTail, vars, producerVars, consumerVars
<1>8. QED
  BY <1>1, <1>2, <1>3, <1>4, <1>5, <1>6, <1>7
     DEF Next, EnqueueCall, EnqueueStep, Dequeue, Fifo!Next

\* The ring-buffer queue implements the bounded FIFO of Capacity - 1 items.
THEOREM Refinement == Spec => ImplementsFifo
<1>1. QED
  BY Invariance, RefineInit, RefineNext, PTL DEF Spec, ImplementsFifo, Fifo!Spec
===============================================================================
