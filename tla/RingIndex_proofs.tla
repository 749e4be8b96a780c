---------------------------- MODULE RingIndex_proofs ----------------------------
(***************************************************************************)
(* Facts about the index arithmetic, for every capacity: what Inc, Dist    *)
(* and Segment return, and what advancing head or tail does to the segment *)
(* between them.                                                           *)
(***************************************************************************)
EXTENDS RingIndex, TLAPS

\* The part of the constructor's check the proofs need.
LEMMA CapacityFact == Capacity \in Nat /\ Capacity >= 2
BY CapacityAssumption DEF ValidCapacity

\* A remainder is the number itself below the divisor.
LEMMA ModSmall ==
  ASSUME NEW C \in Nat, C >= 2, NEW i \in 0 .. C - 1
  PROVE  i % C = i
OBVIOUS

\* One turn round the ring leads back to the start.
LEMMA ModOnce ==
  ASSUME NEW C \in Nat, C >= 2, NEW i \in 0 .. C - 1
  PROVE  (i + C) % C = i
OBVIOUS

\* The mask of Enqueue and Dequeue wraps the index of the last slot to 0.
LEMMA IncIs ==
  ASSUME NEW i \in Index
  PROVE  Inc(i) = IF i + 1 = Capacity THEN 0 ELSE i + 1
<1>1. CASE i + 1 = Capacity
  BY <1>1, CapacityFact, ModOnce DEF Inc, Index
<1>2. CASE i + 1 # Capacity
  BY <1>2, CapacityFact, ModSmall DEF Inc, Index
<1>3. QED
  BY <1>1, <1>2

LEMMA IncType ==
  ASSUME NEW i \in Index
  PROVE  Inc(i) \in Index
BY IncIs, CapacityFact DEF Index

LEMMA SlotIs ==
  ASSUME NEW t \in Index, NEW j \in 0 .. Capacity - 1
  PROVE  Slot(t, j) = IF t + j < Capacity THEN t + j ELSE t + j - Capacity
<1>1. CASE t + j < Capacity
  BY <1>1, CapacityFact, ModSmall DEF Slot, Index
<1>2. CASE t + j >= Capacity
  <2>1. t + j - Capacity \in 0 .. Capacity - 1
    BY <1>2, CapacityFact DEF Index
  <2>2. ((t + j - Capacity) + Capacity) % Capacity = t + j - Capacity
    BY <2>1, CapacityFact, ModOnce
  <2>3. (t + j - Capacity) + Capacity = t + j
    BY CapacityFact DEF Index
  <2>4. QED
    BY <1>2, <2>2, <2>3, CapacityFact DEF Slot, Index
<1>3. QED
  BY <1>1, <1>2, CapacityFact DEF Index

LEMMA SlotType ==
  ASSUME NEW t \in Index, NEW j \in 0 .. Capacity - 1
  PROVE  Slot(t, j) \in Index
BY SlotIs, CapacityFact DEF Index

LEMMA DistType ==
  ASSUME NEW a \in Index, NEW b \in Index
  PROVE  Dist(a, b) \in 0 .. Capacity - 1
BY CapacityFact DEF Index, Dist

\* Moving head forward lengthens the segment by one, unless head runs into tail.
LEMMA DistIncHead ==
  ASSUME NEW t \in Index, NEW h \in Index, Inc(h) # t
  PROVE  Dist(t, Inc(h)) = Dist(t, h) + 1
BY IncIs, CapacityFact DEF Index, Dist

\* Moving tail forward shortens it by one, unless the segment is empty.
LEMMA DistIncTail ==
  ASSUME NEW t \in Index, NEW h \in Index, t # h
  PROVE  Dist(Inc(t), h) = Dist(t, h) - 1
BY IncIs, CapacityFact DEF Index, Dist

LEMMA DistZero ==
  ASSUME NEW t \in Index, NEW h \in Index
  PROVE  Dist(t, h) = 0 <=> t = h
BY CapacityFact DEF Index, Dist

\* The slot just past the segment from t to h is h, and no earlier one is.
LEMMA SlotDist ==
  ASSUME NEW t \in Index, NEW h \in Index
  PROVE  /\ Slot(t, Dist(t, h)) = h
         /\ \A j \in 0 .. Dist(t, h) - 1 : Slot(t, j) # h
<1>1. Dist(t, h) \in 0 .. Capacity - 1
  BY DistType
<1>2. Slot(t, Dist(t, h)) = h
  BY <1>1, SlotIs, CapacityFact DEF Index, Dist
<1>3. ASSUME NEW j \in 0 .. Dist(t, h) - 1
      PROVE  Slot(t, j) # h
  <2>1. j \in 0 .. Capacity - 1
    BY <1>1, CapacityFact
  <2>2. QED
    BY <2>1, SlotIs, CapacityFact DEF Index, Dist
<1>4. QED
  BY <1>2, <1>3

\* Skipping the first slot of a segment shifts the others by one place.
LEMMA SlotInc ==
  ASSUME NEW t \in Index, NEW j \in 0 .. Capacity - 2
  PROVE  Slot(Inc(t), j) = Slot(t, j + 1)
<1>1. j \in 0 .. Capacity - 1 /\ j + 1 \in 0 .. Capacity - 1
  BY CapacityFact
<1>2. Slot(t, j + 1) = IF t + (j + 1) < Capacity THEN t + (j + 1) ELSE t + (j + 1) - Capacity
  BY <1>1, SlotIs
<1>3. Inc(t) \in Index
  BY IncType
<1>4. Slot(Inc(t), j) = IF Inc(t) + j < Capacity THEN Inc(t) + j ELSE Inc(t) + j - Capacity
  BY <1>1, <1>3, SlotIs
<1>5. QED
  BY <1>2, <1>4, IncIs, CapacityFact DEF Index

\* A segment is a sequence of the array's values.
LEMMA SegmentType ==
  ASSUME NEW V, NEW buf \in [Index -> V], NEW t \in Index,
         NEW n \in 0 .. Capacity - 1
  PROVE  /\ Segment(buf, t, n) \in Seq(V)
         /\ Len(Segment(buf, t, n)) = n
         /\ \A j \in 1 .. n : Segment(buf, t, n)[j] = buf[Slot(t, j - 1)]
<1>1. \A j \in 1 .. n : buf[Slot(t, j - 1)] \in V
  <2>1. SUFFICES ASSUME NEW j \in 1 .. n PROVE buf[Slot(t, j - 1)] \in V
    OBVIOUS
  <2>2. j - 1 \in 0 .. Capacity - 1
    BY CapacityFact
  <2>3. QED
    BY <2>2, SlotType
<1>2. QED
  BY <1>1, CapacityFact DEF Segment

\* Enqueue: writing the slot at head and moving head past it appends the item.
LEMMA SegmentAppend ==
  ASSUME NEW V, NEW buf \in [Index -> V], NEW new \in [Index -> V],
         NEW t \in Index, NEW h \in Index,
         Inc(h) # t,
         \A i \in Index \ {h} : new[i] = buf[i]
  PROVE  Segment(new, t, Dist(t, Inc(h))) = Append(Segment(buf, t, Dist(t, h)), new[h])
<1> DEFINE n == Dist(t, h)
           old == Segment(buf, t, n)
<1>1. n \in 0 .. Capacity - 1 /\ Dist(t, Inc(h)) = n + 1 /\ n + 1 \in 0 .. Capacity - 1
  BY DistType, DistIncHead, IncType
<1>2. /\ old \in Seq(V)
      /\ Len(old) = n
      /\ \A j \in 1 .. n : old[j] = buf[Slot(t, j - 1)]
  BY <1>1, SegmentType
<1>3. /\ Segment(new, t, n + 1) \in Seq(V)
      /\ Len(Segment(new, t, n + 1)) = n + 1
      /\ \A j \in 1 .. n + 1 : Segment(new, t, n + 1)[j] = new[Slot(t, j - 1)]
  BY <1>1, SegmentType
<1>4. \A j \in 1 .. n : new[Slot(t, j - 1)] = old[j]
  <2>1. SUFFICES ASSUME NEW j \in 1 .. n PROVE new[Slot(t, j - 1)] = old[j]
    OBVIOUS
  <2>2. j - 1 \in 0 .. n - 1 /\ j - 1 \in 0 .. Capacity - 1
    BY <1>1, CapacityFact
  <2>3. Slot(t, j - 1) \in Index \ {h}
    BY <2>2, SlotDist, SlotType
  <2>4. QED
    BY <2>3, <1>2
<1>5. new[Slot(t, n)] = new[h]
  BY SlotDist
<1>6. new[h] \in V
  OBVIOUS
<1>7. \A j \in 1 .. n + 1 : Segment(new, t, n + 1)[j] = Append(old, new[h])[j]
  <2>1. SUFFICES ASSUME NEW j \in 1 .. n + 1
                 PROVE  new[Slot(t, j - 1)] = Append(old, new[h])[j]
    BY <1>3
  <2> HIDE DEF n, old
  <2>2. CASE j = n + 1
    <3>1. j - 1 = n
      BY <2>2, <1>1
    <3>2. QED
      BY <3>1, <2>2, <1>2, <1>5, <1>6
  <2>3. CASE j \in 1 .. n
    BY <2>3, <1>2, <1>4, <1>6
  <2>4. j = n + 1 \/ j \in 1 .. n
    BY <1>1, CapacityFact
  <2>5. QED
    BY <2>2, <2>3, <2>4
<1> HIDE DEF n, old
<1>8. Append(old, new[h]) \in Seq(V) /\ Len(Append(old, new[h])) = n + 1
  BY <1>1, <1>2, <1>6
<1>9. Segment(new, t, n + 1) = Append(old, new[h])
  BY <1>1, <1>3, <1>7, <1>8
<1>10. QED
  BY <1>1, <1>9 DEF n, old

\* Dequeue: moving tail past a slot removes the first item.
LEMMA SegmentTail ==
  ASSUME NEW V, NEW buf \in [Index -> V], NEW t \in Index, NEW h \in Index,
         t # h
  PROVE  /\ Segment(buf, t, Dist(t, h)) # << >>
         /\ Head(Segment(buf, t, Dist(t, h))) = buf[t]
         /\ Segment(buf, Inc(t), Dist(Inc(t), h)) = Tail(Segment(buf, t, Dist(t, h)))
<1> DEFINE n == Dist(t, h)
           old == Segment(buf, t, n)
           new == Segment(buf, Inc(t), n - 1)
<1>1. n \in 1 .. Capacity - 1 /\ Dist(Inc(t), h) = n - 1 /\ n - 1 \in 0 .. Capacity - 1
  BY DistType, DistIncTail, DistZero, CapacityFact
<1>2. /\ old \in Seq(V)
      /\ Len(old) = n
      /\ \A j \in 1 .. n : old[j] = buf[Slot(t, j - 1)]
  <2>1. n \in 0 .. Capacity - 1
    BY DistType
  <2>2. QED
    BY <2>1, SegmentType
<1>3. /\ new \in Seq(V)
      /\ Len(new) = n - 1
      /\ \A j \in 1 .. n - 1 : new[j] = buf[Slot(Inc(t), j - 1)]
  BY <1>1, SegmentType, IncType
<1>4. \A j \in 1 .. n - 1 : new[j] = old[j + 1]
  <2>1. SUFFICES ASSUME NEW j \in 1 .. n - 1 PROVE new[j] = old[j + 1]
    OBVIOUS
  <2>2. j - 1 \in 0 .. Capacity - 2 /\ (j - 1) + 1 = (j + 1) - 1 /\ j + 1 \in 1 .. n
    BY <1>1, CapacityFact
  <2>3. Slot(Inc(t), j - 1) = Slot(t, (j - 1) + 1)
    BY <2>2, SlotInc
  <2>4. QED
    BY <1>2, <1>3, <2>2, <2>3
<1>5. Slot(t, 0) = t
  BY SlotIs, CapacityFact DEF Index
<1>6. old[1] = buf[t]
  <2>1. 1 \in 1 .. n /\ 1 - 1 = 0
    BY <1>1
  <2>2. QED
    BY <2>1, <1>2, <1>5
<1> HIDE DEF n, old, new
<1>7. old # << >> /\ Head(old) = buf[t]
  BY <1>1, <1>2, <1>6
<1>8. new = Tail(old)
  BY <1>1, <1>2, <1>3, <1>4
<1>9. QED
  BY <1>1, <1>7, <1>8 DEF n, old, new

\* A write at or past head leaves the segment as it was.
LEMMA SegmentOutside ==
  ASSUME NEW V, NEW buf \in [Index -> V], NEW new \in [Index -> V],
         NEW t \in Index, NEW h \in Index,
         \A i \in Index \ {h} : new[i] = buf[i]
  PROVE  Segment(new, t, Dist(t, h)) = Segment(buf, t, Dist(t, h))
<1>1. Dist(t, h) \in 0 .. Capacity - 1
  BY DistType
<1>2. ASSUME NEW j \in 1 .. Dist(t, h)
      PROVE  new[Slot(t, j - 1)] = buf[Slot(t, j - 1)]
  <2>1. j - 1 \in 0 .. Dist(t, h) - 1 /\ j - 1 \in 0 .. Capacity - 1
    BY <1>1, CapacityFact
  <2>2. Slot(t, j - 1) \in Index \ {h}
    BY <2>1, SlotDist, SlotType
  <2>3. QED
    BY <2>2
<1>3. QED
  BY <1>2 DEF Segment

\* The shared memory a queue asks for holds its header and every slot, whatever
\* cache line size the system reports: no index reaches beyond the mapping.
THEOREM SlotsFit ==
  ASSUME NEW used \in Nat, NEW reported \in Nat
  PROVE  CalculateBufferSize(used, reported) > used
<1> DEFINE line == LineSize(reported)
           q == used \div line
<1>1. line \in Nat /\ line > 0
  BY DEF LineSize
<1> HIDE DEF line
<1>2. q \in Nat /\ used % line \in 0 .. line - 1 /\ used = line * q + (used % line)
  BY <1>1
<1> HIDE DEF q
<1>3. (q + 1) * line = line * q + line /\ line * q \in Nat
  BY <1>1, <1>2
<1>4. (q + 1) * line > used
  BY <1>1, <1>2, <1>3
<1>5. QED
  BY <1>4 DEF CalculateBufferSize, q, line
===============================================================================
