------------------------------- MODULE RingIndex -------------------------------
(***************************************************************************)
(* The index arithmetic both queues of lib/spsc-queue share: head and tail *)
(* run round an array of Capacity slots, Capacity being a power of 2, and  *)
(* the queue is full when head is one slot behind tail.                    *)
(***************************************************************************)
EXTENDS Integers, Sequences

CONSTANT Capacity  \* the constructor's capacity argument

\* What the constructors accept: at least 2 and a power of 2.
ValidCapacity(c) ==
  /\ c \in Nat
  /\ c >= 2
  /\ \E e \in 1 .. c : c = 2^e

ASSUME CapacityAssumption == ValidCapacity(Capacity)

Index == 0 .. Capacity - 1

\* (i + 1) & m_CapacityMinusOne, Capacity being a power of 2.
Inc(i) == (i + 1) % Capacity

\* The cache line size the system reports, or 64 if it reports none.
LineSize(reported) == IF reported = 0 THEN 64 ELSE reported

\* The bytes both queues ask for: QueueData and its slots take up used bytes.
CalculateBufferSize(used, reported) == (used \div LineSize(reported) + 1) * LineSize(reported)

-------------------------------------------------------------------------------
(* The segment of the array a pair of indices stands for.                  *)

\* How far b is ahead of a on the ring.
Dist(a, b) == IF a <= b THEN b - a ELSE b + Capacity - a

\* The slot j places after slot t.
Slot(t, j) == (t + j) % Capacity

\* The n items of buf from slot t on.
Segment(buf, t, n) == [j \in 1 .. n |-> buf[Slot(t, j - 1)]]
===============================================================================
