------------------------------- MODULE SpscFifo -------------------------------
(***************************************************************************)
(* What a single-producer single-consumer queue promises its two callers:  *)
(* a bounded FIFO.  The producer's call is visible from the moment it has  *)
(* claimed a slot (enqArg holds the argument of Enqueue) to the moment the *)
(* item is published; the consumer's result is the out-parameter of a      *)
(* Dequeue that returned true (deqOut).                                    *)
(*                                                                         *)
(* A call that returns false changes nothing here: Enqueue on a queue that *)
(* looks full and Dequeue on a queue that looks empty are stuttering       *)
(* steps.  Both queue classes of lib/spsc-queue are shown to implement     *)
(* this specification.                                                     *)
(***************************************************************************)
EXTENDS Naturals, Sequences

CONSTANTS
  Items,  \* the values a caller may enqueue
  Depth,  \* how many items fit: GetRealCapacity()
  None    \* no call in progress, nothing dequeued yet

VARIABLES
  queue,  \* the items published and not yet dequeued, oldest first
  enqArg, \* the item of the Enqueue in progress, or None
  deqOut  \* the item the last successful Dequeue returned, or None

fifoVars == <<queue, enqArg, deqOut>>

Init ==
  /\ queue = << >>
  /\ enqArg = None
  /\ deqOut = None

\* Enqueue has found room for x.
Begin(x) ==
  /\ enqArg = None
  /\ enqArg' = x
  /\ UNCHANGED <<queue, deqOut>>

\* Enqueue publishes its argument and returns true.
Put ==
  /\ enqArg # None
  /\ Len(queue) < Depth
  /\ queue' = Append(queue, enqArg)
  /\ enqArg' = None
  /\ UNCHANGED deqOut

\* Dequeue hands out the oldest item and returns true.
Get ==
  /\ queue # << >>
  /\ deqOut' = Head(queue)
  /\ queue' = Tail(queue)
  /\ UNCHANGED enqArg

Next ==
  \/ \E x \in Items : Begin(x)
  \/ Put
  \/ Get

Spec == Init /\ [][Next]_fifoVars
===============================================================================
