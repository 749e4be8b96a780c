------------------------ MODULE FutexSignaller_proofs ------------------------
(***************************************************************************)
(* For any number of waiting and waking threads: no wake-up is lost, and   *)
(* the signaller implements the auto-reset event.                          *)
(***************************************************************************)
EXTENDS FutexSignaller, TLAPS

IInv == TypeOK /\ NoLostWakeup

LEMMA InitIInv == Init => IInv
BY DEF Init, IInv, TypeOK, NoLostWakeup

LEMMA NextIInv == IInv /\ [Next]_vars => IInv'
<1> SUFFICES ASSUME IInv, [Next]_vars PROVE IInv'
  OBVIOUS
<1> USE DEF IInv, TypeOK
<1>1. ASSUME NEW w \in Waiters, WaitCall(w) \/ WaitCasMiss(w) \/ SpuriousWakeup(w)
      PROVE  IInv'
  <2>1. TypeOK' /\ UNCHANGED <<word, kPc>> /\ Asleep' \subseteq Asleep
    BY <1>1 DEF WaitCall, WaitCasMiss, SpuriousWakeup, Asleep
  <2>2. QED
    BY <2>1 DEF NoLostWakeup
<1>2. ASSUME NEW w \in Waiters, WaitCasHit(w)
      PROVE  IInv'
  BY <1>2 DEF WaitCasHit, WordAfterWait, NoLostWakeup
\* The kernel's check: a thread falls asleep only while the word is 0.
<1>3. ASSUME NEW w \in Waiters, FutexWait(w)
      PROVE  IInv'
  <2>1. TypeOK' /\ UNCHANGED <<word, kPc>>
    BY <1>3 DEF FutexWait
  <2>2. word = 1 => Asleep' \subseteq Asleep
    BY <1>3 DEF FutexWait, MaySleep, Asleep
  <2>3. QED
    BY <2>1, <2>2 DEF NoLostWakeup
\* The word becomes 1 together with the promise of a FUTEX_WAKE.
<1>4. ASSUME NEW k \in Wakers, WakeCasHit(k)
      PROVE  IInv'
  <2>1. TypeOK' /\ kPc'[k] = "futexWake"
    BY <1>4 DEF WakeCasHit
  <2>2. QED
    BY <2>1 DEF NoLostWakeup
<1>5. ASSUME NEW k \in Wakers, WakeCasMiss(k)
      PROVE  IInv'
  BY <1>5 DEF WakeCasMiss, NoLostWakeup, Asleep, vars
\* The promise is redeemed for every sleeper at once.
<1>6. ASSUME NEW k \in Wakers, FutexWake(k)
      PROVE  IInv'
  <2>1. TypeOK'
    BY <1>6 DEF FutexWake
  <2>2. Asleep' = {}
    BY <1>6 DEF FutexWake, Woken, Asleep
  <2>3. QED
    BY <2>1, <2>2 DEF NoLostWakeup
<1>7. ASSUME UNCHANGED vars
      PROVE  IInv'
  BY <1>7 DEF NoLostWakeup, Asleep, vars
\* A waker that dies before its FUTEX_WAKE still owes it.
<1>8. ASSUME NEW k \in Wakers, WakerDies(k)
      PROVE  IInv'
  <2>1. TypeOK' /\ UNCHANGED word /\ Asleep' = Asleep
    BY <1>8 DEF WakerDies, Asleep
  <2>2. \A j \in Wakers : kPc[j] \in {"futexWake", "owing"} => kPc'[j] \in {"futexWake", "owing"}
    BY <1>8 DEF WakerDies
  <2>3. QED
    BY <2>1, <2>2 DEF NoLostWakeup
<1>9. QED
  BY <1>1, <1>2, <1>3, <1>4, <1>5, <1>6, <1>7, <1>8 DEF Next, WaitStep

\* The word is 0 or 1 and every thread is at a step of Wait or of Wake.
THEOREM TypeCorrect == Spec => []TypeOK
<1>1. IInv => TypeOK
  BY DEF IInv
<1>2. QED
  BY <1>1, InitIInv, NextIInv, PTL DEF Spec

\* A thread that sleeps on a signalled word will be reached by a FUTEX_WAKE,
\* however many threads wait and wake.
THEOREM WakeupsKept == Spec => []NoLostWakeup
<1>1. IInv => NoLostWakeup
  BY DEF IInv
<1>2. QED
  BY <1>1, InitIInv, NextIInv, PTL DEF Spec

-------------------------------------------------------------------------------
LEMMA RefineInit == Init => Event!Init
BY DEF Init, Event!Init

\* WaitCall is Call, WaitCasHit is Return, WakeCasHit is Signal; the system
\* calls and the spurious wake-ups are invisible.
LEMMA RefineNext == IInv /\ [Next]_vars => [Event!Next]_(Event!eventVars)
<1> DEFINE sig == (word = 1)
           in == {w \in Waiters : wPc[w] # "out"}
<1> SUFFICES ASSUME IInv, [Next]_vars
             PROVE  Event!Next \/ (sig' = sig /\ in' = in)
  BY DEF Event!eventVars
<1>type. TypeOK
  BY DEF IInv
<1>1. ASSUME NEW w \in Waiters, WaitCall(w)
      PROVE  Event!Call(w)
  <2>1. w \notin in /\ in' = in \cup {w}
    BY <1>1, <1>type DEF WaitCall, TypeOK
  <2>2. word' = word
    BY <1>1 DEF WaitCall
  <2>3. QED
    BY <2>1, <2>2 DEF Event!Call
<1>2. ASSUME NEW w \in Waiters, WaitCasHit(w)
      PROVE  Event!Return(w)
  <2>1. w \in in /\ in' = in \ {w}
    BY <1>2, <1>type DEF WaitCasHit, TypeOK
  <2>2. word = 1 /\ word' = 0
    BY <1>2 DEF WaitCasHit, WordAfterWait
  <2>3. (word' = 1) = FALSE
    BY <2>2
  <2>4. QED
    BY <2>1, <2>2, <2>3 DEF Event!Return
<1>3. ASSUME NEW w \in Waiters, WaitCasMiss(w) \/ FutexWait(w) \/ SpuriousWakeup(w)
      PROVE  sig' = sig /\ in' = in
  <2>1. word' = word
    BY <1>3 DEF WaitCasMiss, FutexWait, SpuriousWakeup
  <2>2. in' = in
    BY <1>3, <1>type DEF WaitCasMiss, FutexWait, SpuriousWakeup, TypeOK
  <2>3. QED
    BY <2>1, <2>2
<1>4. ASSUME NEW k \in Wakers, WakeCasHit(k)
      PROVE  Event!Signal
  <2>1. word' = 1 /\ in' = in
    BY <1>4 DEF WakeCasHit
  <2>2. (word' = 1) = TRUE
    BY <2>1
  <2>3. QED
    BY <2>1, <2>2 DEF Event!Signal
<1>5. ASSUME NEW k \in Wakers, FutexWake(k)
      PROVE  sig' = sig /\ in' = in
  <2>1. word' = word
    BY <1>5 DEF FutexWake
  <2>2. in' = in
    BY <1>5, <1>type DEF FutexWake, Woken, Asleep, TypeOK
  <2>3. QED
    BY <2>1, <2>2
<1>6. ASSUME (\E k \in Wakers : WakeCasMiss(k) \/ WakerDies(k)) \/ UNCHANGED vars
      PROVE  sig' = sig /\ in' = in
  BY <1>6 DEF WakeCasMiss, WakerDies, vars
<1>7. QED
  BY <1>1, <1>2, <1>3, <1>4, <1>5, <1>6 DEF Next, WaitStep, Event!Next

\* Wait and Wake implement the auto-reset event: each return of Wait consumes
\* a signal of its own.
THEOREM Refinement == Spec => ImplementsEvent
<1>1. Spec => []IInv
  BY InitIInv, NextIInv, PTL DEF Spec
<1>2. QED
  BY <1>1, RefineInit, RefineNext, PTL DEF Spec, ImplementsEvent, Event!Spec
===============================================================================
