---------------------------- MODULE FutexSignaller ----------------------------
(***************************************************************************)
(* lib/futex/FutexSignaller: one word in shared memory, 1 when signalled,  *)
(* and the kernel's queue of threads sleeping on it.  A client Waits for   *)
(* the server's dispatcher to Wake it when its transposition is ready.     *)
(*                                                                         *)
(* The kernel's part, modelled from how the class uses it: FUTEX_WAIT with *)
(* value 0 goes to sleep if the word is 0 and fails with EAGAIN otherwise, *)
(* in one atomic step; FUTEX_WAKE with INT_MAX wakes every sleeper; a      *)
(* sleeper may also return for no reason or with EINTR.  The process of a  *)
(* waker may be killed at any point.                                       *)
(***************************************************************************)
EXTENDS Naturals, FiniteSets

CONSTANTS Waiters, Wakers  \* the threads that call Wait, and Wake

VARIABLES
  word,  \* *m_RawPointer
  wPc,   \* Wait: "out", before the CAS, before FUTEX_WAIT, asleep in it
  kPc    \* Wake: "out", before FUTEX_WAKE; "dead", or "owing": dead before it

vars == <<word, wPc, kPc>>

Init ==
  /\ word = 0
  /\ wPc = [w \in Waiters |-> "out"]
  /\ kPc = [k \in Wakers |-> "out"]

-------------------------------------------------------------------------------
(* void Wait()                                                             *)

WaitCall(w) ==
  /\ wPc[w] = "out"
  /\ wPc' = [wPc EXCEPT ![w] = "cas"]
  /\ UNCHANGED <<word, kPc>>

WordAfterWait_SignalKept == 1
WordAfterWait == 0

\* compare_exchange_strong(1, 0) succeeds: consume the signal and return.
WaitCasHit(w) ==
  /\ wPc[w] = "cas"
  /\ word = 1
  /\ word' = WordAfterWait
  /\ wPc' = [wPc EXCEPT ![w] = "out"]
  /\ UNCHANGED kPc

WaitCasMiss(w) ==
  /\ wPc[w] = "cas"
  /\ word # 1
  /\ wPc' = [wPc EXCEPT ![w] = "futexWait"]
  /\ UNCHANGED <<word, kPc>>

MaySleep_Always == TRUE
MaySleep == word = 0

\* The kernel compares the word with 0 under its lock; EAGAIN: loop again.
FutexWait(w) ==
  /\ wPc[w] = "futexWait"
  /\ wPc' = [wPc EXCEPT ![w] = IF MaySleep THEN "asleep" ELSE "cas"]
  /\ UNCHANGED <<word, kPc>>

\* FUTEX_WAIT returns though nobody called FUTEX_WAKE: the loop tests again.
SpuriousWakeup(w) ==
  /\ wPc[w] = "asleep"
  /\ wPc' = [wPc EXCEPT ![w] = "cas"]
  /\ UNCHANGED <<word, kPc>>

-------------------------------------------------------------------------------
(* void Wake()                                                             *)

\* compare_exchange_strong(0, 1) succeeds: the system call comes next.
WakeCasHit(k) ==
  /\ kPc[k] = "out"
  /\ word = 0
  /\ word' = 1
  /\ kPc' = [kPc EXCEPT ![k] = "futexWake"]
  /\ UNCHANGED wPc

\* Already signalled: nothing to do.
WakeCasMiss(k) ==
  /\ kPc[k] = "out"
  /\ word # 0
  /\ UNCHANGED vars

Asleep == {w \in Waiters : wPc[w] = "asleep"}

Woken_Nobody == {}
Woken == Asleep

FutexWake(k) ==
  /\ kPc[k] = "futexWake"
  /\ wPc' = [w \in Waiters |-> IF w \in Woken THEN "cas" ELSE wPc[w]]
  /\ kPc' = [kPc EXCEPT ![k] = "out"]
  /\ UNCHANGED word

\* The process is killed; after its compare-exchange it owes a FUTEX_WAKE.
WakerDies(k) ==
  /\ kPc[k] \in {"out", "futexWake"}
  /\ kPc' = [kPc EXCEPT ![k] = IF @ = "out" THEN "dead" ELSE "owing"]
  /\ UNCHANGED <<word, wPc>>

-------------------------------------------------------------------------------
\* A thread inside Wait that is not asleep is running.
WaitStep(w) == WaitCasHit(w) \/ WaitCasMiss(w) \/ FutexWait(w)

Next ==
  \/ \E w \in Waiters : WaitCall(w) \/ WaitStep(w) \/ SpuriousWakeup(w)
  \/ \E k \in Wakers : WakeCasHit(k) \/ WakeCasMiss(k) \/ FutexWake(k) \/ WakerDies(k)

Spec == Init /\ [][Next]_vars

(* Running threads take their next step.  Nobody need call Wait or Wake,   *)
(* and no spurious wake-up need ever come to the rescue.                   *)
FairSpec ==
  /\ Spec
  /\ \A w \in Waiters : WF_vars(WaitStep(w))
  /\ \A k \in Wakers : WF_vars(FutexWake(k))

-------------------------------------------------------------------------------
TypeOK ==
  /\ word \in {0, 1}
  /\ wPc \in [Waiters -> {"out", "cas", "futexWait", "asleep"}]
  /\ kPc \in [Wakers -> {"out", "futexWake", "dead", "owing"}]

\* No lost wake-up: while a thread sleeps although the word is signalled, the
\* FUTEX_WAKE that will reach it is still to come, even though Wake makes the
\* system call only when its compare-exchange changed the word.  Only a waker
\* killed between its compare-exchange and its system call strands a sleeper,
\* for every later Wake then finds the word set.
NoLostWakeup ==
  word = 1 /\ Asleep # {} => \E k \in Wakers : kPc[k] \in {"futexWake", "owing"}

Event == INSTANCE AutoResetEvent WITH
           signalled <- (word = 1),
           waiting <- {w \in Waiters : wPc[w] # "out"}

\* The futex word, the loop of Wait and the kernel's queue together are an
\* auto-reset event: a spurious wake-up never lets Wait return, and no signal
\* lets two calls return.
ImplementsEvent == Event!Spec

\* A signal given while somebody is in Wait is eventually consumed, with no
\* help from spurious wake-ups and without a further Wake, unless a waker was
\* killed owing its system call.
SignalConsumed ==
  (word = 1 /\ \E w \in Waiters : wPc[w] # "out") ~>
    word = 0 \/ \E k \in Wakers : kPc[k] = "owing"
===============================================================================
