---------------------------- MODULE AutoResetEvent ----------------------------
(***************************************************************************)
(* What a FutexSignaller promises: an event that remembers one signal.     *)
(* Signalling a signalled event changes nothing; a call of Wait returns    *)
(* only by consuming a signal, and each signal lets one call return.       *)
(***************************************************************************)
CONSTANT Waiters

VARIABLES
  signalled,  \* a signal has been given and not consumed
  waiting     \* the waiters inside Wait

eventVars == <<signalled, waiting>>

Init == signalled = FALSE /\ waiting = {}

Call(w) ==
  /\ w \notin waiting
  /\ waiting' = waiting \cup {w}
  /\ UNCHANGED signalled

Return(w) ==
  /\ signalled
  /\ w \in waiting
  /\ signalled' = FALSE
  /\ waiting' = waiting \ {w}

Signal ==
  /\ signalled' = TRUE
  /\ UNCHANGED waiting

Next ==
  \/ \E w \in Waiters : Call(w) \/ Return(w)
  \/ Signal

Spec == Init /\ [][Next]_eventVars
===============================================================================
