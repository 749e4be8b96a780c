------------------------------ MODULE ClientBank ------------------------------
(***************************************************************************)
(* transpose_server: the bank of client contexts and the three threads     *)
(* that use it.  The IPC thread runs MessageHandler, one message at a      *)
(* time; the dispatcher polls the request queues of the clients it knows;  *)
(* main stops the server.  The IPC thread owns validClientsBitSet and the  *)
(* bank, the dispatcher works on a copy of the bit set.  They hand it over *)
(* through one atomic flag, clientBankUpdateAvailable; every other field   *)
(* is plain.                                                               *)
(*                                                                         *)
(* Here a message of any running client may arrive whenever the IPC thread *)
(* is idle, a request may be in any queue, and the constructors of a       *)
(* context may throw.                                                      *)
(***************************************************************************)
EXTENDS Integers, FiniteSets

CONSTANTS
  Clients,       \* the process ids of clients
  NumSlots,      \* MAX_CLIENTS
  None,          \* the id of a value-initialized context: 0, no process id
  DeathAllowed,  \* a client may vanish without its Unsubscribe being handled
  StopAllowed    \* Enter may be pressed

ASSUME SlotsAssumption == NumSlots \in Nat \ {0}
ASSUME ClientsAssumption == IsFiniteSet(Clients) /\ None \notin Clients
ASSUME FlagsAssumption == DeathAllowed \in BOOLEAN /\ StopAllowed \in BOOLEAN

VARIABLES
  alive,               \* the client processes that run
  bank,                \* gWorkspace.clientBank
  bits,                \* gWorkspace.validClientsBitSet, as a set of slots
  flag,                \* gWorkspace.clientBankUpdateAvailable
  running,             \* gWorkspace.running
  ipcRunning,          \* pIpcServer->m_Running
  iPc, iClient, iSlot, \* IPC thread: control, clientId, indexToAdd/ToRemove
  dPc, dBits, dSlot,   \* dispatcher: control, localValidClientsBitSet, i
  mPc                  \* main

ipcVars == <<iPc, iClient, iSlot>>
dispatcherVars == <<dPc, dBits, dSlot>>
mainVars == <<running, ipcRunning, mPc>>
vars == <<alive, bank, bits, flag, ipcVars, dispatcherVars, mainVars>>

Slots == 0 .. NumSlots - 1

\* A ClientContext: its queue, futex and buffers exist when it is ready.
Context == [id : Clients \cup {None}, subscribed : BOOLEAN, ready : BOOLEAN]

EmptyContext == [id |-> None, subscribed |-> FALSE, ready |-> FALSE]

Init ==
  /\ alive = {}
  /\ bank = [s \in Slots |-> EmptyContext]
  /\ bits = {}
  /\ flag = FALSE
  /\ running = TRUE /\ ipcRunning = TRUE /\ mPc = "input"
  /\ iPc = "idle" /\ iClient = None /\ iSlot = 0
  /\ dPc = "top" /\ dBits = {} /\ dSlot = 0

-------------------------------------------------------------------------------
(* The clients.  A client counts as running until its Unsubscribe has been *)
(* handled; README.md allows up to MAX_CLIENTS of them.                    *)

\* A ClientExists that never finds the client.
Subscribed_Never(c) == FALSE

\* ClientExists
Subscribed(c) == \E s \in Slots : bank[s].subscribed /\ bank[s].id = c

Handling(c) == iPc \notin {"idle", "exited"} /\ iClient = c

ClientStart(c) ==
  /\ c \notin alive
  /\ Cardinality(alive) < NumSlots
  /\ alive' = alive \cup {c}
  /\ UNCHANGED <<bank, bits, flag, ipcVars, dispatcherVars, mainVars>>

ClientLeave(c) ==
  /\ c \in alive
  /\ DeathAllowed \/ (~Subscribed(c) /\ ~Handling(c))
  /\ alive' = alive \ {c}
  /\ UNCHANGED <<bank, bits, flag, ipcVars, dispatcherVars, mainVars>>

-------------------------------------------------------------------------------
(* MessageHandler, Subscribe: ClientExists, then AddClient, then Send.     *)

HandlerGoes(from, to) == iPc = from /\ iPc' = to

setBit(number, position, value) ==
  IF value THEN number \cup {position} ELSE number \ {position}

getBit(number, position) == position \in number

FlagLowered_Unchecked == TRUE
FlagLowered_Inverted == flag

\* while (clientBankUpdateAvailable.load(acquire)); is over
FlagLowered == ~flag

\* A client that exists already gets no answer.  The IPC thread may call the
\* handler once m_Running has fallen, for the events it still holds.
HandleSubscribe(c) ==
  /\ iPc = "idle"
  /\ c \in alive
  /\ iClient' = c
  /\ iPc' = IF Subscribed(c) THEN "idle" ELSE "scan"
  /\ UNCHANGED <<alive, bank, bits, flag, iSlot, dispatcherVars, mainVars>>

\* The values indexToAdd can have after the scan: the lowest slot whose bit is
\* clear.  With no such slot it stays uninitialized, and any slot is possible
\* (an index outside the bank is beyond this model).
IndexToAdd ==
  LET free == {s \in Slots : ~getBit(bits, s)} IN
  {s \in Slots : free # {} => s \in free /\ \A t \in free : s <= t}

\* clientBank[indexToAdd] = ClientContext()
AddClientReset ==
  /\ HandlerGoes("scan", "construct")
  /\ iSlot' \in IndexToAdd
  /\ bank' = [bank EXCEPT ![iSlot'] = EmptyContext]
  /\ UNCHANGED <<alive, bits, flag, iClient, dispatcherVars, mainVars>>

AddClientConstruct ==
  /\ HandlerGoes("construct", "addSpin")
  /\ bank' = [bank EXCEPT ![iSlot] = [id |-> iClient, subscribed |-> TRUE, ready |-> TRUE]]
  /\ UNCHANGED <<alive, bits, flag, iClient, iSlot, dispatcherVars, mainVars>>

\* A constructor throws: the id stays in the context, nothing is sent.
AddClientThrow ==
  /\ HandlerGoes("construct", "idle")
  /\ bank' = [bank EXCEPT ![iSlot].id = iClient]
  /\ UNCHANGED <<alive, bits, flag, iClient, iSlot, dispatcherVars, mainVars>>

AddClientSpin ==
  /\ HandlerGoes("addSpin", "setBit")
  /\ FlagLowered
  /\ UNCHANGED <<alive, bank, bits, flag, iClient, iSlot, dispatcherVars, mainVars>>

AddClientSetBit ==
  /\ HandlerGoes("setBit", "addFlag")
  /\ bits' = setBit(bits, iSlot, TRUE)
  /\ UNCHANGED <<alive, bank, flag, iClient, iSlot, dispatcherVars, mainVars>>

AddClientFlag ==
  /\ HandlerGoes("addFlag", "respond")
  /\ flag' = TRUE
  /\ UNCHANGED <<alive, bank, bits, iClient, iSlot, dispatcherVars, mainVars>>

\* pIpcServer->Send(context, responseMessage)
Respond ==
  /\ HandlerGoes("respond", "idle")
  /\ UNCHANGED <<alive, bank, bits, flag, iClient, iSlot, dispatcherVars, mainVars>>

-------------------------------------------------------------------------------
(* MessageHandler, Unsubscribe: ClientExists, then RemoveClient.           *)

MatchingSlots(c) == {s \in Slots : bank[s].id = c}

\* The loop without its break.
IndexToRemove_Last(c) == CHOOSE s \in MatchingSlots(c) : \A t \in MatchingSlots(c) : t <= s

\* The first slot with the client's id, subscribed or not; 0 without one.
IndexToRemove(c) ==
  IF MatchingSlots(c) = {} THEN 0
  ELSE CHOOSE s \in MatchingSlots(c) : \A t \in MatchingSlots(c) : s <= t

HandleUnsubscribe(c) ==
  /\ iPc = "idle"
  /\ c \in alive
  /\ iClient' = c
  /\ IF Subscribed(c)
       THEN iPc' = "removeSpin" /\ iSlot' = IndexToRemove(c)
       ELSE UNCHANGED <<iPc, iSlot>>
  /\ UNCHANGED <<alive, bank, bits, flag, dispatcherVars, mainVars>>

RemoveClientSpin ==
  /\ HandlerGoes("removeSpin", "clearBit")
  /\ FlagLowered
  /\ UNCHANGED <<alive, bank, bits, flag, iClient, iSlot, dispatcherVars, mainVars>>

RemoveClientClearBit ==
  /\ HandlerGoes("clearBit", "removeFlag")
  /\ bits' = setBit(bits, iSlot, FALSE)
  /\ UNCHANGED <<alive, bank, flag, iClient, iSlot, dispatcherVars, mainVars>>

RemoveClientFlag ==
  /\ HandlerGoes("removeFlag", "removeAck")
  /\ flag' = TRUE
  /\ UNCHANGED <<alive, bank, bits, iClient, iSlot, dispatcherVars, mainVars>>

\* The second spin: the dispatcher has taken the new bit set over.
RemoveClientAck ==
  /\ HandlerGoes("removeAck", "idle")
  /\ FlagLowered
  /\ bank' = [bank EXCEPT ![iSlot].subscribed = FALSE]
  /\ UNCHANGED <<alive, bits, flag, iClient, iSlot, dispatcherVars, mainVars>>

\* The IPC thread leaves its loop once the server object is being destroyed.
IpcExit ==
  /\ iPc = "idle" /\ ~ipcRunning
  /\ iPc' = "exited"
  /\ UNCHANGED <<alive, bank, bits, flag, iClient, iSlot, dispatcherVars, mainVars>>

-------------------------------------------------------------------------------
(* WorkloadDispatcher.                                                     *)

DispatcherGoes(from, to) == dPc = from /\ dPc' = to

NextSlot_SkipsOne == dSlot + 2

\* i++
NextSlot == dSlot + 1

\* while (running): look at the flag, then scan the slots from 0 on.
DispatcherTop ==
  /\ dPc = "top"
  /\ dPc' = IF ~running THEN "exited" ELSE IF flag THEN "copy" ELSE "scan"
  /\ dSlot' = 0
  /\ UNCHANGED <<alive, bank, bits, flag, ipcVars, dBits, mainVars>>

DispatcherCopy ==
  /\ DispatcherGoes("copy", "ack")
  /\ dBits' = bits
  /\ UNCHANGED <<alive, bank, bits, flag, ipcVars, dSlot, mainVars>>

DispatcherAck ==
  /\ DispatcherGoes("ack", "scan")
  /\ flag' = FALSE
  /\ UNCHANGED <<alive, bank, bits, ipcVars, dBits, dSlot, mainVars>>

DispatcherScan ==
  /\ \/ DispatcherGoes("scan", "top") /\ dSlot = NumSlots /\ UNCHANGED dSlot
     \/ DispatcherGoes("scan", "dequeue") /\ getBit(dBits, dSlot) /\ UNCHANGED dSlot
     \/ DispatcherGoes("scan", "scan") /\ dSlot # NumSlots /\ ~getBit(dBits, dSlot) /\ dSlot' = NextSlot
  /\ UNCHANGED <<alive, bank, bits, flag, ipcVars, dBits, mainVars>>

\* pRequestQueue->Dequeue of this client: true or false.
DispatcherDequeue ==
  /\ \/ DispatcherGoes("dequeue", "transpose") /\ UNCHANGED dSlot
     \/ DispatcherGoes("dequeue", "scan") /\ dSlot' = NextSlot
  /\ UNCHANGED <<alive, bank, bits, flag, ipcVars, dBits, mainVars>>

\* Transpose, Wake, StopTimer: each uses the context once more.
DispatcherServe ==
  /\ \/ DispatcherGoes("transpose", "wake") /\ UNCHANGED dSlot
     \/ DispatcherGoes("wake", "stopTimer") /\ UNCHANGED dSlot
     \/ DispatcherGoes("stopTimer", "scan") /\ dSlot' = NextSlot
  /\ UNCHANGED <<alive, bank, bits, flag, ipcVars, dBits, mainVars>>

-------------------------------------------------------------------------------
(* main: std::cin.get() returns; join the dispatcher; the destructor of    *)
(* the global workspace destroys the IPC server, which joins its thread.   *)

Enter ==
  /\ StopAllowed
  /\ mPc = "input"
  /\ running' = FALSE
  /\ mPc' = "joinDispatcher"
  /\ UNCHANGED <<alive, bank, bits, flag, ipcVars, dispatcherVars, ipcRunning>>

JoinDispatcher ==
  /\ mPc = "joinDispatcher"
  /\ dPc = "exited"
  /\ ipcRunning' = FALSE
  /\ mPc' = "joinIpc"
  /\ UNCHANGED <<alive, bank, bits, flag, ipcVars, dispatcherVars, running>>

JoinIpc ==
  /\ mPc = "joinIpc"
  /\ iPc = "exited"
  /\ mPc' = "done"
  /\ UNCHANGED <<alive, bank, bits, flag, ipcVars, dispatcherVars, running, ipcRunning>>

-------------------------------------------------------------------------------
ClientStep == \E c \in Clients : ClientStart(c) \/ ClientLeave(c)

Receive == \E c \in Clients : HandleSubscribe(c) \/ HandleUnsubscribe(c)

\* The IPC thread inside MessageHandler, or on its way out.
HandlerStep ==
  \/ AddClientReset \/ AddClientConstruct \/ AddClientThrow
  \/ AddClientSpin \/ AddClientSetBit \/ AddClientFlag \/ Respond
  \/ RemoveClientSpin \/ RemoveClientClearBit \/ RemoveClientFlag \/ RemoveClientAck
  \/ IpcExit

DispatcherStep ==
  \/ DispatcherTop \/ DispatcherCopy \/ DispatcherAck
  \/ DispatcherScan \/ DispatcherDequeue \/ DispatcherServe

MainStep == JoinDispatcher \/ JoinIpc

Next == ClientStep \/ Receive \/ HandlerStep \/ DispatcherStep \/ Enter \/ MainStep

Spec == Init /\ [][Next]_vars

(* The threads of the server run; nobody need send a message or press      *)
(* Enter.                                                                  *)
FairSpec ==
  /\ Spec
  /\ WF_vars(HandlerStep)
  /\ WF_vars(DispatcherStep)
  /\ WF_vars(MainStep)

-------------------------------------------------------------------------------
(* Properties.                                                             *)

TypeOK ==
  /\ alive \subseteq Clients
  /\ bank \in [Slots -> Context]
  /\ bits \subseteq Slots /\ dBits \subseteq Slots
  /\ flag \in BOOLEAN /\ running \in BOOLEAN /\ ipcRunning \in BOOLEAN
  /\ iPc \in {"idle", "scan", "construct", "addSpin", "setBit", "addFlag", "respond",
              "removeSpin", "clearBit", "removeFlag", "removeAck", "exited"}
  /\ iClient \in Clients \cup {None} /\ iSlot \in Slots
  /\ dPc \in {"top", "copy", "ack", "scan", "dequeue", "transpose", "wake", "stopTimer", "exited"}
  /\ dSlot \in 0 .. NumSlots
  /\ mPc \in {"input", "joinDispatcher", "joinIpc", "done"}

Serving == dPc \in {"dequeue", "transpose", "wake", "stopTimer"}

\* The context the dispatcher works on is complete and subscribed from the
\* bit test to StopTimer: AddClient never resets it, RemoveClient never
\* retires it under the dispatcher, although only the flag connects the two.
NoUseAfterReset == Serving => bank[dSlot].ready /\ bank[dSlot].subscribed

\* The plain validClientsBitSet is never written by the IPC thread while the
\* dispatcher may read it: the flag hands it over.
HandoffExclusive == iPc \in {"setBit", "clearBit"} => dPc # "copy"

\* RemoveClient, which looks for the id alone, finds the subscribed context
\* and not an old one that still holds the same id.
RemovesOwnSlot ==
  iPc \in {"removeSpin", "clearBit", "removeFlag", "removeAck"} =>
    bank[iSlot].subscribed /\ bank[iSlot].id = iClient

\* README.md: the server serves "an arbitrary number of client processes (up
\* to MAX_CLIENTS)".  With at most that many running, AddClient finds a free
\* slot, so that indexToAdd is initialized.
LimitSuffices == iPc = "scan" => bits # Slots

\* MessageHandler returns: neither of its spins on the flag lasts for ever
\* while the server is not being stopped.
HandlerReturns == iPc # "idle" ~> iPc = "idle" \/ ~running

\* Every client with its bit set is polled again and again, until it is
\* removed or the server is stopped.
EveryClientPolled ==
  \A s \in Slots : s \in bits ~> (dPc = "dequeue" /\ dSlot = s) \/ s \notin bits \/ ~running

\* The server prints "Press Enter to stop the server": it does stop.
StopsOnEnter == mPc # "input" ~> mPc = "done"

-------------------------------------------------------------------------------
(* The inductive invariant.                                                *)

\* The flag keeps the two threads out of each other's way, and a lowered flag
\* means that the copy is up to date.
FlagInv ==
  /\ iPc \in {"setBit", "addFlag", "clearBit", "removeFlag"} => ~flag
  /\ dPc \in {"copy", "ack"} => flag
  /\ dPc = "ack" => dBits = bits
  /\ ~flag /\ iPc \notin {"addFlag", "removeFlag"} => dBits = bits

\* The dispatcher's copy lags behind only by the bit being set or cleared.
CopyInv ==
  dBits \subseteq bits \cup (IF iPc \in {"removeFlag", "removeAck"} THEN {iSlot} ELSE {})

\* Which slots are subscribed, by the step MessageHandler is at.
BankInv ==
  /\ \A s \in Slots :
       bank[s].subscribed <=>
         \/ s \in bits
         \/ iPc \in {"addSpin", "setBit", "removeFlag", "removeAck"} /\ s = iSlot
  /\ \A s \in Slots : bank[s].subscribed => bank[s].ready
  /\ iPc \in {"construct", "addSpin", "setBit", "removeFlag", "removeAck"} => iSlot \notin bits
  /\ iPc \in {"removeSpin", "clearBit"} => iSlot \in bits
  /\ iPc = "construct" => \A t \in Slots : t < iSlot => t \in bits
  /\ iPc = "construct" => bank[iSlot] = EmptyContext

\* No slot below a subscribed one holds the same id, subscribed or not.
IdInv ==
  /\ \A s, t \in Slots : bank[s].subscribed /\ t < s => bank[t].id # bank[s].id
  /\ iPc \in {"scan", "construct"} =>
       iClient \in alive /\ \A s \in Slots : bank[s].subscribed => bank[s].id # iClient
  /\ RemovesOwnSlot

\* Every subscribed context belongs to a running client.
AliveInv ==
  /\ Cardinality(alive) <= NumSlots
  /\ \A s \in Slots : bank[s].subscribed => bank[s].id \in alive

ScanInv == Serving => dSlot \in dBits

\* The strengthening of the safety properties that every step preserves while
\* no client vanishes.
IInv == TypeOK /\ FlagInv /\ CopyInv /\ BankInv /\ IdInv /\ AliveInv /\ ScanInv
===============================================================================
