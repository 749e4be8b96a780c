------------------------ MODULE TransposeSystem_proofs ------------------------
(***************************************************************************)
(* The server's bank of contexts, and the server with its clients.         *)
(*                                                                         *)
(* For any number of slots and any set of clients that stays within it and *)
(* unsubscribes before it leaves: the dispatcher never works on a context  *)
(* that is being reset or retired, RemoveClient retires the right one, and *)
(* AddClient always finds a slot.                                          *)
(*                                                                         *)
(* With the clients of this repository, any number of buffers and of       *)
(* repetitions (at least one), constructors that fail and a server that is *)
(* stopped at any time: the clients do unsubscribe, no request is lost or  *)
(* served twice, every result is there when the client is woken, and the   *)
(* dispatcher goes by the right sizes.                                     *)
(***************************************************************************)
EXTENDS TransposeSystem, FiniteSetTheorems, SequenceTheorems, TLAPS

-------------------------------------------------------------------------------
(* The bank: the server of ClientBank.                                      *)

LEMMA SlotFacts ==
  /\ NumSlots \in Nat /\ NumSlots >= 1
  /\ IsFiniteSet(Slots)
  /\ Cardinality(Slots) = NumSlots
BY SlotsAssumption, FS_Interval DEF Slots

\* The pigeonhole argument behind LimitSuffices: were every slot taken, their
\* owners would be NumSlots running clients besides the one subscribing.
LEMMA FreeSlot ==
  ASSUME TypeOK, BankInv, IdInv, AliveInv, iPc = "scan"
  PROVE  bits # Slots
<1>1. SUFFICES ASSUME bits = Slots PROVE FALSE
  OBVIOUS
<1> DEFINE others == alive \ {iClient}
           owner == [s \in Slots |-> bank[s].id]
<1>2. IsFiniteSet(alive) /\ iClient \in alive
  BY ClientsAssumption, FS_Subset DEF TypeOK, IdInv
<1>3. IsFiniteSet(others) /\ Cardinality(others) < Cardinality(Slots)
  <2>1. IsFiniteSet(others) /\ Cardinality(others) = Cardinality(alive) - 1
    BY <1>2, FS_RemoveElement
  <2>2. Cardinality(alive) \in Nat /\ Cardinality(alive) <= NumSlots
    BY <1>2, FS_CardinalityType DEF AliveInv
  <2>3. QED
    BY <2>1, <2>2, SlotFacts
<1>4. \A s \in Slots : bank[s].subscribed
  BY <1>1 DEF BankInv
<1>5. owner \in [Slots -> others]
  BY <1>4 DEF IdInv, AliveInv
<1>6. \E s, t \in Slots : s # t /\ owner[s] = owner[t]
  <2> HIDE DEF others, owner
  <2>1. QED
    BY <1>3, <1>5, SlotFacts, FS_PigeonHole
<1>7. PICK s \in Slots, t \in Slots : s # t /\ bank[s].id = bank[t].id
  BY <1>6
<1>8. s < t \/ t < s
  BY <1>7, SlotFacts DEF Slots
<1>9. QED
  BY <1>4, <1>7, <1>8 DEF IdInv

\* The first context with the id of a subscribed client is the subscribed one.
LEMMA FirstIsSubscribed ==
  ASSUME TypeOK, IdInv, NEW c \in Clients, Subscribed(c)
  PROVE  /\ IndexToRemove(c) \in Slots
         /\ bank[IndexToRemove(c)].subscribed
         /\ bank[IndexToRemove(c)].id = c
<1>1. PICK s \in Slots : bank[s].subscribed /\ bank[s].id = c
  BY DEF Subscribed
<1> DEFINE match == MatchingSlots(c)
<1>2. s \in match /\ \A t \in match : s <= t
  BY <1>1, SlotFacts DEF IdInv, Slots, MatchingSlots
<1>3. \A r \in match : (\A t \in match : r <= t) => r = s
  BY <1>2, SlotFacts DEF Slots, MatchingSlots
<1>4. (CHOOSE r \in match : \A t \in match : r <= t) = s
  BY <1>2, <1>3
<1>5. IndexToRemove(c) = s
  BY <1>2, <1>4 DEF IndexToRemove
<1>6. QED
  BY <1>1, <1>5

LEMMA InitIInv == Init => IInv
<1> SUFFICES ASSUME Init PROVE IInv
  OBVIOUS
<1>1. TypeOK
  <2>1. EmptyContext \in Context
    BY DEF EmptyContext, Context
  <2>2. bank \in [Slots -> Context] /\ 0 \in Slots /\ 0 \in 0 .. NumSlots
    BY <2>1, SlotFacts DEF Init, Slots
  <2>3. QED
    BY <2>2 DEF Init, TypeOK
<1>2. FlagInv /\ CopyInv /\ ScanInv
  BY DEF Init, FlagInv, CopyInv, ScanInv, Serving
<1>3. BankInv /\ IdInv
  BY DEF Init, BankInv, IdInv, RemovesOwnSlot, EmptyContext
<1>4. AliveInv
  BY SlotFacts, FS_EmptySet DEF Init, AliveInv, EmptyContext
<1>5. QED
  BY <1>1, <1>2, <1>3, <1>4 DEF IInv

\* A step of the dispatcher or of main leaves the IPC thread's data alone.
LEMMA BankSame ==
  ASSUME BankInv, IdInv, AliveInv, UNCHANGED <<alive, bank, bits, iPc, iClient, iSlot>>
  PROVE  BankInv' /\ IdInv' /\ AliveInv'
BY DEF BankInv, IdInv, AliveInv, RemovesOwnSlot

\* A step that leaves the dispatcher and the slots it works on alone.
LEMMA ScanSame ==
  ASSUME ScanInv, UNCHANGED dispatcherVars
  PROVE  ScanInv'
BY DEF ScanInv, Serving, dispatcherVars

\* A client that leaves has been removed.
LeavesRemoved == \A c \in Clients : ClientLeave(c) => ~Subscribed(c) /\ ~Handling(c)

LEMMA StepIInv == LeavesRemoved /\ IInv /\ [Next]_vars => IInv'
<1> SUFFICES ASSUME LeavesRemoved, IInv, [Next]_vars PROVE IInv'
  OBVIOUS
<1>inv. TypeOK /\ FlagInv /\ CopyInv /\ BankInv /\ IdInv /\ AliveInv /\ ScanInv
  BY DEF IInv
<1>empty. EmptyContext \in Context
  BY DEF EmptyContext, Context
<1>1. ASSUME NEW c \in Clients, ClientStart(c)
      PROVE  IInv'
  <2> USE <1>1 DEF ClientStart, ipcVars, dispatcherVars, mainVars
  <2>card. Cardinality(alive') <= NumSlots
    <3>1. IsFiniteSet(alive)
      BY <1>inv, ClientsAssumption, FS_Subset DEF TypeOK
    <3>2. Cardinality(alive') = Cardinality(alive) + 1 /\ Cardinality(alive) \in Nat
      BY <3>1, FS_AddElement, FS_CardinalityType
    <3>3. QED
      BY <3>2, SlotFacts
  <2>1. TypeOK'
    BY <1>inv DEF TypeOK
  <2>2. FlagInv' /\ CopyInv'
    BY <1>inv DEF FlagInv, CopyInv, TypeOK
  <2>3. BankInv'
    BY <1>inv DEF BankInv, TypeOK
  <2>4. IdInv'
    BY <1>inv DEF IdInv, RemovesOwnSlot, BankInv, TypeOK
  <2>5. AliveInv'
    BY <1>inv, <2>card DEF AliveInv, TypeOK
  <2>6. ScanInv'
    BY <1>inv, ScanSame
  <2>7. QED
    BY <2>1, <2>2, <2>3, <2>4, <2>5, <2>6 DEF IInv
<1>2. ASSUME NEW c \in Clients, ClientLeave(c)
      PROVE  IInv'
  <2> USE <1>2 DEF ClientLeave, Subscribed, Handling, ipcVars, dispatcherVars, mainVars
  <2>left. ~Subscribed(c) /\ ~Handling(c)
    BY <1>2 DEF LeavesRemoved
  <2>card. Cardinality(alive') <= NumSlots
    <3>1. IsFiniteSet(alive)
      BY <1>inv, ClientsAssumption, FS_Subset DEF TypeOK
    <3>2. Cardinality(alive') = Cardinality(alive) - 1 /\ Cardinality(alive) \in Nat
      BY <3>1, FS_RemoveElement, FS_CardinalityType
    <3>3. QED
      BY <1>inv, <3>2, SlotFacts DEF AliveInv
  <2>1. TypeOK'
    BY <1>inv DEF TypeOK
  <2>2. FlagInv' /\ CopyInv'
    BY <1>inv DEF FlagInv, CopyInv, TypeOK
  <2>3. BankInv'
    BY <1>inv DEF BankInv, TypeOK
  <2>4. IdInv'
    BY <1>inv, <2>left DEF IdInv, RemovesOwnSlot, BankInv, TypeOK
  <2>5. AliveInv'
    BY <1>inv, <2>card, <2>left DEF AliveInv, TypeOK
  <2>6. ScanInv'
    BY <1>inv, ScanSame
  <2>7. QED
    BY <2>1, <2>2, <2>3, <2>4, <2>5, <2>6 DEF IInv
<1>3. ASSUME NEW c \in Clients, HandleSubscribe(c)
      PROVE  IInv'
  <2> USE <1>3 DEF HandleSubscribe, Subscribed, dispatcherVars, mainVars
  <2>1. TypeOK'
    BY <1>inv DEF TypeOK
  <2>2. FlagInv' /\ CopyInv'
    BY <1>inv DEF FlagInv, CopyInv, TypeOK
  <2>3. BankInv'
    BY <1>inv DEF BankInv, TypeOK
  <2>4. IdInv'
    BY <1>inv DEF IdInv, RemovesOwnSlot, BankInv, TypeOK
  <2>5. AliveInv'
    BY <1>inv DEF AliveInv, TypeOK
  <2>6. ScanInv'
    BY <1>inv, ScanSame
  <2>7. QED
    BY <2>1, <2>2, <2>3, <2>4, <2>5, <2>6 DEF IInv
<1>4. ASSUME AddClientReset
      PROVE  IInv'
  <2>1. /\ iPc = "scan" /\ iPc' = "construct"
        /\ UNCHANGED <<alive, bits, flag, iClient, dPc, dBits, dSlot, running, ipcRunning, mPc>>
    BY <1>4 DEF AddClientReset, HandlerGoes, dispatcherVars, mainVars
  \* FreeSlot: the scan ends at the lowest slot whose bit is clear.
  <2>2. PICK r \in Slots : /\ iSlot' = r /\ bank' = [bank EXCEPT ![r] = EmptyContext]
                           /\ r \notin bits /\ \A t \in Slots : t \notin bits => r <= t
    <3>1. Slots \ bits # {}
      BY <1>inv, <2>1, FreeSlot DEF TypeOK
    <3>2. QED
      BY <1>4, <3>1 DEF AddClientReset, HandlerGoes, IndexToAdd, getBit
  <2>3. bank[r].subscribed = FALSE /\ \A t \in Slots : t < r => t \in bits
    BY <1>inv, <2>1, <2>2, SlotFacts DEF BankInv, TypeOK, Context, Slots
  <2>4. /\ bank' \in [Slots -> Context]
        /\ bank'[r] = EmptyContext
        /\ \A t \in Slots : t # r => bank'[t] = bank[t]
    BY <1>inv, <1>empty, <2>2 DEF TypeOK
  <2>5. TypeOK'
    BY <1>inv, <2>1, <2>2, <2>4 DEF TypeOK
  <2>6. FlagInv' /\ CopyInv'
    BY <1>inv, <2>1 DEF FlagInv, CopyInv, TypeOK
  <2>7. BankInv'
    BY <1>inv, <2>1, <2>2, <2>3, <2>4 DEF BankInv, EmptyContext
  <2>8. IdInv'
    <3>1. \A s, t \in Slots : bank'[s].subscribed /\ t < s => bank'[t].id # bank'[s].id
      <4>1. SUFFICES ASSUME NEW s \in Slots, NEW t \in Slots, bank'[s].subscribed, t < s
                     PROVE  bank'[t].id # bank'[s].id
        OBVIOUS
      <4>2. s # r /\ bank'[s] = bank[s]
        BY <4>1, <2>4 DEF EmptyContext
      <4>3. bank[s].id \in Clients
        BY <1>inv, <4>1, <4>2 DEF AliveInv, TypeOK
      <4>4. CASE t = r
        BY <4>2, <4>3, <4>4, <2>4, ClientsAssumption DEF EmptyContext
      <4>5. CASE t # r
        BY <1>inv, <4>1, <4>2, <4>5, <2>4 DEF IdInv
      <4>6. QED
        BY <4>4, <4>5
    <3>2. \A s \in Slots : bank'[s].subscribed => bank'[s].id # iClient
      BY <1>inv, <2>1, <2>4 DEF IdInv, EmptyContext
    <3>3. QED
      BY <1>inv, <2>1, <3>1, <3>2 DEF IdInv, RemovesOwnSlot
  <2>9. AliveInv'
    BY <1>inv, <2>1, <2>4 DEF AliveInv, EmptyContext
  <2>10. ScanInv'
    BY <1>inv, <2>1, ScanSame DEF dispatcherVars
  <2>11. QED
    BY <2>5, <2>6, <2>7, <2>8, <2>9, <2>10 DEF IInv
<1>5. ASSUME AddClientConstruct
      PROVE  IInv'
  <2> USE <1>5 DEF AddClientConstruct, HandlerGoes, Context, EmptyContext, dispatcherVars, mainVars
  <2>1. TypeOK'
    BY <1>inv DEF TypeOK
  <2>2. FlagInv' /\ CopyInv'
    BY <1>inv DEF FlagInv, CopyInv, TypeOK
  <2>3. BankInv'
    BY <1>inv DEF BankInv, TypeOK
  <2>4. IdInv'
    BY <1>inv DEF IdInv, RemovesOwnSlot, BankInv, TypeOK
  <2>5. AliveInv'
    BY <1>inv DEF AliveInv, IdInv, BankInv, TypeOK
  <2>6. ScanInv'
    BY <1>inv, ScanSame
  <2>7. QED
    BY <2>1, <2>2, <2>3, <2>4, <2>5, <2>6 DEF IInv
<1>6. ASSUME AddClientThrow
      PROVE  IInv'
  <2> USE <1>6 DEF AddClientThrow, HandlerGoes, Context, EmptyContext, dispatcherVars, mainVars
  <2>1. TypeOK'
    BY <1>inv DEF TypeOK
  <2>2. FlagInv' /\ CopyInv'
    BY <1>inv DEF FlagInv, CopyInv, TypeOK
  <2>3. BankInv'
    BY <1>inv DEF BankInv, TypeOK
  <2>4. IdInv'
    BY <1>inv DEF IdInv, RemovesOwnSlot, BankInv, TypeOK
  <2>5. AliveInv'
    BY <1>inv DEF AliveInv, IdInv, BankInv, TypeOK
  <2>6. ScanInv'
    BY <1>inv, ScanSame
  <2>7. QED
    BY <2>1, <2>2, <2>3, <2>4, <2>5, <2>6 DEF IInv
<1>7. ASSUME AddClientSpin
      PROVE  IInv'
  <2> USE <1>7 DEF AddClientSpin, HandlerGoes, FlagLowered, dispatcherVars, mainVars
  <2>1. TypeOK'
    BY <1>inv DEF TypeOK
  <2>2. FlagInv' /\ CopyInv'
    BY <1>inv DEF FlagInv, CopyInv, TypeOK
  <2>3. BankInv'
    BY <1>inv DEF BankInv, TypeOK
  <2>4. IdInv'
    BY <1>inv DEF IdInv, RemovesOwnSlot, BankInv, TypeOK
  <2>5. AliveInv'
    BY <1>inv DEF AliveInv, TypeOK
  <2>6. ScanInv'
    BY <1>inv, ScanSame
  <2>7. QED
    BY <2>1, <2>2, <2>3, <2>4, <2>5, <2>6 DEF IInv
<1>8. ASSUME AddClientSetBit
      PROVE  IInv'
  <2> USE <1>8 DEF AddClientSetBit, HandlerGoes, setBit, dispatcherVars, mainVars
  <2>1. TypeOK'
    BY <1>inv DEF TypeOK
  <2>2. FlagInv' /\ CopyInv'
    BY <1>inv DEF FlagInv, CopyInv, TypeOK
  <2>3. BankInv'
    BY <1>inv DEF BankInv, TypeOK
  <2>4. IdInv'
    BY <1>inv DEF IdInv, RemovesOwnSlot, BankInv, TypeOK
  <2>5. AliveInv'
    BY <1>inv DEF AliveInv, TypeOK
  <2>6. ScanInv'
    BY <1>inv, ScanSame
  <2>7. QED
    BY <2>1, <2>2, <2>3, <2>4, <2>5, <2>6 DEF IInv
<1>9. ASSUME AddClientFlag
      PROVE  IInv'
  <2> USE <1>9 DEF AddClientFlag, HandlerGoes, dispatcherVars, mainVars
  <2>1. TypeOK'
    BY <1>inv DEF TypeOK
  <2>2. FlagInv' /\ CopyInv'
    BY <1>inv DEF FlagInv, CopyInv, TypeOK
  <2>3. BankInv'
    BY <1>inv DEF BankInv, TypeOK
  <2>4. IdInv'
    BY <1>inv DEF IdInv, RemovesOwnSlot, BankInv, TypeOK
  <2>5. AliveInv'
    BY <1>inv DEF AliveInv, TypeOK
  <2>6. ScanInv'
    BY <1>inv, ScanSame
  <2>7. QED
    BY <2>1, <2>2, <2>3, <2>4, <2>5, <2>6 DEF IInv
<1>10. ASSUME Respond
      PROVE  IInv'
  <2> USE <1>10 DEF Respond, HandlerGoes, dispatcherVars, mainVars
  <2>1. TypeOK'
    BY <1>inv DEF TypeOK
  <2>2. FlagInv' /\ CopyInv'
    BY <1>inv DEF FlagInv, CopyInv, TypeOK
  <2>3. BankInv'
    BY <1>inv DEF BankInv, TypeOK
  <2>4. IdInv'
    BY <1>inv DEF IdInv, RemovesOwnSlot, BankInv, TypeOK
  <2>5. AliveInv'
    BY <1>inv DEF AliveInv, TypeOK
  <2>6. ScanInv'
    BY <1>inv, ScanSame
  <2>7. QED
    BY <2>1, <2>2, <2>3, <2>4, <2>5, <2>6 DEF IInv
<1>11. ASSUME NEW c \in Clients, HandleUnsubscribe(c)
      PROVE  IInv'
  <2> USE <1>11 DEF HandleUnsubscribe, dispatcherVars, mainVars
  <2>1. TypeOK'
    BY <1>inv, FirstIsSubscribed DEF TypeOK
  <2>2. FlagInv' /\ CopyInv'
    BY <1>inv, FirstIsSubscribed DEF FlagInv, CopyInv, TypeOK
  <2>3. BankInv'
    BY <1>inv, FirstIsSubscribed DEF BankInv, TypeOK
  <2>4. IdInv'
    BY <1>inv, FirstIsSubscribed DEF IdInv, RemovesOwnSlot, BankInv, TypeOK
  <2>5. AliveInv'
    BY <1>inv DEF AliveInv, TypeOK
  <2>6. ScanInv'
    BY <1>inv, ScanSame
  <2>7. QED
    BY <2>1, <2>2, <2>3, <2>4, <2>5, <2>6 DEF IInv
<1>12. ASSUME RemoveClientSpin
      PROVE  IInv'
  <2> USE <1>12 DEF RemoveClientSpin, HandlerGoes, FlagLowered, dispatcherVars, mainVars
  <2>1. TypeOK'
    BY <1>inv DEF TypeOK
  <2>2. FlagInv' /\ CopyInv'
    BY <1>inv DEF FlagInv, CopyInv, TypeOK
  <2>3. BankInv'
    BY <1>inv DEF BankInv, TypeOK
  <2>4. IdInv'
    BY <1>inv DEF IdInv, RemovesOwnSlot, BankInv, TypeOK
  <2>5. AliveInv'
    BY <1>inv DEF AliveInv, TypeOK
  <2>6. ScanInv'
    BY <1>inv, ScanSame
  <2>7. QED
    BY <2>1, <2>2, <2>3, <2>4, <2>5, <2>6 DEF IInv
<1>13. ASSUME RemoveClientClearBit
      PROVE  IInv'
  <2> USE <1>13 DEF RemoveClientClearBit, HandlerGoes, setBit, dispatcherVars, mainVars
  <2>1. TypeOK'
    BY <1>inv DEF TypeOK
  <2>2. FlagInv' /\ CopyInv'
    BY <1>inv DEF FlagInv, CopyInv, TypeOK
  <2>3. BankInv'
    BY <1>inv DEF BankInv, TypeOK
  <2>4. IdInv'
    BY <1>inv DEF IdInv, RemovesOwnSlot, BankInv, TypeOK
  <2>5. AliveInv'
    BY <1>inv DEF AliveInv, TypeOK
  <2>6. ScanInv'
    BY <1>inv, ScanSame
  <2>7. QED
    BY <2>1, <2>2, <2>3, <2>4, <2>5, <2>6 DEF IInv
<1>14. ASSUME RemoveClientFlag
      PROVE  IInv'
  <2> USE <1>14 DEF RemoveClientFlag, HandlerGoes, dispatcherVars, mainVars
  <2>1. TypeOK'
    BY <1>inv DEF TypeOK
  <2>2. FlagInv' /\ CopyInv'
    BY <1>inv DEF FlagInv, CopyInv, TypeOK
  <2>3. BankInv'
    BY <1>inv DEF BankInv, TypeOK
  <2>4. IdInv'
    BY <1>inv DEF IdInv, RemovesOwnSlot, BankInv, TypeOK
  <2>5. AliveInv'
    BY <1>inv DEF AliveInv, TypeOK
  <2>6. ScanInv'
    BY <1>inv, ScanSame
  <2>7. QED
    BY <2>1, <2>2, <2>3, <2>4, <2>5, <2>6 DEF IInv
<1>15. ASSUME RemoveClientAck
      PROVE  IInv'
  <2> USE <1>15 DEF RemoveClientAck, HandlerGoes, FlagLowered, Context, dispatcherVars, mainVars
  <2>1. TypeOK'
    BY <1>inv DEF TypeOK
  <2>2. FlagInv' /\ CopyInv'
    BY <1>inv DEF FlagInv, CopyInv, TypeOK
  <2>3. BankInv'
    BY <1>inv DEF BankInv, TypeOK
  <2>4. IdInv'
    BY <1>inv DEF IdInv, RemovesOwnSlot, BankInv, TypeOK
  <2>5. AliveInv'
    BY <1>inv DEF AliveInv, TypeOK
  <2>6. ScanInv'
    BY <1>inv, ScanSame
  <2>7. QED
    BY <2>1, <2>2, <2>3, <2>4, <2>5, <2>6 DEF IInv
<1>16. ASSUME IpcExit
      PROVE  IInv'
  <2> USE <1>16 DEF IpcExit, dispatcherVars, mainVars
  <2>1. TypeOK'
    BY <1>inv DEF TypeOK
  <2>2. FlagInv' /\ CopyInv'
    BY <1>inv DEF FlagInv, CopyInv, TypeOK
  <2>3. BankInv'
    BY <1>inv DEF BankInv, TypeOK
  <2>4. IdInv'
    BY <1>inv DEF IdInv, RemovesOwnSlot, BankInv, TypeOK
  <2>5. AliveInv'
    BY <1>inv DEF AliveInv, TypeOK
  <2>6. ScanInv'
    BY <1>inv, ScanSame
  <2>7. QED
    BY <2>1, <2>2, <2>3, <2>4, <2>5, <2>6 DEF IInv
<1>17. ASSUME DispatcherTop
      PROVE  IInv'
  <2> USE <1>17 DEF DispatcherTop, ipcVars, mainVars
  <2>1. TypeOK'
    BY <1>inv, SlotFacts DEF TypeOK, Slots
  <2>2. FlagInv' /\ CopyInv'
    BY <1>inv DEF FlagInv, CopyInv, TypeOK
  <2>3. BankInv' /\ IdInv' /\ AliveInv'
    BY <1>inv, BankSame
  <2>4. ScanInv'
    BY <1>inv DEF ScanInv, Serving
  <2>5. QED
    BY <2>1, <2>2, <2>3, <2>4 DEF IInv
<1>18. ASSUME DispatcherCopy
      PROVE  IInv'
  <2> USE <1>18 DEF DispatcherCopy, DispatcherGoes, ipcVars, mainVars
  <2>1. TypeOK'
    BY <1>inv, SlotFacts DEF TypeOK, Slots
  <2>2. FlagInv' /\ CopyInv'
    BY <1>inv DEF FlagInv, CopyInv, TypeOK
  <2>3. BankInv' /\ IdInv' /\ AliveInv'
    BY <1>inv, BankSame
  <2>4. ScanInv'
    BY <1>inv DEF ScanInv, Serving
  <2>5. QED
    BY <2>1, <2>2, <2>3, <2>4 DEF IInv
<1>19. ASSUME DispatcherAck
      PROVE  IInv'
  <2> USE <1>19 DEF DispatcherAck, DispatcherGoes, ipcVars, mainVars
  <2>1. TypeOK'
    BY <1>inv, SlotFacts DEF TypeOK, Slots
  <2>2. FlagInv' /\ CopyInv'
    BY <1>inv DEF FlagInv, CopyInv, TypeOK
  <2>3. BankInv' /\ IdInv' /\ AliveInv'
    BY <1>inv, BankSame
  <2>4. ScanInv'
    BY <1>inv DEF ScanInv, Serving
  <2>5. QED
    BY <2>1, <2>2, <2>3, <2>4 DEF IInv
<1>20. ASSUME DispatcherScan
      PROVE  IInv'
  <2> USE <1>20 DEF DispatcherScan, DispatcherGoes, NextSlot, getBit, ipcVars, mainVars
  <2>1. TypeOK'
    BY <1>inv, SlotFacts DEF TypeOK, Slots
  <2>2. FlagInv' /\ CopyInv'
    BY <1>inv DEF FlagInv, CopyInv, TypeOK
  <2>3. BankInv' /\ IdInv' /\ AliveInv'
    BY <1>inv, BankSame
  <2>4. ScanInv'
    BY <1>inv DEF ScanInv, Serving
  <2>5. QED
    BY <2>1, <2>2, <2>3, <2>4 DEF IInv
<1>21. ASSUME DispatcherDequeue
      PROVE  IInv'
  <2> USE <1>21 DEF DispatcherDequeue, DispatcherGoes, NextSlot, ipcVars, mainVars
  <2>1. TypeOK'
    BY <1>inv, SlotFacts DEF TypeOK, Slots, ScanInv, Serving
  <2>2. FlagInv' /\ CopyInv'
    BY <1>inv DEF FlagInv, CopyInv, TypeOK
  <2>3. BankInv' /\ IdInv' /\ AliveInv'
    BY <1>inv, BankSame
  <2>4. ScanInv'
    BY <1>inv DEF ScanInv, Serving
  <2>5. QED
    BY <2>1, <2>2, <2>3, <2>4 DEF IInv
<1>22. ASSUME DispatcherServe
      PROVE  IInv'
  <2> USE <1>22 DEF DispatcherServe, DispatcherGoes, NextSlot, ipcVars, mainVars
  <2>1. TypeOK'
    BY <1>inv, SlotFacts DEF TypeOK, Slots, ScanInv, Serving
  <2>2. FlagInv' /\ CopyInv'
    BY <1>inv DEF FlagInv, CopyInv, TypeOK
  <2>3. BankInv' /\ IdInv' /\ AliveInv'
    BY <1>inv, BankSame
  <2>4. ScanInv'
    BY <1>inv DEF ScanInv, Serving
  <2>5. QED
    BY <2>1, <2>2, <2>3, <2>4 DEF IInv
<1>23. ASSUME Enter \/ JoinDispatcher \/ JoinIpc
      PROVE  IInv'
  <2> USE <1>23 DEF Enter, JoinDispatcher, JoinIpc, dispatcherVars, ipcVars, mainVars
  <2>1. TypeOK'
    BY <1>inv, SlotFacts DEF TypeOK, Slots
  <2>2. FlagInv' /\ CopyInv'
    BY <1>inv DEF FlagInv, CopyInv, TypeOK
  <2>3. BankInv' /\ IdInv' /\ AliveInv'
    BY <1>inv, BankSame
  <2>4. ScanInv'
    BY <1>inv DEF ScanInv, Serving
  <2>5. QED
    BY <2>1, <2>2, <2>3, <2>4 DEF IInv
<1>24. ASSUME UNCHANGED vars
      PROVE  IInv'
  <2> USE <1>24 DEF vars, ipcVars, dispatcherVars, mainVars
  <2>1. TypeOK' /\ FlagInv' /\ CopyInv'
    BY <1>inv DEF TypeOK, FlagInv, CopyInv
  <2>2. QED
    BY <1>inv, <2>1, BankSame, ScanSame DEF IInv
<1>25. QED
  BY <1>1, <1>2, <1>3, <1>4, <1>5, <1>6, <1>7, <1>8, <1>9, <1>10, <1>11,
     <1>12, <1>13, <1>14, <1>15, <1>16, <1>17, <1>18, <1>19, <1>20, <1>21,
     <1>22, <1>23, <1>24
     DEF Next, ClientStep, Receive, HandlerStep, DispatcherStep, MainStep

LEMMA NextIInv == DeathAllowed = FALSE /\ IInv /\ [Next]_vars => IInv'
<1>1. DeathAllowed = FALSE => LeavesRemoved
  BY DEF LeavesRemoved, ClientLeave
<1>2. QED
  BY <1>1, StepIInv

-------------------------------------------------------------------------------
\* The flag, the two bit sets, the bank and the ids agree in every reachable
\* state, as long as clients unsubscribe before they leave.
THEOREM BankInvariance == DeathAllowed = FALSE => (Spec => []IInv)
<1>1. SUFFICES ASSUME DeathAllowed = FALSE PROVE Spec => []IInv
  OBVIOUS
<1>2. IInv /\ [Next]_vars => IInv'
  BY <1>1, NextIInv
<1>3. QED
  BY InitIInv, <1>2, PTL DEF Spec

\* Every variable keeps its type: the indices of AddClient, RemoveClient and
\* the dispatcher's scan stay inside the bank.
THEOREM BankTypeCorrect == DeathAllowed = FALSE => (Spec => []TypeOK)
<1>1. SUFFICES ASSUME DeathAllowed = FALSE PROVE Spec => []TypeOK
  OBVIOUS
<1>2. IInv => TypeOK
  BY DEF IInv
<1>3. Spec => []IInv
  BY <1>1, BankInvariance
<1>4. QED
  BY <1>2, <1>3, PTL

\* The context the dispatcher works on is complete and subscribed, for any
\* number of slots.
THEOREM ContextsSafe == DeathAllowed = FALSE => (Spec => []NoUseAfterReset)
<1>1. SUFFICES ASSUME DeathAllowed = FALSE PROVE Spec => []NoUseAfterReset
  OBVIOUS
<1>2. ASSUME IInv PROVE NoUseAfterReset
  <2>1. Serving => dSlot \in dBits
    BY <1>2 DEF IInv, ScanInv
  <2>2. \A s \in dBits : bank[s].subscribed /\ bank[s].ready
    BY <1>2 DEF IInv, CopyInv, BankInv, TypeOK
  <2>3. QED
    BY <2>1, <2>2 DEF NoUseAfterReset
<1>3. Spec => []IInv
  BY <1>1, BankInvariance
<1>4. QED
  BY <1>2, <1>3, PTL

\* The bit set is never written while the dispatcher may read it.
THEOREM HandoffSafe == DeathAllowed = FALSE => (Spec => []HandoffExclusive)
<1>1. SUFFICES ASSUME DeathAllowed = FALSE PROVE Spec => []HandoffExclusive
  OBVIOUS
<1>2. IInv => HandoffExclusive
  BY DEF IInv, FlagInv, HandoffExclusive
<1>3. Spec => []IInv
  BY <1>1, BankInvariance
<1>4. QED
  BY <1>2, <1>3, PTL

\* RemoveClient retires the context of the client that unsubscribed.
THEOREM RemovalExact == DeathAllowed = FALSE => (Spec => []RemovesOwnSlot)
<1>1. SUFFICES ASSUME DeathAllowed = FALSE PROVE Spec => []RemovesOwnSlot
  OBVIOUS
<1>2. IInv => RemovesOwnSlot
  BY DEF IInv, IdInv
<1>3. Spec => []IInv
  BY <1>1, BankInvariance
<1>4. QED
  BY <1>2, <1>3, PTL

\* With at most MAX_CLIENTS clients that all unsubscribe, AddClient never uses
\* an uninitialized index.
THEOREM SlotFound == DeathAllowed = FALSE => (Spec => []LimitSuffices)
<1>1. SUFFICES ASSUME DeathAllowed = FALSE PROVE Spec => []LimitSuffices
  OBVIOUS
<1>2. IInv => LimitSuffices
  BY FreeSlot DEF IInv, LimitSuffices
<1>3. Spec => []IInv
  BY <1>1, BankInvariance
<1>4. QED
  BY <1>2, <1>3, PTL

-------------------------------------------------------------------------------
(* The inductive invariant of the system.  The bank's own, IInv, holds     *)
(* until the IPC server is being destroyed; from then on the handler sees  *)
(* old messages, clients leave as they like, and the dispatcher is gone.   *)

Messages ==
  {Subscription(c) : c \in Clients} \cup {GenerateUnsubscribeMessage(c) : c \in Clients}

Responses ==
  {GenerateSubscribeResponseMessage(ServerPid, c, NumSlots, NumSlots) : c \in Clients}

SysTypeOK ==
  /\ cPc \in [Clients -> {"off", "subscribe", "await", "enqueue", "wait", "unsubscribe",
                          "check", "sleep", "closed"}]
  /\ done \in [Clients -> Nat]
  /\ received \in [Clients -> BOOLEAN] /\ event \in [Clients -> BOOLEAN]
  /\ toServer \in [Clients -> Seq(Messages)] /\ toClient \in [Clients -> Seq(Responses)]
  /\ queue \in [Clients -> Seq(Buffers)] /\ transposed \in [Clients -> SUBSET Buffers]
  /\ buffer \in Messages \cup {NoMessage}
  /\ matrixSize \in [Slots -> {Arguments(c) : c \in Clients} \cup {None}]
  /\ dBuffer \in Buffers /\ stats \in [Slots -> Nat] /\ logged \in [Clients -> Int]

ConnectedInv == alive = {c \in Clients : cPc[c] # "off"}

\* main joins the dispatcher before it stops the IPC thread.
StopInv ==
  /\ iPc = "exited" => ~ipcRunning
  /\ ~ipcRunning => dPc = "exited"

Adding == iPc \in {"scan", "construct", "addSpin", "setBit", "addFlag", "respond"}
Removing == iPc \in {"removeSpin", "clearBit", "removeFlag", "removeAck"}

\* The handler is busy with the message in the buffer, and a client whose
\* Unsubscribe is there has no context but the one being removed.
HandlerInv ==
  /\ Adding => iClient \in Clients /\ buffer = Subscription(iClient)
  /\ Removing => iClient \in Clients /\ buffer = GenerateUnsubscribeMessage(iClient)
  /\ buffer.type = "Unsubscribe" =>
       \A s \in Slots :
         bank[s].subscribed /\ bank[s].id = buffer.senderId => Removing /\ s = iSlot

Answered(c) == received[c] \/ toClient[c] # <<>>

NotServed(c) == Subscribed(c) => Removing /\ iClient = c

\* Where a client's main is, what is on its socket and what the server knows of
\* the client go together.
ConversationOf(c) ==
  /\ cPc[c] \in {"off", "subscribe"} => toServer[c] = <<>> /\ ~Answered(c) /\ ~Subscribed(c)
  /\ cPc[c] = "await" =>
       \/ toServer[c] = <<Subscription(c)>> /\ ~Answered(c) /\ ~Subscribed(c)
       \/ toServer[c] = <<>> /\ (Answered(c) => Subscribed(c))
  /\ cPc[c] \in {"enqueue", "wait", "unsubscribe"} => toServer[c] = <<>> /\ Subscribed(c)
  /\ cPc[c] \in {"check", "sleep"} =>
       \/ toServer[c] = <<GenerateUnsubscribeMessage(c)>> /\ Subscribed(c)
       \/ toServer[c] = <<>> /\ NotServed(c)
  /\ cPc[c] = "closed" => toServer[c] = <<>> /\ NotServed(c)

ConversationInv ==
  ipcRunning =>
    /\ \A c \in Clients : ConversationOf(c)
    /\ Adding => /\ cPc[iClient] = "await" /\ toServer[iClient] = <<>> /\ ~Answered(iClient)
                 /\ iPc \notin {"scan", "construct"} => Subscribed(iClient)
    /\ Removing => cPc[iClient] \in {"check", "sleep", "closed"} /\ toServer[iClient] = <<>>

\* Where main is says how far its loop has come.
ProgressOf(c) ==
  /\ cPc[c] \in {"off", "subscribe", "await"} => done[c] = 0
  /\ cPc[c] \in {"enqueue", "wait"} => done[c] < TotalRequests
  /\ cPc[c] \in {"unsubscribe", "check", "sleep"} => done[c] = TotalRequests

\* The request under way is for the buffer the client's loop is at, and the
\* signal follows its transpose.
RequestOf(c) ==
  /\ queue[c] # <<>> => Head(queue[c]) = BufferOf(done[c])
  /\ WithDispatcher(c) => dBuffer = BufferOf(done[c])
  /\ event[c] \/ (WithDispatcher(c) /\ dPc = "wake") => BufferOf(done[c]) \in transposed[c]

RequestInv == \A c \in Clients : ProgressOf(c) /\ RequestOf(c)

Finished(c) == done[c] + (IF event[c] THEN 1 ELSE 0)

Counted(s) == stats[s] + (IF dPc = "stopTimer" /\ dSlot = s THEN 1 ELSE 0)

\* A subscribed context has the size its client sent and the number of its
\* requests, but for the one between Wake and StopTimer.
ContextInv ==
  ipcRunning =>
    /\ \A s \in Slots : bank[s].subscribed =>
         matrixSize[s] = Arguments(bank[s].id) /\ Counted(s) = Finished(bank[s].id)
    /\ iPc = "construct" => stats[iSlot] = 0

\* The four properties of the system, and what makes them inductive.
SysInv ==
  /\ SysTypeOK /\ TypeOK /\ (ipcRunning => IInv)
  /\ ConnectedInv /\ StopInv /\ HandlerInv /\ ConversationInv
  /\ OneRequestPerWait /\ RequestInv /\ ContextInv /\ ResultsComplete /\ LoggedTotals

-------------------------------------------------------------------------------
(* Facts about constants and messages.                                     *)

LEMMA SysFacts ==
  /\ NumBuffers \in Nat /\ NumBuffers >= 1 /\ Repetitions \in Nat /\ TotalRequests \in Nat
  /\ QueueCapacity \in Nat /\ QueueCapacity >= 1
  /\ \A i \in Nat : BufferOf(i) \in Buffers
<1>1. \A x, d \in Nat : d >= 1 => x % d \in 0 .. d - 1
  OBVIOUS
<1>2. \A x, y \in Nat : x * y \in Nat
  OBVIOUS
<1>3. NumBuffers \in Nat /\ NumBuffers >= 1
  BY SystemAssumption
<1>4. QED
  BY <1>1, <1>2, <1>3, SystemAssumption DEF TotalRequests, BufferOf, Buffers

LEMMA MessageFacts ==
  ASSUME NEW c \in Clients
  PROVE  /\ Subscription(c).type = "Subscribe" /\ Subscription(c).senderId = c
         /\ ProcessSubscribeMessage(Subscription(c)) = Arguments(c)
         /\ GenerateUnsubscribeMessage(c).type = "Unsubscribe"
         /\ GenerateUnsubscribeMessage(c).senderId = c
         /\ Subscription(c) \in Messages /\ GenerateUnsubscribeMessage(c) \in Messages
BY DEF Subscription, GenerateSubscribeMessage, ProcessSubscribeMessage, Arguments,
       GenerateUnsubscribeMessage, Messages

LEMMA OneNotEmpty == \A x : <<x>> # <<>>
OBVIOUS

LEMMA NoMessageType == NoMessage.type = "none"
BY DEF NoMessage

\* What the handler can see of a message tells which it is.
LEMMA MessageKind ==
  ASSUME NEW m \in Messages \cup {NoMessage}
  PROVE  /\ m.type = "Subscribe" => m.senderId \in Clients /\ m = Subscription(m.senderId)
         /\ m.type = "Unsubscribe" =>
              m.senderId \in Clients /\ m = GenerateUnsubscribeMessage(m.senderId)
<1>1. CASE m = NoMessage
  BY <1>1, NoMessageType
<1>2. ASSUME NEW c \in Clients, m = Subscription(c) PROVE m.type = "Subscribe" /\ m.senderId = c
  BY <1>2, MessageFacts
<1>3. ASSUME NEW c \in Clients, m = GenerateUnsubscribeMessage(c)
      PROVE  m.type = "Unsubscribe" /\ m.senderId = c
  BY <1>3, MessageFacts
<1>4. QED
  BY <1>1, <1>2, <1>3 DEF Messages

-------------------------------------------------------------------------------
(* The server inside the system is the server of ClientBank.               *)

LEMMA HandleStep ==
  ASSUME alive \subseteq Clients, NEW m, Handle(m)
  PROVE  Receive
BY DEF Handle, Receive, HandleSubscribe, HandleUnsubscribe

LEMMA BankStep ==
  ASSUME alive \subseteq Clients, [SysNext]_sysVars
  PROVE  [Next]_vars
<1>1. ASSUME NEW c \in Clients, Connect(c) PROVE Next
  BY <1>1 DEF Connect, Next, ClientStep
<1>2. ASSUME NEW c \in Clients, MainStepOf(c) \/ ReceiveResponse(c) PROVE UNCHANGED vars
  BY <1>2 DEF MainStepOf, ReceiveResponse, SendSubscribe, AwaitResponse, ClientEnqueue, ClientWait,
              SendUnsubscribe, Sends, SendDies, Check, Exit
<1>3. ASSUME NEW c \in Clients, ReceiveFrom(c) PROVE Next
  BY <1>3, HandleStep DEF ReceiveFrom, Next
<1>4. ASSUME NEW c \in Clients, StaleCall(c) PROVE Next
  BY <1>4, HandleStep DEF StaleCall, Next
<1>5. ASSUME NEW c \in Clients, Hangup(c) PROVE Next
  BY <1>5 DEF Hangup, Next, ClientStep
<1>6. ASSUME SysHandlerStep PROVE Next
  BY <1>6 DEF SysHandlerStep, SysReset, SysConstruct, SysRespond, Next, HandlerStep
<1>7. ASSUME SysDispatcherStep PROVE Next
  BY <1>7 DEF SysDispatcherStep, SysDequeue, SysTranspose, SysWake, SysStopTimer, Next, DispatcherStep
<1>8. ASSUME SysEnter \/ SysMainStep PROVE Next
  BY <1>8 DEF SysEnter, SysMainStep, Next
<1>9. ASSUME UNCHANGED sysVars PROVE UNCHANGED vars
  BY <1>9 DEF sysVars
<1>10. QED
  BY <1>1, <1>2, <1>3, <1>4, <1>5, <1>6, <1>7, <1>8, <1>9 DEF SysNext

AliveTyped == alive \subseteq Clients

LEMMA AliveStep == AliveTyped /\ [Next]_vars => AliveTyped'
<1> SUFFICES ASSUME AliveTyped, [Next]_vars PROVE AliveTyped'
  OBVIOUS
<1>1. ASSUME NEW c \in Clients, ClientStart(c) \/ ClientLeave(c) PROVE AliveTyped'
  BY <1>1 DEF ClientStart, ClientLeave, AliveTyped
<1>2. ASSUME Receive PROVE AliveTyped'
  BY <1>2 DEF Receive, HandleSubscribe, HandleUnsubscribe, AliveTyped
<1>3. ASSUME HandlerStep PROVE AliveTyped'
  BY <1>3 DEF HandlerStep, AddClientReset, AddClientConstruct, AddClientThrow, AddClientSpin,
              AddClientSetBit, AddClientFlag, Respond, RemoveClientSpin, RemoveClientClearBit,
              RemoveClientFlag, RemoveClientAck, IpcExit, AliveTyped
<1>4. ASSUME DispatcherStep PROVE AliveTyped'
  BY <1>4 DEF DispatcherStep, DispatcherTop, DispatcherCopy, DispatcherAck, DispatcherScan,
              DispatcherDequeue, DispatcherServe, AliveTyped
<1>5. ASSUME Enter \/ MainStep PROVE AliveTyped'
  BY <1>5 DEF Enter, MainStep, JoinDispatcher, JoinIpc, AliveTyped
<1>6. ASSUME UNCHANGED vars PROVE AliveTyped'
  BY <1>6 DEF vars, AliveTyped
<1>7. QED
  BY <1>1, <1>2, <1>3, <1>4, <1>5, <1>6 DEF Next, ClientStep

\* The server with its clients on the other end of its sockets and queues is
\* the server of ClientBank, step by step: what messages, requests and clients
\* that module leaves open is all there is.
THEOREM SystemIsBank == SysSpec => Spec
<1>1. SysInit => Init /\ AliveTyped
  BY DEF SysInit, Init, AliveTyped
<1>2. AliveTyped /\ [SysNext]_sysVars => [Next]_vars /\ AliveTyped'
  BY BankStep, AliveStep DEF AliveTyped
<1>3. QED
  BY <1>1, <1>2, PTL DEF SysSpec, Spec

-------------------------------------------------------------------------------
(* The bank's invariant in the system.                                     *)

LEMMA Served ==
  ASSUME IInv, Serving
  PROVE  /\ dSlot \in Slots /\ bank[dSlot].subscribed /\ Owner \in Clients
         /\ iPc = "construct" => iSlot # dSlot
<1>1. dSlot \in dBits /\ dSlot \in Slots
  BY DEF IInv, ScanInv, TypeOK
<1>2. bank[dSlot].subscribed
  BY <1>1 DEF IInv, CopyInv, BankInv
<1>3. Owner \in Clients
  BY <1>1, <1>2 DEF IInv, AliveInv, TypeOK, Owner
<1>4. iPc = "construct" => iSlot # dSlot
  BY <1>1 DEF IInv, CopyInv, BankInv
<1>5. QED
  BY <1>1, <1>2, <1>3, <1>4

LEMMA OneSlot ==
  ASSUME IInv, NEW s \in Slots, NEW t \in Slots,
         bank[s].subscribed, bank[t].subscribed, bank[s].id = bank[t].id
  PROVE  s = t
<1>1. s < t \/ t < s \/ s = t
  BY SlotFacts DEF Slots
<1>2. QED
  BY <1>1 DEF IInv, IdInv

LEMMA OnlyHangupLeaves ==
  ASSUME [SysNext]_sysVars, NEW d, d \in alive, d \notin alive'
  PROVE  d \in Clients /\ Hangup(d)
<1>1. ASSUME NEW c \in Clients, Connect(c) PROVE FALSE
  BY <1>1 DEF Connect, ClientStart
<1>2. ASSUME NEW c \in Clients, MainStepOf(c) \/ ReceiveResponse(c) PROVE FALSE
  <2>1. UNCHANGED vars
    BY <1>2 DEF MainStepOf, ReceiveResponse, SendSubscribe, AwaitResponse, ClientEnqueue, ClientWait,
                SendUnsubscribe, Sends, SendDies, Check, Exit
  <2>2. QED
    BY <2>1 DEF vars
<1>3. ASSUME NEW c \in Clients, ReceiveFrom(c) \/ StaleCall(c) PROVE FALSE
  BY <1>3 DEF ReceiveFrom, StaleCall, Handle, HandleSubscribe, HandleUnsubscribe
<1>4. ASSUME NEW c \in Clients, Hangup(c) PROVE d = c
  BY <1>4 DEF Hangup, ClientLeave
<1>5. ASSUME SysHandlerStep PROVE FALSE
  BY <1>5 DEF SysHandlerStep, SysReset, SysConstruct, SysRespond, AddClientReset,
              AddClientConstruct, AddClientThrow, AddClientSpin,
              AddClientSetBit, AddClientFlag, Respond, RemoveClientSpin, RemoveClientClearBit,
              RemoveClientFlag, RemoveClientAck, IpcExit
<1>6. ASSUME SysDispatcherStep PROVE FALSE
  BY <1>6 DEF SysDispatcherStep, SysDequeue, SysTranspose, SysWake, SysStopTimer,
              DispatcherTop, DispatcherCopy, DispatcherAck, DispatcherScan,
              DispatcherDequeue, DispatcherServe
<1>7. ASSUME SysEnter \/ SysMainStep PROVE FALSE
  BY <1>7 DEF SysEnter, SysMainStep, Enter, MainStep, JoinDispatcher, JoinIpc
<1>8. ASSUME UNCHANGED sysVars PROVE FALSE
  BY <1>8 DEF sysVars, vars
<1>9. QED
  BY <1>1, <1>2, <1>3, <1>4, <1>5, <1>6, <1>7, <1>8 DEF SysNext

\* The server forgets a client before its connection ends.
LEMMA SystemLeavesRemoved ==
  ASSUME SysInv, ipcRunning, [SysNext]_sysVars
  PROVE  LeavesRemoved
<1>1. SUFFICES ASSUME NEW c \in Clients, ClientLeave(c)
               PROVE  ~Subscribed(c) /\ ~Handling(c)
  BY DEF LeavesRemoved
<1>2. Hangup(c)
  BY <1>1, OnlyHangupLeaves DEF ClientLeave
<1>3. iPc = "idle" /\ cPc[c] = "closed"
  BY <1>2 DEF Hangup
<1>4. NotServed(c)
  BY <1>3 DEF SysInv, ConversationInv, ConversationOf
<1>5. QED
  BY <1>3, <1>4 DEF NotServed, Removing, Handling

\* With the dispatcher gone, types are all that is kept of the bank.
LEMMA StoppedTypeOK ==
  ASSUME SysInv, ~ipcRunning, [SysNext]_sysVars
  PROVE  TypeOK'
<1>inv. TypeOK /\ AliveTyped /\ dPc = "exited" /\ HandlerInv
  BY DEF SysInv, StopInv, TypeOK, AliveTyped
<1>alive. alive' \subseteq Clients
  BY <1>inv, BankStep, AliveStep DEF AliveTyped
<1>empty. EmptyContext \in Context
  BY DEF EmptyContext, Context
<1>1. ASSUME NEW c \in Clients, ClientStart(c) \/ ClientLeave(c) PROVE TypeOK'
  BY <1>1, <1>inv, <1>alive DEF ClientStart, ClientLeave, TypeOK, ipcVars, dispatcherVars, mainVars
<1>2. ASSUME NEW c \in Clients, ReceiveFrom(c) \/ StaleCall(c) PROVE TypeOK'
  <2>1. Handle(buffer)
    BY <1>2 DEF ReceiveFrom, StaleCall
  <2>2. CASE HandleSubscribe(buffer.senderId)
    BY <1>inv, <2>2 DEF HandleSubscribe, TypeOK, dispatcherVars, mainVars
  <2>3. CASE buffer.type = "Unsubscribe" /\ HandleUnsubscribe(buffer.senderId)
    <3>1. ~Subscribed(buffer.senderId)
      BY <1>inv, <2>3 DEF HandleUnsubscribe, HandlerInv, Subscribed, Removing
    <3>2. QED
      BY <1>inv, <2>3, <3>1 DEF HandleUnsubscribe, TypeOK, dispatcherVars, mainVars
  <2>4. QED
    BY <2>1, <2>2, <2>3 DEF Handle
<1>3. ASSUME AddClientReset PROVE TypeOK'
  <2>1. iSlot' \in Slots
    BY <1>3 DEF AddClientReset, IndexToAdd
  <2>2. QED
    BY <1>3, <1>inv, <1>empty, <2>1
       DEF AddClientReset, HandlerGoes, TypeOK, dispatcherVars, mainVars
<1>4. ASSUME AddClientConstruct \/ AddClientThrow PROVE TypeOK'
  <2>1. bank' \in [Slots -> Context]
    <3>1. CASE AddClientConstruct
      BY <1>inv, <3>1 DEF AddClientConstruct, TypeOK, Context
    <3>2. CASE AddClientThrow
      BY <1>inv, <3>2 DEF AddClientThrow, TypeOK, Context
    <3>3. QED
      BY <1>4, <3>1, <3>2
  <2>2. QED
    BY <1>4, <1>inv, <2>1
       DEF AddClientConstruct, AddClientThrow, HandlerGoes, TypeOK, dispatcherVars, mainVars
<1>5. ASSUME \/ AddClientSpin \/ AddClientFlag \/ Respond
             \/ RemoveClientSpin \/ RemoveClientFlag \/ IpcExit
      PROVE  TypeOK'
  BY <1>5, <1>inv DEF AddClientSpin, AddClientFlag, Respond, RemoveClientSpin, RemoveClientFlag,
                      IpcExit, HandlerGoes, TypeOK, dispatcherVars, mainVars
<1>6. ASSUME AddClientSetBit \/ RemoveClientClearBit PROVE TypeOK'
  <2>1. bits' \subseteq Slots
    BY <1>6, <1>inv DEF AddClientSetBit, RemoveClientClearBit, setBit, TypeOK
  <2>2. QED
    BY <1>6, <1>inv, <2>1
       DEF AddClientSetBit, RemoveClientClearBit, HandlerGoes, TypeOK, dispatcherVars, mainVars
<1>7. ASSUME RemoveClientAck PROVE TypeOK'
  <2>1. bank' \in [Slots -> Context]
    BY <1>7, <1>inv DEF RemoveClientAck, TypeOK, Context
  <2>2. QED
    BY <1>7, <1>inv, <2>1 DEF RemoveClientAck, HandlerGoes, TypeOK, dispatcherVars, mainVars
<1>8. ASSUME DispatcherStep PROVE FALSE
  BY <1>8, <1>inv DEF DispatcherStep, DispatcherTop, DispatcherCopy, DispatcherAck, DispatcherScan,
                      DispatcherDequeue, DispatcherServe, DispatcherGoes
<1>9. ASSUME Enter \/ MainStep PROVE TypeOK'
  BY <1>9, <1>inv DEF Enter, MainStep, JoinDispatcher, JoinIpc, TypeOK, ipcVars, dispatcherVars
<1>10. ASSUME UNCHANGED vars PROVE TypeOK'
  BY <1>10, <1>inv DEF vars, TypeOK, ipcVars, dispatcherVars, mainVars
<1>11. ASSUME NEW c \in Clients, Connect(c) \/ MainStepOf(c) \/ ReceiveResponse(c) \/ Hangup(c)
       PROVE  TypeOK'
  <2>1. ClientStart(c) \/ ClientLeave(c) \/ UNCHANGED vars
    BY <1>11 DEF Connect, Hangup, MainStepOf, ReceiveResponse, SendSubscribe, AwaitResponse,
                 ClientEnqueue, ClientWait, SendUnsubscribe, Sends, SendDies, Check, Exit
  <2>2. QED
    BY <1>1, <1>10, <2>1
<1>12. ASSUME SysHandlerStep PROVE TypeOK'
  BY <1>12, <1>3, <1>4, <1>5, <1>6, <1>7 DEF SysHandlerStep, SysReset, SysConstruct, SysRespond
<1>13. ASSUME SysDispatcherStep PROVE TypeOK'
  BY <1>13, <1>8 DEF SysDispatcherStep, SysDequeue, SysTranspose, SysWake, SysStopTimer, DispatcherStep
<1>14. QED
  BY <1>2, <1>9, <1>10, <1>11, <1>12, <1>13 DEF SysNext, SysEnter, SysMainStep, sysVars

LEMMA BankInvStep ==
  ASSUME SysInv, [SysNext]_sysVars
  PROVE  TypeOK' /\ (ipcRunning => IInv') /\ (ipcRunning' => ipcRunning)
<1>1. [Next]_vars
  BY BankStep DEF SysInv, TypeOK
<1>2. ipcRunning' => ipcRunning
  BY <1>1 DEF Next, ClientStep, ClientStart, ClientLeave, Receive, HandleSubscribe, HandleUnsubscribe,
              HandlerStep, AddClientReset, AddClientConstruct, AddClientThrow, AddClientSpin,
              AddClientSetBit, AddClientFlag, Respond, RemoveClientSpin, RemoveClientClearBit,
              RemoveClientFlag, RemoveClientAck, IpcExit, DispatcherStep, DispatcherTop,
              DispatcherCopy, DispatcherAck, DispatcherScan, DispatcherDequeue, DispatcherServe,
              Enter, MainStep, JoinDispatcher, JoinIpc, vars, mainVars
<1>3. CASE ipcRunning
  <2>1. IInv'
    BY <1>1, <1>3, SystemLeavesRemoved, StepIInv DEF SysInv
  <2>2. QED
    BY <1>2, <2>1 DEF IInv
<1>4. CASE ~ipcRunning
  BY <1>2, <1>4, StoppedTypeOK
<1>5. QED
  BY <1>3, <1>4

-------------------------------------------------------------------------------
(* Steps of one client.                                                    *)

\* A client in whose conversation nothing changes.
LEMMA ConversationSame ==
  ASSUME NEW d \in Clients, ConversationOf(d), cPc'[d] = cPc[d], toServer'[d] = toServer[d],
         Answered(d)' <=> Answered(d), Subscribed(d)' <=> Subscribed(d),
         NotServed(d) => NotServed(d)'
  PROVE  ConversationOf(d)'
BY Zenon DEF ConversationOf

\* Nothing of d's, nor of the bank, changes.
SameFor(d) ==
  /\ cPc'[d] = cPc[d] /\ done'[d] = done[d] /\ received'[d] = received[d]
  /\ toServer'[d] = toServer[d] /\ toClient'[d] = toClient[d]
  /\ queue'[d] = queue[d] /\ event'[d] = event[d] /\ transposed'[d] = transposed[d]

ResultsOf(c) == cPc[c] # "off" => \A i \in 0 .. done[c] - 1 : BufferOf(i) \in transposed[c]

\* What a step of client c has to keep, when the server stands still.
LEMMA ClientMoves ==
  ASSUME SysInv, NEW c \in Clients, SysTypeOK', TypeOK', ipcRunning => IInv', ConnectedInv',
         LoggedTotals',
         UNCHANGED <<bank, ipcVars, dispatcherVars, mainVars, buffer, matrixSize, dBuffer, stats>>,
         \A d \in Clients : d # c => SameFor(d),
         UnderWay(c)' = IF cPc'[c] = "wait" THEN 1 ELSE 0,
         ProgressOf(c)', RequestOf(c)', ResultsOf(c)',
         ipcRunning /\ Subscribed(c) => Finished(c)' = Finished(c),
         ipcRunning => ConversationOf(c)',
         ipcRunning /\ Adding /\ iClient = c =>
           cPc'[c] = "await" /\ toServer'[c] = <<>> /\ ~Answered(c)',
         ipcRunning /\ Removing /\ iClient = c =>
           cPc'[c] \in {"check", "sleep", "closed"} /\ toServer'[c] = <<>>
  PROVE  SysInv'
<1>inv. /\ StopInv /\ HandlerInv /\ ConversationInv /\ OneRequestPerWait /\ RequestInv
        /\ ContextInv /\ ResultsComplete /\ TypeOK
  BY DEF SysInv
<1>bank. UNCHANGED <<bank, iPc, iClient, iSlot, dPc, dBits, dSlot, running, ipcRunning, mPc>>
  BY DEF ipcVars, dispatcherVars, mainVars
<1>same. /\ \A d : (Subscribed(d)' <=> Subscribed(d)) /\ (NotServed(d)' <=> NotServed(d))
         /\ \A d : WithDispatcher(d)' <=> WithDispatcher(d)
         /\ (Adding' <=> Adding) /\ (Removing' <=> Removing)
  BY <1>bank DEF Subscribed, NotServed, Removing, Adding, WithDispatcher, Owner
<1>1. StopInv'
  BY <1>inv, <1>bank DEF StopInv
<1>2. HandlerInv'
  BY <1>inv, <1>bank, <1>same DEF HandlerInv
<1>3. ConversationInv'
  <2>1. SUFFICES ASSUME ipcRunning
                 PROVE  /\ \A d \in Clients : ConversationOf(d)'
                        /\ Adding => /\ cPc'[iClient] = "await" /\ toServer'[iClient] = <<>>
                                     /\ ~Answered(iClient)'
                                     /\ iPc \notin {"scan", "construct"} => Subscribed(iClient)
                        /\ Removing => /\ cPc'[iClient] \in {"check", "sleep", "closed"}
                                       /\ toServer'[iClient] = <<>>
    BY <1>bank, <1>same DEF ConversationInv, Answered
  <2>2. ASSUME NEW d \in Clients, d # c
        PROVE  ConversationOf(d)' /\ cPc'[d] = cPc[d] /\ toServer'[d] = toServer[d]
               /\ (Answered(d)' <=> Answered(d))
    <3>1. SameFor(d) /\ ConversationOf(d)
      BY <1>inv, <2>1, <2>2 DEF ConversationInv
    <3>2. Answered(d)' <=> Answered(d)
      BY <3>1 DEF SameFor, Answered
    <3>3. QED
      BY <1>same, <3>1, <3>2, ConversationSame DEF SameFor
  <2>3. Adding => iClient \in Clients
    BY <1>inv DEF HandlerInv
  <2>4. Removing => iClient \in Clients
    BY <1>inv DEF HandlerInv
  <2>5. /\ Adding => /\ cPc[iClient] = "await" /\ toServer[iClient] = <<>> /\ ~Answered(iClient)
                     /\ iPc \notin {"scan", "construct"} => Subscribed(iClient)
        /\ Removing => cPc[iClient] \in {"check", "sleep", "closed"} /\ toServer[iClient] = <<>>
    BY <1>inv, <2>1 DEF ConversationInv
  <2>6. CASE iClient = c
    BY <1>bank, <2>1, <2>2, <2>5, <2>6 DEF Answered
  <2>7. CASE iClient # c
    BY <1>bank, <2>1, <2>2, <2>3, <2>4, <2>5, <2>7 DEF Answered
  <2>8. QED
    BY <2>6, <2>7
<1>4. OneRequestPerWait'
  <2>1. ASSUME NEW d \in Clients, d # c
        PROVE  UnderWay(d)' = IF cPc'[d] = "wait" THEN 1 ELSE 0
    BY <1>inv, <1>same, <2>1 DEF OneRequestPerWait, UnderWay, SameFor
  <2>2. QED
    BY <2>1 DEF OneRequestPerWait
<1>5. RequestInv'
  <2>1. ASSUME NEW d \in Clients, d # c PROVE ProgressOf(d)' /\ RequestOf(d)'
    <3>1. SameFor(d) /\ ProgressOf(d) /\ RequestOf(d)
      BY <1>inv, <2>1 DEF RequestInv
    <3>2. ProgressOf(d)'
      BY <3>1 DEF SameFor, ProgressOf
    <3>3. RequestOf(d)'
      BY <1>bank, <1>same, <3>1 DEF SameFor, RequestOf
    <3>4. QED
      BY <3>2, <3>3
  <2>2. QED
    BY <2>1 DEF RequestInv
<1>6. ContextInv'
  <2>1. ASSUME ipcRunning, NEW s \in Slots, bank[s].subscribed
        PROVE  Finished(bank[s].id)' = Finished(bank[s].id)
    <3>1. bank[s].id \in Clients
      BY <1>inv, <2>1 DEF AliveInv, TypeOK, IInv, SysInv
    <3>2. CASE bank[s].id = c
      <4>1. Subscribed(c)
        BY <2>1, <3>2 DEF Subscribed
      <4>2. QED
        BY <1>bank, <2>1, <3>2, <4>1 DEF Finished
    <3>3. CASE bank[s].id # c
      BY <1>bank, <3>1, <3>3 DEF SameFor, Finished
    <3>4. QED
      BY <3>2, <3>3
  <2>2. \A s : Counted(s)' = Counted(s)
    BY <1>bank DEF Counted
  <2>3. QED
    BY <1>inv, <1>bank, <2>1, <2>2 DEF ContextInv
<1>7. ResultsComplete'
  <2>1. ASSUME NEW d \in Clients, d # c PROVE ResultsOf(d)'
    BY <1>inv, <2>1 DEF ResultsComplete, ResultsOf, SameFor
  <2>2. QED
    BY <2>1 DEF ResultsComplete, ResultsOf
<1>8. QED
  BY <1>bank, <1>1, <1>2, <1>3, <1>4, <1>5, <1>6, <1>7 DEF SysInv

\* What the invariant says of one client.
LEMMA ClientFacts ==
  ASSUME SysInv, NEW c \in Clients
  PROVE  /\ cPc[c] \in {"off", "subscribe", "await", "enqueue", "wait", "unsubscribe",
                        "check", "sleep", "closed"}
         /\ done[c] \in Nat /\ toServer[c] \in Seq(Messages) /\ queue[c] \in Seq(Buffers)
         /\ transposed[c] \subseteq Buffers
         /\ ProgressOf(c) /\ RequestOf(c) /\ ResultsOf(c)
         /\ ipcRunning => ConversationOf(c)
         /\ cPc[c] # "wait" => queue[c] = <<>> /\ ~WithDispatcher(c) /\ ~event[c]
         /\ event[c] \/ WithDispatcher(c) => queue[c] = <<>>
         /\ ~(event[c] /\ WithDispatcher(c))
         /\ queue[c] # <<>> => Len(queue[c]) = 1 /\ ~event[c] /\ ~WithDispatcher(c)
<1>1. /\ cPc[c] \in {"off", "subscribe", "await", "enqueue", "wait", "unsubscribe",
                     "check", "sleep", "closed"}
      /\ done[c] \in Nat /\ toServer[c] \in Seq(Messages) /\ queue[c] \in Seq(Buffers)
      /\ transposed[c] \subseteq Buffers
  BY DEF SysInv, SysTypeOK
<1>2. /\ ProgressOf(c) /\ RequestOf(c) /\ ResultsOf(c)
      /\ ipcRunning => ConversationOf(c)
  BY DEF SysInv, RequestInv, ResultsComplete, ResultsOf, ConversationInv
<1>3. UnderWay(c) = IF cPc[c] = "wait" THEN 1 ELSE 0
  BY DEF SysInv, OneRequestPerWait
<1> DEFINE q == Len(queue[c])
           w == IF WithDispatcher(c) THEN 1 ELSE 0
           e == IF event[c] THEN 1 ELSE 0
<1>4. /\ q \in Nat /\ w \in {0, 1} /\ e \in {0, 1}
      /\ q + w + e \in {0, 1}
      /\ cPc[c] # "wait" => q + w + e = 0
  <2>1. q \in Nat
    BY <1>1
  <2>2. w \in {0, 1} /\ e \in {0, 1}
    OBVIOUS
  <2>3. q + w + e = IF cPc[c] = "wait" THEN 1 ELSE 0
    BY <1>3, Zenon DEF UnderWay
  <2> HIDE DEF q, w, e
  <2>4. QED
    BY <2>1, <2>2, <2>3
<1>5. /\ WithDispatcher(c) <=> w = 1
      /\ event[c] <=> e = 1
      /\ queue[c] = <<>> <=> q = 0
  BY <1>1, EmptySeq
<1> HIDE DEF q, w, e
<1>6. /\ cPc[c] # "wait" => q = 0 /\ w = 0 /\ e = 0
      /\ w = 1 => q = 0 /\ e = 0
      /\ e = 1 => q = 0 /\ w = 0
      /\ q # 0 => q = 1 /\ w = 0 /\ e = 0
  BY <1>4
<1>7. QED
  BY <1>1, <1>2, <1>5, <1>6 DEF q

LEMMA ConnectInv ==
  ASSUME SysInv, NEW c \in Clients, Connect(c), TypeOK', ipcRunning => IInv'
  PROVE  SysInv'
<1>facts. /\ ProgressOf(c) /\ RequestOf(c) /\ ResultsOf(c) /\ (ipcRunning => ConversationOf(c))
          /\ UnderWay(c) = 0 /\ done[c] = 0
  BY ClientFacts DEF SysInv, OneRequestPerWait, Connect, ProgressOf
<1>same. /\ UNCHANGED <<done, received, toServer, toClient, queue, event, transposed,
                        buffer, matrixSize, dBuffer, stats, logged>>
         /\ UNCHANGED <<bank, ipcVars, dispatcherVars, mainVars>>
         /\ alive' = alive \cup {c} /\ cPc[c] = "off"
  BY DEF Connect, ClientStart, sockets, shared, serverData
<1>to. PICK pc \in {"subscribe", "closed"} : cPc' = [cPc EXCEPT ![c] = pc]
  BY DEF Connect
<1>bank. /\ UNCHANGED <<iPc, iClient, iSlot, dPc, dSlot, ipcRunning>>
         /\ (Subscribed(c)' <=> Subscribed(c)) /\ (WithDispatcher(c)' <=> WithDispatcher(c))
         /\ (Answered(c)' <=> Answered(c))
  BY <1>same DEF ipcVars, dispatcherVars, mainVars, Subscribed, WithDispatcher, Owner, Answered
<1>cpc. cPc'[c] \in {"subscribe", "closed"} /\ \A d \in Clients : d # c => cPc'[d] = cPc[d]
  BY <1>to DEF SysInv, SysTypeOK
<1>1. SysTypeOK'
  BY <1>same, <1>to DEF SysInv, SysTypeOK
<1>2. ConnectedInv'
  BY <1>same, <1>cpc DEF SysInv, ConnectedInv
<1>3. LoggedTotals'
  BY <1>same DEF SysInv, LoggedTotals
<1>4. \A d \in Clients : d # c => SameFor(d)
  BY <1>same, <1>cpc DEF SameFor
<1>5. UnderWay(c)' = 0
  BY <1>facts, <1>same, <1>bank DEF UnderWay
<1>6. ProgressOf(c)' /\ RequestOf(c)' /\ ResultsOf(c)'
  BY <1>facts, <1>same, <1>bank, <1>cpc DEF ProgressOf, RequestOf, ResultsOf
<1>7. Finished(c)' = Finished(c)
  BY <1>same DEF Finished
<1>8. ipcRunning => ConversationOf(c)'
  <2>1. ipcRunning => toServer[c] = <<>> /\ ~Answered(c) /\ ~Subscribed(c)
    BY <1>facts, <1>same DEF ConversationOf
  <2>2. ipcRunning => toServer'[c] = <<>> /\ ~Answered(c)' /\ ~Subscribed(c)'
    BY <1>same, <1>bank, <2>1
  <2>3. QED
    BY <1>cpc, <2>2 DEF ConversationOf, NotServed
<1>9. ipcRunning /\ iClient = c => ~Adding /\ ~Removing
  BY <1>same DEF SysInv, ConversationInv
<1>10. QED
  BY <1>same, <1>cpc, <1>1, <1>2, <1>3, <1>4, <1>5, <1>6, <1>7, <1>8, <1>9, ClientMoves

\* A step of main that only goes on to its next place.
LEMMA MainGoesOn ==
  ASSUME SysInv, NEW c \in Clients, TypeOK', ipcRunning => IInv',
         NEW pc \in {"enqueue", "unsubscribe", "check", "sleep", "closed"},
         cPc[c] \notin {"off", "wait"}, cPc' = [cPc EXCEPT ![c] = pc],
         UNCHANGED <<vars, done, sockets, shared, serverData>>,
         ProgressOf(c)', ipcRunning => ConversationOf(c)',
         ipcRunning /\ Adding => iClient # c,
         ipcRunning /\ Removing /\ iClient = c =>
           pc \in {"check", "sleep", "closed"} /\ toServer[c] = <<>>
  PROVE  SysInv'
<1>facts. /\ RequestOf(c) /\ ResultsOf(c) /\ UnderWay(c) = 0
  BY ClientFacts DEF SysInv, OneRequestPerWait
<1>same. /\ UNCHANGED <<done, received, toServer, toClient, queue, event, transposed,
                        buffer, matrixSize, dBuffer, stats, logged>>
         /\ UNCHANGED <<alive, bank, ipcVars, dispatcherVars, mainVars>>
  BY DEF vars, sockets, shared, serverData
<1>bank. /\ UNCHANGED <<iPc, iClient, iSlot, dPc, dSlot, ipcRunning>>
         /\ (WithDispatcher(c)' <=> WithDispatcher(c))
  BY <1>same DEF ipcVars, dispatcherVars, mainVars, WithDispatcher, Owner
<1>cpc. cPc'[c] = pc /\ \A d \in Clients : d # c => cPc'[d] = cPc[d]
  BY DEF SysInv, SysTypeOK
<1>1. SysTypeOK'
  BY <1>same DEF SysInv, SysTypeOK
<1>2. ConnectedInv'
  BY <1>same, <1>cpc DEF SysInv, ConnectedInv
<1>3. LoggedTotals'
  BY <1>same DEF SysInv, LoggedTotals
<1>4. \A d \in Clients : d # c => SameFor(d)
  BY <1>same, <1>cpc DEF SameFor
<1>5. UnderWay(c)' = 0
  BY <1>facts, <1>same, <1>bank DEF UnderWay
<1>6. RequestOf(c)' /\ ResultsOf(c)'
  BY <1>facts, <1>same, <1>bank, <1>cpc DEF RequestOf, ResultsOf
<1>7. Finished(c)' = Finished(c)
  BY <1>same DEF Finished
<1>8. pc # "wait"
  OBVIOUS
<1>9. QED
  BY <1>same, <1>cpc, <1>1, <1>2, <1>3, <1>4, <1>5, <1>6, <1>7, <1>8, ClientMoves

\* All results are there when the client compares them.
LEMMA ChecksPass ==
  ASSUME SysInv, Repetitions # 0, NEW c \in Clients, cPc[c] = "check"
  PROVE  transposed[c] = Buffers
<1>1. done[c] = TotalRequests /\ ResultsOf(c) /\ transposed[c] \subseteq Buffers
  BY ClientFacts DEF ProgressOf
<1>2. TotalRequests >= NumBuffers
  <2>1. \A x, y \in Nat : x # 0 => x * y >= y
    OBVIOUS
  <2>2. QED
    BY <2>1, SysFacts DEF TotalRequests
<1>3. \A x, d \in Nat : x < d => x % d = x
  OBVIOUS
<1>4. ASSUME NEW b \in Buffers PROVE b \in transposed[c]
  <2>1. b \in Nat /\ b < NumBuffers /\ b \in 0 .. done[c] - 1
    BY <1>1, <1>2, SysFacts DEF Buffers
  <2>2. BufferOf(b) = b
    BY <1>3, <2>1, SysFacts DEF BufferOf
  <2>3. QED
    BY <1>1, <2>1, <2>2 DEF ResultsOf
<1>5. QED
  BY <1>1, <1>4

LEMMA MainStepsInv ==
  ASSUME SysInv, PromptServer = TRUE, Repetitions # 0, NEW c \in Clients, TypeOK', ipcRunning => IInv',
         SendDies(c) \/ AwaitResponse(c) \/ Check(c) \/ Exit(c)
  PROVE  SysInv'
<1>facts. /\ ProgressOf(c) /\ (ipcRunning => ConversationOf(c)) /\ done[c] \in Nat
          /\ TotalRequests \in Nat
          /\ cPc \in [Clients -> {"off", "subscribe", "await", "enqueue", "wait", "unsubscribe",
                                  "check", "sleep", "closed"}]
  BY ClientFacts, SysFacts DEF SysInv, SysTypeOK
<1>handler. ipcRunning =>
              /\ Adding => cPc[iClient] = "await" /\ ~Answered(iClient)
              /\ Removing => cPc[iClient] \in {"check", "sleep", "closed"} /\ toServer[iClient] = <<>>
  BY DEF SysInv, ConversationInv
<1>same. UNCHANGED <<vars, done, sockets, shared, serverData>>
  BY DEF SendDies, AwaitResponse, Check, Exit
<1>bank. /\ UNCHANGED <<done, toServer, toClient, received, iPc, iClient>>
         /\ (Subscribed(c)' <=> Subscribed(c)) /\ (NotServed(c)' <=> NotServed(c))
         /\ (Answered(c)' <=> Answered(c))
  BY <1>same DEF vars, ipcVars, sockets, Subscribed, NotServed, Removing, Answered
<1>1. CASE SendDies(c)
  <2>1. /\ cPc[c] \in {"subscribe", "unsubscribe"} /\ cPc' = [cPc EXCEPT ![c] = "closed"]
        /\ ~ipcRunning
    BY <1>1 DEF SendDies, SysInv, StopInv
  <2>2. ProgressOf(c)'
    BY <1>facts, <2>1 DEF ProgressOf
  <2>3. QED
    BY <1>same, <2>1, <2>2, MainGoesOn
<1>2. CASE AwaitResponse(c)
  <2> DEFINE pc == LoopHead(done[c])
  <2>1. /\ cPc[c] = "await" /\ cPc' = [cPc EXCEPT ![c] = pc] /\ received[c] /\ Answered(c)
    BY <1>2 DEF AwaitResponse, Answered
  <2>2. pc \in {"enqueue", "unsubscribe"} /\ cPc'[c] = pc
    BY <1>facts, <2>1 DEF LoopHead
  <2>3. ProgressOf(c)'
    BY <1>facts, <1>bank, <2>1, <2>2 DEF ProgressOf, LoopHead
  <2>4. ipcRunning => toServer[c] = <<>> /\ Subscribed(c)
    BY <1>facts, <2>1 DEF ConversationOf
  <2>5. ipcRunning => ConversationOf(c)'
    BY <1>bank, <2>2, <2>4 DEF ConversationOf
  <2>6. ipcRunning /\ iClient = c => ~Adding /\ ~Removing
    BY <1>handler, <2>1
  <2> HIDE DEF pc
  <2>7. QED
    BY <1>same, <2>1, <2>2, <2>3, <2>5, <2>6, MainGoesOn
<1>3. CASE Check(c)
  <2> DEFINE pc == IF transposed[c] = Buffers THEN "sleep" ELSE "closed"
  <2>1. cPc[c] = "check" /\ cPc' = [cPc EXCEPT ![c] = pc] /\ pc \in {"sleep", "closed"}
    BY <1>3 DEF Check
  <2>2. pc = "sleep" /\ cPc'[c] = "sleep"
    BY <1>facts, <2>1, ChecksPass
  <2>3. ProgressOf(c)'
    BY <1>facts, <1>bank, <2>1, <2>2 DEF ProgressOf
  <2>4. ipcRunning => ConversationOf(c)'
    BY <1>facts, <1>bank, <2>1, <2>2 DEF ConversationOf
  <2>5. ipcRunning /\ iClient = c => ~Adding /\ (Removing => toServer[c] = <<>>)
    BY <1>handler, <2>1
  <2> HIDE DEF pc
  <2>6. QED
    BY <1>same, <2>1, <2>2, <2>3, <2>4, <2>5, MainGoesOn
<1>4. CASE Exit(c)
  <2>1. /\ cPc[c] = "sleep" /\ cPc' = [cPc EXCEPT ![c] = "closed"] /\ cPc'[c] = "closed"
        /\ toServer[c] = <<>> \/ ~ipcRunning
    BY <1>4, <1>facts DEF Exit
  <2>2. ProgressOf(c)'
    BY <2>1 DEF ProgressOf
  <2>3. ipcRunning => NotServed(c)
    BY <1>facts, <2>1, OneNotEmpty DEF ConversationOf
  <2>4. ipcRunning => ConversationOf(c)'
    BY <1>bank, <2>1, <2>3 DEF ConversationOf
  <2>5. ipcRunning /\ iClient = c => ~Adding
    BY <1>handler, <2>1
  <2>6. QED
    BY <1>same, <2>1, <2>2, <2>4, <2>5, MainGoesOn
<1>5. QED
  BY <1>1, <1>2, <1>3, <1>4

LEMMA SendsInv ==
  ASSUME SysInv, NEW c \in Clients, TypeOK', ipcRunning => IInv',
         SendSubscribe(c) \/ SendUnsubscribe(c)
  PROVE  SysInv'
<1> DEFINE m == IF cPc[c] = "subscribe" THEN Subscription(c) ELSE GenerateUnsubscribeMessage(c)
           pc == IF cPc[c] = "subscribe" THEN "await" ELSE "check"
<1>facts. /\ ProgressOf(c) /\ RequestOf(c) /\ ResultsOf(c) /\ (ipcRunning => ConversationOf(c))
          /\ toServer[c] \in Seq(Messages) /\ SysTypeOK
  BY ClientFacts DEF SysInv
<1>same. /\ UNCHANGED <<done, received, toClient, queue, event, transposed,
                        buffer, matrixSize, dBuffer, stats, logged>>
         /\ UNCHANGED <<alive, bank, ipcVars, dispatcherVars, mainVars>>
         /\ cPc[c] \in {"subscribe", "unsubscribe"}
  BY DEF SendSubscribe, SendUnsubscribe, Sends, vars, shared, serverData
<1>step. cPc' = [cPc EXCEPT ![c] = pc] /\ toServer' = [toServer EXCEPT ![c] = Append(@, m)]
  BY DEF SendSubscribe, SendUnsubscribe, Sends
<1>idle. UnderWay(c) = 0
  BY <1>same DEF SysInv, OneRequestPerWait
<1>bank. /\ UNCHANGED <<iPc, iClient, iSlot, dPc, dSlot, ipcRunning>>
         /\ (Subscribed(c)' <=> Subscribed(c)) /\ (WithDispatcher(c)' <=> WithDispatcher(c))
         /\ (Answered(c)' <=> Answered(c))
  BY <1>same DEF ipcVars, dispatcherVars, mainVars, Subscribed, WithDispatcher, Owner, Answered
<1>m. m \in Messages
  BY MessageFacts
<1> HIDE DEF m
<1>cpc. /\ cPc'[c] = pc /\ toServer'[c] = Append(toServer[c], m)
        /\ \A d \in Clients : d # c => cPc'[d] = cPc[d] /\ toServer'[d] = toServer[d]
  BY <1>facts, <1>step DEF SysTypeOK
<1>1. SysTypeOK'
  <2>1. Append(toServer[c], m) \in Seq(Messages)
    BY <1>facts, <1>m
  <2>2. toServer' \in [Clients -> Seq(Messages)]
    BY <1>facts, <1>step, <2>1 DEF SysTypeOK
  <2>3. cPc' \in [Clients -> {"off", "subscribe", "await", "enqueue", "wait", "unsubscribe",
                              "check", "sleep", "closed"}]
    BY <1>facts, <1>step DEF SysTypeOK
  <2>4. QED
    BY <1>facts, <1>same, <2>2, <2>3 DEF SysTypeOK
<1>2. ConnectedInv'
  BY <1>same, <1>cpc DEF SysInv, ConnectedInv
<1>3. LoggedTotals'
  BY <1>same DEF SysInv, LoggedTotals
<1>4. \A d \in Clients : d # c => SameFor(d)
  BY <1>same, <1>cpc DEF SameFor
<1>5. UnderWay(c)' = 0 /\ cPc'[c] # "wait"
  BY <1>idle, <1>same, <1>bank, <1>cpc DEF UnderWay
<1>6. ProgressOf(c)' /\ RequestOf(c)' /\ ResultsOf(c)'
  BY <1>facts, <1>same, <1>bank, <1>cpc DEF ProgressOf, RequestOf, ResultsOf
<1>7. Finished(c)' = Finished(c)
  BY <1>same DEF Finished
<1>8. ipcRunning => ConversationOf(c)'
  <2>1. SUFFICES ASSUME ipcRunning PROVE ConversationOf(c)'
    OBVIOUS
  <2>2. toServer[c] = <<>>
    BY <1>facts, <1>same, <2>1 DEF ConversationOf
  <2>3. toServer'[c] = <<m>>
    BY <1>cpc, <2>2
  <2>4. CASE cPc[c] = "subscribe"
    <3>1. m = Subscription(c) /\ cPc'[c] = "await" /\ ~Answered(c)' /\ ~Subscribed(c)'
      BY <1>facts, <1>bank, <1>cpc, <2>1, <2>4 DEF m, ConversationOf
    <3>2. QED
      BY <2>3, <3>1 DEF ConversationOf
  <2>5. CASE cPc[c] = "unsubscribe"
    <3>1. m = GenerateUnsubscribeMessage(c) /\ cPc'[c] = "check" /\ Subscribed(c)'
      BY <1>facts, <1>bank, <1>cpc, <2>1, <2>5 DEF m, ConversationOf
    <3>2. QED
      BY <2>3, <3>1 DEF ConversationOf
  <2>6. QED
    BY <1>same, <2>4, <2>5
<1>9. ipcRunning /\ iClient = c => ~Adding /\ ~Removing
  BY <1>same DEF SysInv, ConversationInv
<1>10. QED
  BY <1>same, <1>1, <1>2, <1>3, <1>4, <1>5, <1>6, <1>7, <1>8, <1>9, ClientMoves

LEMMA ReceiveResponseInv ==
  ASSUME SysInv, NEW c \in Clients, TypeOK', ipcRunning => IInv', ReceiveResponse(c)
  PROVE  SysInv'
<1>facts. /\ ProgressOf(c) /\ RequestOf(c) /\ ResultsOf(c) /\ (ipcRunning => ConversationOf(c))
          /\ UnderWay(c) = (IF cPc[c] = "wait" THEN 1 ELSE 0) /\ SysTypeOK
  BY ClientFacts DEF SysInv, OneRequestPerWait
<1>same. /\ UNCHANGED <<cPc, done, toServer, queue, event, transposed,
                        buffer, matrixSize, dBuffer, stats, logged>>
         /\ UNCHANGED <<alive, bank, ipcVars, dispatcherVars, mainVars>>
         /\ toClient[c] # <<>> /\ toClient' = [toClient EXCEPT ![c] = Tail(@)]
         /\ received' = [received EXCEPT ![c] = TRUE]
  BY DEF ReceiveResponse, vars, mainOfClients, shared, serverData
<1>bank. /\ UNCHANGED <<iPc, iClient, iSlot, dPc, dSlot, ipcRunning>>
         /\ (Subscribed(c)' <=> Subscribed(c)) /\ (WithDispatcher(c)' <=> WithDispatcher(c))
         /\ (NotServed(c)' <=> NotServed(c))
  BY <1>same DEF ipcVars, dispatcherVars, mainVars, Subscribed, WithDispatcher, Owner, NotServed, Removing
<1>answered. /\ Answered(c) /\ Answered(c)'
             /\ \A d \in Clients : d # c => toClient'[d] = toClient[d] /\ received'[d] = received[d]
  BY <1>facts, <1>same DEF Answered, SysTypeOK
<1>1. SysTypeOK'
  <2>1. toClient[c] \in Seq(Responses)
    BY <1>facts DEF SysTypeOK
  <2>2. Tail(toClient[c]) \in Seq(Responses)
    BY <1>same, <2>1
  <2>3. toClient' \in [Clients -> Seq(Responses)]
    BY <1>facts, <1>same, <2>2 DEF SysTypeOK
  <2>4. received' \in [Clients -> BOOLEAN]
    BY <1>facts, <1>same DEF SysTypeOK
  <2>5. QED
    BY <1>facts, <1>same, <2>3, <2>4 DEF SysTypeOK
<1>2. ConnectedInv' /\ LoggedTotals'
  BY <1>same DEF SysInv, ConnectedInv, LoggedTotals
<1>3. \A d \in Clients : d # c => SameFor(d)
  BY <1>same, <1>answered DEF SameFor
<1>4. UnderWay(c)' = IF cPc'[c] = "wait" THEN 1 ELSE 0
  BY <1>facts, <1>same, <1>bank DEF UnderWay
<1>5. ProgressOf(c)' /\ RequestOf(c)' /\ ResultsOf(c)'
  BY <1>facts, <1>same, <1>bank DEF ProgressOf, RequestOf, ResultsOf
<1>6. Finished(c)' = Finished(c)
  BY <1>same DEF Finished
<1>7. ipcRunning => ConversationOf(c)'
  BY <1>facts, <1>same, <1>bank, <1>answered DEF ConversationOf
<1>8. /\ ipcRunning /\ Adding => iClient # c
      /\ ipcRunning /\ Removing => /\ cPc[iClient] \in {"check", "sleep", "closed"}
                                   /\ toServer[iClient] = <<>>
  BY <1>answered DEF SysInv, ConversationInv
<1>9. QED
  BY <1>same, <1>1, <1>2, <1>3, <1>4, <1>5, <1>6, <1>7, <1>8, ClientMoves

\* Enqueue finds room: the queue of a client that is not in Wait is empty.
LEMMA EnqueueInv ==
  ASSUME SysInv, NEW c \in Clients, TypeOK', ipcRunning => IInv', ClientEnqueue(c)
  PROVE  SysInv'
<1>facts. /\ ProgressOf(c) /\ RequestOf(c) /\ ResultsOf(c) /\ (ipcRunning => ConversationOf(c))
          /\ queue[c] = <<>> /\ ~WithDispatcher(c) /\ ~event[c] /\ done[c] \in Nat /\ SysTypeOK
  BY ClientFacts DEF SysInv, ClientEnqueue
<1>same. /\ UNCHANGED <<done, received, toServer, toClient, event, transposed,
                        buffer, matrixSize, dBuffer, stats, logged>>
         /\ UNCHANGED <<alive, bank, ipcVars, dispatcherVars, mainVars>>
         /\ cPc[c] = "enqueue" /\ cPc' = [cPc EXCEPT ![c] = "wait"]
  BY DEF ClientEnqueue, vars, sockets, serverData
<1>queue. queue' = [queue EXCEPT ![c] = <<BufferOf(done[c])>>]
  <2>1. Len(queue[c]) < QueueCapacity
    BY <1>facts, SysFacts
  <2>2. Append(queue[c], BufferOf(done[c])) = <<BufferOf(done[c])>>
    BY <1>facts
  <2>3. QED
    BY <2>1, <2>2 DEF ClientEnqueue
<1>bank. /\ UNCHANGED <<iPc, iClient, iSlot, dPc, dSlot, ipcRunning>>
         /\ (Subscribed(c)' <=> Subscribed(c)) /\ (WithDispatcher(c)' <=> WithDispatcher(c))
  BY <1>same DEF ipcVars, dispatcherVars, mainVars, Subscribed, WithDispatcher, Owner
<1>cpc. /\ cPc'[c] = "wait" /\ queue'[c] = <<BufferOf(done[c])>>
        /\ \A d \in Clients : d # c => cPc'[d] = cPc[d] /\ queue'[d] = queue[d]
  BY <1>facts, <1>same, <1>queue DEF SysTypeOK
<1>1. SysTypeOK'
  <2>1. BufferOf(done[c]) \in Buffers
    BY <1>facts, SysFacts
  <2>2. <<BufferOf(done[c])>> \in Seq(Buffers)
    BY <2>1
  <2>3. queue' \in [Clients -> Seq(Buffers)]
    BY <1>facts, <1>queue, <2>2 DEF SysTypeOK
  <2>4. cPc' \in [Clients -> {"off", "subscribe", "await", "enqueue", "wait", "unsubscribe",
                              "check", "sleep", "closed"}]
    BY <1>facts, <1>same DEF SysTypeOK
  <2>5. QED
    BY <1>facts, <1>same, <2>3, <2>4 DEF SysTypeOK
<1>2. ConnectedInv'
  BY <1>same, <1>cpc DEF SysInv, ConnectedInv
<1>3. LoggedTotals'
  BY <1>same DEF SysInv, LoggedTotals
<1>4. \A d \in Clients : d # c => SameFor(d)
  BY <1>same, <1>cpc DEF SameFor
<1>5. UnderWay(c)' = 1
  <2>1. ~WithDispatcher(c)' /\ ~event'[c] /\ Len(queue'[c]) = 1
    BY <1>facts, <1>same, <1>bank, <1>cpc
  <2>2. QED
    BY <2>1 DEF UnderWay
<1>6. ProgressOf(c)' /\ ResultsOf(c)'
  BY <1>facts, <1>same, <1>cpc DEF ProgressOf, ResultsOf
<1>7. RequestOf(c)'
  <2>1. Head(queue'[c]) = BufferOf(done[c]) /\ ~WithDispatcher(c)' /\ ~event'[c]
    BY <1>facts, <1>same, <1>bank, <1>cpc
  <2>2. QED
    BY <1>same, <2>1 DEF RequestOf
<1>8. Finished(c)' = Finished(c)
  BY <1>same DEF Finished
<1>9. ipcRunning => ConversationOf(c)'
  BY <1>facts, <1>same, <1>bank, <1>cpc DEF ConversationOf
<1>10. ipcRunning /\ iClient = c => ~Adding /\ ~Removing
  BY <1>same DEF SysInv, ConversationInv
<1>11. QED
  BY <1>same, <1>cpc, <1>1, <1>2, <1>3, <1>4, <1>5, <1>6, <1>7, <1>8, <1>9, <1>10, ClientMoves

LEMMA WaitInv ==
  ASSUME SysInv, NEW c \in Clients, TypeOK', ipcRunning => IInv', ClientWait(c)
  PROVE  SysInv'
<1>facts. /\ ProgressOf(c) /\ RequestOf(c) /\ ResultsOf(c) /\ (ipcRunning => ConversationOf(c))
          /\ queue[c] = <<>> /\ ~WithDispatcher(c) /\ done[c] \in Nat /\ SysTypeOK
          /\ TotalRequests \in Nat
  BY ClientFacts, SysFacts DEF SysInv, ClientWait
<1>same. /\ UNCHANGED <<queue, received, toServer, toClient, transposed,
                        buffer, matrixSize, dBuffer, stats, logged>>
         /\ UNCHANGED <<alive, bank, ipcVars, dispatcherVars, mainVars>>
         /\ cPc[c] = "wait" /\ event[c]
         /\ event' = [event EXCEPT ![c] = FALSE] /\ done' = [done EXCEPT ![c] = @ + 1]
  BY DEF ClientWait, EventAfterWait, vars, sockets, serverData
<1> DEFINE pc == LoopHead(done[c] + 1)
<1>bank. /\ UNCHANGED <<iPc, iClient, iSlot, dPc, dSlot, ipcRunning>>
         /\ (Subscribed(c)' <=> Subscribed(c)) /\ (WithDispatcher(c)' <=> WithDispatcher(c))
  BY <1>same DEF ipcVars, dispatcherVars, mainVars, Subscribed, WithDispatcher, Owner
<1>done. done'[c] = done[c] + 1 /\ event'[c] = FALSE
  BY <1>facts, <1>same DEF SysTypeOK
<1>cpc. /\ cPc'[c] = pc /\ cPc' = [cPc EXCEPT ![c] = pc] /\ pc \in {"enqueue", "unsubscribe"}
        /\ \A d \in Clients : d # c =>
             cPc'[d] = cPc[d] /\ event'[d] = event[d] /\ done'[d] = done[d]
  <2>1. cPc' = [cPc EXCEPT ![c] = pc]
    BY <1>done DEF ClientWait
  <2>2. pc \in {"enqueue", "unsubscribe"}
    BY DEF LoopHead
  <2> HIDE DEF pc
  <2>3. QED
    BY <1>facts, <1>same, <2>1, <2>2 DEF SysTypeOK
<1>progress. done[c] < TotalRequests
  BY <1>facts, <1>same DEF ProgressOf
<1>1. SysTypeOK'
  <2> HIDE DEF pc
  <2>1. cPc' \in [Clients -> {"off", "subscribe", "await", "enqueue", "wait", "unsubscribe",
                              "check", "sleep", "closed"}]
    BY <1>facts, <1>cpc DEF SysTypeOK
  <2>2. done' \in [Clients -> Nat] /\ event' \in [Clients -> BOOLEAN]
    BY <1>facts, <1>same DEF SysTypeOK
  <2>3. QED
    BY <1>facts, <1>same, <2>1, <2>2 DEF SysTypeOK
<1>2. ProgressOf(c)'
  <2>1. CASE done[c] + 1 < TotalRequests
    BY <1>done, <1>cpc, <2>1 DEF ProgressOf, LoopHead
  <2>2. CASE ~(done[c] + 1 < TotalRequests)
    <3>1. done[c] + 1 = TotalRequests /\ pc = "unsubscribe"
      BY <1>facts, <1>progress, <2>2 DEF LoopHead
    <3>2. QED
      BY <1>done, <1>cpc, <3>1 DEF ProgressOf
  <2>3. QED
    BY <2>1, <2>2
<1> HIDE DEF pc
<1>3. ConnectedInv'
  BY <1>same, <1>cpc DEF SysInv, ConnectedInv
<1>4. LoggedTotals'
  BY <1>same DEF SysInv, LoggedTotals
<1>5. \A d \in Clients : d # c => SameFor(d)
  BY <1>same, <1>cpc DEF SameFor
<1>6. UnderWay(c)' = 0 /\ cPc'[c] # "wait"
  <2>1. ~WithDispatcher(c)' /\ ~event'[c] /\ Len(queue'[c]) = 0
    BY <1>facts, <1>same, <1>bank, <1>done
  <2>2. QED
    BY <1>cpc, <2>1 DEF UnderWay
<1>7. RequestOf(c)'
  BY <1>facts, <1>same, <1>bank, <1>done DEF RequestOf
\* The signal says that the buffer of the request has been transposed.
<1>8. ResultsOf(c)'
  <2>1. BufferOf(done[c]) \in transposed[c]
    BY <1>facts, <1>same DEF RequestOf
  <2>2. \A i \in 0 .. done[c] - 1 : BufferOf(i) \in transposed[c]
    BY <1>facts, <1>same DEF ResultsOf
  <2>3. \A i \in 0 .. (done[c] + 1) - 1 : i \in 0 .. done[c] - 1 \/ i = done[c]
    BY <1>facts
  <2>4. QED
    BY <1>same, <1>done, <2>1, <2>2, <2>3 DEF ResultsOf
<1>9. Finished(c)' = Finished(c)
  BY <1>facts, <1>same, <1>done DEF Finished
<1>10. ipcRunning => ConversationOf(c)'
  BY <1>facts, <1>same, <1>bank, <1>cpc DEF ConversationOf
<1>11. ipcRunning /\ iClient = c => ~Adding /\ ~Removing
  BY <1>same DEF SysInv, ConversationInv
<1>12. QED
  BY <1>same, <1>cpc, <1>1, <1>2, <1>3, <1>4, <1>5, <1>6, <1>7, <1>8, <1>9, <1>10, <1>11, ClientMoves

\* The end of a connection: the client has no request under way and, while the
\* IPC thread runs, no context.
LEMMA HangupInv ==
  ASSUME SysInv, NEW c \in Clients, TypeOK', ipcRunning => IInv', Hangup(c)
  PROVE  SysInv'
<1>facts. /\ (ipcRunning => ConversationOf(c)) /\ ~WithDispatcher(c) /\ SysTypeOK
  BY ClientFacts DEF SysInv, Hangup
<1>same. /\ UNCHANGED <<buffer, matrixSize, dBuffer, stats>>
         /\ UNCHANGED <<bank, ipcVars, dispatcherVars, mainVars>>
         /\ alive' = alive \ {c} /\ iPc = "idle" /\ cPc[c] = "closed"
  BY DEF Hangup, ClientLeave
<1>step. /\ cPc' = [cPc EXCEPT ![c] = "off"]
         /\ done' = [done EXCEPT ![c] = 0] /\ received' = [received EXCEPT ![c] = FALSE]
         /\ toServer' = [toServer EXCEPT ![c] = <<>>] /\ toClient' = [toClient EXCEPT ![c] = <<>>]
         /\ queue' = [queue EXCEPT ![c] = <<>>] /\ event' = [event EXCEPT ![c] = FALSE]
         /\ transposed' = [transposed EXCEPT ![c] = {}]
         /\ logged' = [logged EXCEPT ![c] = -1]
  BY DEF Hangup
<1>at. /\ cPc'[c] = "off" /\ done'[c] = 0 /\ received'[c] = FALSE /\ toServer'[c] = <<>>
       /\ toClient'[c] = <<>> /\ queue'[c] = <<>> /\ event'[c] = FALSE
       /\ \A d \in Clients : d # c => cPc'[d] = cPc[d] /\ SameFor(d)
  BY <1>facts, <1>step DEF SysTypeOK, SameFor
<1>bank. /\ UNCHANGED <<iPc, iClient, iSlot, dPc, dSlot, ipcRunning>>
         /\ (Subscribed(c)' <=> Subscribed(c)) /\ ~WithDispatcher(c)'
  BY <1>facts, <1>same DEF ipcVars, dispatcherVars, mainVars, Subscribed, WithDispatcher, Owner
<1>1. SysTypeOK'
  <2>1. cPc' \in [Clients -> {"off", "subscribe", "await", "enqueue", "wait", "unsubscribe",
                              "check", "sleep", "closed"}]
    BY <1>facts, <1>step DEF SysTypeOK
  <2>2. done' \in [Clients -> Nat] /\ logged' \in [Clients -> Int]
    BY <1>facts, <1>step DEF SysTypeOK
  <2>3. received' \in [Clients -> BOOLEAN] /\ event' \in [Clients -> BOOLEAN]
    BY <1>facts, <1>step DEF SysTypeOK
  <2>4. /\ toServer' \in [Clients -> Seq(Messages)] /\ toClient' \in [Clients -> Seq(Responses)]
        /\ queue' \in [Clients -> Seq(Buffers)]
    BY <1>facts, <1>step DEF SysTypeOK
  <2>5. transposed' \in [Clients -> SUBSET Buffers]
    BY <1>facts, <1>step DEF SysTypeOK
  <2>6. QED
    BY <1>facts, <1>same, <2>1, <2>2, <2>3, <2>4, <2>5 DEF SysTypeOK
<1>2. ConnectedInv'
  BY <1>same, <1>at DEF SysInv, ConnectedInv
<1>3. LoggedTotals'
  BY <1>facts, <1>step DEF SysInv, LoggedTotals, SysTypeOK
<1>4. UnderWay(c)' = 0
  <2>1. Len(queue'[c]) = 0
    BY <1>at
  <2>2. QED
    BY <1>at, <1>bank, <2>1 DEF UnderWay
<1>5. ProgressOf(c)' /\ RequestOf(c)' /\ ResultsOf(c)'
  BY <1>at, <1>bank DEF ProgressOf, RequestOf, ResultsOf
<1>6. ipcRunning => ~Subscribed(c)
  BY <1>facts, <1>same DEF ConversationOf, NotServed, Removing
<1>7. ipcRunning => ConversationOf(c)'
  <2>1. ~Answered(c)'
    BY <1>at DEF Answered
  <2>2. QED
    BY <1>at, <1>bank, <1>6, <2>1 DEF ConversationOf
<1>8. ~Adding /\ ~Removing
  BY <1>same DEF Adding, Removing
<1>9. QED
  BY <1>same, <1>at, <1>1, <1>2, <1>3, <1>4, <1>5, <1>6, <1>7, <1>8, ClientMoves

-------------------------------------------------------------------------------
(* Steps of the IPC thread.                                                *)

\* The clients and the dispatcher stand still, and the client that is being
\* served stays the owner of its slot.
LEMMA HandlerMoves ==
  ASSUME SysInv, SysTypeOK', TypeOK', ipcRunning => IInv',
         UNCHANGED <<alive, dispatcherVars, mainVars, cPc, done, queue, event, transposed, dBuffer>>,
         Serving => Owner' = Owner,
         StopInv', HandlerInv', ConversationInv', ContextInv', LoggedTotals'
  PROVE  SysInv'
<1>inv. ConnectedInv /\ OneRequestPerWait /\ RequestInv /\ ResultsComplete
  BY DEF SysInv
<1>same. /\ UNCHANGED <<dPc, dSlot, ipcRunning>>
         /\ \A d : WithDispatcher(d)' <=> WithDispatcher(d)
  BY DEF dispatcherVars, mainVars, WithDispatcher, Serving
<1>1. ConnectedInv'
  BY <1>inv DEF ConnectedInv
<1>2. OneRequestPerWait'
  BY <1>inv, <1>same DEF OneRequestPerWait, UnderWay
<1>3. RequestInv'
  <2>1. ASSUME NEW d \in Clients PROVE ProgressOf(d)' /\ RequestOf(d)'
    <3>1. ProgressOf(d)'
      BY <1>inv DEF RequestInv, ProgressOf
    <3>2. RequestOf(d)'
      BY <1>inv, <1>same DEF RequestInv, RequestOf
    <3>3. QED
      BY <3>1, <3>2
  <2>2. QED
    BY <2>1 DEF RequestInv
<1>4. ResultsComplete'
  BY <1>inv DEF ResultsComplete
<1>5. QED
  BY <1>same, <1>1, <1>2, <1>3, <1>4 DEF SysInv

\* The steps that touch only the bit set, the flag and the handler's control.
LEMMA QuietHandlerInv ==
  ASSUME SysInv, TypeOK', ipcRunning => IInv',
         \/ AddClientSpin \/ AddClientSetBit \/ AddClientFlag
         \/ RemoveClientSpin \/ RemoveClientClearBit \/ RemoveClientFlag \/ IpcExit,
         UNCHANGED <<mainOfClients, sockets, shared, serverData>>
  PROVE  SysInv'
<1>inv. /\ SysTypeOK /\ StopInv /\ HandlerInv /\ ConversationInv /\ ContextInv /\ LoggedTotals
  BY DEF SysInv
<1>same. /\ UNCHANGED <<cPc, done, received, toServer, toClient, queue, event, transposed,
                        buffer, matrixSize, dBuffer, stats, logged>>
         /\ UNCHANGED <<alive, bank, iClient, iSlot, dispatcherVars, mainVars>>
  BY DEF mainOfClients, sockets, shared, serverData, AddClientSpin, AddClientSetBit, AddClientFlag,
         RemoveClientSpin, RemoveClientClearBit, RemoveClientFlag, IpcExit
<1>ipc. UNCHANGED <<dPc, dSlot, ipcRunning>>
  BY <1>same DEF dispatcherVars, mainVars
<1>at. /\ (Adding' <=> Adding) /\ (Removing' <=> Removing)
       /\ iPc \notin {"scan", "construct"} /\ iPc' \notin {"scan", "construct"}
       /\ iPc' = "exited" => ~ipcRunning
  BY DEF Adding, Removing, AddClientSpin, AddClientSetBit, AddClientFlag,
         RemoveClientSpin, RemoveClientClearBit, RemoveClientFlag, IpcExit, HandlerGoes
<1>1. SysTypeOK' /\ LoggedTotals'
  BY <1>inv, <1>same DEF SysTypeOK, LoggedTotals
<1>2. StopInv'
  BY <1>inv, <1>ipc, <1>at DEF StopInv
<1>3. HandlerInv'
  BY <1>inv, <1>same, <1>at DEF HandlerInv
<1>4. ConversationInv'
  <2>1. ASSUME NEW d \in Clients, ConversationOf(d) PROVE ConversationOf(d)'
    <3>1. /\ Answered(d)' <=> Answered(d)
          /\ Subscribed(d)' <=> Subscribed(d)
          /\ NotServed(d)' <=> NotServed(d)
      BY <1>same, <1>at DEF Answered, Subscribed, NotServed
    <3>2. QED
      BY <1>same, <2>1, <3>1, ConversationSame
  <2>2. (Answered(iClient)' <=> Answered(iClient)) /\ (Subscribed(iClient)' <=> Subscribed(iClient))
    BY <1>same DEF Answered, Subscribed
  <2>3. QED
    BY <1>inv, <1>same, <1>ipc, <1>at, <2>1, <2>2 DEF ConversationInv
<1>5. ContextInv'
  BY <1>inv, <1>same, <1>ipc, <1>at DEF ContextInv, Counted, Finished
<1>6. Serving => Owner' = Owner
  BY <1>same, <1>ipc DEF Owner
<1>7. QED
  BY <1>same, <1>1, <1>2, <1>3, <1>4, <1>5, <1>6, HandlerMoves

\* The answer goes to a client that is subscribed.
LEMMA RespondInv ==
  ASSUME SysInv, TypeOK', ipcRunning => IInv', SysRespond
  PROVE  SysInv'
<1>inv. /\ SysTypeOK /\ StopInv /\ HandlerInv /\ ConversationInv /\ ContextInv /\ LoggedTotals
  BY DEF SysInv
<1>same. /\ UNCHANGED <<cPc, done, received, toServer, queue, event, transposed,
                        buffer, matrixSize, dBuffer, stats, logged>>
         /\ UNCHANGED <<alive, bank, iClient, iSlot, dispatcherVars, mainVars>>
         /\ iPc = "respond" /\ iPc' = "idle"
  BY DEF SysRespond, Respond, HandlerGoes, mainOfClients, sockets, shared, serverData
<1>ipc. UNCHANGED <<dPc, dSlot, ipcRunning>>
  BY <1>same DEF dispatcherVars, mainVars
<1>at. Adding /\ ~Removing /\ ~Adding' /\ ~Removing' /\ iClient \in Clients
  BY <1>inv, <1>same DEF Adding, Removing, HandlerInv
<1> DEFINE m == GenerateSubscribeResponseMessage(ServerPid, iClient, NumSlots, NumSlots)
<1>m. m \in Responses
  BY <1>at DEF Responses
<1>send. toClient' = IF ipcRunning THEN [toClient EXCEPT ![iClient] = Append(@, m)] ELSE toClient
  BY DEF SysRespond
<1> HIDE DEF m
<1>1. SysTypeOK'
  <2>1. toClient' \in [Clients -> Seq(Responses)]
    <3>1. toClient[iClient] \in Seq(Responses)
      BY <1>inv, <1>at DEF SysTypeOK
    <3>2. Append(toClient[iClient], m) \in Seq(Responses)
      BY <1>m, <3>1
    <3>3. QED
      BY <1>inv, <1>send, <3>2 DEF SysTypeOK
  <2>2. QED
    BY <1>inv, <1>same, <2>1 DEF SysTypeOK
<1>2. LoggedTotals' /\ StopInv'
  BY <1>inv, <1>same, <1>ipc DEF StopInv, LoggedTotals
<1>3. HandlerInv'
  BY <1>inv, <1>same, <1>at DEF HandlerInv
<1>4. ConversationInv'
  <2>1. SUFFICES ASSUME ipcRunning PROVE \A d \in Clients : ConversationOf(d)'
    BY <1>ipc, <1>at DEF ConversationInv
  <2>2. ASSUME NEW d \in Clients PROVE ConversationOf(d)'
    <3>1. /\ Subscribed(d)' <=> Subscribed(d)
          /\ NotServed(d) => NotServed(d)'
          /\ ConversationOf(d)
      BY <1>inv, <1>same, <1>at, <2>1 DEF Subscribed, NotServed, ConversationInv
    <3>2. CASE d # iClient
      <4>1. toClient'[d] = toClient[d]
        BY <1>inv, <1>at, <1>send, <2>1, <3>2 DEF SysTypeOK
      <4>2. Answered(d)' <=> Answered(d)
        BY <1>same, <4>1 DEF Answered
      <4>3. QED
        BY <1>same, <3>1, <4>2, ConversationSame
    <3>3. CASE d = iClient
      <4>1. cPc[d] = "await" /\ toServer[d] = <<>> /\ Subscribed(d)
        BY <1>inv, <1>same, <1>at, <2>1, <3>3 DEF ConversationInv
      <4>2. QED
        BY <1>same, <3>1, <4>1 DEF ConversationOf
    <3>4. QED
      BY <3>2, <3>3
  <2>3. QED
    BY <2>2
<1>5. ContextInv'
  BY <1>inv, <1>same, <1>ipc DEF ContextInv, Counted, Finished
<1>6. Serving => Owner' = Owner
  BY <1>same, <1>ipc DEF Owner
<1>7. QED
  BY <1>same, <1>1, <1>2, <1>3, <1>4, <1>5, <1>6, HandlerMoves

\* The slot that is reset belongs to nobody.
LEMMA ResetInv ==
  ASSUME SysInv, TypeOK', ipcRunning => IInv', SysReset
  PROVE  SysInv'
<1>inv. /\ SysTypeOK /\ TypeOK /\ StopInv /\ HandlerInv /\ ConversationInv /\ ContextInv
        /\ LoggedTotals /\ (ipcRunning => IInv)
  BY DEF SysInv
<1>same. /\ UNCHANGED <<cPc, done, received, toServer, toClient, queue, event, transposed,
                        buffer, dBuffer, logged>>
         /\ UNCHANGED <<alive, iClient, dispatcherVars, mainVars>>
         /\ iPc = "scan" /\ iPc' = "construct" /\ iSlot' \in IndexToAdd
         /\ bank' = [bank EXCEPT ![iSlot'] = EmptyContext]
         /\ stats' = [stats EXCEPT ![iSlot'] = 0]
         /\ matrixSize' = [matrixSize EXCEPT ![iSlot'] = None]
  BY DEF SysReset, AddClientReset, HandlerGoes, mainOfClients, sockets, shared
<1>ipc. UNCHANGED <<dPc, dSlot, ipcRunning>>
  BY <1>same DEF dispatcherVars, mainVars
<1>at. /\ Adding /\ ~Removing /\ Adding' /\ ~Removing' /\ iClient \in Clients
       /\ buffer = Subscription(iClient) /\ buffer.type = "Subscribe"
  BY <1>inv, <1>same, MessageFacts DEF Adding, Removing, HandlerInv
<1>slot. iSlot' \in Slots /\ (ipcRunning => ~bank[iSlot'].subscribed)
  <2>1. iSlot' \in Slots
    BY <1>same DEF IndexToAdd
  <2>2. ASSUME ipcRunning PROVE iSlot' \notin bits
    <3>1. bits # Slots /\ bits \subseteq Slots
      BY <1>inv, <1>same, <2>2, FreeSlot DEF IInv, TypeOK
    <3>2. {s \in Slots : ~getBit(bits, s)} # {}
      BY <3>1 DEF getBit
    <3>3. QED
      BY <1>same, <3>2 DEF IndexToAdd, getBit
  <2>3. QED
    BY <1>inv, <1>same, <2>1, <2>2 DEF IInv, BankInv
<1>bank. /\ \A s \in Slots : s # iSlot' => bank'[s] = bank[s]
         /\ ~bank'[iSlot'].subscribed
         /\ stats'[iSlot'] = 0
         /\ \A s \in Slots : s # iSlot' => stats'[s] = stats[s] /\ matrixSize'[s] = matrixSize[s]
  BY <1>inv, <1>same, <1>slot DEF TypeOK, SysTypeOK, EmptyContext
<1>1. SysTypeOK' /\ LoggedTotals'
  <2>1. stats' \in [Slots -> Nat]
    BY <1>inv, <1>same DEF SysTypeOK
  <2>2. matrixSize' \in [Slots -> {Arguments(c) : c \in Clients} \cup {None}]
    BY <1>inv, <1>same DEF SysTypeOK
  <2>3. QED
    BY <1>inv, <1>same, <2>1, <2>2 DEF SysTypeOK, LoggedTotals
<1>2. StopInv'
  BY <1>inv, <1>same, <1>ipc DEF StopInv
<1>3. HandlerInv'
  BY <1>same, <1>at DEF HandlerInv
<1>4. ConversationInv'
  <2>1. SUFFICES ASSUME ipcRunning PROVE ConversationInv'
    BY <1>ipc DEF ConversationInv
  <2>2. ASSUME NEW d \in Clients
        PROVE  (Subscribed(d)' <=> Subscribed(d)) /\ (Answered(d)' <=> Answered(d))
    BY <1>same, <1>slot, <1>bank, <2>1 DEF Subscribed, Answered
  <2>3. ASSUME NEW d \in Clients PROVE ConversationOf(d)'
    <3>1. ConversationOf(d) /\ (NotServed(d) => NotServed(d)')
      BY <1>inv, <1>at, <2>1, <2>2 DEF ConversationInv, NotServed
    <3>2. QED
      BY <1>same, <2>2, <3>1, ConversationSame
  <2>4. cPc[iClient] = "await" /\ toServer[iClient] = <<>> /\ ~Answered(iClient)
    BY <1>inv, <1>at, <2>1 DEF ConversationInv
  <2>5. ~Answered(iClient)'
    BY <1>same, <2>4 DEF Answered
  <2>6. QED
    BY <1>same, <1>at, <2>3, <2>4, <2>5 DEF ConversationInv
<1>5. ContextInv'
  <2>1. SUFFICES ASSUME ipcRunning PROVE ContextInv'
    BY <1>ipc DEF ContextInv
  <2>2. ASSUME NEW s \in Slots, bank'[s].subscribed
        PROVE  matrixSize'[s] = Arguments(bank'[s].id) /\ Counted(s)' = Finished(bank[s].id)'
    <3>1. s # iSlot' /\ bank'[s] = bank[s] /\ bank[s].subscribed
      BY <1>bank, <2>2
    <3>2. Counted(s)' = Counted(s)
      BY <1>ipc, <1>bank, <3>1 DEF Counted
    <3>3. Finished(bank[s].id)' = Finished(bank[s].id)
      BY <1>same, <3>1 DEF Finished
    <3>4. QED
      BY <1>inv, <1>bank, <2>1, <3>1, <3>2, <3>3 DEF ContextInv
  <2>3. QED
    BY <1>bank, <2>2 DEF ContextInv
<1>6. Serving => Owner' = Owner
  <2>1. SUFFICES ASSUME Serving PROVE bank'[dSlot] = bank[dSlot]
    BY <1>ipc DEF Owner
  <2>2. ipcRunning
    BY <1>inv, <2>1 DEF StopInv, Serving
  <2>3. QED
    BY <1>inv, <1>slot, <1>bank, <2>1, <2>2, Served
<1>7. QED
  BY <1>same, <1>1, <1>2, <1>3, <1>4, <1>5, <1>6, HandlerMoves

\* The context gets the size that the client sent and counts from zero, as the
\* client does; a constructor that throws leaves only the id.
LEMMA ConstructInv ==
  ASSUME SysInv, TypeOK', ipcRunning => IInv', SysConstruct
  PROVE  SysInv'
<1>inv. /\ SysTypeOK /\ TypeOK /\ StopInv /\ HandlerInv /\ ConversationInv /\ ContextInv
        /\ LoggedTotals /\ (ipcRunning => IInv)
  BY DEF SysInv
<1>same. /\ UNCHANGED <<cPc, done, received, toServer, toClient, queue, event, transposed,
                        buffer, dBuffer, stats, logged>>
         /\ UNCHANGED <<alive, iClient, iSlot, dispatcherVars, mainVars>>
         /\ iPc = "construct" /\ iPc' \in {"addSpin", "idle"}
         /\ matrixSize' = [matrixSize EXCEPT ![iSlot] = ProcessSubscribeMessage(buffer)]
  BY DEF SysConstruct, AddClientConstruct, AddClientThrow, HandlerGoes, mainOfClients, sockets, shared
<1>ipc. UNCHANGED <<dPc, dSlot, ipcRunning>>
  BY <1>same DEF dispatcherVars, mainVars
<1>at. /\ Adding /\ ~Removing /\ ~Removing' /\ iClient \in Clients
       /\ buffer = Subscription(iClient) /\ buffer.type = "Subscribe"
       /\ ProcessSubscribeMessage(buffer) = Arguments(iClient)
  BY <1>inv, <1>same, MessageFacts DEF Adding, Removing, HandlerInv
<1>slot. iSlot \in Slots /\ (ipcRunning => ~bank[iSlot].subscribed)
  BY <1>inv, <1>same DEF TypeOK, IInv, BankInv
\* The two ends of the step.
<1>bank. /\ \A s \in Slots : s # iSlot => bank'[s] = bank[s]
         /\ \A s \in Slots : s # iSlot => matrixSize'[s] = matrixSize[s]
         /\ matrixSize'[iSlot] = Arguments(iClient)
         /\ bank'[iSlot].id = iClient
         /\ iPc' = "addSpin" => bank'[iSlot].subscribed
         /\ iPc' = "idle" => bank'[iSlot].subscribed = bank[iSlot].subscribed
  <2>1. CASE AddClientConstruct
    BY <1>inv, <1>same, <1>at, <1>slot, <2>1 DEF AddClientConstruct, HandlerGoes, TypeOK, SysTypeOK
  <2>2. CASE AddClientThrow
    <3>1. bank' = [bank EXCEPT ![iSlot].id = iClient] /\ iPc' = "idle"
      BY <2>2 DEF AddClientThrow, HandlerGoes
    <3>2. bank[iSlot] \in Context
      BY <1>inv, <1>slot DEF TypeOK
    <3>3. bank'[iSlot].id = iClient /\ bank'[iSlot].subscribed = bank[iSlot].subscribed
      BY <1>inv, <1>slot, <3>1, <3>2 DEF TypeOK, Context
    <3>4. \A s \in Slots : s # iSlot => bank'[s] = bank[s]
      BY <1>inv, <3>1 DEF TypeOK
    <3>5. QED
      BY <1>inv, <1>same, <1>at, <1>slot, <3>1, <3>3, <3>4 DEF SysTypeOK
  <2>3. QED
    BY <2>1, <2>2 DEF SysConstruct
<1>1. SysTypeOK' /\ LoggedTotals'
  <2>1. matrixSize' \in [Slots -> {Arguments(c) : c \in Clients} \cup {None}]
    BY <1>inv, <1>same, <1>at DEF SysTypeOK
  <2>2. QED
    BY <1>inv, <1>same, <2>1 DEF SysTypeOK, LoggedTotals
<1>2. StopInv'
  BY <1>inv, <1>same, <1>ipc DEF StopInv
<1>3. HandlerInv'
  BY <1>same, <1>at DEF HandlerInv
<1>4. ConversationInv'
  <2>1. SUFFICES ASSUME ipcRunning PROVE ConversationInv'
    BY <1>ipc DEF ConversationInv
  <2>2. cPc[iClient] = "await" /\ toServer[iClient] = <<>> /\ ~Answered(iClient)
    BY <1>inv, <1>at, <2>1 DEF ConversationInv
  <2>3. ~Answered(iClient)'
    BY <1>same, <2>2 DEF Answered
  <2>4. ConversationOf(iClient)'
    <3>1. cPc'[iClient'] = "await" /\ toServer'[iClient'] = <<>> /\ iClient' = iClient
      BY <1>same, <2>2
    <3>2. QED
      BY <2>3, <3>1 DEF ConversationOf, Answered
  <2>5. ASSUME NEW d \in Clients, d # iClient PROVE ConversationOf(d)'
    <3>1. /\ Subscribed(d)' <=> Subscribed(d)
          /\ Answered(d)' <=> Answered(d)
      BY <1>same, <1>slot, <1>bank, <2>1, <2>5 DEF Subscribed, Answered
    <3>2. ConversationOf(d) /\ (NotServed(d) => NotServed(d)')
      BY <1>inv, <1>at, <2>1, <3>1 DEF ConversationInv, NotServed
    <3>3. QED
      BY <1>same, <3>1, <3>2, ConversationSame
  <2>6. ASSUME NEW d \in Clients PROVE ConversationOf(d)'
    BY <1>same, <2>4, <2>5
  <2>7. Adding' => Subscribed(iClient)'
    <3>1. ASSUME Adding' PROVE bank'[iSlot].subscribed
      BY <1>same, <1>bank, <3>1 DEF Adding
    <3>2. QED
      BY <1>same, <1>slot, <1>bank, <3>1 DEF Subscribed
  <2>8. QED
    BY <1>same, <1>at, <2>2, <2>3, <2>6, <2>7 DEF ConversationInv
<1>5. ContextInv'
  <2>1. SUFFICES ASSUME ipcRunning PROVE ContextInv'
    BY <1>ipc DEF ContextInv
  <2>2. ASSUME NEW s \in Slots, bank'[s].subscribed
        PROVE  matrixSize'[s] = Arguments(bank'[s].id) /\ Counted(s)' = Finished(bank[s].id)'
    <3>1. Counted(s)' = Counted(s)
      BY <1>ipc, <1>same DEF Counted
    <3>2. CASE s # iSlot
      <4>1. Finished(bank[s].id)' = Finished(bank[s].id)
        BY <1>same, <1>bank, <3>2 DEF Finished
      <4>2. QED
        BY <1>inv, <1>bank, <2>1, <2>2, <3>1, <3>2, <4>1 DEF ContextInv
    <3>3. CASE s = iSlot
      <4>1. cPc[iClient] = "await"
        BY <1>inv, <1>at, <2>1 DEF ConversationInv
      <4>2. done[iClient] = 0 /\ ~event[iClient]
        BY <1>at, <4>1, ClientFacts DEF ProgressOf
      <4>3. Finished(iClient)' = 0
        BY <1>same, <4>2 DEF Finished
      <4>4. dPc = "stopTimer" => dSlot # iSlot
        BY <1>inv, <1>same, <2>1, Served DEF Serving
      <4>5. Counted(s) = 0
        BY <1>inv, <1>same, <2>1, <3>3, <4>4 DEF ContextInv, Counted
      <4>6. QED
        BY <1>same, <1>bank, <3>1, <3>3, <4>3, <4>5
    <3>4. QED
      BY <3>2, <3>3
  <2>3. QED
    BY <1>same, <2>2 DEF ContextInv
<1>6. Serving => Owner' = Owner
  <2>1. SUFFICES ASSUME Serving PROVE bank'[dSlot] = bank[dSlot]
    BY <1>ipc DEF Owner
  <2>2. ipcRunning
    BY <1>inv, <2>1 DEF StopInv, Serving
  <2>3. QED
    BY <1>inv, <1>same, <1>bank, <2>1, <2>2, Served
<1>7. QED
  BY <1>same, <1>1, <1>2, <1>3, <1>4, <1>5, <1>6, HandlerMoves

\* The context that is retired was the client's only one.
LEMMA AckInv ==
  ASSUME SysInv, TypeOK', ipcRunning => IInv', RemoveClientAck,
         UNCHANGED <<mainOfClients, sockets, shared, serverData>>
  PROVE  SysInv'
<1>inv. /\ SysTypeOK /\ TypeOK /\ StopInv /\ HandlerInv /\ ConversationInv /\ ContextInv
        /\ LoggedTotals /\ (ipcRunning => IInv)
  BY DEF SysInv
<1>same. /\ UNCHANGED <<cPc, done, received, toServer, toClient, queue, event, transposed,
                        buffer, matrixSize, dBuffer, stats, logged>>
         /\ UNCHANGED <<alive, iClient, iSlot, dispatcherVars, mainVars>>
         /\ iPc = "removeAck" /\ iPc' = "idle"
         /\ bank' = [bank EXCEPT ![iSlot].subscribed = FALSE]
  BY DEF RemoveClientAck, HandlerGoes, mainOfClients, sockets, shared, serverData
<1>ipc. UNCHANGED <<dPc, dSlot, ipcRunning>>
  BY <1>same DEF dispatcherVars, mainVars
<1>at. /\ ~Adding /\ Removing /\ ~Adding' /\ ~Removing' /\ iClient \in Clients /\ iSlot \in Slots
       /\ buffer = GenerateUnsubscribeMessage(iClient)
       /\ buffer.type = "Unsubscribe" /\ buffer.senderId = iClient
  BY <1>inv, <1>same, MessageFacts DEF Adding, Removing, HandlerInv, TypeOK
<1>bank. /\ \A s \in Slots : s # iSlot => bank'[s] = bank[s]
         /\ \A s \in Slots : bank'[s].id = bank[s].id
         /\ ~bank'[iSlot].subscribed
  <2>1. bank[iSlot] \in Context
    BY <1>inv, <1>at DEF TypeOK
  <2>2. bank'[iSlot].id = bank[iSlot].id /\ ~bank'[iSlot].subscribed
    BY <1>inv, <1>same, <1>at, <2>1 DEF TypeOK, Context
  <2>3. QED
    BY <1>inv, <1>same, <2>2 DEF TypeOK
<1>only. \A s \in Slots : ~(bank'[s].subscribed /\ bank'[s].id = iClient)
  BY <1>inv, <1>at, <1>bank DEF HandlerInv
<1>1. SysTypeOK' /\ LoggedTotals'
  BY <1>inv, <1>same DEF SysTypeOK, LoggedTotals
<1>2. StopInv'
  BY <1>inv, <1>same, <1>ipc DEF StopInv
<1>3. HandlerInv'
  BY <1>same, <1>at, <1>only DEF HandlerInv
<1>4. ConversationInv'
  <2>1. SUFFICES ASSUME ipcRunning PROVE \A d \in Clients : ConversationOf(d)'
    BY <1>ipc, <1>at DEF ConversationInv
  <2>2. ASSUME NEW d \in Clients, d = iClient PROVE ConversationOf(d)'
    <3>1. cPc[d] \in {"check", "sleep", "closed"} /\ toServer[d] = <<>>
      BY <1>inv, <1>at, <2>1, <2>2 DEF ConversationInv
    <3>2. ~Subscribed(d)'
      BY <1>only, <2>2 DEF Subscribed
    <3>3. QED
      BY <1>same, <3>1, <3>2 DEF ConversationOf, NotServed
  <2>3. ASSUME NEW d \in Clients, d # iClient PROVE ConversationOf(d)'
    <3>1. bank[iSlot].id = iClient
      BY <1>inv, <1>same, <2>1 DEF IInv, IdInv, RemovesOwnSlot
    <3>2. /\ Subscribed(d)' <=> Subscribed(d)
          /\ Answered(d)' <=> Answered(d)
      BY <1>same, <1>at, <1>bank, <2>3, <3>1 DEF Subscribed, Answered
    <3>3. ConversationOf(d) /\ (NotServed(d) => NotServed(d)')
      BY <1>inv, <1>at, <2>1, <2>3, <3>2 DEF ConversationInv, NotServed
    <3>4. QED
      BY <1>same, <3>2, <3>3, ConversationSame
  <2>4. QED
    BY <2>2, <2>3
<1>5. ContextInv'
  <2>1. ASSUME ipcRunning, NEW s \in Slots, bank'[s].subscribed
        PROVE  matrixSize'[s] = Arguments(bank'[s].id) /\ Counted(s)' = Finished(bank[s].id)'
    <3>1. s # iSlot /\ bank'[s] = bank[s]
      BY <1>bank, <2>1
    <3>2. Counted(s)' = Counted(s) /\ Finished(bank[s].id)' = Finished(bank[s].id)
      BY <1>ipc, <1>same, <3>1 DEF Counted, Finished
    <3>3. QED
      BY <1>inv, <1>same, <2>1, <3>1, <3>2 DEF ContextInv
  <2>2. QED
    BY <1>same, <1>ipc, <2>1 DEF ContextInv
<1>6. Serving => Owner' = Owner
  <2>1. SUFFICES ASSUME Serving PROVE bank'[dSlot].id = bank[dSlot].id
    BY <1>ipc DEF Owner
  <2>2. ipcRunning
    BY <1>inv, <2>1 DEF StopInv, Serving
  <2>3. QED
    BY <1>inv, <1>bank, <2>1, <2>2, Served
<1>7. QED
  BY <1>same, <1>1, <1>2, <1>3, <1>4, <1>5, <1>6, HandlerMoves

\* What is on a socket of a running server.
LEMMA OnSocket ==
  ASSUME SysInv, ipcRunning, NEW c \in Clients, toServer[c] # <<>>
  PROVE  \/ cPc[c] = "await" /\ toServer[c] = <<Subscription(c)>> /\ ~Answered(c) /\ ~Subscribed(c)
         \/ /\ cPc[c] \in {"check", "sleep"} /\ Subscribed(c)
            /\ toServer[c] = <<GenerateUnsubscribeMessage(c)>>
BY ClientFacts DEF ConversationOf

\* The handler takes a Subscribe: the client has no context yet.
LEMMA SubscribeArrives ==
  ASSUME SysInv, TypeOK', ipcRunning => IInv', NEW c \in Clients, ReceiveFrom(c),
         cPc[c] = "await", toServer[c] = <<Subscription(c)>>, ~Answered(c), ~Subscribed(c)
  PROVE  SysInv'
<1>inv. /\ SysTypeOK /\ StopInv /\ HandlerInv /\ ConversationInv /\ ContextInv /\ LoggedTotals
  BY DEF SysInv
<1>head. Head(toServer[c]) = Subscription(c) /\ Tail(toServer[c]) = <<>>
  OBVIOUS
<1>buf. buffer' = Subscription(c) /\ buffer'.type = "Subscribe" /\ buffer'.senderId = c
  BY <1>head, MessageFacts DEF ReceiveFrom
<1>handle. HandleSubscribe(c) /\ UNCHANGED logged
  BY <1>buf DEF ReceiveFrom, Handle
<1>same. /\ UNCHANGED <<cPc, done, received, toClient, queue, event, transposed,
                        matrixSize, dBuffer, stats, logged>>
         /\ UNCHANGED <<alive, bank, iSlot, dispatcherVars, mainVars>>
         /\ iPc = "idle" /\ iPc' = "scan" /\ iClient' = c
         /\ toServer' = [toServer EXCEPT ![c] = <<>>]
  BY <1>handle, <1>head DEF ReceiveFrom, HandleSubscribe, mainOfClients, shared
<1>ipc. UNCHANGED <<dPc, dSlot, ipcRunning>>
  BY <1>same DEF dispatcherVars, mainVars
<1>at. ~Adding /\ ~Removing /\ Adding' /\ ~Removing'
  BY <1>same DEF Adding, Removing
<1>sock. toServer'[c] = <<>> /\ \A d \in Clients : d # c => toServer'[d] = toServer[d]
  BY <1>inv, <1>same DEF SysTypeOK
<1>1. SysTypeOK'
  <2>1. toServer' \in [Clients -> Seq(Messages)]
    BY <1>inv, <1>same DEF SysTypeOK
  <2>2. buffer' \in Messages
    BY <1>buf, MessageFacts
  <2>3. QED
    BY <1>inv, <1>same, <2>1, <2>2 DEF SysTypeOK
<1>2. LoggedTotals' /\ StopInv'
  BY <1>inv, <1>same, <1>ipc DEF StopInv, LoggedTotals
<1>3. HandlerInv'
  BY <1>same, <1>at, <1>buf DEF HandlerInv
<1>4. ConversationInv'
  <2>1. SUFFICES ASSUME ipcRunning PROVE ConversationInv'
    BY <1>ipc DEF ConversationInv
  <2>2. ASSUME NEW d \in Clients
        PROVE  (Subscribed(d)' <=> Subscribed(d)) /\ (Answered(d)' <=> Answered(d))
    BY <1>same DEF Subscribed, Answered
  <2>3. ASSUME NEW d \in Clients, d # c PROVE ConversationOf(d)'
    <3>1. ConversationOf(d) /\ (NotServed(d) => NotServed(d)')
      BY <1>inv, <1>at, <2>1, <2>2 DEF ConversationInv, NotServed
    <3>2. QED
      BY <1>same, <1>sock, <2>2, <2>3, <3>1, ConversationSame
  <2>4. ConversationOf(c)'
    BY <1>same, <1>sock, <2>2 DEF ConversationOf
  <2>5. ~Answered(iClient)'
    BY <1>same DEF Answered
  <2>6. QED
    BY <1>same, <1>at, <1>sock, <2>3, <2>4, <2>5 DEF ConversationInv
<1>5. ContextInv'
  BY <1>inv, <1>same, <1>ipc DEF ContextInv, Counted, Finished
<1>6. Serving => Owner' = Owner
  BY <1>same, <1>ipc DEF Owner
<1>7. QED
  BY <1>same, <1>1, <1>2, <1>3, <1>4, <1>5, <1>6, HandlerMoves

\* The total that is logged with an Unsubscribe: all requests have been
\* finished by the client, and the last may still have to be counted.
LEMMA LoggedNow ==
  ASSUME SysInv, ipcRunning, NEW c \in Clients, cPc[c] \in {"check", "sleep"}, Subscribed(c)
  PROVE  stats[BankIndex(c)] \in {TotalRequests - 1, TotalRequests}
<1>1. BankIndex(c) \in Slots /\ bank[BankIndex(c)].subscribed /\ bank[BankIndex(c)].id = c
  BY DEF Subscribed, BankIndex
<1>2. Counted(BankIndex(c)) = Finished(c)
  BY <1>1 DEF SysInv, ContextInv
<1>3. done[c] = TotalRequests /\ ~event[c]
  BY ClientFacts DEF ProgressOf
<1>4. stats[BankIndex(c)] \in Nat /\ TotalRequests \in Nat
  BY <1>1, SysFacts DEF SysInv, SysTypeOK
<1>5. QED
  BY <1>2, <1>3, <1>4 DEF Counted, Finished

\* The handler takes an Unsubscribe: it finds the client's only context.
LEMMA UnsubscribeArrives ==
  ASSUME SysInv, TypeOK', ipcRunning => IInv', NEW c \in Clients, ReceiveFrom(c),
         cPc[c] \in {"check", "sleep"}, toServer[c] = <<GenerateUnsubscribeMessage(c)>>,
         Subscribed(c)
  PROVE  SysInv'
<1>inv. /\ SysTypeOK /\ StopInv /\ HandlerInv /\ ConversationInv /\ ContextInv /\ LoggedTotals
        /\ ipcRunning /\ IInv
  BY DEF SysInv, ReceiveFrom
<1>head. Head(toServer[c]) = GenerateUnsubscribeMessage(c) /\ Tail(toServer[c]) = <<>>
  OBVIOUS
<1>buf. /\ buffer' = GenerateUnsubscribeMessage(c)
        /\ buffer'.type = "Unsubscribe" /\ buffer'.senderId = c
  BY <1>head, MessageFacts DEF ReceiveFrom
<1>handle. HandleUnsubscribe(c) /\ logged' = [logged EXCEPT ![c] = stats[BankIndex(c)]]
  BY <1>buf DEF ReceiveFrom, Handle
<1>same. /\ UNCHANGED <<cPc, done, received, toClient, queue, event, transposed,
                        matrixSize, dBuffer, stats>>
         /\ UNCHANGED <<alive, bank, dispatcherVars, mainVars>>
         /\ iPc = "idle" /\ iPc' = "removeSpin" /\ iClient' = c /\ iSlot' = IndexToRemove(c)
         /\ toServer' = [toServer EXCEPT ![c] = <<>>]
  BY <1>handle, <1>head DEF ReceiveFrom, HandleUnsubscribe, mainOfClients, shared
<1>ipc. UNCHANGED <<dPc, dSlot, ipcRunning>>
  BY <1>same DEF dispatcherVars, mainVars
<1>at. ~Adding /\ ~Removing /\ ~Adding' /\ Removing'
  BY <1>same DEF Adding, Removing
<1>sock. toServer'[c] = <<>> /\ \A d \in Clients : d # c => toServer'[d] = toServer[d]
  BY <1>inv, <1>same DEF SysTypeOK
<1>logged. stats[BankIndex(c)] \in {TotalRequests - 1, TotalRequests} /\ TotalRequests \in Nat
  BY <1>inv, LoggedNow, SysFacts
<1>1. SysTypeOK'
  <2>1. toServer' \in [Clients -> Seq(Messages)]
    BY <1>inv, <1>same DEF SysTypeOK
  <2>2. buffer' \in Messages
    BY <1>buf, MessageFacts
  <2>3. logged' \in [Clients -> Int]
    BY <1>inv, <1>handle, <1>logged DEF SysTypeOK
  <2>4. QED
    BY <1>inv, <1>same, <2>1, <2>2, <2>3 DEF SysTypeOK
<1>2. StopInv'
  BY <1>inv, <1>same, <1>ipc DEF StopInv
<1>3. LoggedTotals'
  BY <1>inv, <1>handle, <1>logged DEF SysTypeOK, LoggedTotals
<1>4. HandlerInv'
  <2>1. /\ IndexToRemove(c) \in Slots /\ bank[IndexToRemove(c)].subscribed
        /\ bank[IndexToRemove(c)].id = c
    BY <1>inv, FirstIsSubscribed DEF IInv
  <2>2. \A s \in Slots : bank[s].subscribed /\ bank[s].id = c => s = IndexToRemove(c)
    BY <1>inv, <2>1, OneSlot
  <2>3. QED
    BY <1>same, <1>at, <1>buf, <2>2 DEF HandlerInv
<1>5. ConversationInv'
  <2>1. ASSUME NEW d \in Clients
        PROVE  (Subscribed(d)' <=> Subscribed(d)) /\ (Answered(d)' <=> Answered(d))
    BY <1>same DEF Subscribed, Answered
  <2>2. ASSUME NEW d \in Clients, d # c PROVE ConversationOf(d)'
    <3>1. ConversationOf(d) /\ (NotServed(d) => NotServed(d)')
      BY <1>inv, <1>at, <2>1 DEF ConversationInv, NotServed
    <3>2. QED
      BY <1>same, <1>sock, <2>1, <2>2, <3>1, ConversationSame
  <2>3. ConversationOf(c)'
    BY <1>same, <1>at, <1>sock DEF ConversationOf, NotServed
  <2>4. QED
    BY <1>same, <1>at, <1>sock, <2>2, <2>3 DEF ConversationInv
<1>6. ContextInv'
  BY <1>inv, <1>same, <1>ipc DEF ContextInv, Counted, Finished
<1>7. Serving => Owner' = Owner
  BY <1>same, <1>ipc DEF Owner
<1>8. QED
  BY <1>same, <1>1, <1>2, <1>3, <1>4, <1>5, <1>6, <1>7, HandlerMoves

LEMMA ReceiveFromInv ==
  ASSUME SysInv, TypeOK', ipcRunning => IInv', NEW c \in Clients, ReceiveFrom(c)
  PROVE  SysInv'
<1>1. ipcRunning /\ toServer[c] # <<>>
  BY DEF ReceiveFrom
<1>2. QED
  BY <1>1, OnSocket, SubscribeArrives, UnsubscribeArrives

\* The old message again: an Unsubscribe in the buffer has been obeyed.
LEMMA StaleCallInv ==
  ASSUME SysInv, TypeOK', ipcRunning => IInv', NEW c \in Clients, StaleCall(c)
  PROVE  SysInv'
<1>inv. /\ SysTypeOK /\ StopInv /\ HandlerInv /\ LoggedTotals /\ ~ipcRunning
  BY DEF SysInv, StaleCall
<1>same. /\ UNCHANGED <<cPc, done, received, toServer, toClient, queue, event, transposed,
                        buffer, matrixSize, dBuffer, stats>>
         /\ UNCHANGED <<alive, bank, dispatcherVars, mainVars>>
         /\ Handle(buffer) /\ iPc = "idle"
  BY DEF StaleCall, Handle, HandleSubscribe, HandleUnsubscribe, mainOfClients, sockets, shared
<1>ipc. UNCHANGED <<dPc, dSlot, ipcRunning>>
  BY <1>same DEF dispatcherVars, mainVars
<1>kind. /\ buffer.type = "Subscribe" =>
              buffer.senderId \in Clients /\ buffer = Subscription(buffer.senderId)
         /\ buffer.type = "Subscribe" => buffer.type # "Unsubscribe"
  <2>1. buffer \in Messages \cup {NoMessage}
    BY <1>inv DEF SysTypeOK
  <2>2. QED
    BY <2>1, MessageKind
<1>1. HandlerInv' /\ logged' = logged /\ iPc' # "exited"
  <2>1. CASE buffer.type = "Subscribe"
    <3>1. iPc' \in {"idle", "scan"} /\ iClient' = buffer.senderId /\ logged' = logged
      BY <1>same, <2>1 DEF Handle, HandleSubscribe
    <3>2. ~Removing'
      BY <3>1 DEF Removing
    <3>3. QED
      BY <1>same, <1>kind, <2>1, <3>1, <3>2 DEF HandlerInv
  <2>2. CASE buffer.type = "Unsubscribe"
    <3>1. ~Removing /\ \A s \in Slots : ~(bank[s].subscribed /\ bank[s].id = buffer.senderId)
      BY <1>inv, <1>same, <2>2 DEF HandlerInv, Removing
    <3>2. ~Subscribed(buffer.senderId)
      BY <3>1 DEF Subscribed
    <3>3. iPc' = "idle" /\ logged' = logged
      BY <1>same, <2>2, <3>2 DEF Handle, HandleUnsubscribe
    <3>4. ~Removing' /\ ~Adding'
      BY <3>3 DEF Removing, Adding
    <3>5. QED
      BY <1>same, <3>1, <3>3, <3>4 DEF HandlerInv
  <2>3. QED
    BY <1>same, <2>1, <2>2 DEF Handle
<1>2. SysTypeOK' /\ LoggedTotals'
  BY <1>inv, <1>same, <1>1 DEF SysTypeOK, LoggedTotals
<1>3. StopInv'
  BY <1>inv, <1>ipc, <1>1 DEF StopInv
<1>4. ConversationInv' /\ ContextInv'
  BY <1>inv, <1>ipc DEF ConversationInv, ContextInv
<1>5. Serving => Owner' = Owner
  BY <1>same, <1>ipc DEF Owner
<1>6. QED
  BY <1>same, <1>1, <1>2, <1>3, <1>4, <1>5, HandlerMoves

LEMMA HandlerStepInv ==
  ASSUME SysInv, TypeOK', ipcRunning => IInv', SysHandlerStep
  PROVE  SysInv'
BY ResetInv, ConstructInv, RespondInv, QuietHandlerInv, AckInv DEF SysHandlerStep

-------------------------------------------------------------------------------
(* Steps of the dispatcher.                                                *)

\* The clients' main functions, the sockets and the IPC thread stand still.
LEMMA DispatcherMoves ==
  ASSUME SysInv, SysTypeOK', TypeOK', IInv', ipcRunning,
         UNCHANGED <<alive, bank, ipcVars, mainVars, cPc, done, received, toServer, toClient,
                     buffer, matrixSize, logged>>,
         \A d \in Clients : UnderWay(d)' = UnderWay(d) /\ RequestOf(d)'
                            /\ transposed[d] \subseteq transposed'[d],
         \A s \in Slots : bank[s].subscribed => Counted(s)' = Finished(bank[s].id)',
         iPc = "construct" => stats'[iSlot] = stats[iSlot]
  PROVE  SysInv'
<1>inv. /\ ConnectedInv /\ StopInv /\ HandlerInv /\ ConversationInv /\ OneRequestPerWait
        /\ RequestInv /\ ContextInv /\ ResultsComplete /\ LoggedTotals
  BY DEF SysInv
<1>same. UNCHANGED <<iPc, iClient, iSlot, ipcRunning>>
  BY DEF ipcVars, mainVars
<1>at. /\ (Adding' <=> Adding) /\ (Removing' <=> Removing)
       /\ \A d : (Subscribed(d)' <=> Subscribed(d)) /\ (NotServed(d)' <=> NotServed(d))
       /\ \A d : Answered(d)' <=> Answered(d)
  BY <1>same DEF Adding, Removing, Subscribed, NotServed, Answered
<1>1. ConnectedInv' /\ StopInv' /\ LoggedTotals'
  BY <1>inv, <1>same DEF ConnectedInv, StopInv, LoggedTotals
<1>2. HandlerInv'
  BY <1>inv, <1>same, <1>at DEF HandlerInv
<1>3. ConversationInv'
  <2>1. ASSUME NEW d \in Clients PROVE ConversationOf(d)'
    <3>1. ConversationOf(d)
      BY <1>inv DEF ConversationInv
    <3>2. QED
      BY <1>at, <3>1, ConversationSame
  <2>2. (Answered(iClient)' <=> Answered(iClient)) /\ (Subscribed(iClient)' <=> Subscribed(iClient))
    BY <1>same DEF Answered, Subscribed
  <2>3. QED
    BY <1>inv, <1>same, <1>at, <2>1, <2>2 DEF ConversationInv
<1>4. OneRequestPerWait'
  BY <1>inv DEF OneRequestPerWait
<1>5. RequestInv'
  BY <1>inv DEF RequestInv, ProgressOf
<1>6. ContextInv'
  <2>1. \A s \in Slots : bank'[s].subscribed => matrixSize'[s] = Arguments(bank'[s].id)
    BY <1>inv DEF ContextInv
  <2>2. \A s \in Slots : bank'[s].subscribed => Counted(s)' = Finished(bank[s].id)'
    OBVIOUS
  <2>3. iPc' = "construct" => stats'[iSlot'] = 0
    BY <1>inv, <1>same DEF ContextInv
  <2>4. QED
    BY <2>1, <2>2, <2>3 DEF ContextInv
<1>7. ResultsComplete'
  BY <1>inv DEF ResultsComplete
<1>8. QED
  BY <1>1, <1>2, <1>3, <1>4, <1>5, <1>6, <1>7 DEF SysInv

\* The dispatcher has left its loop before main stops the IPC thread.
LEMMA DispatcherRuns ==
  ASSUME SysInv, dPc # "exited"
  PROVE  ipcRunning /\ IInv /\ StopInv
BY DEF SysInv, StopInv

\* The steps between two requests, and a Dequeue that finds nothing.
LEMMA QuietDispatcherInv ==
  ASSUME SysInv, TypeOK', ipcRunning => IInv',
         \/ DispatcherTop \/ DispatcherCopy \/ DispatcherAck \/ DispatcherScan
         \/ DispatcherDequeue /\ dPc' = "scan",
         UNCHANGED <<mainOfClients, sockets, shared, serverData>>
  PROVE  SysInv'
<1>same. /\ UNCHANGED <<cPc, done, received, toServer, toClient, queue, event, transposed,
                        buffer, matrixSize, dBuffer, stats, logged>>
         /\ UNCHANGED <<alive, bank, ipcVars, mainVars>>
  BY DEF mainOfClients, sockets, shared, serverData, DispatcherTop, DispatcherCopy, DispatcherAck,
         DispatcherScan, DispatcherDequeue
<1>at. /\ dPc \in {"top", "copy", "ack", "scan", "dequeue"}
       /\ dPc' \in {"exited", "top", "copy", "ack", "scan", "dequeue"}
  BY DEF DispatcherTop, DispatcherCopy, DispatcherAck, DispatcherScan, DispatcherDequeue, DispatcherGoes
<1>run. ipcRunning
  BY <1>at, DispatcherRuns
<1>with. \A d : ~WithDispatcher(d) /\ ~WithDispatcher(d)'
  BY <1>at DEF WithDispatcher
<1>1. SysTypeOK'
  BY <1>same DEF SysInv, SysTypeOK
<1>2. ASSUME NEW d \in Clients
      PROVE  UnderWay(d)' = UnderWay(d) /\ RequestOf(d)' /\ transposed[d] \subseteq transposed'[d]
  <2>1. UnderWay(d)' = UnderWay(d) /\ transposed[d] \subseteq transposed'[d]
    BY <1>same, <1>with DEF UnderWay
  <2>2. RequestOf(d)
    BY ClientFacts
  <2>3. RequestOf(d)'
    BY <1>same, <1>with, <2>2 DEF RequestOf
  <2>4. QED
    BY <2>1, <2>3
<1>3. \A s \in Slots : bank[s].subscribed => Counted(s)' = Finished(bank[s].id)'
  <2>1. ASSUME NEW s \in Slots
        PROVE  Counted(s)' = Counted(s) /\ Finished(bank[s].id)' = Finished(bank[s].id)
    BY <1>same, <1>at DEF Counted, Finished
  <2>2. QED
    BY <1>run, <2>1 DEF SysInv, ContextInv
<1>4. QED
  BY <1>same, <1>run, <1>1, <1>2, <1>3, DispatcherMoves

\* The request leaves the queue for the dispatcher.
LEMMA DequeueInv ==
  ASSUME SysInv, TypeOK', ipcRunning => IInv', SysDequeue
  PROVE  SysInv'
<1>quiet. CASE dPc' = "scan"
  <2>1. UNCHANGED <<mainOfClients, sockets, shared, serverData>>
    BY <1>quiet DEF SysDequeue, shared, serverData
  <2>2. QED
    BY <1>quiet, <2>1, QuietDispatcherInv DEF SysDequeue
<1>found. CASE dPc' = "transpose"
  <2>same. /\ UNCHANGED <<cPc, done, received, toServer, toClient, event, transposed,
                          buffer, matrixSize, stats, logged>>
           /\ UNCHANGED <<alive, bank, ipcVars, mainVars, dSlot>>
           /\ dPc = "dequeue"
           /\ queue[Owner] # <<>> /\ dBuffer' = Head(queue[Owner])
           /\ queue' = [queue EXCEPT ![Owner] = Tail(@)]
    BY <1>found DEF SysDequeue, DispatcherDequeue, DispatcherGoes, mainOfClients, sockets
  <2>run. ipcRunning /\ IInv /\ SysTypeOK
    BY <2>same, DispatcherRuns DEF SysInv
  <2>owner. Owner \in Clients /\ Owner' = Owner
    <3>1. Serving
      BY <2>same DEF Serving
    <3>2. QED
      BY <2>run, <2>same, <3>1, Served DEF Owner
  <2> DEFINE o == Owner
  <2>o. o \in Clients /\ o = Owner
    BY <2>owner
  <2>with. /\ \A d : ~WithDispatcher(d)
           /\ \A d : WithDispatcher(d)' <=> d = o
    BY <1>found, <2>same, <2>owner DEF WithDispatcher
  <2> HIDE DEF o
  <2>req. /\ queue[o] \in Seq(Buffers) /\ Len(queue[o]) = 1 /\ ~event[o]
          /\ Head(queue[o]) = BufferOf(done[o])
    BY <2>o, <2>same, ClientFacts DEF RequestOf
  <2>tail. Tail(queue[o]) = <<>> /\ Head(queue[o]) \in Buffers
    <3>1. Tail(queue[o]) \in Seq(Buffers) /\ Len(Tail(queue[o])) = 0
      BY <2>req, <2>same, <2>o
    <3>2. Tail(queue[o]) = <<>>
      BY <3>1, EmptySeq
    <3>3. queue[o] # <<>>
      BY <2>same, <2>o
    <3>4. Head(queue[o]) \in Buffers
      BY <2>req, <3>3
    <3>5. QED
      BY <3>2, <3>4
  <2>queue. queue'[o] = <<>> /\ \A d \in Clients : d # o => queue'[d] = queue[d]
    BY <2>run, <2>o, <2>same, <2>tail DEF SysTypeOK
  <2>1. SysTypeOK'
    <3>1. queue' \in [Clients -> Seq(Buffers)]
      BY <2>run, <2>o, <2>same, <2>tail DEF SysTypeOK
    <3>2. dBuffer' \in Buffers
      BY <2>same, <2>o, <2>tail
    <3>3. QED
      BY <2>run, <2>same, <3>1, <3>2 DEF SysTypeOK
  <2>2. ASSUME NEW d \in Clients
        PROVE  UnderWay(d)' = UnderWay(d) /\ RequestOf(d)' /\ transposed[d] \subseteq transposed'[d]
    <3>1. CASE d = o
      <4>1. UnderWay(d) = 1
        <5>1. ~WithDispatcher(d) /\ ~event[d] /\ Len(queue[d]) = 1
          BY <2>with, <2>req, <3>1
        <5>2. QED
          BY <5>1 DEF UnderWay
      <4>2. Len(queue'[d]) = 0 /\ ~event'[d] /\ WithDispatcher(d)'
        BY <2>same, <2>with, <2>req, <2>queue, <3>1
      <4>3. UnderWay(d)' = 1
        BY <4>2 DEF UnderWay
      <4>4. dBuffer' = BufferOf(done[d])
        BY <2>same, <2>o, <2>req, <3>1
      <4>5. RequestOf(d)'
        BY <1>found, <2>same, <2>queue, <3>1, <4>2, <4>4 DEF RequestOf
      <4>6. QED
        BY <2>same, <4>1, <4>3, <4>5
    <3>2. CASE d # o
      <4>1. UnderWay(d)' = UnderWay(d)
        BY <2>same, <2>with, <2>queue, <3>2 DEF UnderWay
      <4>2. RequestOf(d)
        BY ClientFacts
      <4>3. RequestOf(d)'
        BY <2>same, <2>with, <2>queue, <3>2, <4>2 DEF RequestOf
      <4>4. QED
        BY <2>same, <4>1, <4>3
    <3>3. QED
      BY <3>1, <3>2
  <2>3. \A s \in Slots : bank[s].subscribed => Counted(s)' = Finished(bank[s].id)'
    <3>1. ASSUME NEW s \in Slots
          PROVE  Counted(s)' = Counted(s) /\ Finished(bank[s].id)' = Finished(bank[s].id)
      BY <1>found, <2>same DEF Counted, Finished
    <3>2. QED
      BY <2>run, <3>1 DEF SysInv, ContextInv
  <2>4. QED
    BY <2>same, <2>run, <2>1, <2>2, <2>3, DispatcherMoves
<1>3. QED
  BY <1>quiet, <1>found DEF SysDequeue

\* The result is there before the dispatcher goes on to Wake.
LEMMA TransposeInv ==
  ASSUME SysInv, TypeOK', ipcRunning => IInv', SysTranspose
  PROVE  SysInv'
<1>same. /\ UNCHANGED <<cPc, done, received, toServer, toClient, queue, event,
                        buffer, matrixSize, dBuffer, stats, logged>>
         /\ UNCHANGED <<alive, bank, ipcVars, mainVars, dSlot>>
         /\ dPc = "transpose" /\ dPc' = "wake"
         /\ transposed' = [transposed EXCEPT ![Owner] = @ \cup {dBuffer}]
  BY DEF SysTranspose, Result, DispatcherServe, DispatcherGoes, mainOfClients, sockets, serverData
<1>run. ipcRunning /\ IInv /\ SysTypeOK
  BY <1>same, DispatcherRuns DEF SysInv
<1>owner. Owner \in Clients /\ Owner' = Owner
  <2>1. Serving
    BY <1>same DEF Serving
  <2>2. QED
    BY <1>run, <1>same, <2>1, Served DEF Owner
<1>with. \A d : (WithDispatcher(d) <=> d = Owner) /\ (WithDispatcher(d)' <=> d = Owner)
  BY <1>same, <1>owner DEF WithDispatcher
<1>trans. /\ transposed'[Owner] = transposed[Owner] \cup {dBuffer}
          /\ \A d \in Clients : d # Owner => transposed'[d] = transposed[d]
  BY <1>run, <1>same, <1>owner DEF SysTypeOK
<1>1. SysTypeOK'
  <2>1. transposed' \in [Clients -> SUBSET Buffers]
    BY <1>run, <1>same, <1>owner DEF SysTypeOK
  <2>2. QED
    BY <1>run, <1>same, <2>1 DEF SysTypeOK
<1>2. ASSUME NEW d \in Clients
      PROVE  UnderWay(d)' = UnderWay(d) /\ RequestOf(d)' /\ transposed[d] \subseteq transposed'[d]
  <2>1. UnderWay(d)' = UnderWay(d)
    BY <1>same, <1>with DEF UnderWay
  <2>2. transposed[d] \subseteq transposed'[d]
    BY <1>trans
  <2>3. RequestOf(d)
    BY ClientFacts
  <2>4. WithDispatcher(d) => BufferOf(done[d]) \in transposed'[d]
    BY <1>with, <1>trans, <2>3 DEF RequestOf
  <2>5. RequestOf(d)'
    BY <1>same, <1>with, <2>2, <2>3, <2>4 DEF RequestOf
  <2>6. QED
    BY <2>1, <2>2, <2>5
<1>3. \A s \in Slots : bank[s].subscribed => Counted(s)' = Finished(bank[s].id)'
  <2>1. ASSUME NEW s \in Slots
        PROVE  Counted(s)' = Counted(s) /\ Finished(bank[s].id)' = Finished(bank[s].id)
    BY <1>same DEF Counted, Finished
  <2>2. QED
    BY <1>run, <2>1 DEF SysInv, ContextInv
<1>4. QED
  BY <1>same, <1>run, <1>1, <1>2, <1>3, DispatcherMoves

\* The request becomes the signal.
LEMMA WakeInv ==
  ASSUME SysInv, TypeOK', ipcRunning => IInv', SysWake
  PROVE  SysInv'
<1>same. /\ UNCHANGED <<cPc, done, received, toServer, toClient, queue, transposed,
                        buffer, matrixSize, dBuffer, stats, logged>>
         /\ UNCHANGED <<alive, bank, ipcVars, mainVars, dSlot>>
         /\ dPc = "wake" /\ dPc' = "stopTimer"
         /\ event' = [event EXCEPT ![Owner] = TRUE]
  BY DEF SysWake, EventAfterWake, DispatcherServe, DispatcherGoes, mainOfClients, sockets, serverData
<1>run. ipcRunning /\ IInv /\ SysTypeOK
  BY <1>same, DispatcherRuns DEF SysInv
<1>owner. Owner \in Clients /\ dSlot \in Slots /\ bank[dSlot].subscribed
  <2>1. Serving
    BY <1>same DEF Serving
  <2>2. QED
    BY <1>run, <2>1, Served
<1>with. \A d : (WithDispatcher(d) <=> d = Owner) /\ ~WithDispatcher(d)'
  BY <1>same DEF WithDispatcher
<1>event. event'[Owner] = TRUE /\ \A d \in Clients : d # Owner => event'[d] = event[d]
  BY <1>run, <1>same, <1>owner DEF SysTypeOK
<1>req. /\ queue[Owner] = <<>> /\ ~event[Owner] /\ RequestOf(Owner) /\ done[Owner] \in Nat
  BY <1>owner, <1>with, ClientFacts
<1>1. SysTypeOK'
  <2>1. event' \in [Clients -> BOOLEAN]
    BY <1>run, <1>same DEF SysTypeOK
  <2>2. QED
    BY <1>run, <1>same, <2>1 DEF SysTypeOK
<1>2. ASSUME NEW d \in Clients
      PROVE  UnderWay(d)' = UnderWay(d) /\ RequestOf(d)' /\ transposed[d] \subseteq transposed'[d]
  <2>1. CASE d = Owner
    <3>1. Len(queue[d]) = 0 /\ Len(queue'[d]) = 0
      BY <1>same, <1>req, <2>1
    <3>2. UnderWay(d) = 1
      <4>1. WithDispatcher(d) /\ ~event[d]
        BY <1>with, <1>req, <2>1
      <4>2. QED
        BY <3>1, <4>1 DEF UnderWay
    <3>3. event'[d] /\ ~WithDispatcher(d)'
      BY <1>event, <1>with, <2>1
    <3>4. UnderWay(d)' = 1
      BY <3>1, <3>3 DEF UnderWay
    <3>5. RequestOf(d)'
      BY <1>same, <1>with, <1>req, <2>1, <3>3 DEF RequestOf
    <3>6. QED
      BY <1>same, <3>2, <3>4, <3>5
  <2>2. CASE d # Owner
    <3>1. RequestOf(d)
      BY ClientFacts
    <3>2. QED
      BY <1>same, <1>with, <1>event, <2>2, <3>1 DEF UnderWay, RequestOf
  <2>3. QED
    BY <2>1, <2>2
<1>3. \A s \in Slots : bank[s].subscribed => Counted(s)' = Finished(bank[s].id)'
  <2>1. SUFFICES ASSUME NEW s \in Slots, bank[s].subscribed
                 PROVE  Counted(s)' = Finished(bank[s].id)'
    OBVIOUS
  <2>2. Counted(s) = Finished(bank[s].id) /\ stats[s] \in Nat
    BY <1>run, <2>1 DEF SysInv, ContextInv, SysTypeOK
  <2>3. CASE s = dSlot
    <3>1. stats[s] = done[Owner]
      BY <1>same, <1>req, <2>2, <2>3 DEF Counted, Finished, Owner
    <3>2. Counted(s)' = stats[s] + 1
      BY <1>same, <2>3 DEF Counted
    <3>3. Finished(bank[s].id)' = done[Owner] + 1
      BY <1>same, <1>event, <2>3 DEF Finished, Owner
    <3>4. QED
      BY <3>1, <3>2, <3>3
  <2>4. CASE s # dSlot
    <3>1. bank[s].id # Owner
      BY <1>run, <1>owner, <2>1, <2>4, OneSlot DEF Owner
    <3>2. bank[s].id \in Clients
      BY <1>run, <2>1 DEF IInv, AliveInv, TypeOK
    <3>3. Counted(s)' = Counted(s) /\ Finished(bank[s].id)' = Finished(bank[s].id)
      BY <1>same, <1>event, <2>4, <3>1, <3>2 DEF Counted, Finished
    <3>4. QED
      BY <2>2, <3>3
  <2>5. QED
    BY <2>3, <2>4
<1>4. QED
  BY <1>same, <1>run, <1>1, <1>2, <1>3, DispatcherMoves

\* The request that was finished is counted.
LEMMA StopTimerInv ==
  ASSUME SysInv, TypeOK', ipcRunning => IInv', SysStopTimer
  PROVE  SysInv'
<1>same. /\ UNCHANGED <<cPc, done, received, toServer, toClient, queue, event, transposed,
                        buffer, matrixSize, logged>>
         /\ UNCHANGED <<alive, bank, ipcVars, mainVars>>
         /\ dPc = "stopTimer" /\ dPc' = "scan" /\ dBuffer' = 0
         /\ stats' = [stats EXCEPT ![dSlot] = stats[dSlot] + 1]
  BY DEF SysStopTimer, CountedRequests, DispatcherServe, DispatcherGoes, mainOfClients, sockets, shared
<1>run. ipcRunning /\ IInv /\ SysTypeOK
  BY <1>same, DispatcherRuns DEF SysInv
<1>slot. dSlot \in Slots /\ (iPc = "construct" => iSlot # dSlot) /\ (iSlot \in Slots)
  <2>1. Serving
    BY <1>same DEF Serving
  <2>2. QED
    BY <1>run, <2>1, Served DEF IInv, TypeOK
<1>with. \A d : ~WithDispatcher(d) /\ ~WithDispatcher(d)'
  BY <1>same DEF WithDispatcher
<1>stats. stats'[dSlot] = stats[dSlot] + 1 /\ \A s \in Slots : s # dSlot => stats'[s] = stats[s]
  BY <1>run, <1>same, <1>slot DEF SysTypeOK
<1>1. SysTypeOK'
  <2>1. stats' \in [Slots -> Nat]
    BY <1>run, <1>same, <1>slot DEF SysTypeOK
  <2>2. dBuffer' \in Buffers
    BY <1>same, SysFacts DEF Buffers
  <2>3. QED
    BY <1>run, <1>same, <2>1, <2>2 DEF SysTypeOK
<1>2. ASSUME NEW d \in Clients
      PROVE  UnderWay(d)' = UnderWay(d) /\ RequestOf(d)' /\ transposed[d] \subseteq transposed'[d]
  <2>1. RequestOf(d)
    BY ClientFacts
  <2>2. QED
    BY <1>same, <1>with, <2>1 DEF UnderWay, RequestOf
<1>3. \A s \in Slots : bank[s].subscribed => Counted(s)' = Finished(bank[s].id)'
  <2>1. ASSUME NEW s \in Slots
        PROVE  Counted(s)' = Counted(s) /\ Finished(bank[s].id)' = Finished(bank[s].id)
    <3>1. stats[s] \in Nat /\ stats'[s] \in Nat
      BY <1>run, <1>1 DEF SysTypeOK
    <3>2. Counted(s)' = Counted(s)
      BY <1>same, <1>stats, <3>1 DEF Counted
    <3>3. QED
      BY <1>same, <3>2 DEF Finished
  <2>2. QED
    BY <1>run, <2>1 DEF SysInv, ContextInv
<1>4. iPc = "construct" => stats'[iSlot] = stats[iSlot]
  BY <1>slot, <1>stats
<1>5. QED
  BY <1>same, <1>run, <1>1, <1>2, <1>3, <1>4, DispatcherMoves

LEMMA DispatcherStepInv ==
  ASSUME SysInv, TypeOK', ipcRunning => IInv', SysDispatcherStep
  PROVE  SysInv'
BY DequeueInv, TransposeInv, WakeInv, StopTimerInv, QuietDispatcherInv DEF SysDispatcherStep

-------------------------------------------------------------------------------
(* Steps of the server's main, and the whole system.                       *)

\* When m_Running falls, the dispatcher has left its loop.
LEMMA StopInvStep ==
  ASSUME SysInv, TypeOK', ipcRunning => IInv', SysEnter \/ SysMainStep \/ UNCHANGED sysVars
  PROVE  SysInv'
<1>inv. /\ SysTypeOK /\ ConnectedInv /\ StopInv /\ HandlerInv /\ ConversationInv /\ LoggedTotals
        /\ OneRequestPerWait /\ RequestInv /\ ContextInv /\ ResultsComplete
  BY DEF SysInv
<1>same. /\ UNCHANGED <<cPc, done, received, toServer, toClient, queue, event, transposed,
                        buffer, matrixSize, dBuffer, stats, logged>>
         /\ UNCHANGED <<alive, bank, iPc, iClient, iSlot, dPc, dBits, dSlot>>
         /\ ipcRunning' => ipcRunning
         /\ ~ipcRunning' => ~ipcRunning \/ dPc = "exited"
  BY DEF SysEnter, SysMainStep, Enter, MainStep, JoinDispatcher, JoinIpc, sysVars, vars, mainOfClients,
         sockets, shared, serverData, ipcVars, dispatcherVars, mainVars
<1>at. /\ (Adding' <=> Adding) /\ (Removing' <=> Removing)
       /\ \A d : (Subscribed(d)' <=> Subscribed(d)) /\ (NotServed(d)' <=> NotServed(d))
       /\ \A d : Answered(d)' <=> Answered(d)
       /\ \A d : WithDispatcher(d)' <=> WithDispatcher(d)
  BY <1>same DEF Adding, Removing, Subscribed, NotServed, Answered, WithDispatcher, Owner
<1>1. SysTypeOK' /\ ConnectedInv' /\ LoggedTotals' /\ ResultsComplete'
  BY <1>inv, <1>same DEF SysTypeOK, ConnectedInv, LoggedTotals, ResultsComplete
<1>2. StopInv'
  BY <1>inv, <1>same DEF StopInv
<1>3. HandlerInv'
  BY <1>inv, <1>same, <1>at DEF HandlerInv
<1>4. ConversationInv'
  <2>1. SUFFICES ASSUME ipcRunning' PROVE ConversationInv'
    BY DEF ConversationInv
  <2>2. ASSUME NEW d \in Clients PROVE ConversationOf(d)'
    <3>1. ConversationOf(d)
      BY <1>inv, <1>same, <2>1 DEF ConversationInv
    <3>2. QED
      BY <1>same, <1>at, <3>1, ConversationSame
  <2>3. (Answered(iClient)' <=> Answered(iClient)) /\ (Subscribed(iClient)' <=> Subscribed(iClient))
    BY <1>same DEF Answered, Subscribed
  <2>4. QED
    BY <1>inv, <1>same, <1>at, <2>1, <2>2, <2>3 DEF ConversationInv
<1>5. OneRequestPerWait'
  BY <1>inv, <1>same, <1>at DEF OneRequestPerWait, UnderWay
<1>6. RequestInv'
  <2>1. ASSUME NEW d \in Clients PROVE ProgressOf(d)' /\ RequestOf(d)'
    <3>1. ProgressOf(d)'
      BY <1>inv, <1>same DEF RequestInv, ProgressOf
    <3>2. RequestOf(d)'
      BY <1>inv, <1>same, <1>at DEF RequestInv, RequestOf
    <3>3. QED
      BY <3>1, <3>2
  <2>2. QED
    BY <2>1 DEF RequestInv
<1>7. ContextInv'
  BY <1>inv, <1>same DEF ContextInv, Counted, Finished
<1>8. QED
  BY <1>same, <1>1, <1>2, <1>3, <1>4, <1>5, <1>6, <1>7 DEF SysInv

LEMMA SysInitInv == SysInit => SysInv
<1> SUFFICES ASSUME SysInit PROVE SysInv
  OBVIOUS
<1>init. /\ alive = {} /\ bank = [s \in Slots |-> EmptyContext]
         /\ iPc = "idle" /\ dPc = "top" /\ ipcRunning = TRUE
         /\ cPc = [c \in Clients |-> "off"] /\ done = [c \in Clients |-> 0]
         /\ received = [c \in Clients |-> FALSE] /\ event = [c \in Clients |-> FALSE]
         /\ toServer = [c \in Clients |-> <<>>] /\ toClient = [c \in Clients |-> <<>>]
         /\ queue = [c \in Clients |-> <<>>] /\ transposed = [c \in Clients |-> {}]
         /\ buffer = NoMessage /\ matrixSize = [s \in Slots |-> None] /\ dBuffer = 0
         /\ stats = [s \in Slots |-> 0] /\ logged = [c \in Clients |-> -1]
  BY DEF SysInit, Init
<1>at. /\ ~Adding /\ ~Removing /\ \A d : ~WithDispatcher(d)
       /\ \A s \in Slots : ~bank[s].subscribed
  BY <1>init DEF Adding, Removing, WithDispatcher, EmptyContext
<1>1. IInv /\ TypeOK
  BY InitIInv DEF SysInit, IInv
<1>2. SysTypeOK
  <2>1. /\ toServer \in [Clients -> Seq(Messages)] /\ toClient \in [Clients -> Seq(Responses)]
        /\ queue \in [Clients -> Seq(Buffers)] /\ transposed \in [Clients -> SUBSET Buffers]
    BY <1>init
  <2>2. dBuffer \in Buffers
    BY <1>init, SysFacts DEF Buffers
  <2>3. received \in [Clients -> BOOLEAN] /\ event \in [Clients -> BOOLEAN]
    BY <1>init
  <2>4. cPc \in [Clients -> {"off", "subscribe", "await", "enqueue", "wait", "unsubscribe",
                             "check", "sleep", "closed"}]
    BY <1>init
  <2>5. /\ done \in [Clients -> Nat] /\ stats \in [Slots -> Nat] /\ logged \in [Clients -> Int]
        /\ matrixSize \in [Slots -> {Arguments(c) : c \in Clients} \cup {None}]
    BY <1>init
  <2>6. QED
    BY <1>init, <2>1, <2>2, <2>3, <2>4, <2>5 DEF SysTypeOK
<1>3. ConnectedInv /\ StopInv
  BY <1>init DEF ConnectedInv, StopInv
<1>4. HandlerInv
  BY <1>init, <1>at, NoMessageType DEF HandlerInv
<1>5. ConversationInv
  <2>1. ASSUME NEW d \in Clients PROVE ConversationOf(d)
    <3>1. cPc[d] = "off" /\ toServer[d] = <<>> /\ toClient[d] = <<>> /\ ~received[d]
      BY <1>init
    <3>2. ~Answered(d) /\ ~Subscribed(d)
      BY <1>at, <3>1 DEF Answered, Subscribed
    <3>3. QED
      BY <3>1, <3>2 DEF ConversationOf
  <2>2. QED
    BY <1>at, <2>1 DEF ConversationInv
<1>6. OneRequestPerWait /\ RequestInv /\ ResultsComplete
  <2>1. ASSUME NEW d \in Clients
        PROVE  UnderWay(d) = (IF cPc[d] = "wait" THEN 1 ELSE 0) /\ ProgressOf(d) /\ RequestOf(d)
               /\ cPc[d] = "off"
    <3>1. cPc[d] = "off" /\ queue[d] = <<>> /\ ~event[d] /\ done[d] = 0
      BY <1>init
    <3>2. Len(queue[d]) = 0
      BY <3>1
    <3>3. UnderWay(d) = 0
      BY <1>at, <3>1, <3>2 DEF UnderWay
    <3>4. ProgressOf(d) /\ RequestOf(d)
      BY <1>at, <3>1 DEF ProgressOf, RequestOf
    <3>5. QED
      BY <3>1, <3>3, <3>4
  <2>2. QED
    BY <2>1 DEF OneRequestPerWait, RequestInv, ResultsComplete
<1>7. ContextInv /\ LoggedTotals
  BY <1>init, <1>at DEF ContextInv, LoggedTotals
<1>8. QED
  BY <1>1, <1>2, <1>3, <1>4, <1>5, <1>6, <1>7 DEF SysInv

LEMMA SysNextInv ==
  PromptServer = TRUE /\ Repetitions # 0 /\ SysInv /\ [SysNext]_sysVars => SysInv'
<1> SUFFICES ASSUME PromptServer = TRUE, Repetitions # 0, SysInv, [SysNext]_sysVars
             PROVE  SysInv'
  OBVIOUS
<1>1. TypeOK' /\ (ipcRunning => IInv')
  BY BankInvStep
<1>2. ASSUME NEW c \in Clients, MainStepOf(c) PROVE SysInv'
  BY <1>1, <1>2, SendsInv, MainStepsInv, EnqueueInv, WaitInv DEF MainStepOf
<1>3. ASSUME NEW c \in Clients, Connect(c) \/ ReceiveResponse(c) \/ Hangup(c) PROVE SysInv'
  BY <1>1, <1>3, ConnectInv, ReceiveResponseInv, HangupInv
<1>4. ASSUME NEW c \in Clients, ReceiveFrom(c) \/ StaleCall(c) PROVE SysInv'
  BY <1>1, <1>4, ReceiveFromInv, StaleCallInv
<1>5. ASSUME SysHandlerStep \/ SysDispatcherStep PROVE SysInv'
  BY <1>1, <1>5, HandlerStepInv, DispatcherStepInv
<1>6. ASSUME SysEnter \/ SysMainStep \/ UNCHANGED sysVars PROVE SysInv'
  BY <1>1, <1>6, StopInvStep
<1>7. QED
  BY <1>2, <1>3, <1>4, <1>5, <1>6 DEF SysNext

-------------------------------------------------------------------------------
(* The theorems.  Two hypotheses on the constants: the server reads a      *)
(* message before the 10 ms that a client sleeps at its end are over (run  *)
(* system_limit shows what is lost otherwise), and a client is told to     *)
(* make at least one repetition: with none it finds its untransposed       *)
(* buffers wrong and exits with its Unsubscribe unread.                    *)

\* The invariant that connects clients, sockets, queues and server is
\* inductive: it holds in every state of the system.
THEOREM SystemInvariance == PromptServer = TRUE /\ Repetitions # 0 => (SysSpec => []SysInv)
<1>1. SUFFICES ASSUME PromptServer = TRUE, Repetitions # 0 PROVE SysSpec => []SysInv
  OBVIOUS
<1>2. SysInv /\ [SysNext]_sysVars => SysInv'
  BY <1>1, SysNextInv
<1>3. QED
  BY <1>2, SysInitInv, PTL DEF SysSpec

\* For any number of clients, slots, buffers and repetitions, the client's
\* Enqueue, whose result it ignores, finds room; Wake never finds a signal that
\* is still pending; and no request is lost or answered twice, also while the
\* server is being stopped.
THEOREM NoRequestLost ==
  PromptServer = TRUE /\ Repetitions # 0 => (SysSpec => []OneRequestPerWait)
<1>1. SUFFICES ASSUME PromptServer = TRUE, Repetitions # 0 PROVE SysSpec => []OneRequestPerWait
  OBVIOUS
<1>2. SysSpec => []SysInv
  BY <1>1, SystemInvariance
<1>3. SysInv => OneRequestPerWait
  BY DEF SysInv
<1>4. QED
  BY <1>2, <1>3, PTL

\* Every time the client's Wait returns, the buffer of its request has been
\* transposed: the comparison with TransposeNaive at the end finds no buffer
\* the server has not got to.
THEOREM ResultsThere ==
  PromptServer = TRUE /\ Repetitions # 0 => (SysSpec => []ResultsComplete)
<1>1. SUFFICES ASSUME PromptServer = TRUE, Repetitions # 0 PROVE SysSpec => []ResultsComplete
  OBVIOUS
<1>2. SysSpec => []SysInv
  BY <1>1, SystemInvariance
<1>3. SysInv => ResultsComplete
  BY DEF SysInv
<1>4. QED
  BY <1>2, <1>3, PTL

LEMMA SizeServed ==
  ASSUME SysInv
  PROVE  ServesOwnSize
<1>1. SUFFICES ASSUME dPc \in {"transpose", "wake"}
               PROVE  matrixSize[dSlot] = Arguments(Owner) /\ dBuffer < matrixSize[dSlot].k
  BY DEF ServesOwnSize
<1>2. ipcRunning /\ IInv
  BY <1>1, DispatcherRuns
<1>3. dSlot \in Slots /\ bank[dSlot].subscribed
  BY <1>1, <1>2, Served DEF Serving
<1>4. matrixSize[dSlot] = Arguments(Owner)
  BY <1>2, <1>3 DEF SysInv, ContextInv, Owner
<1>5. Arguments(Owner).k = NumBuffers
  BY DEF Arguments
<1>6. dBuffer \in Buffers /\ NumBuffers \in Nat
  BY SysFacts DEF SysInv, SysTypeOK
<1>7. dBuffer < NumBuffers
  BY <1>6 DEF Buffers
<1>8. QED
  BY <1>4, <1>5, <1>7

\* While the dispatcher transposes and wakes, clientBank[i] holds the rows,
\* columns and number of buffers that the client it serves sent with its own
\* Subscribe, also in a slot that was reset and filled again; and the buffer
\* index it took from the queue is one of that client's.
THEOREM SizesMatch ==
  PromptServer = TRUE /\ Repetitions # 0 => (SysSpec => []ServesOwnSize)
<1>1. SUFFICES ASSUME PromptServer = TRUE, Repetitions # 0 PROVE SysSpec => []ServesOwnSize
  OBVIOUS
<1>2. SysSpec => []SysInv
  BY <1>1, SystemInvariance
<1>3. SysInv => ServesOwnSize
  BY SizeServed
<1>4. QED
  BY <1>2, <1>3, PTL

\* The total of requests the server logs when it handles an Unsubscribe is
\* the client's own or lacks its last one, which StopTimer counts after Wake.
THEOREM TotalsLogged ==
  PromptServer = TRUE /\ Repetitions # 0 => (SysSpec => []LoggedTotals)
<1>1. SUFFICES ASSUME PromptServer = TRUE, Repetitions # 0 PROVE SysSpec => []LoggedTotals
  OBVIOUS
<1>2. SysSpec => []SysInv
  BY <1>1, SystemInvariance
<1>3. SysInv => LoggedTotals
  BY DEF SysInv
<1>4. QED
  BY <1>2, <1>3, PTL

\* What ClientBank promises of contexts and bit set when no client vanishes;
\* the last two while the IPC server runs.
BankSafe ==
  /\ NoUseAfterReset /\ HandoffExclusive
  /\ ipcRunning => RemovesOwnSlot /\ LimitSuffices

LEMMA BankSafeNow ==
  ASSUME SysInv
  PROVE  BankSafe
<1>1. ASSUME ipcRunning PROVE RemovesOwnSlot /\ LimitSuffices
  <2>1. IInv
    BY <1>1 DEF SysInv
  <2>2. QED
    BY <2>1, FreeSlot DEF IInv, IdInv, LimitSuffices
<1>2. NoUseAfterReset
  <2>1. SUFFICES ASSUME Serving PROVE bank[dSlot].ready /\ bank[dSlot].subscribed
    BY DEF NoUseAfterReset
  <2>2. IInv
    BY <2>1, DispatcherRuns DEF Serving
  <2>3. QED
    BY <2>1, <2>2, Served DEF IInv, BankInv
<1>3. HandoffExclusive
  <2>1. SUFFICES ASSUME dPc = "copy" PROVE iPc \notin {"setBit", "clearBit"}
    BY DEF HandoffExclusive
  <2>2. IInv
    BY <2>1, DispatcherRuns
  <2>3. QED
    BY <2>1, <2>2 DEF IInv, FlagInv
<1>4. QED
  BY <1>1, <1>2, <1>3 DEF BankSafe

\* The hypothesis under which ClientBank is proved safe, that no client
\* vanishes with its context in the bank, is met by the clients of this
\* repository: with them the server never uses a context that is reset or
\* retired, never reads the bit set under a write, removes the right slot and
\* finds a free one.
THEOREM ClientsKeepBankSafe ==
  PromptServer = TRUE /\ Repetitions # 0 => (SysSpec => []BankSafe)
<1>1. SUFFICES ASSUME PromptServer = TRUE, Repetitions # 0 PROVE SysSpec => []BankSafe
  OBVIOUS
<1>2. SysSpec => []SysInv
  BY <1>1, SystemInvariance
<1>3. SysInv => BankSafe
  BY BankSafeNow
<1>4. QED
  BY <1>2, <1>3, PTL
===============================================================================
