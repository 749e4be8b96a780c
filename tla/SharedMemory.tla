----------------------------- MODULE SharedMemory -----------------------------
(***************************************************************************)
(* lib/shared-mem/SharedMemory: one named POSIX shared-memory object, its  *)
(* owner (a client process) and its borrower (the server).  The owner      *)
(* creates the object exclusively, sizes, maps and clears it and unlinks   *)
(* the name in its destructor; the borrower opens the name, creating an    *)
(* empty object if there is none, and maps it.                             *)
(*                                                                         *)
(* The kernel's part, modelled from how the class uses it: a name leads to *)
(* an object or to none, unlinking a name leaves mappings alone, an access *)
(* to a mapping of an object without size is a bus error, and an mmap of   *)
(* no bytes fails.                                                         *)
(*                                                                         *)
(* The borrower opens the name once for each owner, on its Subscribe.  No  *)
(* process id is reused between that open and the mmap after it.           *)
(***************************************************************************)
EXTENDS Naturals

CONSTANTS
  MaxObjects,      \* bound: objects ever created
  Sizes,           \* the sizes asked for
  FaultsAllowed    \* shm_open, ftruncate and mmap may fail

ASSUME ObjectsAssumption == MaxObjects \in Nat /\ Sizes \subseteq Nat
ASSUME FaultsAssumption == FaultsAllowed \in BOOLEAN

VARIABLES
  name,        \* the object the name leads to, 0 for none
  created,     \* objects created so far: 1 .. created
  size,        \* sizeInBytes, the same for both sides
  sized,       \* the objects that have their size
  written,     \* the objects that hold data the borrower wrote
  announced,   \* the object of the last Subscribe, 0 for none
  oPc, oObj,   \* the owner's constructor and the object it has opened
  bPc, bObj,   \* the borrower's, and the last object it opened or was refused
  orphan       \* the name was left behind by an owner that crashed

ownerVars == <<oPc, oObj>>
borrowerVars == <<bPc, bObj>>
vars == <<name, created, size, sized, written, announced, ownerVars, borrowerVars, orphan>>

Away == {"none", "threw", "refused"}

Init ==
  /\ name = 0 /\ created = 0 /\ sized = {} /\ written = {} /\ announced = 0
  /\ size \in Sizes
  /\ oPc = "none" /\ oObj = 0
  /\ bPc = "none" /\ bObj = 0
  /\ orphan = FALSE

\* shm_open of a name that leads nowhere, with O_CREAT.
NewObject ==
  /\ name = 0 /\ created < MaxObjects
  /\ created' = created + 1 /\ name' = created'

-------------------------------------------------------------------------------
(* The constructor, Ownership::Owner.                                      *)

\* shm_open(O_CREAT | O_EXCL): throw if the name exists, or for want of a
\* descriptor.
OwnerOpen ==
  /\ oPc \in Away /\ bPc # "opened"
  /\ \/ /\ name # 0 \/ FaultsAllowed
        /\ oPc' = "threw" /\ UNCHANGED <<name, created, oObj>>
     \/ NewObject /\ oObj' = name' /\ oPc' = "opened"
  /\ UNCHANGED <<size, sized, written, announced, borrowerVars, orphan>>

Truncated_Not == sized
Truncated == sized \cup {oObj}

OwnerTruncate ==
  /\ oPc = "opened" /\ oPc' = "sized"
  /\ sized' = Truncated
  /\ UNCHANGED <<name, created, size, written, announced, oObj, borrowerVars, orphan>>

OwnerMap ==
  /\ oPc = "sized" /\ oPc' = "mapped" /\ size # 0
  /\ UNCHANGED <<name, created, size, sized, written, announced, oObj, borrowerVars, orphan>>

NameAfterFailure_Kept == name
NameAfterFailure == 0

\* ftruncate or mmap fails: close, shm_unlink, throw.
OwnerFails ==
  /\ \/ oPc \in {"opened", "sized"} /\ FaultsAllowed
     \/ oPc = "sized" /\ size = 0
  /\ oPc' = "threw"
  /\ name' = NameAfterFailure
  /\ UNCHANGED <<created, size, sized, written, announced, oObj, borrowerVars, orphan>>

\* FillWithZero, and FillWithRandom of a matrix buffer, overwrite what is there;
\* BufferInitMode::NoInit leaves it.
OwnerFill ==
  /\ oPc = "mapped" /\ oPc' = "ready"
  /\ written' \in {written, written \ {oObj}}
  /\ UNCHANGED <<name, created, size, sized, announced, oObj, borrowerVars, orphan>>

\* The owner, all of whose objects are ready, sends its Subscribe.
OwnerSubscribe ==
  /\ oPc = "ready" /\ announced # oObj
  /\ announced' = oObj
  /\ UNCHANGED <<name, created, size, sized, written, ownerVars, borrowerVars, orphan>>

Outstanding == announced # bObj

NameAfterDestroy_Unlinked(ownership) == 0

\* The destructor unmaps, and unlinks the name if it is the owner's.
NameAfterDestroy(ownership) == IF ownership = "Owner" THEN 0 ELSE name

\* An owner whose Subscribe is on its way waits for the answer.
OwnerDestroy ==
  /\ oPc = "ready" /\ oPc' = "none"
  /\ announced = oObj => ~Outstanding
  /\ name' = NameAfterDestroy("Owner")
  /\ UNCHANGED <<created, size, sized, written, announced, oObj, borrowerVars, orphan>>

\* A process that is killed unlinks nothing.
OwnerCrash ==
  /\ oPc \notin Away /\ oPc' = "none"
  /\ orphan' = (name # 0)
  /\ UNCHANGED <<name, created, size, sized, written, announced, oObj, borrowerVars>>

\* README.md: "rm -rf /dev/shm/*" after a crash, once the server is at rest.
CleanUp ==
  /\ orphan /\ oPc \in Away /\ bPc \in Away /\ ~Outstanding
  /\ name' = 0
  /\ orphan' = FALSE
  /\ UNCHANGED <<created, size, sized, written, announced, ownerVars, borrowerVars>>

-------------------------------------------------------------------------------
(* The constructor and the destructor, Ownership::Borrower.                *)

MayOpen_BeforeSubscribe == TRUE
MayOpen == Outstanding

\* shm_open(O_CREAT): creates an object without size if there is none.
BorrowerOpen ==
  /\ bPc \in Away /\ bPc' = "opened"
  /\ MayOpen
  /\ (name # 0 /\ UNCHANGED <<name, created>>) \/ NewObject
  /\ bObj' = name'
  /\ UNCHANGED <<size, sized, written, announced, ownerVars, orphan>>

\* shm_open fails: throw, and leave the name alone.
BorrowerRefused ==
  /\ FaultsAllowed
  /\ bPc \in Away /\ bPc' = "refused"
  /\ MayOpen
  /\ bObj' = announced
  /\ UNCHANGED <<name, created, size, sized, written, announced, ownerVars, orphan>>

BorrowerMap ==
  /\ bPc = "opened" /\ bPc' = "ready" /\ size # 0
  /\ UNCHANGED <<name, created, size, sized, written, announced, ownerVars, bObj, orphan>>

\* mmap fails: shm_unlink, although the name belongs to the owner.
BorrowerFails ==
  /\ FaultsAllowed \/ size = 0
  /\ bPc = "opened" /\ bPc' = "threw"
  /\ name' = 0 /\ orphan' = FALSE
  /\ UNCHANGED <<created, size, sized, written, announced, ownerVars, bObj>>

\* Wake, Dequeue or a transpose: the borrower writes to its mapping.
BorrowerWrite ==
  /\ bPc = "ready"
  /\ written' = written \cup {bObj}
  /\ bPc' = IF bObj \in sized THEN "ready" ELSE "busError"
  /\ UNCHANGED <<name, created, size, sized, announced, ownerVars, bObj, orphan>>

BorrowerDestroy ==
  /\ bPc = "ready" /\ bPc' = "none"
  /\ name' = NameAfterDestroy("Borrower")
  /\ UNCHANGED <<created, size, sized, written, announced, ownerVars, bObj, orphan>>

-------------------------------------------------------------------------------
OwnerStep ==
  \/ OwnerOpen \/ OwnerTruncate \/ OwnerMap \/ OwnerFails \/ OwnerFill
  \/ OwnerSubscribe \/ OwnerDestroy \/ OwnerCrash

BorrowerStep ==
  \/ BorrowerOpen \/ BorrowerRefused \/ BorrowerMap \/ BorrowerFails
  \/ BorrowerWrite \/ BorrowerDestroy

Next == OwnerStep \/ CleanUp \/ BorrowerStep

Spec == Init /\ [][Next]_vars

-------------------------------------------------------------------------------
\* The borrower's mapping always has memory behind it, also when the owner
\* crashes between its Subscribe, the borrower's open and its accesses.
NoBusError == bPc # "busError"

\* FillWithZero and FillWithRandom never erase what the borrower wrote.
NoWriteErased == oPc = "mapped" => oObj \notin written

\* While an owner lives its name leads to its object, so that a borrower gets
\* the memory the owner has; only a failed mmap of the borrower, which unlinks
\* the name it does not own, may take it away.
OwnerHoldsName ==
  oPc \notin Away => name = oObj \/ (bPc = "threw" /\ bObj = oObj)

\* An owner that went away or whose constructor failed leaves no name behind,
\* unless it crashed: the next owner of that name can be constructed.
NameReleased == oPc \in Away /\ name # 0 => orphan
===============================================================================
