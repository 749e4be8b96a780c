----------------------- MODULE SharedMatrixBuffer_proofs -----------------------
(***************************************************************************)
(* For any number of objects, any sizes and any word width: the borrower's *)
(* mapping has memory behind it, the owner's initialization erases nothing *)
(* of the borrower's, the name is where it should be, and the counts and   *)
(* indices of a matrix are those of its object.                            *)
(***************************************************************************)
EXTENDS SharedMatrixBuffer, TLAPS

-------------------------------------------------------------------------------
(* The inductive invariant.                                                *)

TypeOK ==
  /\ created \in Nat /\ name \in 0 .. created /\ announced \in 0 .. created
  /\ oObj \in 0 .. created /\ bObj \in 0 .. created
  /\ size \in Nat /\ orphan \in BOOLEAN
  /\ sized \subseteq 1 .. created /\ written \subseteq 1 .. created
  /\ oPc \in {"none", "threw", "opened", "sized", "mapped", "ready"}
  /\ bPc \in {"none", "threw", "refused", "opened", "ready"}

\* An object whose constructor has not ended is the owner's alone.
FreshInv ==
  oPc \in {"opened", "sized", "mapped"} =>
    oObj \notin written /\ oObj # bObj /\ oObj # announced

SizeInv ==
  /\ oPc \in {"sized", "mapped", "ready"} => oObj \in sized
  /\ bPc \in {"opened", "ready"} => bObj \in sized

\* Until the borrower has opened it, the name of the last Subscribe leads to a
\* complete object, whatever has become of its owner.
SubscribeInv ==
  Outstanding =>
    /\ name = announced /\ announced \in sized
    /\ oPc \in Away \/ (oPc = "ready" /\ oObj = announced)

\* A living owner has opened an object; a borrower in its constructor has
\* opened the one it was told of, that of the owner if there is one.
OpenInv ==
  /\ oPc \notin Away => oObj # 0
  /\ bPc = "opened" => bObj = announced /\ (oPc \notin Away => bObj = oObj)

\* The strengthening of the four properties that every step preserves.
IInv ==
  /\ TypeOK /\ FreshInv /\ SizeInv /\ SubscribeInv /\ OpenInv
  /\ OwnerHoldsName /\ NameReleased

-------------------------------------------------------------------------------
LEMMA InitIInv == Init => IInv
<1> SUFFICES ASSUME Init PROVE IInv
  OBVIOUS
<1>1. TypeOK
  <2>1. size \in Nat /\ 0 \in 0 .. 0
    BY ObjectsAssumption DEF Init
  <2>2. QED
    BY <2>1 DEF Init, TypeOK
<1>2. FreshInv /\ SizeInv /\ SubscribeInv /\ OpenInv /\ OwnerHoldsName /\ NameReleased
  BY DEF Init, FreshInv, SizeInv, SubscribeInv, OpenInv, Outstanding, OwnerHoldsName,
     NameReleased, Away
<1>3. QED
  BY <1>1, <1>2 DEF IInv

LEMMA NextIInv == IInv /\ [Next]_vars => IInv'
<1> SUFFICES ASSUME IInv, [Next]_vars PROVE IInv'
  OBVIOUS
<1>inv. /\ TypeOK /\ FreshInv /\ SizeInv /\ SubscribeInv /\ OpenInv
        /\ OwnerHoldsName /\ NameReleased
  BY DEF IInv
<1>1. CASE OwnerOpen
  <2> USE <1>1 DEF OwnerOpen, NewObject, Away, borrowerVars
  <2>1. TypeOK'
    BY <1>inv DEF TypeOK, SubscribeInv, OpenInv, Outstanding
  <2>2. FreshInv' /\ SizeInv'
    BY <1>inv DEF TypeOK, FreshInv, SizeInv, SubscribeInv, Outstanding
  <2>3. SubscribeInv' /\ OpenInv'
    BY <1>inv DEF TypeOK, FreshInv, SizeInv, SubscribeInv, OpenInv, OwnerHoldsName, Outstanding
  <2>4. OwnerHoldsName' /\ NameReleased'
    BY <1>inv DEF TypeOK, SubscribeInv, OpenInv, OwnerHoldsName, NameReleased, Outstanding
  <2>5. QED
    BY <2>1, <2>2, <2>3, <2>4 DEF IInv
<1>2. CASE OwnerTruncate
  <2> USE <1>2 DEF OwnerTruncate, Truncated, borrowerVars, Away
  <2>1. TypeOK'
    BY <1>inv DEF TypeOK, SubscribeInv, OpenInv, Outstanding
  <2>2. FreshInv' /\ SizeInv'
    BY <1>inv DEF TypeOK, FreshInv, SizeInv, SubscribeInv, Outstanding
  <2>3. SubscribeInv' /\ OpenInv'
    BY <1>inv DEF TypeOK, FreshInv, SizeInv, SubscribeInv, OpenInv, OwnerHoldsName, Outstanding
  <2>4. OwnerHoldsName' /\ NameReleased'
    BY <1>inv DEF TypeOK, SubscribeInv, OpenInv, OwnerHoldsName, NameReleased, Outstanding
  <2>5. QED
    BY <2>1, <2>2, <2>3, <2>4 DEF IInv
<1>3. CASE OwnerMap
  <2> USE <1>3 DEF OwnerMap, borrowerVars, Away
  <2>1. TypeOK'
    BY <1>inv DEF TypeOK, SubscribeInv, OpenInv, Outstanding
  <2>2. FreshInv' /\ SizeInv'
    BY <1>inv DEF TypeOK, FreshInv, SizeInv, SubscribeInv, Outstanding
  <2>3. SubscribeInv' /\ OpenInv'
    BY <1>inv DEF TypeOK, FreshInv, SizeInv, SubscribeInv, OpenInv, OwnerHoldsName, Outstanding
  <2>4. OwnerHoldsName' /\ NameReleased'
    BY <1>inv DEF TypeOK, SubscribeInv, OpenInv, OwnerHoldsName, NameReleased, Outstanding
  <2>5. QED
    BY <2>1, <2>2, <2>3, <2>4 DEF IInv
<1>4. CASE OwnerFails
  <2> USE <1>4 DEF OwnerFails, NameAfterFailure, borrowerVars, Away
  <2>1. TypeOK'
    BY <1>inv DEF TypeOK, SubscribeInv, OpenInv, Outstanding
  <2>2. FreshInv' /\ SizeInv'
    BY <1>inv DEF TypeOK, FreshInv, SizeInv, SubscribeInv, Outstanding
  <2>3. SubscribeInv' /\ OpenInv'
    BY <1>inv DEF TypeOK, FreshInv, SizeInv, SubscribeInv, OpenInv, OwnerHoldsName, Outstanding
  <2>4. OwnerHoldsName' /\ NameReleased'
    BY <1>inv DEF TypeOK, SubscribeInv, OpenInv, OwnerHoldsName, NameReleased, Outstanding
  <2>5. QED
    BY <2>1, <2>2, <2>3, <2>4 DEF IInv
<1>5. CASE OwnerFill
  <2> USE <1>5 DEF OwnerFill, borrowerVars, Away
  <2>1. TypeOK'
    BY <1>inv DEF TypeOK, SubscribeInv, OpenInv, Outstanding
  <2>2. FreshInv' /\ SizeInv'
    BY <1>inv DEF TypeOK, FreshInv, SizeInv, SubscribeInv, Outstanding
  <2>3. SubscribeInv' /\ OpenInv'
    BY <1>inv DEF TypeOK, FreshInv, SizeInv, SubscribeInv, OpenInv, OwnerHoldsName, Outstanding
  <2>4. OwnerHoldsName' /\ NameReleased'
    BY <1>inv DEF TypeOK, SubscribeInv, OpenInv, OwnerHoldsName, NameReleased, Outstanding
  <2>5. QED
    BY <2>1, <2>2, <2>3, <2>4 DEF IInv
<1>6. CASE OwnerSubscribe
  <2> USE <1>6 DEF OwnerSubscribe, ownerVars, borrowerVars, Away
  <2>1. TypeOK'
    BY <1>inv DEF TypeOK, SubscribeInv, OpenInv, Outstanding
  <2>2. FreshInv' /\ SizeInv'
    BY <1>inv DEF TypeOK, FreshInv, SizeInv, SubscribeInv, Outstanding
  <2>3. SubscribeInv' /\ OpenInv'
    BY <1>inv DEF TypeOK, FreshInv, SizeInv, SubscribeInv, OpenInv, OwnerHoldsName, Outstanding
  <2>4. OwnerHoldsName' /\ NameReleased'
    BY <1>inv DEF TypeOK, SubscribeInv, OpenInv, OwnerHoldsName, NameReleased, Outstanding
  <2>5. QED
    BY <2>1, <2>2, <2>3, <2>4 DEF IInv
<1>7. CASE OwnerDestroy
  <2> USE <1>7 DEF OwnerDestroy, NameAfterDestroy, borrowerVars, Away
  <2>1. TypeOK'
    BY <1>inv DEF TypeOK, SubscribeInv, OpenInv, Outstanding
  <2>2. FreshInv' /\ SizeInv'
    BY <1>inv DEF TypeOK, FreshInv, SizeInv, SubscribeInv, Outstanding
  <2>3. SubscribeInv' /\ OpenInv'
    BY <1>inv DEF TypeOK, FreshInv, SizeInv, SubscribeInv, OpenInv, OwnerHoldsName, Outstanding
  <2>4. OwnerHoldsName' /\ NameReleased'
    BY <1>inv DEF TypeOK, SubscribeInv, OpenInv, OwnerHoldsName, NameReleased, Outstanding
  <2>5. QED
    BY <2>1, <2>2, <2>3, <2>4 DEF IInv
<1>8. CASE OwnerCrash
  <2> USE <1>8 DEF OwnerCrash, borrowerVars, Away
  <2>1. TypeOK'
    BY <1>inv DEF TypeOK, SubscribeInv, OpenInv, Outstanding
  <2>2. FreshInv' /\ SizeInv'
    BY <1>inv DEF TypeOK, FreshInv, SizeInv, SubscribeInv, Outstanding
  <2>3. SubscribeInv' /\ OpenInv'
    BY <1>inv DEF TypeOK, FreshInv, SizeInv, SubscribeInv, OpenInv, OwnerHoldsName, Outstanding
  <2>4. OwnerHoldsName' /\ NameReleased'
    BY <1>inv DEF TypeOK, SubscribeInv, OpenInv, OwnerHoldsName, NameReleased, Outstanding
  <2>5. QED
    BY <2>1, <2>2, <2>3, <2>4 DEF IInv
<1>9. CASE CleanUp
  <2> USE <1>9 DEF CleanUp, ownerVars, borrowerVars, Away
  <2>1. TypeOK'
    <3>1. name' \in 0 .. created'
      BY <1>inv DEF TypeOK
    <3>2. QED
      BY <1>inv, <3>1, Zenon DEF TypeOK
  <2>2. FreshInv' /\ SizeInv'
    BY <1>inv DEF TypeOK, FreshInv, SizeInv, SubscribeInv, Outstanding
  <2>3. SubscribeInv' /\ OpenInv'
    BY <1>inv DEF TypeOK, FreshInv, SizeInv, SubscribeInv, OpenInv, OwnerHoldsName, Outstanding
  <2>4. OwnerHoldsName' /\ NameReleased'
    BY <1>inv DEF TypeOK, SubscribeInv, OpenInv, OwnerHoldsName, NameReleased, Outstanding
  <2>5. QED
    BY <2>1, <2>2, <2>3, <2>4 DEF IInv
<1>10. CASE BorrowerOpen
  <2> USE <1>10 DEF BorrowerOpen, MayOpen, NewObject, ownerVars, Away
  <2>1. TypeOK'
    BY <1>inv DEF TypeOK, SubscribeInv, OpenInv, Outstanding
  <2>2. FreshInv' /\ SizeInv'
    BY <1>inv DEF TypeOK, FreshInv, SizeInv, SubscribeInv, Outstanding
  <2>3. SubscribeInv' /\ OpenInv'
    BY <1>inv DEF TypeOK, FreshInv, SizeInv, SubscribeInv, OpenInv, OwnerHoldsName, Outstanding
  <2>4. OwnerHoldsName' /\ NameReleased'
    BY <1>inv DEF TypeOK, SubscribeInv, OpenInv, OwnerHoldsName, NameReleased, Outstanding
  <2>5. QED
    BY <2>1, <2>2, <2>3, <2>4 DEF IInv
<1>11. CASE BorrowerMap
  <2> USE <1>11 DEF BorrowerMap, ownerVars, Away
  <2>1. TypeOK'
    BY <1>inv DEF TypeOK, SubscribeInv, OpenInv, Outstanding
  <2>2. FreshInv' /\ SizeInv'
    BY <1>inv DEF TypeOK, FreshInv, SizeInv, SubscribeInv, Outstanding
  <2>3. SubscribeInv' /\ OpenInv'
    BY <1>inv DEF TypeOK, FreshInv, SizeInv, SubscribeInv, OpenInv, OwnerHoldsName, Outstanding
  <2>4. OwnerHoldsName' /\ NameReleased'
    BY <1>inv DEF TypeOK, SubscribeInv, OpenInv, OwnerHoldsName, NameReleased, Outstanding
  <2>5. QED
    BY <2>1, <2>2, <2>3, <2>4 DEF IInv
<1>12. CASE BorrowerFails
  <2> USE <1>12 DEF BorrowerFails, ownerVars, Away
  <2>1. TypeOK'
    <3>1. name' \in 0 .. created'
      BY <1>inv DEF TypeOK
    <3>2. QED
      BY <1>inv, <3>1, Zenon DEF TypeOK
  <2>2. FreshInv' /\ SizeInv'
    BY <1>inv DEF TypeOK, FreshInv, SizeInv, SubscribeInv, Outstanding
  <2>3. SubscribeInv' /\ OpenInv'
    BY <1>inv DEF TypeOK, FreshInv, SizeInv, SubscribeInv, OpenInv, OwnerHoldsName, Outstanding
  <2>4. OwnerHoldsName' /\ NameReleased'
    BY <1>inv DEF TypeOK, SubscribeInv, OpenInv, OwnerHoldsName, NameReleased, Outstanding
  <2>5. QED
    BY <2>1, <2>2, <2>3, <2>4 DEF IInv
<1>13. CASE BorrowerWrite
  <2> USE <1>13 DEF BorrowerWrite, ownerVars, Away
  <2>1. TypeOK'
    BY <1>inv DEF TypeOK, SizeInv
  <2>2. FreshInv' /\ SizeInv'
    BY <1>inv DEF TypeOK, FreshInv, SizeInv, SubscribeInv, Outstanding
  <2>3. SubscribeInv' /\ OpenInv'
    BY <1>inv DEF TypeOK, FreshInv, SizeInv, SubscribeInv, OpenInv, OwnerHoldsName, Outstanding
  <2>4. OwnerHoldsName' /\ NameReleased'
    BY <1>inv DEF TypeOK, SubscribeInv, OpenInv, OwnerHoldsName, NameReleased, Outstanding
  <2>5. QED
    BY <2>1, <2>2, <2>3, <2>4 DEF IInv
<1>14. CASE BorrowerDestroy
  <2> USE <1>14 DEF BorrowerDestroy, NameAfterDestroy, ownerVars, Away
  <2>1. TypeOK'
    BY <1>inv DEF TypeOK, SubscribeInv, OpenInv, Outstanding
  <2>2. FreshInv' /\ SizeInv'
    BY <1>inv DEF TypeOK, FreshInv, SizeInv, SubscribeInv, Outstanding
  <2>3. SubscribeInv' /\ OpenInv'
    BY <1>inv DEF TypeOK, FreshInv, SizeInv, SubscribeInv, OpenInv, OwnerHoldsName, Outstanding
  <2>4. OwnerHoldsName' /\ NameReleased'
    BY <1>inv DEF TypeOK, SubscribeInv, OpenInv, OwnerHoldsName, NameReleased, Outstanding
  <2>5. QED
    BY <2>1, <2>2, <2>3, <2>4 DEF IInv
<1>15. CASE BorrowerRefused
  <2> USE <1>15 DEF BorrowerRefused, MayOpen, ownerVars, Away
  <2>1. TypeOK'
    BY <1>inv DEF TypeOK, SubscribeInv, OpenInv, Outstanding
  <2>2. FreshInv' /\ SizeInv'
    BY <1>inv DEF TypeOK, FreshInv, SizeInv, SubscribeInv, Outstanding
  <2>3. SubscribeInv' /\ OpenInv'
    BY <1>inv DEF TypeOK, FreshInv, SizeInv, SubscribeInv, OpenInv, OwnerHoldsName, Outstanding
  <2>4. OwnerHoldsName' /\ NameReleased'
    BY <1>inv DEF TypeOK, SubscribeInv, OpenInv, OwnerHoldsName, NameReleased, Outstanding
  <2>5. QED
    BY <2>1, <2>2, <2>3, <2>4 DEF IInv
<1>16. CASE UNCHANGED vars
  BY <1>inv, <1>16 DEF vars, ownerVars, borrowerVars, IInv, TypeOK, FreshInv, SizeInv,
     SubscribeInv, OpenInv, Outstanding, OwnerHoldsName, NameReleased
<1>17. QED
  BY <1>1, <1>2, <1>3, <1>4, <1>5, <1>6, <1>7, <1>8, <1>9, <1>10, <1>11, <1>12, <1>13, <1>14,
     <1>15, <1>16 DEF Next, OwnerStep, BorrowerStep

-------------------------------------------------------------------------------
\* The name, the objects and the progress of both constructors agree in every
\* reachable state, crashes, failed calls and clean-ups included.
THEOREM Invariance == Spec => []IInv
BY InitIInv, NextIInv, PTL DEF Spec

\* The borrower never touches a mapping of an object without size.
THEOREM MemoryBehindMapping == Spec => []NoBusError
<1>1. IInv => NoBusError
  BY DEF IInv, TypeOK, NoBusError
<1>2. QED
  BY <1>1, Invariance, PTL

\* FillWithZero and FillWithRandom find nothing the borrower wrote.
THEOREM FillsFreshObject == Spec => []NoWriteErased
<1>1. IInv => NoWriteErased
  BY DEF IInv, FreshInv, NoWriteErased
<1>2. QED
  BY <1>1, Invariance, PTL

\* A living owner's name leads to its object, a failed mmap of the borrower aside.
THEOREM NameKept == Spec => []OwnerHoldsName
<1>1. IInv => OwnerHoldsName
  BY DEF IInv
<1>2. QED
  BY <1>1, Invariance, PTL

\* Only a crash leaves a name behind.
THEOREM NameFreed == Spec => []NameReleased
<1>1. IInv => NameReleased
  BY DEF IInv
<1>2. QED
  BY <1>1, Invariance, PTL

-------------------------------------------------------------------------------
(* The size of a matrix.                                                   *)

LEMMA WordFacts ==
  /\ WordBits \in Nat /\ WordBits >= 1
  /\ \A a \in 0 .. 2 * WordBits : 2^a \in Nat /\ 2^a >= 1
BY WordAssumption, PowersAssumption

\* Below the width a power of 2 fits into the word; from there on up to twice
\* the width all its bits are lost.
LEMMA TruncatePower ==
  ASSUME NEW a \in 0 .. 2 * WordBits
  PROVE  Truncate(2^a) = IF a < WordBits THEN 2^a ELSE 0
<1> DEFINE word == 2^WordBits
<1>1. word \in Nat /\ word >= 1 /\ 2^a \in Nat
  BY WordFacts
<1>2. CASE a < WordBits
  <2> DEFINE rest == WordBits - a
  <2>1. rest \in 1 .. WordBits /\ rest - 1 \in 0 .. 2 * WordBits /\ a + rest = WordBits
    BY <1>2, WordFacts
  <2>2. word = 2^a * 2^rest
    BY <2>1, WordFacts, PowersAssumption
  <2>3. 2^rest >= 2 /\ 2^rest \in Nat
    <3>1. 2^1 = 2
      OBVIOUS
    <3>2. 1 \in 0 .. 2 * WordBits /\ 1 + (rest - 1) = rest
      BY <2>1, WordFacts
    <3>3. 2^rest = 2 * 2^(rest - 1)
      BY <2>1, <3>1, <3>2, PowersAssumption
    <3>4. 2^(rest - 1) \in Nat /\ 2^(rest - 1) >= 1
      BY <2>1, WordFacts
    <3>5. QED
      BY <3>3, <3>4
  <2>4. 2^a < word
    <3>1. 2^a >= 1
      BY WordFacts
    <3> HIDE DEF word, rest
    <3>2. \A x, y \in Nat : x >= 1 /\ y >= 2 => x < x * y
      OBVIOUS
    <3>3. QED
      BY <1>1, <2>2, <2>3, <3>1, <3>2
  <2>5. \A x, d \in Nat : x < d => x % d = x
    OBVIOUS
  <2>6. QED
    BY <1>1, <1>2, <2>4, <2>5 DEF Truncate
<1>3. CASE a >= WordBits
  <2> DEFINE rest == a - WordBits
  <2>1. rest \in 0 .. 2 * WordBits /\ WordBits \in 0 .. 2 * WordBits /\ rest + WordBits = a
    BY <1>3, WordFacts
  <2>2. 2^a = 2^rest * word /\ 2^rest \in Nat
    BY <2>1, WordFacts, PowersAssumption
  <2>3. \A x, d \in Nat : d >= 1 => (x * d) % d = 0
    OBVIOUS
  <2>4. QED
    BY <1>1, <1>3, <2>2, <2>3, WordFacts DEF Truncate
<1>4. QED
  BY <1>2, <1>3, WordFacts

\* A shift modulo twice the width that is below the width is the same modulo
\* the width.
LEMMA ShiftModulo ==
  ASSUME NEW e \in Nat, e % (2 * WordBits) < WordBits
  PROVE  e % WordBits = e % (2 * WordBits)
<1>1. \A d, q, r \in Nat : r < d => ((2 * q) * d + r) % d = r
  OBVIOUS
<1> DEFINE q == e \div (2 * WordBits)
           r == e % (2 * WordBits)
<1>2. q \in Nat /\ r \in Nat /\ e = (2 * WordBits) * q + r
  <2>1. \A x, d \in Nat : d >= 1 => /\ x \div d \in Nat /\ x % d \in Nat
                                    /\ x = d * (x \div d) + (x % d)
    OBVIOUS
  <2>2. 2 * WordBits \in Nat /\ 2 * WordBits >= 1
    BY WordFacts
  <2>3. QED
    BY <2>1, <2>2
<1>3. e = (2 * q) * WordBits + r
  <2> HIDE DEF q, r
  <2>1. \A d, x \in Nat : (2 * d) * x = (2 * x) * d
    OBVIOUS
  <2>2. QED
    BY <1>2, <2>1, WordFacts
<1>4. QED
  BY <1>1, <1>2, <1>3, WordFacts

\* The counts of the class, where they are not 0, are those of the loops.
LEMMA CountIs ==
  ASSUME NEW e \in Nat
  PROVE  /\ CountOf(e) \in {0, ShiftedInt(e)}
         /\ e % WordBits \in 0 .. WordBits - 1
<1>1. e % (2 * WordBits) \in 0 .. 2 * WordBits /\ e % WordBits \in 0 .. WordBits - 1
  BY WordFacts
<1>2. CASE e % (2 * WordBits) < WordBits
  BY <1>1, <1>2, TruncatePower, ShiftModulo DEF CountOf, ShiftedInt
<1>3. CASE ~(e % (2 * WordBits) < WordBits)
  BY <1>1, <1>3, TruncatePower DEF CountOf
<1>4. QED
  BY <1>1, <1>2, <1>3

\* An object with any bytes at all has room for the whole matrix.
LEMMA SizeFits ==
  ASSUME m \in Nat, n \in Nat, ElementCount # 0
  PROVE  ShiftedInt(m) * ShiftedInt(n) = ElementCount
<1> DEFINE a == m % WordBits
           b == n % WordBits
<1>1. a \in 0 .. 2 * WordBits /\ b \in 0 .. 2 * WordBits /\ a + b \in 0 .. 2 * WordBits
  BY CountIs, WordFacts
<1>2. 2^a * 2^b = 2^(a + b) /\ 2^(a + b) \in Nat /\ 2^a \in Nat /\ 2^b \in Nat
  BY <1>1, PowersAssumption, WordFacts
<1>3. CountOf(m) \in {0, 2^a} /\ CountOf(n) \in {0, 2^b}
  BY CountIs DEF ShiftedInt
<1>4. Truncate(0) = 0
  <2>1. 2^WordBits \in Nat /\ 2^WordBits >= 1
    BY WordFacts
  <2>2. \A d \in Nat : d >= 1 => 0 % d = 0
    OBVIOUS
  <2>3. QED
    BY <2>1, <2>2 DEF Truncate
<1>5. CountOf(m) # 0 /\ CountOf(n) # 0
  <2>1. \A x \in Nat : 0 * x = 0 /\ x * 0 = 0
    OBVIOUS
  <2>2. SUFFICES ASSUME CountOf(m) = 0 \/ CountOf(n) = 0 PROVE FALSE
    OBVIOUS
  <2>3. CountOf(m) \in Nat /\ CountOf(n) \in Nat
    BY <1>2, <1>3
  <2>4. CountOf(m) * CountOf(n) = 0
    BY <2>1, <2>2, <2>3
  <2>5. QED
    BY <1>4, <2>4 DEF ElementCount
<1>6. ElementCount = Truncate(2^(a + b))
  BY <1>2, <1>3, <1>5 DEF ElementCount
<1>7. ElementCount = 2^(a + b)
  BY <1>1, <1>6, TruncatePower
<1>8. QED
  BY <1>2, <1>7 DEF ShiftedInt

\* Nothing is mapped with no bytes.
SizeIInv ==
  /\ m \in Nat /\ n \in Nat /\ size = ElementCount
  /\ oPc \in {"mapped", "ready"} \/ bPc = "ready" => size # 0

LEMMA InitSize == MatInit => SizeIInv
<1> SUFFICES ASSUME MatInit PROVE SizeIInv
  OBVIOUS
<1>1. m \in Nat /\ n \in Nat
  BY WordAssumption DEF MatInit
<1>2. QED
  BY <1>1 DEF MatInit, Init, SizeIInv

LEMMA NextSize == SizeIInv /\ [MatNext]_matVars => SizeIInv'
<1> SUFFICES ASSUME SizeIInv, [MatNext]_matVars PROVE SizeIInv'
  OBVIOUS
<1>1. UNCHANGED <<m, n, size>>
  BY DEF MatNext, Next, OwnerStep, BorrowerStep, matVars, vars, OwnerOpen, OwnerTruncate,
     OwnerMap, OwnerFails, OwnerFill, OwnerSubscribe, OwnerDestroy, OwnerCrash, CleanUp,
     BorrowerOpen, BorrowerRefused, BorrowerMap, BorrowerFails, BorrowerWrite, BorrowerDestroy
<1>2. ElementCount' = ElementCount
  BY <1>1 DEF ElementCount, CountOf, Truncate
<1>3. oPc' \in {"mapped", "ready"} \/ bPc' = "ready" => size # 0
  BY DEF SizeIInv, MatNext, Next, OwnerStep, BorrowerStep, matVars, vars, ownerVars, borrowerVars,
     OwnerOpen, OwnerTruncate, OwnerMap, OwnerFails, OwnerFill, OwnerSubscribe, OwnerDestroy,
     OwnerCrash, CleanUp, BorrowerOpen, BorrowerRefused, BorrowerMap, BorrowerFails, BorrowerWrite, BorrowerDestroy
<1>4. QED
  BY <1>1, <1>2, <1>3 DEF SizeIInv

-------------------------------------------------------------------------------
(* The elements of a matrix, row by row.                                   *)

\* The places of r rows of c are the numbers below r * c.
LEMMA RowMajor ==
  ASSUME NEW r \in Nat \ {0}, NEW c \in Nat \ {0}
  PROVE  /\ r * c \in Nat
         /\ \A i \in 0 .. r - 1, j \in 0 .. c - 1 : i * c + j \in 0 .. r * c - 1
         /\ \A x \in 0 .. r * c - 1 :
              \E i \in 0 .. r - 1, j \in 0 .. c - 1 : x = i * c + j
<1>1. r * c \in Nat
  OBVIOUS
<1>2. ASSUME NEW p \in Nat, NEW q \in Nat, p < q
      PROVE  p * c \in Nat /\ q * c \in Nat /\ p * c + c <= q * c
  <2>1. q - p - 1 \in Nat /\ q = p + 1 + (q - p - 1)
    BY <1>2
  <2>2. \A e \in Nat : (p + 1 + e) * c = p * c + c + e * c /\ e * c \in Nat /\ p * c \in Nat
    OBVIOUS
  <2>3. QED
    BY <2>1, <2>2
<1>3. ASSUME NEW i \in 0 .. r - 1, NEW j \in 0 .. c - 1
      PROVE  i * c + j \in 0 .. r * c - 1
  BY <1>1, <1>2
<1>4. ASSUME NEW x \in 0 .. r * c - 1
      PROVE  \E i \in 0 .. r - 1, j \in 0 .. c - 1 : x = i * c + j
  <2> DEFINE i == x \div c
             j == x % c
  <2>1. i \in Nat /\ j \in 0 .. c - 1 /\ x = i * c + j
    <3>1. \A y, d \in Nat : d >= 1 =>
            y \div d \in Nat /\ y % d \in 0 .. d - 1 /\ y = d * (y \div d) + (y % d)
      OBVIOUS
    <3>2. \A y, d \in Nat : d * y = y * d
      OBVIOUS
    <3>3. x \in Nat /\ c \in Nat /\ c >= 1
      BY <1>1
    <3>4. QED
      BY <3>1, <3>2, <3>3
  <2> HIDE DEF i, j
  <2>2. ~(r < i) /\ i # r
    BY <1>1, <1>2, <2>1
  <2>3. QED
    BY <2>1, <2>2
<1>5. QED
  BY <1>1, <1>3, <1>4

\* In a matrix with fewer elements than the word has values no index wraps.
LEMMA IndicesCover ==
  ASSUME NEW r \in Nat \ {0}, NEW c \in Nat \ {0}, r * c < 2^WordBits
  PROVE  /\ \A i \in 0 .. r - 1, j \in 0 .. c - 1 : Truncate(i * c + j) \in 0 .. r * c - 1
         /\ \A x \in 0 .. r * c - 1 :
              \E i \in 0 .. r - 1, j \in 0 .. c - 1 : x = Truncate(i * c + j)
<1>1. 2^WordBits \in Nat /\ r * c \in Nat
  BY WordFacts
<1>2. ASSUME NEW x \in 0 .. r * c - 1 PROVE Truncate(x) = x
  <2>1. \A y, d \in Nat : y < d => y % d = y
    OBVIOUS
  <2>2. QED
    BY <1>1, <2>1 DEF Truncate
<1>3. \A i \in 0 .. r - 1, j \in 0 .. c - 1 :
        Truncate(i * c + j) = i * c + j /\ Truncate(i * c + j) \in 0 .. r * c - 1
  BY <1>2, RowMajor
<1>4. ASSUME NEW x \in 0 .. r * c - 1
      PROVE  \E i \in 0 .. r - 1, j \in 0 .. c - 1 : x = Truncate(i * c + j)
  <2>1. PICK i \in 0 .. r - 1, j \in 0 .. c - 1 : x = i * c + j
    BY RowMajor
  <2>2. x = Truncate(i * c + j)
    BY <1>3, <2>1
  <2>3. QED
    BY <2>2
<1>5. QED
  BY <1>3, <1>4

LEMMA CountsMatchNow ==
  ASSUME SizeIInv
  PROVE  CountsMatchObject
<1> DEFINE r == ShiftedInt(m)
           c == ShiftedInt(n)
<1>1. ASSUME size # 0
      PROVE  /\ r \in Nat \ {0} /\ c \in Nat \ {0} /\ r * c = size
             /\ size < 2^WordBits /\ Truncate(size) = size
  <2>1. r \in Nat \ {0} /\ c \in Nat \ {0}
    BY CountIs, WordFacts DEF SizeIInv, ShiftedInt
  <2>2. r * c = size
    BY <1>1, SizeFits DEF SizeIInv
  <2>3. size < 2^WordBits
    <3>1. CountOf(m) * CountOf(n) \in Nat
      <4>1. CountOf(m) \in Nat /\ CountOf(n) \in Nat
        BY <2>1, CountIs DEF SizeIInv
      <4>2. QED
        BY <4>1
    <3>2. \A x, d \in Nat : d >= 1 => x % d < d
      OBVIOUS
    <3>3. 2^WordBits \in Nat /\ 2^WordBits >= 1
      BY WordFacts
    <3>4. QED
      BY <3>1, <3>2, <3>3 DEF SizeIInv, ElementCount, Truncate
  <2>4. Truncate(size) = size
    <3>1. \A x, d \in Nat : x < d => x % d = x
      OBVIOUS
    <3>2. size \in Nat /\ 2^WordBits \in Nat
      BY <2>1, <2>2, WordFacts
    <3>3. QED
      BY <2>3, <3>1, <3>2 DEF Truncate
  <2>5. QED
    BY <2>1, <2>2, <2>3, <2>4
<1> HIDE DEF r, c
<1>rows. Rows = 0 .. r - 1 /\ Columns = 0 .. c - 1
  BY DEF Rows, Columns, r, c
<1>2. ASSUME size # 0 PROVE NaiveReads = Elements
  <2>1. r \in Nat \ {0} /\ c \in Nat \ {0} /\ r * c = size /\ r * c < 2^WordBits
    BY <1>1, <1>2
  <2>2. /\ \A i \in Rows, j \in Columns : Truncate(i * c + j) \in 0 .. r * c - 1
        /\ \A x \in 0 .. r * c - 1 : \E i \in Rows, j \in Columns : x = Truncate(i * c + j)
    <3>1. /\ \A i \in 0 .. r - 1, j \in 0 .. c - 1 : Truncate(i * c + j) \in 0 .. r * c - 1
          /\ \A x \in 0 .. r * c - 1 :
               \E i \in 0 .. r - 1, j \in 0 .. c - 1 : x = Truncate(i * c + j)
      BY <2>1, IndicesCover, Zenon
    <3>2. QED
      BY <1>rows, <3>1, Zenon
  <2>3. /\ \A i \in Rows, j \in Columns : Truncate(i * c + j) \in Elements
        /\ \A x \in Elements : \E i \in Rows, j \in Columns : x = Truncate(i * c + j)
    BY <2>1, <2>2 DEF Elements
  <2>4. NaiveReads = {Truncate(i * c + j) : i \in Rows, j \in Columns}
    BY DEF NaiveReads, c
  <2>5. QED
    BY <2>3, <2>4
<1>3. ASSUME size # 0 PROVE NaiveWrites = Elements
  <2>1. c * r = size
    <3>1. \A x, y \in Nat : x * y = y * x
      OBVIOUS
    <3>2. QED
      BY <1>1, <1>3, <3>1
  <2>2. r \in Nat \ {0} /\ c \in Nat \ {0} /\ c * r < 2^WordBits
    BY <1>1, <1>3, <2>1
  <2>3. /\ \A j \in Columns, i \in Rows : Truncate(j * r + i) \in 0 .. c * r - 1
        /\ \A x \in 0 .. c * r - 1 : \E j \in Columns, i \in Rows : x = Truncate(j * r + i)
    <3>1. /\ \A j \in 0 .. c - 1, i \in 0 .. r - 1 : Truncate(j * r + i) \in 0 .. c * r - 1
          /\ \A x \in 0 .. c * r - 1 :
               \E j \in 0 .. c - 1, i \in 0 .. r - 1 : x = Truncate(j * r + i)
      BY <2>2, IndicesCover, Zenon
    <3>2. QED
      BY <1>rows, <3>1, Zenon
  <2>4. /\ \A j \in Columns, i \in Rows : Truncate(j * r + i) \in Elements
        /\ \A x \in Elements : \E j \in Columns, i \in Rows : x = Truncate(j * r + i)
    BY <2>1, <2>3 DEF Elements
  <2>5. NaiveWrites = {Truncate(j * r + i) : i \in Rows, j \in Columns}
    BY DEF NaiveWrites, r
  <2>6. QED
    BY <2>4, <2>5
<1>4. ASSUME size # 0 PROVE Compared = Elements
  BY <1>1, <1>4 DEF Compared, Elements, r, c
<1>5. QED
  BY <1>1, <1>2, <1>3, <1>4 DEF SizeIInv, CountsMatchObject, r, c

\* Whatever m and n, in words of any width: the client's TransposeNaive and
\* MatricesAreEqual go through exactly the elements of the objects it has
\* mapped, no count, product or index being cut off, and the counts the server
\* keeps are those of what it has mapped.
THEOREM CheckCoversObject == MatSpec => []CountsMatchObject
<1>1. SizeIInv => CountsMatchObject
  BY CountsMatchNow
<1>2. QED
  BY <1>1, InitSize, NextSize, PTL DEF MatSpec

\* A matrix buffer is a shared-memory object: what is proved above of Spec
\* holds of it.
THEOREM MatrixIsObject == MatSpec => Spec
<1>1. MatInit => Init
  BY DEF MatInit
<1>2. [MatNext]_matVars => [Next]_vars
  BY DEF MatNext, matVars
<1>3. QED
  BY <1>1, <1>2, PTL DEF MatSpec, Spec
===============================================================================
