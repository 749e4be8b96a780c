-------------------------- MODULE SharedMatrixBuffer --------------------------
(***************************************************************************)
(* lib/matrix-buf/SharedMatrixBuffer: a matrix of 2^m rows and 2^n columns *)
(* in a shared-memory object.  The class keeps the two counts, and their   *)
(* product, in 32 bits; the server and the client's comparison shift an    *)
(* int instead.  m and n are what the user typed.                          *)
(*                                                                         *)
(* A shift by the width or more is undefined; the x86 instruction takes    *)
(* the count modulo the width, and no compiler can know m and n.           *)
(***************************************************************************)
EXTENDS SharedMemory

CONSTANTS
  WordBits,     \* 32: the width of uint32_t and int, half that of 1UL
  MaxExponent   \* bound: the largest m and n

ASSUME WordAssumption == WordBits \in Nat \ {0} /\ MaxExponent \in Nat

\* Laws of exponents, as far as the shifts go: arithmetic, not a restriction.
ASSUME PowersAssumption ==
  \A a, b \in 0 .. 2 * WordBits : 2^a \in Nat \ {0} /\ 2^(a + b) = 2^a * 2^b

VARIABLES m, n

matVars == <<vars, m, n>>

Truncate_Not(x) == x

\* The conversion to uint32_t.
Truncate(x) == x % 2^WordBits

\* m_NumRows(1UL << m), m_NumColumns(1UL << n)
CountOf(e) == Truncate(2^(e % (2 * WordBits)))

\* GetElementCount(), and the size of the object in elements.
ElementCount == Truncate(CountOf(m) * CountOf(n))

\* numRows = 1 << m in AddClient; the arguments of TransposeNaive.
ShiftedInt(e) == 2^(e % WordBits)

MatInit ==
  /\ Init
  /\ m \in 0 .. MaxExponent /\ n \in 0 .. MaxExponent
  /\ size = ElementCount

MatNext == Next /\ UNCHANGED <<m, n>>

MatSpec == MatInit /\ [][MatNext]_matVars

-------------------------------------------------------------------------------
(* The elements the client's check goes through: TransposeNaive and        *)
(* MatricesAreEqual, called with 1 << m and 1 << n.  Their indices are     *)
(* computed in uint32_t.                                                   *)

Rows == 0 .. ShiftedInt(m) - 1
Columns == 0 .. ShiftedInt(n) - 1

NaiveReads == {Truncate(i * ShiftedInt(n) + j) : i \in Rows, j \in Columns}
NaiveWrites == {Truncate(j * ShiftedInt(m) + i) : i \in Rows, j \in Columns}
Compared == 0 .. Truncate(ShiftedInt(m) * ShiftedInt(n)) - 1

Elements == 0 .. size - 1

\* Whatever m and n: the client's check reads, writes and compares each element
\* of the objects it has mapped and nothing beyond them, since where a 32-bit
\* count or product loses bits the object has no bytes and is never mapped.
\* The row and column counts the server keeps multiply to the size of what it
\* has mapped; which elements its tiles touch is the subject of TransposeTiled.
CountsMatchObject ==
  /\ oPc \in {"mapped", "ready"} =>
       NaiveReads = Elements /\ NaiveWrites = Elements /\ Compared = Elements
  /\ bPc = "ready" => ShiftedInt(m) * ShiftedInt(n) = size
===============================================================================
