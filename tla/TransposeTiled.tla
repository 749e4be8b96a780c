---------------------------- MODULE TransposeTiled ----------------------------
(***************************************************************************)
(* lib/mat-transpose/TransposeTiledMultiThreaded: the matrix is cut into   *)
(* square tiles, and numThreads threads copy them, thread t taking the     *)
(* entries t, t + numThreads, ... of the vector blocks.  The vector is     *)
(* constructed with one zeroed (empty) block per tile before the real ones *)
(* are appended, so its first half is empty.                               *)
(*                                                                         *)
(* A step copies one element; element x of the source holds the value x,   *)
(* so that a result tells where each value came from.  Tiles are not       *)
(* clipped at the edge of the matrix.                                      *)
(***************************************************************************)
EXTENDS Integers

CONSTANTS
  RowCount, ColCount, TileSize,
  MaxThreads,  \* bound on the argument of transpose_server
  Outside,     \* what a read beyond the source returns
  Old          \* what the destination holds before

ASSUME SizeAssumption ==
  /\ RowCount \in Nat \ {0} /\ ColCount \in Nat \ {0} /\ TileSize \in Nat \ {0}
  /\ MaxThreads \in Nat
  /\ Outside \notin Nat /\ Old \notin Nat

VARIABLES
  numThreads,  \* gWorkspace.numWorkerThreads
  dst,         \* the destination matrix
  stray,       \* an element beyond the destination has been written
  idx,         \* thread t: the block it is at
  pos,         \* thread t: the elements of that block it has copied
  returned     \* every thread has been joined

vars == <<numThreads, dst, stray, idx, pos, returned>>

\* main refuses a count n with n & (n - 1) set; 0 is not refused.
Accepted(count) == count = 0 \/ \E e \in 0 .. count : count = 2^e

Threads == 0 .. numThreads - 1

Cells == 0 .. RowCount * ColCount - 1

NumBlocksInRow == (RowCount + TileSize - 1) \div TileSize
NumBlocksInCol == (ColCount + TileSize - 1) \div TileSize
NumBlocks == NumBlocksInRow * NumBlocksInCol

\* blocks.size(): the zeroed entries and the appended ones.
BlockCount == 2 * NumBlocks

BlockSize(b) == IF b < NumBlocks THEN 0 ELSE TileSize * TileSize

\* Row and column of element k of block b; bi runs fastest.
Row(b, k) == ((b - NumBlocks) % NumBlocksInRow) * TileSize + (k \div TileSize)
Col(b, k) == ((b - NumBlocks) \div NumBlocksInRow) * TileSize + (k % TileSize)

\* The elements read and written: src[i * colCount + j], dst[j * rowCount + i].
Source(t) == Row(idx[t], pos[t]) * ColCount + Col(idx[t], pos[t])
Target(t) == Col(idx[t], pos[t]) * RowCount + Row(idx[t], pos[t])

SourceValue(t) == IF Source(t) \in Cells THEN Source(t) ELSE Outside

Init ==
  /\ numThreads \in {count \in 0 .. MaxThreads : Accepted(count)}
  /\ dst = [x \in Cells |-> Old]
  /\ stray = FALSE
  /\ idx = [t \in Threads |-> t]
  /\ pos = [t \in Threads |-> 0]
  /\ returned = FALSE

Copying(t) == idx[t] < BlockCount /\ pos[t] < BlockSize(idx[t])

CopyElement(t) ==
  /\ Copying(t)
  /\ IF Target(t) \in Cells
       THEN dst' = [dst EXCEPT ![Target(t)] = SourceValue(t)] /\ UNCHANGED stray
       ELSE stray' = TRUE /\ UNCHANGED dst
  /\ pos' = [pos EXCEPT ![t] = @ + 1]
  /\ UNCHANGED <<numThreads, idx, returned>>

Stride_One == 1
Stride_None == 0
Stride == numThreads

NextBlock(t) ==
  /\ idx[t] < BlockCount
  /\ ~Copying(t)
  /\ idx' = [idx EXCEPT ![t] = @ + Stride]
  /\ pos' = [pos EXCEPT ![t] = 0]
  /\ UNCHANGED <<numThreads, dst, stray, returned>>

Joined_FirstOnly == {0} \cap Threads
Joined == Threads

Join ==
  /\ ~returned
  /\ \A t \in Joined : idx[t] >= BlockCount
  /\ returned' = TRUE
  /\ UNCHANGED <<numThreads, dst, stray, idx, pos>>

ThreadStep(t) == t \in Threads /\ (CopyElement(t) \/ NextBlock(t))

Next == (\E t \in 0 .. MaxThreads - 1 : ThreadStep(t)) \/ Join

Spec == Init /\ [][Next]_vars

FairSpec == Spec /\ WF_vars(Join) /\ \A t \in 0 .. MaxThreads - 1 : WF_vars(ThreadStep(t))

-------------------------------------------------------------------------------
\* TransposeNaive: dst[j * rowCount + i] = src[i * colCount + j].
TransposeNaive == [x \in Cells |-> (x % RowCount) * ColCount + (x \div RowCount)]

\* The client's comparison of a result with the reference.
MatricesAreEqual(a, b) == \A x \in Cells : a[x] = b[x]

\* No two threads are ever about to write the same element, and none writes
\* beyond the matrix: the unsynchronized stores do not race.
WritersDisjoint ==
  /\ ~stray
  /\ \A t, u \in Threads : t # u /\ Copying(t) /\ Copying(u) => Target(t) # Target(u)

\* When the call returns the destination is the transpose that TransposeNaive
\* computes, whatever the number of the threads and their scheduling; with no
\* thread at all, which main accepts, it is as before.
Correct ==
  returned => MatricesAreEqual(dst, IF numThreads = 0 THEN [x \in Cells |-> Old] ELSE TransposeNaive)

\* The call returns.
Returns == <>returned
===============================================================================
