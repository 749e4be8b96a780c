------------------------ MODULE TransposeTiled_proofs ------------------------
(***************************************************************************)
(* For every matrix whose sides are multiples of the tile, every number of *)
(* threads and every schedule: the threads never write the same element,   *)
(* none writes beyond the matrix, and the result is that of                *)
(* TransposeNaive.                                                         *)
(***************************************************************************)
EXTENDS TransposeTiled, TLAPS

-------------------------------------------------------------------------------
(* Arithmetic.                                                             *)

\* Quotient and remainder.
LEMMA DivMod ==
  \A x \in Nat, d \in Nat \ {0} :
    /\ x \div d \in Nat /\ x % d \in 0 .. d - 1
    /\ x = (x \div d) * d + (x % d)
<1>1. \A x, d \in Nat : d > 0 => x = d * (x \div d) + (x % d)
  OBVIOUS
<1>2. \A x, d \in Nat : d > 0 => x \div d \in Nat /\ x % d \in 0 .. d - 1
  OBVIOUS
<1>3. \A x, y \in Nat : x * y = y * x
  OBVIOUS
<1> SUFFICES ASSUME NEW x \in Nat, NEW d \in Nat \ {0}
             PROVE  /\ x \div d \in Nat /\ x % d \in 0 .. d - 1
                    /\ x = (x \div d) * d + (x % d)
  OBVIOUS
<1>4. d \in Nat /\ d > 0
  OBVIOUS
<1>5. x \div d \in Nat /\ x % d \in 0 .. d - 1
  BY <1>2, <1>4
<1>6. d * (x \div d) = (x \div d) * d
  BY <1>3, <1>4, <1>5
<1>7. x = d * (x \div d) + (x % d)
  BY <1>1, <1>4
<1>8. QED
  BY <1>5, <1>6, <1>7

\* q rows of d and r more: nobody else is at the same place.
LEMMA DivModUnique ==
  \A q, p \in Nat, d \in Nat \ {0} : \A r, s \in 0 .. d - 1 :
    q * d + r = p * d + s => q = p /\ r = s
<1> SUFFICES ASSUME NEW q \in Nat, NEW p \in Nat, NEW d \in Nat \ {0},
                    NEW r \in 0 .. d - 1, NEW s \in 0 .. d - 1, q * d + r = p * d + s
             PROVE  q = p /\ r = s
  OBVIOUS
<1>1. \A a, b, c \in Nat : a < b => a * c + c <= b * c
  <2>1. SUFFICES ASSUME NEW a \in Nat, NEW b \in Nat, NEW c \in Nat, a < b
                 PROVE  a * c + c <= b * c
    OBVIOUS
  <2>2. b - a - 1 \in Nat /\ b = a + 1 + (b - a - 1)
    BY <2>1
  <2>3. \A e \in Nat : (a + 1 + e) * c = a * c + c + e * c /\ e * c \in Nat /\ a * c \in Nat
    OBVIOUS
  <2>4. b * c = a * c + c + (b - a - 1) * c /\ (b - a - 1) * c \in Nat /\ a * c \in Nat
    BY <2>2, <2>3
  <2>5. QED
    BY <2>4
<1>2. q * d \in Nat /\ p * d \in Nat
  OBVIOUS
<1>3. ~(q < p)
  <2>1. SUFFICES ASSUME q < p PROVE FALSE
    OBVIOUS
  <2>2. q * d + d <= p * d
    BY <1>1, <2>1
  <2>3. QED
    BY <1>2, <2>2
<1>4. ~(p < q)
  <2>1. SUFFICES ASSUME p < q PROVE FALSE
    OBVIOUS
  <2>2. p * d + d <= q * d
    BY <1>1, <2>1
  <2>3. QED
    BY <1>2, <2>2
<1>5. q = p
  BY <1>3, <1>4
<1>6. QED
  BY <1>2, <1>5

\* Place r of row q in rows of d.
LEMMA Place ==
  \A q \in Nat, d \in Nat \ {0} : \A r \in 0 .. d - 1 :
    (q * d + r) \div d = q /\ (q * d + r) % d = r
<1> SUFFICES ASSUME NEW q \in Nat, NEW d \in Nat \ {0}, NEW r \in 0 .. d - 1
             PROVE  (q * d + r) \div d = q /\ (q * d + r) % d = r
  OBVIOUS
<1> DEFINE x == q * d + r
<1>1. x \in Nat
  OBVIOUS
<1>2. x \div d \in Nat /\ x % d \in 0 .. d - 1 /\ x = (x \div d) * d + (x % d)
  BY <1>1, DivMod
<1>3. x = q * d + r
  OBVIOUS
<1> HIDE DEF x
<1>4. (x \div d) * d + (x % d) = q * d + r
  BY <1>2, <1>3
<1> DEFINE p == x \div d
           s == x % d
<1>5. p \in Nat /\ s \in 0 .. d - 1 /\ p * d + s = q * d + r
  BY <1>2, <1>4
<1> HIDE DEF p, s
<1>6. p = q /\ s = r
  BY <1>5, DivModUnique
<1>7. QED
  BY <1>6 DEF x, p, s

\* n rows of d hold the places of the first n.
LEMMA Inside ==
  \A n, d \in Nat : \A q \in 0 .. n - 1, r \in 0 .. d - 1 : q * d + r \in 0 .. n * d - 1
<1> SUFFICES ASSUME NEW n \in Nat, NEW d \in Nat, NEW q \in 0 .. n - 1, NEW r \in 0 .. d - 1
             PROVE  q * d + r \in 0 .. n * d - 1
  OBVIOUS
<1>1. n - q - 1 \in Nat /\ n = q + 1 + (n - q - 1) /\ q \in Nat
  OBVIOUS
<1>2. \A e \in Nat : (q + 1 + e) * d = q * d + d + e * d /\ e * d \in Nat /\ q * d \in Nat
  OBVIOUS
<1>3. n * d = q * d + d + (n - q - 1) * d /\ (n - q - 1) * d \in Nat /\ q * d \in Nat
  BY <1>1, <1>2
<1>4. QED
  BY <1>3

LEMMA Quotient ==
  \A n \in Nat, d \in Nat \ {0} : \A x \in 0 .. n * d - 1 : x \div d \in 0 .. n - 1
<1> SUFFICES ASSUME NEW n \in Nat, NEW d \in Nat \ {0}, NEW x \in 0 .. n * d - 1
             PROVE  x \div d \in 0 .. n - 1
  OBVIOUS
<1> DEFINE q == x \div d
           r == x % d
<1>1. x \in Nat /\ n * d \in Nat /\ x < n * d
  OBVIOUS
<1>2. q \in Nat /\ r \in 0 .. d - 1 /\ x = q * d + r
  BY <1>1, DivMod
<1> HIDE DEF q, r
<1>3. ASSUME n <= q PROVE FALSE
  <2>1. q - n \in Nat /\ q = n + (q - n)
    BY <1>2, <1>3
  <2>2. \A e \in Nat : (n + e) * d = n * d + e * d /\ e * d \in Nat
    OBVIOUS
  <2>3. q * d = n * d + (q - n) * d /\ (q - n) * d \in Nat
    BY <2>1, <2>2
  <2>4. QED
    BY <1>1, <1>2, <2>3
<1>4. QED
  BY <1>2, <1>3 DEF q

\* Rounding up changes nothing where nothing is left over.
LEMMA Multiple ==
  \A n, d \in Nat \ {0} :
    n % d = 0 => LET q == (n + d - 1) \div d IN q \in Nat \ {0} /\ q * d = n
<1> SUFFICES ASSUME NEW n \in Nat \ {0}, NEW d \in Nat \ {0}, n % d = 0
             PROVE  (n + d - 1) \div d \in Nat \ {0} /\ ((n + d - 1) \div d) * d = n
  OBVIOUS
<1> DEFINE q == n \div d
<1>1. q \in Nat /\ n = q * d + (n % d) /\ q * d \in Nat
  BY DivMod
<1>2. n = q * d
  BY <1>1
<1> HIDE DEF q
<1>3. n + d - 1 = q * d + (d - 1) /\ d - 1 \in 0 .. d - 1
  BY <1>1, <1>2
<1>4. (q * d + (d - 1)) \div d = q
  BY <1>1, <1>3, Place
<1>5. q # 0
  <2>1. 0 * d = 0
    OBVIOUS
  <2>2. QED
    BY <1>2, <2>1
<1>6. QED
  BY <1>1, <1>2, <1>3, <1>4, <1>5

-------------------------------------------------------------------------------
(* The tiles of a matrix whose sides are multiples of the tile.            *)

Whole == RowCount % TileSize = 0 /\ ColCount % TileSize = 0

RealBlocks == NumBlocks .. BlockCount - 1
Elements == 0 .. TileSize * TileSize - 1

SourceOf(b, k) == Row(b, k) * ColCount + Col(b, k)
TargetOf(b, k) == Col(b, k) * RowCount + Row(b, k)

LEMMA Tiles ==
  ASSUME Whole
  PROVE  /\ RowCount \in Nat \ {0} /\ ColCount \in Nat \ {0} /\ TileSize \in Nat \ {0}
         /\ NumBlocksInRow \in Nat \ {0} /\ NumBlocksInCol \in Nat \ {0} /\ NumBlocks \in Nat
         /\ NumBlocksInRow * TileSize = RowCount /\ NumBlocksInCol * TileSize = ColCount
         /\ \A b \in RealBlocks : b \in Nat /\ b - NumBlocks \in 0 .. NumBlocksInCol * NumBlocksInRow - 1
         /\ \A x \in 0 .. NumBlocksInCol * NumBlocksInRow - 1 : NumBlocks + x \in RealBlocks
<1>1. RowCount \in Nat \ {0} /\ ColCount \in Nat \ {0} /\ TileSize \in Nat \ {0}
  BY SizeAssumption
<1>2. NumBlocksInRow \in Nat \ {0} /\ NumBlocksInRow * TileSize = RowCount
  BY <1>1, Multiple DEF Whole, NumBlocksInRow
<1>3. NumBlocksInCol \in Nat \ {0} /\ NumBlocksInCol * TileSize = ColCount
  BY <1>1, Multiple DEF Whole, NumBlocksInCol
<1>4. \A x, y \in Nat : x * y \in Nat /\ x * y = y * x
  OBVIOUS
<1>5. NumBlocks \in Nat /\ NumBlocks = NumBlocksInCol * NumBlocksInRow
  BY <1>2, <1>3, <1>4 DEF NumBlocks
<1>6. RealBlocks = NumBlocks .. 2 * NumBlocks - 1
  BY DEF RealBlocks, BlockCount
<1>7. QED
  BY <1>1, <1>2, <1>3, <1>5, <1>6

\* An element of a tile lies in the matrix.
LEMMA InMatrix ==
  ASSUME Whole, NEW b \in RealBlocks, NEW k \in Elements
  PROVE  Row(b, k) \in 0 .. RowCount - 1 /\ Col(b, k) \in 0 .. ColCount - 1
<1>t. Whole
  OBVIOUS
<1> DEFINE x == b - NumBlocks
<1>1. x \in 0 .. NumBlocksInCol * NumBlocksInRow - 1 /\ x \in Nat
  BY <1>t, Tiles
<1>2. x % NumBlocksInRow \in 0 .. NumBlocksInRow - 1
  BY <1>t, <1>1, Tiles, DivMod
<1>3. x \div NumBlocksInRow \in 0 .. NumBlocksInCol - 1
  BY <1>t, <1>1, Tiles, Quotient
<1>4. k \in Nat /\ TileSize \in Nat \ {0} /\ k \in 0 .. TileSize * TileSize - 1
  BY <1>t, Tiles DEF Elements
<1>5. k \div TileSize \in 0 .. TileSize - 1
  BY <1>4, Quotient
<1>6. k % TileSize \in 0 .. TileSize - 1
  BY <1>4, DivMod
<1>7. (x % NumBlocksInRow) * TileSize + (k \div TileSize) \in 0 .. NumBlocksInRow * TileSize - 1
  BY <1>t, <1>2, <1>5, Tiles, Inside
<1>8. (x \div NumBlocksInRow) * TileSize + (k % TileSize) \in 0 .. NumBlocksInCol * TileSize - 1
  BY <1>t, <1>3, <1>6, Tiles, Inside
<1>9. QED
  BY <1>t, <1>7, <1>8, Tiles DEF Row, Col

\* Both ends of the copy of an element, as TransposeNaive has them.
LEMMA Ends ==
  ASSUME Whole, NEW b \in RealBlocks, NEW k \in Elements
  PROVE  /\ TargetOf(b, k) \in Cells /\ SourceOf(b, k) \in Cells
         /\ TransposeNaive[TargetOf(b, k)] = SourceOf(b, k)
<1> DEFINE i == Row(b, k)
           j == Col(b, k)
<1>1. i \in 0 .. RowCount - 1 /\ j \in 0 .. ColCount - 1 /\ i \in Nat /\ j \in Nat
  BY InMatrix
<1>2. RowCount \in Nat \ {0} /\ ColCount \in Nat \ {0}
  BY Tiles
<1>3. TargetOf(b, k) = j * RowCount + i /\ SourceOf(b, k) = i * ColCount + j
  BY DEF TargetOf, SourceOf
<1> HIDE DEF i, j
<1>4. j * RowCount + i \in 0 .. ColCount * RowCount - 1 /\ i * ColCount + j \in 0 .. RowCount * ColCount - 1
  BY <1>1, <1>2, Inside
<1>5. ColCount * RowCount = RowCount * ColCount
  BY <1>2
<1>6. (j * RowCount + i) \div RowCount = j /\ (j * RowCount + i) % RowCount = i
  BY <1>1, <1>2, Place
<1>7. TargetOf(b, k) \in Cells /\ SourceOf(b, k) \in Cells
  BY <1>3, <1>4, <1>5 DEF Cells
<1>8. TransposeNaive[TargetOf(b, k)] =
        (TargetOf(b, k) % RowCount) * ColCount + (TargetOf(b, k) \div RowCount)
  BY <1>7 DEF TransposeNaive
<1>9. QED
  BY <1>3, <1>6, <1>7, <1>8

\* No element is in two tiles.
LEMMA TilesDisjoint ==
  ASSUME Whole, NEW b \in RealBlocks, NEW k \in Elements, NEW c \in RealBlocks, NEW l \in Elements,
         TargetOf(b, k) = TargetOf(c, l)
  PROVE  b = c
<1>t. Whole
  OBVIOUS
<1>n. /\ RowCount \in Nat \ {0} /\ TileSize \in Nat \ {0} /\ NumBlocksInRow \in Nat \ {0}
      /\ NumBlocks \in Nat /\ b \in Nat /\ c \in Nat
      /\ b - NumBlocks \in Nat /\ c - NumBlocks \in Nat
  BY <1>t, Tiles
<1>1. /\ Row(b, k) \in 0 .. RowCount - 1 /\ Row(c, l) \in 0 .. RowCount - 1
      /\ Col(b, k) \in Nat /\ Col(c, l) \in Nat
  BY <1>t, InMatrix
<1>2. Col(b, k) * RowCount + Row(b, k) = Col(c, l) * RowCount + Row(c, l)
  BY DEF TargetOf
<1>3. Row(b, k) = Row(c, l) /\ Col(b, k) = Col(c, l)
  BY <1>n, <1>1, <1>2, DivModUnique
<1> DEFINE x == b - NumBlocks
           y == c - NumBlocks
<1>x. x \in Nat /\ y \in Nat
  BY <1>n
<1>4. \A e \in Elements : e \in Nat /\ e \div TileSize \in 0 .. TileSize - 1
                          /\ e % TileSize \in 0 .. TileSize - 1
  <2>1. SUFFICES ASSUME NEW e \in 0 .. TileSize * TileSize - 1
                 PROVE  /\ e \in Nat /\ e \div TileSize \in 0 .. TileSize - 1
                        /\ e % TileSize \in 0 .. TileSize - 1
    BY DEF Elements
  <2>2. e \in Nat
    OBVIOUS
  <2>3. QED
    BY <1>n, <2>2, DivMod, Quotient
<1> HIDE DEF x, y
<1> DEFINE xi == x % NumBlocksInRow
           xj == x \div NumBlocksInRow
           yi == y % NumBlocksInRow
           yj == y \div NumBlocksInRow
<1>5. /\ xi * TileSize + (k \div TileSize) = yi * TileSize + (l \div TileSize)
      /\ xj * TileSize + (k % TileSize) = yj * TileSize + (l % TileSize)
  BY <1>3 DEF Row, Col, x, y
<1>6. xi \in 0 .. NumBlocksInRow - 1 /\ xj \in Nat /\ x = xj * NumBlocksInRow + xi
  BY <1>n, <1>x, DivMod
<1>7. yi \in 0 .. NumBlocksInRow - 1 /\ yj \in Nat /\ y = yj * NumBlocksInRow + yi
  BY <1>n, <1>x, DivMod
<1> HIDE DEF xi, xj, yi, yj
<1>8. xi = yi
  BY <1>n, <1>4, <1>5, <1>6, <1>7, DivModUnique
<1>9. xj = yj
  BY <1>n, <1>4, <1>5, <1>6, <1>7, DivModUnique
<1>10. x = y
  BY <1>6, <1>7, <1>8, <1>9
<1>11. QED
  BY <1>n, <1>10 DEF x, y

\* Every element is in a tile.
LEMMA TilesCover ==
  ASSUME Whole, NEW z \in Cells
  PROVE  \E b \in RealBlocks, k \in Elements : TargetOf(b, k) = z
<1>t. Whole
  OBVIOUS
<1>n. /\ RowCount \in Nat \ {0} /\ ColCount \in Nat \ {0} /\ TileSize \in Nat \ {0}
      /\ NumBlocksInRow \in Nat \ {0} /\ NumBlocksInCol \in Nat \ {0} /\ NumBlocks \in Nat
      /\ NumBlocksInRow * TileSize = RowCount /\ NumBlocksInCol * TileSize = ColCount
  BY <1>t, Tiles
<1> DEFINE i == z % RowCount
           j == z \div RowCount
<1>1. /\ i \in 0 .. RowCount - 1 /\ j \in 0 .. ColCount - 1 /\ i \in Nat /\ j \in Nat
      /\ z = j * RowCount + i
  <2>1. RowCount * ColCount = ColCount * RowCount
    BY <1>n
  <2>2. z \in 0 .. ColCount * RowCount - 1 /\ z \in Nat
    BY <2>1 DEF Cells
  <2>3. j \in 0 .. ColCount - 1
    BY <1>n, <2>2, Quotient
  <2>4. i \in 0 .. RowCount - 1 /\ z = j * RowCount + i
    BY <1>n, <2>2, DivMod
  <2>5. QED
    BY <2>3, <2>4
<1> HIDE DEF i, j
<1> DEFINE bi == i \div TileSize
           bj == j \div TileSize
           ti == i % TileSize
           tj == j % TileSize
<1>2. /\ bi \in 0 .. NumBlocksInRow - 1 /\ bj \in 0 .. NumBlocksInCol - 1
      /\ bi \in Nat /\ bj \in Nat
  <2>1. i \in 0 .. NumBlocksInRow * TileSize - 1 /\ j \in 0 .. NumBlocksInCol * TileSize - 1
    BY <1>n, <1>1
  <2>2. bi \in 0 .. NumBlocksInRow - 1
    BY <1>n, <2>1, Quotient
  <2>3. bj \in 0 .. NumBlocksInCol - 1
    BY <1>n, <2>1, Quotient
  <2>4. QED
    BY <2>2, <2>3
<1>3. /\ ti \in 0 .. TileSize - 1 /\ tj \in 0 .. TileSize - 1
      /\ i = bi * TileSize + ti /\ j = bj * TileSize + tj
  BY <1>n, <1>1, DivMod
<1> HIDE DEF bi, bj, ti, tj
<1> DEFINE x == bj * NumBlocksInRow + bi
           k == ti * TileSize + tj
<1>4. x \in 0 .. NumBlocksInCol * NumBlocksInRow - 1 /\ x \in Nat
  BY <1>n, <1>2, Inside
<1>5. k \in Elements
  BY <1>n, <1>3, Inside DEF Elements
<1>6. x \div NumBlocksInRow = bj /\ x % NumBlocksInRow = bi
  BY <1>n, <1>2, Place
<1>7. k \div TileSize = ti /\ k % TileSize = tj
  BY <1>n, <1>3, Place
<1> HIDE DEF x, k
<1> DEFINE b == NumBlocks + x
<1>8. b \in RealBlocks /\ b - NumBlocks = x
  BY <1>t, <1>n, <1>4, Tiles
<1>9. Row(b, k) = i /\ Col(b, k) = j
  BY <1>3, <1>6, <1>7, <1>8 DEF Row, Col
<1>10. TargetOf(b, k) = z
  BY <1>1, <1>9 DEF TargetOf
<1>11. QED
  BY <1>5, <1>8, <1>10

-------------------------------------------------------------------------------
(* The inductive invariant.                                                *)

\* The thread that b falls to is past element k of it.
Copied(b, k) ==
  LET t == b % numThreads IN b < idx[t] \/ (b = idx[t] /\ k < pos[t])

TiledTypeOK ==
  /\ numThreads \in Nat /\ returned \in BOOLEAN
  /\ idx \in [Threads -> Nat] /\ pos \in [Threads -> Nat]
  /\ dst \in [Cells -> Cells \cup {Old}]

\* Each thread keeps to its own blocks; what has been copied is as in
\* TransposeNaive and stays so, as nobody writes anything else there.
TiledInv ==
  /\ TiledTypeOK /\ stray = FALSE
  /\ \A t \in Threads : idx[t] % numThreads = t
  /\ numThreads = 0 => dst = [x \in Cells |-> Old]
  /\ numThreads # 0 =>
       \A b \in RealBlocks, k \in Elements :
         Copied(b, k) => dst[TargetOf(b, k)] = TransposeNaive[TargetOf(b, k)]
  /\ returned => \A t \in Threads : idx[t] >= BlockCount

LEMMA NextOfThread ==
  \A n \in Nat \ {0}, a \in Nat :
    /\ (a + n) % n = a % n
    /\ \A b \in Nat : b % n = a % n /\ b < a + n => b <= a
<1> SUFFICES ASSUME NEW n \in Nat \ {0}, NEW a \in Nat
             PROVE  /\ (a + n) % n = a % n
                    /\ \A b \in Nat : b % n = a % n /\ b < a + n => b <= a
  OBVIOUS
<1> DEFINE q == a \div n
           r == a % n
<1>1. q \in Nat /\ r \in 0 .. n - 1 /\ a = q * n + r
  BY DivMod
<1> HIDE DEF q, r
<1>2. q + 1 \in Nat /\ (q + 1) * n = q * n + n /\ q * n \in Nat
  BY <1>1
<1>3. a + n = (q + 1) * n + r
  BY <1>1, <1>2
<1>4. ((q + 1) * n + r) % n = r
  BY <1>1, <1>2, Place
<1>5. ASSUME NEW b \in Nat, b % n = a % n, b < a + n PROVE b <= a
  <2> DEFINE p == b \div n
  <2>1. p \in Nat /\ b = p * n + r
    BY <1>5, DivMod DEF r
  <2> HIDE DEF p
  <2>2. CASE p <= q
    <3>1. q - p \in Nat /\ q = p + (q - p)
      BY <1>1, <2>1, <2>2
    <3>2. \A e \in Nat : (p + e) * n = p * n + e * n /\ e * n \in Nat /\ p * n \in Nat
      BY <2>1
    <3>3. q * n = p * n + (q - p) * n /\ (q - p) * n \in Nat /\ p * n \in Nat
      BY <3>1, <3>2
    <3>4. QED
      BY <1>1, <2>1, <3>3
  <2>3. CASE q < p
    <3>1. p - q - 1 \in Nat /\ p = q + 1 + (p - q - 1)
      BY <1>1, <2>1, <2>3
    <3>2. \A e \in Nat : (q + 1 + e) * n = q * n + n + e * n /\ e * n \in Nat
      BY <1>1
    <3>3. p * n = q * n + n + (p - q - 1) * n /\ (p - q - 1) * n \in Nat /\ q * n \in Nat
      BY <1>2, <3>1, <3>2
    <3>4. QED
      BY <1>1, <1>5, <2>1, <3>3
  <2>4. QED
    BY <1>1, <2>1, <2>2, <2>3
<1>6. QED
  BY <1>3, <1>4, <1>5 DEF r

\* A thread that copies is at an element of a tile.
LEMMA CopyingReal ==
  ASSUME Whole, TiledTypeOK, NEW t \in Threads, Copying(t)
  PROVE  /\ idx[t] \in RealBlocks /\ pos[t] \in Elements
         /\ Target(t) = TargetOf(idx[t], pos[t]) /\ Source(t) = SourceOf(idx[t], pos[t])
         /\ Target(t) \in Cells /\ Source(t) \in Cells
         /\ SourceValue(t) = TransposeNaive[Target(t)]
<1>1. idx[t] \in Nat /\ pos[t] \in Nat
  BY DEF TiledTypeOK
<1>2. NumBlocks \in Nat /\ TileSize * TileSize \in Nat
  BY Tiles
<1>3. idx[t] < BlockCount /\ pos[t] < BlockSize(idx[t])
  BY DEF Copying
<1>4. ~(idx[t] < NumBlocks) /\ pos[t] < TileSize * TileSize
  BY <1>1, <1>3 DEF BlockSize
<1>5. idx[t] \in RealBlocks /\ pos[t] \in Elements
  BY <1>1, <1>2, <1>3, <1>4 DEF RealBlocks, Elements, BlockCount
<1>6. Target(t) = TargetOf(idx[t], pos[t]) /\ Source(t) = SourceOf(idx[t], pos[t])
  BY DEF Target, Source, TargetOf, SourceOf
<1>7. /\ Target(t) \in Cells /\ Source(t) \in Cells
      /\ TransposeNaive[Target(t)] = Source(t)
  BY <1>5, <1>6, Ends
<1>8. QED
  BY <1>5, <1>6, <1>7 DEF SourceValue

LEMMA TiledInit == Whole /\ Init => TiledInv
<1> SUFFICES ASSUME Whole, Init PROVE TiledInv
  OBVIOUS
<1>1. numThreads \in Nat
  BY SizeAssumption DEF Init
<1>2. Threads \subseteq Nat
  BY <1>1 DEF Threads
<1>3. TiledTypeOK
  BY <1>1, <1>2 DEF Init, TiledTypeOK
<1>4. ASSUME NEW t \in Threads PROVE idx[t] % numThreads = t
  <2>1. \A x, n \in Nat : x < n => x % n = x
    OBVIOUS
  <2>2. t \in Nat /\ t < numThreads /\ idx[t] = t
    BY <1>1 DEF Init, Threads
  <2>3. QED
    BY <1>1, <2>1, <2>2
\* The first entry of a thread that is not empty has not been begun.
<1>5. ASSUME numThreads # 0, NEW b \in RealBlocks, NEW k \in Elements PROVE ~Copied(b, k)
  <2>1. b \in Nat /\ k \in Nat
    BY Tiles DEF Elements
  <2> DEFINE t == b % numThreads
  <2>2. t \in 0 .. numThreads - 1 /\ t <= b
    <3>1. \A x, n \in Nat : n # 0 => x % n \in 0 .. n - 1 /\ x % n <= x
      <4>1. \A x, n \in Nat : n > 0 => x = n * (x \div n) + (x % n) /\ x \div n \in Nat
                                       /\ x % n \in 0 .. n - 1
        OBVIOUS
      <4>2. \A x, y \in Nat : x * y \in Nat
        OBVIOUS
      <4>3. SUFFICES ASSUME NEW x \in Nat, NEW n \in Nat, n # 0
                     PROVE  x % n \in 0 .. n - 1 /\ x % n <= x
        OBVIOUS
      <4>4. /\ x = n * (x \div n) + (x % n) /\ x \div n \in Nat
            /\ x % n \in 0 .. n - 1 /\ n * (x \div n) \in Nat
        BY <4>1, <4>2, <4>3
      <4>5. QED
        BY <4>4
    <3>2. QED
      BY <1>1, <1>5, <2>1, <3>1
  <2> HIDE DEF t
  <2>3. idx[t] = t /\ pos[t] = 0
    BY <2>2 DEF Init, Threads
  <2>4. ~(b < idx[t]) /\ ~(k < pos[t])
    BY <1>1, <2>1, <2>2, <2>3
  <2>5. QED
    BY <2>4 DEF Copied, t
<1>6. stray = FALSE /\ returned = FALSE /\ dst = [x \in Cells |-> Old]
  BY DEF Init
<1>7. QED
  BY <1>3, <1>4, <1>5, <1>6 DEF TiledInv

LEMMA CopyInv ==
  ASSUME Whole, TiledInv, NEW t \in Threads, CopyElement(t)
  PROVE  TiledInv'
<1> DEFINE x == Target(t)
<1>1. /\ idx[t] \in RealBlocks /\ pos[t] \in Elements /\ x = TargetOf(idx[t], pos[t])
      /\ x \in Cells /\ SourceValue(t) = TransposeNaive[x]
      /\ Source(t) \in Cells /\ SourceValue(t) = Source(t)
  BY CopyingReal DEF TiledInv, CopyElement, SourceValue
<1>2. /\ dst' = [dst EXCEPT ![x] = TransposeNaive[x]] /\ UNCHANGED stray
      /\ pos' = [pos EXCEPT ![t] = @ + 1] /\ UNCHANGED <<numThreads, idx, returned>>
  BY <1>1 DEF CopyElement
<1> HIDE DEF x
<1>type. TiledTypeOK
  BY DEF TiledInv
<1>3. TiledTypeOK' /\ Threads' = Threads
  <2>1. Threads' = Threads
    BY <1>2 DEF Threads
  <2>2. pos' \in [Threads -> Nat]
    BY <1>type, <1>2 DEF TiledTypeOK
  <2>3. TransposeNaive[x] \in Cells
    BY <1>1
  <2>4. dst' \in [Cells -> Cells \cup {Old}]
    BY <1>type, <1>2, <2>3 DEF TiledTypeOK
  <2>5. QED
    BY <1>type, <1>2, <2>1, <2>2, <2>4 DEF TiledTypeOK
<1>4. numThreads \in Nat \ {0}
  BY <1>type DEF Threads, TiledTypeOK
<1>5. ASSUME NEW b \in RealBlocks, NEW k \in Elements, Copied(b, k)'
      PROVE  dst'[TargetOf(b, k)] = TransposeNaive[TargetOf(b, k)]
  <2>1. TargetOf(b, k) \in Cells
    BY Ends
  <2>2. CASE TargetOf(b, k) = x
    BY <1>type, <1>1, <1>2, <2>2 DEF TiledTypeOK
  <2>3. CASE TargetOf(b, k) # x
    <3> DEFINE u == b % numThreads
    <3>1. u \in Threads /\ b \in Nat /\ k \in Nat
      BY <1>4, DivMod, Tiles DEF Threads, Elements
    <3>2. b < idx[u] \/ (b = idx[u] /\ k < pos'[u])
      BY <1>2, <1>5 DEF Copied
    <3> HIDE DEF u
    <3>3. ~(b = idx[t] /\ k = pos[t])
      BY <1>1, <2>3
    <3>4. pos[u] \in Nat /\ pos'[u] = IF u = t THEN pos[u] + 1 ELSE pos[u]
      BY <1>type, <1>2, <3>1 DEF TiledTypeOK
    <3>5. b < idx[u] \/ (b = idx[u] /\ k < pos[u])
      BY <3>1, <3>2, <3>3, <3>4
    <3>6. Copied(b, k)
      BY <3>5 DEF Copied, u
    <3>7. dst[TargetOf(b, k)] = TransposeNaive[TargetOf(b, k)]
      BY <1>4, <3>6 DEF TiledInv
    <3>8. QED
      BY <1>type, <1>2, <2>1, <2>3, <3>7 DEF TiledTypeOK
  <2>4. QED
    BY <2>2, <2>3
<1>6. QED
  BY <1>2, <1>3, <1>4, <1>5 DEF TiledInv

\* Between the block a thread leaves and the next it takes there is none of
\* its own.
LEMMA NextBlockInv ==
  ASSUME Whole, TiledInv, NEW t \in Threads, NextBlock(t)
  PROVE  TiledInv'
<1>1. /\ idx' = [idx EXCEPT ![t] = @ + numThreads] /\ pos' = [pos EXCEPT ![t] = 0]
      /\ UNCHANGED <<numThreads, dst, stray, returned>>
      /\ idx[t] < BlockCount /\ ~(pos[t] < BlockSize(idx[t]))
  BY DEF NextBlock, Stride, Copying
<1>type. TiledTypeOK
  BY DEF TiledInv
<1>2. numThreads \in Nat \ {0}
  BY <1>type DEF Threads, TiledTypeOK
<1>3. TiledTypeOK' /\ Threads' = Threads
  BY <1>type, <1>1 DEF TiledTypeOK, Threads
<1>4. ASSUME NEW u \in Threads PROVE idx'[u] % numThreads = u
  <2>1. idx[u] \in Nat /\ idx[u] % numThreads = u
    BY <1>type DEF TiledTypeOK, TiledInv
  <2>2. idx'[u] = IF u = t THEN idx[u] + numThreads ELSE idx[u]
    BY <1>type, <1>1 DEF TiledTypeOK
  <2>3. (idx[u] + numThreads) % numThreads = u
    BY <1>2, <2>1, NextOfThread
  <2>4. QED
    BY <2>1, <2>2, <2>3
<1>5. ASSUME NEW b \in RealBlocks, NEW k \in Elements, Copied(b, k)'
      PROVE  Copied(b, k)
  <2> DEFINE u == b % numThreads
  <2>1. u \in Threads /\ b \in Nat /\ k \in Nat
    BY <1>2, DivMod, Tiles DEF Threads, Elements
  <2>2. b < idx'[u] \/ (b = idx'[u] /\ k < pos'[u])
    BY <1>1, <1>5 DEF Copied
  <2>3. u = b % numThreads
    OBVIOUS
  <2> HIDE DEF u
  <2>4. CASE u # t
    <3>1. idx'[u] = idx[u] /\ pos'[u] = pos[u]
      BY <1>type, <1>1, <2>1, <2>4 DEF TiledTypeOK
    <3>2. QED
      BY <2>2, <2>3, <3>1 DEF Copied
  <2>5. CASE u = t
    <3>1. idx'[u] = idx[u] + numThreads /\ pos'[u] = 0 /\ idx[u] \in Nat /\ pos[u] \in Nat
      BY <1>type, <1>1, <2>1, <2>5 DEF TiledTypeOK
    <3>2. b < idx[u] + numThreads
      BY <2>1, <2>2, <3>1
    <3>3. idx[u] % numThreads = u
      BY <2>1 DEF TiledInv
    <3>4. b <= idx[u]
      BY <1>2, <2>1, <2>3, <3>1, <3>2, <3>3, NextOfThread
    <3>5. CASE b = idx[u]
      <4>1. NumBlocks \in Nat /\ b >= NumBlocks /\ TileSize * TileSize \in Nat
        BY Tiles DEF RealBlocks, BlockCount
      <4>2. BlockSize(idx[u]) = TileSize * TileSize
        BY <2>1, <3>5, <4>1 DEF BlockSize
      <4>3. k < pos[u]
        BY <1>1, <2>1, <2>5, <3>1, <4>1, <4>2 DEF Elements
      <4>4. QED
        BY <2>3, <3>5, <4>3 DEF Copied
    <3>6. CASE b # idx[u]
      <4>1. b < idx[u]
        BY <2>1, <3>1, <3>4, <3>6
      <4>2. QED
        BY <2>3, <4>1 DEF Copied
    <3>7. QED
      BY <3>5, <3>6
  <2>6. QED
    BY <2>4, <2>5
<1>6. returned' => \A u \in Threads : idx'[u] >= BlockCount
  <2>1. SUFFICES ASSUME returned PROVE FALSE
    BY <1>1
  <2>2. idx[t] >= BlockCount /\ idx[t] \in Nat /\ BlockCount \in Nat
    BY <1>type, <2>1, Tiles DEF TiledInv, TiledTypeOK, BlockCount
  <2>3. QED
    BY <1>1, <2>2
<1>7. QED
  BY <1>1, <1>2, <1>3, <1>4, <1>5, <1>6 DEF TiledInv

LEMMA TiledNext == Whole /\ TiledInv /\ [Next]_vars => TiledInv'
<1> SUFFICES ASSUME Whole, TiledInv, [Next]_vars PROVE TiledInv'
  OBVIOUS
<1>1. ASSUME NEW t \in 0 .. MaxThreads - 1, ThreadStep(t) PROVE TiledInv'
  BY <1>1, CopyInv, NextBlockInv DEF ThreadStep
<1>2. ASSUME Join PROVE TiledInv'
  BY <1>2 DEF Join, Joined, TiledInv, TiledTypeOK, Copied, Threads
<1>3. ASSUME UNCHANGED vars PROVE TiledInv'
  BY <1>3 DEF vars, TiledInv, TiledTypeOK, Copied, Threads
<1>4. QED
  BY <1>1, <1>2, <1>3 DEF Next

-------------------------------------------------------------------------------
(* The theorems, for matrices whose sides are multiples of the tile: of    *)
(* sides that are powers of 2, as the comment in the code requires, those  *)
(* not smaller than the tile.  Run transpose_small_matrix shows that the   *)
(* others are transposed wrongly.                                          *)

\* The invariant of the threads' progress holds in every state.
THEOREM Invariance == Whole => (Spec => []TiledInv)
<1>1. SUFFICES ASSUME Whole PROVE Spec => []TiledInv
  OBVIOUS
<1>2. Init => TiledInv
  BY <1>1, TiledInit
<1>3. TiledInv /\ [Next]_vars => TiledInv'
  BY <1>1, TiledNext
<1>4. QED
  BY <1>2, <1>3, PTL DEF Spec

LEMMA DisjointNow ==
  ASSUME Whole, TiledInv
  PROVE  WritersDisjoint
<1>1. SUFFICES ASSUME NEW t \in Threads, NEW u \in Threads, t # u, Copying(t), Copying(u),
                      Target(t) = Target(u)
               PROVE  FALSE
  BY DEF WritersDisjoint, TiledInv
<1>2. TiledTypeOK /\ idx[t] % numThreads = t /\ idx[u] % numThreads = u
  BY DEF TiledInv
<1>3. /\ idx[t] \in RealBlocks /\ pos[t] \in Elements /\ Target(t) = TargetOf(idx[t], pos[t])
      /\ idx[u] \in RealBlocks /\ pos[u] \in Elements /\ Target(u) = TargetOf(idx[u], pos[u])
  BY <1>1, <1>2, CopyingReal
<1>4. idx[t] = idx[u]
  BY <1>1, <1>3, TilesDisjoint
<1>5. QED
  BY <1>1, <1>2, <1>4

\* The unsynchronized stores of the threads of TransposeTiledMultiThreaded go
\* to different elements, all of them inside the destination, for every size
\* of matrix and tile and every number of threads.
THEOREM NoWriteRace == Whole => (Spec => []WritersDisjoint)
<1>1. SUFFICES ASSUME Whole PROVE Spec => []WritersDisjoint
  OBVIOUS
<1>2. Spec => []TiledInv
  BY <1>1, Invariance
<1>3. TiledInv => WritersDisjoint
  BY <1>1, DisjointNow
<1>4. QED
  BY <1>2, <1>3, PTL

LEMMA CorrectNow ==
  ASSUME Whole, TiledInv
  PROVE  Correct
<1>1. SUFFICES ASSUME returned, NEW z \in Cells
               PROVE  dst[z] = (IF numThreads = 0 THEN [x \in Cells |-> Old] ELSE TransposeNaive)[z]
  BY DEF Correct, MatricesAreEqual
<1>2. CASE numThreads = 0
  BY <1>2 DEF TiledInv
<1>3. CASE numThreads # 0
  <2>1. PICK b \in RealBlocks, k \in Elements : TargetOf(b, k) = z
    BY <1>1, TilesCover
  <2>2. numThreads \in Nat \ {0} /\ b \in Nat
    BY <1>3, Tiles DEF TiledInv, TiledTypeOK
  <2>3. b % numThreads \in Threads
    BY <2>2, DivMod DEF Threads
  <2>4. idx[b % numThreads] >= BlockCount /\ idx[b % numThreads] \in Nat
    BY <1>1, <2>3 DEF TiledInv, TiledTypeOK
  <2>5. b < BlockCount /\ BlockCount \in Nat
    BY Tiles DEF RealBlocks, BlockCount
  <2>6. Copied(b, k)
    BY <2>2, <2>4, <2>5 DEF Copied
  <2>7. dst[z] = TransposeNaive[z]
    BY <1>3, <2>1, <2>6 DEF TiledInv
  <2>8. QED
    BY <1>3, <2>7
<1>4. QED
  BY <1>2, <1>3

\* When every thread has been joined the destination is what TransposeNaive
\* computes, for every size of matrix and tile, every number of threads from 1
\* on and every schedule; the comparison in the client succeeds.
THEOREM TransposedRight == Whole => (Spec => []Correct)
<1>1. SUFFICES ASSUME Whole PROVE Spec => []Correct
  OBVIOUS
<1>2. Spec => []TiledInv
  BY <1>1, Invariance
<1>3. TiledInv => Correct
  BY <1>1, CorrectNow
<1>4. QED
  BY <1>2, <1>3, PTL
===============================================================================
