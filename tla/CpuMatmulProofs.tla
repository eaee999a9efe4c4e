-------------------------- MODULE CpuMatmulProofs --------------------------
(***************************************************************************)
(* No cell of the output is written by two threads, and every cell ends up *)
(* with the sum the serial loop computes, its terms in the same order, for *)
(* every shape, every size of block, every number of threads and every     *)
(* interleaving.  The argument: the ranges are handed out one after the    *)
(* other, so they do not overlap (RangesApart); whatever its loop nest,    *)
(* the cells a worker writes lie in its range (UpdateInRange), it comes to *)
(* each of them once for each index (CellReached), in the order of the     *)
(* indices (CellInOrder); so how far a cell is summed says which of its    *)
(* updates its worker has done, and the other way round (Progress).        *)
(***************************************************************************)
EXTENDS CpuMatmul, TLAPS

(* What has been handed out after x turns of the spawning loop: x equal    *)
(* ranges, the first of them one longer.                                   *)
HandedOut(x) == x * (Total \div limit) + Least(x, Total % limit)

(* The ranges follow each other below cur, cur is within what there is to  *)
(* split, and in the loop it is where x equal ranges end.                  *)
RangesApart ==
  /\ phase = "called" => t = 0 /\ cur = 0 /\ workers = <<>>
  /\ phase = "spawn" => limit > 0 /\ t <= limit /\ cur = HandedOut(t)
  /\ phase = "spawn" \/ workers # <<>> => ~Refused
  /\ cur <= Total
  /\ \A w \in DOMAIN workers :
       workers[w].lo <= workers[w].hi /\ workers[w].hi <= cur
  /\ \A w, v \in DOMAIN workers : w < v => workers[w].hi <= workers[v].lo

(* Who has loaded a cell has an update to do on it.                        *)
LoadsInLoop == \A w \in DOMAIN workers : workers[w].loaded => workers[w].next < Updates(w)

Inv == TypeOK /\ RangesApart /\ LoadsInLoop

-----------------------------------------------------------------------------
(* Division                                                                *)

(* A number has a quotient and a remainder.                                *)
LEMMA Division ==
  ASSUME NEW a \in Nat, NEW b \in Nat \ {0}
  PROVE  /\ a \div b \in Nat /\ (a % b) \in 0 .. b - 1
         /\ a = b * (a \div b) + (a % b)
  OBVIOUS

(* Below c rows of length b the row number is below c.                     *)
LEMMA QuotientBelow ==
  ASSUME NEW a \in Nat, NEW b \in Nat \ {0}, NEW c \in Nat, a < c * b
  PROVE  a \div b \in Nat /\ a \div b < c
<1> DEFINE q == a \div b
<1>1. q \in Nat /\ a >= b * q BY Division
<1> HIDE DEF q
<1>2. SUFFICES ASSUME q >= c PROVE FALSE BY <1>1 DEF q
<1>3. b * q >= b * c BY <1>1, <1>2
<1>4. b * c = c * b OBVIOUS
<1> QED BY <1>1, <1>3, <1>4

(* The block of an element is the one its number was made from.            *)
LEMMA BlockOfElement ==
  ASSUME NEW a \in Nat, NEW b \in Nat \ {0}, NEW r \in 0 .. b - 1
  PROVE  (a * b + r) \div b = a
<1> DEFINE x == a * b + r
           q == x \div b
<1>0. x \in Nat BY SMT
<1>1. q \in Nat /\ x = b * q + (x % b) /\ (x % b) \in 0 .. b - 1 BY <1>0, Division
<1>2. b * (q - a) < b /\ b * (q - a) > -b
  <2>1. b * (q - a) = r - (x % b) BY <1>1
  <2> QED BY <2>1, <1>1
<1> HIDE DEF q
<1>3. q - a = 0
  <2>1. CASE q - a >= 1 BY <1>1, <1>2, <2>1
  <2>2. CASE q - a <= -1 BY <1>1, <1>2, <2>2
  <2> QED BY <2>1, <2>2, <1>1
<1> QED BY <1>1, <1>3 DEF q

(* There is no number below a product with a factor 0.                     *)
LEMMA Positive ==
  ASSUME NEW a \in Nat, NEW b \in Nat, NEW x \in Nat, x < a * b
  PROVE  a # 0 /\ b # 0
  OBVIOUS

(* A product of numbers is a number, and 0 only with a factor 0.           *)
LEMMA ProductNat ==
  ASSUME NEW a \in Nat, NEW b \in Nat
  PROVE  a * b \in Nat /\ (a # 0 /\ b # 0 => a * b # 0)
  OBVIOUS

(* An element of one of c blocks of b is one of c * b elements.            *)
LEMMA ElementBelow ==
  ASSUME NEW a \in Nat, NEW b \in Nat \ {0}, NEW c \in Nat, a < c, NEW r \in 0 .. b - 1
  PROVE  a * b + r \in 0 .. (c * b) - 1
<1>1. (a + 1) * b <= c * b
  <2>1. a + 1 <= c OBVIOUS
  <2>2. (c - (a + 1)) * b >= 0 BY <2>1
  <2> QED BY <2>2
<1>2. a * b \in Nat OBVIOUS
<1> QED BY <1>1, <1>2

(* The remainder of an element is its place in its block.                  *)
LEMMA ElementOfBlock ==
  ASSUME NEW a \in Nat, NEW b \in Nat \ {0}, NEW r \in 0 .. b - 1
  PROVE  /\ a * b + r \in Nat
         /\ (a * b + r) \div b = a
         /\ ((a * b + r) % b) = r
<1> DEFINE x == a * b + r
<1>1. x \in Nat BY SMT
<1>2. x \div b = a BY BlockOfElement
<1>3. x = b * (x \div b) + (x % b) /\ (x % b) \in 0 .. b - 1 BY <1>1, Division
<1>4. b * a = a * b OBVIOUS
<1> DEFINE y == x % b
<1> HIDE DEF y
<1>5. y = r BY <1>2, <1>3, <1>4 DEF y
<1> QED BY <1>1, <1>2, <1>5 DEF y

(* Three nested loops, of c inside b: where the counters i, j, e are, and  *)
(* what is read back from the place x.                                     *)
InNest(x, b, c, i, j, e) ==
  /\ b \in Nat \ {0} /\ c \in Nat \ {0}
  /\ i \in Nat /\ j \in 0 .. b - 1 /\ e \in 0 .. c - 1
  /\ x = (i * b + j) * c + e

ReadBack(x, b, c, i, j, e) ==
  x \in Nat /\ x \div (b * c) = i /\ ((x \div c) % b) = j /\ (x % c) = e

(* The counters give the place, and the place the counters.                *)
LEMMA NestFromCounters ==
  ASSUME NEW x, NEW b, NEW c, NEW i, NEW j, NEW e, InNest(x, b, c, i, j, e)
  PROVE  ReadBack(x, b, c, i, j, e)
<1> USE DEF InNest
<1> DEFINE y == i * b + j
<1>0. x = y * c + e OBVIOUS
<1>1. y \in Nat /\ y \div b = i /\ (y % b) = j BY ElementOfBlock
<1>2. x \in Nat /\ x \div c = y /\ (x % c) = e
  <2> HIDE DEF y
  <2>1. y * c + e \in Nat /\ (y * c + e) \div c = y /\ ((y * c + e) % c) = e
    BY <1>1, ElementOfBlock
  <2> QED BY <1>0, <2>1
<1>3. x = i * (b * c) + (j * c + e)
  <2>1. (i * b + j) * c = i * (b * c) + j * c OBVIOUS
  <2> QED BY <2>1
<1>4. j * c + e \in 0 .. (b * c) - 1 BY ElementBelow
<1>5. b * c \in Nat \ {0} BY ProductNat
<1>6. x \div (b * c) = i
  <2> DEFINE z == b * c
             r == j * c + e
  <2>1. z \in Nat \ {0} /\ r \in 0 .. z - 1 /\ x = i * z + r BY <1>3, <1>4, <1>5
  <2> HIDE DEF z, r
  <2>2. (i * z + r) \div z = i BY <2>1, BlockOfElement
  <2> QED BY <2>1, <2>2 DEF z
<1> QED BY <1>1, <1>2, <1>6 DEF ReadBack

(* ... and the place is made of its counters.                              *)
LEMMA CountersFromNest ==
  ASSUME NEW b \in Nat \ {0}, NEW c \in Nat \ {0}, NEW x \in Nat
  PROVE  /\ x = ((x \div (b * c)) * b + ((x \div c) % b)) * c + (x % c)
         /\ x \div (b * c) \in Nat /\ ((x \div c) % b) \in 0 .. b - 1 /\ (x % c) \in 0 .. c - 1
<1> DEFINE y == x \div c
           e == x % c
           i == y \div b
           j == y % b
<1>1. y \in Nat /\ e \in 0 .. c - 1 /\ x = c * y + e BY Division
<1>2. i \in Nat /\ j \in 0 .. b - 1 /\ y = b * i + j
  <2> HIDE DEF y
  <2> QED BY <1>1, Division
<1> HIDE DEF y, e, i, j
<1>3. x = (i * b + j) * c + e
  <2>1. b * i = i * b /\ c * y = y * c BY <1>1, <1>2
  <2> QED BY <1>1, <1>2, <2>1
<1>5. x \div (b * c) = i BY <1>1, <1>2, <1>3, NestFromCounters DEF InNest, ReadBack
<1> QED BY <1>1, <1>2, <1>3, <1>5 DEF y, e, j

(* Equal counters but for the middle one: the places are in its order.     *)
LEMMA MiddleOrders ==
  ASSUME NEW i \in Nat, NEW b \in Nat, NEW c \in Nat \ {0}, NEW e \in Nat,
         NEW p \in Nat, NEW q \in Nat
  PROVE  (i * b + p) * c + e < (i * b + q) * c + e <=> p < q
<1> DEFINE d == (q - p) * c
<1>1. (i * b + q) * c + e - ((i * b + p) * c + e) = d
  <2> DEFINE a == i * b
  <2>1. a \in Nat OBVIOUS
  <2> HIDE DEF a
  <2>2. (a + q) * c - (a + p) * c = (q - p) * c BY <2>1
  <2>3. (a + q) * c \in Nat /\ (a + p) * c \in Nat BY <2>1
  <2> QED BY <2>2, <2>3 DEF a
<1>2. d > 0 <=> q > p
  <2>1. CASE q > p BY <2>1
  <2>2. CASE q <= p
    <3>1. (p - q) * c >= 0 BY <2>2
    <3>2. (q - p) * c = -((p - q) * c) OBVIOUS
    <3> QED BY <2>2, <3>1, <3>2
  <2> QED BY <2>1, <2>2
<1> DEFINE x == (i * b + p) * c + e
           y == (i * b + q) * c + e
<1>3. x \in Int /\ y \in Int /\ d \in Int OBVIOUS
<1>4. y - x = d BY <1>1
<1> HIDE DEF x, y, d
<1>5. x < y <=> p < q BY <1>2, <1>3, <1>4
<1> QED BY <1>5 DEF x, y

(* The outermost counter orders the places whatever it multiplies.         *)
LEMMA OutermostOrders ==
  ASSUME NEW z \in Nat \ {0}, NEW r \in Nat, NEW p \in Nat, NEW q \in Nat
  PROVE  z * p + r < z * q + r <=> p < q
<1> DEFINE d == z * (q - p)
<1>1. (z * q + r) - (z * p + r) = d OBVIOUS
<1>2. d > 0 <=> q > p
  <2>1. CASE q > p BY <2>1
  <2>2. CASE q <= p
    <3>1. z * (p - q) >= 0 BY <2>2
    <3>2. z * (q - p) = -(z * (p - q)) OBVIOUS
    <3> QED BY <2>2, <3>1, <3>2
  <2> QED BY <2>1, <2>2
<1>3. z * q + r \in Int /\ z * p + r \in Int /\ d \in Int OBVIOUS
<1> HIDE DEF d
<1> QED BY <1>1, <1>2, <1>3

-----------------------------------------------------------------------------
(* The four loop nests, with the range lo .. hi - 1 of a worker, wd long.  *)

(* F32, by rows: rows of nn columns, kk terms each.                        *)
LEMMA RowsF32 ==
  ASSUME NEW kk \in Nat, NEW nn \in Nat, NEW wd \in Nat, NEW x \in Nat, x < kk * (wd * nn)
  PROVE  /\ x \div (kk * nn) \in 0 .. wd - 1
         /\ (x % nn) \in 0 .. nn - 1
         /\ ((x \div nn) % kk) \in 0 .. kk - 1
<1>1. kk # 0 /\ wd * nn # 0 BY Positive, ProductNat
<1>2. nn # 0 /\ wd # 0 BY <1>1
<1>3. kk * nn \in Nat \ {0} BY <1>1, <1>2, ProductNat
<1>4. kk * (wd * nn) = wd * (kk * nn) OBVIOUS
<1>5. x \div (kk * nn) \in Nat /\ x \div (kk * nn) < wd BY <1>3, <1>4, QuotientBelow
<1>6. x \div nn \in Nat /\ (x % nn) \in 0 .. nn - 1 BY <1>2, Division
<1>7. ((x \div nn) % kk) \in 0 .. kk - 1 BY <1>1, <1>6, Division
<1> QED BY <1>5, <1>6, <1>7

(* F32, by columns: mm rows of wd columns, the same sum of indices.        *)
LEMMA ColumnsF32 ==
  ASSUME NEW kk \in Nat, NEW mm \in Nat, NEW wd \in Nat, NEW x \in Nat, x < kk * (mm * wd)
  PROVE  /\ x \div (kk * wd) \in 0 .. mm - 1
         /\ (x % wd) \in 0 .. wd - 1
         /\ ((x \div wd) % kk) \in 0 .. kk - 1
BY RowsF32

(* The quantized nests: c blocks of b elements in each of d rows.          *)
LEMMA Quantized4 ==
  ASSUME NEW kk \in Nat, NEW c \in Nat, NEW d \in Nat, NEW b \in Nat \ {0},
         NEW x \in Nat, x < kk * (c * d * b)
  PROVE  LET y == x % (c * d * b) IN
         /\ y \in Nat
         /\ x \div (c * d * b) \in 0 .. kk - 1
         /\ ((y \div b) % d) \in 0 .. d - 1
         /\ y \div (d * b) \in 0 .. c - 1
         /\ (y % b) \in 0 .. b - 1
<1> DEFINE z == c * d * b
           y == x % z
<1>0. z \in Nat /\ x < kk * z BY ProductNat
<1>1. kk # 0 /\ z # 0 BY <1>0, Positive
<1>2. c # 0 /\ d # 0 BY <1>1
<1>3. d * b \in Nat \ {0} BY <1>2, ProductNat
<1>4. x \div z \in 0 .. kk - 1
  <2> HIDE DEF z
  <2>1. x \div z \in Nat /\ x \div z < kk BY <1>0, <1>1, QuotientBelow
  <2> QED BY <2>1
<1>5. y \in 0 .. z - 1
  <2> HIDE DEF z
  <2> QED BY <1>0, <1>1, Division
<1>6. z = c * (d * b) OBVIOUS
<1> HIDE DEF y, z
<1>7. y \in Nat /\ y < c * (d * b) BY <1>0, <1>5, <1>6
<1>8. y \div (d * b) \in Nat /\ y \div (d * b) < c BY <1>3, <1>7, QuotientBelow
<1>9. y \div b \in Nat /\ (y % b) \in 0 .. b - 1 BY <1>7, Division
<1>10. ((y \div b) % d) \in 0 .. d - 1 BY <1>2, <1>9, Division
<1> QED BY <1>4, <1>7, <1>8, <1>9, <1>10 DEF y, z

-----------------------------------------------------------------------------
(* The cells of a worker                                                   *)

(* A shape has sizes, and blocks are not empty.                            *)
LEMMA Shapes ==
  ASSUME shape \in Shape
  PROVE  m \in Nat /\ k \in Nat /\ n \in Nat /\ Block \in Nat \ {0}
BY MatmulAssumption DEF m, k, n, Block

(* The blocks of a row fill it, unless the product is refused.             *)
LEMMA Splits ==
  ASSUME shape \in Shape, byCols \in BOOLEAN
  PROVE  /\ BlocksPerRow \in Nat /\ BlocksPerRow * Block <= n
         /\ Total \in Nat
         /\ ~Quantized => BlocksPerRow = n
         /\ ~Refused => BlocksPerRow * Block = n
<1>1. m \in Nat /\ n \in Nat /\ Block \in Nat \ {0} BY Shapes
<1>2. /\ n \div Block \in Nat /\ (n % Block) \in 0 .. Block - 1
      /\ n = Block * (n \div Block) + (n % Block)
  BY <1>1, Division
<1>3. Block * (n \div Block) = (n \div Block) * Block BY <1>1, <1>2
<1>4. ~Quantized => n \div Block = n BY <1>1, <1>2 DEF Quantized
<1>5. ~Refused => n = Block * (n \div Block)
  <2>1. CASE Block = 1 BY <2>1, <1>4, <1>1 DEF Quantized
  <2>2. CASE Block # 1 BY <2>2, <1>1, <1>2 DEF Refused, Quantized
  <2> QED BY <2>1, <2>2
<1> QED BY <1>1, <1>2, <1>3, <1>4, <1>5 DEF BlocksPerRow, Total

(* What a worker is.                                                       *)
WorkerSet == [lo : Nat, hi : Nat, next : Nat, loaded : BOOLEAN, reg : Seq(-1 .. k - 1)]

(* What TypeOK says of one worker.                                         *)
LEMMA WorkerType ==
  ASSUME Inv, NEW w \in DOMAIN workers
  PROVE  /\ workers[w] \in WorkerSet /\ w \in Nat /\ workers # <<>>
         /\ workers[w].lo \in Nat /\ workers[w].hi \in Nat /\ workers[w].next \in Nat
         /\ workers[w].loaded \in BOOLEAN /\ workers[w].reg \in Seq(-1 .. k - 1)
<1>1. workers \in Seq(WorkerSet) BY DEF Inv, TypeOK, WorkerSet
<1>2. workers[w] \in WorkerSet /\ w \in Nat /\ workers # <<>> BY <1>1
<1> QED BY <1>2 DEF WorkerSet

(* What is known of a worker's range and of the sizes around it.           *)
LEMMA RangeFacts ==
  ASSUME Inv, NEW w \in DOMAIN workers
  PROVE  /\ m \in Nat /\ k \in Nat /\ n \in Nat /\ Block \in Nat \ {0}
         /\ BlocksPerRow \in Nat /\ BlocksPerRow * Block = n
         /\ Total \in Nat /\ (~Quantized => BlocksPerRow = n)
         /\ workers[w].lo \in Nat /\ workers[w].hi \in Nat
         /\ workers[w].lo <= workers[w].hi /\ workers[w].hi <= Total
         /\ Width(w) \in Nat /\ Width(w) = workers[w].hi - workers[w].lo
         /\ byCols \in BOOLEAN /\ Updates(w) \in Nat
<1>1. m \in Nat /\ k \in Nat /\ n \in Nat /\ Block \in Nat \ {0}
  BY Shapes DEF Inv, TypeOK
<1>2. /\ BlocksPerRow \in Nat /\ BlocksPerRow * Block = n
      /\ Total \in Nat /\ (~Quantized => BlocksPerRow = n)
  BY Splits, WorkerType DEF Inv, TypeOK, RangesApart
<1>3. workers[w].lo \in Nat /\ workers[w].hi \in Nat BY WorkerType DEF WorkerSet
<1>4. cur \in Nat /\ cur <= Total /\ workers[w].lo <= workers[w].hi /\ workers[w].hi <= cur
  BY DEF Inv, TypeOK, RangesApart
<1>5. byCols \in BOOLEAN BY DEF Inv, TypeOK
<1>6. Width(w) \in Nat /\ Width(w) = workers[w].hi - workers[w].lo BY <1>3, <1>4 DEF Width
<1>7. Updates(w) \in Nat
  <2> DEFINE a == m * Width(w) * Block
             b == Width(w) * n
  <2>1. a \in Nat /\ b \in Nat BY <1>1, <1>6, ProductNat
  <2>2. Updates(w) = k * (IF byCols THEN a ELSE b) BY DEF Updates
  <2> HIDE DEF a, b
  <2> QED BY <1>1, <2>1, <2>2
<1>8. workers[w].hi <= Total
  <2> DEFINE h == workers[w].hi
  <2>1. h \in Nat /\ h <= cur BY <1>3, <1>4
  <2> HIDE DEF h
  <2>2. h <= Total BY <1>2, <1>4, <2>1
  <2> QED BY <2>2 DEF h
<1> QED BY <1>1, <1>2, <1>3, <1>4, <1>5, <1>6, <1>7, <1>8

(* The row, or the block of columns, a cell is in.                         *)
Place(i, j) == IF byCols THEN j \div Block ELSE i

(* An update of a worker is of a cell of the output, in the worker's range *)
(* of rows or of blocks, and of an index below k.                          *)
LEMMA UpdateInRange ==
  ASSUME Inv, NEW w \in DOMAIN workers, NEW x \in Nat, x < Updates(w)
  PROVE  /\ Update(w, x).row \in 0 .. m - 1
         /\ Update(w, x).col \in 0 .. n - 1
         /\ Update(w, x).kk \in 0 .. k - 1
         /\ Place(Update(w, x).row, Update(w, x).col) \in workers[w].lo .. workers[w].hi - 1
<1> DEFINE lo == workers[w].lo
           hi == workers[w].hi
           wd == hi - lo
<1>1. m \in Nat /\ k \in Nat /\ n \in Nat /\ Block \in Nat \ {0} BY RangeFacts
<1>2. /\ BlocksPerRow \in Nat /\ BlocksPerRow * Block = n
      /\ Total \in Nat /\ (~Quantized => BlocksPerRow = n)
  BY RangeFacts
<1>3. lo \in Nat /\ hi \in Nat /\ lo <= hi /\ hi <= Total /\ wd \in Nat
  BY RangeFacts DEF Width
<1>4. byCols \in BOOLEAN BY RangeFacts
<1> HIDE DEF lo, hi
<1>5. CASE ~Quantized /\ ~byCols
  <2>1. x < k * (wd * n) BY <1>5 DEF Updates, Width, lo, hi
  <2>2. /\ x \div (k * n) \in 0 .. wd - 1 /\ (x % n) \in 0 .. n - 1
        /\ ((x \div n) % k) \in 0 .. k - 1
    BY <2>1, <1>1, <1>3, RowsF32
  <2>3. Update(w, x) = [row |-> lo + (x \div (k * n)), kk |-> (x \div n) % k,
                        col |-> 0 + (x % n)]
    BY <1>5 DEF Update, UpdateF32, lo
  <2>4. hi <= m BY <1>3, <1>5 DEF Total
  <2> QED BY <2>2, <2>3, <2>4, <1>1, <1>3, <1>5 DEF Place, lo, hi
<1>6. CASE ~Quantized /\ byCols
  <2>0. Block = 1 BY <1>6 DEF Quantized
  <2>1. x < k * (m * wd)
    <3>1. m * wd * 1 = m * wd BY <1>1, <1>3
    <3> QED BY <3>1, <2>0, <1>6 DEF Updates, Width, lo, hi
  <2>2. /\ x \div (k * wd) \in 0 .. m - 1 /\ (x % wd) \in 0 .. wd - 1
        /\ ((x \div wd) % k) \in 0 .. k - 1
    BY <2>1, <1>1, <1>3, ColumnsF32
  <2>3. Update(w, x) = [row |-> 0 + (x \div (k * wd)), kk |-> (x \div wd) % k,
                        col |-> lo + (x % wd)]
    BY <1>6 DEF Update, UpdateF32, Width, lo, hi
  <2>4. hi <= n BY <1>2, <1>3, <1>6 DEF Total
  <2>5. (lo + (x % wd)) \div Block = lo + (x % wd) BY <2>0, <2>2, <1>3
  <2> QED BY <2>2, <2>3, <2>4, <2>5, <1>1, <1>3, <1>6 DEF Place, lo, hi
<1>7. CASE Quantized /\ ~byCols
  <2> DEFINE c == BlocksPerRow
             y == x % (c * wd * Block)
  <2>1. x < k * (c * wd * Block)
    <3>1. wd * n = c * wd * Block BY <1>1, <1>2, <1>3
    <3> QED BY <3>1, <1>7 DEF Updates, Width, lo, hi
  <2>2. /\ y \in Nat /\ x \div (c * wd * Block) \in 0 .. k - 1
        /\ ((y \div Block) % wd) \in 0 .. wd - 1
        /\ y \div (wd * Block) \in 0 .. c - 1
        /\ (y % Block) \in 0 .. Block - 1
    BY <2>1, <1>1, <1>2, <1>3, Quantized4
  <2>3. Update(w, x) = [row |-> lo + ((y \div Block) % wd),
                        kk  |-> x \div (c * wd * Block),
                        col |-> (0 + (y \div (wd * Block))) * Block + (y % Block)]
    BY <1>7 DEF Update, UpdateQuantized, Width, lo, hi
  <2> HIDE DEF y
  <2>4. hi <= m BY <1>3, <1>7 DEF Total
  <2>5. (y \div (wd * Block)) * Block + (y % Block) \in 0 .. (c * Block) - 1
    BY <2>2, <1>1, <1>2, ElementBelow
  <2>6. 0 + (y \div (wd * Block)) = y \div (wd * Block) BY <2>2
  <2> QED BY <2>2, <2>3, <2>4, <2>5, <2>6, <1>1, <1>2, <1>3, <1>7 DEF Place, lo, hi
<1>8. CASE Quantized /\ byCols
  <2> DEFINE y == x % (wd * m * Block)
             b == lo + (y \div (m * Block))
  <2>1. x < k * (wd * m * Block)
    <3>1. m * wd * Block = wd * m * Block BY <1>1, <1>3
    <3> QED BY <3>1, <1>8 DEF Updates, Width, lo, hi
  <2>2. /\ y \in Nat /\ x \div (wd * m * Block) \in 0 .. k - 1
        /\ ((y \div Block) % m) \in 0 .. m - 1
        /\ y \div (m * Block) \in 0 .. wd - 1
        /\ (y % Block) \in 0 .. Block - 1
    BY <2>1, <1>1, <1>3, Quantized4
  <2>3. Update(w, x) = [row |-> 0 + ((y \div Block) % m),
                        kk  |-> x \div (wd * m * Block),
                        col |-> b * Block + (y % Block)]
    BY <1>8 DEF Update, UpdateQuantized, Width, lo, hi
  <2>4. b \in lo .. hi - 1 /\ b \in Nat /\ hi <= BlocksPerRow
    BY <2>2, <1>3, <1>8 DEF Total
  <2> HIDE DEF y, b
  <2>5. b * Block + (y % Block) \in 0 .. n - 1
    BY <2>2, <2>4, <1>1, <1>2, <1>3, ElementBelow
  <2>6. (b * Block + (y % Block)) \div Block = b
    BY <2>2, <2>4, <1>1, BlockOfElement
  <2> QED BY <2>2, <2>3, <2>4, <2>5, <2>6, <1>1, <1>8 DEF Place, lo, hi
<1> QED BY <1>4, <1>5, <1>6, <1>7, <1>8 DEF Quantized

(* The loops of a worker's nest: how many rows, columns and blocks of      *)
(* columns, and from which row and column (block, when quantized) on.      *)
FirstRow(w) == IF byCols THEN 0 ELSE workers[w].lo
FirstColumn(w) == IF byCols THEN workers[w].lo ELSE 0
Columns(w) == IF byCols THEN Width(w) ELSE n
Rows(w) == IF byCols THEN m ELSE Width(w)
Blocks(w) == IF byCols THEN Width(w) ELSE BlocksPerRow

(* The updates of a nest are the product of its loops.                     *)
LEMMA NestOfUpdates ==
  ASSUME Inv, NEW w \in DOMAIN workers
  PROVE  /\ FirstRow(w) \in Nat /\ FirstColumn(w) \in Nat
         /\ Columns(w) \in Nat /\ Rows(w) \in Nat /\ Blocks(w) \in Nat
         /\ ~Quantized => Updates(w) = Rows(w) * k * Columns(w)
         /\ Quantized => Updates(w) = k * (Blocks(w) * Rows(w) * Block)
<1> DEFINE wd == Width(w)
<1>1. /\ m \in Nat /\ k \in Nat /\ n \in Nat /\ Block \in Nat \ {0} /\ wd \in Nat
      /\ BlocksPerRow \in Nat /\ BlocksPerRow * Block = n
      /\ byCols \in BOOLEAN /\ workers[w].lo \in Nat
  BY RangeFacts
<1>2. Updates(w) = k * (IF byCols THEN m * wd * Block ELSE wd * n) BY DEF Updates
<1>3. FirstRow(w) \in Nat /\ FirstColumn(w) \in Nat
  BY <1>1 DEF FirstRow, FirstColumn
<1>4. Columns(w) = IF byCols THEN wd ELSE n BY DEF Columns
<1>5. Rows(w) = IF byCols THEN m ELSE wd BY DEF Rows
<1>6. Blocks(w) = IF byCols THEN wd ELSE BlocksPerRow BY DEF Blocks
<1>7. ~Quantized => Block = 1 BY DEF Quantized
<1> HIDE DEF wd
<1>8. CASE byCols
  <2>1. m * wd * 1 = m * wd /\ m * wd * Block = wd * m * Block /\ k * (m * wd) = m * k * wd
    BY <1>1
  <2> QED BY <1>1, <1>2, <1>3, <1>4, <1>5, <1>6, <1>7, <1>8, <2>1
<1>9. CASE ~byCols
  <2>1. wd * (BlocksPerRow * Block) = BlocksPerRow * wd * Block /\ k * (wd * n) = wd * k * n
    BY <1>1
  <2> QED BY <1>1, <1>2, <1>3, <1>4, <1>5, <1>6, <1>9, <2>1
<1> QED BY <1>1, <1>8, <1>9

(* An update, by the counters of the loops.                                *)
LEMMA UpdateNest ==
  ASSUME Inv, NEW w \in DOMAIN workers, NEW x
  PROVE  /\ ~Quantized => Update(w, x) =
              [row |-> FirstRow(w) + (x \div (k * Columns(w))),
               kk  |-> (x \div Columns(w)) % k,
               col |-> FirstColumn(w) + (x % Columns(w))]
         /\ Quantized => LET y == x % (Blocks(w) * Rows(w) * Block) IN Update(w, x) =
              [row |-> FirstRow(w) + ((y \div Block) % Rows(w)),
               kk  |-> x \div (Blocks(w) * Rows(w) * Block),
               col |-> (FirstColumn(w) + (y \div (Rows(w) * Block))) * Block + (y % Block)]
BY DEF Update, UpdateF32, UpdateQuantized, FirstRow, FirstColumn, Columns, Rows, Blocks

(* Two updates of one cell.                                                *)
SameCell(w, x, y) ==
  Update(w, x).row = Update(w, y).row /\ Update(w, x).col = Update(w, y).col

(* Of two updates of a cell the one of the lower index is done first.      *)
LEMMA CellInOrder ==
  ASSUME Inv, NEW w \in DOMAIN workers, NEW x \in 0 .. Updates(w) - 1,
         NEW y \in 0 .. Updates(w) - 1, SameCell(w, x, y)
  PROVE  x < y <=> Update(w, x).kk < Update(w, y).kk
<1> DEFINE r0 == FirstRow(w)
           c0 == FirstColumn(w)
           c == Columns(w)
           r == Rows(w)
           b == Blocks(w)
<1>1. /\ m \in Nat /\ k \in Nat /\ n \in Nat /\ Block \in Nat \ {0} /\ Updates(w) \in Nat
      /\ r0 \in Nat /\ c0 \in Nat /\ c \in Nat /\ r \in Nat /\ b \in Nat
      /\ (~Quantized => Updates(w) = r * k * c)
      /\ (Quantized => Updates(w) = k * (b * r * Block))
  BY RangeFacts, NestOfUpdates
<1>2. x \in Nat /\ y \in Nat /\ Updates(w) # 0 BY <1>1
<1>3. CASE ~Quantized
  <2>0. \A z \in Nat : Update(w, z) = [row |-> r0 + (z \div (k * c)), kk |-> (z \div c) % k,
                                      col |-> c0 + (z % c)]
    BY <1>3, UpdateNest
  <2> HIDE DEF r0, c0, c, r, b
  <2>1. k # 0 /\ c # 0
    <3>1. r * k * c # 0 BY <1>1, <1>2, <1>3
    <3>2. r * k \in Nat BY <1>1
    <3>3. r * k # 0 /\ c # 0 BY <1>1, <3>1, <3>2
    <3> QED BY <1>1, <3>3
  <2>2. ASSUME NEW z \in Nat
        PROVE  /\ z = ((z \div (k * c)) * k + ((z \div c) % k)) * c + (z % c)
               /\ z \div (k * c) \in Nat /\ ((z \div c) % k) \in 0 .. k - 1
               /\ (z % c) \in 0 .. c - 1
    BY <1>1, <2>1, CountersFromNest
  <2> DEFINE xi == x \div (k * c)
             xq == (x \div c) % k
             xe == x % c
             yi == y \div (k * c)
             yq == (y \div c) % k
             ye == y % c
  <2>3. /\ x = (xi * k + xq) * c + xe /\ xi \in Nat /\ xq \in 0 .. k - 1 /\ xe \in 0 .. c - 1
        /\ y = (yi * k + yq) * c + ye /\ yi \in Nat /\ yq \in 0 .. k - 1 /\ ye \in 0 .. c - 1
    BY <1>2, <2>2
  <2>4. r0 + xi = r0 + yi /\ c0 + xe = c0 + ye /\ Update(w, x).kk = xq /\ Update(w, y).kk = yq
    BY <1>2, <2>0 DEF SameCell
  <2> HIDE DEF xi, xq, xe, yi, yq, ye
  <2>5. xi = yi /\ xe = ye BY <1>1, <2>1, <2>3, <2>4
  <2>6. (xi * k + xq) * c + xe < (xi * k + yq) * c + xe <=> xq < yq
    BY <1>1, <2>1, <2>3, MiddleOrders
  <2>7. y = (xi * k + yq) * c + xe BY <2>3, <2>5
  <2> QED BY <2>3, <2>4, <2>6, <2>7
<1>4. CASE Quantized
  <2> DEFINE z == b * r * Block
             B == Block
  <2>0. \A a \in Nat : Update(w, a) =
              [row |-> r0 + (((a % z) \div B) % r), kk |-> a \div z,
               col |-> (c0 + ((a % z) \div (r * B))) * B + ((a % z) % B)]
    BY <1>4, UpdateNest
  <2>1. z \in Nat \ {0} /\ r # 0
    <3>1. k * z # 0 BY <1>1, <1>2, <1>4
    <3>2. z \in Nat BY <1>1
    <3>3. z # 0 BY <1>1, <3>1, <3>2
    <3>4. b * r # 0 BY <1>1, <3>3
    <3> QED BY <1>1, <3>2, <3>3, <3>4
  <2>2. B \in Nat \ {0} BY <1>1
  <2> HIDE DEF r0, c0, c, r, b, z, B
  <2> DEFINE u == x % z
             v == y % z
             p == x \div z
             q == y \div z
  <2>3. /\ u \in 0 .. z - 1 /\ p \in Nat /\ x = z * p + u
        /\ v \in 0 .. z - 1 /\ q \in Nat /\ y = z * q + v
    BY <1>2, <2>1, Division
  <2>4. /\ r0 + ((u \div B) % r) = r0 + ((v \div B) % r)
        /\ (c0 + (u \div (r * B))) * B + (u % B) = (c0 + (v \div (r * B))) * B + (v % B)
        /\ Update(w, x).kk = p /\ Update(w, y).kk = q
    BY <1>2, <2>0 DEF SameCell
  <2> HIDE DEF u, v, p, q
  <2>5. ASSUME NEW a \in Nat
        PROVE  /\ a = ((a \div (r * B)) * r + ((a \div B) % r)) * B + (a % B)
               /\ a \div (r * B) \in Nat /\ ((a \div B) % r) \in 0 .. r - 1
               /\ (a % B) \in 0 .. B - 1
    BY <1>1, <2>1, <2>2, CountersFromNest
  <2> DEFINE ui == u \div (r * B)
             uj == (u \div B) % r
             ue == u % B
             vi == v \div (r * B)
             vj == (v \div B) % r
             ve == v % B
  <2>6. u \in Nat /\ v \in Nat BY <2>1, <2>3
  <2>7. /\ u = (ui * r + uj) * B + ue /\ ui \in Nat /\ uj \in 0 .. r - 1 /\ ue \in 0 .. B - 1
        /\ v = (vi * r + vj) * B + ve /\ vi \in Nat /\ vj \in 0 .. r - 1 /\ ve \in 0 .. B - 1
    BY <2>5, <2>6
  <2>8. r0 + uj = r0 + vj /\ (c0 + ui) * B + ue = (c0 + vi) * B + ve BY <2>4
  <2> HIDE DEF ui, uj, ue, vi, vj, ve
  <2>9. uj = vj BY <1>1, <2>7, <2>8
  <2>10. ui = vi /\ ue = ve
    <3> DEFINE s == c0 + ui
               t1 == c0 + vi
    <3>1. s \in Nat /\ t1 \in Nat BY <1>1, <2>7
    <3>2. s * B + ue = t1 * B + ve BY <2>8
    <3> HIDE DEF s, t1
    <3>3. /\ (s * B + ue) \div B = s /\ ((s * B + ue) % B) = ue
          /\ (t1 * B + ve) \div B = t1 /\ ((t1 * B + ve) % B) = ve
      BY <2>2, <2>7, <3>1, ElementOfBlock
    <3>4. s = t1 /\ ue = ve BY <3>2, <3>3
    <3> QED BY <1>1, <2>7, <3>4 DEF s, t1
  <2>11. u = v BY <2>7, <2>9, <2>10
  <2>12. z * p + u < z * q + u <=> p < q BY <2>1, <2>3, <2>6, OutermostOrders
  <2> QED BY <2>3, <2>4, <2>11, <2>12
<1> QED BY <1>3, <1>4

(* A worker has an update for each cell of its range and each index.       *)
LEMMA CellReached ==
  ASSUME Inv, NEW w \in DOMAIN workers, NEW i \in 0 .. m - 1, NEW j \in 0 .. n - 1,
         NEW q \in 0 .. k - 1,
         workers[w].lo <= Place(i, j), Place(i, j) < workers[w].hi
  PROVE  \E x \in 0 .. Updates(w) - 1 : Update(w, x) = [row |-> i, kk |-> q, col |-> j]
<1> DEFINE r0 == FirstRow(w)
           c0 == FirstColumn(w)
           c == Columns(w)
           r == Rows(w)
           b == Blocks(w)
           lo == workers[w].lo
           hi == workers[w].hi
           wd == Width(w)
<1>1. /\ m \in Nat /\ k \in Nat /\ n \in Nat /\ Block \in Nat \ {0} /\ Updates(w) \in Nat
      /\ r0 \in Nat /\ c0 \in Nat /\ c \in Nat /\ r \in Nat /\ b \in Nat
      /\ (~Quantized => Updates(w) = r * k * c)
      /\ (Quantized => Updates(w) = k * (b * r * Block))
      /\ BlocksPerRow \in Nat /\ BlocksPerRow * Block = n
      /\ lo \in Nat /\ hi \in Nat /\ wd \in Nat /\ wd = hi - lo /\ byCols \in BOOLEAN
  BY RangeFacts, NestOfUpdates
<1>2. lo <= Place(i, j) /\ Place(i, j) < hi OBVIOUS
<1>3. r0 = (IF byCols THEN 0 ELSE lo) /\ r = (IF byCols THEN m ELSE wd) BY DEF FirstRow, Rows
<1>4. c0 = (IF byCols THEN lo ELSE 0) /\ c = (IF byCols THEN wd ELSE n)
      /\ b = (IF byCols THEN wd ELSE BlocksPerRow)
  BY DEF FirstColumn, Columns, Blocks
<1>5. i - r0 \in 0 .. r - 1
  <2> HIDE DEF lo, hi, wd, r0, r
  <2> QED BY <1>1, <1>2, <1>3 DEF Place
<1>6. CASE ~Quantized
  <2>1. j - c0 \in 0 .. c - 1
    <3>1. Block = 1 BY <1>6 DEF Quantized
    <3>2. j \div 1 = j OBVIOUS
    <3>3. Place(i, j) = IF byCols THEN j ELSE i BY <3>1, <3>2 DEF Place
    <3> HIDE DEF lo, hi, wd, c0, c
    <3> QED BY <1>1, <1>2, <1>4, <3>3
  <2> DEFINE s == i - r0
             e == j - c0
             x == (s * k + q) * c + e
  <2>2. \A z \in Nat : Update(w, z) = [row |-> r0 + (z \div (k * c)), kk |-> (z \div c) % k,
                                      col |-> c0 + (z % c)]
    BY <1>6, UpdateNest
  <2>3. s \in 0 .. r - 1 /\ e \in 0 .. c - 1 /\ r0 + s = i /\ c0 + e = j
    BY <1>1, <1>5, <2>1
  <2> HIDE DEF r0, c0, c, r, b, s, e
  <2>4. c # 0 /\ k # 0 /\ s \in Nat /\ s < r BY <1>1, <2>3
  <2>5. x \in Nat /\ x \div (k * c) = s /\ ((x \div c) % k) = q /\ (x % c) = e
    <3>1. InNest(x, k, c, s, q, e) BY <1>1, <2>3, <2>4 DEF InNest
    <3> HIDE DEF x
    <3>2. ReadBack(x, k, c, s, q, e) BY <3>1, NestFromCounters
    <3> QED BY <3>2 DEF ReadBack
  <2>6. x \in 0 .. (r * k * c) - 1
    <3> DEFINE a == s * k + q
               d == r * k
    <3>1. a \in 0 .. d - 1 BY <1>1, <2>4, ElementBelow
    <3>2. d \in Nat BY <1>1
    <3> HIDE DEF a, d
    <3>3. a * c + e \in 0 .. (d * c) - 1 BY <1>1, <2>3, <2>4, <3>1, <3>2, ElementBelow
    <3> QED BY <3>3 DEF a, d
  <2> HIDE DEF x
  <2>7. Update(w, x) = [row |-> i, kk |-> q, col |-> j] BY <2>2, <2>3, <2>5
  <2> QED BY <1>1, <1>6, <2>6, <2>7
<1>7. CASE Quantized
  <2> DEFINE B == Block
             z == b * r * B
             g == j \div B
             e == j % B
             s == i - r0
             f == g - c0
             y == (f * r + s) * B + e
             x == q * z + y
  <2>0. \A a \in Nat : Update(w, a) =
              [row |-> r0 + (((a % z) \div B) % r), kk |-> a \div z,
               col |-> (c0 + ((a % z) \div (r * B))) * B + ((a % z) % B)]
    BY <1>7, UpdateNest
  <2>1. B \in Nat \ {0} /\ g \in Nat /\ e \in 0 .. B - 1 /\ j = B * g + e /\ g < BlocksPerRow
    <3>1. j \in Nat /\ j < BlocksPerRow * B BY <1>1
    <3> QED BY <1>1, <3>1, Division, QuotientBelow
  <2>2. Place(i, j) = IF byCols THEN g ELSE i BY DEF Place
  <2> HIDE DEF B, g, e
  <2>3. f \in 0 .. b - 1 /\ c0 + f = g
    <3> HIDE DEF lo, hi, wd, c0, b
    <3> QED BY <1>1, <1>2, <1>4, <2>1, <2>2
  <2>4. s \in 0 .. r - 1 /\ r0 + s = i BY <1>1, <1>5
  <2> HIDE DEF r0, c0, c, r, b, s, f
  <2>5. r # 0 /\ f \in Nat /\ f < b /\ s \in Nat /\ q \in Nat /\ q < k BY <1>1, <2>3, <2>4
  <2>6. y \in Nat /\ y \div (r * B) = f /\ ((y \div B) % r) = s /\ (y % B) = e
    <3>1. InNest(y, r, B, f, s, e) BY <1>1, <2>1, <2>4, <2>5 DEF InNest
    <3> HIDE DEF y
    <3>2. ReadBack(y, r, B, f, s, e) BY <3>1, NestFromCounters
    <3> QED BY <3>2 DEF ReadBack
  <2>7. y \in 0 .. z - 1
    <3> DEFINE a == f * r + s
               d == b * r
    <3>1. a \in 0 .. d - 1 BY <1>1, <2>4, <2>5, ElementBelow
    <3>2. d \in Nat BY <1>1
    <3> HIDE DEF a, d
    <3>3. a \in Nat /\ a < d BY <3>1, <3>2
    <3>4. a * B + e \in 0 .. (d * B) - 1 BY <2>1, <3>2, <3>3, ElementBelow
    <3> QED BY <3>4 DEF a, d
  <2>8. z \in Nat \ {0}
    <3>1. z \in Nat BY <1>1, <2>1
    <3> HIDE DEF z, y
    <3> QED BY <2>7, <3>1
  <2> HIDE DEF z, y
  <2>9. x \in Nat /\ x \div z = q /\ (x % z) = y BY <2>5, <2>7, <2>8, ElementOfBlock
  <2>10. x \in 0 .. (k * z) - 1 BY <1>1, <2>5, <2>7, <2>8, ElementBelow
  <2> HIDE DEF x
  <2>11. g * B + e = j BY <2>1
  <2>12. Update(w, x) = [row |-> i, kk |-> q, col |-> j]
    BY <2>0, <2>3, <2>4, <2>6, <2>9, <2>11
  <2>13. Updates(w) = k * z BY <1>1, <1>7 DEF z, B
  <2> QED BY <2>10, <2>12, <2>13
<1> QED BY <1>6, <1>7

-----------------------------------------------------------------------------
(* The invariant                                                           *)

(* Nothing is handed out at first, everything after limit turns, and in    *)
(* between no more than everything.                                        *)
LEMMA HandedOutBounds ==
  ASSUME shape \in Shape, byCols \in BOOLEAN, limit \in Nat \ {0}, NEW x \in 0 .. limit
  PROVE  HandedOut(0) = 0 /\ HandedOut(x) \in Nat /\ HandedOut(x) <= Total
<1> DEFINE q == Total \div limit
           r == Total % limit
<1>1. Total \in Nat BY Splits
<1>2. q \in Nat /\ r \in 0 .. limit - 1 /\ Total = limit * q + r BY <1>1, Division
<1>3. HandedOut(0) = 0 * q + Least(0, r) /\ HandedOut(x) = x * q + Least(x, r) BY DEF HandedOut
<1> HIDE DEF q, r
<1>4. Least(0, r) = 0 /\ Least(x, r) \in 0 .. r BY <1>2 DEF Least
<1>5. x * q \in Nat /\ x * q <= limit * q
  <2>1. (limit - x) * q >= 0 BY <1>2
  <2> QED BY <2>1, <1>2
<1> QED BY <1>1, <1>2, <1>3, <1>4, <1>5

(* One more turn hands out one more range, which may be empty.             *)
LEMMA OneMoreRange ==
  ASSUME shape \in Shape, byCols \in BOOLEAN, limit \in Nat \ {0}, NEW x \in 0 .. limit - 1
  PROVE  /\ RangeEnd(x, HandedOut(x)) = HandedOut(x + 1)
         /\ HandedOut(x) <= HandedOut(x + 1)
<1> DEFINE q == Total \div limit
           r == Total % limit
<1>1. Total \in Nat BY Splits
<1>2. q \in Nat /\ r \in 0 .. limit - 1 BY <1>1, Division
<1>3. /\ RangeEnd(x, HandedOut(x)) = x * q + Least(x, r) + q + (IF x < r THEN 1 ELSE 0)
      /\ HandedOut(x) = x * q + Least(x, r)
      /\ HandedOut(x + 1) = (x + 1) * q + Least(x + 1, r)
  BY DEF HandedOut, RangeEnd
<1> HIDE DEF q, r
<1>4. (x + 1) * q = x * q + q /\ x * q \in Nat BY <1>2
<1>5. Least(x + 1, r) = Least(x, r) + (IF x < r THEN 1 ELSE 0) BY <1>2 DEF Least
<1>6. Least(x, r) \in Nat BY <1>2 DEF Least
<1> QED BY <1>2, <1>3, <1>4, <1>5, <1>6

(* A filled output has the type of an output.                              *)
LEMMA FillType ==
  ASSUME shape \in Shape, NEW v \in Seq(-1 .. k - 1)
  PROVE  Fill(v) \in [0 .. m - 1 -> [0 .. n - 1 -> Seq(-1 .. k - 1)]]
BY DEF Fill

(* At first nothing is handed out.                                         *)
LEMMA InitInv == Init => Inv
<1> SUFFICES ASSUME Init PROVE Inv OBVIOUS
<1>1. m \in Nat /\ k \in Nat /\ n \in Nat /\ shape \in Shape BY Shapes DEF Init
<1>2. Garbage \in Seq(-1 .. k - 1)
  <2>1. -1 \in -1 .. k - 1 BY <1>1
  <2> QED BY <2>1 DEF Garbage
<1>3. out \in [0 .. m - 1 -> [0 .. n - 1 -> Seq(-1 .. k - 1)]] BY <1>1, <1>2, FillType DEF Init
<1>4. workers \in Seq(WorkerSet) BY DEF Init
<1>5. TypeOK BY <1>1, <1>3, <1>4 DEF Init, TypeOK, WorkerSet
<1>6. Total \in Nat BY <1>5, Splits DEF TypeOK
<1>7. RangesApart BY <1>6 DEF Init, RangesApart
<1>8. LoadsInLoop BY DEF Init, LoadsInLoop
<1> QED BY <1>5, <1>7, <1>8 DEF Inv

(* A refused product hands out nothing.                                    *)
LEMMA RefuseInv == ASSUME Inv, Refuse PROVE Inv'
BY DEF Inv, TypeOK, RangesApart, LoadsInLoop, Updates, Width, Refuse, loopVars, Total,
       BlocksPerRow, Refused, Quantized, m, k, n, Block

(* The end of the spawning loop.                                           *)
LEMMA AllSpawnedInv == ASSUME Inv, AllSpawned PROVE Inv'
BY DEF Inv, TypeOK, RangesApart, LoadsInLoop, Updates, Width, AllSpawned, loopVars, Total,
       BlocksPerRow, Refused, Quantized, m, k, n, Block

(* The tiled product clears the output and hands out nothing.              *)
LEMMA RunTiledInv == ASSUME Inv, RunTiled PROVE Inv'
<1>1. m \in Nat /\ k \in Nat /\ n \in Nat /\ shape \in Shape BY Shapes DEF Inv, TypeOK
<1>2. /\ shape' = shape /\ m' = m /\ n' = n /\ k' = k /\ Block' = Block /\ workers' = workers
      /\ limit' = limit /\ byCols' = byCols /\ t' = t /\ cur' = cur /\ phase' = "tiles"
      /\ workers = <<>> /\ out' = Fill(<<>>)
  BY DEF RunTiled, loopVars, Inv, RangesApart, m, n, k, Block
<1>3. << >> \in Seq(-1 .. k - 1) OBVIOUS
<1>4. Fill(<< >>) \in [0 .. m - 1 -> [0 .. n - 1 -> Seq(-1 .. k - 1)]] BY <1>1, <1>3, FillType
<1>5. TypeOK' BY <1>2, <1>4 DEF Inv, TypeOK
<1>6. RangesApart' BY <1>2 DEF Inv, RangesApart, Total, BlocksPerRow
<1> QED BY <1>2, <1>5, <1>6 DEF Inv, LoadsInLoop

(* A tile adds terms below k to the cells.                                 *)
LEMMA AddTileInv == ASSUME Inv, AddTile PROVE Inv'
<1> DEFINE kk == t * TileK
           end == Least(k, kk + TileK)
           terms == [x \in 1 .. end - kk |-> kk + x - 1]
<1>1. m \in Nat /\ k \in Nat /\ n \in Nat /\ t \in Nat /\ TileK \in Nat \ {0}
  BY Shapes, MatmulAssumption DEF Inv, TypeOK
<1>2. /\ shape' = shape /\ m' = m /\ n' = n /\ k' = k /\ Block' = Block /\ workers' = workers
      /\ limit' = limit /\ byCols' = byCols /\ t' = t + 1 /\ cur' = cur /\ phase' = phase
      /\ phase = "tiles" /\ kk < k
      /\ out' = [i \in 0 .. m - 1 |-> [j \in 0 .. n - 1 |-> out[i][j] \o terms]]
  BY DEF AddTile, m, n, k, Block
<1>3. terms \in Seq(-1 .. k - 1)
  <2>1. kk \in Nat BY <1>1
  <2> HIDE DEF kk
  <2>2. end \in Nat /\ end <= k /\ end - kk \in Nat BY <1>1, <1>2, <2>1 DEF Least
  <2> HIDE DEF end
  <2>3. \A x \in 1 .. end - kk : kk + x - 1 \in -1 .. k - 1 BY <1>1, <2>1, <2>2
  <2> DEFINE len == end - kk
             S == -1 .. k - 1
  <2>4. len \in Nat BY <2>2
  <2>5. terms = [x \in 1 .. len |-> kk + x - 1] OBVIOUS
  <2>6. \A x \in 1 .. len : kk + x - 1 \in S BY <2>3
  <2> HIDE DEF len, S, terms
  <2>7. terms \in [1 .. len -> S] BY <2>5, <2>6
  <2>8. terms \in Seq(S) BY <2>4, <2>7
  <2> QED BY <2>8 DEF S
<1> HIDE DEF terms
<1>4. \A i \in 0 .. m - 1, j \in 0 .. n - 1 : out[i][j] \in Seq(-1 .. k - 1)
  BY DEF Inv, TypeOK
<1>5. \A i \in 0 .. m - 1, j \in 0 .. n - 1 : out[i][j] \o terms \in Seq(-1 .. k - 1)
  BY <1>3, <1>4
<1>6. out' \in [0 .. m - 1 -> [0 .. n - 1 -> Seq(-1 .. k - 1)]] BY <1>2, <1>5
<1>7. TypeOK' BY <1>1, <1>2, <1>6 DEF Inv, TypeOK
<1>8. RangesApart'
  BY <1>2 DEF Inv, RangesApart, Total, BlocksPerRow, Refused, Quantized
<1> QED BY <1>2, <1>7, <1>8 DEF Inv, LoadsInLoop, Updates, Width

(* The last tile is added.                                                 *)
LEMMA TilesDoneInv == ASSUME Inv, TilesDone PROVE Inv'
BY DEF Inv, TypeOK, RangesApart, LoadsInLoop, Updates, Width, TilesDone, loopVars, Total,
       BlocksPerRow, Refused, Quantized, m, k, n, Block

(* The end of the call.                                                    *)
LEMMA JoinInv == ASSUME Inv, Join PROVE Inv'
BY DEF Inv, TypeOK, RangesApart, LoadsInLoop, Updates, Width, Join, loopVars, Total,
       BlocksPerRow, Refused, Quantized, m, k, n, Block

(* One worker has all rows, and there are no others.                       *)
LEMMA RunSerialInv == ASSUME Inv, NEW w, NEW h, RunSerial(w, h) PROVE Inv'
<1>1. m \in Nat /\ k \in Nat /\ n \in Nat /\ shape \in Shape BY Shapes DEF Inv, TypeOK
<1>2. shape' = shape /\ m' = m /\ n' = n /\ k' = k /\ Block' = Block
  BY DEF RunSerial, m, n, k, Block
<1>3. out' \in [0 .. m' - 1 -> [0 .. n' - 1 -> Seq(-1 .. k' - 1)]]
  <2>1. << >> \in Seq(-1 .. k - 1) OBVIOUS
  <2>2. Fill(<< >>) \in [0 .. m - 1 -> [0 .. n - 1 -> Seq(-1 .. k - 1)]]
    BY <1>1, <2>1, FillType
  <2> QED BY <1>2, <2>2 DEF RunSerial
<1>4. workers' = <<NewWorker(0, m)>> /\ NewWorker(0, m) \in WorkerSet
  BY <1>1 DEF RunSerial, NewWorker, WorkerSet
<1>5. TypeOK'
  <2>1. workers' \in Seq(WorkerSet') BY <1>2, <1>4 DEF WorkerSet
  <2> QED BY <1>1, <1>2, <1>3, <2>1 DEF RunSerial, TypeOK, WorkerSet
<1>6. RangesApart'
  <2>1. Total' = m BY <1>2 DEF RunSerial, Total
  <2>2. DOMAIN workers' = {1} /\ workers'[1].lo = 0 /\ workers'[1].hi = m
    BY <1>4 DEF NewWorker
  <2>3. Refused' = Refused BY <1>2 DEF Refused, Quantized
  <2> QED BY <1>1, <2>1, <2>2, <2>3 DEF RunSerial, RangesApart
<1>7. LoadsInLoop' BY <1>4 DEF LoadsInLoop, NewWorker
<1> QED BY <1>5, <1>6, <1>7 DEF Inv

(* There is at least one turn: more than one thread, or one block.         *)
LEMMA StartThreadsInv ==
  ASSUME Inv, NEW w \in Wanted, NEW h \in Wanted, StartThreads(w, h)
  PROVE  Inv'
<1>1. m \in Nat /\ k \in Nat /\ n \in Nat /\ shape \in Shape BY Shapes DEF Inv, TypeOK
<1>2. shape' = shape /\ m' = m /\ n' = n /\ k' = k /\ Block' = Block
  BY DEF StartThreads, m, n, k, Block
<1>3. out' \in [0 .. m' - 1 -> [0 .. n' - 1 -> Seq(-1 .. k' - 1)]]
  <2>1. << >> \in Seq(-1 .. k - 1) OBVIOUS
  <2>2. Fill(<< >>) \in [0 .. m - 1 -> [0 .. n - 1 -> Seq(-1 .. k - 1)]]
    BY <1>1, <2>1, FillType
  <2> QED BY <1>2, <2>2 DEF StartThreads
<1>4. byCols' \in BOOLEAN /\ t' = 0 /\ cur' = 0 /\ workers' = <<>> /\ phase' = "spawn"
  BY DEF StartThreads, Inv, RangesApart, loopVars
<1>5. limit' \in Nat \ {0}
  <2>1. Threads(w, h) \in Nat
    BY MatmulAssumption, <1>1 DEF Threads, Least, Most
  <2>2. BlocksPerRow \in Nat BY Splits DEF Inv, TypeOK
  <2>3. Threads(w, h) > 1 /\ limit' = IF Quantized /\ m < n
                                     THEN Least(Threads(w, h), Most(1, BlocksPerRow))
                                     ELSE Threads(w, h)
    BY DEF StartThreads
  <2> QED BY <2>1, <2>2, <2>3 DEF Least, Most
<1>6. TypeOK'
  <2>1. workers' \in Seq(WorkerSet') BY <1>4
  <2> QED BY <1>1, <1>2, <1>3, <1>4, <1>5, <2>1 DEF TypeOK, WorkerSet
<1>7. HandedOut(0)' = 0 /\ Total' \in Nat
  <2>1. BlocksPerRow \in Nat /\ BlocksPerRow' = BlocksPerRow
    BY <1>2, Splits DEF Inv, TypeOK, BlocksPerRow
  <2>2. Total' \in Nat BY <1>1, <1>2, <1>4, <2>1 DEF Total
  <2>3. Total' \div limit' \in Nat /\ (Total' % limit') \in 0 .. limit' - 1
    BY <1>5, <2>2, Division
  <2>4. HandedOut(0)' = 0 * (Total' \div limit') + Least(0, Total' % limit')
    BY DEF HandedOut, Least
  <2>5. Least(0, Total' % limit') = 0 BY <1>5, <2>3 DEF Least
  <2> QED BY <2>2, <2>3, <2>4, <2>5
<1>8. RangesApart'
  <2>1. ~Refused' BY <1>2 DEF StartThreads, Refused, Quantized
  <2>2. HandedOut(t)' = 0 BY <1>4, <1>7 DEF HandedOut
  <2> QED BY <1>4, <1>5, <1>7, <2>1, <2>2 DEF RangesApart
<1>9. LoadsInLoop' BY <1>4 DEF LoadsInLoop
<1> QED BY <1>6, <1>8, <1>9 DEF Inv

(* The new range begins where the last one ended; an empty one ends the    *)
(* loop and is nobody's.                                                   *)
LEMMA SpawnInv == ASSUME Inv, Spawn PROVE Inv'
<1> DEFINE hi == RangeEnd(t, cur)
           new == NewWorker(cur, hi)
<1>1. /\ shape \in Shape /\ byCols \in BOOLEAN /\ limit \in Nat \ {0}
      /\ t \in 0 .. limit - 1 /\ cur = HandedOut(t) /\ cur \in Nat
  BY DEF Inv, TypeOK, RangesApart, Spawn
<1>2. /\ shape' = shape /\ m' = m /\ n' = n /\ k' = k /\ Block' = Block
      /\ byCols' = byCols /\ limit' = limit /\ out' = out /\ Total' = Total
      /\ Refused' = Refused
  BY DEF Spawn, m, n, k, Block, Total, BlocksPerRow, Refused, Quantized
<1>3. hi = HandedOut(t + 1) /\ cur <= hi BY <1>1, OneMoreRange
<1>4. hi \in Nat /\ hi <= Total /\ Total \in Nat
  <2>1. t + 1 \in 0 .. limit BY <1>1
  <2> QED BY <1>1, <1>3, <2>1, HandedOutBounds, Splits
<1>5. t' = t + 1 => HandedOut(t)' = HandedOut(t + 1)
  BY <1>2 DEF HandedOut, Least
<1>6. workers \in Seq(WorkerSet) /\ WorkerSet' = WorkerSet
  BY <1>2 DEF Inv, TypeOK, WorkerSet
<1>7. cur' = hi BY DEF Spawn
<1> HIDE DEF hi
<1>8. CASE cur >= hi
  <2>1. phase' = "join" /\ workers' = workers /\ t' = t BY <1>8 DEF Spawn, hi
  <2>2. TypeOK' BY <1>1, <1>2, <1>4, <1>6, <1>7, <2>1 DEF Inv, TypeOK, WorkerSet
  <2>3. RangesApart'
    BY <1>1, <1>2, <1>3, <1>4, <1>7, <1>8, <2>1 DEF Inv, RangesApart
  <2>4. LoadsInLoop' BY <1>2, <2>1 DEF Inv, LoadsInLoop, Updates, Width
  <2> QED BY <2>2, <2>3, <2>4 DEF Inv
<1>9. CASE ~(cur >= hi)
  <2>1. phase' = phase /\ workers' = Append(workers, new) /\ t' = t + 1 /\ phase = "spawn"
    BY <1>9 DEF Spawn, hi
  <2>2. new \in WorkerSet /\ new.lo = cur /\ new.hi = hi
    BY <1>1, <1>4 DEF NewWorker, WorkerSet
  <2> HIDE DEF new
  <2>3. workers' \in Seq(WorkerSet) BY <1>6, <2>1, <2>2
  <2>4. TypeOK' BY <1>1, <1>2, <1>4, <1>6, <1>7, <2>1, <2>3 DEF Inv, TypeOK, WorkerSet
  <2>5. /\ DOMAIN workers' = (1 .. Len(workers)) \cup {Len(workers) + 1}
        /\ DOMAIN workers = 1 .. Len(workers) /\ Len(workers) \in Nat
        /\ \A w \in DOMAIN workers : workers'[w] = workers[w]
        /\ workers'[Len(workers) + 1] = new
    BY <1>6, <2>1, <2>2
  <2>6. \A w \in DOMAIN workers' : workers'[w].lo <= workers'[w].hi /\ workers'[w].hi <= cur'
    <3>1. TAKE w \in DOMAIN workers'
    <3>2. CASE w \in DOMAIN workers
      <4>1. workers[w].lo <= workers[w].hi /\ workers[w].hi <= cur BY <3>2 DEF Inv, RangesApart
      <4>2. workers[w].hi \in Nat BY <3>2, WorkerType DEF WorkerSet
      <4> QED BY <1>1, <1>3, <1>4, <1>7, <2>5, <3>2, <4>1, <4>2
    <3>3. CASE w = Len(workers) + 1 BY <1>1, <1>3, <1>4, <1>7, <2>2, <2>5, <3>3
    <3> QED BY <2>5, <3>2, <3>3
  <2>7. \A w, v \in DOMAIN workers' : w < v => workers'[w].hi <= workers'[v].lo
    <3>1. TAKE w, v \in DOMAIN workers'
    <3>2. HAVE w < v
    <3>3. w \in DOMAIN workers BY <2>5, <3>2
    <3>4. CASE v \in DOMAIN workers BY <2>5, <3>2, <3>3, <3>4 DEF Inv, RangesApart
    <3>5. CASE v = Len(workers) + 1 BY <2>2, <2>5, <3>3, <3>5 DEF Inv, RangesApart
    <3> QED BY <2>5, <3>4, <3>5
  <2>8. ~Refused BY <2>1 DEF Inv, RangesApart
  <2>9. RangesApart'
    <3>1. limit' > 0 /\ t' <= limit' /\ cur' = HandedOut(t)'
      BY <1>1, <1>2, <1>3, <1>5, <1>7, <2>1
    <3> QED BY <1>2, <1>4, <1>7, <2>1, <2>6, <2>7, <2>8, <3>1 DEF RangesApart
  <2>10. LoadsInLoop'
    <3>1. ~new.loaded BY DEF new, NewWorker
    <3> QED BY <1>2, <2>5, <3>1 DEF Inv, LoadsInLoop, Updates, Width
  <2> QED BY <2>4, <2>9, <2>10 DEF Inv
<1> QED BY <1>8, <1>9

(* A worker that goes on keeps its range.                                  *)
LEMMA WorkerStepInv ==
  ASSUME Inv, NEW w \in DOMAIN workers, NEW new \in WorkerSet,
         new.lo = workers[w].lo, new.hi = workers[w].hi,
         new.loaded => new.next < Updates(w),
         workers' = [workers EXCEPT ![w] = new],
         out' \in [0 .. m - 1 -> [0 .. n - 1 -> Seq(-1 .. k - 1)]],
         UNCHANGED <<shape, phase, limit, byCols, loopVars>>
  PROVE  Inv'
<1>1. /\ shape' = shape /\ m' = m /\ n' = n /\ k' = k /\ Block' = Block /\ t' = t /\ cur' = cur
      /\ phase' = phase /\ byCols' = byCols /\ limit' = limit /\ Total' = Total
      /\ Refused' = Refused
  BY DEF loopVars, m, n, k, Block, Total, BlocksPerRow, Refused, Quantized
<1>2. workers \in Seq(WorkerSet) BY DEF Inv, TypeOK, WorkerSet
<1>3. workers' \in Seq(WorkerSet) /\ DOMAIN workers' = DOMAIN workers BY <1>2
<1>4. TypeOK' BY <1>1, <1>3 DEF Inv, TypeOK, WorkerSet
<1>5. \A v \in DOMAIN workers : workers'[v].lo = workers[v].lo /\ workers'[v].hi = workers[v].hi
  BY <1>2
<1>6. HandedOut(t)' = HandedOut(t) BY <1>1 DEF HandedOut, Least
<1>7. phase # "called" /\ workers # <<>> /\ (workers' # <<>>)
  BY <1>3, WorkerType DEF Inv, RangesApart
<1>8. RangesApart' BY <1>1, <1>3, <1>5, <1>6, <1>7 DEF Inv, RangesApart
<1>9. LoadsInLoop'
  <2>1. \A v \in DOMAIN workers : Updates(v)' = Updates(v) BY <1>1, <1>5 DEF Updates, Width
  <2>2. \A v \in DOMAIN workers : workers'[v] = IF v = w THEN new ELSE workers[v] BY <1>2
  <2> QED BY <1>3, <2>1, <2>2 DEF Inv, LoadsInLoop
<1> QED BY <1>4, <1>8, <1>9 DEF Inv

(* A load puts a cell of the output in the register.                       *)
LEMMA LoadInv == ASSUME Inv, NEW w \in DOMAIN workers, Load(w) PROVE Inv'
<1> DEFINE x == workers[w].next
           u == Update(w, x)
           new == [workers[w] EXCEPT !.loaded = TRUE, !.reg = out[u.row][u.col]]
<1>1. x \in Nat /\ x < Updates(w) BY WorkerType DEF Load, WorkerSet
<1>2. u.row \in 0 .. m - 1 /\ u.col \in 0 .. n - 1 BY <1>1, UpdateInRange
<1>3. workers \in Seq(WorkerSet) /\ workers[w] \in WorkerSet
  BY WorkerType DEF Inv, TypeOK, WorkerSet
<1>4. workers' = [workers EXCEPT ![w] = new] BY <1>3 DEF Load
<1> HIDE DEF u
<1>5. out[u.row][u.col] \in Seq(-1 .. k - 1) BY <1>2 DEF Inv, TypeOK
<1>6. /\ new \in WorkerSet /\ new.lo = workers[w].lo /\ new.hi = workers[w].hi
      /\ new.next < Updates(w)
  BY <1>1, <1>3, <1>5 DEF WorkerSet
<1>7. UNCHANGED <<shape, phase, limit, byCols, loopVars, out>> BY DEF Load
<1> HIDE DEF new
<1>8. out' \in [0 .. m - 1 -> [0 .. n - 1 -> Seq(-1 .. k - 1)]] BY <1>7 DEF Inv, TypeOK
<1> QED BY <1>4, <1>6, <1>7, <1>8, WorkerStepInv

(* A store appends an index below k to a cell of the output.               *)
LEMMA StoreInv == ASSUME Inv, NEW w \in DOMAIN workers, Store(w) PROVE Inv'
<1> DEFINE x == workers[w].next
           u == Update(w, x)
           new == [workers[w] EXCEPT !.loaded = FALSE, !.next = @ + 1, !.reg = <<>>]
<1>1. x \in Nat /\ x < Updates(w) BY WorkerType DEF Store, WorkerSet, Inv, LoadsInLoop
<1>2. u.row \in 0 .. m - 1 /\ u.col \in 0 .. n - 1 /\ u.kk \in 0 .. k - 1 BY <1>1, UpdateInRange
<1>3. workers \in Seq(WorkerSet) /\ workers[w] \in WorkerSet
  BY WorkerType DEF Inv, TypeOK, WorkerSet
<1>4. /\ workers' = [workers EXCEPT ![w] = new]
      /\ out' = [out EXCEPT ![u.row][u.col] = Append(workers[w].reg, u.kk)]
  BY <1>3 DEF Store
<1>5. UNCHANGED <<shape, phase, limit, byCols, loopVars>> BY DEF Store
<1> HIDE DEF u
<1>6. Append(workers[w].reg, u.kk) \in Seq(-1 .. k - 1)
  <2>1. workers[w].reg \in Seq(-1 .. k - 1) BY <1>3 DEF WorkerSet
  <2>2. u.kk \in -1 .. k - 1
    <3>1. k \in Nat BY Shapes DEF Inv, TypeOK
    <3> QED BY <1>2, <3>1
  <2> QED BY <2>1, <2>2
<1>7. /\ new \in WorkerSet /\ new.lo = workers[w].lo /\ new.hi = workers[w].hi
      /\ ~new.loaded
  <2>1. <<>> \in Seq(-1 .. k - 1) OBVIOUS
  <2>2. workers[w].next + 1 \in Nat BY <1>1
  <2> QED BY <1>3, <2>1, <2>2 DEF WorkerSet
<1> HIDE DEF new
<1>8. out' \in [0 .. m - 1 -> [0 .. n - 1 -> Seq(-1 .. k - 1)]]
  BY <1>2, <1>4, <1>6 DEF Inv, TypeOK
<1> QED BY <1>4, <1>5, <1>7, <1>8, WorkerStepInv

-----------------------------------------------------------------------------
(* The order of the additions                                              *)

(* The sizes of the product are numbers.                                   *)
Sizes == m \in Nat /\ k \in Nat /\ n \in Nat /\ Block \in Nat \ {0}

(* The invariant gives the product its sizes ...                           *)
LEMMA InvSizes == Inv => Sizes
BY Shapes DEF Inv, TypeOK, Sizes

(* ... in the next state, too.                                             *)
LEMMA NextSizes == Inv' => Sizes'
BY InvSizes, PTL

(* The updates of a worker are of cells of its range: UpdateInRange as a   *)
(* state predicate, which therefore holds in the next state too.           *)
InRange ==
  \A w \in DOMAIN workers : \A x \in 0 .. Updates(w) - 1 :
    /\ Update(w, x).row \in 0 .. m - 1
    /\ Update(w, x).col \in 0 .. n - 1
    /\ Update(w, x).kk \in 0 .. k - 1
    /\ Place(Update(w, x).row, Update(w, x).col) \in workers[w].lo .. workers[w].hi - 1

(* The invariant keeps the updates in their ranges ...                     *)
LEMMA InvInRange == Inv => InRange
<1> SUFFICES ASSUME Inv, NEW w \in DOMAIN workers, NEW x \in 0 .. Updates(w) - 1
             PROVE  /\ Update(w, x).row \in 0 .. m - 1
                    /\ Update(w, x).col \in 0 .. n - 1
                    /\ Update(w, x).kk \in 0 .. k - 1
                    /\ Place(Update(w, x).row, Update(w, x).col)
                         \in workers[w].lo .. workers[w].hi - 1
  BY DEF InRange
<1>1. Updates(w) \in Nat BY RangeFacts
<1>2. x \in Nat /\ x < Updates(w) BY <1>1
<1> QED BY <1>2, UpdateInRange

(* ... and so it does in the next state.                                   *)
LEMMA NextInRange == Inv' => InRange'
BY InvInRange, PTL

(* The ranges are being handed out, worked on or finished.                 *)
Running == phase \in {"spawn", "join", "done"}

(* What the serial loop has added to a cell after l terms, and the cell an *)
(* update is of.                                                           *)
Serial(l) == [p \in 1 .. l |-> p - 1]
CellOf(w, x) == out[Update(w, x).row][Update(w, x).col]

(* Before a product, when it is refused and when it is tiled nobody works; *)
(* before it and when it is refused the output is what it was.             *)
Blank ==
  /\ ~Running => workers = <<>>
  /\ phase \in {"called", "refused"} => out = Fill(Garbage)
  /\ Running => ~Refused

(* All that is below cur is some worker's; after the loop, that is all     *)
(* there is; and the joins waited for all workers.                         *)
Covered ==
  /\ Running => \A p \in 0 .. cur - 1 :
       \E w \in DOMAIN workers : workers[w].lo <= p /\ p < workers[w].hi
  /\ phase \in {"join", "done"} => cur = Total
  /\ phase = "done" => \A w \in DOMAIN workers : Finished(w)

(* Every cell is a beginning of the serial sum, and nothing was added to   *)
(* the cells nobody has yet.                                               *)
CellsSerial ==
  Running => \A i \in 0 .. m - 1, j \in 0 .. n - 1 :
    /\ out[i][j] = Serial(Len(out[i][j])) /\ Len(out[i][j]) <= k
    /\ Place(i, j) >= cur => out[i][j] = <<>>

(* A worker has done the update of a cell and an index exactly when the    *)
(* cell's sum is past the index.                                           *)
Progress ==
  \A w \in DOMAIN workers : \A x \in 0 .. Updates(w) - 1 :
    x < workers[w].next <=> Update(w, x).kk < Len(CellOf(w, x))

(* What a worker has loaded is still in the output.                        *)
Registers ==
  \A w \in DOMAIN workers :
    workers[w].loaded => workers[w].reg = CellOf(w, workers[w].next)

OrderInv == Inv /\ Blank /\ Covered /\ CellsSerial /\ Progress /\ Registers

(* Who keeps the range keeps the updates.                                  *)
LEMMA SameNest ==
  ASSUME NEW w, shape' = shape, byCols' = byCols,
         workers'[w].lo = workers[w].lo, workers'[w].hi = workers[w].hi
  PROVE  Updates(w)' = Updates(w) /\ \A x : Update(w, x)' = Update(w, x)
BY DEF Updates, Width, Update, UpdateQuantized, UpdateF32, Quantized, BlocksPerRow, m, k, n, Block

(* At first there are no workers and the output is untouched.              *)
LEMMA InitOrder == Init => OrderInv
<1> SUFFICES ASSUME Init PROVE OrderInv OBVIOUS
<1>1. Inv BY InitInv
<1>2. phase = "called" /\ workers = <<>> /\ out = Fill(Garbage) BY DEF Init
<1> QED BY <1>1, <1>2 DEF OrderInv, Blank, Running, Covered, CellsSerial, Progress, Registers

(* A refused product leaves the output alone.                              *)
LEMMA RefuseOrder == ASSUME OrderInv, Refuse PROVE OrderInv'
<1>1. Inv' BY RefuseInv DEF OrderInv
<1>2. /\ phase' = "refused" /\ workers' = <<>> /\ out' = out /\ m' = m /\ n' = n
      /\ out = Fill(Garbage)
  BY DEF Refuse, OrderInv, Inv, RangesApart, Blank, Running, m, n
<1>3. Fill(Garbage)' = Fill(Garbage) BY <1>2 DEF Fill, Garbage
<1> QED BY <1>1, <1>2, <1>3 DEF OrderInv, Blank, Running, Covered, CellsSerial, Progress, Registers

(* The tiled product is nobody's work but the caller's.                    *)
LEMMA TiledOrder ==
  ASSUME OrderInv, RunTiled \/ AddTile \/ TilesDone PROVE OrderInv'
<1>1. Inv' BY RunTiledInv, AddTileInv, TilesDoneInv DEF OrderInv
<1>2. phase' \in {"tiles", "tiled"} /\ workers' = workers /\ workers = <<>>
  BY DEF RunTiled, AddTile, TilesDone, OrderInv, Blank, Running
<1>3. DOMAIN workers' = {} BY <1>2
<1> QED BY <1>1, <1>2, <1>3 DEF OrderInv, Blank, Running, Covered, CellsSerial, Progress, Registers

(* A cleared output with nothing done on it.                               *)
LEMMA ClearedOrder ==
  ASSUME Inv, Inv', out' = Fill(<<>>), m' = m, n' = n,
         \A w \in DOMAIN workers' : workers'[w].next = 0 /\ ~workers'[w].loaded
  PROVE  CellsSerial' /\ Progress' /\ Registers'
<1>1. \A i \in 0 .. m' - 1, j \in 0 .. n' - 1 : out'[i][j] = <<>> BY DEF Fill
<1>2. CellsSerial'
  <2>1. <<>> = Serial(0) BY DEF Serial
  <2>2. k' \in Nat BY NextSizes DEF Sizes
  <2> QED BY <1>1, <2>1, <2>2 DEF CellsSerial, Serial
<1>3. Progress'
  <2>1. InRange' BY NextInRange
  <2>2. SUFFICES ASSUME NEW w \in DOMAIN workers', NEW x \in 0 .. Updates(w)' - 1
                 PROVE  x < workers'[w].next <=> Update(w, x).kk' < Len(CellOf(w, x)')
    BY DEF Progress
  <2>3. /\ Update(w, x).row' \in 0 .. m' - 1 /\ Update(w, x).col' \in 0 .. n' - 1
        /\ Update(w, x).kk' \in 0 .. k' - 1
    BY <2>1, <2>2 DEF InRange
  <2>4. CellOf(w, x)' = <<>> BY <1>1, <2>3 DEF CellOf
  <2>5. ~(x < 0) BY <2>2
  <2>6. ~(Update(w, x).kk' < 0) BY <2>3
  <2>7. workers'[w].next = 0 /\ Len(CellOf(w, x)') = 0 BY <2>2, <2>4
  <2> QED BY <2>5, <2>6, <2>7
<1>4. Registers' BY DEF Registers
<1> QED BY <1>2, <1>3, <1>4

(* One worker has all rows.                                                *)
LEMMA RunSerialOrder ==
  ASSUME OrderInv, NEW w \in Wanted, NEW h \in Wanted, RunSerial(w, h) PROVE OrderInv'
<1>1. Inv /\ Inv' BY RunSerialInv DEF OrderInv
<1>2. /\ m' = m /\ n' = n /\ phase' = "join" /\ out' = Fill(<<>>) /\ cur' = m /\ Total' = m
      /\ workers' = <<NewWorker(0, m)>>
  BY DEF RunSerial, m, n, Total
<1>3. /\ DOMAIN workers' = {1} /\ workers'[1].lo = 0 /\ workers'[1].hi = m /\ workers'[1].next = 0
      /\ ~workers'[1].loaded
  BY <1>2 DEF NewWorker
<1>4. CellsSerial' /\ Progress' /\ Registers' BY <1>1, <1>2, <1>3, ClearedOrder
<1>5. Covered'
  <2>1. \A p \in 0 .. cur' - 1 :
          \E v \in DOMAIN workers' : workers'[v].lo <= p /\ p < workers'[v].hi
    <3>1. m \in Nat BY <1>1, InvSizes DEF Sizes
    <3>2. TAKE p \in 0 .. cur' - 1
    <3>3. workers'[1].lo <= p /\ p < workers'[1].hi
      <4>1. p >= 0 /\ p < m BY <1>2, <3>1, <3>2
      <4> QED BY <1>3, <4>1
    <3> QED BY <1>3, <3>3
  <2>2. phase' # "done" /\ cur' = Total' BY <1>2
  <2> QED BY <2>1, <2>2 DEF Covered
<1>6. Blank'
  <2>1. ~Refused' BY DEF RunSerial, Refused, Quantized, n, Block
  <2> QED BY <1>2, <2>1 DEF Blank, Running
<1> QED BY <1>1, <1>4, <1>5, <1>6 DEF OrderInv

(* Nothing is handed out yet.                                              *)
LEMMA StartThreadsOrder ==
  ASSUME OrderInv, NEW w \in Wanted, NEW h \in Wanted, StartThreads(w, h) PROVE OrderInv'
<1>1. Inv /\ Inv' BY StartThreadsInv DEF OrderInv
<1>2. /\ m' = m /\ n' = n /\ phase' = "spawn" /\ out' = Fill(<<>>) /\ cur' = 0 /\ workers' = <<>>
  BY <1>1 DEF StartThreads, m, n, Inv, RangesApart, loopVars
<1>3. CellsSerial' /\ Progress' /\ Registers' BY <1>1, <1>2, ClearedOrder
<1>4. Covered' BY <1>2 DEF Covered, Running
<1>5. Blank'
  <2>1. ~Refused' BY DEF StartThreads, Refused, Quantized, n, Block
  <2> QED BY <1>2, <2>1 DEF Blank, Running
<1> QED BY <1>1, <1>3, <1>4, <1>5 DEF OrderInv

(* All that is to be split has been handed out after the last turn, and    *)
(* when a range is empty.                                                  *)
LEMMA AllHandedOut ==
  ASSUME shape \in Shape, byCols \in BOOLEAN, limit \in Nat \ {0}
  PROVE  /\ HandedOut(limit) = Total
         /\ \A x \in 0 .. limit - 1 :
              RangeEnd(x, HandedOut(x)) <= HandedOut(x) => HandedOut(x) = Total
<1> DEFINE q == Total \div limit
           r == Total % limit
<1>1. Total \in Nat BY Splits
<1>2. q \in Nat /\ r \in 0 .. limit - 1 /\ Total = limit * q + r BY <1>1, Division
<1>3. HandedOut(limit) = limit * q + Least(limit, r) BY DEF HandedOut
<1>4. \A x : /\ HandedOut(x) = x * q + Least(x, r)
             /\ RangeEnd(x, HandedOut(x)) = HandedOut(x) + q + (IF x < r THEN 1 ELSE 0)
  BY DEF HandedOut, RangeEnd
<1> HIDE DEF q, r
<1>5. Least(limit, r) = r BY <1>2 DEF Least
<1>6. ASSUME NEW x \in 0 .. limit - 1, RangeEnd(x, HandedOut(x)) <= HandedOut(x)
      PROVE  HandedOut(x) = Total
  <2>1. x * q \in Nat /\ Least(x, r) \in Nat BY <1>2 DEF Least
  <2>2. HandedOut(x) \in Nat BY <1>4, <2>1
  <2>3. q = 0 /\ x >= r BY <1>2, <1>4, <1>6, <2>2
  <2>4. Least(x, r) = r /\ x * q = 0 /\ limit * q = 0 BY <1>2, <2>3 DEF Least
  <2> QED BY <1>2, <1>4, <2>4
<1> QED BY <1>2, <1>3, <1>5, <1>6

(* After the last turn everything is handed out.                           *)
LEMMA AllSpawnedOrder == ASSUME OrderInv, AllSpawned PROVE OrderInv'
<1>1. Inv /\ Inv' BY AllSpawnedInv DEF OrderInv
<1>2. /\ shape' = shape /\ limit' = limit /\ byCols' = byCols /\ cur' = cur /\ workers' = workers
      /\ out' = out /\ phase = "spawn" /\ phase' = "join" /\ t = limit
      /\ m' = m /\ n' = n /\ k' = k
  BY DEF AllSpawned, loopVars, m, n, k
<1>3. cur = Total BY <1>1, <1>2, AllHandedOut DEF Inv, TypeOK, RangesApart
<1>4. Total' = Total BY <1>2 DEF Total, BlocksPerRow, m, n, Block
<1>5. Blank'
  <2>1. Refused' = Refused BY <1>2 DEF Refused, Quantized, n, Block
  <2> QED BY <1>2, <2>1 DEF OrderInv, Blank, Running
<1>6. Covered' BY <1>2, <1>3, <1>4 DEF OrderInv, Covered, Running
<1>7. CellsSerial' BY <1>2 DEF OrderInv, CellsSerial, Running, Place, Block
<1>8. \A w \in DOMAIN workers : Updates(w)' = Updates(w) /\ \A x : Update(w, x)' = Update(w, x)
  BY <1>2, SameNest
<1>9. Progress' BY <1>2, <1>8 DEF OrderInv, Progress, CellOf
<1>10. Registers' BY <1>2, <1>8 DEF OrderInv, Registers, CellOf
<1> QED BY <1>1, <1>5, <1>6, <1>7, <1>9, <1>10 DEF OrderInv

(* The call ends when all workers have.                                    *)
LEMMA JoinOrder == ASSUME OrderInv, Join PROVE OrderInv'
<1>1. Inv /\ Inv' BY JoinInv DEF OrderInv
<1>2. /\ shape' = shape /\ limit' = limit /\ byCols' = byCols /\ cur' = cur /\ workers' = workers
      /\ out' = out /\ phase = "join" /\ phase' = "done"
      /\ m' = m /\ n' = n /\ k' = k
      /\ \A w \in DOMAIN workers : Finished(w)
  BY DEF Join, loopVars, m, n, k
<1>3. Total' = Total BY <1>2 DEF Total, BlocksPerRow, m, n, Block
<1>4. Blank'
  <2>1. Refused' = Refused BY <1>2 DEF Refused, Quantized, n, Block
  <2> QED BY <1>2, <2>1 DEF OrderInv, Blank, Running
<1>5. \A w \in DOMAIN workers : Updates(w)' = Updates(w) /\ \A x : Update(w, x)' = Update(w, x)
  BY <1>2, SameNest
<1>6. Covered' BY <1>2, <1>3, <1>5 DEF OrderInv, Covered, Running, Finished
<1>7. CellsSerial' BY <1>2 DEF OrderInv, CellsSerial, Running, Place, Block
<1>8. Progress' BY <1>2, <1>5 DEF OrderInv, Progress, CellOf
<1>9. Registers' BY <1>2, <1>5 DEF OrderInv, Registers, CellOf
<1> QED BY <1>1, <1>4, <1>6, <1>7, <1>8, <1>9 DEF OrderInv

(* The cells of a new range are as they were cleared.                      *)
LEMMA SpawnOrder == ASSUME OrderInv, Spawn PROVE OrderInv'
<1> DEFINE hi == RangeEnd(t, cur)
           new == NewWorker(cur, hi)
           W == Len(workers) + 1
<1>1. Inv /\ Inv' BY SpawnInv DEF OrderInv
<1>2. /\ shape' = shape /\ limit' = limit /\ byCols' = byCols /\ out' = out /\ phase = "spawn"
      /\ m' = m /\ n' = n /\ k' = k /\ cur' = hi
      /\ IF cur >= hi THEN phase' = "join" /\ workers' = workers
         ELSE workers' = Append(workers, new) /\ phase' = phase
  BY DEF Spawn, m, n, k
<1>3. Total' = Total /\ \A i, j : Place(i, j)' = Place(i, j)
  BY <1>2 DEF Total, BlocksPerRow, m, n, Block, Place
<1>4. Blank'
  <2>1. Refused' = Refused BY <1>2 DEF Refused, Quantized, n, Block
  <2> QED BY <1>2, <2>1 DEF OrderInv, Blank, Running
<1>5. /\ shape \in Shape /\ byCols \in BOOLEAN /\ limit \in Nat \ {0} /\ t \in 0 .. limit - 1
      /\ cur = HandedOut(t) /\ cur \in Nat /\ hi \in Nat /\ cur <= Total /\ Total \in Nat
  BY <1>1, <1>2, Splits DEF Inv, TypeOK, RangesApart, Spawn
<1>6. workers \in Seq(WorkerSet) BY <1>1 DEF Inv, TypeOK, WorkerSet
<1> HIDE DEF hi
<1>7. CASE cur >= hi
  <2>1. cur = Total BY <1>5, <1>7, AllHandedOut DEF hi
  <2>2. cur' = cur /\ workers' = workers /\ phase' = "join"
    <3>1. cur <= hi BY <1>5, OneMoreRange DEF hi
    <3> QED BY <1>2, <1>5, <1>7, <3>1
  <2>3. Covered' BY <1>2, <1>3, <2>1, <2>2 DEF OrderInv, Covered, Running
  <2>4. CellsSerial' BY <1>2, <1>3, <2>2 DEF OrderInv, CellsSerial, Running
  <2>5. \A w \in DOMAIN workers : Updates(w)' = Updates(w) /\ \A x : Update(w, x)' = Update(w, x)
    BY <1>2, <2>2, SameNest
  <2>6. Progress' BY <1>2, <2>2, <2>5 DEF OrderInv, Progress, CellOf
  <2>7. Registers' BY <1>2, <2>2, <2>5 DEF OrderInv, Registers, CellOf
  <2> QED BY <1>1, <1>4, <2>3, <2>4, <2>6, <2>7 DEF OrderInv
<1>8. CASE ~(cur >= hi)
  <2>1. cur < hi /\ phase' = "spawn" /\ workers' = Append(workers, new) BY <1>2, <1>5, <1>8
  <2>2. new \in WorkerSet /\ new.lo = cur /\ new.hi = hi /\ new.next = 0 /\ ~new.loaded
    BY <1>5 DEF NewWorker, WorkerSet
  <2> HIDE DEF new
  <2>3. /\ DOMAIN workers' = DOMAIN workers \cup {W} /\ workers'[W] = new
        /\ \A w \in DOMAIN workers : workers'[w] = workers[w] /\ w # W
    BY <1>6, <2>1, <2>2
  <2> HIDE DEF W
  <2>4. Covered'
    <3>1. SUFFICES ASSUME NEW p \in 0 .. cur' - 1
                   PROVE  \E w \in DOMAIN workers' : workers'[w].lo <= p /\ p < workers'[w].hi
      BY <2>1 DEF Covered
    <3>2. CASE p < cur
      <4>1. p \in 0 .. cur - 1 BY <1>5, <3>1, <3>2
      <4>2. PICK w \in DOMAIN workers : workers[w].lo <= p /\ p < workers[w].hi
        BY <1>2, <4>1 DEF OrderInv, Covered, Running
      <4> QED BY <2>3, <4>2
    <3>3. CASE p >= cur
      <4>1. p < hi BY <1>2, <1>5, <3>1
      <4> QED BY <2>2, <2>3, <3>3, <4>1
    <3> QED BY <1>5, <3>1, <3>2, <3>3
  <2>5. CellsSerial'
    <3>1. \A i, j : Place(i, j) \in Int /\ Place(i, j) >= hi => Place(i, j) >= cur BY <1>5, <2>1
    <3>2. \A i \in 0 .. m - 1, j \in 0 .. n - 1 : Place(i, j) \in Int
      <4>1. m \in Nat /\ n \in Nat /\ Block \in Nat \ {0} BY <1>1, InvSizes DEF Sizes
      <4>2. TAKE i \in 0 .. m - 1, j \in 0 .. n - 1
      <4>3. j \in Nat /\ i \in Int BY <4>1, <4>2
      <4> QED BY <4>1, <4>3, Division DEF Place
    <3> QED BY <1>2, <1>3, <2>1, <3>1, <3>2 DEF OrderInv, CellsSerial, Running
  <2>6. \A w \in DOMAIN workers : Updates(w)' = Updates(w) /\ \A x : Update(w, x)' = Update(w, x)
    BY <1>2, <2>3, SameNest
  <2>7. Progress'
    <3>1. SUFFICES ASSUME NEW w \in DOMAIN workers', NEW x \in 0 .. Updates(w)' - 1
                   PROVE  x < workers'[w].next <=> Update(w, x).kk' < Len(CellOf(w, x)')
      BY DEF Progress
    <3>2. CASE w \in DOMAIN workers
      BY <1>2, <2>3, <2>6, <3>1, <3>2 DEF OrderInv, Progress, CellOf
    <3>3. CASE w = W
      <4>1. InRange' BY <1>1, NextInRange
      <4>2. /\ Update(w, x).row' \in 0 .. m - 1 /\ Update(w, x).col' \in 0 .. n - 1
            /\ Update(w, x).kk' \in 0 .. k - 1
            /\ Place(Update(w, x).row', Update(w, x).col') \in cur .. hi - 1
        BY <1>2, <1>3, <2>2, <2>3, <3>1, <3>3, <4>1 DEF InRange
      <4>3. Place(Update(w, x).row', Update(w, x).col') >= cur BY <1>5, <4>2
      <4>4. CellOf(w, x)' = <<>>
        BY <1>2, <4>2, <4>3 DEF OrderInv, CellsSerial, Running, CellOf
      <4>5. ~(x < 0) BY <3>1
      <4>6. ~(Update(w, x).kk' < 0) BY <4>2
      <4>7. workers'[w].next = 0 /\ Len(CellOf(w, x)') = 0 BY <2>2, <2>3, <3>3, <4>4
      <4> QED BY <4>5, <4>6, <4>7
    <3> QED BY <2>3, <3>1, <3>2, <3>3
  <2>8. Registers'
    BY <1>2, <2>2, <2>3, <2>6 DEF OrderInv, Registers, CellOf
  <2> QED BY <1>1, <1>4, <2>4, <2>5, <2>7, <2>8 DEF OrderInv
<1> QED BY <1>7, <1>8

(* A load only changes the worker's register.                              *)
LEMMA LoadOrder == ASSUME OrderInv, NEW w \in DOMAIN workers, Load(w) PROVE OrderInv'
<1> DEFINE new == [workers[w] EXCEPT !.loaded = TRUE, !.reg = CellOf(w, workers[w].next)]
<1>1. Inv /\ Inv' BY LoadInv DEF OrderInv
<1>2. /\ shape' = shape /\ byCols' = byCols /\ out' = out /\ phase' = phase /\ cur' = cur
      /\ m' = m /\ n' = n /\ k' = k /\ workers' = [workers EXCEPT ![w] = new]
      /\ workers[w].next < Updates(w)
  BY DEF Load, loopVars, CellOf, m, n, k
<1>3. workers \in Seq(WorkerSet) /\ workers[w] \in WorkerSet
  BY <1>1, WorkerType DEF Inv, TypeOK, WorkerSet
<1>4. /\ new.lo = workers[w].lo /\ new.hi = workers[w].hi /\ new.next = workers[w].next
      /\ new.reg = CellOf(w, workers[w].next)
  BY <1>3 DEF WorkerSet
<1> HIDE DEF new
<1>5. /\ DOMAIN workers' = DOMAIN workers
      /\ \A v \in DOMAIN workers : workers'[v] = IF v = w THEN new ELSE workers[v]
  BY <1>2, <1>3
<1>6. Total' = Total /\ \A i, j : Place(i, j)' = Place(i, j)
  BY <1>2 DEF Total, BlocksPerRow, m, n, Block, Place
<1>7. phase # "done"
  <2>1. workers[w].next \in Nat /\ Updates(w) \in Nat BY <1>1, WorkerType, RangeFacts
  <2>2. workers[w].next # Updates(w) BY <1>2, <2>1
  <2> QED BY <2>2 DEF OrderInv, Covered, Finished
<1>8. Running BY <1>1, WorkerType DEF OrderInv, Blank
<1>9. \A v \in DOMAIN workers : Updates(v)' = Updates(v) /\ \A x : Update(v, x)' = Update(v, x)
  BY <1>2, <1>4, <1>5, SameNest
<1>10. Blank'
  <2>1. Refused' = Refused BY <1>2 DEF Refused, Quantized, n, Block
  <2> QED BY <1>2, <1>8, <2>1 DEF OrderInv, Blank, Running
<1>11. \A v \in DOMAIN workers : /\ workers'[v].lo = workers[v].lo /\ workers'[v].hi = workers[v].hi
                                /\ workers'[v].next = workers[v].next
  BY <1>4, <1>5
<1>12. Covered' BY <1>2, <1>5, <1>6, <1>7, <1>8, <1>11 DEF OrderInv, Covered, Running
<1>13. CellsSerial' BY <1>2, <1>6 DEF OrderInv, CellsSerial, Running
<1>14. Progress' BY <1>2, <1>5, <1>9, <1>11 DEF OrderInv, Progress, CellOf
<1>15. Registers'
  <2>1. \A v \in DOMAIN workers : CellOf(v, workers[v].next)' = CellOf(v, workers[v].next)
    BY <1>2, <1>9, <1>11 DEF CellOf
  <2> QED BY <1>4, <1>5, <2>1 DEF OrderInv, Registers
<1> QED BY <1>1, <1>10, <1>12, <1>13, <1>14, <1>15 DEF OrderInv

(* Two workers do no update of one cell.                                   *)
LEMMA CellsApart ==
  ASSUME Inv, NEW w \in DOMAIN workers, NEW v \in DOMAIN workers, w # v,
         NEW x \in 0 .. Updates(w) - 1, NEW y \in 0 .. Updates(v) - 1
  PROVE  ~(Update(w, x).row = Update(v, y).row /\ Update(w, x).col = Update(v, y).col)
<1>1. InRange BY InvInRange
<1>2. /\ Place(Update(w, x).row, Update(w, x).col) \in workers[w].lo .. workers[w].hi - 1
      /\ Place(Update(v, y).row, Update(v, y).col) \in workers[v].lo .. workers[v].hi - 1
  BY <1>1 DEF InRange
<1>3. /\ workers[w].lo \in Nat /\ workers[w].hi \in Nat
      /\ workers[v].lo \in Nat /\ workers[v].hi \in Nat /\ w \in Nat /\ v \in Nat
  BY WorkerType
<1>4. workers[w].hi <= workers[v].lo \/ workers[v].hi <= workers[w].lo
  <2>1. w < v \/ v < w BY <1>3
  <2> QED BY <2>1 DEF Inv, RangesApart
<1> QED BY <1>2, <1>3, <1>4

(* The update a worker is at is the next of its cell.                      *)
LEMMA NextOfCell ==
  ASSUME OrderInv, NEW w \in DOMAIN workers, workers[w].next < Updates(w)
  PROVE  LET x == workers[w].next IN
         /\ x \in 0 .. Updates(w) - 1
         /\ Running
         /\ Update(w, x).row \in 0 .. m - 1 /\ Update(w, x).col \in 0 .. n - 1
         /\ Len(CellOf(w, x)) = Update(w, x).kk
<1> DEFINE x == workers[w].next
           i == Update(w, x).row
           j == Update(w, x).col
           q == Update(w, x).kk
           l == Len(CellOf(w, x))
<1>1. Inv /\ InRange BY InvInRange DEF OrderInv
<1>2. /\ Updates(w) \in Nat /\ k \in Nat /\ workers[w].lo \in Nat /\ workers[w].hi \in Nat
      /\ x \in Nat
  BY <1>1, RangeFacts, WorkerType
<1>3. x \in 0 .. Updates(w) - 1 /\ x < Updates(w) BY <1>2
<1>4. /\ i \in 0 .. m - 1 /\ j \in 0 .. n - 1 /\ q \in 0 .. k - 1
      /\ Place(i, j) \in workers[w].lo .. workers[w].hi - 1
  BY <1>1, <1>3 DEF InRange
<1>5. Running BY <1>1, WorkerType DEF OrderInv, Blank
<1>6. l \in Nat
  <2>1. CellOf(w, x) \in Seq(-1 .. k - 1) BY <1>1, <1>4 DEF CellOf, Inv, TypeOK
  <2> QED BY <2>1
<1>7. ~(q < l)
  <2>1. ~(x < x) BY <1>2
  <2> QED BY <1>3, <2>1 DEF OrderInv, Progress
<1>8. ~(l < q)
  <2>1. SUFFICES ASSUME l < q PROVE FALSE OBVIOUS
  <2>2. l \in 0 .. k - 1 BY <1>2, <1>4, <1>6, <2>1
  <2>3. workers[w].lo <= Place(i, j) /\ Place(i, j) < workers[w].hi BY <1>2, <1>4
  <2> HIDE DEF x, i, j, l
  <2>4. PICK y \in 0 .. Updates(w) - 1 : Update(w, y) = [row |-> i, kk |-> l, col |-> j]
    BY <1>1, <1>4, <2>2, <2>3, CellReached
  <2>5. Update(w, y).row = i /\ Update(w, y).col = j /\ Update(w, y).kk = l BY <2>4
  <2>6. SameCell(w, y, x) BY <2>5 DEF SameCell, i, j
  <2>7. y < x <=> Update(w, y).kk < Update(w, x).kk BY <1>1, <1>3, <2>6, CellInOrder
  <2>8. y < x BY <2>1, <2>5, <2>7
  <2>9. CellOf(w, y) = CellOf(w, x) BY <2>5 DEF CellOf, i, j
  <2>10. y < workers[w].next <=> Update(w, y).kk < Len(CellOf(w, y)) BY DEF OrderInv, Progress
  <2>11. l < l BY <2>5, <2>8, <2>9, <2>10 DEF x, l
  <2> QED BY <1>6, <2>11
<1>9. l = q
  <2> HIDE DEF l, q
  <2>1. q \in Nat BY <1>4
  <2> QED BY <1>6, <1>7, <1>8, <2>1
<1> QED BY <1>3, <1>4, <1>5, <1>9

(* A store adds the next index to a cell nobody else has.                  *)
LEMMA StoreOrder == ASSUME OrderInv, NEW w \in DOMAIN workers, Store(w) PROVE OrderInv'
<1> DEFINE x == workers[w].next
           i == Update(w, x).row
           j == Update(w, x).col
           q == Update(w, x).kk
           cell == CellOf(w, x)
           new == [workers[w] EXCEPT !.loaded = FALSE, !.next = @ + 1, !.reg = <<>>]
<1>1. Inv /\ Inv' /\ InRange BY StoreInv, InvInRange DEF OrderInv
<1>2. /\ shape' = shape /\ byCols' = byCols /\ phase' = phase /\ cur' = cur
      /\ m' = m /\ n' = n /\ k' = k /\ workers' = [workers EXCEPT ![w] = new]
      /\ workers[w].loaded /\ out' = [out EXCEPT ![i][j] = Append(workers[w].reg, q)]
  BY DEF Store, loopVars, m, n, k
<1>3. workers[w].next < Updates(w) BY <1>1, <1>2 DEF Inv, LoadsInLoop
<1>4. /\ x \in 0 .. Updates(w) - 1 /\ Running /\ i \in 0 .. m - 1 /\ j \in 0 .. n - 1
      /\ Len(cell) = q
  BY <1>3, NextOfCell
<1>5. /\ q \in 0 .. k - 1 /\ Place(i, j) \in workers[w].lo .. workers[w].hi - 1
  BY <1>1, <1>4 DEF InRange
<1>6. workers[w].reg = cell BY <1>2 DEF OrderInv, Registers
<1>7. cell = Serial(q)
  <2>1. out[i][j] = Serial(Len(out[i][j])) BY <1>4 DEF OrderInv, CellsSerial
  <2> QED BY <1>4, <2>1 DEF CellOf
<1>8. k \in Nat /\ q \in Nat /\ q + 1 <= k
  <2>1. k \in Nat BY <1>1, InvSizes DEF Sizes
  <2> QED BY <1>5, <2>1
<1>9. workers \in Seq(WorkerSet) /\ workers[w] \in WorkerSet
  BY <1>1, WorkerType DEF Inv, TypeOK, WorkerSet
<1>10. /\ new.lo = workers[w].lo /\ new.hi = workers[w].hi /\ new.next = x + 1 /\ ~new.loaded
  BY <1>9 DEF WorkerSet
<1> HIDE DEF new
<1>11. /\ DOMAIN workers' = DOMAIN workers
       /\ \A v \in DOMAIN workers : workers'[v] = IF v = w THEN new ELSE workers[v]
  BY <1>2, <1>9
<1>12. \A v \in DOMAIN workers : workers'[v].lo = workers[v].lo /\ workers'[v].hi = workers[v].hi
  BY <1>10, <1>11
<1>13. Total' = Total /\ \A a, b : Place(a, b)' = Place(a, b)
  BY <1>2 DEF Total, BlocksPerRow, m, n, Block, Place
<1>14. \A v \in DOMAIN workers : Updates(v)' = Updates(v) /\ \A y : Update(v, y)' = Update(v, y)
  BY <1>2, <1>12, SameNest
<1>15. Blank'
  <2>1. Refused' = Refused BY <1>2 DEF Refused, Quantized, n, Block
  <2> QED BY <1>2, <1>4, <2>1 DEF OrderInv, Blank, Running
<1>16. phase # "done" BY <1>2 DEF OrderInv, Covered, Finished
<1>17. Covered' BY <1>2, <1>4, <1>11, <1>12, <1>13, <1>16 DEF OrderInv, Covered, Running
<1>18. Append(workers[w].reg, q) = Serial(q + 1)
  <2>1. Serial(q) \in Seq(Nat) /\ Len(Serial(q)) = q BY <1>8 DEF Serial
  <2>2. Append(Serial(q), q) = Serial(q + 1) BY <1>8 DEF Serial
  <2> QED BY <1>6, <1>7, <2>2
<1> HIDE DEF x, i, j, q, cell
<1>19. \A a \in 0 .. m - 1, b \in 0 .. n - 1 :
         out'[a][b] = IF a = i /\ b = j THEN Serial(q + 1) ELSE out[a][b]
  <2>1. out \in [0 .. m - 1 -> [0 .. n - 1 -> Seq(-1 .. k - 1)]] BY <1>1 DEF Inv, TypeOK
  <2> QED BY <1>2, <1>4, <1>18, <2>1
<1>20. Len(Serial(q + 1)) = q + 1 BY <1>8 DEF Serial
<1>21. CellsSerial'
  <2>1. SUFFICES ASSUME NEW a \in 0 .. m - 1, NEW b \in 0 .. n - 1
                 PROVE  /\ out'[a][b] = Serial(Len(out'[a][b])) /\ Len(out'[a][b]) <= k
                        /\ Place(a, b) >= cur => out'[a][b] = <<>>
    BY <1>2, <1>13 DEF CellsSerial, Serial
  <2>2. CASE a = i /\ b = j
    <3>1. out'[a][b] = Serial(q + 1) BY <1>19, <2>2
    <3>2. ~(Place(a, b) >= cur)
      <4>1. workers[w].hi <= cur BY <1>1 DEF Inv, RangesApart
      <4>2. workers[w].hi \in Nat /\ workers[w].lo \in Nat /\ cur \in Nat
        BY <1>1, WorkerType DEF Inv, TypeOK
      <4> QED BY <1>5, <2>2, <4>1, <4>2
    <3> QED BY <1>8, <1>20, <3>1, <3>2
  <2>3. CASE ~(a = i /\ b = j)
    <3>1. out'[a][b] = out[a][b] BY <1>19, <2>1, <2>3
    <3>2. /\ out[a][b] = Serial(Len(out[a][b])) /\ Len(out[a][b]) <= k
          /\ Place(a, b) >= cur => out[a][b] = <<>>
      BY <1>4, <2>1 DEF OrderInv, CellsSerial
    <3> QED BY <3>1, <3>2
  <2> QED BY <2>2, <2>3
<1>22. ASSUME NEW v \in DOMAIN workers, v # w, NEW y \in 0 .. Updates(v) - 1
       PROVE  CellOf(v, y)' = CellOf(v, y)
  <2>1. ~(Update(v, y).row = i /\ Update(v, y).col = j)
    BY <1>1, <1>4, <1>22, CellsApart DEF i, j
  <2>2. Update(v, y).row \in 0 .. m - 1 /\ Update(v, y).col \in 0 .. n - 1
    BY <1>1, <1>22 DEF InRange
  <2> QED BY <1>14, <1>19, <1>22, <2>1, <2>2 DEF CellOf
<1>23. ASSUME NEW y \in 0 .. Updates(w) - 1
       PROVE  y < x + 1 <=> Update(w, y).kk < Len(CellOf(w, y)')
  <2>1. /\ Update(w, y).row \in 0 .. m - 1 /\ Update(w, y).col \in 0 .. n - 1
        /\ Update(w, y).kk \in 0 .. k - 1
    BY <1>1, <1>23 DEF InRange
  <2>2. Updates(w) \in Nat /\ x \in Nat /\ y \in Nat BY <1>1, <1>4, RangeFacts
  <2>3. CASE SameCell(w, x, y)
    <3>1. x < y <=> q < Update(w, y).kk BY <1>1, <1>4, <2>3, CellInOrder DEF q
    <3>2. CellOf(w, y)' = Serial(q + 1)
      BY <1>14, <1>19, <2>1, <2>3 DEF CellOf, SameCell, i, j
    <3>3. Update(w, y).kk \in Nat BY <2>1, <1>8
    <3> QED BY <1>8, <1>20, <2>2, <3>1, <3>2, <3>3
  <2>4. CASE ~SameCell(w, x, y)
    <3>1. CellOf(w, y)' = CellOf(w, y)
      BY <1>14, <1>19, <2>1, <2>4 DEF CellOf, SameCell, i, j
    <3>2. y # x BY <2>4 DEF SameCell
    <3>3. y < x <=> Update(w, y).kk < Len(CellOf(w, y))
      BY <1>23 DEF OrderInv, Progress, x
    <3> QED BY <2>2, <3>1, <3>2, <3>3
  <2> QED BY <2>3, <2>4
<1>24. Progress'
  <2>1. SUFFICES ASSUME NEW v \in DOMAIN workers, NEW y \in 0 .. Updates(v) - 1
                 PROVE  y < workers'[v].next <=> Update(v, y).kk < Len(CellOf(v, y)')
    BY <1>11, <1>14 DEF Progress
  <2>2. CASE v = w BY <1>10, <1>11, <1>23, <2>1, <2>2
  <2>3. CASE v # w
    <3>1. workers'[v].next = workers[v].next BY <1>11, <2>1, <2>3
    <3>2. CellOf(v, y)' = CellOf(v, y) BY <1>22, <2>1, <2>3
    <3> QED BY <2>1, <3>1, <3>2 DEF OrderInv, Progress
  <2> QED BY <2>2, <2>3
<1>25. Registers'
  <2>1. SUFFICES ASSUME NEW v \in DOMAIN workers, workers'[v].loaded
                 PROVE  /\ workers'[v].reg = CellOf(v, workers[v].next)'
                        /\ workers'[v].next = workers[v].next
    BY <1>11 DEF Registers, CellOf
  <2>2. v # w /\ workers'[v] = workers[v] BY <1>10, <1>11, <2>1
  <2>3. workers[v].next \in 0 .. Updates(v) - 1
    <3>1. workers[v].next < Updates(v) BY <1>1, <2>1, <2>2 DEF Inv, LoadsInLoop
    <3>2. workers[v].next \in Nat /\ Updates(v) \in Nat BY <1>1, <2>1, WorkerType, RangeFacts
    <3> QED BY <3>1, <3>2
  <2>4. CellOf(v, workers[v].next)' = CellOf(v, workers[v].next)
    <3> DEFINE y == workers[v].next
    <3>1. y' = y BY <2>2
    <3> QED BY <1>22, <2>2, <2>3, <3>1 DEF CellOf
  <2> QED BY <2>1, <2>2, <2>4 DEF OrderInv, Registers
<1> QED BY <1>1, <1>15, <1>17, <1>21, <1>24, <1>25 DEF OrderInv

-----------------------------------------------------------------------------
(* The theorems                                                            *)

(* The ranges of the workers never overlap: one step per action, those of  *)
(* a worker by WorkerStepInv.                                              *)
THEOREM Invariance == Spec => []Inv
<1>1. ASSUME Inv, [Next]_vars PROVE Inv'
  <2>1. CASE Refuse BY <1>1, <2>1, RefuseInv
  <2>2. CASE Spawn BY <1>1, <2>2, SpawnInv
  <2>3. CASE AllSpawned BY <1>1, <2>3, AllSpawnedInv
  <2>4. CASE Join BY <1>1, <2>4, JoinInv
  <2>5. ASSUME NEW w \in Wanted, NEW h \in Wanted, RunSerial(w, h) PROVE Inv'
    BY <1>1, <2>5, RunSerialInv
  <2>6. ASSUME NEW w \in Wanted, NEW h \in Wanted, StartThreads(w, h) PROVE Inv'
    BY <1>1, <2>6, StartThreadsInv
  <2>7. ASSUME NEW w \in DOMAIN workers, Load(w) PROVE Inv' BY <1>1, <2>7, LoadInv
  <2>8. ASSUME NEW w \in DOMAIN workers, Store(w) PROVE Inv' BY <1>1, <2>8, StoreInv
  <2>10. CASE RunTiled \/ AddTile \/ TilesDone
    BY <1>1, <2>10, RunTiledInv, AddTileInv, TilesDoneInv
  <2>9. CASE UNCHANGED vars
    <3>1. /\ shape' = shape /\ phase' = phase /\ limit' = limit /\ byCols' = byCols /\ t' = t
          /\ cur' = cur /\ workers' = workers /\ out' = out
      BY <2>9 DEF vars, loopVars
    <3> QED BY <1>1, <3>1 DEF Inv, TypeOK, RangesApart, LoadsInLoop, Updates, Width, HandedOut,
               Least, Total, BlocksPerRow, Refused, Quantized, m, k, n, Block
  <2> QED BY <1>1, <2>1, <2>2, <2>3, <2>4, <2>5, <2>6, <2>7, <2>8, <2>9, <2>10 DEF Next
<1> QED BY <1>1, InitInv, PTL DEF Spec

(* Types, and that what is added to a cell is an index below k: for every  *)
(* set of shapes and of thread counts (the loop nests of cpu_matmul).      *)
THEOREM TypeCorrect == Spec => []TypeOK
<1>1. Inv => TypeOK BY DEF Inv
<1> QED BY <1>1, Invariance, PTL

(* No cell is written by two threads (the unlocked += of cpu_matmul), for  *)
(* every shape, block size, number of threads and interleaving.            *)
THEOREM NoSharedCell == Spec => []SoleWriter
<1>1. ASSUME Inv PROVE SoleWriter
  <2>1. SUFFICES ASSUME NEW w \in DOMAIN workers, NEW v \in DOMAIN workers, w # v,
                        NEW c \in CellsOf(w), c \in CellsOf(v)
                 PROVE  FALSE
    BY DEF SoleWriter
  <2>2. PICK x \in 0 .. Updates(w) - 1 : c = <<Update(w, x).row, Update(w, x).col>>
    BY DEF CellsOf
  <2>3. PICK y \in 0 .. Updates(v) - 1 : c = <<Update(v, y).row, Update(v, y).col>>
    BY <2>1 DEF CellsOf
  <2> QED BY <1>1, <2>1, <2>2, <2>3, CellsApart
<1> QED BY <1>1, Invariance, PTL

(* How far each cell is summed says how far its worker is, one step per    *)
(* action.                                                                 *)
THEOREM OrderInvariance == Spec => []OrderInv
<1>1. ASSUME OrderInv, [Next]_vars PROVE OrderInv'
  <2>1. CASE Refuse BY <1>1, <2>1, RefuseOrder
  <2>2. CASE Spawn BY <1>1, <2>2, SpawnOrder
  <2>3. CASE AllSpawned BY <1>1, <2>3, AllSpawnedOrder
  <2>4. CASE Join BY <1>1, <2>4, JoinOrder
  <2>5. ASSUME NEW w \in Wanted, NEW h \in Wanted, RunSerial(w, h) PROVE OrderInv'
    BY <1>1, <2>5, RunSerialOrder
  <2>6. ASSUME NEW w \in Wanted, NEW h \in Wanted, StartThreads(w, h) PROVE OrderInv'
    BY <1>1, <2>6, StartThreadsOrder
  <2>7. ASSUME NEW w \in DOMAIN workers, Load(w) PROVE OrderInv' BY <1>1, <2>7, LoadOrder
  <2>8. ASSUME NEW w \in DOMAIN workers, Store(w) PROVE OrderInv' BY <1>1, <2>8, StoreOrder
  <2>10. CASE RunTiled \/ AddTile \/ TilesDone BY <1>1, <2>10, TiledOrder
  <2>9. CASE UNCHANGED vars
    <3>1. /\ shape' = shape /\ phase' = phase /\ limit' = limit /\ byCols' = byCols /\ t' = t
          /\ cur' = cur /\ workers' = workers /\ out' = out
      BY <2>9 DEF vars, loopVars
    <3>2. m' = m /\ n' = n /\ k' = k /\ Block' = Block BY <3>1 DEF m, n, k, Block
    <3>3. Inv'
      BY <1>1, <3>1, <3>2 DEF OrderInv, Inv, TypeOK, RangesApart, LoadsInLoop, Updates, Width,
         HandedOut, Least, Total, BlocksPerRow, Refused, Quantized
    <3>4. \A w \in DOMAIN workers : Updates(w)' = Updates(w) /\ \A x : Update(w, x)' = Update(w, x)
      BY <3>1, SameNest
    <3>5. Blank' /\ CellsSerial'
      BY <1>1, <3>1, <3>2 DEF OrderInv, Blank, CellsSerial, Running, Fill, Garbage, Place, Serial,
         Refused, Quantized
    <3>6. Covered'
      BY <1>1, <3>1, <3>2, <3>4 DEF OrderInv, Covered, Running, Finished, Total, BlocksPerRow
    <3>7. Progress' /\ Registers'
      BY <1>1, <3>1, <3>4 DEF OrderInv, Progress, Registers, CellOf
    <3> QED BY <3>3, <3>5, <3>6, <3>7 DEF OrderInv
  <2> QED BY <1>1, <2>1, <2>2, <2>3, <2>4, <2>5, <2>6, <2>7, <2>8, <2>9, <2>10 DEF Next
<1> QED BY <1>1, InitOrder, PTL DEF Spec

(* After t tiles a cell is the serial sum of their terms, the last tile    *)
(* ending at k.                                                            *)
TilesSerial ==
  /\ phase = "tiles" => out = Fill(Serial(Least(k, t * TileK)))
  /\ phase = "tiled" => out = Fill(Serial(k))

(* A tile goes on where the one before it ended.                           *)
LEMMA TileAppended ==
  ASSUME NEW a \in Nat, NEW b \in Nat, a <= b
  PROVE  Serial(a) \o [x \in 1 .. b - a |-> a + x - 1] = Serial(b)
<1> DEFINE s == Serial(a)
           r == [x \in 1 .. b - a |-> a + x - 1]
<1>1. s \in Seq(Int) /\ Len(s) = a /\ \A p \in 1 .. a : s[p] = p - 1 BY DEF Serial
<1>2. b - a \in Nat /\ r \in Seq(Int) /\ Len(r) = b - a /\ \A p \in 1 .. b - a : r[p] = a + p - 1
  OBVIOUS
<1> HIDE DEF s, r
<1> DEFINE u == s \o r
<1>3. /\ u \in Seq(Int) /\ Len(u) = b
      /\ \A p \in 1 .. b : u[p] = IF p <= a THEN s[p] ELSE r[p - a]
  BY <1>1, <1>2
<1> HIDE DEF u
<1>4. ASSUME NEW p \in 1 .. b PROVE u[p] = p - 1
  <2>1. CASE p <= a
    <3>1. p \in 1 .. a BY <2>1
    <3> QED BY <1>1, <1>3, <2>1, <3>1
  <2>2. CASE ~(p <= a)
    <3>1. p - a \in 1 .. b - a BY <2>2
    <3>2. r[p - a] = a + (p - a) - 1 BY <1>2, <3>1
    <3>3. u[p] = r[p - a] BY <1>3, <2>2
    <3>4. a + (p - a) - 1 = p - 1 OBVIOUS
    <3> QED BY <3>2, <3>3, <3>4
  <2> QED BY <2>1, <2>2
<1>5. u = [p \in 1 .. b |-> p - 1]
  <2>1. u = [p \in 1 .. b |-> u[p]] BY <1>3
  <2> QED BY <1>4, <2>1
<1> QED BY <1>5 DEF u, s, r, Serial

(* Nobody but the caller writes during a tiled product, so its tiles are   *)
(* the steps to look at.                                                   *)
THEOREM TilesInvariance == Spec => []TilesSerial
<1>1. Init => TilesSerial BY DEF Init, TilesSerial
<1>2. ASSUME OrderInv, TilesSerial, [Next]_vars PROVE TilesSerial'
  <2>1. /\ k \in Nat /\ m \in Nat /\ n \in Nat /\ t \in Nat /\ TileK \in Nat \ {0}
    BY <1>2, Shapes, MatmulAssumption DEF OrderInv, Inv, TypeOK
  <2>2. CASE RunTiled
    <3>1. t' = 0 /\ phase' = "tiles" /\ out' = Fill(<<>>)' /\ k' = k
      BY <1>2, <2>2 DEF RunTiled, loopVars, OrderInv, Inv, RangesApart, Fill, m, n, k
    <3>2. Least(k, 0 * TileK) = 0 BY <2>1 DEF Least
    <3>3. Serial(0) = <<>> BY DEF Serial
    <3>4. Least(k, t * TileK)' = 0 BY <3>1, <3>2
    <3> QED BY <3>1, <3>3, <3>4 DEF TilesSerial, Fill, Serial
  <2>3. CASE AddTile
    <3> DEFINE a == t * TileK
               b == Least(k, a + TileK)
    <3>1. /\ phase = "tiles" /\ a < k /\ t' = t + 1 /\ phase' = phase /\ shape' = shape
          /\ out' = [i \in 0 .. m - 1 |-> [j \in 0 .. n - 1 |->
                       out[i][j] \o [x \in 1 .. b - a |-> a + x - 1]]]
      BY <2>3 DEF AddTile
    <3>2. a \in Nat /\ (t + 1) * TileK = a + TileK BY <2>1
    <3> HIDE DEF a
    <3>3. b \in Nat /\ a <= b /\ Least(k, a) = a BY <2>1, <3>1, <3>2 DEF Least
    <3>4. \A i \in 0 .. m - 1, j \in 0 .. n - 1 : out[i][j] = Serial(a)
      <4>1. out = Fill(Serial(a)) BY <1>2, <3>1, <3>3 DEF TilesSerial, a
      <4> QED BY <4>1 DEF Fill
    <3>5. Serial(a) \o [x \in 1 .. b - a |-> a + x - 1] = Serial(b) BY <3>2, <3>3, TileAppended
    <3>6. out' = Fill(Serial(b)) BY <3>1, <3>4, <3>5 DEF Fill
    <3>7. Least(k, t * TileK)' = b BY <3>1, <3>2 DEF k
    <3>8. Fill(Serial(b)) = [i \in 0 .. m' - 1 |-> [j \in 0 .. n' - 1 |-> Serial(b)]]
      BY <3>1 DEF Fill, m, n
    <3>9. Serial(Least(k, t * TileK))' = Serial(b) BY <3>7 DEF Serial
    <3> QED BY <3>1, <3>6, <3>8, <3>9 DEF TilesSerial, Fill
  <2>4. CASE TilesDone
    <3>1. /\ phase = "tiles" /\ phase' = "tiled" /\ out' = out /\ k' = k /\ m' = m /\ n' = n
          /\ t * TileK >= k
      BY <2>4 DEF TilesDone, loopVars, k, m, n
    <3>2. t * TileK \in Nat BY <2>1
    <3>3. Least(k, t * TileK) = k BY <2>1, <3>1, <3>2 DEF Least
    <3> QED BY <1>2, <3>1, <3>3 DEF TilesSerial, Fill, Serial
  <2>5. CASE UNCHANGED vars
    BY <1>2, <2>5 DEF vars, loopVars, TilesSerial, Fill, Serial, Least, m, n, k
  <2>6. CASE Refuse \/ Spawn \/ AllSpawned \/ Join
    BY <2>6 DEF Refuse, Spawn, AllSpawned, Join, TilesSerial
  <2>7. ASSUME NEW w \in Wanted, NEW h \in Wanted, RunSerial(w, h) \/ StartThreads(w, h)
        PROVE  TilesSerial'
    BY <2>7 DEF RunSerial, StartThreads, TilesSerial
  <2>8. ASSUME NEW w \in DOMAIN workers, Load(w) \/ Store(w) PROVE TilesSerial'
    <3>1. workers # <<>> BY <1>2, <2>8, WorkerType DEF OrderInv
    <3>2. phase \notin {"tiles", "tiled"} BY <1>2, <3>1 DEF OrderInv, Blank, Running
    <3>3. phase' = phase BY <2>8 DEF Load, Store
    <3> QED BY <3>2, <3>3 DEF TilesSerial
  <2> QED BY <1>2, <2>2, <2>3, <2>4, <2>5, <2>6, <2>7, <2>8 DEF Next
<1> QED BY <1>1, <1>2, OrderInvariance, PTL DEF Spec

(* When cpu_matmul returns, every cell holds its k products, each added    *)
(* once and in the order of the serial loop, whatever the build, the split *)
(* and the interleaving; a refused product leaves the output alone.        *)
THEOREM SameAsSerial == Spec => []InSerialOrder
<1>1. ASSUME OrderInv, TilesSerial PROVE InSerialOrder
  <2>1. ASSUME phase = "done" PROVE out = Fill(Serial(k))
    <3>1. Inv /\ Running /\ cur = Total BY <1>1, <2>1 DEF OrderInv, Running, Covered
    <3>2. out \in [0 .. m - 1 -> [0 .. n - 1 -> Seq(-1 .. k - 1)]] BY <3>1 DEF Inv, TypeOK
    <3>3. ASSUME NEW i \in 0 .. m - 1, NEW j \in 0 .. n - 1 PROVE out[i][j] = Serial(k)
      <4> DEFINE l == Len(out[i][j])
                 p == Place(i, j)
      <4>1. out[i][j] = Serial(l) /\ l <= k BY <1>1, <3>1 DEF OrderInv, CellsSerial
      <4>2. l \in Nat /\ k \in Nat /\ m \in Nat /\ n \in Nat /\ Block \in Nat \ {0}
        BY <3>1, <3>2, <3>3, InvSizes DEF Sizes
      <4>3. CASE ~(p \in 0 .. cur - 1)
        <5>1. p \in Nat
          <6>1. i \in Nat /\ j \in Nat BY <4>2
          <6>2. j \div Block \in Nat BY <4>2, <6>1, Division
          <6> QED BY <6>1, <6>2 DEF Place
        <5>2. p < Total
          <6>1. byCols \in BOOLEAN /\ shape \in Shape BY <3>1 DEF Inv, TypeOK
          <6>2. CASE byCols
            <7>1. n = BlocksPerRow * Block /\ BlocksPerRow \in Nat
              BY <1>1, <3>1, <6>1, Splits DEF OrderInv, Blank
            <7>2. j \in Nat /\ j < BlocksPerRow * Block BY <4>2, <7>1
            <7>3. j \div Block < BlocksPerRow BY <4>2, <7>1, <7>2, QuotientBelow
            <7> QED BY <6>2, <7>3 DEF Place, Total
          <6>3. CASE ~byCols BY <6>3, <4>2 DEF Place, Total
          <6> QED BY <6>1, <6>2, <6>3
        <5>3. cur \in Nat BY <3>1 DEF Inv, TypeOK
        <5> HIDE DEF p
        <5> QED BY <3>1, <4>3, <5>1, <5>2, <5>3
      <4>4. CASE p \in 0 .. cur - 1
        <5>1. PICK w \in DOMAIN workers : workers[w].lo <= p /\ p < workers[w].hi
          BY <1>1, <3>1, <4>4 DEF OrderInv, Covered
        <5>2. workers[w].next = Updates(w) /\ Updates(w) \in Nat
          BY <1>1, <2>1, <3>1, <5>1, RangeFacts DEF OrderInv, Covered, Finished
        <5>3. ASSUME NEW q \in 0 .. k - 1 PROVE q < l
          <6>1. PICK x \in 0 .. Updates(w) - 1 : Update(w, x) = [row |-> i, kk |-> q, col |-> j]
            BY <3>1, <5>1, CellReached
          <6>2. x < workers[w].next BY <5>2
          <6>3. Update(w, x).kk < Len(CellOf(w, x)) BY <1>1, <6>2 DEF OrderInv, Progress
          <6>4. Update(w, x).kk = q /\ CellOf(w, x) = out[i][j] BY <6>1 DEF CellOf
          <6> QED BY <6>3, <6>4
        <5> HIDE DEF l
        <5>4. l = k
          <6>1. SUFFICES ASSUME l < k PROVE FALSE BY <4>1, <4>2
          <6>2. l \in 0 .. k - 1 BY <4>2, <6>1
          <6> QED BY <4>2, <5>3, <6>2
        <5> QED BY <4>1, <5>4
      <4> QED BY <4>3, <4>4
    <3> QED BY <3>2, <3>3 DEF Fill
  <2>2. ASSUME phase = "refused" PROVE out = Fill(Garbage)
    BY <1>1, <2>2 DEF OrderInv, Blank
  <2> QED BY <1>1, <2>1, <2>2 DEF InSerialOrder, TilesSerial, Serial
<1> QED BY <1>1, OrderInvariance, TilesInvariance, PTL
=============================================================================
