------------------------- MODULE WeightProofs -------------------------
(***************************************************************************)
(* Weights in memory.                                                      *)
(*                                                                         *)
(* First their layout (WeightLayout): what holds for every set of          *)
(* contexts, model files and orders, every size of the inputs and every    *)
(* number of failing allocations.  The product with a rectangular weight   *)
(* is right, that with a square one is right while the process's flags are *)
(* its own context's, and opening loses no tensor but the known ones.  A   *)
(* tensor in memory is its file's elements row after row, or its           *)
(* transpose; the inductive invariant says which, from what its context    *)
(* wanted and how far its opening has come.                                *)
(*                                                                         *)
(* Then their quantized rows (QuantBlocks): what holds for every row of    *)
(* every format, all values up to two that a row is packed from and every  *)
(* width of a thread block that divides a weight block.  Every path        *)
(* decodes a row element by element, from exact factors, so the paths      *)
(* agree; a stored factor is rounded to the nearest half; a packed block   *)
(* reads back but for that rounding.                                       *)
(***************************************************************************)
EXTENDS WeightLayout, QuantBlocks, FiniteSetTheorems, SequenceTheorems, WellFoundedInduction,
        TLAPS

-----------------------------------------------------------------------------
(* Rows and columns                                                        *)

(* A number has a quotient and a remainder.                                *)
LEMMA Division ==
  ASSUME NEW a \in Nat, NEW b \in Nat \ {0}
  PROVE  /\ a \div b \in Nat /\ (a % b) \in 0 .. b - 1
         /\ a = b * (a \div b) + (a % b)
OBVIOUS

(* The place of an element gives its row and its column.                   *)
LEMMA RowAndColumn ==
  ASSUME NEW i \in Nat, NEW b \in Nat \ {0}, NEW j \in 0 .. b - 1
  PROVE  /\ i * b + j \in Nat
         /\ (i * b + j) \div b = i
         /\ ((i * b + j) % b) = j
<1> DEFINE x == i * b + j
           q == x \div b
           r == x % b
<1>1. x \in Nat BY SMT
<1>2. q \in Nat /\ r \in 0 .. b - 1 /\ x = b * q + r BY <1>1, Division
<1>3. b * (q - i) < b /\ b * (q - i) > -b
  <2>1. b * (q - i) = j - r BY <1>2
  <2> QED BY <2>1, <1>2
<1> HIDE DEF q, r
<1>4. q - i = 0
  <2>1. CASE q - i >= 1 BY <1>2, <1>3, <2>1
  <2>2. CASE q - i <= -1 BY <1>2, <1>3, <2>2
  <2> QED BY <2>1, <2>2, <1>2
<1>5. q = i /\ r = j
  <2>1. q = i BY <1>2, <1>4
  <2>2. b * i = i * b OBVIOUS
  <2> QED BY <1>2, <2>1, <2>2
<1> QED BY <1>1, <1>5 DEF q, r

(* A matrix has a place for each row and column.                           *)
LEMMA PlaceInMatrix ==
  ASSUME NEW a \in Nat, NEW b \in Nat \ {0}, NEW i \in 0 .. a - 1, NEW j \in 0 .. b - 1
  PROVE  i * b + j \in 0 .. (a * b) - 1
<1>1. (i + 1) * b <= a * b
  <2>1. (a - (i + 1)) * b >= 0 OBVIOUS
  <2> QED BY <2>1
<1>2. i * b \in Nat OBVIOUS
<1> QED BY <1>1, <1>2

(* ... and a row and a column for each place.                              *)
LEMMA InMatrix ==
  ASSUME NEW a \in Nat, NEW b \in Nat \ {0}, NEW x \in 0 .. (a * b) - 1
  PROVE  x \div b \in 0 .. a - 1 /\ (x % b) \in 0 .. b - 1
<1> DEFINE q == x \div b
<1>0. a * b \in Nat OBVIOUS
<1>1. q \in Nat /\ (x % b) \in 0 .. b - 1 /\ x >= b * q /\ x < a * b
  <2> DEFINE r == x % b
  <2>1. x \in Nat /\ x < a * b BY <1>0
  <2>2. q \in Nat /\ r \in 0 .. b - 1 /\ x = b * q + r BY <2>1, Division
  <2> HIDE DEF q, r
  <2>3. b * q \in Nat BY <2>2
  <2>4. x >= b * q BY <2>2, <2>3
  <2> QED BY <2>1, <2>2, <2>4 DEF r
<1> HIDE DEF q
<1>2. q < a
  <2>1. SUFFICES ASSUME q >= a PROVE FALSE BY <1>1
  <2>2. b * q >= b * a BY <1>1, <2>1
  <2>3. b * a = a * b OBVIOUS
  <2> QED BY <1>0, <1>1, <2>2, <2>3
<1> QED BY <1>1, <1>2 DEF q

-----------------------------------------------------------------------------
(* Matrices                                                                *)

(* The elements of a matrix, row after row: its rows are the outputs, or   *)
(* its columns are.                                                        *)
RowOf(p, cols) == (p - 1) \div cols + 1
ColOf(p, cols) == ((p - 1) % cols) + 1
Layout(rows, cols, byOutput) ==
  [p \in 1 .. rows * cols |->
     IF byOutput THEN <<RowOf(p, cols), ColOf(p, cols)>> ELSE <<ColOf(p, cols), RowOf(p, cols)>>]

(* A matrix with the inputs on one side, its outputs on its rows or not.   *)
Shaped(t) == t \in Matrix /\ Dim \in {t.rows, t.cols}
LaidOut(t, byOutput) == t.data = Layout(t.rows, t.cols, byOutput)

(* A layout is what a matrix in memory may hold.                           *)
LEMMA LayoutType ==
  ASSUME NEW a \in Nat \ {0}, NEW b \in Nat \ {0}, NEW o \in BOOLEAN
  PROVE  Layout(a, b, o) \in Seq(Nat \X Nat)
<1> DEFINE L == Layout(a, b, o)
           len == a * b
<1>1. len \in Nat OBVIOUS
<1>2. \A p \in 1 .. len : RowOf(p, b) \in Nat /\ ColOf(p, b) \in Nat
  <2>1. TAKE p \in 1 .. len
  <2>2. p - 1 \in Nat BY <1>1, <2>1
  <2>3. (p - 1) \div b \in Nat /\ ((p - 1) % b) \in 0 .. b - 1 BY <2>2, Division
  <2> QED BY <2>3 DEF RowOf, ColOf
<1>3. L \in [1 .. len -> Nat \X Nat]
  <2>1. L = [p \in 1 .. len |-> IF o THEN <<RowOf(p, b), ColOf(p, b)>> ELSE <<ColOf(p, b), RowOf(p, b)>>]
    BY DEF Layout
  <2> HIDE DEF L, len
  <2> QED BY <1>2, <2>1
<1> HIDE DEF len, L
<1>4. L \in Seq(Nat \X Nat) BY <1>1, <1>3
<1> QED BY <1>4 DEF L

(* A tensor of the file is laid out by its shape, a square one as said.    *)
LEMMA ReadLaidOut ==
  ASSUME NEW t \in Tensor, NEW o \in BOOLEAN
  PROVE  /\ Shaped(Read(t, o))
         /\ IsSquare(Read(t, o)) <=> IsSquare(t)
         /\ Read(t, o).type = t.type /\ Read(t, o).rows = t.rows /\ Read(t, o).cols = t.cols
         /\ LaidOut(Read(t, o), IF IsSquare(t) THEN o ELSE t.cols = Dim)
<1> DEFINE b == IF IsSquare(t) THEN o ELSE t.cols = Dim
           u == Read(t, o)
<1>1. t.type \in {"F32", "Quant"} /\ t.rows \in Nat \ {0} /\ t.cols \in Nat \ {0}
      /\ Dim \in {t.rows, t.cols}
  BY DEF Tensor
<1>2. u = [type |-> t.type, rows |-> t.rows, cols |-> t.cols, data |-> Layout(t.rows, t.cols, b)]
  BY DEF Read, Layout, RowOf, ColOf
<1>3. b \in BOOLEAN OBVIOUS
<1> HIDE DEF b, u
<1>4. Layout(t.rows, t.cols, b) \in Seq(Nat \X Nat) BY <1>1, <1>3, LayoutType
<1>5. u \in Matrix BY <1>1, <1>2, <1>4 DEF Matrix
<1>6. u.type = t.type /\ u.rows = t.rows /\ u.cols = t.cols /\ u.data = Layout(t.rows, t.cols, b)
  BY <1>2
<1>7. Shaped(u) BY <1>1, <1>5, <1>6 DEF Shaped
<1>8. LaidOut(u, b) BY <1>6 DEF LaidOut
<1>9. IsSquare(u) <=> IsSquare(t) BY <1>6 DEF IsSquare
<1> QED BY <1>6, <1>7, <1>8, <1>9 DEF u, b

(* Transposing exchanges the sides, in memory as well as in the shape.     *)
LEMMA TransposedLaidOut ==
  ASSUME NEW t, Shaped(t), NEW b \in BOOLEAN, LaidOut(t, b)
  PROVE  /\ Shaped(Transposed(t))
         /\ Transposed(t).type = t.type
         /\ Transposed(t).rows = t.cols /\ Transposed(t).cols = t.rows
         /\ LaidOut(Transposed(t), ~b)
<1> DEFINE R == t.rows
           C == t.cols
           u == Transposed(t)
           From(p) == ((p - 1) % R) * C + (p - 1) \div R + 1
<1>1. R \in Nat \ {0} /\ C \in Nat \ {0} /\ Dim \in {R, C} /\ t.type \in {"F32", "Quant"}
  BY DEF Shaped, Matrix
<1>2. t.data = Layout(R, C, b) /\ DOMAIN t.data = 1 .. R * C BY DEF LaidOut, Layout
<1>3. u.type = t.type /\ u.rows = C /\ u.cols = R
      /\ u.data = [p \in 1 .. R * C |-> t.data[From(p)]]
  <2>1. t \in Matrix BY DEF Shaped
  <2> QED BY <1>2, <2>1 DEF Transposed, Matrix
<1>4. R * C = C * R /\ R * C \in Nat BY <1>1
<1>5. ASSUME NEW p \in 1 .. R * C
      PROVE  /\ From(p) \in 1 .. R * C
             /\ RowOf(From(p), C) = ColOf(p, R) /\ ColOf(From(p), C) = RowOf(p, R)
  <2> DEFINE i == (p - 1) % R
             j == (p - 1) \div R
             x == i * C + j
  <2>1. p - 1 \in 0 .. (C * R) - 1 BY <1>4
  <2>2. j \in 0 .. C - 1 /\ i \in 0 .. R - 1 BY <1>1, <2>1, InMatrix
  <2> HIDE DEF i, j
  <2>3. x \in 0 .. (R * C) - 1 /\ x \div C = i /\ (x % C) = j
    <3>1. i \in Nat BY <1>1, <2>2
    <3> QED BY <1>1, <2>2, <3>1, RowAndColumn, PlaceInMatrix
  <2>4. From(p) = x + 1 BY DEF i, j
  <2> HIDE DEF x
  <2>5. From(p) - 1 = x BY <2>3, <2>4
  <2>6. From(p) \in 1 .. R * C BY <1>4, <2>3, <2>4
  <2> HIDE DEF From
  <2> QED BY <2>3, <2>5, <2>6 DEF RowOf, ColOf, i, j
<1>6. u.data = Layout(C, R, ~b)
  <2>1. Layout(C, R, ~b) = [p \in 1 .. R * C |->
          IF ~b THEN <<RowOf(p, R), ColOf(p, R)>> ELSE <<ColOf(p, R), RowOf(p, R)>>]
    BY <1>4 DEF Layout
  <2>2. \A p \in 1 .. R * C : t.data[p] = IF b THEN <<RowOf(p, C), ColOf(p, C)>>
                                          ELSE <<ColOf(p, C), RowOf(p, C)>>
    BY <1>2 DEF Layout
  <2> HIDE DEF From
  <2>3. \A p \in 1 .. R * C : t.data[From(p)] =
          IF ~b THEN <<RowOf(p, R), ColOf(p, R)>> ELSE <<ColOf(p, R), RowOf(p, R)>>
    BY <1>5, <2>2
  <2> HIDE DEF R, C, u
  <2> QED BY <1>3, <2>1, <2>3
<1>7. u \in Matrix
  <2>1. u = [type |-> u.type, rows |-> u.rows, cols |-> u.cols, data |-> u.data]
    <3>1. t \in [type : {"F32", "Quant"}, rows : Nat \ {0}, cols : Nat \ {0}, data : Seq(Nat \X Nat)]
      BY DEF Shaped, Matrix
    <3>2. t = [type |-> t.type, rows |-> t.rows, cols |-> t.cols, data |-> t.data] BY <3>1
    <3> DEFINE d == [p \in DOMAIN t.data |->
                       t.data[((p - 1) % t.rows) * t.cols + (p - 1) \div t.rows + 1]]
    <3>3. u = [t EXCEPT !.rows = t.cols, !.cols = t.rows, !.data = d] BY DEF Transposed
    <3> HIDE DEF d, u
    <3>4. u = [type |-> t.type, rows |-> t.cols, cols |-> t.rows, data |-> d] BY <3>2, <3>3
    <3> QED BY <3>4
  <2>2. (~b) \in BOOLEAN OBVIOUS
  <2>3. u.data \in Seq(Nat \X Nat) BY <1>1, <1>6, <2>2, LayoutType
  <2> HIDE DEF u
  <2> QED BY <1>1, <1>3, <2>1, <2>3 DEF Matrix
<1>8. Shaped(u) BY <1>1, <1>3, <1>7 DEF Shaped
<1>9. LaidOut(u, ~b) BY <1>3, <1>6 DEF LaidOut
<1> QED BY <1>3, <1>8, <1>9

-----------------------------------------------------------------------------
(* Products                                                                *)

(* The product reads what is meant where the inputs are on its side.       *)
LEMMA MatmulReads ==
  ASSUME NEW t, Shaped(t), t.rows = Dim, LaidOut(t, FALSE)
  PROVE  Matmul(t) = Meant(t)
<1> DEFINE R == t.rows
           C == t.cols
<1>1. R \in Nat \ {0} /\ C \in Nat \ {0} BY DEF Shaped, Matrix
<1>2. t.data = Layout(R, C, FALSE) BY DEF LaidOut
<1>3. Meant(t) = [o \in 1 .. C |-> [i \in 1 .. R |-> <<o, i>>]] BY DEF Meant
<1>4. Matmul(t) = [o \in 1 .. C |-> [i \in 1 .. R |-> t.data[(i - 1) * C + o]]] BY DEF Matmul
<1>5. ASSUME NEW o \in 1 .. C, NEW i \in 1 .. R PROVE t.data[(i - 1) * C + o] = <<o, i>>
  <2> DEFINE p == (i - 1) * C + o
             x == (i - 1) * C + (o - 1)
  <2>1. i - 1 \in 0 .. R - 1 /\ o - 1 \in 0 .. C - 1 /\ i - 1 \in Nat BY <1>1
  <2>2. x \in 0 .. (R * C) - 1 /\ x \div C = i - 1 /\ (x % C) = o - 1
    BY <1>1, <2>1, RowAndColumn, PlaceInMatrix
  <2>3. p - 1 = x /\ p \in Int BY <1>1
  <2>4. p \in 1 .. R * C
    <3>1. R * C \in Nat BY <1>1
    <3> HIDE DEF p, x
    <3> QED BY <2>2, <2>3, <3>1
  <2> HIDE DEF p, x
  <2>5. RowOf(p, C) = i /\ ColOf(p, C) = o BY <1>1, <2>2, <2>3 DEF RowOf, ColOf
  <2>6. t.data[p] = <<ColOf(p, C), RowOf(p, C)>> BY <1>2, <2>4 DEF Layout
  <2> QED BY <2>5, <2>6 DEF p
<1> HIDE DEF R, C
<1> QED BY <1>3, <1>4, <1>5

(* ... and the other one where the outputs are on its rows, unless the CPU *)
(* reads an F32 weight by columns.                                         *)
LEMMA RhsReads ==
  ASSUME NEW t, Shaped(t), t.cols = Dim, LaidOut(t, TRUE), NEW e, ~(e = "CPU" /\ t.type = "F32")
  PROVE  RhsTransposed(t, e) = Meant(t)
<1> DEFINE R == t.rows
           C == t.cols
<1>1. R \in Nat \ {0} /\ C \in Nat \ {0} BY DEF Shaped, Matrix
<1>2. t.data = Layout(R, C, TRUE) BY DEF LaidOut
<1>3. Meant(t) = [o \in 1 .. R |-> [i \in 1 .. C |-> <<o, i>>]] BY DEF Meant
<1>4. RhsTransposed(t, e) = [o \in 1 .. R |-> [i \in 1 .. C |-> t.data[(o - 1) * C + i]]]
  BY DEF RhsTransposed
<1>5. ASSUME NEW o \in 1 .. R, NEW i \in 1 .. C PROVE t.data[(o - 1) * C + i] = <<o, i>>
  <2> DEFINE p == (o - 1) * C + i
             x == (o - 1) * C + (i - 1)
  <2>1. o - 1 \in 0 .. R - 1 /\ i - 1 \in 0 .. C - 1 /\ o - 1 \in Nat BY <1>1
  <2>2. x \in 0 .. (R * C) - 1 /\ x \div C = o - 1 /\ (x % C) = i - 1
    BY <1>1, <2>1, RowAndColumn, PlaceInMatrix
  <2>3. p - 1 = x /\ p \in Int BY <1>1
  <2>4. p \in 1 .. R * C
    <3>1. R * C \in Nat BY <1>1
    <3> HIDE DEF p, x
    <3> QED BY <2>2, <2>3, <3>1
  <2> HIDE DEF p, x
  <2>5. RowOf(p, C) = o /\ ColOf(p, C) = i BY <1>1, <2>2, <2>3 DEF RowOf, ColOf
  <2>6. t.data[p] = <<RowOf(p, C), ColOf(p, C)>> BY <1>2, <2>4 DEF Layout
  <2> QED BY <2>5, <2>6 DEF p
<1> HIDE DEF R, C
<1> QED BY <1>3, <1>4, <1>5
-----------------------------------------------------------------------------
(* What a tensor in memory looks like                                      *)

(* A square one is laid out as said, a rectangular one as its shape says.  *)
Arranged(t, byOutput) ==
  Shaped(t) /\ LaidOut(t, IF IsSquare(t) THEN byOutput ELSE t.cols = Dim)

(* A tensor read from a file is arranged as the loader asked for it.       *)
LEMMA ReadArranged ==
  ASSUME NEW t \in Tensor, NEW o \in BOOLEAN
  PROVE  Arranged(Read(t, o), o)
<1> DEFINE u == Read(t, o)
<1>1. Shaped(u) /\ (IsSquare(u) <=> IsSquare(t)) /\ u.cols = t.cols
      /\ LaidOut(u, IF IsSquare(t) THEN o ELSE t.cols = Dim)
  BY ReadLaidOut
<1> QED BY <1>1 DEF Arranged

(* Transposing an arranged tensor turns a square one over and keeps a      *)
(* rectangular one as its new shape says.                                  *)
LEMMA TransposedArranged ==
  ASSUME NEW t, NEW o \in BOOLEAN, Arranged(t, o)
  PROVE  /\ Arranged(Transposed(t), ~o) /\ Transposed(t).type = t.type
         /\ IsSquare(Transposed(t)) <=> IsSquare(t)
<1> DEFINE u == Transposed(t)
           b == IF IsSquare(t) THEN o ELSE t.cols = Dim
<1>1. Shaped(t) /\ LaidOut(t, b) /\ b \in BOOLEAN BY DEF Arranged
<1> HIDE DEF b
<1>2. Shaped(u) /\ u.type = t.type /\ u.rows = t.cols /\ u.cols = t.rows /\ LaidOut(u, ~b)
  BY <1>1, TransposedLaidOut
<1> HIDE DEF u
<1>3. IsSquare(u) <=> IsSquare(t) BY <1>2 DEF IsSquare
<1>4. (~b) = IF IsSquare(u) THEN ~o ELSE u.cols = Dim
  BY <1>1, <1>2, <1>3 DEF b, IsSquare, Shaped
<1> QED BY <1>2, <1>3, <1>4 DEF u, Arranged

(* Made F32 as it lies, a tensor keeps its arrangement.                    *)
LEMMA ForcedArranged ==
  ASSUME NEW t, NEW o \in BOOLEAN, Arranged(t, o)
  PROVE  /\ Arranged([t EXCEPT !.type = "F32"], o)
         /\ [t EXCEPT !.type = "F32"].type = "F32"
         /\ IsSquare([t EXCEPT !.type = "F32"]) <=> IsSquare(t)
<1> DEFINE u == [t EXCEPT !.type = "F32"]
<1>1. t \in Matrix BY DEF Arranged, Shaped
<1>2. u \in Matrix /\ u.type = "F32" /\ u.rows = t.rows /\ u.cols = t.cols /\ u.data = t.data
  BY <1>1 DEF Matrix
<1> HIDE DEF u
<1> QED BY <1>2 DEF Arranged, Shaped, LaidOut, IsSquare, u

(* The order is of no account for a rectangular one.                       *)
LEMMA RectangularArranged ==
  ASSUME NEW t, NEW o, NEW p, ~IsSquare(t), Arranged(t, o)
  PROVE  Arranged(t, p)
BY DEF Arranged

(* What a product reads from an arranged tensor.                           *)
LEMMA ArrangedProduct ==
  ASSUME NEW t, NEW o \in BOOLEAN, Arranged(t, o), NEW f \in BOOLEAN, NEW e,
         ~(e = "CPU" /\ t.type = "F32" /\ Path(t, f) = "rhs"),
         IsSquare(t) => (o <=> Path(t, f) = "rhs"),
         prefer \in BOOLEAN
  PROVE  Product(t, f, e) = Meant(t)
<1>1. Shaped(t) /\ Dim \in {t.rows, t.cols} BY DEF Arranged, Shaped
<1>2. CASE Path(t, f) = "matmul"
  <2>1. t.rows = Dim BY <1>2 DEF Path
  <2>2. LaidOut(t, FALSE) BY <1>2, <2>1 DEF Arranged, IsSquare
  <2> QED BY <1>1, <1>2, <2>1, <2>2, MatmulReads DEF Product
<1>3. CASE Path(t, f) = "rhs"
  <2>1. t.cols = Dim BY <1>1, <1>3 DEF Path, IsSquare
  <2>2. LaidOut(t, TRUE) BY <1>3, <2>1 DEF Arranged, IsSquare
  <2> QED BY <1>1, <1>3, <2>1, <2>2, RhsReads DEF Product
<1> QED BY <1>2, <1>3 DEF Path

-----------------------------------------------------------------------------
(* The inductive invariant                                                 *)

TypeInv ==
  /\ flags \in [Role -> BOOLEAN] /\ prefer \in BOOLEAN /\ force \in BOOLEAN
  /\ phase \in [Context -> {"closed", "policy", "loaded", "copied", "normal", "open"}]
  /\ want \in [Context -> [Role -> BOOLEAN]] /\ own \in [Context -> BOOLEAN]
  /\ leaky \in [Context -> BOOLEAN]
  /\ DOMAIN file = Context /\ DOMAIN weights = Context
  /\ DOMAIN failed = Context /\ DOMAIN live = Context

(* The weights of a context are there once they are loaded, and for        *)
(* layers of its file.                                                     *)
Unread(c) == phase[c] \in {"closed", "policy"}
Stocked(c) ==
  /\ phase[c] # "closed" => file[c] \in Files
  /\ Unread(c) => weights[c] = << >>
  /\ ~Unread(c) => weights[c] \in [{0} \cup Layers(c) -> [Role -> Matrix \cup {Absent}]]

(* A square weight is read with its outputs on the rows when a flag or the *)
(* preference was meant to serve it; normalising turns the F32 ones that a *)
(* flag would have served.                                                 *)
Normalized(c) == phase[c] \in {"normal", "open"}
ByOutput(c, r, t) ==
  IF Normalized(c) /\ t.type = "F32" THEN ~want[c][r] /\ own[c] ELSE want[c][r] \/ own[c]

(* ... except where memory was short or ffn weights were made F32.         *)
Excused(c, l, r) ==
  Normalized(c) /\ (<<l, r>> \in failed[c] \/ (force /\ r = "ffn" /\ want[c][r]))

Sound(c, l, r, t) ==
  Shaped(t) /\ ((IsSquare(t) /\ Excused(c, l, r)) \/ Arranged(t, ByOutput(c, r, t)))

AllSound(c) ==
  /\ \A r \in Role : ~(own[c] /\ want[c][r])
  /\ \A l \in DOMAIN weights[c], r \in Role :
       weights[c][l][r] # Absent => Sound(c, l, r, weights[c][l][r])

(* After loading, a layer has all of its triple or nothing of it, and so   *)
(* it is in a file that loses nothing.                                     *)
Whole(c) ==
  phase[c] = "loaded" =>
    /\ weights[c][0] = NoTensors
    /\ \A l \in Layers(c) : weights[c][l]["q"] # Absent =>
         weights[c][l]["k"] # Absent /\ weights[c][l]["v"] # Absent
    /\ ~leaky[c] =>
         \A l \in Layers(c) : Present(file[c].layers[l], Triple) \in {{}, Triple}

Counted(c) == ~leaky[c] => live[c] = Cardinality(Held(c))

Kept(c) == Stocked(c) /\ AllSound(c) /\ Whole(c) /\ Counted(c)
Inv == TypeInv /\ \A c \in Context : Kept(c)

(* What a step of another context leaves alone.                            *)
Same(c) ==
  /\ phase'[c] = phase[c] /\ file'[c] = file[c] /\ want'[c] = want[c] /\ own'[c] = own[c]
  /\ weights'[c] = weights[c] /\ failed'[c] = failed[c] /\ live'[c] = live[c]
  /\ leaky'[c] = leaky[c] /\ force' = force

(* A context keeps its invariant when no step touches it.                  *)
LEMMA SameKept ==
  ASSUME NEW c \in Context, Kept(c), Same(c)
  PROVE  Kept(c)'
<1>1. Stocked(c)' BY DEF Kept, Stocked, Same, Unread, Layers
<1>2. AllSound(c)'
  <2>1. \A l, r : Excused(c, l, r)' = Excused(c, l, r) BY DEF Same, Excused, Normalized
  <2>2. \A r, t : ByOutput(c, r, t)' = ByOutput(c, r, t) BY DEF Same, ByOutput, Normalized
  <2>3. \A l, r, t : Sound(c, l, r, t)' = Sound(c, l, r, t)
    BY <2>1, <2>2 DEF Sound, Shaped, Arranged, LaidOut, IsSquare
  <2> QED BY <2>3 DEF Kept, AllSound, Same
<1>3. Whole(c)' BY DEF Kept, Whole, Same, Layers
<1>4. Counted(c)' BY DEF Kept, Counted, Same, Held
<1> QED BY <1>1, <1>2, <1>3, <1>4 DEF Kept

(* The set of places with a tensor is finite.                              *)
LEMMA HeldFinite ==
  ASSUME NEW c \in Context, Stocked(c)
  PROVE  IsFiniteSet(Held(c)) /\ (Unread(c) => Held(c) = {})
<1>1. IsFiniteSet(Role)
  <2>1. Role = ((({"q"} \cup {"k"}) \cup {"v"}) \cup {"o"}) \cup {"ffn"} BY DEF Role, Attention, Triple
  <2>2. IsFiniteSet({"q"}) BY FS_Singleton
  <2>3. IsFiniteSet({"q"} \cup {"k"}) BY <2>2, FS_AddElement
  <2>4. IsFiniteSet(({"q"} \cup {"k"}) \cup {"v"}) BY <2>3, FS_AddElement
  <2>5. IsFiniteSet((({"q"} \cup {"k"}) \cup {"v"}) \cup {"o"}) BY <2>4, FS_AddElement
  <2>6. IsFiniteSet(((({"q"} \cup {"k"}) \cup {"v"}) \cup {"o"}) \cup {"ffn"}) BY <2>5, FS_AddElement
  <2> QED BY <2>1, <2>6
<1>2. CASE Unread(c)
  <2>1. Held(c) = {} BY <1>2 DEF Stocked, Held
  <2> QED BY <2>1, FS_EmptySet
<1>3. CASE ~Unread(c)
  <2>1. file[c].layers \in Seq([Role -> Tensor \cup {Absent}])
    BY <1>3, LayoutAssumption DEF Stocked, Unread
  <2>2. Len(file[c].layers) \in Nat BY <2>1
  <2>3. IsFiniteSet(Layers(c)) BY <2>2, FS_Interval DEF Layers
  <2>4. IsFiniteSet(Layers(c) \cup {0}) BY <2>3, FS_AddElement
  <2>5. IsFiniteSet((Layers(c) \cup {0}) \X Role) BY <1>1, <2>4, FS_Product
  <2>6. DOMAIN weights[c] = Layers(c) \cup {0} BY <1>3 DEF Stocked
  <2>7. Held(c) \in SUBSET ((Layers(c) \cup {0}) \X Role) BY <2>6 DEF Held
  <2> QED BY <1>3, <2>5, <2>7, FS_Subset
<1> QED BY <1>2, <1>3

-----------------------------------------------------------------------------
(* Steps                                                                   *)

(* Choosing the orientation policy opens a context with no weights yet,    *)
(* and never asks for the flags and the preference at once.                *)
LEMMA SetPolicyStep ==
  ASSUME Inv, NEW c \in Context, NEW f \in Files, NEW order \in Orders \cup {NoOrder},
         SetPolicy(c, f, order)
  PROVE  TypeInv' /\ Kept(c)' /\ \A d \in Context \ {c} : Same(d)
<1>1. TypeInv /\ Kept(c) /\ phase[c] = "closed" BY DEF Inv, SetPolicy
<1>2. order # NoOrder => order \in [Attention -> BOOLEAN] BY LayoutAssumption
<1>3. [r \in Role |-> IF order = NoOrder THEN UsesSquareTranspose(f.arch)
                ELSE IF r = "ffn" THEN \E a \in Attention : order[a] ELSE order[r]] \in [Role -> BOOLEAN]
  BY <1>2 DEF UsesSquareTranspose, Role
<1>4. TypeInv'
  BY <1>1, <1>3 DEF TypeInv, SetPolicy, PrefersGgml
<1>5. /\ phase'[c] = "policy" /\ file'[c] = f /\ weights'[c] = weights[c] /\ live'[c] = 0
      /\ want'[c] = [r \in Role |-> IF order = NoOrder THEN UsesSquareTranspose(f.arch)
                ELSE IF r = "ffn" THEN \E a \in Attention : order[a] ELSE order[r]]
      /\ own'[c] = (order = NoOrder /\ PrefersGgml(f.arch))
  BY <1>1 DEF TypeInv, SetPolicy
<1>6. weights'[c] = << >> BY <1>1, <1>5 DEF Kept, Stocked, Unread
<1>7. Stocked(c)' BY <1>5, <1>6 DEF Stocked, Unread
<1>8. AllSound(c)'
  <2>1. ASSUME NEW r \in Role PROVE ~(own'[c] /\ want'[c][r])
    <3>1. CASE order = NoOrder
      <4>1. own'[c] = (f.arch = "qwen") /\ want'[c][r] = (f.arch = "llama")
        BY <1>5, <3>1 DEF UsesSquareTranspose, PrefersGgml
      <4> QED BY <4>1
    <3>2. CASE order # NoOrder BY <1>5, <3>2
    <3> QED BY <3>1, <3>2
  <2>2. DOMAIN weights'[c] = {} BY <1>6
  <2> QED BY <2>1, <2>2 DEF AllSound
<1>9. Counted(c)'
  <2>1. Held(c)' = {} BY <1>6 DEF Held
  <2> QED BY <2>1, <1>5, FS_EmptySet DEF Counted
<1>10. Whole(c)' BY <1>5 DEF Whole
<1>11. \A d \in Context \ {c} : Same(d) BY <1>1 DEF TypeInv, SetPolicy, Same
<1> QED BY <1>4, <1>7, <1>8, <1>9, <1>10, <1>11 DEF Kept

(* Closing, or refusing to open, gives up exactly the weights that are     *)
(* there.                                                                  *)
LEMMA DiscardStep ==
  ASSUME Inv, NEW c \in Context, Discard(c)
  PROVE  TypeInv' /\ Kept(c)' /\ \A d \in Context \ {c} : Same(d)
<1>1. TypeInv /\ Kept(c) BY DEF Inv
<1>2. TypeInv' BY <1>1 DEF TypeInv, Discard, policyVars
<1>3. /\ phase'[c] = "closed" /\ weights'[c] = << >> /\ leaky' = leaky
      /\ live'[c] = live[c] - Cardinality(Freed(c))
      /\ want'[c] = [r \in Role |-> FALSE] /\ own'[c] = FALSE
  BY <1>1 DEF TypeInv, Discard
<1>4. Stocked(c)' BY <1>3 DEF Stocked, Unread
<1>5. AllSound(c)' BY <1>3 DEF AllSound
<1>6. Whole(c)' BY <1>3 DEF Whole
<1>7. Counted(c)'
  <2>1. Held(c)' = {} BY <1>3 DEF Held
  <2>2. Cardinality(Held(c)) \in Nat BY <1>1, HeldFinite, FS_CardinalityType DEF Kept
  <2>3. ~leaky[c] => live'[c] = 0 BY <1>1, <1>3, <2>2 DEF Kept, Counted, Freed
  <2> QED BY <1>3, <2>1, <2>3, FS_EmptySet DEF Counted
<1>8. \A d \in Context \ {c} : Same(d) BY <1>1 DEF TypeInv, Discard, Same, policyVars
<1> QED BY <1>2, <1>4, <1>5, <1>6, <1>7, <1>8 DEF Kept

(* Setting the flags of the process leaves the weights as normalising made *)
(* them.                                                                   *)
LEMMA SetFlagsStep ==
  ASSUME Inv, NEW c \in Context, SetFlags(c)
  PROVE  TypeInv' /\ Kept(c)' /\ \A d \in Context \ {c} : Same(d)
<1>1. TypeInv /\ Kept(c) /\ phase[c] = "normal" BY DEF Inv, SetFlags
<1>2. \A r \in Role : OwnFlag(c, r) \in BOOLEAN BY <1>1 DEF TypeInv, OwnFlag
<1>3. TypeInv' BY <1>1, <1>2 DEF TypeInv, SetFlags
<1>4. /\ phase'[c] = "open" /\ file'[c] = file[c] /\ want'[c] = want[c] /\ own'[c] = own[c]
      /\ weights'[c] = weights[c] /\ failed'[c] = failed[c] /\ live'[c] = live[c]
      /\ leaky'[c] = leaky[c] /\ force' = force
  BY <1>1 DEF TypeInv, SetFlags
<1>5. Stocked(c)' BY <1>1, <1>4 DEF Kept, Stocked, Unread, Layers
<1>6. AllSound(c)'
  <2>1. \A l, r : Excused(c, l, r)' = Excused(c, l, r) BY <1>1, <1>4 DEF Excused, Normalized
  <2>2. \A r, t : ByOutput(c, r, t)' = ByOutput(c, r, t) BY <1>1, <1>4 DEF ByOutput, Normalized
  <2>3. \A l, r, t : Sound(c, l, r, t)' = Sound(c, l, r, t)
    BY <2>1, <2>2 DEF Sound, Shaped, Arranged, LaidOut, IsSquare
  <2> QED BY <1>1, <1>4, <2>3 DEF Kept, AllSound
<1>7. Whole(c)' BY <1>4 DEF Whole
<1>8. Counted(c)' BY <1>1, <1>4 DEF Kept, Counted, Held
<1>9. \A d \in Context \ {c} : Same(d) BY <1>1 DEF TypeInv, SetFlags, Same
<1> QED BY <1>3, <1>5, <1>6, <1>7, <1>8, <1>9 DEF Kept

(* What reading a layer of the file gives.                                 *)
LEMMA StoredArranged ==
  ASSUME NEW layer \in [Role -> Tensor \cup {Absent}], NEW r \in Role, Stored(layer, r),
         NEW o \in BOOLEAN
  PROVE  Arranged(Read(layer[r], o), o) /\ Read(layer[r], o) \in Matrix
         /\ Read(layer[r], o) # Absent
<1>1. layer[r] \in Tensor BY DEF Stored
<1>2. Arranged(Read(layer[r], o), o) BY <1>1, ReadArranged
<1>3. Read(layer[r], o) \in Matrix BY <1>2 DEF Arranged, Shaped
<1> QED BY <1>2, <1>3, LayoutAssumption

(* A tall one is rectangular, turned or not.                               *)
LEMMA TallArranged ==
  ASSUME NEW t, NEW o \in BOOLEAN, Arranged(t, o), TallF32(t)
  PROVE  Arranged(Transposed(t), o) /\ Transposed(t) \in Matrix
<1>1. ~IsSquare(t)
  BY LayoutAssumption DEF TallF32, IsSquare
<1>2. Arranged(Transposed(t), ~o) /\ (IsSquare(Transposed(t)) <=> IsSquare(t))
  BY TransposedArranged
<1>3. Arranged(Transposed(t), o) BY <1>1, <1>2, RectangularArranged
<1> QED BY <1>3 DEF Arranged, Shaped

(* Loading arranges every tensor as the policy asked for, tall ones turned *)
(* or not, and counts them all unless a triple was incomplete.             *)
LEMMA LoadStep ==
  ASSUME Inv, NEW c \in Context, Load(c)
  PROVE  TypeInv' /\ Kept(c)' /\ \A d \in Context \ {c} : Same(d)
<1>1. TypeInv /\ Kept(c) /\ phase[c] = "policy" BY DEF Inv, Load
<1> DEFINE layers == file[c].layers
           o(r) == want[c][r] \/ own[c]
           raw == [l \in Layers(c) |-> [r \in Role |->
                    IF Stored(file[c].layers[l], r)
                    THEN Read(file[c].layers[l][r], want[c][r] \/ own[c]) ELSE Absent]]
           tall == {p \in Layers(c) \X {"k", "v"} : TallF32(raw[p[1]][p[2]])}
           made(F) == [l \in {0} \cup Layers(c) |->
                IF l = 0 THEN NoTensors
                ELSE [r \in Role |-> IF <<l, r>> \in tall \ F THEN Transposed(raw[l][r])
                                     ELSE raw[l][r]]]
<1>2. PICK F : /\ weights' = [weights EXCEPT ![c] = made(F)]
               /\ failed' = [failed EXCEPT ![c] = F]
  BY DEF Load
<1>3. /\ live' = [live EXCEPT ![c] =
           Cardinality({p \in Layers(c) \X Role : file[c].layers[p[1]][p[2]] # Absent})]
      /\ leaky' = [leaky EXCEPT ![c] =
           \E l \in Layers(c) : Present(file[c].layers[l], Triple) \notin {{}, Triple}]
      /\ phase' = [phase EXCEPT ![c] = "loaded"]
      /\ UNCHANGED <<policyVars, file, want, own>>
  BY DEF Load
<1>0. PICK W : W = weights'[c] OBVIOUS
<1>4. /\ phase'[c] = "loaded" /\ file' = file /\ want' = want /\ own' = own
      /\ W = made(F) /\ force' = force
      /\ live'[c] = Cardinality({p \in Layers(c) \X Role : layers[p[1]][p[2]] # Absent})
      /\ leaky'[c] = (\E l \in Layers(c) : Present(layers[l], Triple) \notin {{}, Triple})
      /\ Layers(c)' = Layers(c)
  BY <1>0, <1>1, <1>2, <1>3 DEF TypeInv, policyVars, Layers
<1>5. \A l \in Layers(c) : layers[l] \in [Role -> Tensor \cup {Absent}] /\ l # 0
  <2>1. layers \in Seq([Role -> Tensor \cup {Absent}])
    BY <1>1, LayoutAssumption DEF Kept, Stocked
  <2> QED BY <2>1 DEF Layers
<1>6. \A r \in Role : o(r) \in BOOLEAN /\ ~(own[c] /\ want[c][r])
  BY <1>1 DEF TypeInv, Kept, AllSound
<1>7. ASSUME NEW l \in Layers(c), NEW r \in Role
      PROVE  IF Stored(layers[l], r)
             THEN Arranged(W[l][r], o(r)) /\ W[l][r] \in Matrix /\ W[l][r] # Absent
             ELSE W[l][r] = Absent
  <2> DEFINE u == Read(layers[l][r], o(r))
  <2>0. W[l][r] = IF <<l, r>> \in tall \ F THEN Transposed(raw[l][r]) ELSE raw[l][r]
    <3>1. W[l] = [s \in Role |-> IF <<l, s>> \in tall \ F THEN Transposed(raw[l][s]) ELSE raw[l][s]]
      <4> HIDE DEF raw, tall
      <4> QED BY <1>4, <1>5
    <3> HIDE DEF raw, tall
    <3> QED BY <3>1
  <2>1. CASE Stored(layers[l], r)
    <3>1. raw[l][r] = u BY <2>1
    <3>2. Arranged(u, o(r)) /\ u \in Matrix /\ u # Absent
      BY <1>5, <1>6, <2>1, StoredArranged
    <3>3. TallF32(u) => Arranged(Transposed(u), o(r)) /\ Transposed(u) \in Matrix
      BY <1>6, <3>2, TallArranged
    <3>5. <<l, r>> \in tall => TallF32(raw[l][r]) OBVIOUS
    <3> HIDE DEF raw, tall, u, o
    <3>6. CASE <<l, r>> \in tall \ F
      BY <2>1, <3>1, <2>0, <3>3, <3>5, <3>6, LayoutAssumption
    <3>7. CASE <<l, r>> \notin tall \ F
      BY <2>1, <3>1, <2>0, <3>2, <3>7
    <3> QED BY <3>6, <3>7
  <2>2. CASE ~Stored(layers[l], r)
    <3>1. raw[l][r] = Absent BY <2>2
    <3>2. ~TallF32(Absent) BY DEF TallF32
    <3>3. <<l, r>> \notin tall BY <3>1, <3>2
    <3>4. W[l][r] = raw[l][r]
      <4> HIDE DEF raw, tall
      <4> QED BY <2>0, <3>3
    <3> QED BY <2>2, <3>1, <3>4
  <2> QED BY <2>1, <2>2
<1>8. W[0] = NoTensors /\ DOMAIN W = {0} \cup Layers(c)
      /\ W \in [{0} \cup Layers(c) -> [Role -> Matrix \cup {Absent}]]
  <2>1. W[0] = NoTensors /\ DOMAIN W = {0} \cup Layers(c) BY <1>4
  <2>2. NoTensors \in [Role -> Matrix \cup {Absent}] BY DEF NoTensors
  <2>3. ASSUME NEW l \in Layers(c) PROVE W[l] \in [Role -> Matrix \cup {Absent}]
    <3>1. DOMAIN W[l] = Role /\ W[l] = [r \in Role |-> W[l][r]] BY <1>4, <1>5
    <3>2. \A r \in Role : W[l][r] \in Matrix \cup {Absent} BY <1>7
    <3> QED BY <3>1, <3>2
  <2>4. W = [l \in {0} \cup Layers(c) |-> W[l]] BY <1>4
  <2> QED BY <2>1, <2>2, <2>3, <2>4
<1> HIDE DEF raw, tall, made
<1>9. TypeInv'
  BY <1>1, <1>2, <1>3 DEF TypeInv, policyVars
<1>10. Stocked(c)'
  BY <1>0, <1>1, <1>4, <1>8 DEF Kept, Stocked, Unread
<1>11. AllSound(c)'
  <2>1. ASSUME NEW l \in DOMAIN W, NEW r \in Role, W[l][r] # Absent
        PROVE  Sound(c, l, r, W[l][r])'
    <3>1. l \in Layers(c) BY <1>8, <2>1 DEF NoTensors
    <3>2. Arranged(W[l][r], o(r)) BY <1>7, <2>1, <3>1
    <3>3. ~Normalized(c)' BY <1>4 DEF Normalized
    <3>4. Shaped(W[l][r])' /\ Arranged(W[l][r], want[c][r] \/ own[c])'
      BY <1>4, <3>2 DEF Arranged, Shaped, LaidOut, IsSquare
    <3>5. Arranged(W[l][r], ByOutput(c, r, W[l][r]))' BY <3>3, <3>4 DEF ByOutput
    <3> QED BY <3>4, <3>5 DEF Sound
  <2>2. \A l \in DOMAIN weights'[c], r \in Role :
          weights'[c][l][r] # Absent => Sound(c, l, r, weights[c][l][r])'
    <3>1. \A l, r, t : t = weights'[c][l][r] => Sound(c, l, r, t)' = Sound(c, l, r, weights[c][l][r])'
      BY DEF Sound, Excused, ByOutput, Normalized, Arranged, Shaped, LaidOut, IsSquare
    <3> QED BY <1>0, <2>1, <3>1
  <2>3. \A r \in Role : ~(own'[c] /\ want'[c][r]) BY <1>4, <1>6
  <2> QED BY <2>2, <2>3 DEF AllSound
<1>12. Whole(c)'
  <2>1. ASSUME NEW l \in Layers(c), W[l]["q"] # Absent
        PROVE  W[l]["k"] # Absent /\ W[l]["v"] # Absent
    <3>1. WholeTriple(layers[l]) BY <1>7, <2>1 DEF Stored, Role, Attention, Triple
    <3>2. Stored(layers[l], "k") /\ Stored(layers[l], "v")
      BY <3>1 DEF Stored, WholeTriple, Present, Triple
    <3> QED BY <1>7, <3>2 DEF Role, Attention, Triple
  <2> QED BY <1>0, <1>4, <1>8, <2>1 DEF Whole
<1>13. Counted(c)'
  <2>1. ASSUME ~leaky'[c]
        PROVE  Held(c)' = {p \in Layers(c) \X Role : layers[p[1]][p[2]] # Absent}
    <3>1. ASSUME NEW l \in Layers(c), NEW r \in Role
          PROVE  W[l][r] # Absent <=> layers[l][r] # Absent
      <4>1. Present(layers[l], Triple) \in {{}, Triple} BY <1>4, <2>1
      <4>2. Stored(layers[l], r) <=> layers[l][r] # Absent
        BY <4>1 DEF Stored, WholeTriple, Present
      <4> QED BY <1>7, <4>2
    <3>2. Held(c)' = {p \in ({0} \cup Layers(c)) \X Role : W[p[1]][p[2]] # Absent}
      BY <1>0, <1>8 DEF Held
    <3>3. \A r \in Role : W[0][r] = Absent BY <1>8 DEF NoTensors
    <3> QED BY <3>1, <3>2, <3>3
  <2> QED BY <1>4, <2>1 DEF Counted
<1>14. \A d \in Context \ {c} : Same(d)
  BY <1>1, <1>2, <1>3 DEF TypeInv, Same, policyVars
<1> QED BY <1>9, <1>10, <1>11, <1>12, <1>13, <1>14 DEF Kept

(* The first layer with a triple has all of it, and there is one such.     *)
LEMMA FirstTriple ==
  ASSUME Inv, NEW c \in Context, phase[c] = "loaded", NEW l \in FirstWhole(c), NEW r \in Triple
  PROVE  /\ l \in Layers(c) /\ l \in DOMAIN weights[c] /\ r \in Role
         /\ weights[c][l][r] # Absent
         /\ Arranged(weights[c][l][r], want[c][r] \/ own[c])
         /\ weights[c][l][r] \in Matrix
         /\ \A k \in FirstWhole(c) : k = l
<1>1. Kept(c) BY DEF Inv
<1>2. l \in Layers(c) /\ l \in DOMAIN weights[c] /\ r \in Role
  BY <1>1 DEF FirstWhole, Kept, Stocked, Unread, Role, Attention
<1>3. weights[c][l][r] # Absent BY <1>1, <1>2 DEF FirstWhole, Kept, Whole, Triple
<1>4. Sound(c, l, r, weights[c][l][r]) BY <1>1, <1>2, <1>3 DEF Kept, AllSound
<1>5. Arranged(weights[c][l][r], want[c][r] \/ own[c])
  BY <1>4 DEF Sound, Excused, ByOutput, Normalized
<1>6. \A k \in FirstWhole(c) : k = l
  <2>1. \A k \in Layers(c) : k \in Int BY DEF Layers
  <2>2. ASSUME NEW k \in FirstWhole(c) PROVE ~(k < l) /\ ~(l < k)
    BY <2>2 DEF FirstWhole
  <2>3. \A k \in FirstWhole(c) : k \in Layers(c) BY DEF FirstWhole
  <2> QED BY <1>2, <2>1, <2>2, <2>3
<1> QED BY <1>2, <1>3, <1>5, <1>6 DEF Arranged, Shaped

(* A triple has a number of members.                                       *)
LEMMA TripleFinite == IsFiniteSet(Triple)
<1>1. Triple = ({"q"} \cup {"k"}) \cup {"v"} BY DEF Triple
<1>2. IsFiniteSet({"q"}) BY FS_Singleton
<1>3. IsFiniteSet({"q"} \cup {"k"}) BY <1>2, FS_AddElement
<1>4. IsFiniteSet(({"q"} \cup {"k"}) \cup {"v"}) BY <1>3, FS_AddElement
<1> QED BY <1>1, <1>4

(* Tensors at a place of their own count one by one.                       *)
LEMMA HeldMore ==
  ASSUME NEW H, IsFiniteSet(H), NEW R, IsFiniteSet(R), NEW x, \A r \in R : <<x, r>> \notin H
  PROVE  Cardinality(H \cup ({x} \X R)) = Cardinality(H) + Cardinality(R)
         /\ Cardinality(H) \in Nat /\ Cardinality(R) \in Nat
<1>1. IsFiniteSet({x}) /\ Cardinality({x}) = 1 BY FS_Singleton
<1>2. IsFiniteSet({x} \X R) /\ Cardinality({x} \X R) = 1 * Cardinality(R) BY <1>1, FS_Product
<1>3. H \cap ({x} \X R) = {} OBVIOUS
<1>4. Cardinality(H \cap ({x} \X R)) = 0 BY <1>3, FS_EmptySet
<1>5. Cardinality(H \cup ({x} \X R)) = Cardinality(H) + Cardinality({x} \X R) - Cardinality(H \cap ({x} \X R))
  BY <1>2, FS_Union
<1>6. Cardinality(H) \in Nat /\ Cardinality(R) \in Nat BY FS_CardinalityType
<1> QED BY <1>2, <1>4, <1>5, <1>6

(* The context's own triple is arranged like the layer it comes from,      *)
(* cloned or read again, and is counted unless clones were replaced.       *)
LEMMA CopyTripleStep ==
  ASSUME Inv, NEW c \in Context, CopyTriple(c)
  PROVE  TypeInv' /\ Kept(c)' /\ \A d \in Context \ {c} : Same(d)
<1>1. TypeInv /\ Kept(c) /\ phase[c] = "loaded" BY DEF Inv, CopyTriple
<1> DEFINE layer == file[c].layers[1]
           o(r) == want[c][r] \/ own[c]
           source == CHOOSE l \in FirstWhole(c) : TRUE
           reread == [r \in Role |-> IF Stored(layer, r) /\ r \in Triple
                                     THEN Read(layer[r], want[c][r] \/ own[c]) ELSE Absent]
           cloned(F) == {r \in Triple : /\ <<0, r>> \notin F
                                     /\ \E l \in FirstWhole(c) : weights[c][l][r].type = "F32"}
           clone(F) == [r \in Role |-> IF r \in cloned(F) THEN weights[c][source][r] ELSE Absent]
           again(F) == "q" \notin cloned(F)
           turned == [r \in Role |-> IF r # "q" /\ TallF32(reread[r])
                                     THEN Transposed(reread[r]) ELSE reread[r]]
           made(F) == IF ~(again(F) /\ WholeTriple(layer)) THEN clone(F) ELSE turned
<1>2. PICK F : /\ weights' = [weights EXCEPT ![c][0] = made(F)]
               /\ live' = [live EXCEPT ![c] = @ + Cardinality(cloned(F))
                             + IF again(F) THEN Cardinality(Present(layer, Triple)) ELSE 0]
               /\ leaky' = [leaky EXCEPT ![c] = @ \/ (again(F) /\ WholeTriple(layer) /\ cloned(F) # {})]
               /\ failed' = [failed EXCEPT ![c] = @ \cup F]
  BY DEF CopyTriple
<1>3. phase' = [phase EXCEPT ![c] = "copied"] /\ UNCHANGED <<policyVars, file, want, own>>
  BY DEF CopyTriple
<1> DEFINE C == cloned(F)
           M == made(F)
           N == IF again(F) THEN Cardinality(Present(layer, Triple)) ELSE 0
           L == again(F) /\ WholeTriple(layer)
<1>4. /\ phase'[c] = "copied" /\ file' = file /\ want' = want /\ own' = own /\ force' = force
      /\ weights'[c] = [weights[c] EXCEPT ![0] = M]
      /\ live'[c] = live[c] + Cardinality(C) + N
      /\ leaky'[c] = (leaky[c] \/ (L /\ C # {})) /\ leaky[c] \in BOOLEAN
      /\ Layers(c)' = Layers(c)
  <2> HIDE DEF C, M, N, made, again, cloned
  <2>1. weights' = [weights EXCEPT ![c][0] = M] /\ live' = [live EXCEPT ![c] = @ + Cardinality(C) + N]
        /\ leaky' = [leaky EXCEPT ![c] = @ \/ (L /\ C # {})]
    BY <1>2 DEF C, M, N
  <2> HIDE DEF L
  <2> QED BY <1>1, <1>3, <2>1 DEF TypeInv, policyVars, Layers
<1>5. layer \in [Role -> Tensor \cup {Absent}] /\ 1 \in Layers(c) /\ 0 \notin Layers(c)
  <2>1. file[c].layers \in Seq([Role -> Tensor \cup {Absent}]) /\ file[c].layers # <<>>
    BY <1>1, LayoutAssumption DEF Kept, Stocked
  <2> QED BY <2>1 DEF Layers
<1>6. \A r \in Role : o(r) \in BOOLEAN /\ ~(own[c] /\ want[c][r])
  BY <1>1 DEF TypeInv, Kept, AllSound
<1>7. ASSUME NEW r \in Role, L
      PROVE  IF r \in Triple THEN M[r] # Absent /\ Arranged(M[r], o(r)) ELSE M[r] = Absent
  <2> DEFINE u == Read(layer[r], o(r))
  <2>1. M = turned BY <1>7
  <2>2. M[r] = IF r # "q" /\ TallF32(reread[r]) THEN Transposed(reread[r]) ELSE reread[r]
    <3> HIDE DEF M, reread
    <3> QED BY <2>1
  <2>3. CASE r \in Triple
    <3>1. Stored(layer, r) BY <1>7, <2>3 DEF Stored, WholeTriple, Present
    <3>2. reread[r] = u BY <2>3, <3>1
    <3>3. Arranged(u, o(r)) /\ u # Absent BY <1>5, <1>6, <3>1, StoredArranged
    <3>4. TallF32(u) => Arranged(Transposed(u), o(r)) /\ Transposed(u) # Absent
      BY <1>6, <3>3, TallArranged, LayoutAssumption
    <3> HIDE DEF M, reread, u, o
    <3> QED BY <2>2, <2>3, <3>2, <3>3, <3>4
  <2>4. CASE r \notin Triple
    <3>1. reread[r] = Absent BY <2>4
    <3> HIDE DEF M, reread
    <3> QED BY <2>2, <2>4, <3>1 DEF TallF32
  <2> QED BY <2>3, <2>4
<1>8. ASSUME NEW r \in Role, ~L
      PROVE  IF r \in C THEN M[r] # Absent /\ Arranged(M[r], o(r)) ELSE M[r] = Absent
  <2>1. M[r] = IF r \in C THEN weights[c][source][r] ELSE Absent BY <1>8
  <2>2. CASE r \in C
    <3>1. r \in Triple /\ \E l \in FirstWhole(c) : TRUE BY <2>2
    <3>2. source \in FirstWhole(c) BY <3>1
    <3> HIDE DEF source, C, M
    <3>3. weights[c][source][r] # Absent /\ Arranged(weights[c][source][r], o(r))
      BY <1>1, <3>1, <3>2, FirstTriple
    <3> HIDE DEF o
    <3> QED BY <2>1, <2>2, <3>3
  <2>3. CASE r \notin C BY <2>1, <2>3
  <2> QED BY <2>2, <2>3
<1> DEFINE R == IF L THEN Triple ELSE C
<1>9. C \subseteq Triple /\ R \subseteq Triple /\ Triple \subseteq Role BY DEF Role, Attention
<1>10. DOMAIN M = Role OBVIOUS
<1> HIDE DEF M, C, N
<1>11. ASSUME NEW r \in Role
       PROVE  IF r \in R THEN M[r] # Absent /\ Arranged(M[r], o(r)) ELSE M[r] = Absent
  BY <1>7, <1>8
<1> HIDE DEF R
<1>12. M \in [Role -> Matrix \cup {Absent}]
  <2>1. M = [r \in Role |-> M[r]]
    <3>1. M = turned \/ M = clone(F) BY DEF M
    <3> HIDE DEF cloned, reread, source
    <3> QED BY <3>1
  <2>2. \A r \in Role : M[r] \in Matrix \cup {Absent} BY <1>11 DEF Arranged, Shaped
  <2> QED BY <2>1, <2>2
<1>13. weights[c] \in [{0} \cup Layers(c) -> [Role -> Matrix \cup {Absent}]]
       /\ weights[c][0] = NoTensors
  BY <1>1 DEF Kept, Stocked, Unread, Whole
<1>14. TypeInv'
  <2>1. DOMAIN weights' = Context /\ DOMAIN live' = Context /\ DOMAIN failed' = Context
    BY <1>1, <1>2 DEF TypeInv
  <2>2. leaky' \in [Context -> BOOLEAN]
    <3> HIDE DEF again, cloned
    <3> QED BY <1>1, <1>2 DEF TypeInv
  <2> QED BY <1>1, <1>3, <2>1, <2>2 DEF TypeInv, policyVars
<1>15. Stocked(c)'
  <2>1. weights'[c] \in [{0} \cup Layers(c) -> [Role -> Matrix \cup {Absent}]]
    BY <1>4, <1>12, <1>13
  <2> QED BY <1>1, <1>4, <2>1 DEF Kept, Stocked, Unread
<1>16. AllSound(c)'
  <2>1. ASSUME NEW l \in DOMAIN weights'[c], NEW r \in Role, NEW t, t = weights'[c][l][r], t # Absent
        PROVE  Sound(c, l, r, t)'
    <3>1. l \in DOMAIN weights[c] BY <1>4, <2>1
    <3>2. CASE l = 0
      <4>1. t = M[r] BY <1>4, <1>13, <2>1, <3>2
      <4>2. Arranged(t, o(r)) BY <1>11, <2>1, <4>1
      <4> QED BY <1>4, <4>2
        DEF Sound, Excused, ByOutput, Normalized, Arranged, Shaped, LaidOut, IsSquare
    <3>3. CASE l # 0
      <4>1. t = weights[c][l][r] BY <1>4, <1>13, <2>1, <3>3
      <4>2. Sound(c, l, r, t) BY <1>1, <2>1, <3>1, <4>1 DEF Kept, AllSound
      <4> QED BY <1>1, <1>4, <4>2
        DEF Sound, Excused, ByOutput, Normalized, Arranged, Shaped, LaidOut, IsSquare
    <3> QED BY <3>2, <3>3
  <2>2. \A l, r, t : t = weights'[c][l][r] => Sound(c, l, r, t)' = Sound(c, l, r, weights[c][l][r])'
    BY DEF Sound, Excused, ByOutput, Normalized, Arranged, Shaped, LaidOut, IsSquare
  <2>3. \A l \in DOMAIN weights'[c], r \in Role :
          weights'[c][l][r] # Absent => Sound(c, l, r, weights[c][l][r])'
    BY <2>1, <2>2
  <2>4. \A r \in Role : ~(own'[c] /\ want'[c][r]) BY <1>4, <1>6
  <2> QED BY <2>3, <2>4 DEF AllSound
<1>17. Whole(c)' BY <1>4 DEF Whole
<1>18. Counted(c)'
  <2>1. Held(c)' = Held(c) \cup ({0} \X R)
    <3>1. DOMAIN weights'[c] = {0} \cup Layers(c) /\ DOMAIN weights[c] = {0} \cup Layers(c)
      BY <1>4, <1>13
    <3>2. \A l \in Layers(c) : weights'[c][l] = weights[c][l] BY <1>4, <1>5, <1>13
    <3>3. weights'[c][0] = M BY <1>4, <1>13
    <3>4. \A r \in Role : weights[c][0][r] = Absent BY <1>13 DEF NoTensors
    <3>5. \A r \in Role : M[r] # Absent <=> r \in R BY <1>11
    <3>6. R \subseteq Role BY <1>9
    <3>7. Held(c)' = {p \in ({0} \cup Layers(c)) \X Role : weights'[c][p[1]][p[2]] # Absent}
      BY <3>1 DEF Held
    <3>8. Held(c) = {p \in ({0} \cup Layers(c)) \X Role : weights[c][p[1]][p[2]] # Absent}
      BY <3>1 DEF Held
    <3>9. ASSUME NEW l \in {0} \cup Layers(c), NEW r \in Role
          PROVE  weights'[c][l][r] # Absent <=> (weights[c][l][r] # Absent \/ (l = 0 /\ r \in R))
      BY <1>5, <3>2, <3>3, <3>4, <3>5
    <3> QED BY <1>5, <3>6, <3>7, <3>8, <3>9
  <2>2. \A r \in R : <<0, r>> \notin Held(c)
    BY <1>9, <1>13 DEF Held, NoTensors
  <2>3. IsFiniteSet(Held(c)) BY <1>1, HeldFinite DEF Kept
  <2>4. IsFiniteSet(R) /\ IsFiniteSet(C) BY <1>9, TripleFinite, FS_Subset
  <2>5. /\ Cardinality(Held(c)') = Cardinality(Held(c)) + Cardinality(R)
        /\ Cardinality(Held(c)) \in Nat /\ Cardinality(R) \in Nat
    <3>1. PICK H : H = Held(c) OBVIOUS
    <3>2. IsFiniteSet(H) /\ \A r \in R : <<0, r>> \notin H BY <2>2, <2>3, <3>1
    <3>3. /\ Cardinality(H \cup ({0} \X R)) = Cardinality(H) + Cardinality(R)
          /\ Cardinality(H) \in Nat /\ Cardinality(R) \in Nat
      BY <2>4, <3>2, HeldMore
    <3> QED BY <2>1, <3>1, <3>3
  <2>6. ASSUME ~leaky'[c] PROVE Cardinality(C) + N = Cardinality(R)
    <3>1. ~leaky[c] /\ ~(L /\ C # {}) BY <1>4, <2>6
    <3>2. CASE L
      <4>1. C = {} /\ R = Triple BY <3>1, <3>2 DEF R
      <4>2. N = Cardinality(Triple) BY <3>2 DEF N, WholeTriple
      <4>3. Cardinality(C) = 0 BY <4>1, FS_EmptySet
      <4> QED BY <2>5, <4>1, <4>2, <4>3
    <3>3. CASE ~L
      <4>1. R = C BY <3>3 DEF R
      <4>2. N = 0
        <5>1. Present(layer, Triple) \in {{}, Triple} BY <1>1, <1>5, <3>1 DEF Kept, Whole
        <5>2. again(F) => Present(layer, Triple) = {} BY <3>3, <5>1 DEF WholeTriple
        <5> HIDE DEF again
        <5> QED BY <5>2, FS_EmptySet DEF N
      <4> QED BY <2>5, <4>1, <4>2
    <3> QED BY <3>2, <3>3
  <2>7. ~leaky'[c] => ~leaky[c] BY <1>4
  <2>8. ~leaky[c] => live[c] = Cardinality(Held(c)) BY <1>1 DEF Kept, Counted
  <2>9. Cardinality(C) \in Nat /\ N \in Nat
    <3>1. Present(layer, Triple) \in SUBSET Triple BY DEF Present
    <3>2. IsFiniteSet(Present(layer, Triple)) BY <3>1, TripleFinite, FS_Subset
    <3> HIDE DEF again
    <3> QED BY <2>4, <3>2, FS_CardinalityType DEF N
  <2>10. ~leaky'[c] => live'[c] = Cardinality(Held(c)') BY <1>4, <2>5, <2>6, <2>7, <2>8, <2>9
  <2> QED BY <2>10 DEF Counted
<1>19. \A d \in Context \ {c} : Same(d)
  <2> HIDE DEF made, again, cloned, layer
  <2> QED BY <1>1, <1>2, <1>3 DEF TypeInv, Same, policyVars
<1> QED BY <1>14, <1>15, <1>16, <1>17, <1>18, <1>19 DEF Kept

(* What normalising does to one tensor.                                    *)
LEMMA NormalizedTensor ==
  ASSUME Inv, NEW c \in Context, phase[c] = "copied", NEW l \in DOMAIN weights[c], NEW r \in Role,
         NEW t, t = weights[c][l][r], t # Absent, NEW u, NEW short \in BOOLEAN,
         IF ToTranspose(t, want[c][r]) /\ ~short THEN u = Transposed(t)
         ELSE IF force /\ r = "ffn" /\ t.type # "F32" /\ ~short THEN u = [t EXCEPT !.type = "F32"]
         ELSE u = t
  PROVE  /\ Shaped(u) /\ u # Absent
         /\ \/ IsSquare(u) /\ (short \/ (force /\ r = "ffn" /\ want[c][r]))
            \/ Arranged(u, IF u.type = "F32" THEN ~want[c][r] /\ own[c] ELSE want[c][r] \/ own[c])
<1> DEFINE w == want[c][r]
           o == w \/ own[c]
<1>1. Kept(c) /\ w \in BOOLEAN /\ own[c] \in BOOLEAN /\ ~(own[c] /\ w)
  BY DEF Inv, TypeInv, Kept, AllSound
<1>2. Arranged(t, o)
  BY <1>1 DEF Kept, AllSound, Sound, Excused, ByOutput, Normalized
<1>3. o \in BOOLEAN OBVIOUS
<1> HIDE DEF o
<1>4. CASE ToTranspose(t, w) /\ ~short
  <2>1. u = Transposed(t) /\ t.type = "F32" /\ (IsSquare(t) => w) BY <1>4 DEF ToTranspose
  <2>2. Arranged(u, ~o) /\ u.type = "F32" /\ (IsSquare(u) <=> IsSquare(t))
    BY <1>2, <1>3, <2>1, TransposedArranged
  <2>3. Arranged(u, ~w /\ own[c])
    <3>1. CASE IsSquare(u) BY <1>1, <2>1, <2>2, <3>1 DEF o
    <3>2. CASE ~IsSquare(u) BY <2>2, <3>2, RectangularArranged
    <3> QED BY <3>1, <3>2
  <2> QED BY <2>2, <2>3, LayoutAssumption DEF Arranged, Shaped
<1>5. CASE ~(ToTranspose(t, w) /\ ~short) /\ force /\ r = "ffn" /\ t.type # "F32" /\ ~short
  <2>1. u = [t EXCEPT !.type = "F32"] BY <1>5
  <2>2. Arranged(u, o) /\ u.type = "F32" BY <1>2, <1>3, <2>1, ForcedArranged
  <2>3. (IsSquare(u) /\ w) \/ Arranged(u, ~w /\ own[c])
    <3>1. CASE w BY <2>2, <3>1, RectangularArranged
    <3>2. CASE ~w BY <1>1, <2>2, <3>2 DEF o
    <3> QED BY <3>1, <3>2
  <2> QED BY <1>5, <2>2, <2>3, LayoutAssumption DEF Arranged, Shaped
<1>6. CASE ~(ToTranspose(t, w) /\ ~short) /\ ~(force /\ r = "ffn" /\ t.type # "F32" /\ ~short)
  <2>1. u = t BY <1>6
  <2>2. CASE ~IsSquare(u)
    BY <1>2, <2>1, <2>2, RectangularArranged, LayoutAssumption DEF Arranged, Shaped
  <2>3. CASE IsSquare(u) /\ ~short
    <3>1. u.type = "F32" => ~w BY <1>6, <2>1, <2>3 DEF ToTranspose
    <3>2. Arranged(u, IF u.type = "F32" THEN ~w /\ own[c] ELSE w \/ own[c])
      BY <1>1, <1>2, <2>1, <3>1 DEF o
    <3> QED BY <3>2, LayoutAssumption DEF Arranged, Shaped
  <2>4. CASE IsSquare(u) /\ short BY <1>2, <2>1, <2>4, LayoutAssumption DEF Arranged, Shaped
  <2> QED BY <2>2, <2>3, <2>4
<1> QED BY <1>4, <1>5, <1>6

(* Normalising leaves every tensor arranged for the product that will read *)
(* it, or excused, and no place gains or loses one.                        *)
LEMMA NormalizeStep ==
  ASSUME Inv, NEW c \in Context, Normalize(c)
  PROVE  TypeInv' /\ Kept(c)' /\ \A d \in Context \ {c} : Same(d)
<1>1. TypeInv /\ Kept(c) /\ phase[c] = "copied" BY DEF Inv, Normalize
<1> DEFINE turned == {p \in Held(c) : ToTranspose(weights[c][p[1]][p[2]], want[c][p[2]])}
           forced == {p \in Held(c) : force /\ p[2] = "ffn" /\ weights[c][p[1]][p[2]].type # "F32"}
           made(F) == [l \in DOMAIN weights[c] |-> [r \in Role |->
                IF <<l, r>> \in turned \ F THEN Transposed(weights[c][l][r])
                ELSE IF <<l, r>> \in forced \ F THEN [weights[c][l][r] EXCEPT !.type = "F32"]
                ELSE weights[c][l][r]]]
<1>2. PICK F : /\ weights' = [weights EXCEPT ![c] = made(F)]
               /\ failed' = [failed EXCEPT ![c] = @ \cup F]
  BY DEF Normalize
<1>3. phase' = [phase EXCEPT ![c] = "normal"] /\ UNCHANGED <<policyVars, file, want, own, live, leaky>>
  BY DEF Normalize
<1>4. /\ phase'[c] = "normal" /\ file' = file /\ want' = want /\ own' = own /\ force' = force
      /\ live' = live /\ leaky' = leaky /\ weights'[c] = made(F) /\ failed'[c] = failed[c] \cup F
      /\ Layers(c)' = Layers(c)
  <2> HIDE DEF made
  <2> QED BY <1>1, <1>2, <1>3 DEF TypeInv, policyVars, Layers
<1>5. weights[c] \in [{0} \cup Layers(c) -> [Role -> Matrix \cup {Absent}]]
  BY <1>1 DEF Kept, Stocked, Unread
<1>6. DOMAIN weights'[c] = DOMAIN weights[c] BY <1>4
<1>7. ASSUME NEW l \in DOMAIN weights[c], NEW r \in Role, NEW t, t = weights[c][l][r],
             NEW u, u = weights'[c][l][r]
      PROVE  IF t = Absent THEN u = Absent
             ELSE /\ Shaped(u) /\ u # Absent
                  /\ \/ IsSquare(u) /\ (<<l, r>> \in F \/ (force /\ r = "ffn" /\ want[c][r]))
                     \/ Arranged(u, IF u.type = "F32" THEN ~want[c][r] /\ own[c]
                                    ELSE want[c][r] \/ own[c])
  <2>1. u = IF <<l, r>> \in turned \ F THEN Transposed(t)
            ELSE IF <<l, r>> \in forced \ F THEN [t EXCEPT !.type = "F32"] ELSE t
    <3>1. made(F)[l] = [s \in Role |->
                IF <<l, s>> \in turned \ F THEN Transposed(weights[c][l][s])
                ELSE IF <<l, s>> \in forced \ F THEN [weights[c][l][s] EXCEPT !.type = "F32"]
                ELSE weights[c][l][s]]
      <4> HIDE DEF turned, forced
      <4> QED BY <1>7
    <3> HIDE DEF turned, forced, made
    <3> QED BY <1>4, <1>7, <3>1
  <2>2. <<l, r>> \in turned <=> t # Absent /\ ToTranspose(t, want[c][r]) BY <1>7 DEF Held
  <2>3. <<l, r>> \in forced <=> t # Absent /\ force /\ r = "ffn" /\ t.type # "F32" BY <1>7 DEF Held
  <2> HIDE DEF turned, forced, made
  <2>4. CASE t = Absent BY <2>1, <2>2, <2>3, <2>4
  <2>5. CASE t # Absent
    <3> DEFINE short == <<l, r>> \in F
    <3>1. short \in BOOLEAN OBVIOUS
    <3>2. IF ToTranspose(t, want[c][r]) /\ ~short THEN u = Transposed(t)
          ELSE IF force /\ r = "ffn" /\ t.type # "F32" /\ ~short THEN u = [t EXCEPT !.type = "F32"]
          ELSE u = t
      BY <2>1, <2>2, <2>3, <2>5
    <3> HIDE DEF short
    <3>3. /\ Shaped(u) /\ u # Absent
          /\ \/ IsSquare(u) /\ (short \/ (force /\ r = "ffn" /\ want[c][r]))
             \/ Arranged(u, IF u.type = "F32" THEN ~want[c][r] /\ own[c] ELSE want[c][r] \/ own[c])
      BY <1>1, <1>7, <2>5, <3>1, <3>2, NormalizedTensor
    <3> QED BY <2>5, <3>3 DEF short
  <2> QED BY <2>4, <2>5
<1>8. weights'[c] \in [{0} \cup Layers(c) -> [Role -> Matrix \cup {Absent}]]
  <2>1. ASSUME NEW l \in DOMAIN weights[c] PROVE weights'[c][l] \in [Role -> Matrix \cup {Absent}]
    <3>1. ASSUME NEW r \in Role PROVE weights'[c][l][r] \in Matrix \cup {Absent}
      <4>1. PICK t, u : t = weights[c][l][r] /\ u = weights'[c][l][r] OBVIOUS
      <4>2. u = Absent \/ Shaped(u) BY <1>7, <4>1
      <4> QED BY <4>1, <4>2 DEF Shaped
    <3>2. weights'[c][l] = [r \in Role |-> weights'[c][l][r]]
      <4> HIDE DEF turned, forced
      <4>1. weights'[c][l] = made(F)[l] BY <1>4
      <4>2. made(F)[l] = [r \in Role |-> made(F)[l][r]] OBVIOUS
      <4> HIDE DEF made
      <4> QED BY <4>1, <4>2
    <3> QED BY <3>1, <3>2
  <2>2. weights'[c] = [l \in DOMAIN weights[c] |-> weights'[c][l]]
    <3> HIDE DEF turned, forced
    <3> QED BY <1>4
  <2> QED BY <1>5, <2>1, <2>2
<1> HIDE DEF made, turned, forced
<1>9. TypeInv' BY <1>1, <1>2, <1>3 DEF TypeInv, policyVars
<1>10. Stocked(c)' BY <1>1, <1>4, <1>8 DEF Kept, Stocked, Unread
<1>11. AllSound(c)'
  <2>1. ASSUME NEW l \in DOMAIN weights'[c], NEW r \in Role, NEW u, u = weights'[c][l][r], u # Absent
        PROVE  Sound(c, l, r, u)'
    <3>1. PICK t : t = weights[c][l][r] OBVIOUS
    <3>2. /\ Shaped(u)
          /\ \/ IsSquare(u) /\ (<<l, r>> \in F \/ (force /\ r = "ffn" /\ want[c][r]))
             \/ Arranged(u, IF u.type = "F32" THEN ~want[c][r] /\ own[c]
                            ELSE want[c][r] \/ own[c])
      BY <1>6, <1>7, <2>1, <3>1
    <3>3. <<l, r>> \in F => <<l, r>> \in failed'[c] BY <1>4
    <3>4. Normalized(c)' BY <1>4 DEF Normalized
    <3>5. Shaped(u)' /\ ((IsSquare(u) /\ Excused(c, l, r))' \/ Arranged(u, ByOutput(c, r, u))')
      BY <1>4, <3>2, <3>3, <3>4 DEF Excused, ByOutput, Arranged, Shaped, LaidOut, IsSquare
    <3> QED BY <3>5 DEF Sound
  <2>2. \A l, r, t : t = weights'[c][l][r] => Sound(c, l, r, t)' = Sound(c, l, r, weights[c][l][r])'
    BY DEF Sound, Excused, ByOutput, Normalized, Arranged, Shaped, LaidOut, IsSquare
  <2>3. \A l \in DOMAIN weights'[c], r \in Role :
          weights'[c][l][r] # Absent => Sound(c, l, r, weights[c][l][r])'
    BY <2>1, <2>2
  <2>4. \A r \in Role : ~(own'[c] /\ want'[c][r]) BY <1>1, <1>4 DEF Kept, AllSound
  <2> QED BY <2>3, <2>4 DEF AllSound
<1>12. Whole(c)' BY <1>4 DEF Whole
<1>13. Counted(c)'
  <2>1. ASSUME NEW l \in DOMAIN weights[c], NEW r \in Role
        PROVE  weights'[c][l][r] # Absent <=> weights[c][l][r] # Absent
    BY <1>7
  <2>2. Held(c)' = Held(c) BY <1>6, <2>1 DEF Held
  <2> QED BY <1>1, <1>4, <2>2 DEF Kept, Counted
<1>14. \A d \in Context \ {c} : Same(d)
  BY <1>1, <1>2, <1>3 DEF TypeInv, Same, policyVars
<1> QED BY <1>9, <1>10, <1>11, <1>12, <1>13, <1>14 DEF Kept

-----------------------------------------------------------------------------
(* Theorems                                                                *)

(* At the start every context is closed and has no weights.                *)
LEMMA InvInit == Init => Inv
<1> SUFFICES ASSUME Init PROVE Inv OBVIOUS
<1>1. TypeInv BY DEF Init, TypeInv
<1>2. ASSUME NEW c \in Context PROVE Kept(c)
  <2>1. /\ phase[c] = "closed" /\ weights[c] = << >> /\ own[c] = FALSE
        /\ live[c] = 0
    BY DEF Init
  <2>2. Held(c) = {} BY <2>1 DEF Held
  <2>3. Counted(c) BY <2>1, <2>2, FS_EmptySet DEF Counted
  <2> QED BY <2>1, <2>3 DEF Kept, Stocked, Unread, AllSound, Whole
<1> QED BY <1>1, <1>2 DEF Inv

(* A step of one context keeps the invariant of all.                       *)
LEMMA InvStep == Inv /\ [Next]_vars => Inv'
<1> SUFFICES ASSUME Inv, [Next]_vars PROVE Inv' OBVIOUS
<1>1. ASSUME NEW c \in Context, TypeInv', Kept(c)', \A d \in Context \ {c} : Same(d)
      PROVE  Inv'
  <2>1. \A d \in Context \ {c} : Kept(d)' BY <1>1, SameKept DEF Inv
  <2> QED BY <1>1, <2>1 DEF Inv
<1>2. ASSUME NEW c \in Context,
             \/ \E f \in Files, order \in Orders \cup {NoOrder} : SetPolicy(c, f, order)
             \/ Load(c) \/ CopyTriple(c) \/ Refuse(c) \/ Normalize(c) \/ SetFlags(c) \/ Close(c)
      PROVE  Inv'
  <2>1. CASE \E f \in Files, order \in Orders \cup {NoOrder} : SetPolicy(c, f, order)
    BY <1>1, <2>1, SetPolicyStep
  <2>2. CASE Load(c) BY <1>1, <2>2, LoadStep
  <2>3. CASE CopyTriple(c) BY <1>1, <2>3, CopyTripleStep
  <2>4. CASE Refuse(c) \/ Close(c) BY <1>1, <2>4, DiscardStep DEF Refuse, Close
  <2>5. CASE Normalize(c) BY <1>1, <2>5, NormalizeStep
  <2>6. CASE SetFlags(c) BY <1>1, <2>6, SetFlagsStep
  <2> QED BY <1>2, <2>1, <2>2, <2>3, <2>4, <2>5, <2>6
<1>3. CASE UNCHANGED vars
  <2>1. TypeInv' BY <1>3 DEF Inv, TypeInv, vars, policyVars, ctxVars
  <2>2. \A c \in Context : Same(c) BY <1>3 DEF Same, vars, policyVars, ctxVars
  <2>3. \A c \in Context : Kept(c)' BY <2>2, SameKept DEF Inv
  <2> QED BY <2>1, <2>3 DEF Inv
<1> QED BY <1>2, <1>3 DEF Next

(* The invariant holds in every reachable state.                           *)
THEOREM Invariance == Spec => []Inv
BY InvInit, InvStep, PTL DEF Spec

(* The product with a rectangular weight reads output by input what it     *)
(* should, whatever other contexts have set the flags and the preference   *)
(* of the process to, whichever transposition failed, on either backend;   *)
(* the case the property leaves out is an F32 weight that the CPU reads by *)
(* columns.                                                                *)
THEOREM RectangularByItsShape == Spec => []RectangularByShape
<1>1. Inv => RectangularByShape
  <2> SUFFICES ASSUME Inv, NEW c \in Context, NEW engine \in {"CPU", "CUDA"}, phase[c] = "open",
                      NEW l \in DOMAIN weights[c], NEW r \in Role, NEW t,
                      t = weights[c][l][r], t # Absent, ~IsSquare(t), ~ByColumns(t, r, engine)
               PROVE  Product(t, flags[r], engine) = Meant(t)
    BY DEF RectangularByShape, Weight
  <2>1. Sound(c, l, r, t) BY DEF Inv, Kept, AllSound
  <2>2. Arranged(t, TRUE) BY <2>1, RectangularArranged DEF Sound
  <2>3. flags[r] \in BOOLEAN /\ prefer \in BOOLEAN BY DEF Inv, TypeInv
  <2>4. ~(engine = "CPU" /\ t.type = "F32" /\ Path(t, flags[r]) = "rhs") BY DEF ByColumns
  <2> QED BY <2>2, <2>3, <2>4, ArrangedProduct
<1> QED BY <1>1, Invariance, PTL

(* The product with a square weight reads what it should while the flags   *)
(* and the preference of the process are those of the weight's own         *)
(* context, in any mixture of F32 and quantized layers.                    *)
THEOREM SquareByItsOwnFlags == Spec => []SquareByOwnFlags
<1>1. Inv => SquareByOwnFlags
  <2> SUFFICES ASSUME Inv, NEW c \in Context, NEW engine \in {"CPU", "CUDA"}, phase[c] = "open",
                      NEW l \in DOMAIN weights[c], NEW r \in Role, NEW t,
                      t = weights[c][l][r], t # Absent, IsSquare(t), ~ByColumns(t, r, engine),
                      prefer = own[c], flags[r] = OwnFlag(c, r),
                      <<l, r>> \notin failed[c], ~(force /\ r = "ffn" /\ want[c][r])
               PROVE  Product(t, flags[r], engine) = Meant(t)
    BY DEF SquareByOwnFlags, Weight
  <2>1. Sound(c, l, r, t) BY DEF Inv, Kept, AllSound
  <2> DEFINE o == ByOutput(c, r, t)
  <2>2. want[c][r] \in BOOLEAN /\ own[c] \in BOOLEAN /\ ~(own[c] /\ want[c][r])
    BY DEF Inv, TypeInv, Kept, AllSound
  <2>3. Arranged(t, o) BY <2>1 DEF Sound, Excused
  <2>4. o \in BOOLEAN /\ o = IF t.type = "F32" THEN ~want[c][r] /\ own[c] ELSE want[c][r] \/ own[c]
    BY <2>2 DEF ByOutput, Normalized
  <2>5. flags[r] \in BOOLEAN /\ prefer \in BOOLEAN BY DEF Inv, TypeInv
  <2>6. ~(engine = "CPU" /\ t.type = "F32" /\ Path(t, flags[r]) = "rhs") BY DEF ByColumns
  <2>7. t.rows = Dim /\ t.cols = Dim BY DEF IsSquare
  <2>8. t.type # "F32" => (flags[r] <=> want[c][r]) BY DEF OwnFlag
  <2>9. o <=> Path(t, flags[r]) = "rhs"
    <3> HIDE DEF o
    <3>1. CASE t.type = "F32" BY <2>2, <2>4, <2>7, <3>1 DEF Path
    <3>2. CASE t.type # "F32" BY <2>2, <2>4, <2>7, <2>8, <3>2 DEF Path
    <3> QED BY <3>1, <3>2
  <2> HIDE DEF o
  <2> QED BY <2>3, <2>4, <2>5, <2>6, <2>9, ArrangedProduct
<1> QED BY <1>1, Invariance, PTL

(* What an opening has allocated and not freed is what the context holds,  *)
(* and nothing once it is refused or closed, unless its file had half a    *)
(* triple or clones were replaced.                                         *)
THEOREM NothingElseLeaks == Spec => []OpeningLeaksOnlyParts
<1>1. Inv => OpeningLeaksOnlyParts BY DEF Inv, Kept, Counted, OpeningLeaksOnlyParts
<1> QED BY <1>1, Invariance, PTL

-----------------------------------------------------------------------------
(* Half-precision factors: the two conversions from them are one, and      *)
(* exact; the one back rounds to the nearest.                              *)

(* The powers that occur.                                                  *)
LEMMA Powers ==
  ASSUME NEW t
  PROVE  /\ (t = 0 => 2^t = 1)
         /\ (t = 1 => 2^t = 2)
         /\ (t = 2 => 2^t = 4)
         /\ (t = 3 => 2^t = 8)
         /\ (t = 4 => 2^t = 16)
         /\ (t = 5 => 2^t = 32)
         /\ (t = 6 => 2^t = 64)
         /\ (t = 7 => 2^t = 128)
         /\ (t = 8 => 2^t = 256)
         /\ (t = 9 => 2^t = 512)
         /\ (t = 10 => 2^t = 1024)
         /\ (t = 11 => 2^t = 2048)
         /\ (t = 12 => 2^t = 4096)
         /\ (t = 13 => 2^t = 8192)
         /\ (t = 14 => 2^t = 8192 * 2)
         /\ (t = 15 => 2^t = 8192 * 4)
         /\ (t = 16 => 2^t = 8192 * 8)
         /\ (t = 17 => 2^t = 8192 * 16)
         /\ (t = 18 => 2^t = 8192 * 32)
         /\ (t = 19 => 2^t = 8192 * 64)
         /\ (t = 20 => 2^t = 8192 * 128)
         /\ (t = 21 => 2^t = 8192 * 256)
         /\ (t = 22 => 2^t = 8192 * 512)
         /\ (t = 23 => 2^t = 8192 * 1024)
         /\ (t = 24 => 2^t = 8192 * 2048)
         /\ (t = 25 => 2^t = 8192 * 4096)
<1>0. t = 0 => 2^t = 1 BY SMT
<1>1. t = 1 => 2^t = 2 BY SMT
<1>2. t = 2 => 2^t = 4 BY SMT
<1>3. t = 3 => 2^t = 8 BY SMT
<1>4. t = 4 => 2^t = 16 BY SMT
<1>5. t = 5 => 2^t = 32 BY SMT
<1>6. t = 6 => 2^t = 64 BY SMT
<1>7. t = 7 => 2^t = 128 BY SMT
<1>8. t = 8 => 2^t = 256 BY SMT
<1>9. t = 9 => 2^t = 512 BY SMT
<1>10. t = 10 => 2^t = 1024 BY SMT
<1>11. t = 11 => 2^t = 2048 BY SMT
<1>12. t = 12 => 2^t = 4096 BY SMT
<1>13. t = 13 => 2^t = 8192 BY SMT
<1>14. t = 14 => 2^t = 8192 * 2 BY SMT
<1>15. t = 15 => 2^t = 8192 * 4 BY SMT
<1>16. t = 16 => 2^t = 8192 * 8 BY SMT
<1>17. t = 17 => 2^t = 8192 * 16 BY SMT
<1>18. t = 18 => 2^t = 8192 * 32 BY SMT
<1>19. t = 19 => 2^t = 8192 * 64 BY SMT
<1>20. t = 20 => 2^t = 8192 * 128 BY SMT
<1>21. t = 21 => 2^t = 8192 * 256 BY SMT
<1>22. t = 22 => 2^t = 8192 * 512 BY SMT
<1>23. t = 23 => 2^t = 8192 * 1024 BY SMT
<1>24. t = 24 => 2^t = 8192 * 2048 BY SMT
<1>25. t = 25 => 2^t = 8192 * 4096 BY SMT
<1> QED BY <1>0, <1>1, <1>2, <1>3, <1>4, <1>5, <1>6, <1>7, <1>8, <1>9, <1>10, <1>11, <1>12,
           <1>13, <1>14, <1>15, <1>16, <1>17, <1>18, <1>19, <1>20, <1>21, <1>22, <1>23,
           <1>24, <1>25, SMT

(* The fields of a half.                                                   *)
LEMMA HalfFields ==
  ASSUME NEW h \in Half
  PROVE  /\ h.sign \in 0..1 /\ h.exp \in Nat /\ h.exp <= 31
         /\ h.frac \in Nat /\ h.frac < 1024
<1>1. 2^10 = 1024 BY Powers, SMT
<1>2. h.sign \in 0..1 /\ h.exp \in 0..31 /\ h.frac \in 0..(2^10 - 1) BY DEF Half
<1> QED BY <1>1, <1>2, SMT

(* The loop that normalises a subnormal ends with the leading bit in place.*)
LEMMA TurnsExist ==
  ASSUME NEW f \in Int, 1 <= f, f < 1024
  PROVE  \E t \in 0..10 : f * 2^t \in 2^10..(2^11 - 1)
<1>0. 2^10 = 1024 /\ 2^11 = 2048 BY Powers, SMT
<1>1. CASE 512 <= f /\ f < 1024
  <2>1. 2^1 = 2 BY Powers, SMT
  <2>2. f * 2^1 \in 2^10..(2^11 - 1) BY <1>0, <1>1, <2>1, SMT
  <2> QED BY <2>2
<1>2. CASE 256 <= f /\ f < 512
  <2>1. 2^2 = 4 BY Powers, SMT
  <2>2. f * 2^2 \in 2^10..(2^11 - 1) BY <1>0, <1>2, <2>1, SMT
  <2> QED BY <2>2
<1>3. CASE 128 <= f /\ f < 256
  <2>1. 2^3 = 8 BY Powers, SMT
  <2>2. f * 2^3 \in 2^10..(2^11 - 1) BY <1>0, <1>3, <2>1, SMT
  <2> QED BY <2>2
<1>4. CASE 64 <= f /\ f < 128
  <2>1. 2^4 = 16 BY Powers, SMT
  <2>2. f * 2^4 \in 2^10..(2^11 - 1) BY <1>0, <1>4, <2>1, SMT
  <2> QED BY <2>2
<1>5. CASE 32 <= f /\ f < 64
  <2>1. 2^5 = 32 BY Powers, SMT
  <2>2. f * 2^5 \in 2^10..(2^11 - 1) BY <1>0, <1>5, <2>1, SMT
  <2> QED BY <2>2
<1>6. CASE 16 <= f /\ f < 32
  <2>1. 2^6 = 64 BY Powers, SMT
  <2>2. f * 2^6 \in 2^10..(2^11 - 1) BY <1>0, <1>6, <2>1, SMT
  <2> QED BY <2>2
<1>7. CASE 8 <= f /\ f < 16
  <2>1. 2^7 = 128 BY Powers, SMT
  <2>2. f * 2^7 \in 2^10..(2^11 - 1) BY <1>0, <1>7, <2>1, SMT
  <2> QED BY <2>2
<1>8. CASE 4 <= f /\ f < 8
  <2>1. 2^8 = 256 BY Powers, SMT
  <2>2. f * 2^8 \in 2^10..(2^11 - 1) BY <1>0, <1>8, <2>1, SMT
  <2> QED BY <2>2
<1>9. CASE 2 <= f /\ f < 4
  <2>1. 2^9 = 512 BY Powers, SMT
  <2>2. f * 2^9 \in 2^10..(2^11 - 1) BY <1>0, <1>9, <2>1, SMT
  <2> QED BY <2>2
<1>10. CASE 1 <= f /\ f < 2
  <2>1. 2^10 = 1024 BY Powers, SMT
  <2>2. f * 2^10 \in 2^10..(2^11 - 1) BY <1>0, <1>10, <2>1, SMT
  <2> QED BY <2>2
<1>11. \/ 512 <= f /\ f < 1024
       \/ 256 <= f /\ f < 512
       \/ 128 <= f /\ f < 256
       \/ 64 <= f /\ f < 128
       \/ 32 <= f /\ f < 64
       \/ 16 <= f /\ f < 32
       \/ 8 <= f /\ f < 16
       \/ 4 <= f /\ f < 8
       \/ 2 <= f /\ f < 4
       \/ 1 <= f /\ f < 2
  BY SMT
<1> QED BY <1>1, <1>2, <1>3, <1>4, <1>5, <1>6, <1>7, <1>8, <1>9, <1>10, <1>11

(* The number of turns chosen is one that puts the leading bit in place.   *)
LEMMA TurnsChosen ==
  ASSUME NEW f, \E t \in 0..10 : f * 2^t \in 2^10..(2^11 - 1)
  PROVE  Turns(f) \in 0..10 /\ f * 2^Turns(f) \in 2^10..(2^11 - 1)
BY Zenon DEF Turns

(* A subnormal fraction takes one to ten turns, and has its leading bit in *)
(* place after them.                                                       *)
LEMMA TurnsNormalise ==
  ASSUME NEW f \in Int, 1 <= f, f < 1024
  PROVE  /\ Turns(f) \in 1..10 /\ f * 2^Turns(f) \in Int
         /\ 1024 <= f * 2^Turns(f) /\ f * 2^Turns(f) < 2048
<1> DEFINE t == Turns(f)
<1>1. t \in 0..10 /\ f * 2^t \in 2^10..(2^11 - 1) BY TurnsExist, TurnsChosen
<1> HIDE DEF t
<1>2. 2^10 = 1024 /\ 2^11 = 2048 BY Powers, SMT
<1>3. f * 2^t \in Int /\ 1024 <= f * 2^t /\ f * 2^t < 2048
  <2> DEFINE x == f * 2^t
             lo == 2^10
             hi == 2^11
  <2>1. x \in lo..(hi - 1) /\ lo = 1024 /\ hi = 2048 BY <1>1, <1>2
  <2> HIDE DEF x, lo, hi
  <2>2. x \in Int /\ 1024 <= x /\ x < 2048
    <3>1. lo \in Int /\ hi \in Int BY <2>1, SMT
    <3> QED BY <2>1, <3>1, SMT
  <2> QED BY <2>2 DEF x
<1>4. t # 0
  <2>1. t = 0 => 2^t = 1 BY Powers
  <2>2. t = 0 => f * 2^t = f BY <2>1, SMT
  <2> QED BY <1>3, <2>2, SMT
<1>5. t \in 1..10 BY <1>1, <1>4, SMT
<1> QED BY <1>3, <1>5 DEF t

(* The device's exponent wraps to the one the host counts.                 *)
LEMMA ExponentWraps ==
  ASSUME NEW t \in 1..10
  PROVE  /\ (((1 - t) % 512) + (127 - 15)) % 512 = 113 - t
         /\ ((-14 - t) + 127) % 512 = 113 - t
OBVIOUS

(* The conversions case by case.                                           *)
LEMMA Conversions ==
  ASSUME NEW h
  PROVE  /\ h.exp = 0 /\ h.frac = 0 =>
              HostFloat(h) = Word(h.sign, 0, 0) /\ DeviceFloat(h) = Word(h.sign, 0, 0)
         /\ h.exp = 0 /\ h.frac # 0 =>
              /\ HostFloat(h) = Word(h.sign, (-14 - Turns(h.frac)) + 127, Normalised(h.frac))
              /\ DeviceFloat(h) = Word(h.sign, ((1 - Turns(h.frac)) % 512) + (127 - 15),
                                       Normalised(h.frac))
         /\ h.exp = 31 =>
              HostFloat(h) = Word(h.sign, 255, h.frac) /\ DeviceFloat(h) = HostFloat(h)
         /\ h.exp # 0 /\ h.exp # 31 =>
              /\ HostFloat(h) = Word(h.sign, h.exp + 112, h.frac)
              /\ DeviceFloat(h) = Word(h.sign, h.exp + (127 - 15), h.frac)
BY DEF HostFloat, DeviceFloat

(* The two conversions of a half are one function.                         *)
LEMMA SameConversion == ASSUME NEW h \in Half PROVE DeviceFloat(h) = HostFloat(h)
<1>0. h.sign \in 0..1 /\ h.exp \in Int /\ h.frac \in Nat /\ h.frac < 1024 BY HalfFields
<1>1. CASE h.exp = 0 /\ h.frac = 0 BY <1>1 DEF DeviceFloat, HostFloat
<1>2. CASE h.exp = 0 /\ h.frac # 0
  <2> DEFINE t == Turns(h.frac)
             e == ((1 - t) % 512) + (127 - 15)
             i == (-14 - t) + 127
  <2>1. h.frac \in Int /\ 1 <= h.frac /\ h.frac < 1024 BY <1>0, <1>2, SMT
  <2>10. t \in 1..10 BY <2>1, TurnsNormalise
  <2>2. e % 512 = i % 512 BY <2>10, ExponentWraps
  <2> HIDE DEF t, e, i
  <2>3. Word(h.sign, e, Normalised(h.frac)) = Word(h.sign, i, Normalised(h.frac))
    BY <2>2 DEF Word
  <2>4. DeviceFloat(h) = Word(h.sign, e, Normalised(h.frac))
    BY <1>2, Conversions DEF e, t
  <2>5. HostFloat(h) = Word(h.sign, i, Normalised(h.frac))
    BY <1>2, Conversions DEF i, t
  <2> QED BY <2>3, <2>4, <2>5
<1>3. CASE h.exp = 31 BY <1>3 DEF DeviceFloat, HostFloat
<1>4. CASE h.exp # 0 /\ h.exp # 31
  <2>1. DeviceFloat(h) = Word(h.sign, h.exp + (127 - 15), h.frac) BY <1>4, Conversions
  <2>2. HostFloat(h) = Word(h.sign, h.exp + 112, h.frac) BY <1>4, Conversions
  <2>3. h.exp + (127 - 15) = h.exp + 112 BY <1>0
  <2> QED BY <2>1, <2>2, <2>3
<1> QED BY <1>1, <1>2, <1>3, <1>4

(* ... and that function gives every finite half its exact value.          *)
LEMMA ExactConversion ==
  ASSUME NEW h \in Half, h.exp < 31
  PROVE  SameValue(HostFloat(h), h)
<1>0. h.sign \in 0..1 /\ h.exp \in Nat /\ h.frac \in Nat /\ h.frac < 1024 BY HalfFields
<1>1. CASE h.exp = 0 /\ h.frac = 0
  <2>1. HostFloat(h) = Word(h.sign, 0, 0) BY <1>1, Conversions
  <2>2. Word(h.sign, 0, 0) = [sign |-> h.sign, exp |-> 0, frac |-> 0]
    BY <1>0 DEF Word
  <2> QED BY <1>1, <2>1, <2>2, Powers DEF SameValue
<1>2. CASE h.exp = 0 /\ h.frac # 0
  <2> DEFINE t == Turns(h.frac)
             x == h.frac * 2^t
             n == Normalised(h.frac)
             w == Word(h.sign, (-14 - t) + 127, n)
  <2>1. h.frac \in Int /\ 1 <= h.frac /\ h.frac < 1024 BY <1>0, <1>2, SMT
  <2>2. t \in 1..10 /\ x \in Int /\ 1024 <= x /\ x < 2048 BY <2>1, TurnsNormalise
  <2>3. n = x % 1024 BY DEF Normalised
  <2>4. HostFloat(h) = w BY <1>2, Conversions
  <2>5. ((-14 - t) + 127) % 512 = 113 - t BY <2>2, ExponentWraps
  <2> HIDE DEF t, x, n
  <2>7. n = x - 1024 /\ n \in Nat BY <2>2, <2>3, SMT
  <2>8. w = [sign |-> h.sign, exp |-> 113 - t, frac |-> n * 8192]
    BY <1>0, <2>2, <2>5, Powers DEF Word
  <2> HIDE DEF w
  <2>9. (n * 8192) \div 8192 = n /\ (n * 8192) % 8192 = 0 BY <2>7
  <2>10. 113 - (113 - t) = t /\ 113 - t \in 103..112 BY <2>2
  <2>11. 1024 + n = x BY <2>2, <2>7
  <2>12. w.sign = h.sign /\ w.exp = 113 - t /\ w.frac = n * 8192 BY <2>8
  <2>13. 2^13 = 8192 OBVIOUS
  <2>14. w.frac % 2^13 = 0 BY <2>9, <2>12, <2>13
  <2>15. 1024 + (w.frac \div 2^13) = x BY <2>9, <2>11, <2>12, <2>13
  <2>16. w.exp \in 103..112 BY <2>10, <2>12
  <2>17. h.frac * 2^(113 - w.exp) = x
    <3>1. 113 - w.exp = t BY <2>10, <2>12
    <3> QED BY <3>1 DEF x
  <2>18. SameValue(w, h) BY <1>2, <2>12, <2>14, <2>15, <2>16, <2>17 DEF SameValue
  <2> QED BY <2>4, <2>18
<1>3. CASE h.exp # 0
  <2>1. HostFloat(h) = Word(h.sign, h.exp + 112, h.frac) BY <1>0, <1>3, Conversions
  <2>2. Word(h.sign, h.exp + 112, h.frac)
          = [sign |-> h.sign, exp |-> h.exp + 112, frac |-> h.frac * 8192]
    BY <1>0, Powers DEF Word
  <2>3. (h.frac * 8192) \div 8192 = h.frac /\ (h.frac * 8192) % 8192 = 0 BY <1>0
  <2> QED BY <1>0, <1>3, <2>1, <2>2, <2>3, Powers DEF SameValue
<1> QED BY <1>1, <1>2, <1>3

(* A quotient is kept when both sides are multiplied.                      *)
LEMMA Multiplied ==
  ASSUME NEW x \in Nat, NEW n \in Nat \ {0}, NEW k \in Nat \ {0}
  PROVE  (x * k) \div (n * k) = x \div n
<1> DEFINE q == x \div n
           r == x % n
           y == x * k
           m == n * k
           s == y \div m
           u == y % m
<1>1. q \in Nat /\ r \in 0..n - 1 /\ x = n * q + r BY Division
<1>2. y \in Nat /\ m \in Nat \ {0} OBVIOUS
<1> HIDE DEF s, u, q, r
<1>3. s \in Nat /\ u \in 0..m - 1 /\ y = m * s + u BY <1>2, Division DEF s, u
<1>4. r * k \in 0..m - k /\ r * k < m
  <2>1. (n - 1 - r) * k >= 0 BY <1>1
  <2> QED BY <1>1, <2>1
<1>5. y = m * q + r * k BY <1>1
<1> HIDE DEF m, y
<1>6. m * (q - s) = u - r * k BY <1>1, <1>2, <1>3, <1>5
<1>7. m * (q - s) < m /\ m * (q - s) > -m
  <2> DEFINE w == r * k
  <2>1. w \in Int BY <1>1
  <2> HIDE DEF w
  <2> QED BY <1>2, <1>3, <1>4, <1>6, <2>1 DEF w
<1>8. q = s
  <2>1. CASE q - s >= 1
    <3>1. m * (q - s) >= m BY <1>1, <1>2, <1>3, <2>1
    <3> QED BY <1>1, <1>2, <1>3, <1>7, <3>1
  <2>2. CASE q - s <= -1
    <3>1. m * (q - s) <= -m BY <1>1, <1>2, <1>3, <2>2
    <3> QED BY <1>1, <1>2, <1>3, <1>7, <3>1
  <2> QED BY <1>1, <1>3, <2>1, <2>2
<1> QED BY <1>8 DEF q, s, m, y

(* Dropping thirteen bits of a whole and a rest, rounding up from the      *)
(* middle.                                                                 *)
LEMMA RestRounded ==
  ASSUME NEW n \in Nat, NEW r \in Nat, r < 8192, NEW x, x = n * 8192 + r
  PROVE  (x \div 8192) + ((x \div 4096) % 2) = IF r < 4096 THEN n ELSE n + 1
<1>1. x \div 8192 = n BY SMT
<1>2. CASE r < 4096
  <2>1. x \div 4096 = 2 * n BY <1>2, SMT
  <2>2. (2 * n) % 2 = 0 BY SMT
  <2> QED BY <1>1, <1>2, <2>1, <2>2, SMT
<1>3. CASE r >= 4096
  <2>1. x \div 4096 = 2 * n + 1 BY <1>3, SMT
  <2>2. (2 * n + 1) % 2 = 1 BY SMT
  <2> QED BY <1>1, <1>3, <2>1, <2>2, SMT
<1> QED BY <1>2, <1>3, SMT

(* The shifts of a subnormal, by the place of its leading bit.             *)
ShiftedBy(p, k) == /\ 2^(23 - p) = k /\ 2^(36 - p) = 8192 * k
                   /\ 2^(35 - p) = 4096 * k /\ 2^p * k = 2^23

(* For each place of the leading bit there is one factor all the shifts    *)
(* share.                                                                  *)
LEMMA Shifts == ASSUME NEW p \in 13..22 PROVE \E k \in Nat \ {0} : ShiftedBy(p, k)
<1>1. CASE p = 13
  <2>1. 23 - p = 10 /\ 36 - p = 23 /\ 35 - p = 22 BY <1>1, SMT
  <2>2. 2^(23 - p) = 1024 /\ 2^(36 - p) = 8192 * 1024 /\ 2^(35 - p) = 4096 * 1024
    BY <2>1, Powers, SMT
  <2>3. 2^p = 8192 BY <1>1, Powers, SMT
  <2>4. 2^23 = 8192 * 1024 BY Powers, SMT
  <2>5. 2^p * 1024 = 2^23 BY <2>3, <2>4, SMT
  <2>6. 1024 \in Nat \ {0} BY SMT
  <2> QED BY <2>2, <2>5, <2>6, SMT DEF ShiftedBy
<1>2. CASE p = 14
  <2>1. 23 - p = 9 /\ 36 - p = 22 /\ 35 - p = 21 BY <1>2, SMT
  <2>2. 2^(23 - p) = 512 /\ 2^(36 - p) = 8192 * 512 /\ 2^(35 - p) = 4096 * 512
    BY <2>1, Powers, SMT
  <2>3. 2^p = 8192 * 2 BY <1>2, Powers, SMT
  <2>4. 2^23 = 8192 * 1024 BY Powers, SMT
  <2>5. 2^p * 512 = 2^23 BY <2>3, <2>4, SMT
  <2>6. 512 \in Nat \ {0} BY SMT
  <2> QED BY <2>2, <2>5, <2>6, SMT DEF ShiftedBy
<1>3. CASE p = 15
  <2>1. 23 - p = 8 /\ 36 - p = 21 /\ 35 - p = 20 BY <1>3, SMT
  <2>2. 2^(23 - p) = 256 /\ 2^(36 - p) = 8192 * 256 /\ 2^(35 - p) = 4096 * 256
    BY <2>1, Powers, SMT
  <2>3. 2^p = 8192 * 4 BY <1>3, Powers, SMT
  <2>4. 2^23 = 8192 * 1024 BY Powers, SMT
  <2>5. 2^p * 256 = 2^23 BY <2>3, <2>4, SMT
  <2>6. 256 \in Nat \ {0} BY SMT
  <2> QED BY <2>2, <2>5, <2>6, SMT DEF ShiftedBy
<1>4. CASE p = 16
  <2>1. 23 - p = 7 /\ 36 - p = 20 /\ 35 - p = 19 BY <1>4, SMT
  <2>2. 2^(23 - p) = 128 /\ 2^(36 - p) = 8192 * 128 /\ 2^(35 - p) = 4096 * 128
    BY <2>1, Powers, SMT
  <2>3. 2^p = 8192 * 8 BY <1>4, Powers, SMT
  <2>4. 2^23 = 8192 * 1024 BY Powers, SMT
  <2>5. 2^p * 128 = 2^23 BY <2>3, <2>4, SMT
  <2>6. 128 \in Nat \ {0} BY SMT
  <2> QED BY <2>2, <2>5, <2>6, SMT DEF ShiftedBy
<1>5. CASE p = 17
  <2>1. 23 - p = 6 /\ 36 - p = 19 /\ 35 - p = 18 BY <1>5, SMT
  <2>2. 2^(23 - p) = 64 /\ 2^(36 - p) = 8192 * 64 /\ 2^(35 - p) = 4096 * 64
    BY <2>1, Powers, SMT
  <2>3. 2^p = 8192 * 16 BY <1>5, Powers, SMT
  <2>4. 2^23 = 8192 * 1024 BY Powers, SMT
  <2>5. 2^p * 64 = 2^23 BY <2>3, <2>4, SMT
  <2>6. 64 \in Nat \ {0} BY SMT
  <2> QED BY <2>2, <2>5, <2>6, SMT DEF ShiftedBy
<1>6. CASE p = 18
  <2>1. 23 - p = 5 /\ 36 - p = 18 /\ 35 - p = 17 BY <1>6, SMT
  <2>2. 2^(23 - p) = 32 /\ 2^(36 - p) = 8192 * 32 /\ 2^(35 - p) = 4096 * 32
    BY <2>1, Powers, SMT
  <2>3. 2^p = 8192 * 32 BY <1>6, Powers, SMT
  <2>4. 2^23 = 8192 * 1024 BY Powers, SMT
  <2>5. 2^p * 32 = 2^23 BY <2>3, <2>4, SMT
  <2>6. 32 \in Nat \ {0} BY SMT
  <2> QED BY <2>2, <2>5, <2>6, SMT DEF ShiftedBy
<1>7. CASE p = 19
  <2>1. 23 - p = 4 /\ 36 - p = 17 /\ 35 - p = 16 BY <1>7, SMT
  <2>2. 2^(23 - p) = 16 /\ 2^(36 - p) = 8192 * 16 /\ 2^(35 - p) = 4096 * 16
    BY <2>1, Powers, SMT
  <2>3. 2^p = 8192 * 64 BY <1>7, Powers, SMT
  <2>4. 2^23 = 8192 * 1024 BY Powers, SMT
  <2>5. 2^p * 16 = 2^23 BY <2>3, <2>4, SMT
  <2>6. 16 \in Nat \ {0} BY SMT
  <2> QED BY <2>2, <2>5, <2>6, SMT DEF ShiftedBy
<1>8. CASE p = 20
  <2>1. 23 - p = 3 /\ 36 - p = 16 /\ 35 - p = 15 BY <1>8, SMT
  <2>2. 2^(23 - p) = 8 /\ 2^(36 - p) = 8192 * 8 /\ 2^(35 - p) = 4096 * 8
    BY <2>1, Powers, SMT
  <2>3. 2^p = 8192 * 128 BY <1>8, Powers, SMT
  <2>4. 2^23 = 8192 * 1024 BY Powers, SMT
  <2>5. 2^p * 8 = 2^23 BY <2>3, <2>4, SMT
  <2>6. 8 \in Nat \ {0} BY SMT
  <2> QED BY <2>2, <2>5, <2>6, SMT DEF ShiftedBy
<1>9. CASE p = 21
  <2>1. 23 - p = 2 /\ 36 - p = 15 /\ 35 - p = 14 BY <1>9, SMT
  <2>2. 2^(23 - p) = 4 /\ 2^(36 - p) = 8192 * 4 /\ 2^(35 - p) = 4096 * 4
    BY <2>1, Powers, SMT
  <2>3. 2^p = 8192 * 256 BY <1>9, Powers, SMT
  <2>4. 2^23 = 8192 * 1024 BY Powers, SMT
  <2>5. 2^p * 4 = 2^23 BY <2>3, <2>4, SMT
  <2>6. 4 \in Nat \ {0} BY SMT
  <2> QED BY <2>2, <2>5, <2>6, SMT DEF ShiftedBy
<1>10. CASE p = 22
  <2>1. 23 - p = 1 /\ 36 - p = 14 /\ 35 - p = 13 BY <1>10, SMT
  <2>2. 2^(23 - p) = 2 /\ 2^(36 - p) = 8192 * 2 /\ 2^(35 - p) = 4096 * 2
    BY <2>1, Powers, SMT
  <2>3. 2^p = 8192 * 512 BY <1>10, Powers, SMT
  <2>4. 2^23 = 8192 * 1024 BY Powers, SMT
  <2>5. 2^p * 2 = 2^23 BY <2>3, <2>4, SMT
  <2>6. 2 \in Nat \ {0} BY SMT
  <2> QED BY <2>2, <2>5, <2>6, SMT DEF ShiftedBy
<1>11. p = 13 \/ p = 14 \/ p = 15 \/ p = 16 \/ p = 17 \/ p = 18 \/ p = 19
         \/ p = 20 \/ p = 21 \/ p = 22 BY SMT
<1> QED BY <1>1, <1>2, <1>3, <1>4, <1>5, <1>6, <1>7, <1>8, <1>9, <1>10, <1>11

(* A number of 14 to 23 bits has a leading one.                            *)
HasTopBit(x) == \E p \in 0..22 : x \in 2^p..(2^(p + 1) - 1)

(* A subnormal and its rest have the leading bit the conversion looks for. *)
LEMMA LeadingPlace ==
  ASSUME NEW n \in Nat, 1 <= n, n < 1024, NEW r \in Nat, r < 8192,
         NEW x, x = n * 8192 + r
  PROVE  HasTopBit(x)
<1> DEFINE Place(p) == 2^p..(2^(p + 1) - 1)
<1>1. \E p \in 0..22 : x \in Place(p)
  <2>1. CASE (1 <= n /\ n < 2)
    <3>1. 2^13 = 1 * 8192 /\ 2^(13 + 1) = 2 * 8192 BY Powers, SMT
    <3>2. x \in Place(13) BY <2>1, <3>1, SMT
    <3>3. 13 \in 0..22 BY SMT
    <3> HIDE DEF Place
    <3> WITNESS 13 \in 0..22
    <3> QED BY <3>2
  <2>2. CASE (2 <= n /\ n < 4)
    <3>1. 2^14 = 2 * 8192 /\ 2^(14 + 1) = 4 * 8192 BY Powers, SMT
    <3>2. x \in Place(14) BY <2>2, <3>1, SMT
    <3>3. 14 \in 0..22 BY SMT
    <3> HIDE DEF Place
    <3> WITNESS 14 \in 0..22
    <3> QED BY <3>2
  <2>3. CASE (4 <= n /\ n < 8)
    <3>1. 2^15 = 4 * 8192 /\ 2^(15 + 1) = 8 * 8192 BY Powers, SMT
    <3>2. x \in Place(15) BY <2>3, <3>1, SMT
    <3>3. 15 \in 0..22 BY SMT
    <3> HIDE DEF Place
    <3> WITNESS 15 \in 0..22
    <3> QED BY <3>2
  <2>4. CASE (8 <= n /\ n < 16)
    <3>1. 2^16 = 8 * 8192 /\ 2^(16 + 1) = 16 * 8192 BY Powers, SMT
    <3>2. x \in Place(16) BY <2>4, <3>1, SMT
    <3>3. 16 \in 0..22 BY SMT
    <3> HIDE DEF Place
    <3> WITNESS 16 \in 0..22
    <3> QED BY <3>2
  <2>5. CASE (16 <= n /\ n < 32)
    <3>1. 2^17 = 16 * 8192 /\ 2^(17 + 1) = 32 * 8192 BY Powers, SMT
    <3>2. x \in Place(17) BY <2>5, <3>1, SMT
    <3>3. 17 \in 0..22 BY SMT
    <3> HIDE DEF Place
    <3> WITNESS 17 \in 0..22
    <3> QED BY <3>2
  <2>6. CASE (32 <= n /\ n < 64)
    <3>1. 2^18 = 32 * 8192 /\ 2^(18 + 1) = 64 * 8192 BY Powers, SMT
    <3>2. x \in Place(18) BY <2>6, <3>1, SMT
    <3>3. 18 \in 0..22 BY SMT
    <3> HIDE DEF Place
    <3> WITNESS 18 \in 0..22
    <3> QED BY <3>2
  <2>7. CASE (64 <= n /\ n < 128)
    <3>1. 2^19 = 64 * 8192 /\ 2^(19 + 1) = 128 * 8192 BY Powers, SMT
    <3>2. x \in Place(19) BY <2>7, <3>1, SMT
    <3>3. 19 \in 0..22 BY SMT
    <3> HIDE DEF Place
    <3> WITNESS 19 \in 0..22
    <3> QED BY <3>2
  <2>8. CASE (128 <= n /\ n < 256)
    <3>1. 2^20 = 128 * 8192 /\ 2^(20 + 1) = 256 * 8192 BY Powers, SMT
    <3>2. x \in Place(20) BY <2>8, <3>1, SMT
    <3>3. 20 \in 0..22 BY SMT
    <3> HIDE DEF Place
    <3> WITNESS 20 \in 0..22
    <3> QED BY <3>2
  <2>9. CASE (256 <= n /\ n < 512)
    <3>1. 2^21 = 256 * 8192 /\ 2^(21 + 1) = 512 * 8192 BY Powers, SMT
    <3>2. x \in Place(21) BY <2>9, <3>1, SMT
    <3>3. 21 \in 0..22 BY SMT
    <3> HIDE DEF Place
    <3> WITNESS 21 \in 0..22
    <3> QED BY <3>2
  <2>10. CASE (512 <= n /\ n < 1024)
    <3>1. 2^22 = 512 * 8192 /\ 2^(22 + 1) = 1024 * 8192 BY Powers, SMT
    <3>2. x \in Place(22) BY <2>10, <3>1, SMT
    <3>3. 22 \in 0..22 BY SMT
    <3> HIDE DEF Place
    <3> WITNESS 22 \in 0..22
    <3> QED BY <3>2
  <2>11. \/ (1 <= n /\ n < 2)
         \/ (2 <= n /\ n < 4)
         \/ (4 <= n /\ n < 8)
         \/ (8 <= n /\ n < 16)
         \/ (16 <= n /\ n < 32)
         \/ (32 <= n /\ n < 64)
         \/ (64 <= n /\ n < 128)
         \/ (128 <= n /\ n < 256)
         \/ (256 <= n /\ n < 512)
         \/ (512 <= n /\ n < 1024)
    BY SMT
  <2> HIDE DEF Place
  <2> QED BY <2>1, <2>2, <2>3, <2>4, <2>5, <2>6, <2>7, <2>8, <2>9, <2>10, <2>11, SMT
<1> QED BY <1>1 DEF HasTopBit

(* ... and the number says where.                                          *)
LEMMA TopBitFound ==
  ASSUME NEW x \in Int, 2^13 <= x, HasTopBit(x)
  PROVE  TopBit(x) \in 13..22
<1> DEFINE top == TopBit(x)
<1>1. top \in 0..22 /\ x \in 2^top..(2^(top + 1) - 1) BY Zenon DEF TopBit, HasTopBit
<1> HIDE DEF top
<1>2. top \in 13..22
  <2>1. x < 2^(top + 1) BY <1>1, SMT
  <2>2. ASSUME top <= 12 PROVE FALSE
    <3>1. top + 1 \in 1..13 BY <1>1, <2>2, SMT
    <3>2. 2^(top + 1) <= 8192 /\ 2^(top + 1) \in Int BY <3>1, Powers, SMT
    <3>3. 2^13 = 8192 BY Powers, SMT
    <3> QED BY <2>1, <3>2, <3>3, SMT
  <2> QED BY <1>1, <2>2, SMT
<1> QED BY <1>2 DEF top

(* The cases of the conversion back that a finite half's neighbours take.  *)
LEMMA ToHalfSubnormal ==
  ASSUME NEW f, f.exp # 255, NEW e \in Int, (f.exp - 127) + 15 = e, -10 <= e, e <= 0
  PROVE  ToHalf(f) = [sign |-> f.sign, exp |-> 0,
                      frac |-> ShiftRounded(f.frac + 2^23, 14 - e) % 1024]
<1>1. e \in -10..0 /\ ~(e >= 31) /\ ~(e < -10) BY SMT
<1> QED BY <1>1, SMT DEF ToHalf

(* ... and those of a normal half: the fraction rounded, or carried into   *)
(* the exponent.                                                           *)
LEMMA ToHalfNormal ==
  ASSUME NEW f, f.exp # 255, NEW e \in Int, (f.exp - 127) + 15 = e, 1 <= e, e <= 30,
         NEW norm \in Int, ShiftRounded(f.frac, 13) = norm
  PROVE  ToHalf(f) = IF norm < 1024 THEN [sign |-> f.sign, exp |-> e, frac |-> norm]
                     ELSE IF e + 1 >= 31 THEN [sign |-> f.sign, exp |-> 31, frac |-> 0]
                     ELSE [sign |-> f.sign, exp |-> e + 1, frac |-> 0]
<1>1. e \in 1..30 /\ e \notin -10..0 /\ ~(e >= 31) /\ ~(e < -10) BY SMT
<1>2. CASE norm < 1024
  <2>1. ~(norm >= 1024) BY <1>2, SMT
  <2> QED BY <1>1, <1>2, <2>1, SMT DEF ToHalf
<1>3. CASE ~(norm < 1024)
  <2>1. norm >= 1024 BY <1>3, SMT
  <2> QED BY <1>1, <1>3, <2>1, SMT DEF ToHalf
<1> QED BY <1>2, <1>3

(* The rounding of a normal half.                                          *)
LEMMA NormalRounded ==
  ASSUME NEW h \in Half, 1 <= h.exp, h.exp <= 30, NEW r \in Nat, r < 8192
  PROVE  Number(ToHalf(Between(h, r))) = IF r < 4096 THEN Number(h) ELSE Number(h) + 1
<1> DEFINE total == h.frac * 8192 + r
           f == [sign |-> h.sign, exp |-> h.exp + 112, frac |-> total]
           norm == ShiftRounded(f.frac, 13)
<1>0. h.exp \in Int /\ h.frac \in Nat /\ h.frac < 1024 BY HalfFields
<1>1. Between(h, r) = f
  <2>1. h.frac * 2^13 + r = total BY Powers, SMT
  <2> HIDE DEF total
  <2>2. h.exp > 0 BY <1>0, SMT
  <2> QED BY <2>1, <2>2, SMT DEF Between
<1>2. norm = IF r < 4096 THEN h.frac ELSE h.frac + 1
  <2>1. norm = (total \div 8192) + ((total \div 4096) % 2)
    <3>1. 2^13 = 8192 /\ 2^(13 - 1) = 4096 BY Powers, SMT
    <3> HIDE DEF total
    <3> QED BY <3>1, SMT DEF ShiftRounded
  <2>2. total = h.frac * 8192 + r OBVIOUS
  <2> HIDE DEF total, norm
  <2> QED BY <1>0, <2>1, <2>2, RestRounded, SMT
<1>3. f.sign = h.sign /\ f.exp # 255 /\ (f.exp - 127) + 15 = h.exp BY <1>0, SMT
<1> HIDE DEF f, norm
<1>4. norm \in Int BY <1>0, <1>2, SMT
<1>5. ToHalf(f) = IF norm < 1024 THEN [sign |-> f.sign, exp |-> h.exp, frac |-> norm]
                  ELSE IF h.exp + 1 >= 31 THEN [sign |-> f.sign, exp |-> 31, frac |-> 0]
                  ELSE [sign |-> f.sign, exp |-> h.exp + 1, frac |-> 0]
  <2>1. ShiftRounded(f.frac, 13) = norm BY DEF norm
  <2> QED BY <1>0, <1>3, <1>4, <2>1, ToHalfNormal
<1>6. CASE norm < 1024
  <2>1. Number(ToHalf(f)) = 1024 * h.exp + norm BY <1>5, <1>6, SMT DEF Number
  <2>2. Number(h) = 1024 * h.exp + h.frac BY SMT DEF Number
  <2> QED BY <1>0, <1>1, <1>2, <2>1, <2>2, SMT
<1>7. CASE ~(norm < 1024)
  <2>1. norm = h.frac + 1 /\ h.frac = 1023 /\ ~(r < 4096) BY <1>0, <1>2, <1>7, SMT
  <2>2. Number(ToHalf(f)) = 1024 * (h.exp + 1) BY <1>0, <1>5, <1>7, SMT DEF Number
  <2>3. Number(h) = 1024 * h.exp + h.frac BY SMT DEF Number
  <2> QED BY <1>0, <1>1, <2>1, <2>2, <2>3, SMT
<1> QED BY <1>6, <1>7

(* The rounding of a subnormal one.                                        *)
LEMMA SubnormalRounded ==
  ASSUME NEW h \in Half, h.exp = 0, h.frac # 0, NEW r \in Nat, r < 8192
  PROVE  Number(ToHalf(Between(h, r)))
           = IF r < 4096 THEN Number(h) ELSE IF Number(h) = 1023 THEN 0 ELSE Number(h) + 1
<1> DEFINE n == h.frac
           total == n * 8192 + r
           top == TopBit(total)
           f == [sign |-> h.sign, exp |-> (top - 37) + 127,
                 frac |-> (total - 2^top) * 2^(23 - top)]
           lead == f.frac + 2^23
           sub == ShiftRounded(lead, 36 - top)
<1>0. n \in Nat /\ 1 <= n /\ n < 1024
  <2>1. n \in Nat /\ n < 1024 /\ n # 0 BY HalfFields
  <2> HIDE DEF n
  <2> QED BY <2>1, SMT
<1>1. Between(h, r) = f
  <2>1. n * 2^13 + r = total BY Powers, SMT
  <2>2. ~(h.exp > 0) BY SMT
  <2> HIDE DEF total
  <2> QED BY <2>1, <2>2, SMT DEF Between
<1> HIDE DEF n
<1>2. total = n * 8192 + r OBVIOUS
<1>3. total \in Nat /\ 8192 <= total BY <1>0, SMT
<1> HIDE DEF total
<1>14. top \in 13..22
  <2>1. HasTopBit(total) BY <1>0, <1>2, LeadingPlace, SMT
  <2>2. total \in Int /\ 2^13 <= total BY <1>3, Powers, SMT
  <2> QED BY <2>1, <2>2, TopBitFound
<1> HIDE DEF top
<1>4. PICK k \in Nat \ {0} : ShiftedBy(top, k) BY <1>14, Shifts
<1>5. /\ 2^(23 - top) = k /\ 2^(36 - top) = 8192 * k /\ 2^(35 - top) = 4096 * k
      /\ 2^top * k = 2^23 /\ k \in Nat \ {0} BY <1>4, SMT DEF ShiftedBy
<1>6. /\ f.sign = h.sign /\ f.exp # 255 /\ (f.exp - 127) + 15 = top - 22
      /\ f.frac = (total - 2^top) * 2^(23 - top) BY <1>14, SMT
<1> HIDE DEF f
<1>7. 2^23 \in Int /\ 2^top \in Int BY <1>14, Powers, SMT
<1>8. lead = total * k
  <2> DEFINE a == 2^top
             b == 2^23
  <2>1. a \in Int /\ b \in Int /\ a * k = b BY <1>5, <1>7
  <2>2. lead = (total - a) * k + b BY <1>5, <1>6
  <2> HIDE DEF a, b, lead
  <2>3. (total - a) * k = total * k - a * k BY <1>3, <1>5, <2>1, SMT
  <2>4. total * k \in Int BY <1>3, <1>5, SMT
  <2> QED BY <2>1, <2>2, <2>3, <2>4, SMT
<1>9. sub = IF r < 4096 THEN n ELSE n + 1
  <2>1. sub = (lead \div 2^(36 - top)) + ((lead \div 2^((36 - top) - 1)) % 2)
    BY DEF ShiftRounded
  <2>2. (36 - top) - 1 = 35 - top BY <1>14, SMT
  <2>3. sub = ((total * k) \div (8192 * k)) + (((total * k) \div (4096 * k)) % 2)
    BY <1>5, <1>8, <2>1, <2>2
  <2>4. (total * k) \div (8192 * k) = total \div 8192
    BY <1>3, <1>5, Multiplied
  <2>5. (total * k) \div (4096 * k) = total \div 4096
    BY <1>3, <1>5, Multiplied
  <2>6. sub = (total \div 8192) + ((total \div 4096) % 2) BY <2>3, <2>4, <2>5
  <2> HIDE DEF sub
  <2> QED BY <1>0, <1>2, <2>6, RestRounded, SMT
<1>10. ToHalf(f) = [sign |-> f.sign, exp |-> 0, frac |-> sub % 1024]
  <2> DEFINE e == top - 22
  <2>1. e \in Int /\ -10 <= e /\ e <= 0 /\ 14 - e = 36 - top BY <1>14, SMT
  <2>2. sub = ShiftRounded(f.frac + 2^23, 14 - e) BY <2>1
  <2> HIDE DEF e, sub
  <2>3. (f.exp - 127) + 15 = e BY <1>6 DEF e
  <2> QED BY <1>6, <2>1, <2>2, <2>3, ToHalfSubnormal
<1> HIDE DEF sub
<1>11. sub % 1024 = IF r < 4096 THEN n ELSE IF n = 1023 THEN 0 ELSE n + 1
  BY <1>0, <1>9, SMT
<1>12. Number(ToHalf(f)) = sub % 1024
  <2>1. sub % 1024 \in Int BY <1>0, <1>11, SMT
  <2> HIDE DEF f
  <2> QED BY <1>10, <2>1, SMT DEF Number
<1>13. Number(h) = n BY <1>0, SMT DEF Number, n
<1> QED BY <1>1, <1>11, <1>12, <1>13

-----------------------------------------------------------------------------
(* Sequences, and the chunks of a Q4_K block                               *)

(* A sequence of n elements.                                               *)
Long(s, n) == DOMAIN s = 1..n /\ s = [i \in 1..n |-> s[i]]

(* The elements of two sequences one after the other.                      *)
OneAfterOther(s, t, m, n) == /\ Long(s \o t, m + n)
                             /\ \A i \in 1..m : (s \o t)[i] = s[i]
                             /\ \A i \in 1..n : (s \o t)[m + i] = t[i]

(* Two sequences joined hold the elements of the one, then those of the    *)
(* other.                                                                  *)
LEMMA Joined ==
  ASSUME NEW m \in Nat, NEW n \in Nat, NEW s, Long(s, m), NEW t, Long(t, n)
  PROVE  OneAfterOther(s, t, m, n)
<1> DEFINE S == {s[i] : i \in 1..m} \cup {t[i] : i \in 1..n}
<1>1. s \in [1..m -> S] /\ t \in [1..n -> S] BY DEF Long
<1>2. s \in Seq(S) /\ Len(s) = m /\ t \in Seq(S) /\ Len(t) = n
  <2> HIDE DEF S
  <2> QED BY <1>1
<1> HIDE DEF S
<1>3. s \o t \in Seq(S) /\ Len(s \o t) = m + n BY <1>2
<1>4. \A i \in 1..m : (s \o t)[i] = s[i] BY <1>2
<1>5. \A i \in 1..n : (s \o t)[m + i] = t[i] BY <1>2
<1>6. DOMAIN (s \o t) = 1..(m + n) BY <1>3
<1>7. s \o t = [i \in 1..(m + n) |-> (s \o t)[i]] BY <1>3, <1>6, LenProperties
<1> QED BY <1>4, <1>5, <1>6, <1>7 DEF Long, OneAfterOther

(* The element at place k of a chunk.                                      *)
InChunk(p, b, c, k) ==
  LET s == ScaleMin(p, b.body, 2 * c + (IF k < 32 THEN 0 ELSE 1))
      byte == b.body[12 + 32 * c + (IF k < 32 THEN k ELSE k - 32)]
  IN Value(Convert(p, b.d), s.sc * (IF k < 32 THEN byte % 16 ELSE byte \div 16),
           Convert(p, b.dmin), s.mn)

(* A chunk has its sixty-four elements in order.                           *)
LEMMA ChunkLong ==
  ASSUME NEW p, NEW b, NEW c \in Nat
  PROVE  /\ Long(ChunkQ4(p, b, c), 64)
         /\ \A k \in 0..63 : ChunkQ4(p, b, c)[k + 1] = InChunk(p, b, c, k)
<1> DEFINE Low == [l \in 1..32 |-> b.body[12 + 32 * c + l - 1] % 16]
           High == [l \in 1..32 |-> b.body[12 + 32 * c + l - 1] \div 16]
           E(g, x) == Value(Convert(p, b.d), ScaleMin(p, b.body, g).sc * x,
                            Convert(p, b.dmin), ScaleMin(p, b.body, g).mn)
           RunL == [l \in 1..32 |-> E(2 * c, Low[l])]
           RunH == [l \in 1..32 |-> E(2 * c + 1, High[l])]
<1>1. ChunkQ4(p, b, c) = RunL \o RunH BY DEF ChunkQ4
<1>2. Long(RunL, 32) /\ Long(RunH, 32)
  <2> HIDE DEF E, Low, High
  <2> QED BY Zenon DEF Long
<1>3. \A l \in 1..32 : RunL[l] = E(2 * c, Low[l]) /\ RunH[l] = E(2 * c + 1, High[l])
  <2> HIDE DEF E, Low, High
  <2> QED BY Zenon
<1> HIDE DEF RunL, RunH
<1>4. /\ Long(RunL \o RunH, 64)
      /\ \A i \in 1..32 : (RunL \o RunH)[i] = RunL[i]
      /\ \A i \in 1..32 : (RunL \o RunH)[32 + i] = RunH[i]
  <2> DEFINE m == 32
  <2>1. m \in Nat /\ m + m = 64 BY SMT
  <2>2. Long(RunL, m) /\ Long(RunH, m) BY <1>2
  <2> HIDE DEF m
  <2>3. /\ Long(RunL \o RunH, m + m)
        /\ \A i \in 1..m : (RunL \o RunH)[i] = RunL[i]
        /\ \A i \in 1..m : (RunL \o RunH)[m + i] = RunH[i]
    <3>1. m \in Nat BY <2>1
    <3>2. OneAfterOther(RunL, RunH, m, m) BY <3>1, <2>2, Joined
    <3> QED BY <3>2 DEF OneAfterOther
  <2> QED BY <2>1, <2>3, Zenon DEF m
<1> HIDE DEF E
<1>5. ASSUME NEW k \in 0..63
      PROVE  ChunkQ4(p, b, c)[k + 1] = InChunk(p, b, c, k)
  <2>1. CASE k < 32
    <3>1. k + 1 \in 1..32 BY <2>1, SMT
    <3>2. ChunkQ4(p, b, c)[k + 1] = RunL[k + 1] BY <1>1, <1>4, <3>1
    <3>3. RunL[k + 1] = E(2 * c, Low[k + 1]) BY <1>3, <3>1
    <3>4. Low[k + 1] = b.body[12 + 32 * c + (k + 1) - 1] % 16 BY <3>1, Zenon
    <3>5. 12 + 32 * c + (k + 1) - 1 = 12 + 32 * c + k /\ 2 * c = 2 * c + 0 BY SMT
    <3> QED BY <2>1, <3>2, <3>3, <3>4, <3>5 DEF InChunk, E
  <2>2. CASE ~(k < 32)
    <3>1. k - 31 \in 1..32 /\ 32 + (k - 31) = k + 1 BY <2>2, SMT
    <3>2. ChunkQ4(p, b, c)[k + 1] = RunH[k - 31] BY <1>1, <1>4, <3>1
    <3>3. RunH[k - 31] = E(2 * c + 1, High[k - 31]) BY <1>3, <3>1
    <3>4. High[k - 31] = b.body[12 + 32 * c + (k - 31) - 1] \div 16 BY <3>1, Zenon
    <3>5. 12 + 32 * c + (k - 31) - 1 = 12 + 32 * c + (k - 32) BY SMT
    <3> QED BY <2>2, <3>2, <3>3, <3>4, <3>5 DEF InChunk, E
  <2> QED BY <2>1, <2>2
<1>6. \A k \in 0..63 : ChunkQ4(p, b, c)[k + 1] = InChunk(p, b, c, k) BY <1>5
<1> QED BY <1>1, <1>4, <1>6

-----------------------------------------------------------------------------
(* Whole blocks and single elements                                        *)

(* A whole block and its elements one by one are decoded alike: Q4_K, ...  *)
LEMMA BlockElementQ4 ==
  ASSUME NEW p, NEW b, NEW k \in Nat, k < 256
  PROVE  BlockQ4(p, b)[k + 1] = ElementQ4(p, b, k)
<1> DEFINE at(i) == ChunkQ4(p, b, (i - 1) \div 64)[((i - 1) % 64) + 1]
           c == k \div 64
           l == k % 64
<1>1. BlockQ4(p, b) = [i \in 1..256 |-> at(i)] BY DEF BlockQ4
<1>2. k + 1 \in 1..256 /\ (k + 1) - 1 = k BY SMT
<1>3. BlockQ4(p, b)[k + 1] = at(k + 1)
  <2> HIDE DEF at
  <2> QED BY <1>1, <1>2
<1>4. at(k + 1) = ChunkQ4(p, b, c)[l + 1] BY <1>2
<1>5. c \in Nat /\ l \in 0..63 BY SMT
<1>6. InChunk(p, b, c, l) = ElementQ4(p, b, k) BY DEF InChunk, ElementQ4
<1> HIDE DEF at, c, l
<1>7. ChunkQ4(p, b, c)[l + 1] = InChunk(p, b, c, l) BY <1>5, ChunkLong
<1> QED BY <1>3, <1>4, <1>6, <1>7

(* ... Q5_0, the loop of low nibbles and then the one of high nibbles, ... *)
LEMMA BlockElementQ5 ==
  ASSUME NEW p, NEW b
  PROVE  \A k \in 0..31 : BlockQ5(p, b)[k + 1] = ElementQ5(p, b, k)
<1> DEFINE m == 16
           mask == [i \in 0..31 |-> Bit(b.body[i \div 8], i % 8)]
           V(low, bit) == Value(Convert(p, b.d), 16 * bit + low - 16, NoMin, 0)
           L == [i \in 1..16 |-> V(b.body[4 + i - 1] % 16, mask[i - 1])]
           H == [i \in 1..16 |-> V(b.body[4 + i - 1] \div 16, mask[i - 1 + 16])]
<1>1. BlockQ5(p, b) = L \o H BY DEF BlockQ5
<1>2. Long(L, m) /\ Long(H, m)
  <2> HIDE DEF V, mask
  <2> QED BY Zenon DEF Long
<1>3. \A i \in 1..16 : /\ L[i] = V(b.body[4 + i - 1] % 16, mask[i - 1])
                       /\ H[i] = V(b.body[4 + i - 1] \div 16, mask[i - 1 + 16])
  <2> HIDE DEF V, mask
  <2> QED BY Zenon
<1>4. \A i \in 0..31 : mask[i] = Bit(b.body[i \div 8], i % 8) BY Zenon
<1>5. m \in Nat /\ m + m = 32 /\ m = 16 OBVIOUS
<1> HIDE DEF m, L, H, mask
<1>6. OneAfterOther(L, H, m, m) BY <1>2, <1>5, Joined
<1>8. ASSUME NEW k \in 0..31 PROVE (L \o H)[k + 1] = ElementQ5(p, b, k)
  <2>1. CASE k < 16
    <3>1. k + 1 \in 1..m /\ k + 1 \in 1..16 /\ (k + 1) - 1 = k /\ 4 + (k + 1) - 1 = 4 + k
      BY <1>5, <2>1, SMT
    <3>2. (L \o H)[k + 1] = L[k + 1] BY <1>6, <3>1 DEF OneAfterOther
    <3>3. L[k + 1] = V(b.body[4 + (k + 1) - 1] % 16, mask[(k + 1) - 1]) BY <1>3, <3>1
    <3>4. mask[k] = Bit(b.body[k \div 8], k % 8) BY <1>4
    <3>5. ElementQ5(p, b, k) = V(b.body[4 + k] % 16, Bit(b.body[k \div 8], k % 8))
      BY <2>1 DEF ElementQ5
    <3> HIDE DEF V
    <3> QED BY <3>1, <3>2, <3>3, <3>4, <3>5
  <2>2. CASE ~(k < 16)
    <3>1. k - 15 \in 1..m /\ k - 15 \in 1..16 /\ (k - 15) - 1 + 16 = k
          /\ 4 + (k - 15) - 1 = 4 + (k - 16) /\ m + (k - 15) = k + 1
      BY <1>5, <2>2, SMT
    <3>2. (L \o H)[m + (k - 15)] = H[k - 15] BY <1>6, <3>1 DEF OneAfterOther
    <3>3. H[k - 15] = V(b.body[4 + (k - 15) - 1] \div 16, mask[(k - 15) - 1 + 16])
      BY <1>3, <3>1
    <3>4. mask[k] = Bit(b.body[k \div 8], k % 8) BY <1>4
    <3>5. ElementQ5(p, b, k) = V(b.body[4 + (k - 16)] \div 16, Bit(b.body[k \div 8], k % 8))
      BY <2>2 DEF ElementQ5
    <3> HIDE DEF V
    <3> QED BY <3>1, <3>2, <3>3, <3>4, <3>5
  <2> QED BY <2>1, <2>2
<1> QED BY <1>1, <1>8

(* ... and Q8_0, byte by byte.                                             *)
LEMMA BlockElementQ8 ==
  ASSUME NEW p, NEW b
  PROVE  \A k \in 0..31 : BlockQ8(p, b)[k + 1] = ElementQ8(p, b, k)
<1> DEFINE V(q) == Value(Convert(p, b.d), q, NoMin, 0)
           w == [i \in 1..32 |-> V(Signed(b.body[i - 1]))]
<1>1. BlockQ8(p, b) = w BY DEF BlockQ8
<1>2. ASSUME NEW k \in 0..31 PROVE w[k + 1] = ElementQ8(p, b, k)
  <2>1. k + 1 \in 1..32 /\ (k + 1) - 1 = k BY SMT
  <2>2. w[k + 1] = V(Signed(b.body[(k + 1) - 1]))
    <3> HIDE DEF V
    <3> QED BY <2>1, Zenon
  <2> QED BY <2>1, <2>2 DEF ElementQ8
<1> QED BY <1>1, <1>2

-----------------------------------------------------------------------------
(* Rows by blocks and by threads                                           *)

(* A thread block lies in one weight block: its first column is in the     *)
(* weight block of each of its columns.                                    *)
LEMMA OneWeightBlock ==
  ASSUME NEW e \in Nat \ {0}, NEW t \in Nat \ {0}, e % t = 0, NEW col \in Nat
  PROVE  ((col \div t) * t) \div e = col \div e
<1> DEFINE k == e \div t
           q == col \div t
           r == col % t
           a == q \div k
           b == q % k
<1>1. k \in Nat /\ e = t * k
  <2>1. e \in Nat BY SMT
  <2>2. k \in Nat /\ e = t * k + (e % t) BY <2>1, Division
  <2> HIDE DEF k
  <2> QED BY <2>2, SMT
<1>2. k # 0
  <2> HIDE DEF k
  <2> QED BY <1>1, SMT
<1>3. q \in Nat /\ r \in 0..t - 1 /\ col = t * q + r BY Division
<1> HIDE DEF k, q, r
<1>4. a \in Nat /\ b \in 0..k - 1 /\ q = k * a + b BY <1>1, <1>2, <1>3, Division
<1> HIDE DEF a, b
<1>5. t * b >= 0 /\ t * b <= t * (k - 1) /\ t * b \in Int
  <2>1. b \in Int /\ 0 <= b /\ b <= k - 1 BY <1>1, <1>4, SMT
  <2>2. t * ((k - 1) - b) >= 0 BY <1>1, <2>1, SMT
  <2> QED BY <1>1, <2>1, <2>2, SMT
<1>6. t * (k - 1) = e - t BY <1>1, SMT
<1>7. t * q = a * e + t * b
  <2>1. b \in Int BY <1>4, SMT
  <2>2. t * (k * a + b) = t * (k * a) + t * b BY <1>1, <1>4, <2>1, SMT
  <2>3. t * (k * a) = a * (t * k) BY <1>1, <1>4, SMT
  <2> QED BY <1>1, <1>4, <2>2, <2>3
<1> DEFINE j == t * b
<1> HIDE DEF j
<1>8. j \in 0..e - 1 /\ j + r \in 0..e - 1
  <2>1. j \in Int /\ 0 <= j /\ j <= e - t BY <1>5, <1>6 DEF j
  <2> QED BY <1>3, <2>1, SMT
<1>9. q * t = a * e + j /\ col = a * e + (j + r)
  <2>1. t * q \in Int /\ t * q = q * t BY <1>3, SMT
  <2>2. t * q = a * e + j BY <1>7 DEF j
  <2>3. a * e \in Int BY <1>4, SMT
  <2> QED BY <1>3, <1>8, <2>1, <2>2, <2>3, SMT
<1>10. (a * e + j) \div e = a BY <1>4, <1>8, RowAndColumn
<1>11. (a * e + (j + r)) \div e = a BY <1>4, <1>8, RowAndColumn
<1>12. (q * t) \div e = col \div e BY <1>9, <1>10, <1>11
<1> QED BY <1>12 DEF q

-----------------------------------------------------------------------------
(* The decoder a path takes for a format.                                  *)
DecoderOf(p, fmt) == IF p \in {"tile", "rhs"} THEN Template(fmt) ELSE fmt

(* A template's decoder is for blocks of the size of the format's.         *)
LEMMA Sizes ==
  ASSUME NEW fmt \in Format
  PROVE  /\ QK[fmt] \in Nat \ {0} /\ Template(fmt) \in Format
         /\ QK[Template(fmt)] = QK[fmt]
BY SMT DEF Format, QK, Template

(* A whole block and its elements one by one are decoded alike.            *)
LEMMA BlockElement ==
  ASSUME NEW fmt \in Format, NEW p, NEW b, NEW k \in Nat, k < QK[fmt]
  PROVE  Block(fmt, p, b)[k + 1] = Element(fmt, p, b, k)
<1>1. CASE fmt = "Q4_K"
  <2>1. k < 256 BY <1>1 DEF QK
  <2>2. BlockQ4(p, b)[k + 1] = ElementQ4(p, b, k) BY <2>1, BlockElementQ4
  <2> QED BY <1>1, <2>2, SMT DEF Block, Element
<1>2. CASE fmt = "Q5_0"
  <2>1. k < 32 BY <1>2 DEF QK
  <2>2. k \in 0..31 BY <2>1, SMT
  <2>3. BlockQ5(p, b)[k + 1] = ElementQ5(p, b, k) BY <2>2, BlockElementQ5
  <2> QED BY <1>2, <2>3, SMT DEF Block, Element
<1>3. CASE fmt = "Q8_0"
  <2>1. k < 32 BY <1>3 DEF QK
  <2>2. k \in 0..31 BY <2>1, SMT
  <2>3. BlockQ8(p, b)[k + 1] = ElementQ8(p, b, k) BY <2>2, BlockElementQ8
  <2> QED BY <1>3, <2>3, SMT DEF Block, Element
<1> QED BY <1>1, <1>2, <1>3 DEF Format

(* A place in a row is a place in one of its blocks.                       *)
LEMMA PlaceInRow ==
  ASSUME NEW n \in Nat, NEW e \in Nat \ {0}, NEW c \in 1..(n * e)
  PROVE  /\ (c - 1) \div e + 1 \in 1..n
         /\ (c - 1) % e \in Nat /\ (c - 1) % e < e
<1> DEFINE i == (c - 1) \div e
           k == (c - 1) % e
           y == n * e
           x == e * i
<1>1. y \in Int BY SMT
<1>2. c - 1 \in Nat /\ c - 1 < y
  <2> HIDE DEF y
  <2> QED BY <1>1, SMT DEF y
<1>3. i \in Nat /\ k \in 0..e - 1 /\ c - 1 = e * i + k BY <1>2, Division
<1> HIDE DEF i, k
<1>4. x \in Int BY <1>3, SMT
<1>5. ASSUME i >= n PROVE FALSE
  <2>1. e * (i - n) >= 0 BY <1>3, <1>5, SMT
  <2>2. e * i >= e * n BY <1>3, <2>1, SMT
  <2>3. e * n = y BY SMT
  <2> HIDE DEF x, y
  <2>4. x >= y /\ c - 1 = x + k BY <1>3, <2>2, <2>3 DEF x
  <2> QED BY <1>1, <1>2, <1>3, <1>4, <2>4, SMT
<1>6. i + 1 \in 1..n /\ k \in Nat /\ k < e BY <1>3, <1>5, SMT
<1> QED BY <1>6 DEF i, k

(* Every path decodes element c of a row as element c % QK of block        *)
(* c \div QK, each with its decoder.                                       *)
InRow(fmt, p, blocks, elems, c) ==
  Element(fmt, p, blocks[(c - 1) \div elems + 1], (c - 1) % elems)
ElementsOf(fmt, p, blocks, elems) ==
  [c \in 1..(Len(blocks) * elems) |-> InRow(fmt, p, blocks, elems, c)]

(* Decoding block after block is decoding element after element.           *)
LEMMA WholeBlocksInRow ==
  ASSUME NEW fmt \in Format, NEW p, NEW blocks, Len(blocks) \in Nat,
         DOMAIN blocks = 1..Len(blocks)
  PROVE  WholeBlocks(fmt, p, blocks) = ElementsOf(fmt, p, blocks, QK[fmt])
<1> DEFINE elems == QK[fmt]
           decoded == [i \in DOMAIN blocks |-> Block(fmt, p, blocks[i])]
           at(c) == decoded[(c - 1) \div elems + 1][((c - 1) % elems) + 1]
           S == 1..(Len(blocks) * elems)
<1>1. WholeBlocks(fmt, p, blocks) = [c \in S |-> at(c)] BY DEF WholeBlocks
<1>2. elems \in Nat \ {0} BY Sizes
<1>3. ASSUME NEW c \in S PROVE at(c) = InRow(fmt, p, blocks, elems, c)
  <2> DEFINE i == (c - 1) \div elems
             k == (c - 1) % elems
  <2> HIDE DEF elems
  <2>1. i + 1 \in 1..Len(blocks) /\ k \in Nat /\ k < elems BY <1>2, PlaceInRow
  <2> HIDE DEF i, k
  <2>4. i + 1 \in DOMAIN blocks BY <2>1
  <2>5. decoded[i + 1] = Block(fmt, p, blocks[i + 1]) BY <2>4
  <2>6. k \in Nat /\ k < QK[fmt] BY <2>1 DEF elems
  <2>7. Block(fmt, p, blocks[i + 1])[k + 1] = Element(fmt, p, blocks[i + 1], k)
    BY <2>6, BlockElement
  <2> HIDE DEF decoded
  <2> QED BY <2>5, <2>7 DEF i, k, InRow
<1> HIDE DEF at, elems, S
<1>4. [c \in S |-> at(c)] = [c \in S |-> InRow(fmt, p, blocks, elems, c)] BY <1>3
<1> QED BY <1>1, <1>4 DEF S, elems, ElementsOf

-----------------------------------------------------------------------------
(* What each path makes of a row                                           *)

(* A row in memory: blocks of a format.                                    *)
IsRow(w) == /\ w.fmt \in Format /\ Len(w.blocks) \in Nat
            /\ DOMAIN w.blocks = 1..Len(w.blocks)

(* What a path makes of a row.                                             *)
AsElements(p, w) == ElementsOf(DecoderOf(p, w.fmt), p, w.blocks, QK[w.fmt])

(* A thread of a product kernel finds its column's weight block.           *)
LEMMA ThreadsInRow ==
  ASSUME NEW fmt \in Format, NEW n \in Nat, NEW c \in 1..(n * QK[fmt])
  PROVE  (((c - 1) \div TileCols) * TileCols) \div QK[fmt] = (c - 1) \div QK[fmt]
<1> DEFINE e == QK[fmt]
<1>1. e \in Nat \ {0} BY Sizes
<1>2. TileCols \in Nat \ {0} /\ e % TileCols = 0 BY QuantBlocksAssumption
<1> HIDE DEF e
<1>3. c - 1 \in Nat
  <2>1. n * e \in Int BY <1>1, SMT
  <2>2. c \in 1..(n * e) BY DEF e
  <2> QED BY <2>1, <2>2, SMT
<1>4. (((c - 1) \div TileCols) * TileCols) \div e = (c - 1) \div e
  BY <1>1, <1>2, <1>3, OneWeightBlock
<1> QED BY <1>4 DEF e

(* Whatever the path, a row is decoded element by element.                 *)
LEMMA DecodedInRow ==
  ASSUME NEW p \in Decoder, NEW w, IsRow(w)
  PROVE  Decoded(p, w) = AsElements(p, w)
<1> DEFINE fmt == w.fmt
           blocks == w.blocks
           e == QK[fmt]
           S == 1..(Len(blocks) * e)
           f == DecoderOf(p, fmt)
<1>1. fmt \in Format /\ Len(blocks) \in Nat /\ DOMAIN blocks = 1..Len(blocks) BY DEF IsRow
<1>2. Template(fmt) \in Format /\ QK[Template(fmt)] = e BY <1>1, Sizes
<1>3. CASE p \in {"cpu", "dot", "parity"}
  <2>1. Decoded(p, w) = WholeBlocks(fmt, p, blocks) BY <1>3 DEF Decoded
  <2>2. f = fmt BY <1>3 DEF DecoderOf
  <2> QED BY <1>1, <2>1, <2>2, WholeBlocksInRow DEF AsElements
<1>4. CASE p = "rhs"
  <2>1. Decoded(p, w) = WholeBlocks(Template(fmt), p, blocks) BY <1>4 DEF Decoded
  <2>2. f = Template(fmt) BY <1>4 DEF DecoderOf
  <2>3. WholeBlocks(Template(fmt), p, blocks)
          = ElementsOf(Template(fmt), p, blocks, QK[Template(fmt)])
    BY <1>1, <1>2, WholeBlocksInRow
  <2> QED BY <1>2, <2>1, <2>2, <2>3 DEF AsElements
<1>5. CASE p = "tile"
  <2> DEFINE at(c) == Element(Template(fmt), "tile",
                        blocks[(((c - 1) \div TileCols) * TileCols) \div e + 1], (c - 1) % e)
  <2>1. Decoded(p, w) = Tile(fmt, blocks) BY <1>5 DEF Decoded
  <2>2. Tile(fmt, blocks) = [c \in S |-> at(c)] BY DEF Tile
  <2>3. f = Template(fmt) BY <1>5 DEF DecoderOf
  <2>4. ASSUME NEW c \in S PROVE at(c) = InRow(f, p, blocks, e, c)
    BY <1>1, <1>5, <2>3, ThreadsInRow DEF InRow
  <2> HIDE DEF at, e, S, f, fmt, blocks
  <2>5. [c \in S |-> at(c)] = [c \in S |-> InRow(f, p, blocks, e, c)] BY <2>4
  <2> QED BY <2>1, <2>2, <2>5 DEF AsElements, ElementsOf, e, S, f, fmt, blocks
<1>6. CASE p = "atomic"
  <2> DEFINE at(c) == Element(fmt, "atomic",
                        blocks[(((c - 1) \div TileCols) * TileCols) \div e + 1], (c - 1) % e)
  <2>1. Decoded(p, w) = Atomic(fmt, blocks) BY <1>6 DEF Decoded
  <2>2. Atomic(fmt, blocks) = [c \in S |-> at(c)] BY DEF Atomic
  <2>3. f = fmt BY <1>6 DEF DecoderOf
  <2>4. ASSUME NEW c \in S PROVE at(c) = InRow(f, p, blocks, e, c)
    BY <1>1, <1>6, <2>3, ThreadsInRow DEF InRow
  <2> HIDE DEF at, e, S, f, fmt, blocks
  <2>5. [c \in S |-> at(c)] = [c \in S |-> InRow(f, p, blocks, e, c)] BY <2>4
  <2> QED BY <2>1, <2>2, <2>5 DEF AsElements, ElementsOf, e, S, f, fmt, blocks
<1> QED BY <1>3, <1>4, <1>5, <1>6 DEF Decoder

-----------------------------------------------------------------------------
(* One conversion, whatever the path.                                      *)
LEMMA OneConversion ==
  ASSUME NEW p, NEW q, NEW h \in Half
  PROVE  Convert(p, h) = Convert(q, h)
BY SameConversion DEF Convert

(* The scales of a group on two paths.                                     *)
LEMMA SameScales ==
  ASSUME NEW p, NEW q, NEW s, NEW j \in 0..7,
         \/ (p \in {"cpu", "dot"}) = (q \in {"cpu", "dot"})
         \/ \A i \in 4..7 : s[i] \div 64 = s[i - 4] \div 64
  PROVE  ScaleMin(p, s, j) = ScaleMin(q, s, j)
<1>1. CASE j < 4 BY <1>1 DEF ScaleMin
<1>2. CASE ~(j < 4)
  <2>1. j \in 4..7 BY <1>2, SMT
  <2>2. (IF p \in {"cpu", "dot"} THEN s[j] ELSE s[j - 4]) \div 64
          = (IF q \in {"cpu", "dot"} THEN s[j] ELSE s[j - 4]) \div 64
    <3>1. CASE (p \in {"cpu", "dot"}) = (q \in {"cpu", "dot"}) BY <3>1
    <3>2. CASE \A i \in 4..7 : s[i] \div 64 = s[i - 4] \div 64 BY <2>1, <3>2
    <3> QED BY <3>1, <3>2
  <2> QED BY <1>2, <2>2 DEF ScaleMin
<1> QED BY <1>1, <1>2

(* An element is decoded alike on two paths whose scales are.              *)
LEMMA SameElement ==
  ASSUME NEW fmt \in Format, NEW p, NEW q, NEW b, b.d \in Half, b.dmin \in Half,
         NEW k \in Nat, k < QK[fmt],
         fmt = "Q4_K" => \/ (p \in {"cpu", "dot"}) = (q \in {"cpu", "dot"})
                         \/ UpperBitsShared(b)
  PROVE  Element(fmt, p, b, k) = Element(fmt, q, b, k)
<1>1. Convert(p, b.d) = Convert(q, b.d) /\ Convert(p, b.dmin) = Convert(q, b.dmin)
  BY OneConversion
<1>2. CASE fmt = "Q4_K"
  <2> DEFINE j == 2 * (k \div 64) + (IF k % 64 < 32 THEN 0 ELSE 1)
  <2>1. k < 256 BY <1>2 DEF QK
  <2>2. j \in 0..7 BY <2>1, SMT
  <2>3. \/ (p \in {"cpu", "dot"}) = (q \in {"cpu", "dot"})
        \/ \A i \in 4..7 : b.body[i] \div 64 = b.body[i - 4] \div 64
    BY <1>2 DEF UpperBitsShared
  <2> HIDE DEF j
  <2>4. ScaleMin(p, b.body, j) = ScaleMin(q, b.body, j) BY <2>2, <2>3, SameScales
  <2>5. ElementQ4(p, b, k) = ElementQ4(q, b, k) BY <1>1, <2>4 DEF ElementQ4, j
  <2> QED BY <1>2, <2>5, SMT DEF Element
<1>3. CASE fmt = "Q5_0"
  <2>1. ElementQ5(p, b, k) = ElementQ5(q, b, k) BY <1>1 DEF ElementQ5
  <2> QED BY <1>3, <2>1, SMT DEF Element
<1>4. CASE fmt = "Q8_0"
  <2>1. ElementQ8(p, b, k) = ElementQ8(q, b, k) BY <1>1 DEF ElementQ8
  <2> QED BY <1>4, <2>1, SMT DEF Element
<1> QED BY <1>2, <1>3, <1>4 DEF Format

(* The headers of the blocks of w are halves.                              *)
Headers(w) == \A i \in DOMAIN w.blocks : w.blocks[i].d \in Half /\ w.blocks[i].dmin \in Half

(* Paths that may be compared decode a row alike.                          *)
LEMMA SameRows ==
  ASSUME NEW p, NEW q, IsRow(row), Headers(row), Comparable(p, q)
  PROVE  AsElements(p, row) = AsElements(q, row)
<1> DEFINE fmt == row.fmt
           e == QK[fmt]
           blocks == row.blocks
           f == DecoderOf(p, fmt)
           S == 1..(Len(blocks) * e)
<1>1. fmt \in Format /\ Len(blocks) \in Nat /\ DOMAIN blocks = 1..Len(blocks) BY DEF IsRow
<1>2. e \in Nat \ {0} BY <1>1, Sizes
<1>3. DecoderOf(q, fmt) = f /\ f \in Format /\ QK[f] = e
  <2>1. fmt # "Q8_0" => Template(fmt) = fmt BY <1>1 DEF Format, Template, QK
  <2>2. fmt = "Q8_0" => (p \in {"tile", "rhs"}) = (q \in {"tile", "rhs"})
    BY SMT DEF Comparable
  <2>3. Template(fmt) \in Format /\ QK[Template(fmt)] = e BY <1>1, Sizes
  <2> QED BY <1>1, <2>1, <2>2, <2>3 DEF DecoderOf
<1>4. fmt = "Q4_K" => \/ (p \in {"cpu", "dot"}) = (q \in {"cpu", "dot"})
                      \/ \A i \in DOMAIN blocks : UpperBitsShared(blocks[i])
  BY SMT DEF Comparable
<1>5. f = "Q4_K" => fmt = "Q4_K"
  BY <1>1, SMT DEF Format, DecoderOf, Template, QK
<1>6. ASSUME NEW c \in S PROVE InRow(f, p, blocks, e, c) = InRow(f, q, blocks, e, c)
  <2> DEFINE i == (c - 1) \div e + 1
             k == (c - 1) % e
  <2>1. i \in DOMAIN blocks /\ k \in Nat /\ k < e BY <1>1, <1>2, PlaceInRow
  <2> HIDE DEF i, k, e, f, fmt
  <2>0. blocks[i].d \in Half /\ blocks[i].dmin \in Half BY <2>1 DEF Headers
  <2>2. f = "Q4_K" => \/ (p \in {"cpu", "dot"}) = (q \in {"cpu", "dot"})
                      \/ UpperBitsShared(blocks[i])
    BY <1>4, <1>5, <2>1
  <2>3. Element(f, p, blocks[i], k) = Element(f, q, blocks[i], k)
    BY <1>3, <2>0, <2>1, <2>2, SameElement
  <2> QED BY <2>3 DEF InRow, i, k
<1> HIDE DEF e, f, S, fmt, blocks
<1>7. [c \in S |-> InRow(f, p, blocks, e, c)] = [c \in S |-> InRow(f, q, blocks, e, c)]
  BY <1>6
<1> QED BY <1>3, <1>7 DEF AsElements, ElementsOf, e, f, S, fmt, blocks

-----------------------------------------------------------------------------
(* The factors that packing computes, and the halves they are stored as    *)

(* So has every number that a place can be found for.                      *)
LEMMA EachHasTopBit ==
  ASSUME NEW x \in Nat, 1 <= x, x < 8192 * 1024
  PROVE  HasTopBit(x)
<1> DEFINE Place(p) == 2^p..(2^(p + 1) - 1)
<1> SUFFICES \E p \in 0..22 : x \in Place(p) BY DEF HasTopBit
<1>1. CASE 1 <= x /\ x < 2
  <2>1. 2^0 = 1 /\ 2^(0 + 1) = 2 BY Powers, SMT
  <2>2. x \in Place(0) BY <1>1, <2>1, SMT
  <2>3. 0 \in 0..22 BY SMT
  <2> HIDE DEF Place
  <2> WITNESS 0 \in 0..22
  <2> QED BY <2>2
<1>2. CASE 2 <= x /\ x < 4
  <2>1. 2^1 = 2 /\ 2^(1 + 1) = 4 BY Powers, SMT
  <2>2. x \in Place(1) BY <1>2, <2>1, SMT
  <2>3. 1 \in 0..22 BY SMT
  <2> HIDE DEF Place
  <2> WITNESS 1 \in 0..22
  <2> QED BY <2>2
<1>3. CASE 4 <= x /\ x < 8
  <2>1. 2^2 = 4 /\ 2^(2 + 1) = 8 BY Powers, SMT
  <2>2. x \in Place(2) BY <1>3, <2>1, SMT
  <2>3. 2 \in 0..22 BY SMT
  <2> HIDE DEF Place
  <2> WITNESS 2 \in 0..22
  <2> QED BY <2>2
<1>4. CASE 8 <= x /\ x < 16
  <2>1. 2^3 = 8 /\ 2^(3 + 1) = 16 BY Powers, SMT
  <2>2. x \in Place(3) BY <1>4, <2>1, SMT
  <2>3. 3 \in 0..22 BY SMT
  <2> HIDE DEF Place
  <2> WITNESS 3 \in 0..22
  <2> QED BY <2>2
<1>5. CASE 16 <= x /\ x < 32
  <2>1. 2^4 = 16 /\ 2^(4 + 1) = 32 BY Powers, SMT
  <2>2. x \in Place(4) BY <1>5, <2>1, SMT
  <2>3. 4 \in 0..22 BY SMT
  <2> HIDE DEF Place
  <2> WITNESS 4 \in 0..22
  <2> QED BY <2>2
<1>6. CASE 32 <= x /\ x < 64
  <2>1. 2^5 = 32 /\ 2^(5 + 1) = 64 BY Powers, SMT
  <2>2. x \in Place(5) BY <1>6, <2>1, SMT
  <2>3. 5 \in 0..22 BY SMT
  <2> HIDE DEF Place
  <2> WITNESS 5 \in 0..22
  <2> QED BY <2>2
<1>7. CASE 64 <= x /\ x < 128
  <2>1. 2^6 = 64 /\ 2^(6 + 1) = 128 BY Powers, SMT
  <2>2. x \in Place(6) BY <1>7, <2>1, SMT
  <2>3. 6 \in 0..22 BY SMT
  <2> HIDE DEF Place
  <2> WITNESS 6 \in 0..22
  <2> QED BY <2>2
<1>8. CASE 128 <= x /\ x < 256
  <2>1. 2^7 = 128 /\ 2^(7 + 1) = 256 BY Powers, SMT
  <2>2. x \in Place(7) BY <1>8, <2>1, SMT
  <2>3. 7 \in 0..22 BY SMT
  <2> HIDE DEF Place
  <2> WITNESS 7 \in 0..22
  <2> QED BY <2>2
<1>9. CASE 256 <= x /\ x < 512
  <2>1. 2^8 = 256 /\ 2^(8 + 1) = 512 BY Powers, SMT
  <2>2. x \in Place(8) BY <1>9, <2>1, SMT
  <2>3. 8 \in 0..22 BY SMT
  <2> HIDE DEF Place
  <2> WITNESS 8 \in 0..22
  <2> QED BY <2>2
<1>10. CASE 512 <= x /\ x < 1024
  <2>1. 2^9 = 512 /\ 2^(9 + 1) = 1024 BY Powers, SMT
  <2>2. x \in Place(9) BY <1>10, <2>1, SMT
  <2>3. 9 \in 0..22 BY SMT
  <2> HIDE DEF Place
  <2> WITNESS 9 \in 0..22
  <2> QED BY <2>2
<1>11. CASE 1024 <= x /\ x < 2048
  <2>1. 2^10 = 1024 /\ 2^(10 + 1) = 2048 BY Powers, SMT
  <2>2. x \in Place(10) BY <1>11, <2>1, SMT
  <2>3. 10 \in 0..22 BY SMT
  <2> HIDE DEF Place
  <2> WITNESS 10 \in 0..22
  <2> QED BY <2>2
<1>12. CASE 2048 <= x /\ x < 4096
  <2>1. 2^11 = 2048 /\ 2^(11 + 1) = 4096 BY Powers, SMT
  <2>2. x \in Place(11) BY <1>12, <2>1, SMT
  <2>3. 11 \in 0..22 BY SMT
  <2> HIDE DEF Place
  <2> WITNESS 11 \in 0..22
  <2> QED BY <2>2
<1>13. CASE 4096 <= x /\ x < 8192 * 1
  <2>1. 2^12 = 4096 /\ 2^(12 + 1) = 8192 * 1 BY Powers, SMT
  <2>2. x \in Place(12) BY <1>13, <2>1, SMT
  <2>3. 12 \in 0..22 BY SMT
  <2> HIDE DEF Place
  <2> WITNESS 12 \in 0..22
  <2> QED BY <2>2
<1>14. CASE 8192 * 1 <= x /\ x < 8192 * 2
  <2>1. 2^13 = 8192 * 1 /\ 2^(13 + 1) = 8192 * 2 BY Powers, SMT
  <2>2. x \in Place(13) BY <1>14, <2>1, SMT
  <2>3. 13 \in 0..22 BY SMT
  <2> HIDE DEF Place
  <2> WITNESS 13 \in 0..22
  <2> QED BY <2>2
<1>15. CASE 8192 * 2 <= x /\ x < 8192 * 4
  <2>1. 2^14 = 8192 * 2 /\ 2^(14 + 1) = 8192 * 4 BY Powers, SMT
  <2>2. x \in Place(14) BY <1>15, <2>1, SMT
  <2>3. 14 \in 0..22 BY SMT
  <2> HIDE DEF Place
  <2> WITNESS 14 \in 0..22
  <2> QED BY <2>2
<1>16. CASE 8192 * 4 <= x /\ x < 8192 * 8
  <2>1. 2^15 = 8192 * 4 /\ 2^(15 + 1) = 8192 * 8 BY Powers, SMT
  <2>2. x \in Place(15) BY <1>16, <2>1, SMT
  <2>3. 15 \in 0..22 BY SMT
  <2> HIDE DEF Place
  <2> WITNESS 15 \in 0..22
  <2> QED BY <2>2
<1>17. CASE 8192 * 8 <= x /\ x < 8192 * 16
  <2>1. 2^16 = 8192 * 8 /\ 2^(16 + 1) = 8192 * 16 BY Powers, SMT
  <2>2. x \in Place(16) BY <1>17, <2>1, SMT
  <2>3. 16 \in 0..22 BY SMT
  <2> HIDE DEF Place
  <2> WITNESS 16 \in 0..22
  <2> QED BY <2>2
<1>18. CASE 8192 * 16 <= x /\ x < 8192 * 32
  <2>1. 2^17 = 8192 * 16 /\ 2^(17 + 1) = 8192 * 32 BY Powers, SMT
  <2>2. x \in Place(17) BY <1>18, <2>1, SMT
  <2>3. 17 \in 0..22 BY SMT
  <2> HIDE DEF Place
  <2> WITNESS 17 \in 0..22
  <2> QED BY <2>2
<1>19. CASE 8192 * 32 <= x /\ x < 8192 * 64
  <2>1. 2^18 = 8192 * 32 /\ 2^(18 + 1) = 8192 * 64 BY Powers, SMT
  <2>2. x \in Place(18) BY <1>19, <2>1, SMT
  <2>3. 18 \in 0..22 BY SMT
  <2> HIDE DEF Place
  <2> WITNESS 18 \in 0..22
  <2> QED BY <2>2
<1>20. CASE 8192 * 64 <= x /\ x < 8192 * 128
  <2>1. 2^19 = 8192 * 64 /\ 2^(19 + 1) = 8192 * 128 BY Powers, SMT
  <2>2. x \in Place(19) BY <1>20, <2>1, SMT
  <2>3. 19 \in 0..22 BY SMT
  <2> HIDE DEF Place
  <2> WITNESS 19 \in 0..22
  <2> QED BY <2>2
<1>21. CASE 8192 * 128 <= x /\ x < 8192 * 256
  <2>1. 2^20 = 8192 * 128 /\ 2^(20 + 1) = 8192 * 256 BY Powers, SMT
  <2>2. x \in Place(20) BY <1>21, <2>1, SMT
  <2>3. 20 \in 0..22 BY SMT
  <2> HIDE DEF Place
  <2> WITNESS 20 \in 0..22
  <2> QED BY <2>2
<1>22. CASE 8192 * 256 <= x /\ x < 8192 * 512
  <2>1. 2^21 = 8192 * 256 /\ 2^(21 + 1) = 8192 * 512 BY Powers, SMT
  <2>2. x \in Place(21) BY <1>22, <2>1, SMT
  <2>3. 21 \in 0..22 BY SMT
  <2> HIDE DEF Place
  <2> WITNESS 21 \in 0..22
  <2> QED BY <2>2
<1>23. CASE 8192 * 512 <= x /\ x < 8192 * 1024
  <2>1. 2^22 = 8192 * 512 /\ 2^(22 + 1) = 8192 * 1024 BY Powers, SMT
  <2>2. x \in Place(22) BY <1>23, <2>1, SMT
  <2>3. 22 \in 0..22 BY SMT
  <2> HIDE DEF Place
  <2> WITNESS 22 \in 0..22
  <2> QED BY <2>2
<1> QED BY <1>1, <1>2, <1>3, <1>4, <1>5, <1>6, <1>7, <1>8, <1>9, <1>10, <1>11, <1>12, <1>13, <1>14, <1>15, <1>16, <1>17, <1>18, <1>19, <1>20, <1>21, <1>22, <1>23, SMT

(* ... and the place found is where it lies.                               *)
LEMMA TopBitPlace ==
  ASSUME NEW x, HasTopBit(x)
  PROVE  TopBit(x) \in 0..22 /\ x \in 2^TopBit(x)..(2^(TopBit(x) + 1) - 1)
BY Zenon DEF TopBit, HasTopBit

(* The bits of a factor after its leading one are dropped and rounded up   *)
(* from the middle.                                                        *)
LEMMA RoundedBits ==
  ASSUME NEW lead \in Nat, NEW K \in Nat \ {0}, NEW M,
         M = (lead \div (2 * K)) + ((lead \div K) % 2)
  PROVE  M \in Nat /\ 2 * (K * M) <= lead + K /\ lead + 1 <= 2 * (K * M) + K
<1> DEFINE q == lead \div K
           s == lead % K
           a == q \div 2
           b == q % 2
           n == 2 * K
           j == K * b + s
<1>1. q \in Nat /\ s \in 0..K - 1 /\ lead = K * q + s BY Division
<1> HIDE DEF q, s
<1>2. a \in Nat /\ b \in 0..1 /\ q = 2 * a + b BY <1>1, SMT
<1> HIDE DEF a, b
<1>3. n \in Nat \ {0} /\ n = 2 * K OBVIOUS
<1>4. b = 0 \/ b = 1 BY <1>2
<1>5. K * b = 0 \/ K * b = K BY <1>4
<1>6. j \in 0..n - 1 /\ lead = a * n + j
  <2>1. K * q = 2 * (K * a) + K * b BY <1>1, <1>2
  <2>2. a * n = 2 * (K * a) /\ K * a \in Nat BY <1>2
  <2> DEFINE x == K * a
             y == K * b
             z == K * q
  <2>3. x \in Nat /\ (y = 0 \/ y = K) /\ z = 2 * x + y /\ a * n = 2 * x /\ lead = z + s /\ j = y + s
    BY <1>1, <1>5, <2>1, <2>2
  <2> HIDE DEF x, y, z, n, j
  <2>4. j \in 0..n - 1 BY <1>1, <1>3, <2>3
  <2>5. lead = a * n + j
    <3> DEFINE w == a * n
    <3>1. w = 2 * x BY <2>3
    <3> HIDE DEF w
    <3>2. s \in Int /\ x \in Int /\ y \in Int BY <1>1, <2>3
    <3>3. lead = z + s /\ z = 2 * x + y /\ j = y + s BY <2>3
    <3>4. lead = w + j BY <3>1, <3>2, <3>3, SMT
    <3> QED BY <3>4 DEF w
  <2> QED BY <2>4, <2>5
<1> HIDE DEF n, j
<1>7. lead \div n = a BY <1>2, <1>3, <1>6, RowAndColumn
<1>8. M = a + b BY <1>3, <1>7 DEF q, b, n
<1> DEFINE x == K * a
           y == K * b
           z == K * M
<1>9. x \in Nat /\ (y = 0 \/ y = K) /\ z = x + y /\ lead = 2 * x + j /\ j = y + s
  <2>1. x \in Nat BY <1>2
  <2>2. z = x + y
    <3>1. b \in Int BY <1>4
    <3>2. K * (a + b) = K * a + K * b BY <1>2, <3>1
    <3> QED BY <1>8, <3>2
  <2>3. a * n = 2 * x BY <1>2, <1>3
  <2> QED BY <1>5, <1>6, <2>1, <2>2, <2>3 DEF j
<1> HIDE DEF x, y, z
<1>10. M \in Nat BY <1>2, <1>8
<1>11. 2 * z <= lead + K /\ lead + 1 <= 2 * z + K BY <1>1, <1>9
<1> QED BY <1>10, <1>11 DEF z

(* The shifts of a factor stored as a subnormal, by the place of its       *)
(* leading bit.                                                            *)
BelowBy(p, K) == /\ 2^(12 - p) = 2 * K /\ 2^(24 - p) = (2 * K) * 4096
                 /\ 2^((24 - p) - 1) = K * 4096
                 /\ 2^p * K = 2048 /\ 2^(p + 1) * K = 4096 /\ K >= 2

(* For each place there is one factor all the shifts share.                *)
LEMMA Below == ASSUME NEW p \in 0..10 PROVE \E K \in Nat \ {0} : BelowBy(p, K)
<1>1. CASE p = 0
  <2>1. 12 - p = 12 /\ 24 - p = 24 /\ (24 - p) - 1 = 23 BY <1>1, SMT
  <2>2. 2^(12 - p) = 2 * 2048 /\ 2^(24 - p) = (2 * 2048) * 4096
        /\ 2^((24 - p) - 1) = 2048 * 4096
    BY <2>1, Powers, SMT
  <2>3. 2^p * 2048 = 2048 /\ 2^(p + 1) * 2048 = 4096 BY <1>1, Powers, SMT
  <2> QED BY <2>2, <2>3 DEF BelowBy
<1>2. CASE p = 1
  <2>1. 12 - p = 11 /\ 24 - p = 23 /\ (24 - p) - 1 = 22 BY <1>2, SMT
  <2>2. 2^(12 - p) = 2 * 1024 /\ 2^(24 - p) = (2 * 1024) * 4096
        /\ 2^((24 - p) - 1) = 1024 * 4096
    BY <2>1, Powers, SMT
  <2>3. 2^p * 1024 = 2048 /\ 2^(p + 1) * 1024 = 4096 BY <1>2, Powers, SMT
  <2> QED BY <2>2, <2>3 DEF BelowBy
<1>3. CASE p = 2
  <2>1. 12 - p = 10 /\ 24 - p = 22 /\ (24 - p) - 1 = 21 BY <1>3, SMT
  <2>2. 2^(12 - p) = 2 * 512 /\ 2^(24 - p) = (2 * 512) * 4096
        /\ 2^((24 - p) - 1) = 512 * 4096
    BY <2>1, Powers, SMT
  <2>3. 2^p * 512 = 2048 /\ 2^(p + 1) * 512 = 4096 BY <1>3, Powers, SMT
  <2> QED BY <2>2, <2>3 DEF BelowBy
<1>4. CASE p = 3
  <2>1. 12 - p = 9 /\ 24 - p = 21 /\ (24 - p) - 1 = 20 BY <1>4, SMT
  <2>2. 2^(12 - p) = 2 * 256 /\ 2^(24 - p) = (2 * 256) * 4096
        /\ 2^((24 - p) - 1) = 256 * 4096
    BY <2>1, Powers, SMT
  <2>3. 2^p * 256 = 2048 /\ 2^(p + 1) * 256 = 4096 BY <1>4, Powers, SMT
  <2> QED BY <2>2, <2>3 DEF BelowBy
<1>5. CASE p = 4
  <2>1. 12 - p = 8 /\ 24 - p = 20 /\ (24 - p) - 1 = 19 BY <1>5, SMT
  <2>2. 2^(12 - p) = 2 * 128 /\ 2^(24 - p) = (2 * 128) * 4096
        /\ 2^((24 - p) - 1) = 128 * 4096
    BY <2>1, Powers, SMT
  <2>3. 2^p * 128 = 2048 /\ 2^(p + 1) * 128 = 4096 BY <1>5, Powers, SMT
  <2> QED BY <2>2, <2>3 DEF BelowBy
<1>6. CASE p = 5
  <2>1. 12 - p = 7 /\ 24 - p = 19 /\ (24 - p) - 1 = 18 BY <1>6, SMT
  <2>2. 2^(12 - p) = 2 * 64 /\ 2^(24 - p) = (2 * 64) * 4096
        /\ 2^((24 - p) - 1) = 64 * 4096
    BY <2>1, Powers, SMT
  <2>3. 2^p * 64 = 2048 /\ 2^(p + 1) * 64 = 4096 BY <1>6, Powers, SMT
  <2> QED BY <2>2, <2>3 DEF BelowBy
<1>7. CASE p = 6
  <2>1. 12 - p = 6 /\ 24 - p = 18 /\ (24 - p) - 1 = 17 BY <1>7, SMT
  <2>2. 2^(12 - p) = 2 * 32 /\ 2^(24 - p) = (2 * 32) * 4096
        /\ 2^((24 - p) - 1) = 32 * 4096
    BY <2>1, Powers, SMT
  <2>3. 2^p * 32 = 2048 /\ 2^(p + 1) * 32 = 4096 BY <1>7, Powers, SMT
  <2> QED BY <2>2, <2>3 DEF BelowBy
<1>8. CASE p = 7
  <2>1. 12 - p = 5 /\ 24 - p = 17 /\ (24 - p) - 1 = 16 BY <1>8, SMT
  <2>2. 2^(12 - p) = 2 * 16 /\ 2^(24 - p) = (2 * 16) * 4096
        /\ 2^((24 - p) - 1) = 16 * 4096
    BY <2>1, Powers, SMT
  <2>3. 2^p * 16 = 2048 /\ 2^(p + 1) * 16 = 4096 BY <1>8, Powers, SMT
  <2> QED BY <2>2, <2>3 DEF BelowBy
<1>9. CASE p = 8
  <2>1. 12 - p = 4 /\ 24 - p = 16 /\ (24 - p) - 1 = 15 BY <1>9, SMT
  <2>2. 2^(12 - p) = 2 * 8 /\ 2^(24 - p) = (2 * 8) * 4096
        /\ 2^((24 - p) - 1) = 8 * 4096
    BY <2>1, Powers, SMT
  <2>3. 2^p * 8 = 2048 /\ 2^(p + 1) * 8 = 4096 BY <1>9, Powers, SMT
  <2> QED BY <2>2, <2>3 DEF BelowBy
<1>10. CASE p = 9
  <2>1. 12 - p = 3 /\ 24 - p = 15 /\ (24 - p) - 1 = 14 BY <1>10, SMT
  <2>2. 2^(12 - p) = 2 * 4 /\ 2^(24 - p) = (2 * 4) * 4096
        /\ 2^((24 - p) - 1) = 4 * 4096
    BY <2>1, Powers, SMT
  <2>3. 2^p * 4 = 2048 /\ 2^(p + 1) * 4 = 4096 BY <1>10, Powers, SMT
  <2> QED BY <2>2, <2>3 DEF BelowBy
<1>11. CASE p = 10
  <2>1. 12 - p = 2 /\ 24 - p = 14 /\ (24 - p) - 1 = 13 BY <1>11, SMT
  <2>2. 2^(12 - p) = 2 * 2 /\ 2^(24 - p) = (2 * 2) * 4096
        /\ 2^((24 - p) - 1) = 2 * 4096
    BY <2>1, Powers, SMT
  <2>3. 2^p * 2 = 2048 /\ 2^(p + 1) * 2 = 4096 BY <1>11, Powers, SMT
  <2> QED BY <2>2, <2>3 DEF BelowBy
<1>12. p = 0 \/ p = 1 \/ p = 2 \/ p = 3 \/ p = 4 \/ p = 5 \/ p = 6 \/ p = 7 \/ p = 8 \/ p = 9
         \/ p = 10 BY SMT
<1> QED BY <1>1, <1>2, <1>3, <1>4, <1>5, <1>6, <1>7, <1>8, <1>9, <1>10, <1>11, <1>12

(* ... and of one stored as a normal half.                                 *)
AboveBy(p, k) == /\ 2^(p - 11) = k /\ 2^(p - 10) = 2 * k /\ 2^p = 2048 * k /\ 2^(p + 1) = 4096 * k
                 /\ IF p <= 12 THEN 2^(12 - p) * k = 2 ELSE 2 * 2^(p - 12) = k

(* There, too, the shifts share a factor.                                  *)
LEMMA Above == ASSUME NEW p \in 11..22 PROVE \E k \in Nat \ {0} : AboveBy(p, k)
<1>1. CASE p = 11
  <2>1. p - 11 = 0 /\ p - 10 = 1 /\ 12 - p = 1 /\ p <= 12 BY <1>1, SMT
  <2>2. 2^(p - 11) = 1 /\ 2^(p - 10) = 2 * 1 /\ 2^(12 - p) * 1 = 2 BY <2>1, Powers, SMT
  <2>3. 2^p = 2048 * 1 /\ 2^(p + 1) = 4096 * 1 BY <1>1, Powers, SMT
  <2> QED BY <2>1, <2>2, <2>3, SMT DEF AboveBy
<1>2. CASE p = 12
  <2>1. p - 11 = 1 /\ p - 10 = 2 /\ 12 - p = 0 /\ p <= 12 BY <1>2, SMT
  <2>2. 2^(p - 11) = 2 /\ 2^(p - 10) = 2 * 2 /\ 2^(12 - p) * 2 = 2 BY <2>1, Powers, SMT
  <2>3. 2^p = 2048 * 2 /\ 2^(p + 1) = 4096 * 2 BY <1>2, Powers, SMT
  <2> QED BY <2>1, <2>2, <2>3, SMT DEF AboveBy
<1>3. CASE p = 13
  <2>1. p - 11 = 2 /\ p - 10 = 3 /\ p - 12 = 1 /\ ~(p <= 12) BY <1>3, SMT
  <2>2. 2^(p - 11) = 4 /\ 2^(p - 10) = 2 * 4 /\ 2 * 2^(p - 12) = 4 BY <2>1, Powers, SMT
  <2>3. 2^p = 2048 * 4 /\ 2^(p + 1) = 4096 * 4 BY <1>3, Powers, SMT
  <2> QED BY <2>1, <2>2, <2>3, SMT DEF AboveBy
<1>4. CASE p = 14
  <2>1. p - 11 = 3 /\ p - 10 = 4 /\ p - 12 = 2 /\ ~(p <= 12) BY <1>4, SMT
  <2>2. 2^(p - 11) = 8 /\ 2^(p - 10) = 2 * 8 /\ 2 * 2^(p - 12) = 8 BY <2>1, Powers, SMT
  <2>3. 2^p = 2048 * 8 /\ 2^(p + 1) = 4096 * 8 BY <1>4, Powers, SMT
  <2> QED BY <2>1, <2>2, <2>3, SMT DEF AboveBy
<1>5. CASE p = 15
  <2>1. p - 11 = 4 /\ p - 10 = 5 /\ p - 12 = 3 /\ ~(p <= 12) BY <1>5, SMT
  <2>2. 2^(p - 11) = 16 /\ 2^(p - 10) = 2 * 16 /\ 2 * 2^(p - 12) = 16 BY <2>1, Powers, SMT
  <2>3. 2^p = 2048 * 16 /\ 2^(p + 1) = 4096 * 16 BY <1>5, Powers, SMT
  <2> QED BY <2>1, <2>2, <2>3, SMT DEF AboveBy
<1>6. CASE p = 16
  <2>1. p - 11 = 5 /\ p - 10 = 6 /\ p - 12 = 4 /\ ~(p <= 12) BY <1>6, SMT
  <2>2. 2^(p - 11) = 32 /\ 2^(p - 10) = 2 * 32 /\ 2 * 2^(p - 12) = 32 BY <2>1, Powers, SMT
  <2>3. 2^p = 2048 * 32 /\ 2^(p + 1) = 4096 * 32 BY <1>6, Powers, SMT
  <2> QED BY <2>1, <2>2, <2>3, SMT DEF AboveBy
<1>7. CASE p = 17
  <2>1. p - 11 = 6 /\ p - 10 = 7 /\ p - 12 = 5 /\ ~(p <= 12) BY <1>7, SMT
  <2>2. 2^(p - 11) = 64 /\ 2^(p - 10) = 2 * 64 /\ 2 * 2^(p - 12) = 64 BY <2>1, Powers, SMT
  <2>3. 2^p = 2048 * 64 /\ 2^(p + 1) = 4096 * 64 BY <1>7, Powers, SMT
  <2> QED BY <2>1, <2>2, <2>3, SMT DEF AboveBy
<1>8. CASE p = 18
  <2>1. p - 11 = 7 /\ p - 10 = 8 /\ p - 12 = 6 /\ ~(p <= 12) BY <1>8, SMT
  <2>2. 2^(p - 11) = 128 /\ 2^(p - 10) = 2 * 128 /\ 2 * 2^(p - 12) = 128 BY <2>1, Powers, SMT
  <2>3. 2^p = 2048 * 128 /\ 2^(p + 1) = 4096 * 128 BY <1>8, Powers, SMT
  <2> QED BY <2>1, <2>2, <2>3, SMT DEF AboveBy
<1>9. CASE p = 19
  <2>1. p - 11 = 8 /\ p - 10 = 9 /\ p - 12 = 7 /\ ~(p <= 12) BY <1>9, SMT
  <2>2. 2^(p - 11) = 256 /\ 2^(p - 10) = 2 * 256 /\ 2 * 2^(p - 12) = 256 BY <2>1, Powers, SMT
  <2>3. 2^p = 2048 * 256 /\ 2^(p + 1) = 4096 * 256 BY <1>9, Powers, SMT
  <2> QED BY <2>1, <2>2, <2>3, SMT DEF AboveBy
<1>10. CASE p = 20
  <2>1. p - 11 = 9 /\ p - 10 = 10 /\ p - 12 = 8 /\ ~(p <= 12) BY <1>10, SMT
  <2>2. 2^(p - 11) = 512 /\ 2^(p - 10) = 2 * 512 /\ 2 * 2^(p - 12) = 512 BY <2>1, Powers, SMT
  <2>3. 2^p = 2048 * 512 /\ 2^(p + 1) = 4096 * 512 BY <1>10, Powers, SMT
  <2> QED BY <2>1, <2>2, <2>3, SMT DEF AboveBy
<1>11. CASE p = 21
  <2>1. p - 11 = 10 /\ p - 10 = 11 /\ p - 12 = 9 /\ ~(p <= 12) BY <1>11, SMT
  <2>2. 2^(p - 11) = 1024 /\ 2^(p - 10) = 2 * 1024 /\ 2 * 2^(p - 12) = 1024 BY <2>1, Powers, SMT
  <2>3. 2^p = 2048 * 1024 /\ 2^(p + 1) = 4096 * 1024 BY <1>11, Powers, SMT
  <2> QED BY <2>1, <2>2, <2>3, SMT DEF AboveBy
<1>12. CASE p = 22
  <2>1. p - 11 = 11 /\ p - 10 = 12 /\ p - 12 = 10 /\ ~(p <= 12) BY <1>12, SMT
  <2>2. 2^(p - 11) = 2048 /\ 2^(p - 10) = 2 * 2048 /\ 2 * 2^(p - 12) = 2048 BY <2>1, Powers, SMT
  <2>3. 2^p = 2048 * 2048 /\ 2^(p + 1) = 4096 * 2048 BY <1>12, Powers, SMT
  <2> QED BY <2>1, <2>2, <2>3, SMT DEF AboveBy
<1>13. p = 11 \/ p = 12 \/ p = 13 \/ p = 14 \/ p = 15 \/ p = 16 \/ p = 17 \/ p = 18 \/ p = 19
         \/ p = 20 \/ p = 21 \/ p = 22 BY SMT
<1> QED BY <1>1, <1>2, <1>3, <1>4, <1>5, <1>6, <1>7, <1>8, <1>9, <1>10, <1>11, <1>12, <1>13

(* The leading bits of num * 2 * K / den, twelve of them.                  *)
LeadBits(lead, num, den, K) == /\ lead \in Nat /\ 2048 <= lead /\ lead < 4096
                               /\ den * lead <= 2 * (num * K)
                               /\ 2 * (num * K) < den * (lead + 1)

(* What lies so near the leading bits lies near the whole.                 *)
LEMMA NearByBits ==
  ASSUME NEW num \in Nat, NEW den \in Nat \ {0}, NEW lead, NEW K \in Nat \ {0}, NEW M \in Nat,
         LeadBits(lead, num, den, K), 2 * (K * M) <= lead + K, lead + 1 <= 2 * (K * M) + K
  PROVE  2 * (den * M) - 2 * num <= den /\ 2 * num - 2 * (den * M) <= den
<1> DEFINE x == den * (K * M)
           y == den * lead
           z == num * K
           w == den * K
           e == den * M
<1>1. lead \in Nat /\ y <= 2 * z /\ 2 * z < den * (lead + 1) BY DEF LeadBits
<1>2. x \in Nat /\ y \in Nat /\ z \in Nat /\ w \in Nat /\ e \in Nat BY <1>1
<1>3. den * (lead + 1) = y + den BY <1>1
<1>4. 2 * x <= y + w
  <2>1. den * ((lead + K) - 2 * (K * M)) >= 0 BY <1>1
  <2>2. den * ((lead + K) - 2 * (K * M)) = y + w - 2 * x BY <1>1
  <2> HIDE DEF x, y, w
  <2> QED BY <1>2, <2>1, <2>2
<1>5. y + den <= 2 * x + w
  <2>1. den * ((2 * (K * M) + K) - (lead + 1)) >= 0 BY <1>1
  <2>2. den * ((2 * (K * M) + K) - (lead + 1)) = 2 * x + w - y - den BY <1>1
  <2> HIDE DEF x, y, w
  <2> QED BY <1>2, <2>1, <2>2
<1> DEFINE a == 2 * e - 2 * num - den
           b == 2 * num - 2 * e - den
<1>6. a \in Int /\ b \in Int BY <1>2
<1>7. K * a = 2 * x - 2 * z - w /\ K * b = 2 * z - 2 * x - w
  <2>1. K * e = x BY SMT
  <2>2. K * a = 2 * (K * e) - 2 * (K * num) - K * den BY <1>2, SMT
  <2>3. K * b = 2 * (K * num) - 2 * (K * e) - K * den BY <1>2, SMT
  <2>4. K * num = z /\ K * den = w BY SMT
  <2> QED BY <2>1, <2>2, <2>3, <2>4
<1>8. K * a <= 0 /\ K * b <= 0
  <2> DEFINE c == den * (lead + 1)
  <2> HIDE DEF x, y, z, w, a, b
  <2>1. c = y + den /\ 2 * z < c BY <1>1, <1>3
  <2> HIDE DEF c
  <2>2. 2 * x - 2 * z - w <= 0 /\ 2 * z - 2 * x - w <= 0 BY <1>1, <1>2, <1>4, <1>5, <2>1
  <2> QED BY <1>7, <2>2
<1> HIDE DEF a, b
<1>9. a <= 0 /\ b <= 0
  <2>1. ASSUME a >= 1 PROVE FALSE
    <3>1. K * a >= 1 BY <1>6, <2>1
    <3> QED BY <1>6, <1>8, <3>1
  <2>2. ASSUME b >= 1 PROVE FALSE
    <3>1. K * b >= 1 BY <1>6, <2>2
    <3> QED BY <1>6, <1>8, <3>1
  <2> QED BY <1>6, <2>1, <2>2
<1> HIDE DEF e
<1>10. 2 * e - 2 * num <= den /\ 2 * num - 2 * e <= den BY <1>2, <1>9 DEF a, b
<1> QED BY <1>10 DEF e

(* A quotient lies where its dividend does.                                *)
LEMMA QuotientIn ==
  ASSUME NEW x \in Nat, NEW d \in Nat \ {0}, NEW lo \in Nat, NEW hi \in Nat, d * lo <= x, x < d * hi
  PROVE  /\ x \div d \in Nat /\ lo <= x \div d /\ x \div d < hi
         /\ d * (x \div d) <= x /\ x < d * ((x \div d) + 1)
<1> DEFINE q == x \div d
           r == x % d
<1>1. q \in Nat /\ r \in 0..d - 1 /\ x = d * q + r BY Division
<1> HIDE DEF q, r
<1>2. d * (q + 1) = d * q + d /\ d * q \in Nat BY <1>1
<1>3. d * q <= x /\ x < d * (q + 1)
  <2> DEFINE y == d * q
             z == d * (q + 1)
  <2> HIDE DEF y, z
  <2>1. y \in Nat /\ z = y + d /\ x = y + r BY <1>1, <1>2 DEF y, z
  <2>2. y <= x /\ x < z BY <1>1, <2>1
  <2> QED BY <2>2 DEF y, z
<1>4. lo <= q
  <2>1. ASSUME q + 1 <= lo PROVE FALSE
    <3>1. d * (lo - (q + 1)) >= 0 BY <1>1, <2>1
    <3>2. d * (lo - (q + 1)) = d * lo - d * (q + 1) BY <1>1
    <3> DEFINE y == d * lo
               z == d * (q + 1)
    <3>3. y \in Int /\ z \in Int BY <1>1
    <3> HIDE DEF y, z
    <3>4. y - z >= 0 /\ y <= x /\ x < z BY <1>3, <3>1, <3>2 DEF y, z
    <3> QED BY <3>3, <3>4
  <2> QED BY <1>1, <2>1
<1>5. q < hi
  <2>1. ASSUME hi <= q PROVE FALSE
    <3>1. d * (q - hi) >= 0 BY <1>1, <2>1
    <3>2. d * (q - hi) = d * q - d * hi BY <1>1
    <3> DEFINE y == d * hi
               z == d * q
    <3>3. y \in Int /\ z \in Int BY <1>1
    <3> HIDE DEF y, z
    <3>4. z - y >= 0 /\ z <= x /\ x < y BY <1>3, <3>1, <3>2 DEF y, z
    <3> QED BY <3>3, <3>4
  <2> QED BY <1>1, <2>1
<1> QED BY <1>1, <1>3, <1>4, <1>5 DEF q

(* The octave p of a factor, in half units of 2^-24.                       *)
Octave(p, num, den) == p \in 0..22 /\ (2 * num) \div den \in 2^p..(2^(p + 1) - 1)

(* A factor lies between the powers of its octave.                         *)
LEMMA InOctave ==
  ASSUME NEW num \in Nat, NEW den \in Nat \ {0}, NEW p, Octave(p, num, den),
         NEW lo \in Nat, NEW hi \in Nat, 2^p = lo, 2^(p + 1) = hi
  PROVE  den * lo <= 2 * num /\ 2 * num < den * hi
<1> DEFINE x == 2 * num
           r == x \div den
<1>1. lo <= r /\ r < hi
  <2>1. r \in 2^p..(2^(p + 1) - 1) BY DEF Octave
  <2> HIDE DEF r
  <2>2. r \in lo..(hi - 1) BY <2>1
  <2> QED BY <2>2
<1>2. x \in Nat OBVIOUS
<1> HIDE DEF x
<1> DEFINE s == x % den
<1>3. r \in Nat /\ s \in 0..den - 1 /\ x = den * r + s BY <1>2, Division
<1> HIDE DEF r, s
<1>4. den * (r - lo) >= 0 /\ den * (hi - (r + 1)) >= 0 BY <1>1, <1>3
<1>5. den * (r - lo) = den * r - den * lo /\ den * (hi - (r + 1)) = den * hi - den * r - den
  BY <1>3
<1> DEFINE a == den * lo
           b == den * hi
           c == den * r
<1>6. a \in Int /\ b \in Int /\ c \in Int BY <1>3
<1> HIDE DEF a, b, c
<1>7. c - a >= 0 /\ b - c - den >= 0 /\ x = c + s BY <1>3, <1>4, <1>5 DEF a, b, c
<1>8. a <= x /\ x < b BY <1>2, <1>3, <1>6, <1>7
<1> QED BY <1>8 DEF a, b, x

(* The leading bits of a factor below the normal halves.                   *)
LEMMA LeadBelow ==
  ASSUME NEW num \in Nat, NEW den \in Nat \ {0}, NEW p, Octave(p, num, den),
         NEW K \in Nat \ {0}, BelowBy(p, K), 2^p \in Nat, 2^(p + 1) \in Nat
  PROVE  LeadBits((num * 2^(12 - p)) \div den, num, den, K)
<1> DEFINE lo == 2^p
           hi == 2^(p + 1)
           x == 2 * (num * K)
<1>1. lo \in Nat /\ hi \in Nat /\ lo * K = 2048 /\ hi * K = 4096 BY DEF BelowBy
<1>2. den * lo <= 2 * num /\ 2 * num < den * hi BY InOctave
<1>3. num * 2^(12 - p) = x BY SMT DEF BelowBy
<1> HIDE DEF lo, hi
<1>4. x \in Nat BY SMT
<1>5. den * 2048 <= x /\ x < den * 4096
  <2>1. K * (2 * num - den * lo) >= 0 BY <1>1, <1>2
  <2>2. K * (den * hi - 2 * num) >= K
    <3> DEFINE y == den * hi - 2 * num
    <3>1. y \in Int /\ y >= 1 BY <1>1, <1>2
    <3> HIDE DEF y
    <3>2. K * (y - 1) >= 0 BY <3>1
    <3>3. K * (y - 1) = K * y - K BY <3>1
    <3>4. K * y \in Int BY <3>1
    <3>5. K * y >= K BY <3>2, <3>3, <3>4
    <3> QED BY <3>5 DEF y
  <2>3. K * (den * lo) = den * 2048 /\ K * (den * hi) = den * 4096
    <3>1. K * (den * lo) = den * (lo * K) /\ K * (den * hi) = den * (hi * K) BY <1>1
    <3> QED BY <1>1, <3>1
  <2>4. K * (2 * num - den * lo) = x - K * (den * lo)
        /\ K * (den * hi - 2 * num) = K * (den * hi) - x BY <1>1
  <2>5. x - den * 2048 >= 0 /\ den * 4096 - x >= K BY <2>1, <2>2, <2>3, <2>4
  <2> HIDE DEF x
  <2> QED BY <1>4, <2>5
<1> HIDE DEF x
<1> DEFINE q == x \div den
<1>6. /\ q \in Nat /\ 2048 <= q /\ q < 4096 /\ den * q <= x /\ x < den * (q + 1)
  BY <1>4, <1>5, QuotientIn
<1> HIDE DEF q
<1>7. LeadBits(q, num, den, K) BY <1>6 DEF LeadBits, x
<1> QED BY <1>3, <1>7 DEF q

(* ... and of one among them.                                              *)
LEMMA LeadAbove ==
  ASSUME NEW num \in Nat, NEW den \in Nat \ {0}, NEW p, Octave(p, num, den),
         NEW k \in Nat \ {0}, AboveBy(p, k),
         p <= 12 => 2^(12 - p) \in Nat \ {0}, ~(p <= 12) => 2^(p - 12) \in Nat \ {0}
  PROVE  LeadBits(IF p <= 12 THEN (num * 2^(12 - p)) \div den ELSE num \div (den * 2^(p - 12)),
                  num, den * k, 1)
<1> DEFINE lo == 2048 * k
           hi == 4096 * k
           n == den * k
<1>1. lo \in Nat /\ hi \in Nat /\ 2^p = lo /\ 2^(p + 1) = hi BY DEF AboveBy
<1>2. den * lo <= 2 * num /\ 2 * num < den * hi
  <2> HIDE DEF lo, hi
  <2> QED BY <1>1, InOctave
<1>3. n \in Nat \ {0} /\ den * lo = n * 2048 /\ den * hi = n * 4096
  <2>1. n \in Nat /\ n > 0 BY SMT
  <2> QED BY <2>1
<1>4. 2 * (num * 1) = 2 * num OBVIOUS
<1>5. CASE p <= 12
  <2> DEFINE c == 2^(12 - p)
  <2>1. c \in Nat \ {0} /\ c * k = 2 BY <1>5 DEF AboveBy
  <2> HIDE DEF c
  <2> DEFINE x == num * c
             q == x \div den
  <2>2. x \in Nat /\ x * k = 2 * num
    <3>1. x * k = num * (c * k) BY <2>1
    <3>2. num * 2 = 2 * num OBVIOUS
    <3> QED BY <2>1, <3>1, <3>2
  <2>3. k = 1 \/ k = 2
    <3>1. ASSUME k >= 3 PROVE FALSE
      <4>1. c * k >= k BY <2>1
      <4> QED BY <2>1, <3>1, <4>1
    <3> QED BY <3>1
  <2>4. den * 2048 <= x /\ x < den * 4096
    <3>1. CASE k = 1
      <4>1. n = den /\ x = 2 * num BY <2>2, <3>1
      <4> QED BY <1>2, <1>3, <4>1
    <3>2. CASE k = 2
      <4>1. n = 2 * den /\ x = num BY <2>2, <3>2
      <4> QED BY <1>2, <1>3, <4>1
    <3> QED BY <2>3, <3>1, <3>2
  <2>7. x \in Nat BY <2>2
  <2> HIDE DEF x, n, lo, hi
  <2>5. /\ q \in Nat /\ 2048 <= q /\ q < 4096 /\ den * q <= x /\ x < den * (q + 1)
    <3>1. den * 2048 <= x /\ x < den * 4096 /\ 2048 \in Nat /\ 4096 \in Nat BY <2>4
    <3> QED BY <2>7, <3>1, QuotientIn
  <2> HIDE DEF q
  <2>6. n * q <= 2 * num /\ 2 * num < n * (q + 1)
    <3>1. CASE k = 1
      <4>1. n = den /\ x = 2 * num BY <2>2, <3>1 DEF n
      <4> QED BY <2>5, <4>1
    <3>2. CASE k = 2
      <4>1. n * q = 2 * (den * q) /\ n * (q + 1) = 2 * (den * (q + 1)) /\ x = num
        BY <2>2, <2>5, <3>2 DEF n
      <4> DEFINE y == den * q
                 z == den * (q + 1)
      <4>2. y \in Int /\ z \in Int BY <2>5
      <4> HIDE DEF y, z, n
      <4>3. y <= num /\ num < z BY <2>5, <4>1 DEF y, z
      <4>4. 2 * y <= 2 * num /\ 2 * num < 2 * z BY <4>2, <4>3
      <4> QED BY <4>1, <4>4 DEF y, z
    <3> QED BY <2>3, <3>1, <3>2
  <2>8. LeadBits(q, num, n, 1) BY <1>4, <2>5, <2>6 DEF LeadBits
  <2> QED BY <1>5, <2>8 DEF q, x, c, n
<1>6. CASE ~(p <= 12)
  <2> DEFINE c == 2^(p - 12)
  <2>1. c \in Nat \ {0} /\ 2 * c = k BY <1>6 DEF AboveBy
  <2> HIDE DEF c
  <2> DEFINE m == den * c
             q == num \div m
  <2>2. m \in Nat \ {0} /\ n = 2 * m
    <3>1. n = 2 * (den * c) BY <2>1
    <3>2. m \in Nat /\ m > 0 BY <2>1, SMT
    <3> QED BY <3>1, <3>2
  <2> HIDE DEF m, n
  <2>3. m * 2048 <= num /\ num < m * 4096 BY <1>2, <1>3, <2>2
  <2>4. /\ q \in Nat /\ 2048 <= q /\ q < 4096 /\ m * q <= num /\ num < m * (q + 1)
    BY <2>2, <2>3, QuotientIn
  <2> HIDE DEF q
  <2>5. n * q <= 2 * num /\ 2 * num < n * (q + 1)
    <3>1. n * q = 2 * (m * q) /\ n * (q + 1) = 2 * (m * (q + 1)) BY <2>2, <2>4
    <3> DEFINE y == m * q
               z == m * (q + 1)
    <3>2. y \in Int /\ z \in Int BY <2>2, <2>4
    <3> HIDE DEF y, z
    <3>3. y <= num /\ num < z BY <2>4 DEF y, z
    <3>4. 2 * y <= 2 * num /\ 2 * num < 2 * z BY <3>2, <3>3
    <3> QED BY <3>1, <3>4 DEF y, z
  <2>6. LeadBits(q, num, n, 1) BY <1>4, <2>4, <2>5 DEF LeadBits
  <2> QED BY <1>6, <2>6 DEF q, m, c, n
<1> QED BY <1>5, <1>6

(* A half as near to the factor num / den as can be, or the zero a factor  *)
(* just below the least normal half becomes.                               *)
NearHalf(h, num, den) ==
  /\ h \in Half /\ h.exp < 31 /\ Units(h) \in Nat /\ Unit(h) \in Nat
  /\ \/ Units(h) = 0 /\ den <= 2 * num
     \/ /\ 2 * (den * Units(h)) - 2 * num <= den * Unit(h)
        /\ 2 * num - 2 * (den * Units(h)) <= den * Unit(h)

(* The float of a factor, by its leading bits.                             *)
FloatOf(lead, p) == [sign |-> 0, exp |-> (p - 25) + 127, frac |-> (lead - 2^11) * 2^12]

(* A factor below the normal halves is stored as near as can be.           *)
LEMMA StoredBelow ==
  ASSUME NEW num \in Nat, NEW den \in Nat \ {0}, den <= 2 * num, NEW p \in 0..10,
         NEW K \in Nat \ {0}, BelowBy(p, K), NEW lead, LeadBits(lead, num, den, K)
  PROVE  NearHalf(ToHalf(FloatOf(lead, p)), num, den)
<1> DEFINE f == FloatOf(lead, p)
           M == (lead \div (2 * K)) + ((lead \div K) % 2)
           h == [sign |-> 0, exp |-> 0, frac |-> M % 1024]
           x == lead * 4096
           a == lead \div (2 * K)
           b == lead \div K
<1>1. lead \in Nat /\ 2048 <= lead /\ lead < 4096 BY DEF LeadBits
<1>2. M \in Nat /\ 2 * (K * M) <= lead + K /\ lead + 1 <= 2 * (K * M) + K
  <2>1. lead \in Nat /\ M = (lead \div (2 * K)) + ((lead \div K) % 2) BY <1>1
  <2> HIDE DEF M
  <2> QED BY <2>1, RoundedBits
<1>3. 2^11 = 2048 /\ 2^12 = 4096 /\ 2^23 = 8192 * 1024 BY Powers, SMT
<1>4. f.sign = 0 /\ f.exp # 255 /\ (f.exp - 127) + 15 = p - 10 /\ f.frac + 2^23 = x
  <2>1. f.sign = 0 /\ f.exp = (p - 25) + 127 /\ f.frac = (lead - 2048) * 4096
    BY <1>3 DEF FloatOf
  <2> HIDE DEF f
  <2> QED BY <1>1, <1>3, <2>1, SMT
<1>5. ShiftRounded(x, 24 - p) = M
  <2>1. 2^(24 - p) = (2 * K) * 4096 /\ 2^((24 - p) - 1) = K * 4096 BY DEF BelowBy
  <2>2. (lead * 4096) \div ((2 * K) * 4096) = a
    <3> DEFINE n == 2 * K
               t == 4096
    <3>1. n \in Nat \ {0} /\ t \in Nat \ {0} OBVIOUS
    <3> HIDE DEF n, t
    <3>2. (lead * t) \div (n * t) = lead \div n BY <1>1, <3>1, Multiplied
    <3> QED BY <3>2 DEF n, t
  <2>3. (lead * 4096) \div (K * 4096) = b
    <3> DEFINE t == 4096
    <3>1. t \in Nat \ {0} OBVIOUS
    <3> HIDE DEF t
    <3>2. (lead * t) \div (K * t) = lead \div K BY <1>1, <3>1, Multiplied
    <3> QED BY <3>2 DEF t
  <2>4. ShiftRounded(x, 24 - p) = (x \div 2^(24 - p)) + ((x \div 2^((24 - p) - 1)) % 2)
    BY DEF ShiftRounded
  <2> HIDE DEF a, b
  <2>5. ShiftRounded(x, 24 - p) = a + (b % 2) BY <2>1, <2>2, <2>3, <2>4
  <2> QED BY <2>5 DEF a, b
<1> HIDE DEF f, M, x
<1>6. ToHalf(f) = h
  <2> DEFINE e == p - 10
  <2>1. e \in Int /\ -10 <= e /\ e <= 0 /\ 14 - e = 24 - p BY SMT
  <2>2. (f.exp - 127) + 15 = e BY <1>4
  <2> HIDE DEF e
  <2>3. ToHalf(f) = [sign |-> f.sign, exp |-> 0,
                     frac |-> ShiftRounded(f.frac + 2^23, 14 - e) % 1024]
    BY <1>4, <2>1, <2>2, ToHalfSubnormal
  <2>4. ShiftRounded(f.frac + 2^23, 14 - e) = M BY <1>4, <1>5, <2>1
  <2> QED BY <1>4, <2>3, <2>4
<1>7. M <= 1024
  <2>1. ASSUME M >= 1025 PROVE FALSE
    <3> DEFINE y == K * M
    <3>1. K * (M - 1025) >= 0 /\ K * (M - 1025) = y - 1025 * K BY <1>2, <2>1
    <3>2. y \in Int /\ K >= 2 BY <1>2 DEF BelowBy
    <3> HIDE DEF y
    <3>3. 2 * y <= lead + K BY <1>2 DEF y
    <3> QED BY <1>1, <3>1, <3>2, <3>3, SMT
  <2> QED BY <1>2, <2>1
<1>8. h \in Half /\ h.exp = 0 /\ h.frac = M % 1024
  <2>1. M % 1024 \in 0..1023 BY <1>2, SMT
  <2>2. 2^10 - 1 = 1023 BY Powers, SMT
  <2> DEFINE m == M % 1024
  <2> HIDE DEF m
  <2>3. m \in 0..(2^10 - 1) BY <2>1, <2>2 DEF m
  <2> QED BY <2>3 DEF Half, m
<1>9. Units(h) = M % 1024 /\ Unit(h) = 1
  <2> HIDE DEF h
  <2> QED BY <1>8 DEF Units, Unit
<1> HIDE DEF h
<1>10. CASE M = 1024
  <2>1. M % 1024 = 0 BY <1>10, SMT
  <2>2. Units(h) = 0 /\ h.exp < 31 BY <1>8, <1>9, <2>1
  <2> QED BY <1>6, <1>8, <1>9, <2>2 DEF NearHalf, f
<1>11. CASE M # 1024
  <2>1. M % 1024 = M BY <1>2, <1>7, <1>11, SMT
  <2>2. 2 * (den * M) - 2 * num <= den /\ 2 * num - 2 * (den * M) <= den
    BY <1>2, NearByBits
  <2>3. Units(h) = M /\ Unit(h) = 1 /\ h.exp < 31 BY <1>8, <1>9, <2>1
  <2>4. den * Unit(h) = den BY <2>3
  <2>5. /\ 2 * (den * Units(h)) - 2 * num <= den * Unit(h)
        /\ 2 * num - 2 * (den * Units(h)) <= den * Unit(h) BY <2>2, <2>3, <2>4
  <2> QED BY <1>2, <1>6, <1>8, <2>3, <2>5 DEF NearHalf, f
<1> QED BY <1>10, <1>11

(* ... and so is one among them.                                           *)
LEMMA StoredAbove ==
  ASSUME NEW num \in Nat, NEW den \in Nat \ {0}, NEW p \in 11..22,
         NEW k \in Nat \ {0}, AboveBy(p, k), NEW lead, LeadBits(lead, num, den * k, 1)
  PROVE  NearHalf(ToHalf(FloatOf(lead, p)), num, den)
<1> DEFINE f == FloatOf(lead, p)
           t == lead - 2048
           norm == (t \div 2) + (t % 2)
           M == 1024 + norm
           e == p - 10
           n == den * k
<1>1. lead \in Nat /\ 2048 <= lead /\ lead < 4096 BY DEF LeadBits
<1>2. /\ norm \in Nat /\ norm <= 1024
      /\ 2 * M <= lead + 1 /\ lead + 1 <= 2 * M + 1
  BY <1>1, SMT
<1>3. f.sign = 0 /\ f.exp # 255 /\ (f.exp - 127) + 15 = e /\ f.frac = t * 4096
  <2>1. 2^11 = 2048 /\ 2^12 = 4096 BY Powers, SMT
  <2>2. f.sign = 0 /\ f.exp = (p - 25) + 127 /\ f.frac = t * 4096
    BY <2>1 DEF FloatOf
  <2> HIDE DEF f
  <2> QED BY <2>2, SMT
<1>4. ShiftRounded(f.frac, 13) = norm
  <2>1. 2^13 = 8192 /\ 2^(13 - 1) = 4096 BY Powers, SMT
  <2> HIDE DEF f
  <2>2. ShiftRounded(f.frac, 13) = (f.frac \div 8192) + ((f.frac \div 4096) % 2)
    BY <2>1, SMT DEF ShiftRounded
  <2>3. t \in Nat BY <1>1, SMT
  <2> HIDE DEF t
  <2>4. (t * 4096) \div 8192 = t \div 2 /\ (t * 4096) \div 4096 = t BY <2>3, SMT
  <2> QED BY <1>3, <2>2, <2>4
<1>5. e \in Int /\ 1 <= e /\ e <= 12 /\ e - 1 = p - 11 /\ (e + 1) - 1 = p - 10 BY SMT
<1> HIDE DEF f, norm, e
<1>6. ToHalf(f) = IF norm < 1024 THEN [sign |-> f.sign, exp |-> e, frac |-> norm]
                  ELSE IF e + 1 >= 31 THEN [sign |-> f.sign, exp |-> 31, frac |-> 0]
                  ELSE [sign |-> f.sign, exp |-> e + 1, frac |-> 0]
  <2>1. norm \in Int /\ e <= 30 BY <1>2, <1>5
  <2> QED BY <1>3, <1>4, <1>5, <2>1, ToHalfNormal
<1>7. 2^(p - 11) = k /\ 2^(p - 10) = 2 * k BY DEF AboveBy
<1>8. n \in Nat \ {0}
  <2>1. n \in Nat /\ n > 0 BY SMT
  <2> QED BY <2>1
<1>9. 2 * (n * M) - 2 * num <= n /\ 2 * num - 2 * (n * M) <= n
  <2> DEFINE K == 1
  <2>1. K \in Nat \ {0} /\ K = 1 OBVIOUS
  <2>2. LeadBits(lead, num, n, K) OBVIOUS
  <2> HIDE DEF K, n
  <2>3. M \in Nat BY <1>2
  <2> HIDE DEF M
  <2>4. K * M = M BY <2>1, <2>3
  <2>5. 2 * (K * M) <= lead + K /\ lead + 1 <= 2 * (K * M) + K BY <1>2, <2>1, <2>4 DEF M
  <2> QED BY <1>8, <2>1, <2>2, <2>3, <2>5, NearByBits
<1>10. 2^10 - 1 = 1023 BY Powers, SMT
<1>11. CASE norm < 1024
  <2> DEFINE h == [sign |-> 0, exp |-> e, frac |-> norm]
  <2>1. ToHalf(f) = h BY <1>3, <1>6, <1>11
  <2>2. norm \in 0..(2^10 - 1) /\ e \in 0..31 BY <1>2, <1>5, <1>10, <1>11, SMT
  <2>3. h \in Half BY <2>2 DEF Half
  <2>4. h.exp = e /\ h.frac = norm /\ h.exp < 31 /\ ~(h.exp = 0) BY <1>5
  <2> HIDE DEF h
  <2>5. Units(h) = M * k /\ Unit(h) = k BY <1>5, <1>7, <2>4 DEF Units, Unit
  <2>6. den * Units(h) = n * M /\ den * Unit(h) = n
    <3>1. den * (M * k) = (den * k) * M BY <1>2
    <3> QED BY <2>5, <3>1
  <2>7. Units(h) \in Nat /\ Unit(h) \in Nat BY <1>2, <2>5
  <2> QED BY <1>9, <2>1, <2>3, <2>4, <2>6, <2>7 DEF NearHalf, f
<1>12. CASE ~(norm < 1024)
  <2> DEFINE h == [sign |-> 0, exp |-> e + 1, frac |-> 0]
  <2>1. ToHalf(f) = h BY <1>3, <1>5, <1>6, <1>12
  <2>2. 0 \in 0..(2^10 - 1) /\ e + 1 \in 0..31 BY <1>5, <1>10, SMT
  <2>3. h \in Half BY <2>2 DEF Half
  <2>4. h.exp = e + 1 /\ h.frac = 0 /\ h.exp < 31 /\ ~(h.exp = 0) BY <1>5
  <2> HIDE DEF h
  <2>5. Units(h) = 2048 * k /\ Unit(h) = 2 * k
    <3>1. Units(h) = (1024 + 0) * 2^((e + 1) - 1) /\ Unit(h) = 2^((e + 1) - 1)
      BY <2>4 DEF Units, Unit
    <3>2. 2^((e + 1) - 1) = 2 * k BY <1>5, <1>7
    <3> QED BY <3>1, <3>2
  <2>6. M = 2048 BY <1>2, <1>12
  <2>7. den * Units(h) = n * M /\ den * Unit(h) = 2 * n
    <3>1. den * (2048 * k) = (den * k) * 2048 /\ den * (2 * k) = 2 * (den * k) OBVIOUS
    <3> QED BY <2>5, <2>6, <3>1
  <2>8. Units(h) \in Nat /\ Unit(h) \in Nat BY <2>5
  <2> DEFINE z == n * M
  <2>9. z \in Int BY <1>8, <2>6
  <2> HIDE DEF z, n
  <2>10. 2 * z - 2 * num <= 2 * n /\ 2 * num - 2 * z <= 2 * n
    BY <1>8, <1>9, <2>9 DEF z
  <2>11. /\ 2 * (den * Units(h)) - 2 * num <= den * Unit(h)
         /\ 2 * num - 2 * (den * Units(h)) <= den * Unit(h) BY <2>7, <2>10 DEF z
  <2> QED BY <2>1, <2>3, <2>4, <2>8, <2>11 DEF NearHalf, f
<1> QED BY <1>11, <1>12

(* Every factor below 2^22 units is stored as near as can be, but just     *)
(* below the least normal half (f32_to_fp16_bits).                         *)
LEMMA StoredNear ==
  ASSUME NEW num \in Nat, NEW den \in Nat \ {0}, 2 * num < den * (8192 * 1024)
  PROVE  NearHalf(StoredHalf(num, den), num, den)
<1> DEFINE r == (2 * num) \div den
           p == TopBit(r)
<1>1. CASE 2 * num < den
  <2> DEFINE h == [sign |-> 0, exp |-> 0, frac |-> 0]
  <2>1. StoredHalf(num, den) = h BY <1>1 DEF StoredHalf
  <2>2. 0 \in 0..(2^10 - 1) BY Powers, SMT
  <2>3. h \in Half BY <2>2 DEF Half
  <2>4. h.exp = 0 /\ h.frac = 0 OBVIOUS
  <2> HIDE DEF h
  <2>5. Units(h) = 0 /\ Unit(h) = 1 BY <2>4 DEF Units, Unit
  <2>6. /\ 2 * (den * Units(h)) - 2 * num <= den * Unit(h)
        /\ 2 * num - 2 * (den * Units(h)) <= den * Unit(h) BY <1>1, <2>5
  <2>7. h.exp < 31 /\ Units(h) \in Nat /\ Unit(h) \in Nat BY <2>4, <2>5
  <2> QED BY <2>1, <2>3, <2>6, <2>7 DEF NearHalf
<1>2. CASE ~(2 * num < den)
  <2>1. r \in Nat /\ 1 <= r /\ r < 8192 * 1024
    <3> DEFINE x == 2 * num
               lo == 1
               hi == 8192 * 1024
    <3>1. x \in Nat /\ lo \in Nat /\ hi \in Nat /\ den * lo <= x /\ x < den * hi BY <1>2
    <3> HIDE DEF x, lo, hi
    <3>2. x \div den \in Nat /\ lo <= x \div den /\ x \div den < hi BY <3>1, QuotientIn
    <3> QED BY <3>2 DEF x, lo, hi
  <2>2. StoredHalf(num, den) = ToHalf(Leading(num, den)) BY <1>2 DEF StoredHalf
  <2>3. HasTopBit(r)
    <3> HIDE DEF r
    <3> QED BY <2>1, EachHasTopBit
  <2> DEFINE lead == IF p <= 12 THEN (num * 2^(12 - p)) \div den
                     ELSE num \div (den * 2^(p - 12))
  <2>4. Leading(num, den) = FloatOf(lead, p) BY DEF Leading, FloatOf
  <2> HIDE DEF r
  <2>5. p \in 0..22 /\ r \in 2^p..(2^(p + 1) - 1) BY <2>3, TopBitPlace
  <2> HIDE DEF p
  <2>6. Octave(p, num, den) BY <2>5 DEF Octave, r
  <2>7. den <= 2 * num BY <1>2
  <2>8. CASE p <= 10
    <3>1. p \in 0..10 /\ p <= 12 BY <2>5, <2>8, SMT
    <3>2. PICK K \in Nat \ {0} : BelowBy(p, K) BY <3>1, Below
    <3>3. 2^p \in Nat /\ 2^(p + 1) \in Nat
      <4>1. p + 1 \in 1..11 BY <3>1, SMT
      <4> QED BY <3>1, <4>1, Powers, SMT
    <3>4. lead = (num * 2^(12 - p)) \div den BY <3>1
    <3> HIDE DEF lead
    <3>5. LeadBits(lead, num, den, K) BY <2>6, <3>2, <3>3, <3>4, LeadBelow
    <3>6. NearHalf(ToHalf(FloatOf(lead, p)), num, den) BY <2>7, <3>1, <3>2, <3>5, StoredBelow
    <3> QED BY <2>2, <2>4, <3>6 DEF lead
  <2>9. CASE ~(p <= 10)
    <3>1. p \in 11..22 BY <2>5, <2>9, SMT
    <3>2. PICK k \in Nat \ {0} : AboveBy(p, k) BY <3>1, Above
    <3>3. p <= 12 => 2^(12 - p) \in Nat \ {0}
      <4>1. ASSUME p <= 12 PROVE 12 - p = 0 \/ 12 - p = 1 BY <3>1, <4>1, SMT
      <4>2. ASSUME p <= 12 PROVE 2^(12 - p) = 1 \/ 2^(12 - p) = 2 BY <4>1, <4>2, Powers, SMT
      <4> QED BY <4>2
    <3>4. ~(p <= 12) => 2^(p - 12) \in Nat \ {0}
      <4>1. ASSUME ~(p <= 12) PROVE p - 12 \in 1..10 BY <3>1, <4>1, SMT
      <4>2. ASSUME ~(p <= 12) PROVE 2^(p - 12) \in Nat \ {0} BY <4>1, <4>2, Powers, SMT
      <4> QED BY <4>2
    <3>5. LeadBits(lead, num, den * k, 1) BY <2>6, <3>2, <3>3, <3>4, LeadAbove
    <3> HIDE DEF lead
    <3>6. NearHalf(ToHalf(FloatOf(lead, p)), num, den) BY <3>1, <3>2, <3>5, StoredAbove
    <3> QED BY <2>2, <2>4, <3>6 DEF lead
  <2> QED BY <2>8, <2>9
<1> QED BY <1>1, <1>2

-----------------------------------------------------------------------------
(* The greatest and the least of finitely many integers, and rounding      *)

(* One of finitely many integers is at least as great as the others.       *)
LEMMA GreatestExists ==
  ASSUME NEW n \in Nat, NEW f, \A i \in 1..n : f[i] \in Int
  PROVE  n > 0 => \E j \in 1..n : \A i \in 1..n : f[i] <= f[j]
<1> DEFINE Topped(m) == \E j \in 1..m : \A i \in 1..m : f[i] <= f[j]
           S == {m \in Nat : 0 < m /\ m <= n /\ ~Topped(m)}
<1>1. S = {}
  <2> SUFFICES ASSUME S # {} PROVE FALSE OBVIOUS
  <2>0. S \in SUBSET Nat OBVIOUS
  <2> HIDE DEF S
  <2>1. PICK m \in S : \A k \in S : ~ (<<k, m>> \in OpToRel(<, Nat))
    BY <2>0, NatLessThanWellFounded, WFMin
  <2>2. m \in Nat /\ 0 < m /\ m <= n /\ ~Topped(m) BY <2>1 DEF S
  <2>3. m - 1 \notin S
    <3>1. m - 1 \in Nat /\ m - 1 < m BY <2>2
    <3>2. <<m - 1, m>> \in OpToRel(<, Nat) BY <2>2, <3>1 DEF OpToRel
    <3> QED BY <2>1, <3>2
  <2>4. CASE m = 1
    <3>1. f[1] \in Int /\ 1 \in 1..m /\ \A i \in 1..m : i = 1 BY <2>2, <2>4
    <3> QED BY <2>2, <3>1
  <2>5. CASE m # 1
    <3>1. m - 1 \in Nat /\ 0 < m - 1 /\ m - 1 <= n BY <2>2, <2>5
    <3>2. Topped(m - 1) BY <2>3, <3>1 DEF S
    <3>3. PICK j \in 1..(m - 1) : \A i \in 1..(m - 1) : f[i] <= f[j] BY <3>2
    <3>4. \A i \in 1..m : f[i] \in Int BY <2>2
    <3>5. CASE f[m] <= f[j]
      <4>1. j \in 1..m /\ \A i \in 1..m : f[i] <= f[j] BY <2>2, <3>3, <3>5
      <4> QED BY <2>2, <4>1
    <3>6. CASE ~(f[m] <= f[j])
      <4>1. m \in 1..m /\ j \in 1..m BY <2>2, <3>3
      <4>2. f[m] \in Int /\ f[j] \in Int BY <3>4, <4>1
      <4>3. \A i \in 1..m : f[i] <= f[m] BY <2>2, <3>3, <3>4, <3>6, <4>2
      <4> QED BY <2>2, <4>1, <4>3
    <3> QED BY <3>5, <3>6
  <2> QED BY <2>4, <2>5
<1>2. n > 0 => Topped(n)
  <2> HIDE DEF Topped
  <2> SUFFICES ASSUME n > 0, ~Topped(n) PROVE FALSE OBVIOUS
  <2>1. n \in S OBVIOUS
  <2> QED BY <1>1, <2>1
<1> QED BY <1>2

(* Max chooses the greatest of a set that has one, ...                     *)
LEMMA MaxChosen ==
  ASSUME NEW S, NEW x \in S, \A y \in S : x >= y
  PROVE  Max(S) \in S /\ \A y \in S : Max(S) >= y
BY Zenon DEF Max

(* ... and Min the least.                                                  *)
LEMMA MinChosen ==
  ASSUME NEW S, NEW x \in S, \A y \in S : x =< y
  PROVE  Min(S) \in S /\ \A y \in S : Min(S) =< y
BY Zenon DEF Min

(* The values of f at 1..n.                                                *)
ImageOf(f, n) == {f[i] : i \in 1..n}
(* The n integers of f lie between the least and the greatest of S, ...    *)
Ranged(S, f, n) == /\ Max(S) \in Int /\ Min(S) \in Int
                   /\ \A i \in 1..n : Min(S) <= f[i] /\ f[i] <= Max(S)
(* ... which are among them.                                               *)
Reached(S, f, n) == /\ \E i \in 1..n : Max(S) = f[i]
                    /\ \E i \in 1..n : Min(S) = f[i]

(* Finitely many integers lie between the least and the greatest of them.  *)
LEMMA Extremes ==
  ASSUME NEW n \in Nat, n > 0, NEW f, \A i \in 1..n : f[i] \in Int
  PROVE  Ranged(ImageOf(f, n), f, n) /\ Reached(ImageOf(f, n), f, n)
<1> DEFINE S == ImageOf(f, n)
<1>0. S = {f[i] : i \in 1..n} BY DEF ImageOf
<1> HIDE DEF S
<1>1. Max(S) \in S /\ \A y \in S : Max(S) >= y
  <2>1. PICK j \in 1..n : \A i \in 1..n : f[i] <= f[j] BY GreatestExists
  <2>2. f[j] \in S /\ \A y \in S : f[j] >= y BY <1>0, <2>1
  <2> QED BY <2>2, MaxChosen
<1>2. Min(S) \in S /\ \A y \in S : Min(S) =< y
  <2> DEFINE g == [i \in 1..n |-> -f[i]]
  <2>1. \A i \in 1..n : g[i] = -f[i] OBVIOUS
  <2>2. \A i \in 1..n : g[i] \in Int BY <2>1
  <2> HIDE DEF g
  <2>3. PICK j \in 1..n : \A i \in 1..n : g[i] <= g[j] BY <2>2, GreatestExists
  <2>4. f[j] \in S /\ \A y \in S : f[j] =< y BY <1>0, <2>1, <2>3
  <2> QED BY <2>4, MinChosen
<1>3. \A y \in S : y \in Int BY <1>0
<1>4. \A i \in 1..n : f[i] \in S BY <1>0
<1>5. Max(S) \in Int /\ Min(S) \in Int BY <1>1, <1>2, <1>3
<1>6. \A i \in 1..n : Min(S) <= f[i] /\ f[i] <= Max(S)
  <2> SUFFICES ASSUME NEW i \in 1..n PROVE Min(S) <= f[i] /\ f[i] <= Max(S) OBVIOUS
  <2>1. f[i] \in S /\ f[i] \in Int BY <1>4
  <2>2. Max(S) >= f[i] /\ Min(S) =< f[i] BY <1>1, <1>2, <2>1, Zenon
  <2> QED BY <1>5, <2>1, <2>2
<1>7. Reached(S, f, n) BY <1>0, <1>1, <1>2 DEF Reached
<1> QED BY <1>5, <1>6, <1>7 DEF Ranged, S

-----------------------------------------------------------------------------
(* r is a / b rounded to the nearest integer.                              *)
NearestTo(r, a, b) == /\ r \in Int
                      /\ 2 * (b * r) - 2 * a <= b /\ 2 * a - 2 * (b * r) <= b
                      /\ a >= 0 => r >= 0

(* lround is within half a step, and of no negative fraction negative.     *)
LEMMA RoundedNear ==
  ASSUME NEW a \in Int, NEW b \in Nat, b > 0
  PROVE  NearestTo(LRound(a, b), a, b)
<1> SUFFICES /\ LRound(a, b) \in Int
             /\ 2 * (b * LRound(a, b)) - 2 * a <= b
             /\ 2 * a - 2 * (b * LRound(a, b)) <= b
             /\ a >= 0 => LRound(a, b) >= 0
  BY DEF NearestTo
<1> DEFINE e == 2 * b
<1>0. e \in Nat \ {0} /\ e = 2 * b BY SMT
<1>1. CASE a >= 0
  <2> DEFINE x == 2 * a + b
             q == x \div e
             r == x % e
  <2>1. x \in Nat BY <1>1, SMT
  <2> HIDE DEF e
  <2>2. q \in Nat /\ r \in 0..e - 1 /\ x = e * q + r
    <3> HIDE DEF x
    <3> QED BY <1>0, <2>1, Division
  <2>3. LRound(a, b) = q BY <1>1 DEF LRound, e
  <2> HIDE DEF q, r
  <2>4. e * q = 2 * (b * q) /\ b * q \in Int BY <1>0, <2>2, SMT
  <2> DEFINE y == b * q
  <2>6. y \in Int /\ x = 2 * y + r BY <2>2, <2>4
  <2> HIDE DEF y
  <2>7. 2 * y - 2 * a <= b /\ 2 * a - 2 * y <= b BY <1>0, <2>2, <2>6, SMT
  <2> QED BY <1>1, <2>2, <2>3, <2>7 DEF y
<1>2. CASE ~(a >= 0)
  <2> DEFINE x == b - 2 * a
             q == x \div e
             r == x % e
  <2>1. x \in Nat BY <1>2, SMT
  <2> HIDE DEF e
  <2>2. q \in Nat /\ r \in 0..e - 1 /\ x = e * q + r
    <3> HIDE DEF x
    <3> QED BY <1>0, <2>1, Division
  <2>3. LRound(a, b) = -q BY <1>2 DEF LRound, e
  <2> HIDE DEF q, r
  <2> DEFINE y == b * q
  <2>4. e * q = 2 * y /\ y \in Int /\ b * (-q) = -y BY <1>0, <2>2, SMT
  <2> HIDE DEF y
  <2>7. 2 * (-y) - 2 * a <= b /\ 2 * a - 2 * (-y) <= b BY <1>0, <2>2, <2>4, SMT
  <2> QED BY <1>2, <2>2, <2>3, <2>4, <2>7
<1> QED BY <1>1, <1>2

(* A fraction between -k and k is rounded to an integer between them.      *)
LEMMA RoundedWithin ==
  ASSUME NEW a \in Int, NEW b \in Nat, b > 0, NEW k \in Nat, a <= k * b, -a <= k * b
  PROVE  LRound(a, b) <= k /\ -k <= LRound(a, b)
<1> DEFINE q == LRound(a, b)
           y == b * q
           z == k * b
<1>1. q \in Int /\ 2 * y - 2 * a <= b /\ 2 * a - 2 * y <= b BY RoundedNear DEF NearestTo
<1> HIDE DEF q
<1>2. y \in Int /\ z \in Int BY <1>1, SMT
<1>3. ASSUME q >= k + 1 PROVE FALSE
  <2>1. b * (q - (k + 1)) >= 0 BY <1>1, <1>3, SMT
  <2>2. b * (q - (k + 1)) = y - z - b BY <1>1, SMT
  <2> HIDE DEF y, z
  <2> QED BY <1>1, <1>2, <2>1, <2>2, SMT DEF z
<1>4. ASSUME q <= -(k + 1) PROVE FALSE
  <2>1. b * (-(k + 1) - q) >= 0 BY <1>1, <1>4, SMT
  <2>2. b * (-(k + 1) - q) = -y - z - b BY <1>1, SMT
  <2> HIDE DEF y, z
  <2> QED BY <1>1, <1>2, <2>1, <2>2, SMT DEF z
<1> QED BY <1>1, <1>3, <1>4, SMT DEF q

-----------------------------------------------------------------------------
(* The factors of a block to pack                                          *)

(* An absolute value is a natural number, no less than the number either   *)
(* way.                                                                    *)
LEMMA AbsType == ASSUME NEW x \in Int PROVE Abs(x) \in Nat /\ x <= Abs(x) /\ -x <= Abs(x)
BY DEF Abs

(* No value of a block is larger than its largest.                         *)
LEMMA LargestOf ==
  ASSUME NEW vals \in [1..32 -> Int]
  PROVE  Largest(vals) \in Nat /\ \A i \in 1..32 : Abs(vals[i]) <= Largest(vals)
<1> DEFINE n == 32
           f == [i \in 1..n |-> Abs(vals[i])]
           S == {Abs(vals[i]) : i \in DOMAIN vals}
<1>1. n \in Nat /\ n > 0 /\ DOMAIN vals = 1..n /\ n = 32 OBVIOUS
<1> HIDE DEF n
<1>2. \A i \in 1..n : f[i] = Abs(vals[i]) /\ vals[i] \in Int BY <1>1
<1>3. \A i \in 1..n : f[i] \in Int /\ f[i] >= 0 BY <1>2, AbsType
<1> HIDE DEF f
<1>4. S = ImageOf(f, n) BY <1>1, <1>2 DEF ImageOf
<1> HIDE DEF S
<1>5. Max(S) \in Int /\ \A i \in 1..n : f[i] <= Max(S)
  BY <1>1, <1>3, <1>4, Extremes DEF Ranged
<1>6. Max(S) >= 0
  <2>1. 1 \in 1..n BY <1>1
  <2> QED BY <1>3, <1>5, <2>1
<1>7. Largest(vals) = Max(S) BY DEF Largest, S
<1> QED BY <1>1, <1>2, <1>5, <1>6, <1>7

(* ... and the largest no larger than they may be.                         *)
LEMMA LargestWithin ==
  ASSUME NEW vals \in [1..32 -> Int], NEW B \in Nat, \A i \in 1..32 : Abs(vals[i]) <= B
  PROVE  Largest(vals) <= B
<1> DEFINE n == 32
           f == [i \in 1..n |-> Abs(vals[i])]
           S == {Abs(vals[i]) : i \in DOMAIN vals}
<1>1. n \in Nat /\ n > 0 /\ DOMAIN vals = 1..n /\ n = 32 OBVIOUS
<1> HIDE DEF n
<1>2. \A i \in 1..n : f[i] = Abs(vals[i]) /\ vals[i] \in Int BY <1>1
<1>3. \A i \in 1..n : f[i] \in Int /\ f[i] <= B BY <1>1, <1>2, AbsType
<1> HIDE DEF f
<1>4. S = ImageOf(f, n) BY <1>1, <1>2 DEF ImageOf
<1> HIDE DEF S
<1>5. \E i \in 1..n : Max(S) = f[i] BY <1>1, <1>3, <1>4, Extremes DEF Reached
<1>6. Largest(vals) = Max(S) BY DEF Largest, S
<1> QED BY <1>3, <1>5, <1>6

(* The widest group of a block, and its least value.                       *)
Widest(vals) == Max({Spread(vals, g) : g \in 0..7})
Lowest(vals) == Min({Min(Group(vals, g)) : g \in 0..7})

(* The values of a group lie between its least value and its spread above  *)
(* it.                                                                     *)
LEMMA GroupOf ==
  ASSUME NEW vals \in [1..256 -> Int], NEW g \in 0..7
  PROVE  /\ Min(Group(vals, g)) \in Int /\ Spread(vals, g) \in Nat
         /\ \A l \in 1..32 : /\ vals[32 * g + l] \in Int
                             /\ Min(Group(vals, g)) <= vals[32 * g + l]
                             /\ vals[32 * g + l] <= Min(Group(vals, g)) + Spread(vals, g)
<1> DEFINE n == 32
           f == [l \in 1..n |-> vals[32 * g + l]]
           S == Group(vals, g)
<1>1. n \in Nat /\ n > 0 /\ n = 32 OBVIOUS
<1>2. \A l \in 1..n : f[l] = vals[32 * g + l] /\ f[l] \in Int
  <2> SUFFICES ASSUME NEW l \in 1..n PROVE f[l] = vals[32 * g + l] /\ f[l] \in Int OBVIOUS
  <2>1. g \in Int /\ 0 <= g /\ g <= 7 OBVIOUS
  <2>2. 32 * g + l \in Int /\ 1 <= 32 * g + l /\ 32 * g + l <= 256 BY <2>1, SMT
  <2>3. 32 * g + l \in 1..256 BY <2>2
  <2>4. f[l] = vals[32 * g + l] BY Zenon
  <2> QED BY <2>3, <2>4
<1> HIDE DEF f
<1>3. S = ImageOf(f, n)
  <2>1. S = {vals[32 * g + l] : l \in 1..n} BY <1>1 DEF Group
  <2>2. \A l \in 1..n : f[l] = vals[32 * g + l] BY <1>2
  <2> HIDE DEF S, n
  <2>3. {vals[32 * g + l] : l \in 1..n} = {f[l] : l \in 1..n}
    <3> DEFINE w(l) == vals[32 * g + l]
    <3>1. \A l \in 1..n : f[l] = w(l) BY <2>2
    <3> HIDE DEF w
    <3>2. {w(l) : l \in 1..n} = {f[l] : l \in 1..n} BY <3>1
    <3> QED BY <3>2 DEF w
  <2> QED BY <2>1, <2>3 DEF ImageOf
<1> HIDE DEF n, S
<1>4. /\ Max(S) \in Int /\ Min(S) \in Int
      /\ \A l \in 1..n : Min(S) <= f[l] /\ f[l] <= Max(S)
  BY <1>1, <1>2, <1>3, Extremes DEF Ranged
<1>5. Spread(vals, g) = Max(S) - Min(S) BY DEF Spread, S
<1>6. Spread(vals, g) \in Nat
  <2>1. 1 \in 1..n BY <1>1
  <2>2. Min(S) <= f[1] /\ f[1] <= Max(S) /\ f[1] \in Int BY <1>2, <1>4, <2>1
  <2> QED BY <1>4, <1>5, <2>2
<1>7. ASSUME NEW l \in 1..n
      PROVE  /\ vals[32 * g + l] \in Int /\ Min(S) <= vals[32 * g + l]
             /\ vals[32 * g + l] <= Min(S) + Spread(vals, g)
  <2>1. f[l] = vals[32 * g + l] /\ f[l] \in Int /\ Min(S) <= f[l] /\ f[l] <= Max(S)
    BY <1>2, <1>4
  <2>2. Max(S) = Min(S) + Spread(vals, g) BY <1>4, <1>5
  <2> QED BY <2>1, <2>2
<1> QED BY <1>1, <1>4, <1>6, <1>7 DEF S

(* Values that lie between -B and B: ...                                   *)
Bounded(vals, B) == \A i \in 1..256 : -B <= vals[i] /\ vals[i] <= B

(* ... so do those of a group.                                             *)
LEMMA GroupWithin ==
  ASSUME NEW vals \in [1..256 -> Int], NEW g \in 0..7, NEW B \in Nat, Bounded(vals, B)
  PROVE  -B <= Min(Group(vals, g)) /\ Spread(vals, g) <= 2 * B
<1> DEFINE n == 32
           f == [l \in 1..n |-> vals[32 * g + l]]
           S == Group(vals, g)
<1>1. n \in Nat /\ n > 0 /\ n = 32 OBVIOUS
<1>2. \A l \in 1..n : /\ f[l] = vals[32 * g + l] /\ f[l] \in Int
                      /\ -B <= f[l] /\ f[l] <= B
  <2> SUFFICES ASSUME NEW l \in 1..n
               PROVE  f[l] = vals[32 * g + l] /\ f[l] \in Int /\ -B <= f[l] /\ f[l] <= B
    OBVIOUS
  <2>1. g \in Int /\ 0 <= g /\ g <= 7 OBVIOUS
  <2>2. 32 * g + l \in Int /\ 1 <= 32 * g + l /\ 32 * g + l <= 256 BY <2>1, SMT
  <2>3. 32 * g + l \in 1..256 BY <2>2
  <2>4. f[l] = vals[32 * g + l] BY Zenon
  <2>5. -B <= vals[32 * g + l] /\ vals[32 * g + l] <= B BY <2>3, Zenon DEF Bounded
  <2> QED BY <2>3, <2>4, <2>5
<1> HIDE DEF f
<1>3. S = ImageOf(f, n)
  <2>1. S = {vals[32 * g + l] : l \in 1..n} BY <1>1 DEF Group
  <2>2. \A l \in 1..n : f[l] = vals[32 * g + l] BY <1>2
  <2> HIDE DEF S, n
  <2>3. {vals[32 * g + l] : l \in 1..n} = {f[l] : l \in 1..n}
    <3> DEFINE w(l) == vals[32 * g + l]
    <3>1. \A l \in 1..n : f[l] = w(l) BY <2>2
    <3> HIDE DEF w
    <3>2. {w(l) : l \in 1..n} = {f[l] : l \in 1..n} BY <3>1
    <3> QED BY <3>2 DEF w
  <2> QED BY <2>1, <2>3 DEF ImageOf
<1> HIDE DEF n, S
<1>4. (\E i \in 1..n : Max(S) = f[i]) /\ (\E i \in 1..n : Min(S) = f[i])
  <2>1. \A i \in 1..n : f[i] \in Int BY <1>2
  <2>2. Reached(ImageOf(f, n), f, n) BY <1>1, <2>1, Extremes
  <2> QED BY <1>3, <2>2 DEF Reached
<1>5. Spread(vals, g) = Max(S) - Min(S) BY DEF Spread, S
<1>6. Max(S) \in Int /\ Min(S) \in Int /\ Max(S) <= B /\ -B <= Min(S) BY <1>2, <1>4
<1>7. Spread(vals, g) <= 2 * B BY <1>5, <1>6
<1> QED BY <1>6, <1>7 DEF S

(* No group is wider than the widest, none reaches below the lowest value. *)
LEMMA WidestOf ==
  ASSUME NEW vals \in [1..256 -> Int]
  PROVE  /\ Widest(vals) \in Nat /\ Lowest(vals) \in Int
         /\ \A g \in 0..7 : /\ Spread(vals, g) <= Widest(vals)
                            /\ Lowest(vals) <= Min(Group(vals, g))
<1> DEFINE n == 8
           f == [i \in 1..n |-> Spread(vals, i - 1)]
           h == [i \in 1..n |-> Min(Group(vals, i - 1))]
           S == {Spread(vals, g) : g \in 0..7}
           T == {Min(Group(vals, g)) : g \in 0..7}
<1>1. n \in Nat /\ n > 0 /\ n = 8 OBVIOUS
<1>2. \A i \in 1..n : /\ f[i] = Spread(vals, i - 1) /\ f[i] \in Int /\ f[i] >= 0
                      /\ h[i] = Min(Group(vals, i - 1)) /\ h[i] \in Int
  <2> SUFFICES ASSUME NEW i \in 1..n
               PROVE  /\ f[i] = Spread(vals, i - 1) /\ f[i] \in Int /\ f[i] >= 0
                      /\ h[i] = Min(Group(vals, i - 1)) /\ h[i] \in Int OBVIOUS
  <2>1. i - 1 \in 0..7 BY SMT
  <2>2. Spread(vals, i - 1) \in Nat /\ Min(Group(vals, i - 1)) \in Int BY <2>1, GroupOf
  <2>3. f[i] = Spread(vals, i - 1) /\ h[i] = Min(Group(vals, i - 1)) BY Zenon
  <2> QED BY <2>2, <2>3
<1> HIDE DEF n, f, h
<1>3. \A g \in 0..7 : g + 1 \in 1..n /\ (g + 1) - 1 = g BY <1>1
<1>4. \A i \in 1..n : i - 1 \in 0..7 BY <1>1
<1>5. S = ImageOf(f, n) BY <1>2, <1>3, <1>4 DEF ImageOf
<1>6. T = ImageOf(h, n) BY <1>2, <1>3, <1>4 DEF ImageOf
<1>7. Widest(vals) = Max(S) /\ Lowest(vals) = Min(T) BY DEF Widest, Lowest
<1> HIDE DEF S, T
<1>8. Max(S) \in Int /\ \A i \in 1..n : f[i] <= Max(S)
  BY <1>1, <1>2, <1>5, Extremes DEF Ranged
<1>9. Min(T) \in Int /\ \A i \in 1..n : Min(T) <= h[i]
  BY <1>1, <1>2, <1>6, Extremes DEF Ranged
<1>10. Max(S) >= 0
  <2>1. 1 \in 1..n BY <1>1
  <2> QED BY <1>2, <1>8, <2>1
<1>11. ASSUME NEW g \in 0..7
       PROVE  Spread(vals, g) <= Max(S) /\ Min(T) <= Min(Group(vals, g))
  <2>1. f[g + 1] = Spread(vals, g) /\ h[g + 1] = Min(Group(vals, g)) BY <1>2, <1>3
  <2> QED BY <1>3, <1>8, <1>9, <2>1
<1> QED BY <1>7, <1>8, <1>9, <1>10, <1>11

(* ... so the widest is no wider, and the lowest no lower, than they may   *)
(* be.                                                                     *)
LEMMA WidestWithin ==
  ASSUME NEW vals \in [1..256 -> Int], NEW B \in Nat, Bounded(vals, B)
  PROVE  Widest(vals) <= 2 * B /\ -B <= Lowest(vals)
<1> DEFINE n == 8
           f == [i \in 1..n |-> Spread(vals, i - 1)]
           h == [i \in 1..n |-> Min(Group(vals, i - 1))]
           S == {Spread(vals, g) : g \in 0..7}
           T == {Min(Group(vals, g)) : g \in 0..7}
<1>1. n \in Nat /\ n > 0 /\ n = 8 OBVIOUS
<1>2. \A i \in 1..n : /\ f[i] = Spread(vals, i - 1) /\ f[i] \in Int /\ f[i] <= 2 * B
                      /\ h[i] = Min(Group(vals, i - 1)) /\ h[i] \in Int /\ -B <= h[i]
  <2> SUFFICES ASSUME NEW i \in 1..n
               PROVE  /\ f[i] = Spread(vals, i - 1) /\ f[i] \in Int /\ f[i] <= 2 * B
                      /\ h[i] = Min(Group(vals, i - 1)) /\ h[i] \in Int /\ -B <= h[i]
    OBVIOUS
  <2>1. i - 1 \in 0..7 BY SMT
  <2>2. Spread(vals, i - 1) \in Nat /\ Min(Group(vals, i - 1)) \in Int BY <2>1, GroupOf
  <2>3. Spread(vals, i - 1) <= 2 * B /\ -B <= Min(Group(vals, i - 1)) BY <2>1, GroupWithin
  <2>4. f[i] = Spread(vals, i - 1) /\ h[i] = Min(Group(vals, i - 1)) BY Zenon
  <2> QED BY <2>2, <2>3, <2>4
<1> HIDE DEF n, f, h
<1>3. \A g \in 0..7 : g + 1 \in 1..n /\ (g + 1) - 1 = g BY <1>1
<1>4. \A i \in 1..n : i - 1 \in 0..7 BY <1>1
<1>5. S = ImageOf(f, n) BY <1>2, <1>3, <1>4 DEF ImageOf
<1>6. T = ImageOf(h, n) BY <1>2, <1>3, <1>4 DEF ImageOf
<1>7. Widest(vals) = Max(S) /\ Lowest(vals) = Min(T) BY DEF Widest, Lowest
<1> HIDE DEF S, T
<1>8. \E i \in 1..n : Max(S) = f[i] BY <1>1, <1>2, <1>5, Extremes DEF Reached
<1>9. \E i \in 1..n : Min(T) = h[i] BY <1>1, <1>2, <1>6, Extremes DEF Reached
<1> QED BY <1>2, <1>7, <1>8, <1>9

(* The factor of values that are all alike is a number, small, and its     *)
(* denominator not the usual one.                                          *)
LEMMA TinyFactor ==
  /\ Fallback.num \in Int /\ Fallback.num > 0 /\ Fallback.den \in Int /\ Fallback.den > 0
  /\ Fallback.den # 945 /\ 2 * Fallback.num < Fallback.den
<1> DEFINE t == 8
           u == 16
           x == 63 * 2^u
           y == 63 * 5^t
<1>1. t = 8 /\ u = 16 OBVIOUS
<1>2. Fallback.num = x /\ Fallback.den = y BY DEF Fallback
<1> HIDE DEF t, u
<1>3. 2^u = 8192 * 8 BY <1>1, Powers
<1>4. 5^t = 625 * 625 BY <1>1, SMT
<1>5. x = 63 * (8192 * 8) /\ y = 63 * (625 * 625) BY <1>3, <1>4
<1> HIDE DEF x, y
<1> QED BY <1>2, <1>5, SMT

(* The factors of a block, from its widest group and its lowest value.     *)
LEMMA BlockFactors ==
  ASSUME NEW vals
  PROVE  /\ FactorsQ4(vals).d = IF Widest(vals) > 0 THEN [num |-> Widest(vals), den |-> 945]
                                ELSE Fallback
         /\ FactorsQ4(vals).dmin = IF Lowest(vals) < 0 THEN [num |-> -Lowest(vals), den |-> 63]
                                   ELSE FactorsQ4(vals).d
BY Zenon DEF FactorsQ4, Widest, Lowest

(* A numerator and a denominator that can be divided by.                   *)
Positive(d) == d.num \in Int /\ d.num > 0 /\ d.den \in Int /\ d.den > 0

(* The factors of a block can be divided by.                               *)
LEMMA FactorsPositive ==
  ASSUME NEW vals \in [1..256 -> Int]
  PROVE  Positive(FactorsQ4(vals).d) /\ Positive(FactorsQ4(vals).dmin)
<1> DEFINE f == FactorsQ4(vals)
           W == Widest(vals)
           L == Lowest(vals)
           e == Fallback
<1>1. Positive(e) BY TinyFactor DEF Positive
<1>2. W \in Int /\ L \in Int BY WidestOf
<1>3. /\ f.d = IF W > 0 THEN [num |-> W, den |-> 945] ELSE e
      /\ f.dmin = IF L < 0 THEN [num |-> -L, den |-> 63] ELSE f.d
  BY BlockFactors
<1> HIDE DEF e, W, L, f
<1>4. Positive(f.d)
  <2>1. CASE W > 0 BY <1>2, <1>3, <2>1, SMT DEF Positive
  <2>2. CASE ~(W > 0) BY <1>1, <1>3, <2>2, SMT DEF Positive
  <2> QED BY <2>1, <2>2
<1>5. Positive(f.dmin)
  <2>1. CASE L < 0
    <3>1. f.dmin = [num |-> -L, den |-> 63] BY <1>3, <2>1
    <3> QED BY <1>2, <2>1, <3>1, SMT DEF Positive
  <2>2. CASE ~(L < 0) BY <1>3, <1>4, <2>2
  <2> QED BY <2>1, <2>2
<1> QED BY <1>4, <1>5 DEF f

-----------------------------------------------------------------------------
(* The headers of a packed block                                           *)

(* What a value to pack may be.                                            *)
LEMMA PackableRange ==
  ASSUME NEW x \in Packable, NEW B, B = 8192 * 4096
  PROVE  x \in Int /\ -B <= x /\ x <= B
<1> DEFINE t == 25
<1>1. t = 25 /\ x \in (-(2^t))..(2^t) BY DEF Packable
<1> HIDE DEF t
<1>2. 2^t = 8192 * 4096 BY <1>1, Powers
<1> QED BY <1>1, <1>2

(* The factor of a Q8_0 or Q5_0 block is stored as near as can be, ...     *)
LEMMA StoredLargest ==
  ASSUME NEW vals \in [1..32 -> Packable], NEW s \in Nat, s >= 15
  PROVE  vals \in [1..32 -> Int] /\ NearHalf(StoredHalf(Largest(vals), s), Largest(vals), s)
<1> DEFINE B == 8192 * 4096
           big == Largest(vals)
<1>1. B \in Nat /\ B = 8192 * 4096 BY SMT
<1> HIDE DEF B
<1>2. \A i \in 1..32 : vals[i] \in Int /\ -B <= vals[i] /\ vals[i] <= B BY <1>1, PackableRange
<1>3. vals \in [1..32 -> Int] BY <1>2
<1>4. \A i \in 1..32 : Abs(vals[i]) <= B BY <1>1, <1>2, SMT DEF Abs
<1>5. big \in Nat /\ big <= B BY <1>1, <1>3, <1>4, LargestOf, LargestWithin
<1> HIDE DEF big
<1>6. 2 * big < s * (8192 * 1024)
  <2>1. 2 * big < 15 * (8192 * 1024) BY <1>1, <1>5, SMT
  <2>2. s * (8192 * 1024) >= 15 * (8192 * 1024) BY SMT
  <2> QED BY <1>5, <2>1, <2>2, SMT
<1>7. s \in Nat \ {0} OBVIOUS
<1>8. NearHalf(StoredHalf(big, s), big, s) BY <1>5, <1>6, <1>7, StoredNear
<1> QED BY <1>3, <1>8 DEF big

(* ... and so are both of a Q4_K block.                                    *)
NearFactor(f) == NearHalf(StoredFactor(f), f.num, f.den)
LEMMA StoredFactors ==
  ASSUME NEW vals \in [1..256 -> Packable]
  PROVE  /\ vals \in [1..256 -> Int]
         /\ NearFactor(FactorsQ4(vals).d) /\ NearFactor(FactorsQ4(vals).dmin)
<1> DEFINE B == 8192 * 4096
           f == FactorsQ4(vals)
           W == Widest(vals)
           L == Lowest(vals)
           e == Fallback
           Small(r) == Positive(r) /\ 2 * r.num < r.den * (8192 * 1024)
<1>1. B \in Nat /\ B = 8192 * 4096 BY SMT
<1> HIDE DEF B
<1>2. \A i \in 1..256 : vals[i] \in Int /\ -B <= vals[i] /\ vals[i] <= B BY <1>1, PackableRange
<1>3. vals \in [1..256 -> Int] BY <1>2
<1>4. Bounded(vals, B) BY <1>2 DEF Bounded
<1>5. W \in Nat /\ L \in Int /\ W <= 2 * B /\ -B <= L
  BY <1>1, <1>3, <1>4, WidestOf, WidestWithin
<1>6. /\ f.d = IF W > 0 THEN [num |-> W, den |-> 945] ELSE e
      /\ f.dmin = IF L < 0 THEN [num |-> -L, den |-> 63] ELSE f.d
  BY BlockFactors
<1>7. Small(e)
  <2>1. Positive(e) /\ 2 * e.num < e.den BY TinyFactor DEF Positive
  <2> HIDE DEF e
  <2>2. e.num \in Int /\ e.den \in Int /\ e.den > 0 BY <2>1 DEF Positive
  <2>3. e.den <= e.den * (8192 * 1024) BY <2>2, SMT
  <2>4. 2 * e.num < e.den * (8192 * 1024) BY <2>1, <2>2, <2>3, SMT
  <2> QED BY <2>1, <2>4
<1>8. ASSUME NEW r, Small(r) PROVE NearFactor(r)
  <2>1. r.num \in Nat /\ r.den \in Nat \ {0} /\ 2 * r.num < r.den * (8192 * 1024)
    BY <1>8 DEF Positive
  <2>2. NearHalf(StoredHalf(r.num, r.den), r.num, r.den) BY <2>1, StoredNear
  <2> QED BY <2>2 DEF NearFactor, StoredFactor
<1> HIDE DEF f, W, L, e
<1>9. Small(f.d)
  <2>1. CASE W > 0
    <3>1. f.d.num = W /\ f.d.den = 945 BY <1>6, <2>1
    <3>2. 2 * W < 945 * (8192 * 1024) BY <1>1, <1>5, SMT
    <3> QED BY <1>5, <2>1, <3>1, <3>2 DEF Positive
  <2>2. CASE ~(W > 0)
    <3>1. f.d = e BY <1>6, <2>2
    <3> HIDE DEF Small
    <3> QED BY <1>7, <3>1
  <2> QED BY <2>1, <2>2
<1>10. Small(f.dmin)
  <2>1. CASE L < 0
    <3>1. f.dmin.num = -L /\ f.dmin.den = 63 BY <1>6, <2>1
    <3>2. 2 * (-L) < 63 * (8192 * 1024) BY <1>1, <1>5, SMT
    <3>3. -L \in Int /\ -L > 0 BY <1>5, <2>1
    <3> QED BY <3>1, <3>2, <3>3 DEF Positive
  <2>2. CASE ~(L < 0)
    <3>1. f.dmin = f.d BY <1>6, <2>2
    <3> HIDE DEF Small
    <3> QED BY <1>9, <3>1
  <2> QED BY <2>1, <2>2
<1> HIDE DEF Small
<1>11. NearFactor(f.d) /\ NearFactor(f.dmin) BY <1>8, <1>9, <1>10
<1> QED BY <1>3, <1>11 DEF f

(* The headers of a packed block are halves.                               *)
LEMMA PackedHeaders ==
  ASSUME NEW fmt \in Format, NEW vals \in [1..QK[fmt] -> Packable]
  PROVE  Pack(fmt, vals).d \in Half /\ Pack(fmt, vals).dmin \in Half
<1>1. NoMin \in Half
  <2>1. 0 \in 0..(2^10 - 1) BY Powers, SMT
  <2> QED BY <2>1 DEF NoMin, Half
<1>2. CASE fmt = "Q8_0"
  <2> DEFINE s == 127
  <2>1. vals \in [1..32 -> Packable] /\ Pack(fmt, vals) = PackQ8(vals) BY <1>2, SMT DEF QK, Pack
  <2>2. PackQ8(vals).d = StoredHalf(Largest(vals), s) /\ PackQ8(vals).dmin = NoMin BY DEF PackQ8
  <2>3. s \in Nat /\ s >= 15 OBVIOUS
  <2> HIDE DEF s
  <2>4. NearHalf(StoredHalf(Largest(vals), s), Largest(vals), s) BY <2>1, <2>3, StoredLargest
  <2>5. StoredHalf(Largest(vals), s) \in Half BY <2>4 DEF NearHalf
  <2> QED BY <1>1, <2>1, <2>2, <2>5
<1>3. CASE fmt = "Q5_0"
  <2> DEFINE s == 15
  <2>1. vals \in [1..32 -> Packable] /\ Pack(fmt, vals) = PackQ5(vals) BY <1>3, SMT DEF QK, Pack
  <2>2. PackQ5(vals).d = StoredHalf(Largest(vals), s) /\ PackQ5(vals).dmin = NoMin BY DEF PackQ5
  <2>3. s \in Nat /\ s >= 15 OBVIOUS
  <2> HIDE DEF s
  <2>4. NearHalf(StoredHalf(Largest(vals), s), Largest(vals), s) BY <2>1, <2>3, StoredLargest
  <2>5. StoredHalf(Largest(vals), s) \in Half BY <2>4 DEF NearHalf
  <2> QED BY <1>1, <2>1, <2>2, <2>5
<1>4. CASE fmt = "Q4_K"
  <2> DEFINE f == FactorsQ4(vals)
  <2>1. vals \in [1..256 -> Packable] /\ Pack(fmt, vals) = PackQ4(vals) BY <1>4, SMT DEF QK, Pack
  <2>2. PackQ4(vals).d = StoredFactor(f.d) /\ PackQ4(vals).dmin = StoredFactor(f.dmin) BY DEF PackQ4
  <2>3. NearFactor(f.d) /\ NearFactor(f.dmin) BY <2>1, StoredFactors
  <2> HIDE DEF f
  <2>4. StoredFactor(f.d) \in Half /\ StoredFactor(f.dmin) \in Half BY <2>3 DEF NearFactor, NearHalf
  <2> QED BY <2>1, <2>2, <2>4
<1> QED BY <1>2, <1>3, <1>4 DEF Format

-----------------------------------------------------------------------------
(* The invariant of a row, and what follows from it of the paths and the   *)
(* factors                                                                 *)

(* Once a path has decoded the row it keeps what the row decodes to; the   *)
(* row may be packed anew only before that.                                *)
RowInv ==
  /\ IsRow(row) /\ Headers(row) /\ DOMAIN out = Decoder
  /\ \A p \in Decoder : out[p] = << >> \/ out[p] = Decoded(p, row)
  /\ meant # << >> => meant \in Columns[row.fmt] /\ row.blocks = <<Pack(row.fmt, meant)>>

(* The invariant holds of a row from the file, which no path has decoded.  *)
LEMMA RowInitInv == RowInit => RowInv
<1> SUFFICES ASSUME RowInit PROVE RowInv OBVIOUS
<1>1. row.fmt \in Format /\ row.blocks \in Seq(BlockOf(row.fmt))
  BY QuantBlocksAssumption DEF RowInit
<1>2. Len(row.blocks) \in Nat /\ DOMAIN row.blocks = 1..Len(row.blocks) BY <1>1, LenProperties
<1>3. DOMAIN out = Decoder /\ \A p \in Decoder : out[p] = << >> BY DEF RowInit
<1>4. meant = << >> BY DEF RowInit
<1>5. Headers(row)
  <2> DEFINE blocks == row.blocks
             T == BlockOf(row.fmt)
  <2>1. blocks \in Seq(T) /\ DOMAIN blocks = 1..Len(blocks) BY <1>1, <1>2
  <2>2. \A b \in T : b.d \in Half /\ b.dmin \in Half
    <3> DEFINE Bodies == [0..(BodyBytes[row.fmt] - 1) -> 0..255]
    <3>1. T = [d : Half, dmin : Half, body : Bodies] BY DEF BlockOf
    <3> HIDE DEF T, Bodies
    <3> QED BY <3>1
  <2> HIDE DEF blocks, T
  <2>3. \A i \in 1..Len(blocks) : blocks[i] \in T BY <2>1, ElementOfSeq
  <2> QED BY <2>1, <2>2, <2>3 DEF Headers, blocks
<1> QED BY <1>1, <1>2, <1>3, <1>4, <1>5 DEF RowInv, IsRow

(* Packing the row and decoding it on one more path preserve the           *)
(* invariant.                                                              *)
LEMMA RowStepInv == RowInv /\ [RowNext]_rowVars => RowInv'
<1> SUFFICES ASSUME RowInv, [RowNext]_rowVars PROVE RowInv' OBVIOUS
<1>1. CASE TransposePacked
  <2> PICK vals \in Columns[row.fmt] :
        meant' = vals /\ row' = [fmt |-> row.fmt, blocks |-> <<Pack(row.fmt, vals)>>]
    BY <1>1 DEF TransposePacked
  <2> DEFINE b == Pack(row.fmt, vals)
  <2>0. b.d \in Half /\ b.dmin \in Half
    <3>1. row.fmt \in Format BY DEF RowInv, IsRow
    <3>2. vals \in [1..QK[row.fmt] -> Packable] BY <3>1, QuantBlocksAssumption
    <3> QED BY <3>1, <3>2, PackedHeaders
  <2> HIDE DEF b
  <2>1. row' = [fmt |-> row.fmt, blocks |-> <<b>>] BY DEF b
  <2>2. row'.fmt = row.fmt /\ row'.blocks = <<b>> BY <2>1
  <2>3. Len(row'.blocks) = 1 /\ DOMAIN row'.blocks = 1..1 BY <2>2
  <2>4. IsRow(row)'
    <3>1. Len(row'.blocks) \in Nat BY <2>3
    <3> QED BY <2>2, <2>3, <3>1 DEF IsRow, RowInv
  <2>7. Headers(row)'
    <3>1. \A i \in DOMAIN row'.blocks : row'.blocks[i] = b BY <2>2, <2>3
    <3> QED BY <2>0, <3>1 DEF Headers
  <2>5. DOMAIN out' = Decoder /\ \A p \in Decoder : out'[p] = << >>
    BY <1>1 DEF TransposePacked, RowInv
  <2>6. meant' \in Columns[row'.fmt] /\ row'.blocks = <<Pack(row'.fmt, meant')>>
    BY <2>2 DEF b
  <2> QED BY <2>4, <2>5, <2>6, <2>7 DEF RowInv
<1>2. ASSUME NEW p \in Decoder, Decode(p) PROVE RowInv'
  <2>1. row' = row /\ meant' = meant /\ out' = [out EXCEPT ![p] = Decoded(p, row)]
    BY <1>2 DEF Decode
  <2> DEFINE x == Decoded(p, row)
  <2>2. out' = [out EXCEPT ![p] = x] BY <2>1
  <2> HIDE DEF x
  <2>3. DOMAIN out' = Decoder BY <2>2 DEF RowInv
  <2>4. ASSUME NEW q \in Decoder PROVE out'[q] = << >> \/ out'[q] = Decoded(q, row')
    <3>1. CASE q = p
      <4>1. out'[q] = x BY <2>2, <3>1 DEF RowInv
      <4>2. Decoded(q, row') = x BY <2>1, <3>1 DEF x
      <4> QED BY <4>1, <4>2
    <3>2. CASE q # p
      <4>1. out'[q] = out[q] BY <2>2, <3>2 DEF RowInv
      <4>2. Decoded(q, row') = Decoded(q, row) BY <2>1
      <4> QED BY <4>1, <4>2 DEF RowInv
    <3> QED BY <3>1, <3>2
  <2>5. IsRow(row)' /\ Headers(row)' BY <2>1 DEF IsRow, Headers, RowInv
  <2> QED BY <2>1, <2>3, <2>4, <2>5 DEF RowInv
<1>3. CASE UNCHANGED rowVars
  <2>1. row' = row /\ meant' = meant /\ out' = out BY <1>3 DEF rowVars
  <2>2. \A p \in Decoder : Decoded(p, row') = Decoded(p, row) BY <2>1
  <2>3. IsRow(row)' /\ Headers(row)' BY <2>1 DEF IsRow, Headers, RowInv
  <2> QED BY <2>1, <2>2, <2>3 DEF RowInv
<1> QED BY <1>1, <1>2, <1>3 DEF RowNext

(* Whatever path decodes the row, and in whatever order they do, what a    *)
(* path has made of it is still what it would make of it:                  *)
(* tensor_transpose_packed_inplace replaces the blocks of a row only       *)
(* before any path has read them.                                          *)
THEOREM RowInvariant == RowSpec => []RowInv
BY RowInitInv, RowStepInv, PTL DEF RowSpec

(* The invariant gives the agreement of the paths.                         *)
LEMMA RowsAgree == RowInv => PathsAgree
<1> SUFFICES ASSUME RowInv,
                    NEW p \in Decoder, NEW q \in Decoder, out[p] # << >>, out[q] # << >>,
                    Comparable(p, q)
             PROVE  out[p] = out[q]
  BY DEF PathsAgree
<1>1. /\ IsRow(row) /\ Headers(row)
      /\ out[p] = Decoded(p, row) /\ out[q] = Decoded(q, row) BY DEF RowInv
<1>2. Decoded(p, row) = AsElements(p, row) /\ Decoded(q, row) = AsElements(q, row)
  BY <1>1, DecodedInRow
<1>3. AsElements(p, row) = AsElements(q, row) BY <1>1, SameRows
<1> QED BY <1>1, <1>2, <1>3

(* The five places that decode a quantized row agree, for every row of     *)
(* every format, whatever its bytes: the block loops of tensor.cpp,        *)
(* backend_runtime.cpp and cuda_backend.cu, the kernels by elements, and   *)
(* the kernels whose threads work out their weight block from the first    *)
(* column of their thread block. The exceptions are the two that           *)
(* Comparable names.                                                       *)
THEOREM DecodersAgree == RowSpec => []PathsAgree
BY RowInvariant, RowsAgree, PTL

(* The invariant gives the exactness of the factors.                       *)
LEMMA RowFactorsExact == RowInv => FactorsExact
<1> SUFFICES ASSUME RowInv,
                    NEW p \in Decoder, out[p] # << >>, NEW i \in DOMAIN row.blocks,
                    row.blocks[i].d.exp < 31
             PROVE  SameValue(out[p][QK[row.fmt] * (i - 1) + 1].d, row.blocks[i].d)
  BY DEF FactorsExact
<1> DEFINE e == QK[row.fmt]
           b == row.blocks[i]
           n == Len(row.blocks)
           c == e * (i - 1) + 1
           f == DecoderOf(p, row.fmt)
<1>1. IsRow(row) /\ out[p] = AsElements(p, row) BY DecodedInRow DEF RowInv
<1>2. row.fmt \in Format /\ n \in Nat /\ i \in 1..n BY <1>1 DEF IsRow
<1>3. e \in Nat \ {0} BY <1>2, Sizes
<1> HIDE DEF e, n
<1>4. c \in 1..(n * e) /\ (c - 1) \div e = i - 1 /\ (c - 1) % e = 0
  <2> DEFINE x == (i - 1) * e
             y == n * e
  <2>1. i - 1 \in Nat BY <1>2, SMT
  <2>2. x + 0 \in Nat /\ (x + 0) \div e = i - 1 /\ (x + 0) % e = 0
    <3>1. 0 \in 0..e - 1 BY <1>3, SMT
    <3> QED BY <1>3, <2>1, <3>1, RowAndColumn
  <2>3. x \in Int /\ y \in Int BY <1>2, <1>3, <2>1, SMT
  <2>4. e * (i - 1) = x BY <1>3, <2>1, SMT
  <2>5. x + e <= y
    <3>1. (n - i) * e >= 0 BY <1>2, <1>3, SMT
    <3>2. (n - i) * e = y - (x + e) BY <1>2, <1>3, SMT
    <3> HIDE DEF x, y
    <3> QED BY <1>3, <2>3, <3>1, <3>2, SMT
  <2> HIDE DEF x, y
  <2>6. c = x + 1 BY <2>4
  <2>7. c - 1 = x + 0 /\ c \in 1..y
    <3> HIDE DEF c
    <3> QED BY <1>3, <2>2, <2>3, <2>5, <2>6, SMT
  <2> QED BY <2>2, <2>7 DEF y
<1> HIDE DEF c
<1>5. out[p][c] = InRow(f, p, row.blocks, e, c)
  BY <1>1, <1>4 DEF AsElements, ElementsOf, e, n
<1>6. out[p][c] = Element(f, p, b, 0)
  <2>1. (i - 1) + 1 = i BY <1>2, SMT
  <2> QED BY <1>4, <1>5, <2>1 DEF InRow
<1>7. f \in Format BY <1>2, Sizes DEF DecoderOf
<1>8. Element(f, p, b, 0).d = Convert(p, b.d)
  <2> HIDE DEF f, b
  <2>1. f = "Q4_K" => Element(f, p, b, 0) = ElementQ4(p, b, 0) BY DEF Element
  <2>2. f = "Q5_0" => Element(f, p, b, 0) = ElementQ5(p, b, 0) BY DEF Element
  <2>3. f = "Q8_0" => Element(f, p, b, 0) = ElementQ8(p, b, 0) BY DEF Element
  <2>4. ElementQ4(p, b, 0).d = Convert(p, b.d) BY DEF ElementQ4, Value
  <2>5. ElementQ5(p, b, 0).d = Convert(p, b.d) BY DEF ElementQ5, Value
  <2>6. ElementQ8(p, b, 0).d = Convert(p, b.d) BY DEF ElementQ8, Value
  <2> QED BY <1>7, <2>1, <2>2, <2>3, <2>4, <2>5, <2>6 DEF Format
<1>0. b.d \in Half /\ b.d.exp < 31 BY DEF RowInv, Headers
<1> HIDE DEF b
<1>9. Convert(p, b.d) = HostFloat(b.d) BY <1>0, SameConversion DEF Convert
<1>10. SameValue(HostFloat(b.d), b.d) BY <1>0, ExactConversion
<1> QED BY <1>6, <1>8, <1>9, <1>10 DEF c, e, b

(* On every path the factor of a block is the exact value of the half in   *)
(* its header, for every half that is a number: fp16_to_fp32_device, which *)
(* counts the exponent of a subnormal below zero in an unsigned integer,   *)
(* included.                                                               *)
THEOREM DecodersExact == RowSpec => []FactorsExact
BY RowInvariant, RowFactorsExact, PTL

(* A finite half above zero and any rest below it are rounded to the       *)
(* nearest half.                                                           *)
LEMMA Rounded ==
  ASSUME NEW h \in Half, h.exp < 31, Number(h) > 0, NEW r \in Nat, r < 8192
  PROVE  Number(ToHalf(Between(h, r)))
           = IF r < 4096 THEN Number(h) ELSE IF Number(h) = 1023 THEN 0 ELSE Number(h) + 1
<1>1. h.exp \in Nat /\ h.frac \in Nat /\ h.frac < 1024 BY HalfFields
<1>2. CASE h.exp = 0
  <2>1. h.frac # 0 BY <1>1, <1>2, SMT DEF Number
  <2> QED BY <1>2, <2>1, SubnormalRounded
<1>3. CASE h.exp # 0
  <2>1. 1 <= h.exp /\ h.exp <= 30 /\ Number(h) # 1023 BY <1>1, <1>3, SMT DEF Number
  <2>2. Number(ToHalf(Between(h, r))) = IF r < 4096 THEN Number(h) ELSE Number(h) + 1
    BY <2>1, NormalRounded
  <2> QED BY <2>1, <2>2
<1> QED BY <1>2, <1>3

(* ... so the headers of a row are, with the rests the run tries.          *)
LEMMA RowsRound == RowInv => RoundsToNearest
<1> SUFFICES ASSUME RowInv, NEW i \in DOMAIN row.blocks,
                    row.blocks[i].d.exp < 31, Number(row.blocks[i].d) > 0,
                    NEW r \in {0, 1, 4095, 4096, 8191}
             PROVE  Number(ToHalf(Between(row.blocks[i].d, r)))
                      = IF r < 4096 THEN Number(row.blocks[i].d)
                        ELSE IF Number(row.blocks[i].d) = 1023 THEN 0
                        ELSE Number(row.blocks[i].d) + 1
  BY DEF RoundsToNearest
<1>1. r \in Nat /\ r < 8192 BY SMT
<1>2. row.blocks[i].d \in Half BY DEF RowInv, Headers
<1> QED BY <1>1, <1>2, Rounded

(* f32_to_fp16_bits stores every factor as the nearest half, up from the   *)
(* middle, with the carry into the exponent and up to infinity; only a     *)
(* factor just below the least normal half becomes zero, as its carry is   *)
(* masked away.                                                            *)
THEOREM StoringRounds == RowSpec => []RoundsToNearest
BY RowInvariant, RowsRound, PTL

-----------------------------------------------------------------------------
(* Packing Q8_0: quants between -127 and 127, of steps of the largest      *)
(* value                                                                   *)

(* The only block of a packed row, as the CPU decodes it.                  *)
LEMMA OneBlock ==
  ASSUME RowInv, meant # << >>, out["cpu"] # << >>, NEW k \in Nat, k < QK[row.fmt]
  PROVE  out["cpu"][k + 1] = Element(row.fmt, "cpu", Pack(row.fmt, meant), k)
<1> DEFINE fmt == row.fmt
           e == QK[fmt]
           b == Pack(fmt, meant)
<1>1. IsRow(row) /\ row.blocks = <<b>> /\ out["cpu"] = Decoded("cpu", row)
  BY DEF RowInv, Decoder
<1>2. fmt \in Format /\ e \in Nat \ {0} BY <1>1, Sizes DEF IsRow
<1> HIDE DEF b
<1>3. Len(row.blocks) = 1 /\ row.blocks[1] = b BY <1>1
<1>4. out["cpu"] = AsElements("cpu", row) BY <1>1, DecodedInRow DEF Decoder
<1>5. DecoderOf("cpu", fmt) = fmt BY DEF DecoderOf
<1>6. k + 1 \in 1..(1 * e) /\ (k + 1) - 1 = k
  <2>1. k < e OBVIOUS
  <2> HIDE DEF e
  <2> QED BY <1>2, <2>1
<1>7. k \div e = 0 /\ k % e = k
  <2>1. 0 \in Nat /\ k \in 0..e - 1 /\ 0 * e + k = k
    <3>1. k < e OBVIOUS
    <3> HIDE DEF e
    <3> QED BY <1>2, <3>1
  <2> HIDE DEF e
  <2>2. (0 * e + k) \div e = 0 /\ (0 * e + k) % e = k BY <1>2, <2>1, RowAndColumn
  <2> QED BY <2>1, <2>2
<1> HIDE DEF e
<1>8. out["cpu"][k + 1] = InRow(fmt, "cpu", row.blocks, e, k + 1)
  BY <1>3, <1>4, <1>5, <1>6 DEF AsElements, ElementsOf, e
<1>9. InRow(fmt, "cpu", row.blocks, e, k + 1) = Element(fmt, "cpu", b, k)
  BY <1>3, <1>6, <1>7 DEF InRow
<1> QED BY <1>8, <1>9 DEF b

-----------------------------------------------------------------------------
(* Q8_0 and Q5_0: quants between -s and s, of steps of big / s.            *)
LEMMA Clipped ==
  ASSUME NEW x \in Int, NEW lo \in Int, NEW hi \in Int, lo <= x, x <= hi
  PROVE  Clip(lo, x, hi) = x
BY DEF Clip, AtLeast, AtMost

(* A value in steps of big / s, and a number of steps as near as can be.   *)
Steps(s, val, big) == IF big = 0 THEN 0 ELSE LRound(s * val, big)
(* ... q is one of them.                                                   *)
Nearest(q, s, val, big) == /\ q \in Int /\ -s <= q /\ q <= s
                           /\ 2 * Abs(q * big - s * val) <= big

(* Dividing by the largest value, a quant is within half a step and within *)
(* its range.                                                              *)
LEMMA StepsOf ==
  ASSUME NEW val \in Int, NEW big \in Nat, Abs(val) <= big, NEW s \in Nat
  PROVE  Nearest(Steps(s, val, big), s, val, big)
<1> DEFINE Q == Steps(s, val, big)
<1>0. Q = IF big = 0 THEN 0 ELSE LRound(s * val, big) BY DEF Steps
<1> HIDE DEF Q
<1> SUFFICES Q \in Int /\ -s <= Q /\ Q <= s /\ 2 * Abs(Q * big - s * val) <= big
  BY DEF Nearest, Q
<1>1. CASE big = 0
  <2>1. val = 0 BY <1>1, AbsType
  <2>2. Q = 0 BY <1>0, <1>1
  <2>3. s * val = 0 /\ Q * big = 0 BY <1>1, <2>1, <2>2
  <2> QED BY <1>1, <2>2, <2>3 DEF Abs
<1>2. CASE big # 0
  <2> DEFINE a == s * val
             z == s * big
             y == big * Q
  <2>1. Q = LRound(a, big) BY <1>0, <1>2
  <2>2. a \in Int /\ z \in Int /\ big > 0 BY <1>2, SMT
  <2>3. a <= z /\ -a <= z
    <3>1. val <= big /\ -val <= big BY AbsType
    <3>2. s * (big - val) >= 0 /\ s * (big + val) >= 0 BY <3>1, SMT
    <3>3. s * (big - val) = z - a /\ s * (big + val) = z + a BY SMT
    <3> HIDE DEF a, z
    <3> QED BY <2>2, <3>2, <3>3, SMT
  <2> HIDE DEF a
  <2>4. Q \in Int /\ 2 * y - 2 * a <= big /\ 2 * a - 2 * y <= big
    BY <2>1, <2>2, RoundedNear DEF NearestTo
  <2>5. Q <= s /\ -s <= Q BY <2>1, <2>2, <2>3, RoundedWithin
  <2>6. Q * big = y /\ y \in Int BY <2>4, SMT
  <2> HIDE DEF y
  <2>7. 2 * Abs(y - a) <= big BY <2>2, <2>4, <2>6, SMT DEF Abs
  <2> QED BY <2>4, <2>5, <2>6, <2>7 DEF a
<1> QED BY <1>1, <1>2

(* A signed quant is read back from its byte.                              *)
LEMMA SignedByte ==
  ASSUME NEW q \in Int, -128 <= q, q <= 127
  PROVE  Signed(q % 256) = q
<1>1. q % 256 = IF q < 0 THEN q + 256 ELSE q BY SMT
<1> QED BY <1>1, SMT DEF Signed

(* The quants of a Q8_0 block are the values within half a step of the     *)
(* factor before it is stored (tensor_quant_q8_0_block).                   *)
LEMMA PackedQ8 ==
  ASSUME NEW vals \in [1..32 -> Int], NEW k \in 0..31
  PROVE  /\ PackQ8(vals).d = StoredHalf(Largest(vals), 127)
         /\ ElementQ8("cpu", PackQ8(vals), k).q \in Int
         /\ 2 * Abs(ElementQ8("cpu", PackQ8(vals), k).q * Largest(vals) - 127 * vals[k + 1])
              <= Largest(vals)
<1> DEFINE big == Largest(vals)
           Q(i) == IF big = 0 THEN 0 ELSE Clip(-128, LRound(127 * vals[i], big), 127)
           q == [i \in 1..32 |-> Q(i)]
           body == [i \in 0..31 |-> q[i + 1] % 256]
           X == IF big = 0 THEN 0 ELSE LRound(127 * vals[k + 1], big)
<1>1. PackQ8(vals).d = StoredHalf(big, 127) /\ PackQ8(vals).body = body
  BY DEF PackQ8
<1>2. big \in Nat /\ k + 1 \in 1..32 /\ vals[k + 1] \in Int /\ Abs(vals[k + 1]) <= big
  <2>1. k + 1 \in 1..32 BY SMT
  <2> QED BY <2>1, LargestOf
<1> HIDE DEF big
<1>3. X \in Int /\ -127 <= X /\ X <= 127 /\ 2 * Abs(X * big - 127 * vals[k + 1]) <= big
  <2> DEFINE s == 127
             val == vals[k + 1]
  <2>1. s \in Nat /\ s = 127 OBVIOUS
  <2>2. X = Steps(s, val, big) BY DEF Steps
  <2> HIDE DEF s, X, val
  <2>3. val \in Int /\ Abs(val) <= big BY <1>2 DEF val
  <2>4. Nearest(X, s, val, big) BY <1>2, <2>1, <2>2, <2>3, StepsOf
  <2> QED BY <2>1, <2>4 DEF val, Nearest
<1>4. Q(k + 1) = X
  <2>1. CASE big = 0 BY <2>1
  <2>2. CASE big # 0
    <3>1. X = LRound(127 * vals[k + 1], big) BY <2>2
    <3> HIDE DEF X
    <3>2. Clip(-128, X, 127) = X
      <4>1. -128 <= X /\ -128 \in Int /\ 127 \in Int BY <1>3
      <4> QED BY <1>3, <4>1, Clipped
    <3> QED BY <2>2, <3>1, <3>2
  <2> QED BY <2>1, <2>2
<1>5. body[k] = X % 256
  <2> HIDE DEF Q, X
  <2>1. body[k] = q[k + 1] % 256
    <3> HIDE DEF q
    <3> QED BY Zenon
  <2>2. q[k + 1] = Q(k + 1) BY <1>2, Zenon
  <2> QED BY <1>4, <2>1, <2>2
<1> HIDE DEF X, body
<1>6. Signed(X % 256) = X
  <2>1. -128 <= X BY <1>3
  <2> QED BY <1>3, <2>1, SignedByte
<1>7. ElementQ8("cpu", PackQ8(vals), k).q = X BY <1>1, <1>5, <1>6 DEF ElementQ8, Value
<1> QED BY <1>1, <1>3, <1>7 DEF big

-----------------------------------------------------------------------------
(* Packing Q5_0: the upper bit of a quant is apart, in a mask of four      *)
(* bytes                                                                   *)

(* The eight bits of a byte.                                               *)
LEMMA ByteBits ==
  ASSUME NEW t0 \in 0..1, NEW t1 \in 0..1, NEW t2 \in 0..1, NEW t3 \in 0..1,
         NEW t4 \in 0..1, NEW t5 \in 0..1, NEW t6 \in 0..1, NEW t7 \in 0..1,
         NEW m, m = t0 + 2 * t1 + 4 * t2 + 8 * t3 + 16 * t4 + 32 * t5 + 64 * t6 + 128 * t7
  PROVE  /\ Bit(m, 0) = t0 /\ Bit(m, 1) = t1 /\ Bit(m, 2) = t2 /\ Bit(m, 3) = t3
         /\ Bit(m, 4) = t4 /\ Bit(m, 5) = t5 /\ Bit(m, 6) = t6 /\ Bit(m, 7) = t7
<1>1. /\ 2^0 = 1 /\ 2^1 = 2 /\ 2^2 = 4 /\ 2^3 = 8 /\ 2^4 = 16 /\ 2^5 = 32 /\ 2^6 = 64
      /\ 2^7 = 128 BY Powers
<1>2. /\ (m \div 1) % 2 = t0 /\ (m \div 2) % 2 = t1 BY SMT
<1>3. /\ (m \div 4) % 2 = t2 /\ (m \div 8) % 2 = t3 BY SMT
<1>4. /\ (m \div 16) % 2 = t4 /\ (m \div 32) % 2 = t5 BY SMT
<1>5. /\ (m \div 64) % 2 = t6 /\ (m \div 128) % 2 = t7 BY SMT
<1> QED BY <1>1, <1>2, <1>3, <1>4, <1>5 DEF Bit

(* A place in a mask is a bit of one of its bytes.                         *)
LEMMA MaskBits ==
  ASSUME NEW q, \A i \in 1..32 : q[i] \in 0..31, NEW k \in 0..31,
         NEW body,
         \A n \in 0..3 :
           body[n] = (q[8 * n + 0 + 1] \div 16) + 2 * (q[8 * n + 1 + 1] \div 16)
                       + 4 * (q[8 * n + 2 + 1] \div 16) + 8 * (q[8 * n + 3 + 1] \div 16)
                       + 16 * (q[8 * n + 4 + 1] \div 16) + 32 * (q[8 * n + 5 + 1] \div 16)
                       + 64 * (q[8 * n + 6 + 1] \div 16) + 128 * (q[8 * n + 7 + 1] \div 16)
  PROVE  Bit(body[k \div 8], k % 8) = q[k + 1] \div 16
<1> DEFINE n == k \div 8
           i == k % 8
           t(j) == q[8 * n + j + 1] \div 16
<1>1. n \in 0..3 /\ i \in 0..7 /\ k = 8 * n + i BY SMT
<1> HIDE DEF n, i
<1>2. ASSUME NEW j \in 0..7 PROVE t(j) \in 0..1
  <2>1. 8 * n + j + 1 \in 1..32 BY <1>1, SMT
  <2>2. q[8 * n + j + 1] \in 0..31 BY <2>1
  <2> QED BY <2>2, SMT
<1>3. body[n] = t(0) + 2 * t(1) + 4 * t(2) + 8 * t(3)
                  + 16 * t(4) + 32 * t(5) + 64 * t(6) + 128 * t(7)
  BY <1>1
<1>4. /\ t(0) \in 0..1 /\ t(1) \in 0..1 /\ t(2) \in 0..1 /\ t(3) \in 0..1
      /\ t(4) \in 0..1 /\ t(5) \in 0..1 /\ t(6) \in 0..1 /\ t(7) \in 0..1 BY <1>2
<1>5. q[k + 1] \div 16 = t(i) BY <1>1
<1> HIDE DEF t
<1>6. /\ Bit(body[n], 0) = t(0) /\ Bit(body[n], 1) = t(1) /\ Bit(body[n], 2) = t(2)
      /\ Bit(body[n], 3) = t(3) /\ Bit(body[n], 4) = t(4) /\ Bit(body[n], 5) = t(5)
      /\ Bit(body[n], 6) = t(6) /\ Bit(body[n], 7) = t(7)
  BY <1>3, <1>4, ByteBits
<1>7. Bit(body[n], i) = t(i)
  <2>1. i = 0 \/ i = 1 \/ i = 2 \/ i = 3 \/ i = 4 \/ i = 5 \/ i = 6 \/ i = 7 BY <1>1
  <2> QED BY <1>6, <2>1
<1> QED BY <1>5, <1>7 DEF n, i

(* The quants of a Q5_0 block are the values within half a step of the     *)
(* factor before it is stored (tensor_quant_q5_0_block).                   *)
LEMMA PackedQ5 ==
  ASSUME NEW vals \in [1..32 -> Int], NEW k \in 0..31
  PROVE  /\ PackQ5(vals).d = StoredHalf(Largest(vals), 15)
         /\ ElementQ5("cpu", PackQ5(vals), k).q \in Int
         /\ 2 * Abs(ElementQ5("cpu", PackQ5(vals), k).q * Largest(vals) - 15 * vals[k + 1])
              <= Largest(vals)
<1> DEFINE big == Largest(vals)
           Q(i) == 16 + (IF big = 0 THEN 0 ELSE Clip(-16, LRound(15 * vals[i], big), 15))
           q == [i \in 1..32 |-> Q(i)]
           top(byte, i) == q[8 * byte + i + 1] \div 16
           mask(byte) == top(byte, 0) + 2 * top(byte, 1) + 4 * top(byte, 2) + 8 * top(byte, 3)
                      + 16 * top(byte, 4) + 32 * top(byte, 5) + 64 * top(byte, 6) + 128 * top(byte, 7)
           byte(i) == (q[i - 3] % 16) + 16 * (q[i - 3 + 16] % 16)
           body == [i \in 0..19 |-> IF i < 4 THEN mask(i) ELSE byte(i)]
           X(i) == Steps(15, vals[i], big)
<1>1. PackQ5(vals).d = StoredHalf(big, 15) /\ PackQ5(vals).body = body
  BY DEF PackQ5
<1>2. big \in Nat /\ \A i \in 1..32 : vals[i] \in Int /\ Abs(vals[i]) <= big
  BY LargestOf
<1> HIDE DEF big
<1>3. ASSUME NEW i \in 1..32
      PROVE  /\ Q(i) = 16 + X(i) /\ Q(i) \in 0..31 /\ X(i) \in Int
             /\ 2 * Abs(X(i) * big - 15 * vals[i]) <= big
  <2> DEFINE s == 15
             val == vals[i]
             Y == Steps(s, val, big)
  <2>1. s \in Nat /\ s = 15 OBVIOUS
  <2> HIDE DEF s, val
  <2>2. val \in Int /\ Abs(val) <= big BY <1>2 DEF val
  <2>3. Nearest(Y, s, val, big) BY <1>2, <2>1, <2>2, StepsOf
  <2>4. X(i) = Y BY <2>1 DEF val
  <2>5. Q(i) = 16 + (IF big = 0 THEN 0 ELSE Clip(-16, LRound(s * val, big), 15)) BY <2>1 DEF val
  <2>6. Y = IF big = 0 THEN 0 ELSE LRound(s * val, big) BY DEF Steps
  <2> HIDE DEF X, Q, Y
  <2>7. Y \in Int /\ -15 <= Y /\ Y <= 15 /\ 2 * Abs(Y * big - 15 * val) <= big
    BY <2>1, <2>3 DEF Nearest
  <2>8. Clip(-16, Y, 15) = Y
    <3>1. -16 <= Y /\ -16 \in Int /\ 15 \in Int BY <2>7
    <3> QED BY <2>7, <3>1, Clipped
  <2>9. Q(i) = 16 + Y
    <3>1. CASE big = 0 BY <2>5, <2>6, <3>1
    <3>2. CASE big # 0 BY <2>5, <2>6, <2>8, <3>2
    <3> QED BY <3>1, <3>2
  <2>10. Q(i) \in 0..31 BY <2>7, <2>9, SMT
  <2> QED BY <2>4, <2>7, <2>9, <2>10 DEF val
<1>4. \A i \in 1..32 : q[i] = Q(i)
  <2> HIDE DEF Q
  <2> QED BY Zenon
<1>5. \A i \in 1..32 : q[i] \in 0..31 BY <1>3, <1>4
<1> HIDE DEF q, Q, X
<1>6. \A n \in 0..3 : body[n] = mask(n)
  <2> SUFFICES ASSUME NEW n \in 0..3 PROVE body[n] = mask(n) OBVIOUS
  <2>1. n \in 0..19 /\ n < 4 BY SMT
  <2> HIDE DEF mask, byte
  <2> QED BY <2>1
<1>7. \A n \in 4..19 : body[n] = byte(n)
  <2> SUFFICES ASSUME NEW n \in 4..19 PROVE body[n] = byte(n) OBVIOUS
  <2>1. n \in 0..19 /\ ~(n < 4) BY SMT
  <2> HIDE DEF mask, byte
  <2> QED BY <2>1
<1> HIDE DEF body
<1> DEFINE x == q[k + 1]
<1>8. Bit(body[k \div 8], k % 8) = x \div 16
  BY <1>5, <1>6, MaskBits
<1> DEFINE low == IF k < 16 THEN body[4 + k] % 16 ELSE body[4 + (k - 16)] \div 16
<1>9. low = x % 16
  <2>1. CASE k < 16
    <3>1. 4 + k \in 4..19 /\ 4 + k - 3 = k + 1 /\ k + 17 \in 1..32 /\ k + 1 \in 1..32
          /\ 4 + k - 3 + 16 = k + 17 BY <2>1, SMT
    <3>2. body[4 + k] = (q[k + 1] % 16) + 16 * (q[k + 17] % 16) BY <1>7, <3>1
    <3>3. q[k + 1] \in 0..31 /\ q[k + 17] \in 0..31 BY <1>5, <3>1
    <3>4. ((q[k + 1] % 16) + 16 * (q[k + 17] % 16)) % 16 = q[k + 1] % 16 BY <3>3, SMT
    <3> QED BY <2>1, <3>2, <3>4
  <2>2. CASE ~(k < 16)
    <3>1. 4 + (k - 16) \in 4..19 /\ 4 + (k - 16) - 3 = k - 15 /\ k - 15 \in 1..32
          /\ k + 1 \in 1..32 /\ 4 + (k - 16) - 3 + 16 = k + 1 BY <2>2, SMT
    <3>2. body[4 + (k - 16)] = (q[k - 15] % 16) + 16 * (q[k + 1] % 16) BY <1>7, <3>1
    <3>3. q[k + 1] \in 0..31 /\ q[k - 15] \in 0..31 BY <1>5, <3>1
    <3>4. ((q[k - 15] % 16) + 16 * (q[k + 1] % 16)) \div 16 = q[k + 1] % 16 BY <3>3, SMT
    <3> QED BY <2>2, <3>2, <3>4
  <2> QED BY <2>1, <2>2
<1>10. ElementQ5("cpu", PackQ5(vals), k).q = 16 * Bit(body[k \div 8], k % 8) + low - 16
  <2> DEFINE bit == Bit(body[k \div 8], k % 8)
  <2>1. low = IF k < 16 THEN body[4 + (IF k < 16 THEN k ELSE k - 16)] % 16
              ELSE body[4 + (IF k < 16 THEN k ELSE k - 16)] \div 16 OBVIOUS
  <2> HIDE DEF low
  <2> QED BY <1>1, <2>1 DEF ElementQ5, Value
<1>11. k + 1 \in 1..32 BY SMT
<1>12. x = 16 + X(k + 1) /\ x \in 0..31 /\ X(k + 1) \in Int
       /\ 2 * Abs(X(k + 1) * big - 15 * vals[k + 1]) <= big
  BY <1>3, <1>4, <1>11
<1> HIDE DEF low, x
<1>13. 16 * (x \div 16) + (x % 16) = x BY <1>12, SMT
<1>14. ElementQ5("cpu", PackQ5(vals), k).q = X(k + 1) BY <1>8, <1>9, <1>10, <1>12, <1>13
<1> QED BY <1>1, <1>12, <1>14 DEF big

-----------------------------------------------------------------------------
(* Packing Q4_K: the groups of a block, and the scale and minimum of each  *)

(* The scale of a group.                                                   *)
LEMMA ScaleOf ==
  ASSUME NEW vals, NEW g, NEW W \in Nat, W > 0, NEW d, d.num = W, d.den = 945,
         Spread(vals, g) \in Nat, Spread(vals, g) <= W
  PROVE  /\ ScaleQ4(vals, g, d) \in 1..63
         /\ 2 * (W * ScaleQ4(vals, g, d)) >= 126 * Spread(vals, g) - W
<1> DEFINE S == Spread(vals, g)
           sc == ScaleQ4(vals, g, d)
           a == S * 945
           b == 15 * W
           r == LRound(a, b)
<1>1. sc = Clip(1, r, 63) BY DEF ScaleQ4
<1>2. S \in Nat /\ S <= W OBVIOUS
<1> HIDE DEF S, sc
<1>3. a \in Int /\ b \in Nat /\ b > 0 /\ a = 945 * S /\ b = 15 * W BY <1>2
<1>4. a <= 63 * b /\ -a <= 63 * b BY <1>2, <1>3
<1> HIDE DEF a, b
<1>5. r \in Int /\ 2 * a - 2 * (b * r) <= b /\ r >= 0
  <2>1. a >= 0 BY <1>2, <1>3
  <2>2. NearestTo(r, a, b) BY <1>3, RoundedNear
  <2> HIDE DEF r
  <2> QED BY <2>1, <2>2 DEF NearestTo
<1>6. r <= 63
  <2>1. 63 \in Nat OBVIOUS
  <2> QED BY <1>3, <1>4, <2>1, RoundedWithin
<1> HIDE DEF r
<1>7. sc \in 1..63 /\ sc >= r BY <1>1, <1>5, <1>6 DEF Clip, AtLeast, AtMost
<1> DEFINE x == W * r
           y == W * sc
<1>8. b * r = 15 * x /\ x \in Int BY <1>3, <1>5, SMT
<1>9. y >= x /\ y \in Int
  <2>1. W * (sc - r) >= 0 BY <1>5, <1>7, SMT
  <2>2. W * (sc - r) = y - x BY <1>5, <1>7, SMT
  <2>3. y \in Int BY <1>7, SMT
  <2> HIDE DEF x, y
  <2> QED BY <1>8, <2>1, <2>2, <2>3
<1> HIDE DEF x, y
<1>10. 2 * y >= 126 * S - W BY <1>2, <1>3, <1>5, <1>8, <1>9
<1> QED BY <1>7, <1>10 DEF S, sc, y

(* The minimum of a group that starts below zero.                          *)
LEMMA MinimumOf ==
  ASSUME NEW vals, NEW g, NEW L \in Nat, NEW dmin, dmin.num = L, dmin.den = 63,
         Min(Group(vals, g)) \in Int, Min(Group(vals, g)) < 0, -Min(Group(vals, g)) <= L
  PROVE  /\ MinimumQ4(vals, g, dmin) \in 0..63
         /\ 2 * (L * MinimumQ4(vals, g, dmin)) + 126 * Min(Group(vals, g)) <= L
         /\ -(2 * (L * MinimumQ4(vals, g, dmin)) + 126 * Min(Group(vals, g))) <= L
<1> DEFINE m == Min(Group(vals, g))
           mm == MinimumQ4(vals, g, dmin)
           a == -m * 63
           r == LRound(a, L)
<1>1. mm = Clip(0, r, 63) BY DEF MinimumQ4
<1>2. m \in Int /\ m < 0 /\ -m <= L OBVIOUS
<1> HIDE DEF m, mm
<1>3. a \in Int /\ L > 0 /\ a = 63 * (-m) /\ a >= 0 BY <1>2
<1>4. a <= 63 * L /\ -a <= 63 * L BY <1>2, <1>3
<1> HIDE DEF a
<1>5. r \in Int /\ 2 * (L * r) - 2 * a <= L /\ 2 * a - 2 * (L * r) <= L /\ r >= 0
  <2>1. NearestTo(r, a, L) BY <1>3, RoundedNear
  <2> HIDE DEF r
  <2> QED BY <1>3, <2>1 DEF NearestTo
<1>6. r <= 63
  <2>1. 63 \in Nat OBVIOUS
  <2> QED BY <1>3, <1>4, <2>1, RoundedWithin
<1> HIDE DEF r
<1>7. mm = r
  <2>1. 0 \in Int /\ 63 \in Int /\ 0 <= r BY <1>5
  <2> QED BY <1>1, <1>5, <1>6, <2>1, Clipped
<1> DEFINE y == L * r
<1>8. y \in Int BY <1>5, SMT
<1> HIDE DEF y
<1>9. 2 * y - 2 * a <= L /\ 2 * a - 2 * y <= L BY <1>5 DEF y
<1>10. 2 * y + 126 * m <= L /\ -(2 * y + 126 * m) <= L BY <1>2, <1>3, <1>8, <1>9
<1>11. mm \in 0..63 BY <1>5, <1>6, <1>7
<1> QED BY <1>7, <1>10, <1>11 DEF m, mm, y

-----------------------------------------------------------------------------
(* ... the quants, and what clipping them costs                            *)

(* A quant of Q4_K fits four bits.                                         *)
LEMMA NibbleOf ==
  ASSUME NEW x \in Int
  PROVE  Clip(0, x, 15) \in 0..15
BY DEF Clip, AtLeast, AtMost

(* The factors of a block, wide and least in their numerators.             *)
FactorsOf(f, W, L) == /\ f.d.num = W /\ f.d.den = 945
                      /\ IF L > 0 THEN f.dmin.num = L /\ f.dmin.den = 63 ELSE f.dmin = f.d

(* Whatever the factors of a block, its quants fit four bits.              *)
LEMMA QuantInt ==
  ASSUME NEW f, NEW l \in Int, NEW e \in Int, e > 0, NEW W \in Nat, W > 0,
         f.d.num = W, f.d.den = e, f.dmin.num = l,
         NEW v \in Int, NEW sc \in 1..63, NEW mm \in 0..63
  PROVE  QuantQ4(v, sc, mm, f) \in 0..15
<1> DEFINE b == sc * W
           a1 == v * e
           a2 == (63 * v + mm * l) * (e \div 63)
<1>1. b \in Nat /\ b > 0
  <2>1. b >= W
    <3>1. (sc - 1) * W >= 0 BY SMT
    <3>2. (sc - 1) * W = b - W BY SMT
    <3>3. b \in Int BY SMT
    <3> HIDE DEF b
    <3> QED BY <3>1, <3>2, <3>3
  <2>2. b \in Int BY SMT
  <2> HIDE DEF b
  <2> QED BY <2>1, <2>2
<1>2. a1 \in Int /\ a2 \in Int
  <2>1. a1 \in Int BY SMT
  <2>2. e \div 63 \in Int /\ 63 * v + mm * l \in Int
    <3>1. mm * l \in Int BY SMT
    <3> DEFINE y == mm * l
    <3> HIDE DEF y
    <3>2. 63 * v + y \in Int BY <3>1, SMT DEF y
    <3> QED BY <3>2, SMT DEF y
  <2>3. a2 \in Int BY <2>2, SMT
  <2> QED BY <2>1, <2>3
<1>3. QuantQ4(v, sc, mm, f) = IF mm = 0 THEN Clip(0, LRound(a1, b), 15)
                              ELSE Clip(0, LRound(a2, b), 15)
  BY DEF QuantQ4
<1> HIDE DEF a1, a2, b
<1>4. NearestTo(LRound(a1, b), a1, b) /\ NearestTo(LRound(a2, b), a2, b)
  BY <1>1, <1>2, RoundedNear
<1>5. LRound(a1, b) \in Int /\ LRound(a2, b) \in Int BY <1>4 DEF NearestTo
<1>6. Clip(0, LRound(a1, b), 15) \in 0..15 /\ Clip(0, LRound(a2, b), 15) \in 0..15
  BY <1>5, NibbleOf
<1> QED BY <1>3, <1>6

(* q is a / b within half a step and an error e.                           *)
NearWithin(q, a, b, e) == 2 * (b * q) - 2 * a <= b + e /\ 2 * a - 2 * (b * q) <= b + e

(* A value v of a group from m to m + S, its scale b in units of W, its    *)
(* minimum y in units of L, and the dividend a of its quant.               *)
InGroup(W, L, S, m, v, b, y, a) ==
  /\ W \in Nat /\ L \in Nat /\ S \in Nat /\ m \in Int /\ v \in Int /\ m <= v /\ v <= m + S
  /\ b \in Nat /\ b > 0 /\ 2 * b >= 126 * S - W
  /\ y \in Int /\ 2 * y + 126 * m <= L /\ -(2 * y + 126 * m) <= L
  /\ a \in Int /\ a = 945 * v + 15 * y

(* Clipping a quant costs no more than what rounding scale and minimum to  *)
(* six bits costs: W * sc is wide in steps, L * mm the least value.        *)
LEMMA ClippedQuant ==
  ASSUME NEW W, NEW L, NEW S, NEW m, NEW v, NEW b, NEW y, NEW a,
         InGroup(W, L, S, m, v, b, y, a), NEW r, NearestTo(r, a, b)
  PROVE  NearWithin(Clip(0, r, 15), a, b, 15 * (W + L))
<1> DEFINE Q == Clip(0, r, 15)
           x == b * r
           z == b * Q
<1> USE DEF InGroup
<1> SUFFICES NearWithin(Q, a, b, 15 * (W + L)) OBVIOUS
<1>0. ASSUME 2 * z - 2 * a <= b + 15 * (W + L), 2 * a - 2 * z <= b + 15 * (W + L)
      PROVE  NearWithin(Q, a, b, 15 * (W + L))
  <2> HIDE DEF Q
  <2> QED BY <1>0 DEF NearWithin
<1>1. r \in Int /\ x \in Int /\ 2 * x - 2 * a <= b /\ 2 * a - 2 * x <= b /\ (a >= 0 => r >= 0)
  BY SMT DEF NearestTo
<1>2. CASE 0 <= r /\ r <= 15
  <2>1. Q = r BY <1>1, <1>2 DEF Clip, AtLeast, AtMost
  <2>2. z = x BY <2>1
  <2> HIDE DEF Q, x, z
  <2>3. 2 * z - 2 * a <= b + 15 * (W + L) /\ 2 * a - 2 * z <= b + 15 * (W + L) BY <1>1, <2>2
  <2> QED BY <1>0, <2>3
<1>3. CASE r < 0
  <2>1. Q = 0 BY <1>1, <1>3 DEF Clip, AtLeast, AtMost
  <2>2. z = 0 BY <2>1
  <2>3. a < 0 BY <1>1, <1>3
  <2> HIDE DEF Q, x, z
  <2>4. -(2 * a) <= 15 * L BY SMT
  <2>5. 2 * z - 2 * a <= b + 15 * (W + L) /\ 2 * a - 2 * z <= b + 15 * (W + L)
    BY <2>2, <2>3, <2>4
  <2> QED BY <1>0, <2>5
<1>4. CASE r > 15
  <2>1. Q = 15 BY <1>1, <1>4 DEF Clip, AtLeast, AtMost
  <2>2. z = 15 * b BY <2>1, SMT
  <2>3. x >= 16 * b
    <3>1. b * (r - 16) >= 0 BY <1>1, <1>4, SMT
    <3>2. b * (r - 16) = x - 16 * b BY <1>1, SMT
    <3> HIDE DEF x
    <3> QED BY <1>1, <3>1, <3>2
  <2> HIDE DEF Q, x, z
  <2>4. 2 * a - 30 * b >= 0 BY <1>1, <2>3, SMT
  <2>5. 2 * a - 30 * b <= 15 * L + 15 * W BY SMT
  <2>6. 2 * z - 2 * a <= b + 15 * (W + L) /\ 2 * a - 2 * z <= b + 15 * (W + L)
    BY <2>2, <2>4, <2>5
  <2> QED BY <1>0, <2>6
<1> QED BY <1>1, <1>2, <1>3, <1>4

(* A value v of a group, with the scale and the minimum packed for it.     *)
QuantCase(f, W, L, S, m, v, sc, mm) ==
  /\ W \in Nat /\ W > 0 /\ L \in Nat /\ FactorsOf(f, W, L)
  /\ S \in Nat /\ m \in Int /\ v \in Int /\ m <= v /\ v <= m + S
  /\ sc \in 1..63 /\ 2 * (W * sc) >= 126 * S - W
  /\ mm \in 0..63 /\ (mm # 0 => L > 0)
  /\ 2 * (L * mm) + 126 * m <= L /\ -(2 * (L * mm) + 126 * m) <= L

(* A quant reads back near its value, if the minimum of its group is near. *)
LEMMA QuantOf ==
  ASSUME NEW f, NEW W, NEW L, NEW S, NEW m, NEW v, NEW sc, NEW mm,
         QuantCase(f, W, L, S, m, v, sc, mm)
  PROVE  Abs(2 * (sc * QuantQ4(v, sc, mm, f)) * W - 30 * mm * L - 1890 * v)
           <= sc * W + 15 * (W + L)
<1> USE DEF QuantCase
<1> DEFINE b == sc * W
           y == L * mm
           a == 945 * v + 15 * y
           r == LRound(a, b)
           Q == Clip(0, r, 15)
<1>1. b \in Nat /\ b > 0 /\ b = W * sc
  <2>1. b \in Int /\ b = W * sc BY SMT
  <2>2. (sc - 1) * W >= 0 BY SMT
  <2>3. (sc - 1) * W = b - W BY SMT
  <2> HIDE DEF b
  <2> QED BY <2>1, <2>2, <2>3
<1>2. y \in Int /\ mm * L = y BY SMT
<1>3. QuantQ4(v, sc, mm, f) = Q
  <2>1. CASE mm = 0
    <3>1. y = 0 BY <2>1
    <3>2. v * 945 = 945 * v + 15 * 0 BY SMT
    <3>3. QuantQ4(v, sc, mm, f) = Clip(0, LRound(v * 945, sc * W), 15)
      BY <2>1 DEF QuantQ4, FactorsOf
    <3> QED BY <3>1, <3>2, <3>3
  <2>2. CASE mm # 0
    <3>1. f.dmin.num = L /\ f.d.den = 945 /\ f.d.num = W BY <2>2 DEF FactorsOf
    <3>2. QuantQ4(v, sc, mm, f) = Clip(0, LRound((63 * v + mm * L) * (945 \div 63), sc * W), 15)
      BY <2>2, <3>1 DEF QuantQ4
    <3>3. (63 * v + mm * L) * (945 \div 63) = a
      <4>1. 945 \div 63 = 15 BY SMT
      <4> HIDE DEF y
      <4>2. (63 * v + y) * 15 = 945 * v + 15 * y BY <1>2, SMT
      <4> QED BY <1>2, <4>1, <4>2
    <3> QED BY <3>2, <3>3
  <2> QED BY <2>1, <2>2
<1> HIDE DEF b, y
<1>4. a \in Int /\ a = 945 * v + 15 * y BY <1>2
<1> HIDE DEF a
<1>5. NearestTo(r, a, b) BY <1>1, <1>4, RoundedNear
<1> HIDE DEF r
<1>6. 2 * b >= 126 * S - W BY <1>1
<1>7. 2 * y + 126 * m <= L /\ -(2 * y + 126 * m) <= L BY DEF y
<1>8. NearWithin(Q, a, b, 15 * (W + L))
  <2>1. InGroup(W, L, S, m, v, b, y, a)
    BY <1>1, <1>2, <1>4, <1>6, <1>7, SMT DEF InGroup
  <2> QED BY <1>5, <2>1, ClippedQuant
<1>9. Q \in Int
  <2>1. r \in Int BY <1>5 DEF NearestTo
  <2>2. Q \in 0..15 BY <2>1, NibbleOf
  <2> QED BY <2>2
<1> HIDE DEF Q
<1> DEFINE x == b * Q
<1>10. x \in Int /\ 2 * (sc * Q) * W = 2 * x
  <2>1. x \in Int BY <1>1, <1>9, SMT
  <2>2. 2 * (sc * Q) * W = 2 * ((sc * W) * Q) BY <1>9, SMT
  <2> QED BY <2>1, <2>2 DEF b
<1>11. 30 * mm * L = 30 * y
  <2>1. 30 * mm * L = 30 * (mm * L) BY SMT
  <2> QED BY <1>2, <2>1
<1> HIDE DEF x
<1>12. 2 * x - 2 * a <= b + 15 * (W + L) /\ 2 * a - 2 * x <= b + 15 * (W + L)
  BY <1>8 DEF x, NearWithin
<1>13. Abs(2 * x - 30 * y - 1890 * v) <= b + 15 * (W + L)
  BY <1>1, <1>2, <1>4, <1>10, <1>12, SMT DEF Abs
<1> QED BY <1>3, <1>10, <1>11, <1>13 DEF b

-----------------------------------------------------------------------------
(* ... reading scale area and nibbles                                      *)

(* The scale area as the packer lays it out.                               *)
AreaOf(body, sc, mm) ==
  /\ \A g \in 0..7 : sc[g] \in 1..63 /\ mm[g] \in 0..63
  /\ \A i \in 0..3 : body[i] = sc[i]
  /\ \A i \in 4..7 : body[i] = mm[i - 4] + 64 * (sc[i] \div 16)
  /\ \A i \in 8..11 : body[i] = (sc[i - 4] % 16) + 16 * (mm[i - 4] % 16)

(* The CPU reads back the scale of a group, and its minimum when the upper *)
(* bits of the two are the same (get_scale_min_k4 against the packer).     *)
LEMMA AreaRead ==
  ASSUME NEW body, NEW sc, NEW mm, AreaOf(body, sc, mm), NEW j \in 0..7
  PROVE  /\ ScaleMin("cpu", body, j).sc = sc[j]
         /\ (j >= 4 => mm[j] \div 16 = sc[j] \div 16) => ScaleMin("cpu", body, j).mn = mm[j]
<1>1. sc[j] \in 1..63 /\ mm[j] \in 0..63 BY DEF AreaOf
<1>2. CASE j < 4
  <2>1. j \in 0..3 /\ j + 4 \in 4..7 /\ (j + 4) - 4 = j /\ j + 4 \in 0..7 BY <1>2, SMT
  <2>2. body[j] = sc[j] BY <2>1 DEF AreaOf
  <2>3. body[j + 4] = mm[j] + 64 * (sc[j + 4] \div 16) BY <2>1 DEF AreaOf
  <2>4. sc[j + 4] \in 1..63 BY <2>1 DEF AreaOf
  <2> DEFINE s == sc[j]
             m == mm[j]
             t == sc[j + 4]
  <2>5. s \in 1..63 /\ m \in 0..63 /\ t \in 1..63 /\ body[j] = s
        /\ body[j + 4] = m + 64 * (t \div 16)
    BY <1>1, <2>2, <2>3, <2>4
  <2>6. ScaleMin("cpu", body, j).sc = body[j] % 64 /\ ScaleMin("cpu", body, j).mn = body[j + 4] % 64
    BY <1>2 DEF ScaleMin
  <2> HIDE DEF s, m, t
  <2>7. s % 64 = s /\ (m + 64 * (t \div 16)) % 64 = m BY <2>5, SMT
  <2> QED BY <2>5, <2>6, <2>7 DEF s, m
<1>3. CASE ~(j < 4)
  <2>1. j \in 4..7 /\ j + 4 \in 8..11 /\ (j + 4) - 4 = j /\ j - 4 \in 0..7 BY <1>3, SMT
  <2>2. body[j] = mm[j - 4] + 64 * (sc[j] \div 16) BY <2>1 DEF AreaOf
  <2>3. body[j + 4] = (sc[j] % 16) + 16 * (mm[j] % 16) BY <2>1 DEF AreaOf
  <2>4. mm[j - 4] \in 0..63 BY <2>1 DEF AreaOf
  <2> DEFINE s == sc[j]
             m == mm[j]
             t == mm[j - 4]
             x == body[j]
             y == body[j + 4]
  <2>5. s \in 1..63 /\ m \in 0..63 /\ t \in 0..63 /\ x = t + 64 * (s \div 16)
        /\ y = (s % 16) + 16 * (m % 16)
    BY <1>1, <2>2, <2>3, <2>4
  <2>6. /\ ScaleMin("cpu", body, j).sc = (y % 16) + 16 * (x \div 64)
        /\ ScaleMin("cpu", body, j).mn = (y \div 16) + 16 * (x \div 64)
    BY <1>3 DEF ScaleMin
  <2> HIDE DEF s, m, t, x, y
  <2>7. x \div 64 = s \div 16 /\ y % 16 = s % 16 /\ y \div 16 = m % 16 BY <2>5, SMT
  <2>8. (s % 16) + 16 * (s \div 16) = s /\ (m % 16) + 16 * (m \div 16) = m BY <2>5, SMT
  <2>9. ScaleMin("cpu", body, j).sc = s BY <2>6, <2>7, <2>8
  <2>10. m \div 16 = s \div 16 => ScaleMin("cpu", body, j).mn = m BY <2>6, <2>7, <2>8
  <2>11. j >= 4 BY <2>1
  <2> QED BY <2>9, <2>10, <2>11 DEF s, m
<1> QED BY <1>2, <1>3

(* The quants as the packer lays them out.                                 *)
FirstOf(i) == 64 * (i \div 32) + (i % 32)
(* ... and where: low nibbles first, then high ones, of sixty-four values  *)
(* a turn.                                                                 *)
QuantsOf(body, Q) ==
  /\ \A k \in Nat : k < 256 => Q[k] \in 0..15
  /\ \A i \in Nat : i < 128 => body[12 + i] = Q[FirstOf(i)] + 16 * Q[FirstOf(i) + 32]

(* The CPU reads back the quants.                                          *)
LEMMA QuantRead ==
  ASSUME NEW body, NEW Q, QuantsOf(body, Q), NEW k \in Nat, k < 256
  PROVE  LET pos == k % 64
             byte == body[12 + 32 * (k \div 64) + (IF pos < 32 THEN pos ELSE pos - 32)]
         IN  (IF pos < 32 THEN byte % 16 ELSE byte \div 16) = Q[k]
<1> DEFINE c == k \div 64
           pos == k % 64
           x == IF pos < 32 THEN pos ELSE pos - 32
           i == 32 * c + x
           byte == body[12 + 32 * c + x]
<1>1. c \in 0..3 /\ pos \in 0..63 /\ k = 64 * c + pos BY SMT
<1> HIDE DEF c, pos
<1>2. x \in 0..31 BY <1>1
<1> HIDE DEF x
<1>3. i \in Nat /\ i < 128 /\ 12 + 32 * c + x = 12 + i BY <1>1, <1>2
<1>4. i \div 32 = c /\ i % 32 = x BY <1>1, <1>2, SMT
<1>5. FirstOf(i) = 64 * c + x BY <1>4 DEF FirstOf
<1> HIDE DEF i
<1>6. byte = Q[64 * c + x] + 16 * Q[64 * c + x + 32] BY <1>3, <1>5 DEF QuantsOf
<1>7. 64 * c + x \in Nat /\ 64 * c + x < 256 /\ 64 * c + x + 32 \in Nat /\ 64 * c + x + 32 < 256
  BY <1>1, <1>2
<1>8. Q[64 * c + x] \in 0..15 /\ Q[64 * c + x + 32] \in 0..15 BY <1>7 DEF QuantsOf
<1> DEFINE lo == Q[64 * c + x]
           hi == Q[64 * c + x + 32]
<1>9. lo \in 0..15 /\ hi \in 0..15 /\ byte = lo + 16 * hi BY <1>6, <1>8
<1>10. pos < 32 => lo = Q[k] BY <1>1 DEF x
<1>11. ~(pos < 32) => hi = Q[k]
  <2>1. ASSUME ~(pos < 32) PROVE 64 * c + x + 32 = k BY <1>1, <2>1, SMT DEF x
  <2> QED BY <2>1
<1> HIDE DEF lo, hi, byte
<1>12. byte % 16 = lo /\ byte \div 16 = hi BY <1>9, SMT
<1>13. (IF pos < 32 THEN byte % 16 ELSE byte \div 16) = Q[k] BY <1>10, <1>11, <1>12
<1> QED BY <1>13 DEF c, pos, x, byte

-----------------------------------------------------------------------------
(* ... the ranges of what is packed from the factors of any block          *)

(* Scales and minimums fit six bits.                                       *)
LEMMA SixBits ==
  ASSUME NEW vals \in [1..256 -> Int], NEW d, Positive(d), NEW g \in 0..7
  PROVE  ScaleQ4(vals, g, d) \in 1..63 /\ MinimumQ4(vals, g, d) \in 0..63
<1> DEFINE S == Spread(vals, g)
           m == Min(Group(vals, g))
           a == S * d.den
           b == 15 * d.num
           c == -m * d.den
           n == d.num
<1>1. S \in Int /\ m \in Int BY GroupOf
<1>2. a \in Int /\ c \in Int /\ b \in Nat /\ b > 0 /\ n \in Nat /\ n > 0
  <2> HIDE DEF S, m
  <2> QED BY <1>1, SMT DEF Positive
<1>3. ScaleQ4(vals, g, d) = Clip(1, LRound(a, b), 63) BY DEF ScaleQ4
<1>4. MinimumQ4(vals, g, d) = IF m < 0 THEN Clip(0, LRound(c, n), 63) ELSE 0 BY DEF MinimumQ4
<1> HIDE DEF a, b, c, n, m
<1>5. NearestTo(LRound(a, b), a, b) /\ NearestTo(LRound(c, n), c, n) BY <1>2, RoundedNear
<1>6. LRound(a, b) \in Int /\ LRound(c, n) \in Int BY <1>5 DEF NearestTo
<1>7. Clip(1, LRound(a, b), 63) \in 1..63 /\ Clip(0, LRound(c, n), 63) \in 0..63
  BY <1>6 DEF Clip, AtLeast, AtMost
<1> QED BY <1>3, <1>4, <1>7

(* What the packer lays out.                                               *)
ScalesOf(vals) == [g \in 0..7 |-> ScaleQ4(vals, g, FactorsQ4(vals).d)]
MinimumsOf(vals) == [g \in 0..7 |-> MinimumQ4(vals, g, FactorsQ4(vals).dmin)]
QuantAt(vals, k) == QuantQ4(vals[k + 1], ScalesOf(vals)[k \div 32],
                            MinimumsOf(vals)[k \div 32], FactorsQ4(vals))

(* The scales and minimums of a block fit six bits.                        *)
LEMMA ScalesAt ==
  ASSUME NEW vals \in [1..256 -> Int], NEW g \in 0..7
  PROVE  /\ ScalesOf(vals)[g] = ScaleQ4(vals, g, FactorsQ4(vals).d)
         /\ MinimumsOf(vals)[g] = MinimumQ4(vals, g, FactorsQ4(vals).dmin)
         /\ ScalesOf(vals)[g] \in 1..63 /\ MinimumsOf(vals)[g] \in 0..63
<1>1. ScalesOf(vals)[g] = ScaleQ4(vals, g, FactorsQ4(vals).d) BY Zenon DEF ScalesOf
<1>2. MinimumsOf(vals)[g] = MinimumQ4(vals, g, FactorsQ4(vals).dmin) BY Zenon DEF MinimumsOf
<1>3. Positive(FactorsQ4(vals).d) /\ Positive(FactorsQ4(vals).dmin) BY FactorsPositive
<1>4. /\ ScaleQ4(vals, g, FactorsQ4(vals).d) \in 1..63
      /\ MinimumQ4(vals, g, FactorsQ4(vals).dmin) \in 0..63 BY <1>3, SixBits
<1> QED BY <1>1, <1>2, <1>4

(* The quants of a block fit four bits.                                    *)
LEMMA QuantsFit ==
  ASSUME NEW vals \in [1..256 -> Int], NEW k \in Nat, k < 256
  PROVE  QuantAt(vals, k) \in 0..15
<1> DEFINE f == FactorsQ4(vals)
           g == k \div 32
           sc == ScalesOf(vals)[g]
           mm == MinimumsOf(vals)[g]
           v == vals[k + 1]
           W == f.d.num
           e == f.d.den
           l == f.dmin.num
<1>1. g \in 0..7 /\ k + 1 \in 1..256 BY SMT
<1> HIDE DEF g
<1>2. sc \in 1..63 /\ mm \in 0..63 BY <1>1, ScalesAt
<1>3. v \in Int BY <1>1
<1>4. W \in Nat /\ W > 0 /\ e \in Int /\ e > 0 /\ l \in Int
  <2>1. Positive(f.d) /\ Positive(f.dmin) BY FactorsPositive
  <2> HIDE DEF f
  <2> QED BY <2>1 DEF Positive
<1>5. QuantAt(vals, k) = QuantQ4(v, sc, mm, f) BY DEF QuantAt, g
<1> HIDE DEF sc, mm, v, f
<1>6. QuantQ4(v, sc, mm, f) \in 0..15
  <2> DEFINE X == W
             Y == e
             Z == l
  <2>1. f.d.num = X /\ f.d.den = Y /\ f.dmin.num = Z /\ X \in Nat /\ X > 0
        /\ Y \in Int /\ Y > 0 /\ Z \in Int BY <1>4
  <2> HIDE DEF X, Y, Z
  <2> QED BY <1>2, <1>3, <2>1, QuantInt
<1> QED BY <1>5, <1>6

-----------------------------------------------------------------------------
(* ... and its layout                                                      *)

(* The quants of a block.                                                  *)
QuantsMade(vals) == [k \in 0..255 |-> QuantAt(vals, k)]

(* The packer lays out factors, scale area and quants as the CPU reads     *)
(* them.                                                                   *)
LEMMA PackLayout ==
  ASSUME NEW vals \in [1..256 -> Int]
  PROVE  /\ PackQ4(vals).d = StoredFactor(FactorsQ4(vals).d)
         /\ PackQ4(vals).dmin = StoredFactor(FactorsQ4(vals).dmin)
         /\ AreaOf(PackQ4(vals).body, ScalesOf(vals), MinimumsOf(vals))
         /\ QuantsOf(PackQ4(vals).body, QuantsMade(vals))
<1> DEFINE f == FactorsQ4(vals)
           sc == ScalesOf(vals)
           mm == MinimumsOf(vals)
           A(i) == CASE i < 4 -> sc[i]
                     [] i \in 4..7 -> mm[i - 4] + 64 * (sc[i] \div 16)
                     [] i >= 8 -> (sc[i - 4] % 16) + 16 * (mm[i - 4] % 16)
           area == [i \in 0..11 |-> A(i)]
           N(i) == QuantAt(vals, FirstOf(i - 12)) + 16 * QuantAt(vals, FirstOf(i - 12) + 32)
           B(i) == IF i < 12 THEN area[i] ELSE N(i)
           body == [i \in 0..139 |-> B(i)]
           d == StoredFactor(f.d)
           dmin == StoredFactor(f.dmin)
<1>1. PackQ4(vals) = [d |-> d, dmin |-> dmin, body |-> body]
  BY Zenon DEF PackQ4, ScalesOf, MinimumsOf, QuantAt, FirstOf
<1> HIDE DEF f, sc, mm, d, dmin
<1>2. PackQ4(vals).d = d /\ PackQ4(vals).dmin = dmin /\ PackQ4(vals).body = body
  <2> HIDE DEF body
  <2> QED BY <1>1
<1>3. \A i \in 0..11 : area[i] = A(i)
  <2> HIDE DEF A
  <2> QED BY Zenon
<1> HIDE DEF area
<1>4. \A i \in 0..11 : body[i] = A(i)
  <2> SUFFICES ASSUME NEW i \in 0..11 PROVE body[i] = A(i) OBVIOUS
  <2>1. i \in 0..139 /\ i < 12 BY SMT
  <2>2. body[i] = B(i)
    <3> HIDE DEF B
    <3> QED BY <2>1, Zenon
  <2>3. B(i) = area[i] BY <2>1
  <2> HIDE DEF body, B, A
  <2> QED BY <1>3, <2>2, <2>3
<1>5. \A i \in Nat : i < 128 => body[12 + i] = N(12 + i)
  <2> SUFFICES ASSUME NEW i \in Nat, i < 128 PROVE body[12 + i] = N(12 + i) OBVIOUS
  <2>1. 12 + i \in 0..139 /\ ~(12 + i < 12) BY SMT
  <2>2. body[12 + i] = B(12 + i)
    <3> HIDE DEF B
    <3> QED BY <2>1, Zenon
  <2>3. B(12 + i) = N(12 + i) BY <2>1
  <2> QED BY <2>2, <2>3
<1> HIDE DEF body
<1>6. AreaOf(body, sc, mm)
  <2>1. \A g \in 0..7 : sc[g] \in 1..63 /\ mm[g] \in 0..63 BY ScalesAt DEF sc, mm
  <2>2. ASSUME NEW i \in 0..3 PROVE body[i] = sc[i]
    <3>1. i \in 0..11 /\ i < 4 /\ ~(i >= 8) /\ i \notin 4..7 BY SMT
    <3>2. A(i) = sc[i] BY <3>1
    <3> HIDE DEF A
    <3> QED BY <1>4, <3>1, <3>2
  <2>3. ASSUME NEW i \in 4..7 PROVE body[i] = mm[i - 4] + 64 * (sc[i] \div 16)
    <3>1. i \in 0..11 /\ ~(i < 4) /\ ~(i >= 8) BY SMT
    <3>2. A(i) = mm[i - 4] + 64 * (sc[i] \div 16) BY <3>1
    <3> HIDE DEF A
    <3> QED BY <1>4, <3>1, <3>2
  <2>4. ASSUME NEW i \in 8..11 PROVE body[i] = (sc[i - 4] % 16) + 16 * (mm[i - 4] % 16)
    <3>1. i \in 0..11 /\ ~(i < 4) /\ i >= 8 /\ i \notin 4..7 BY SMT
    <3>2. A(i) = (sc[i - 4] % 16) + 16 * (mm[i - 4] % 16) BY <3>1
    <3> HIDE DEF A
    <3> QED BY <1>4, <3>1, <3>2
  <2> QED BY <2>1, <2>2, <2>3, <2>4 DEF AreaOf
<1>7. QuantsOf(body, QuantsMade(vals))
  <2>1. ASSUME NEW k \in Nat, k < 256
        PROVE  QuantsMade(vals)[k] = QuantAt(vals, k) /\ QuantsMade(vals)[k] \in 0..15
    <3>1. k \in 0..255 BY <2>1, SMT
    <3>2. QuantsMade(vals)[k] = QuantAt(vals, k) BY <3>1, Zenon DEF QuantsMade
    <3>3. QuantAt(vals, k) \in 0..15 BY <2>1, QuantsFit
    <3> QED BY <3>2, <3>3
  <2>2. ASSUME NEW i \in Nat, i < 128
        PROVE  body[12 + i] = QuantsMade(vals)[FirstOf(i)] + 16 * QuantsMade(vals)[FirstOf(i) + 32]
    <3>1. 12 + i - 12 = i OBVIOUS
    <3>2. body[12 + i] = QuantAt(vals, FirstOf(i)) + 16 * QuantAt(vals, FirstOf(i) + 32)
      BY <1>5, <2>2, <3>1
    <3>3. /\ FirstOf(i) \in Nat /\ FirstOf(i) < 256
          /\ FirstOf(i) + 32 \in Nat /\ FirstOf(i) + 32 < 256
      BY <2>2, SMT DEF FirstOf
    <3> QED BY <2>1, <3>2, <3>3
  <2>3. \A k \in Nat : k < 256 => QuantsMade(vals)[k] \in 0..15 BY <2>1
  <2> QED BY <2>2, <2>3 DEF QuantsOf
<1> QED BY <1>2, <1>6, <1>7 DEF f, sc, mm, d, dmin

(* What the CPU decodes of a packed block.                                 *)
LEMMA PackedQ4 ==
  ASSUME NEW vals \in [1..256 -> Int], NEW k \in Nat, k < 256,
         NEW g, g = k \div 32
  PROVE  ElementQ4("cpu", PackQ4(vals), k).q = ScalesOf(vals)[g] * QuantAt(vals, k)
<1> DEFINE b == PackQ4(vals)
           body == b.body
           pos == k % 64
           j == 2 * (k \div 64) + (IF pos < 32 THEN 0 ELSE 1)
           byte == body[12 + 32 * (k \div 64) + (IF pos < 32 THEN pos ELSE pos - 32)]
           nibble == IF pos < 32 THEN byte % 16 ELSE byte \div 16
           s == ScaleMin("cpu", body, j)
<1>1. AreaOf(body, ScalesOf(vals), MinimumsOf(vals)) /\ QuantsOf(body, QuantsMade(vals))
  BY PackLayout
<1>2. j = g /\ g \in 0..7 BY SMT
<1> HIDE DEF b
<1>3. ElementQ4("cpu", b, k).q = s.sc * nibble
  BY DEF ElementQ4, Value
<1>4. nibble = QuantsMade(vals)[k] BY <1>1, QuantRead
<1>5. QuantsMade(vals)[k] = QuantAt(vals, k)
  <2>1. k \in 0..255 BY SMT
  <2> QED BY <2>1, Zenon DEF QuantsMade
<1> HIDE DEF nibble, j
<1>6. s.sc = ScalesOf(vals)[g] BY <1>1, <1>2, AreaRead
<1> QED BY <1>3, <1>4, <1>5, <1>6 DEF b

(* ... and its minimum, when the upper bits allow it.                      *)
LEMMA PackedMinimum ==
  ASSUME NEW vals \in [1..256 -> Int], NEW k \in Nat, k < 256, NEW g, g = k \div 32,
         g >= 4 => MinimumsOf(vals)[g] \div 16 = ScalesOf(vals)[g] \div 16
  PROVE  ElementQ4("cpu", PackQ4(vals), k).m = MinimumsOf(vals)[g]
<1> DEFINE b == PackQ4(vals)
           j == 2 * (k \div 64) + (IF k % 64 < 32 THEN 0 ELSE 1)
<1>1. AreaOf(b.body, ScalesOf(vals), MinimumsOf(vals)) BY PackLayout
<1>2. j = g /\ g \in 0..7 BY SMT
<1> HIDE DEF b
<1>3. ElementQ4("cpu", b, k).m = ScaleMin("cpu", b.body, j).mn BY DEF ElementQ4, Value
<1> HIDE DEF j
<1>4. ScaleMin("cpu", b.body, g).mn = MinimumsOf(vals)[g] BY <1>1, <1>2, AreaRead
<1> QED BY <1>2, <1>3, <1>4 DEF b

-----------------------------------------------------------------------------
(* A packed row reads back                                                 *)

(* Values are counted from one, elements from zero: in a block, ...        *)
LEMMA PlaceInBlock ==
  ASSUME NEW i \in 1..32
  PROVE  i - 1 \in 0..31 /\ i - 1 \in Nat /\ i - 1 < 32 /\ (i - 1) + 1 = i
BY SMT

(* ... and in a group of one.                                              *)
LEMMA PlaceInGroup ==
  ASSUME NEW g \in 0..7, NEW i \in (32 * g + 1)..(32 * g + 32)
  PROVE  /\ i - 32 * g \in 1..32 /\ 32 * g + (i - 32 * g) = i
         /\ 32 * g + ((i - 32 * g) - 1) \in Nat /\ 32 * g + ((i - 32 * g) - 1) < 256
         /\ (32 * g + ((i - 32 * g) - 1)) + 1 = i
BY SMT

(* P is N to within half of w.                                             *)
Off(N, P, w) == 2 * P - 2 * N <= w /\ 2 * N - 2 * P <= w

(* What q of them are off by.                                              *)
LEMMA ManyOff ==
  ASSUME NEW q \in Int, NEW N \in Int, NEW P \in Int, NEW w \in Int, Off(N, P, w)
  PROVE  Off(q * N, q * P, Abs(q) * w)
<1> DEFINE A == Abs(q)
           e == 2 * P - 2 * N
<1>2. A \in Nat /\ (A = q \/ A = -q) BY AbsType DEF Abs
<1>3. e \in Int /\ e <= w /\ -e <= w BY DEF Off
<1> HIDE DEF A
<1>4. A * (w - e) >= 0 /\ A * (w + e) >= 0
  <2> HIDE DEF e
  <2>1. w - e \in Nat /\ w + e \in Nat BY <1>3
  <2> QED BY <1>2, <2>1, SMT
<1>5. A * (w - e) = A * w - A * e /\ A * (w + e) = A * w + A * e
  <2> HIDE DEF e
  <2> QED BY <1>2, <1>3, SMT
<1>6. q * e = 2 * (q * P) - 2 * (q * N) BY SMT
<1>7. q * P \in Int /\ q * N \in Int /\ A * e \in Int /\ A * w \in Int /\ q * e \in Int
  <2> HIDE DEF e
  <2> QED BY <1>2, <1>3, SMT
<1>8. A * e = q * e \/ A * e = -(q * e)
  <2> HIDE DEF e
  <2>1. (-q) * e = -(q * e) BY <1>3, SMT
  <2> QED BY <1>2, <2>1
<1> DEFINE x == A * e
           y == q * e
           z == A * w
           r == q * P
           s == q * N
<1>9. /\ x \in Int /\ y \in Int /\ z \in Int /\ r \in Int /\ s \in Int
      /\ z - x >= 0 /\ z + x >= 0 /\ (x = y \/ x = -y) /\ y = 2 * r - 2 * s
  BY <1>4, <1>5, <1>6, <1>7, <1>8
<1> HIDE DEF x, y, z, r, s, e
<1>10. 2 * r - 2 * s <= z /\ 2 * s - 2 * r <= z BY <1>9
<1> QED BY <1>10 DEF Off, r, s, z, A

(* What a factor that is kept is off by, and what q of them are: its       *)
(* stored half by half a unit.                                             *)
LEMMA FactorOff ==
  ASSUME NEW h, NEW f, f.num \in Nat, f.den \in Nat \ {0}, NearHalf(h, f.num, f.den),
         FactorKept(h, f), NEW q \in Int
  PROVE  /\ Units(h) \in Nat /\ Unit(h) \in Nat
         /\ Off(q * f.num, q * (f.den * Units(h)), Abs(q) * (f.den * Unit(h)))
<1> DEFINE N == f.num
           D == f.den
           U == Units(h)
           u == Unit(h)
           P == D * U
           w == D * u
<1>1. N \in Int /\ D \in Int OBVIOUS
<1>2. U \in Nat /\ u \in Nat BY DEF NearHalf
<1>3. Off(N, P, w)
  <2>1. U = 0 => 2 * N < D BY DEF FactorKept
  <2>2. ~(U = 0 /\ D <= 2 * N) BY <1>1, <2>1
  <2> QED BY <2>2 DEF NearHalf, Off
<1>4. P \in Int /\ w \in Int
  <2> HIDE DEF D, U, u
  <2> QED BY <1>1, <1>2, SMT
<1> HIDE DEF N, D, U, u, P, w
<1>5. Off(q * N, q * P, Abs(q) * w) BY <1>1, <1>3, <1>4, ManyOff
<1> QED BY <1>2, <1>5 DEF N, D, U, u, P, w

(* A value within half a step of a factor is, with the factor stored,      *)
(* within half a unit for each step more.                                  *)
LEMMA HalfStep ==
  ASSUME NEW v, v.q \in Int, NEW x \in Int, NEW b, NEW f, f.num \in Nat, f.den \in Nat \ {0},
         NearHalf(b.d, f.num, f.den), FactorKept(b.d, f),
         2 * Abs(v.q * f.num - f.den * x) <= f.num
  PROVE  WithinHalfStep(v, x, b, f)
<1> DEFINE q == v.q
           N == f.num
           D == f.den
           h == b.d
           U == Units(h)
           u == Unit(h)
           A == Abs(q)
<1>1. /\ q \in Int /\ N \in Nat /\ D \in Nat \ {0} OBVIOUS
<1>2. /\ U \in Nat /\ u \in Nat
      /\ Off(q * N, q * (D * U), A * (D * u))
  <2>1. NearHalf(h, f.num, f.den) /\ FactorKept(h, f) OBVIOUS
  <2> HIDE DEF h, q
  <2> QED BY <1>1, <2>1, FactorOff
<1>3. 2 * Abs(q * N - D * x) <= N OBVIOUS
<1>4. WithinHalfStep(v, x, b, f) <=> 2 * Abs(D * (q * U - x)) <= N + D * (A * u)
  BY DEF WithinHalfStep
<1>5. A \in Nat BY <1>1, AbsType
<1> HIDE DEF q, N, D, U, u, A
<1>6. /\ D * (q * U - x) = q * (D * U) - D * x
      /\ D * (A * u) = A * (D * u)
  <2>1. D * (q * U - x) = D * (q * U) - D * x BY <1>1, <1>2, SMT
  <2>2. D * (q * U) = q * (D * U) BY <1>1, <1>2, SMT
  <2>3. D * (A * u) = A * (D * u) BY <1>1, <1>2, <1>5, SMT
  <2> QED BY <2>1, <2>2, <2>3
<1> DEFINE r == q * (D * U)
           s == q * N
           z == A * (D * u)
           y == D * x
<1>7. r \in Int /\ s \in Int /\ z \in Int /\ y \in Int
  <2>1. D * U \in Int /\ D * u \in Int BY <1>1, <1>2, SMT
  <2> QED BY <1>1, <1>5, <2>1, SMT
<1>8. 2 * r - 2 * s <= z /\ 2 * s - 2 * r <= z /\ 2 * Abs(s - y) <= N
  BY <1>2, <1>3 DEF Off
<1> HIDE DEF r, s, z, y
<1>9. 2 * Abs(r - y) <= N + z BY <1>1, <1>7, <1>8 DEF Abs
<1>10. D * (q * U - x) = r - y /\ D * (A * u) = z BY <1>6 DEF r, s, z, y
<1> QED BY <1>4, <1>9, <1>10

(* q steps of W / K less m of L / J, where the halves U and V are off by u *)
(* and w from the two factors, ...                                         *)
TwoFactors(q, m, W, L, U, u, V, w, K, J) ==
  /\ q \in Nat /\ m \in Nat /\ W \in Int /\ L \in Int
  /\ U \in Int /\ u \in Int /\ V \in Int /\ w \in Int
  /\ Off(q * W, q * (K * U), Abs(q) * (K * u))
  /\ m = 0 \/ Off(m * L, m * (J * V), Abs(m) * (J * w))

(* ... are x but for z by the factors and for y by the halves, all in      *)
(* parts of 1890.                                                          *)
Apart(q, m, x, W, L, U, V, K, J, z, y) ==
  /\ K = 945 /\ J = 63 /\ x \in Int
  /\ z = 2 * q * W - 30 * m * L - 1890 * x
  /\ y = 1890 * (q * U - m * V - x)

(* ... and so is one of two factors W / 945 and L / 63.                    *)
LEMMA ManySteps ==
  ASSUME NEW q, NEW m, NEW x, NEW W, NEW L, NEW R \in Int, NEW U, NEW u, NEW V, NEW w,
         NEW K, NEW J, NEW z, NEW y,
         TwoFactors(q, m, W, L, U, u, V, w, K, J), Apart(q, m, x, W, L, U, V, K, J, z, y),
         Abs(z) <= R
  PROVE  Abs(y) <= R + K * (q * u + m * w)
<1> DEFINE a == q * U
           b == q * u
           c == q * W
           d == m * V
           e == m * w
           g == m * L
<1>0. /\ q \in Nat /\ m \in Nat /\ x \in Int /\ W \in Int /\ L \in Int
      /\ U \in Int /\ u \in Int /\ V \in Int /\ w \in Int /\ K = 945 /\ J = 63
  BY DEF TwoFactors, Apart
<1>1. /\ a \in Int /\ b \in Int /\ c \in Int /\ d \in Int /\ e \in Int /\ g \in Int
  BY <1>0, SMT
<1>2. Abs(q) = q /\ Abs(m) = m BY <1>0 DEF Abs
<1>3. /\ q * (K * U) = K * a /\ q * (K * u) = K * b
      /\ m * (J * V) = J * d /\ m * (J * w) = J * e BY <1>0, SMT
<1>4. m = 0 => d = 0 /\ e = 0 /\ g = 0 BY <1>0, SMT
<1>5. z = 2 * c - 30 * g - 1890 * x /\ y = 1890 * (a - d - x)
  <2>1. 2 * q * W = 2 * c /\ 30 * m * L = 30 * g BY <1>0, SMT
  <2>2. z = 2 * q * W - 30 * m * L - 1890 * x /\ y = 1890 * (a - d - x) BY DEF Apart
  <2> HIDE DEF a, c, d, g
  <2> QED BY <2>1, <2>2
<1>6. Off(c, K * a, K * b) /\ (m = 0 \/ Off(g, J * d, J * e))
  <2>1. Off(c, q * (K * U), q * (K * u)) BY <1>2, Zenon DEF TwoFactors
  <2>2. m = 0 \/ Off(g, m * (J * V), m * (J * w)) BY <1>2, Zenon DEF TwoFactors
  <2> HIDE DEF a, b, c, d, e, g
  <2> QED BY <1>3, <2>1, <2>2, Zenon
<1>7. q * u + m * w = b + e OBVIOUS
<1> HIDE DEF a, b, c, d, e, g
<1>8. /\ 2 * (K * a) - 2 * c <= K * b /\ 2 * c - 2 * (K * a) <= K * b
      /\ m = 0 \/ (2 * (J * d) - 2 * g <= J * e /\ 2 * g - 2 * (J * d) <= J * e)
  BY <1>6, Zenon DEF Off
<1>9. 2 * (63 * d) - 2 * g <= 63 * e /\ 2 * g - 2 * (63 * d) <= 63 * e
  BY <1>0, <1>1, <1>4, <1>8
<1>10. 2 * (945 * a) - 2 * c <= 945 * b /\ 2 * c - 2 * (945 * a) <= 945 * b BY <1>0, <1>8
<1>11. Abs(2 * c - 30 * g - 1890 * x) <= R BY <1>5
<1>12. Abs(1890 * (a - d - x)) <= R + 945 * (b + e)
  BY <1>0, <1>1, <1>9, <1>10, <1>11, SMT DEF Abs
<1> QED BY <1>0, <1>5, <1>7, <1>12

(* A value l of a group of a Q4_K block that is kept, as are the factors   *)
(* of the block.                                                           *)
KeptQ4(vals, g, l) ==
  /\ vals \in [1..256 -> Packable] /\ g \in 0..7 /\ l \in 1..32
  /\ GroupKept(vals, g, FactorsQ4(vals))
  /\ FactorKept(PackQ4(vals).d, FactorsQ4(vals).d)
  /\ FactorKept(PackQ4(vals).dmin, FactorsQ4(vals).dmin)

(* Its element of the block is near enough.                                *)
NearEnough(vals, g, l) ==
  WithinSteps(ElementQ4("cpu", PackQ4(vals), 32 * g + (l - 1)), vals[32 * g + l],
              PackQ4(vals), ScaleQ4(vals, g, FactorsQ4(vals).d), FactorsQ4(vals))

(* A value that is kept reads back near enough (tensor_quant_q4_k_block).  *)
LEMMA ReadBackQ4 ==
  ASSUME NEW vals, NEW g, NEW l, KeptQ4(vals, g, l)
  PROVE  NearEnough(vals, g, l)
<1> DEFINE f == FactorsQ4(vals)
           k == 32 * g + (l - 1)
           S == Spread(vals, g)
           m == Min(Group(vals, g))
           x == vals[32 * g + l]
           sc == ScalesOf(vals)[g]
           mm == MinimumsOf(vals)[g]
           W == f.d.num
           L == IF f.dmin.den = 63 THEN f.dmin.num ELSE 0
           b == PackQ4(vals)
           v == ElementQ4("cpu", b, k)
<1> SUFFICES ASSUME vals \in [1..256 -> Packable], g \in 0..7, l \in 1..32
             PROVE  NearEnough(vals, g, l) BY DEF KeptQ4
<1>0. vals \in [1..256 -> Int] BY StoredFactors
<1>24. GroupKept(vals, g, f) BY DEF KeptQ4
<1>16. /\ NearHalf(b.d, f.d.num, f.d.den) /\ NearHalf(b.dmin, f.dmin.num, f.dmin.den)
       /\ FactorKept(b.d, f.d) /\ FactorKept(b.dmin, f.dmin)
  <2>1. b.d = StoredFactor(f.d) /\ b.dmin = StoredFactor(f.dmin) BY <1>0, PackLayout
  <2>2. NearFactor(f.d) /\ NearFactor(f.dmin) BY StoredFactors
  <2>3. FactorKept(b.d, f.d) /\ FactorKept(b.dmin, f.dmin) BY DEF KeptQ4
  <2> HIDE DEF b, f
  <2> QED BY <2>1, <2>2, <2>3 DEF NearFactor
<1>1. k \in Nat /\ k < 256 /\ g = k \div 32 /\ k + 1 = 32 * g + l BY SMT
<1>2. v.q = sc * QuantQ4(x, sc, mm, f) /\ v.m = mm
  <2>1. v.q = sc * QuantAt(vals, k)
    <3> HIDE DEF k
    <3> QED BY <1>0, <1>1, PackedQ4
  <2>2. v.m = mm
    <3>1. g >= 4 => mm \div 16 = sc \div 16 BY <1>0, <1>24, ScalesAt DEF GroupKept
    <3> HIDE DEF k
    <3> QED BY <1>0, <1>1, <3>1, PackedMinimum
  <2>3. QuantAt(vals, k) = QuantQ4(x, sc, mm, f)
    <3> HIDE DEF k
    <3> QED BY <1>1 DEF QuantAt
  <2> QED BY <2>1, <2>2, <2>3
<1> HIDE DEF k, v, b
<1>3. /\ m \in Int /\ S \in Nat /\ x \in Int /\ m <= x /\ x <= m + S /\ m <= 0
  <2>1. m \in Int /\ S \in Nat /\ x \in Int /\ m <= x /\ x <= m + S BY <1>0, GroupOf
  <2>2. m <= 0 BY <1>24 DEF GroupKept
  <2> QED BY <2>1, <2>2
<1>4. sc \in 1..63 /\ mm \in 0..63 /\ sc = ScaleQ4(vals, g, f.d) /\ mm = MinimumQ4(vals, g, f.dmin)
  BY <1>0, ScalesAt
<1>5. Widest(vals) \in Nat /\ Lowest(vals) \in Int /\ S <= Widest(vals) /\ Lowest(vals) <= m
  BY <1>0, WidestOf
<1>6. Widest(vals) > 0 /\ f.d = [num |-> Widest(vals), den |-> 945] /\ W = Widest(vals)
  <2> DEFINE Z == Widest(vals)
  <2> HIDE DEF L, W
  <2>1. f.d = IF Z > 0 THEN [num |-> Z, den |-> 945] ELSE Fallback
    BY BlockFactors
  <2>2. f.d.den = 945 BY <1>24 DEF GroupKept
  <2> HIDE DEF f, Z
  <2>3. Z > 0 BY <2>1, <2>2, TinyFactor, SMT
  <2>4. f.d = [num |-> Z, den |-> 945] BY <2>1, <2>3
  <2>5. W = Z BY <2>4 DEF W
  <2> QED BY <2>3, <2>4, <2>5 DEF Z
<1>7. IF Lowest(vals) < 0 THEN f.dmin = [num |-> L, den |-> 63] /\ L = -Lowest(vals)
      ELSE f.dmin = f.d /\ L = 0
  <2> DEFINE Z == Lowest(vals)
  <2>1. f.dmin = IF Z < 0 THEN [num |-> -Z, den |-> 63] ELSE f.d BY BlockFactors
  <2>2. L = IF f.dmin.den = 63 THEN f.dmin.num ELSE 0 OBVIOUS
  <2>3. f.d.den = 945 BY <1>24 DEF GroupKept
  <2> HIDE DEF f, Z, L
  <2> QED BY <2>1, <2>2, <2>3, SMT DEF Z
<1> DEFINE Lo == Lowest(vals)
<1> HIDE DEF f, S, m, x, sc, mm, Lo, W, L
<1>8. L \in Nat /\ W \in Nat /\ W > 0 /\ S <= W /\ -m <= L
  BY <1>3, <1>5, <1>6, <1>7, SMT DEF Lo
<1>9. FactorsOf(f, W, L)
  <2>1. Lo < 0 => L > 0 /\ f.dmin.num = L /\ f.dmin.den = 63 BY <1>5, <1>7, SMT DEF Lo
  <2>2. ~(Lo < 0) => L = 0 /\ f.dmin = f.d BY <1>7 DEF Lo
  <2>3. f.d.num = W /\ f.d.den = 945 BY <1>6
  <2> QED BY <2>1, <2>2, <2>3 DEF FactorsOf
<1>10. 2 * (W * sc) >= 126 * S - W
  <2>1. f.d.num = W /\ f.d.den = 945 BY <1>6
  <2> QED BY <1>3, <1>4, <1>8, <2>1, ScaleOf DEF S
<1>11. /\ mm # 0 => L > 0
       /\ 2 * (L * mm) + 126 * m <= L /\ -(2 * (L * mm) + 126 * m) <= L
  <2>1. CASE m < 0
    <3>1. L > 0 BY <1>3, <1>8, <2>1
    <3>2. f.dmin.num = L /\ f.dmin.den = 63 BY <1>9, <3>1 DEF FactorsOf
    <3>3. 2 * (L * mm) + 126 * m <= L /\ -(2 * (L * mm) + 126 * m) <= L
      BY <1>3, <1>4, <1>8, <2>1, <3>2, MinimumOf DEF m
    <3> QED BY <3>1, <3>3
  <2>2. CASE ~(m < 0)
    <3>1. m = 0 BY <1>3, <2>2
    <3>2. mm = 0 BY <1>4, <2>2 DEF MinimumQ4, m
    <3>3. L * mm = 0 BY <1>8, <3>2
    <3> QED BY <1>8, <3>1, <3>2, <3>3
  <2> QED BY <2>1, <2>2
<1>12. Abs(2 * (sc * QuantQ4(x, sc, mm, f)) * W - 30 * mm * L - 1890 * x)
         <= sc * W + 15 * (W + L)
  <2>1. QuantCase(f, W, L, S, m, x, sc, mm)
    BY <1>3, <1>4, <1>8, <1>9, <1>10, <1>11 DEF QuantCase
  <2> QED BY <2>1, QuantOf
<1> DEFINE q == sc * QuantQ4(x, sc, mm, f)
           R == sc * W + 15 * (W + L)
           U == Units(b.d)
           u == Unit(b.d)
           V == Units(b.dmin)
           w == Unit(b.dmin)
<1>13. QuantQ4(x, sc, mm, f) \in 0..15
  <2>1. QuantAt(vals, k) \in 0..15 BY <1>0, <1>1, QuantsFit
  <2>2. QuantAt(vals, k) = QuantQ4(x, sc, mm, f)
    <3>1. 32 * g + l = k + 1 /\ k \div 32 = g BY <1>1
    <3> QED BY <3>1 DEF QuantAt, x, sc, mm, f
  <2> QED BY <2>1, <2>2
<1>14. q \in Nat /\ mm \in Nat /\ R \in Int
  <2>1. sc * W \in Int BY <1>4, <1>8, SMT
  <2> QED BY <1>4, <1>8, <1>13, <2>1, SMT
<1>15. /\ U \in Nat /\ u \in Nat
       /\ Off(q * W, q * (945 * U), Abs(q) * (945 * u))
  <2> DEFINE r == f.d
             h == b.d
  <2>1. r.num = W /\ r.den = 945 BY <1>6
  <2>2. NearHalf(h, r.num, r.den) /\ FactorKept(h, r) BY <1>16
  <2> HIDE DEF r, q, U, u, h
  <2>3. r.num \in Nat /\ r.den \in Nat \ {0} /\ q \in Int BY <1>8, <1>14, <2>1
  <2>4. /\ Units(h) \in Nat /\ Unit(h) \in Nat
        /\ Off(q * r.num, q * (r.den * Units(h)), Abs(q) * (r.den * Unit(h)))
    BY <2>2, <2>3, FactorOff
  <2>5. U = Units(h) /\ u = Unit(h) BY DEF U, u, h
  <2> QED BY <2>1, <2>4, <2>5
<1>17. V \in Nat /\ w \in Nat
  <2>1. NearHalf(b.dmin, f.dmin.num, f.dmin.den) BY <1>16
  <2> QED BY <2>1 DEF NearHalf
<1>18. mm = 0 \/ Off(mm * L, mm * (63 * V), Abs(mm) * (63 * w))
  <2> SUFFICES ASSUME mm # 0 PROVE Off(mm * L, mm * (63 * V), Abs(mm) * (63 * w))
    OBVIOUS
  <2> DEFINE r == f.dmin
             h == b.dmin
  <2>1. r.num = L /\ r.den = 63
    <3>1. L > 0 BY <1>11
    <3> QED BY <1>9, <3>1 DEF FactorsOf
  <2>2. NearHalf(h, r.num, r.den) /\ FactorKept(h, r) BY <1>16
  <2> HIDE DEF r, V, w, h
  <2>3. r.num \in Nat /\ r.den \in Nat \ {0} /\ mm \in Int BY <1>8, <1>14, <2>1
  <2>4. Off(mm * r.num, mm * (r.den * Units(h)), Abs(mm) * (r.den * Unit(h)))
    BY <2>2, <2>3, FactorOff
  <2>5. V = Units(h) /\ w = Unit(h) BY DEF V, w, h
  <2> QED BY <2>1, <2>4, <2>5
<1>19. Abs(2 * q * W - 30 * mm * L - 1890 * x) <= R BY <1>12
<1>20. Abs(1890 * (q * U - mm * V - x)) <= R + 945 * (q * u + mm * w)
  <2>1. U \in Int /\ u \in Int /\ V \in Int /\ w \in Int /\ W \in Int /\ L \in Int /\ x \in Int
    BY <1>3, <1>8, <1>15, <1>17
  <2>2. Off(q * W, q * (945 * U), Abs(q) * (945 * u)) BY <1>15
  <2> HIDE DEF q, R, U, u, V, w
  <2> DEFINE K == 945
             J == 63
             z == 2 * q * W - 30 * mm * L - 1890 * x
             y == 1890 * (q * U - mm * V - x)
  <2>3. K = 945 /\ J = 63 OBVIOUS
  <2>4. Apart(q, mm, x, W, L, U, V, K, J, z, y) BY <2>1 DEF Apart
  <2>5. Abs(z) <= R BY <1>19
  <2>6. /\ Off(q * W, q * (K * U), Abs(q) * (K * u))
        /\ mm = 0 \/ Off(mm * L, mm * (J * V), Abs(mm) * (J * w)) BY <1>18, <2>2
  <2>7. (Abs(y) <= R + K * (q * u + mm * w)) <=>
        (Abs(1890 * (q * U - mm * V - x)) <= R + 945 * (q * u + mm * w)) OBVIOUS
  <2> HIDE DEF K, J, z, y
  <2>8. TwoFactors(q, mm, W, L, U, u, V, w, K, J)
    BY <1>14, <2>1, <2>6, Zenon DEF TwoFactors
  <2>9. Abs(y) <= R + K * (q * u + mm * w) BY <1>14, <2>4, <2>5, <2>8, ManySteps, Zenon
  <2> QED BY <2>7, <2>9
<1>21. v.q = q /\ v.m = mm BY <1>2
<1>22. WithinSteps(v, x, b, sc, f)
  <2> HIDE DEF q, v
  <2> QED BY <1>20, <1>21 DEF WithinSteps, W, L, R, U, u, V, w
<1>23. sc = ScaleQ4(vals, g, f.d) BY <1>4
<1> QED BY <1>22, <1>23 DEF NearEnough, v, k, x, f, b

(* The invariant gives that a packed block reads back.                     *)
LEMMA RowReadsBack == RowInv => PackedReadsBack
<1> SUFFICES ASSUME RowInv, meant # << >>, out["cpu"] # << >>
             PROVE  PackedReadsBack
  BY DEF PackedReadsBack
<1> DEFINE fmt == row.fmt
           b == Pack(fmt, meant)
<1>1. fmt \in Format /\ meant \in [1..QK[fmt] -> Packable] /\ row.blocks = <<b>>
  <2>1. fmt \in Format /\ meant \in Columns[fmt] /\ row.blocks = <<b>> BY DEF RowInv, IsRow
  <2> QED BY <2>1, QuantBlocksAssumption
<1>2. row.blocks[1] = b
  <2> HIDE DEF b
  <2> QED BY <1>1
<1>3. \A k \in Nat : k < QK[fmt] => out["cpu"][k + 1] = Element(fmt, "cpu", b, k)
  BY OneBlock
<1>4. CASE fmt = "Q8_0"
  <2> DEFINE big == Largest(meant)
             c == PackQ8(meant)
             E(k) == ElementQ8("cpu", c, k)
             s == 127
             f == FactorOf(fmt, meant)
  <2>1. meant \in [1..32 -> Packable] /\ b = c /\ QK[fmt] = 32 BY <1>1, <1>4, SMT DEF QK, Pack
  <2>8. s \in Nat /\ s >= 15 OBVIOUS
  <2>11. s = 127 OBVIOUS
  <2>9. meant \in [1..32 -> Int] /\ NearHalf(StoredHalf(big, s), big, s)
    <3>1. NearHalf(StoredHalf(Largest(meant), s), Largest(meant), s) /\ meant \in [1..32 -> Int]
      <4> HIDE DEF s, big, c, f
      <4> QED BY <2>1, <2>8, StoredLargest
    <3> HIDE DEF s
    <3> QED BY <3>1
  <2>2. c.d = StoredHalf(big, s)
    <3>1. 0 \in 0..31 OBVIOUS
    <3> QED BY <2>9, <3>1, PackedQ8
  <2>10. big \in Nat BY <2>9, LargestOf
  <2>3. ASSUME NEW i \in 1..32
        PROVE  /\ out["cpu"][i].q \in Int /\ meant[i] \in Int
               /\ 2 * Abs(out["cpu"][i].q * big - s * meant[i]) <= big
    <3> DEFINE k == i - 1
    <3>1. k \in 0..31 /\ k \in Nat /\ k < 32 /\ k + 1 = i BY PlaceInBlock
    <3> HIDE DEF k
    <3>2. Element(fmt, "cpu", b, k) = E(k) BY <1>4, <2>1, SMT DEF Element
    <3>3. out["cpu"][i] = E(k) BY <1>3, <2>1, <3>1, <3>2
    <3>4. E(k).q \in Int /\ 2 * Abs(E(k).q * big - 127 * meant[i]) <= big
      BY <2>9, <3>1, PackedQ8
    <3>5. meant[i] \in Int BY <2>9
    <3> QED BY <3>3, <3>4, <3>5
  <2>4. f.num = big /\ f.den = s BY <1>4, SMT DEF FactorOf
  <2>5. fmt # "Q4_K" BY <1>4
  <2> HIDE DEF big, c, b, s, f
  <2>6. row.blocks[1].d = StoredHalf(big, s) BY <1>2, <2>1, <2>2
  <2>7. ASSUME FactorKept(row.blocks[1].d, f), NEW i \in 1..32
        PROVE  WithinHalfStep(out["cpu"][i], meant[i], row.blocks[1], f)
    <3> DEFINE v == out["cpu"][i]
               x == meant[i]
               h == row.blocks[1]
    <3>1. v.q \in Int /\ x \in Int /\ 2 * Abs(v.q * f.num - f.den * x) <= f.num
      BY <2>3, <2>4
    <3>2. f.num \in Nat /\ f.den \in Nat \ {0} BY <2>4, <2>8, <2>10
    <3>3. NearHalf(h.d, f.num, f.den) /\ FactorKept(h.d, f) BY <2>4, <2>6, <2>7, <2>9
    <3> HIDE DEF v, x, h
    <3>4. WithinHalfStep(v, x, h, f) BY <3>1, <3>2, <3>3, HalfStep
    <3> QED BY <3>4 DEF v, x, h
  <2> QED BY <2>5, <2>7, Zenon DEF PackedReadsBack, f
<1>5. CASE fmt = "Q5_0"
  <2> DEFINE big == Largest(meant)
             c == PackQ5(meant)
             E(k) == ElementQ5("cpu", c, k)
             s == 15
             f == FactorOf(fmt, meant)
  <2>1. meant \in [1..32 -> Packable] /\ b = c /\ QK[fmt] = 32 BY <1>1, <1>5, SMT DEF QK, Pack
  <2>8. s \in Nat /\ s >= 15 OBVIOUS
  <2>11. s = 15 OBVIOUS
  <2>9. meant \in [1..32 -> Int] /\ NearHalf(StoredHalf(big, s), big, s)
    <3>1. NearHalf(StoredHalf(Largest(meant), s), Largest(meant), s) /\ meant \in [1..32 -> Int]
      <4> HIDE DEF s, big, c, f
      <4> QED BY <2>1, <2>8, StoredLargest
    <3> HIDE DEF s
    <3> QED BY <3>1
  <2>2. c.d = StoredHalf(big, s)
    <3>1. 0 \in 0..31 OBVIOUS
    <3> QED BY <2>9, <3>1, PackedQ5
  <2>10. big \in Nat BY <2>9, LargestOf
  <2>3. ASSUME NEW i \in 1..32
        PROVE  /\ out["cpu"][i].q \in Int /\ meant[i] \in Int
               /\ 2 * Abs(out["cpu"][i].q * big - s * meant[i]) <= big
    <3> DEFINE k == i - 1
    <3>1. k \in 0..31 /\ k \in Nat /\ k < 32 /\ k + 1 = i BY PlaceInBlock
    <3> HIDE DEF k
    <3>2. Element(fmt, "cpu", b, k) = E(k) BY <1>5, <2>1, SMT DEF Element
    <3>3. out["cpu"][i] = E(k) BY <1>3, <2>1, <3>1, <3>2
    <3>4. E(k).q \in Int /\ 2 * Abs(E(k).q * big - 15 * meant[i]) <= big
      BY <2>9, <3>1, PackedQ5
    <3>5. meant[i] \in Int BY <2>9
    <3> QED BY <3>3, <3>4, <3>5
  <2>4. f.num = big /\ f.den = s BY <1>5, SMT DEF FactorOf
  <2>5. fmt # "Q4_K" BY <1>5
  <2> HIDE DEF big, c, b, s, f
  <2>6. row.blocks[1].d = StoredHalf(big, s) BY <1>2, <2>1, <2>2
  <2>7. ASSUME FactorKept(row.blocks[1].d, f), NEW i \in 1..32
        PROVE  WithinHalfStep(out["cpu"][i], meant[i], row.blocks[1], f)
    <3> DEFINE v == out["cpu"][i]
               x == meant[i]
               h == row.blocks[1]
    <3>1. v.q \in Int /\ x \in Int /\ 2 * Abs(v.q * f.num - f.den * x) <= f.num
      BY <2>3, <2>4
    <3>2. f.num \in Nat /\ f.den \in Nat \ {0} BY <2>4, <2>8, <2>10
    <3>3. NearHalf(h.d, f.num, f.den) /\ FactorKept(h.d, f) BY <2>4, <2>6, <2>7, <2>9
    <3> HIDE DEF v, x, h
    <3>4. WithinHalfStep(v, x, h, f) BY <3>1, <3>2, <3>3, HalfStep
    <3> QED BY <3>4 DEF v, x, h
  <2> QED BY <2>5, <2>7, Zenon DEF PackedReadsBack, f
<1>6. CASE fmt = "Q4_K"
  <2> DEFINE f == FactorsQ4(meant)
             c == PackQ4(meant)
             h == row.blocks[1]
             E(k) == ElementQ4("cpu", c, k)
  <2>1. meant \in [1..256 -> Packable] /\ b = c /\ QK[fmt] = 256 BY <1>1, <1>6, SMT DEF QK, Pack
  <2>2. h = c
    <3> HIDE DEF b, c
    <3> QED BY <1>2, <2>1
  <2>3. fmt = "Q4_K" BY <1>6
  <2> HIDE DEF h, b, f
  <2>4. ASSUME FactorKept(h.d, f.d), FactorKept(h.dmin, f.dmin),
               NEW g \in 0..7, GroupKept(meant, g, f),
               NEW i \in (32 * g + 1)..(32 * g + 32)
        PROVE  WithinSteps(out["cpu"][i], meant[i], h, ScaleQ4(meant, g, f.d), f)
    <3> DEFINE l == i - 32 * g
               k == 32 * g + (l - 1)
    <3>1. l \in 1..32 /\ k \in Nat /\ k < 256 /\ k + 1 = i /\ 32 * g + l = i BY PlaceInGroup
    <3> HIDE DEF l
    <3>2. out["cpu"][i] = ElementQ4("cpu", PackQ4(meant), k)
      <4> HIDE DEF k, c
      <4>1. out["cpu"][k + 1] = Element(fmt, "cpu", b, k) BY <1>3, <2>1, <3>1
      <4>2. Element(fmt, "cpu", b, k) = E(k) BY <1>6, <2>1, SMT DEF Element
      <4> QED BY <3>1, <4>1, <4>2 DEF c
    <3>3. WithinSteps(ElementQ4("cpu", PackQ4(meant), k), meant[32 * g + l],
                      PackQ4(meant), ScaleQ4(meant, g, f.d), f)
      <4>1. GroupKept(meant, g, FactorsQ4(meant)) BY <2>4 DEF f
      <4>2. /\ FactorKept(PackQ4(meant).d, FactorsQ4(meant).d)
            /\ FactorKept(PackQ4(meant).dmin, FactorsQ4(meant).dmin) BY <2>2, <2>4 DEF f
      <4>3. KeptQ4(meant, g, l) BY <2>1, <3>1, <4>1, <4>2 DEF KeptQ4
      <4> HIDE DEF c, k
      <4>4. NearEnough(meant, g, l) BY <4>3, ReadBackQ4, Zenon
      <4> QED BY <4>4 DEF NearEnough, k, f
    <3> HIDE DEF k
    <3> QED BY <2>2, <3>1, <3>2, <3>3
  <2> QED BY <2>3, <2>4, Zenon DEF PackedReadsBack, h, f
<1> QED BY <1>1, <1>4, <1>5, <1>6 DEF Format

(* A row that tensor_transpose_packed_inplace packs reads back on the CPU, *)
(* for all values up to two in magnitude it may be packed from: a Q8_0 or  *)
(* Q5_0 block within half a step and half a unit of the stored factor for  *)
(* each step of the quant (tensor_quant_*_block store f32_to_fp16_bits of  *)
(* the factor the quants are divided by); of a Q4_K block the groups that  *)
(* GroupKept names, with the rounding of scale and minimum to six bits     *)
(* besides. Except when a factor of half a unit or more is stored as zero. *)
THEOREM PackingReadsBack == RowSpec => []PackedReadsBack
BY RowInvariant, RowReadsBack, PTL
=============================================================================
