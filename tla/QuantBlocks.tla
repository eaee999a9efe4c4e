---------------------------- MODULE QuantBlocks ----------------------------
(***************************************************************************)
(* A row of a quantized weight, and the ways the program decodes it.  The  *)
(* block layouts Q4_K, Q5_0 and Q8_0 are decoded in five places: on the    *)
(* host for the CPU products (tensor.cpp) and, separately, for the parity  *)
(* path (cuda_backend.cu); in the device kernels by whole blocks and by    *)
(* single elements; and in the dot products of backend_runtime.cpp.  They  *)
(* are meant to agree.  Besides, a row can be packed again from values,    *)
(* when a packed weight is transposed.                                     *)
(*                                                                         *)
(* A value is q * d - m * dmin, kept as the two half-precision factors,    *)
(* converted as the path converts them, and their integer coefficients.    *)
(***************************************************************************)
EXTENDS HalfFloat, Sequences, FiniteSets, FiniteSetsExt

CONSTANTS
  FileRows,   (* rows as they come from the file                           *)
  Columns,    (* Columns[fmt]: value sequences a transposition gathers     *)
  TileCols,   (* columns of a thread block, block.x: they divide a block   *)
  Compared    (* bound: paths that decode the same row                     *)

Format == {"Q4_K", "Q5_0", "Q8_0"}
Decoder == {"cpu", "dot", "parity", "tile", "rhs", "atomic"}
Device == {"tile", "rhs", "atomic"}

QK == [Q4_K |-> 256, Q5_0 |-> 32, Q8_0 |-> 32]
BodyBytes == [Q4_K |-> 12 + 128, Q5_0 |-> 4 + 16, Q8_0 |-> 32]

(* A block: its half-precision header fields and the bytes after them.     *)
BlockOf(fmt) == [d : Half, dmin : Half, body : [0..(BodyBytes[fmt] - 1) -> 0..255]]

(* A value to pack: a multiple of 2^-24, no greater than two.              *)
Packable == (-(2^25))..(2^25)

ASSUME QuantBlocksAssumption ==
  /\ TileCols \in Nat \ {0} /\ Compared \in Nat
  /\ \A fmt \in Format : QK[fmt] % TileCols = 0
  /\ \A w \in FileRows : w.fmt \in Format /\ w.blocks \in Seq(BlockOf(w.fmt))
  /\ \A fmt \in Format : Columns[fmt] \subseteq [1..QK[fmt] -> Packable]

VARIABLES
  row,      (* the row: [fmt, blocks]                                      *)
  meant,    (* history: the values a packed row was made from, or << >>    *)
  out       (* out[p]: the row as path p decodes it, << >>: not yet        *)

rowVars == <<row, meant, out>>

-----------------------------------------------------------------------------
(* Decoders.                                                               *)

Convert(p, h) == IF p \in Device THEN DeviceFloat(h) ELSE HostFloat(h)

Value(d, q, dmin, m) == [d |-> d, q |-> q, dmin |-> dmin, m |-> m]
NoMin == [sign |-> 0, exp |-> 0, frac |-> 0]

Bit(byte, i) == (byte \div 2^i) % 2
Signed(byte) == IF byte >= 128 THEN byte - 256 ELSE byte

(* get_scale_min_k4 and its copies: six-bit scale and minimum of group j.  *)
(* From group 4 on, the upper two bits of the minimum sit on byte j; the   *)
(* CPU takes those of the scale from there too, the others from byte j-4.  *)
ScaleMin(p, s, j) ==
  LET upper == IF p \in {"cpu", "dot"} THEN s[j] ELSE s[j - 4]
  IN IF j < 4 THEN [sc |-> s[j] % 64, mn |-> s[j + 4] % 64]
     ELSE [sc |-> (s[j + 4] % 16) + 16 * (upper \div 64),
           mn |-> (s[j + 4] \div 16) + 16 * (s[j] \div 64)]

(* Blocks decoded whole: the loops of the dequant_*_block functions.  Of   *)
(* Q4_K, one turn decodes sixty-four values: low nibbles, then high ones.  *)
ChunkQ4(p, b, c) ==
  LET d == Convert(p, b.d)
      dmin == Convert(p, b.dmin)
      Run(g, nibbles) == LET s == ScaleMin(p, b.body, g)
                         IN [l \in 1..32 |-> Value(d, s.sc * nibbles[l], dmin, s.mn)]
      Low == [l \in 1..32 |-> b.body[12 + 32 * c + l - 1] % 16]
      High == [l \in 1..32 |-> b.body[12 + 32 * c + l - 1] \div 16]
  IN Run(2 * c, Low) \o Run(2 * c + 1, High)
BlockQ4(p, b) == [i \in 1..256 |-> ChunkQ4(p, b, (i - 1) \div 64)[((i - 1) % 64) + 1]]

BlockQ5(p, b) ==
  LET d == Convert(p, b.d)
      mask == [i \in 0..31 |-> Bit(b.body[i \div 8], i % 8)]
      Half5(high) == [i \in 1..16 |->
        LET ql == b.body[4 + i - 1]
            low == IF high THEN ql \div 16 ELSE ql % 16
            bit == IF high THEN mask[i - 1 + 16] ELSE mask[i - 1]
        IN Value(d, 16 * bit + low - 16, NoMin, 0)]
  IN Half5(FALSE) \o Half5(TRUE)

BlockQ8(p, b) ==
  LET d == Convert(p, b.d)
  IN [i \in 1..32 |-> Value(d, Signed(b.body[i - 1]), NoMin, 0)]

(* One element of a block: dequant_block_element_q4, _q5 and _q8.          *)
ElementQ4(p, b, idx) ==
  LET chunk == idx \div 64
      pos == idx % 64
      s == ScaleMin(p, b.body, 2 * chunk + (IF pos < 32 THEN 0 ELSE 1))
      byte == b.body[12 + 32 * chunk + (IF pos < 32 THEN pos ELSE pos - 32)]
  IN Value(Convert(p, b.d), s.sc * (IF pos < 32 THEN byte % 16 ELSE byte \div 16),
           Convert(p, b.dmin), s.mn)

ElementQ5(p, b, idx) ==
  LET i == IF idx < 16 THEN idx ELSE idx - 16
      low == IF idx < 16 THEN b.body[4 + i] % 16 ELSE b.body[4 + i] \div 16
  IN Value(Convert(p, b.d), 16 * Bit(b.body[idx \div 8], idx % 8) + low - 16, NoMin, 0)

ElementQ8(p, b, idx) == Value(Convert(p, b.d), Signed(b.body[idx]), NoMin, 0)

Block(fmt, p, b) == CASE fmt = "Q4_K" -> BlockQ4(p, b)
                      [] fmt = "Q5_0" -> BlockQ5(p, b)
                      [] fmt = "Q8_0" -> BlockQ8(p, b)
Element(fmt, p, b, idx) == CASE fmt = "Q4_K" -> ElementQ4(p, b, idx)
                             [] fmt = "Q5_0" -> ElementQ5(p, b, idx)
                             [] fmt = "Q8_0" -> ElementQ8(p, b, idx)

(* The templates are given the elements of a block and its bytes, and look *)
(* only at the first to pick the decoder.                                  *)
Template(fmt) == IF QK[fmt] = QK["Q4_K"] THEN "Q4_K"
                 ELSE IF QK[fmt] = QK["Q5_0"] THEN "Q5_0" ELSE "Q8_0"

(* Block after block, each by the decoder of a format (dst + b * QK).      *)
WholeBlocks(fmt, p, blocks) ==
  LET decoded == [i \in DOMAIN blocks |-> Block(fmt, p, blocks[i])]
      elems == QK[fmt]
  IN [c \in 1..(Len(blocks) * elems) |-> decoded[(c - 1) \div elems + 1][((c - 1) % elems) + 1]]

-----------------------------------------------------------------------------
(* The paths.  The product kernels have one thread per output column; a    *)
(* thread block spans TileCols of them and decodes one weight block of     *)
(* every row, the one its first column lies in.                            *)

(* Mutant of Tile: every thread works out its place from its column in the *)
(* thread block.                                                           *)
TileByThread(fmt, blocks) ==
  LET elems == QK[fmt]
  IN [c \in 1..(Len(blocks) * elems) |->
       LET col == c - 1
           first == (col \div TileCols) * TileCols
       IN Element(Template(fmt), "tile", blocks[first \div elems + 1],
                  (col % TileCols) % elems)]

(* matmul_quant_kernel.                                                    *)
Tile(fmt, blocks) ==
  LET elems == QK[fmt]
  IN [c \in 1..(Len(blocks) * elems) |->
       LET col == c - 1
           first == (col \div TileCols) * TileCols
       IN Element(Template(fmt), "tile", blocks[first \div elems + 1], col % elems)]

(* matmul_quant_atomic_*_kernel and the debug kernels: as above, with the  *)
(* decoder of the tensor's type.                                           *)
Atomic(fmt, blocks) ==
  LET elems == QK[fmt]
  IN [c \in 1..(Len(blocks) * elems) |->
       LET col == c - 1
           first == (col \div TileCols) * TileCols
       IN Element(fmt, "atomic", blocks[first \div elems + 1], col % elems)]

Decoded(p, w) ==
  CASE p \in {"cpu", "dot", "parity"} -> WholeBlocks(w.fmt, p, w.blocks)
    [] p = "rhs" -> WholeBlocks(Template(w.fmt), "rhs", w.blocks)
    [] p = "tile" -> Tile(w.fmt, w.blocks)
    [] p = "atomic" -> Atomic(w.fmt, w.blocks)

-----------------------------------------------------------------------------
(* Packers, tensor_quant_*_block.  Values and factors count units of 2^-24;*)
(* a factor is the fraction num / den.  The quants are counted in steps of *)
(* the factor as computed, the header stores the half it is rounded to.    *)

Abs(x) == IF x < 0 THEN -x ELSE x
AtLeast(x, y) == IF x < y THEN y ELSE x
AtMost(x, y) == IF x > y THEN y ELSE x
(* lround(a / b): the nearest integer, halves away from zero.              *)
LRound(a, b) == IF a >= 0 THEN (2 * a + b) \div (2 * b) ELSE -((b - 2 * a) \div (2 * b))
Clip(lo, x, hi) == AtMost(AtLeast(x, lo), hi)
Largest(vals) == Max({Abs(vals[i]) : i \in DOMAIN vals})
StoredFactor(f) == StoredHalf(f.num, f.den)

PackQ8(vals) ==
  LET big == Largest(vals)
      q == [i \in 1..32 |-> IF big = 0 THEN 0 ELSE Clip(-128, LRound(127 * vals[i], big), 127)]
  IN [d |-> StoredHalf(big, 127), dmin |-> NoMin,
      body |-> [i \in 0..31 |-> q[i + 1] % 256]]

PackQ5(vals) ==
  LET big == Largest(vals)
      q == [i \in 1..32 |->
              16 + (IF big = 0 THEN 0 ELSE Clip(-16, LRound(15 * vals[i], big), 15))]
      top(byte, i) == q[8 * byte + i + 1] \div 16
      mask(byte) == top(byte, 0) + 2 * top(byte, 1) + 4 * top(byte, 2) + 8 * top(byte, 3)
                      + 16 * top(byte, 4) + 32 * top(byte, 5) + 64 * top(byte, 6)
                      + 128 * top(byte, 7)
  IN [d |-> StoredHalf(big, 15), dmin |-> NoMin,
      body |-> [i \in 0..19 |-> IF i < 4 THEN mask(i)
                                ELSE (q[i - 3] % 16) + 16 * (q[i - 3 + 16] % 16)]]

(* The group of an element, its least and its greatest value.              *)
Group(vals, g) == {vals[32 * g + l] : l \in 1..32}
Spread(vals, g) == Max(Group(vals, g)) - Min(Group(vals, g))

(* What stands in for the factor of values that are all alike, 1e-8.       *)
Fallback == [num |-> 63 * 2^16, den |-> 63 * 5^8]

(* The two factors of a Q4_K block: d brings the widest group to 15 * 63   *)
(* steps, dmin the least value to 63.                                      *)
FactorsQ4(vals) ==
  LET wide == Max({Spread(vals, g) : g \in 0..7})
      least == Min({Min(Group(vals, g)) : g \in 0..7})
      d == IF wide > 0 THEN [num |-> wide, den |-> 945] ELSE Fallback
  IN [d |-> d, dmin |-> IF least < 0 THEN [num |-> -least, den |-> 63] ELSE d]

ScaleQ4(vals, g, d) == Clip(1, LRound(Spread(vals, g) * d.den, 15 * d.num), 63)
MinimumQ4(vals, g, dmin) ==
  LET least == Min(Group(vals, g))
  IN IF least < 0 THEN Clip(0, LRound(-least * dmin.den, dmin.num), 63) ELSE 0

(* Mutant of QuantQ4: the minimum of a group is left out of its quants.    *)
QuantQ4WithoutMinimum(v, sc, mm, f) == Clip(0, LRound(v * f.d.den, sc * f.d.num), 15)

(* The quant of a value, (v + dmin * mm) / (d * sc).                       *)
QuantQ4(v, sc, mm, f) ==
  LET over63 == 63 * v + mm * f.dmin.num   \* 63 (v + dmin * mm), if mm > 0
  IN IF mm = 0 THEN Clip(0, LRound(v * f.d.den, sc * f.d.num), 15)
     ELSE Clip(0, LRound(over63 * (f.d.den \div 63), sc * f.d.num), 15)

(* The upper bits of a group's scale go where the CPU decoder reads those  *)
(* of both the scale and the minimum.                                      *)
PackQ4(vals) ==
  LET f == FactorsQ4(vals)
      sc == [g \in 0..7 |-> ScaleQ4(vals, g, f.d)]
      mm == [g \in 0..7 |-> MinimumQ4(vals, g, f.dmin)]
      area == [i \in 0..11 |->
                 CASE i < 4 -> sc[i]
                   [] i \in 4..7 -> mm[i - 4] + 64 * (sc[i] \div 16)
                   [] i >= 8 -> (sc[i - 4] % 16) + 16 * (mm[i - 4] % 16)]
      quant(i) == QuantQ4(vals[i + 1], sc[i \div 32], mm[i \div 32], f)
      first(i) == 64 * (i \div 32) + (i % 32)
  IN [d |-> StoredFactor(f.d), dmin |-> StoredFactor(f.dmin),
      body |-> [i \in 0..139 |-> IF i < 12 THEN area[i]
                                 ELSE quant(first(i - 12)) + 16 * quant(first(i - 12) + 32)]]

Pack(fmt, vals) == CASE fmt = "Q4_K" -> PackQ4(vals)
                     [] fmt = "Q5_0" -> PackQ5(vals)
                     [] fmt = "Q8_0" -> PackQ8(vals)

-----------------------------------------------------------------------------
RowInit ==
  /\ row \in FileRows
  /\ meant = << >>
  /\ out = [p \in Decoder |-> << >>]

(* tensor_transpose_packed_inplace: one block of the result, packed from a *)
(* column of a tile.  The rows of a tile have factors of their own, so the *)
(* column can hold any values.                                             *)
TransposePacked ==
  /\ meant = << >> /\ \A p \in Decoder : out[p] = << >>
  /\ \E vals \in Columns[row.fmt] :
       /\ meant' = vals
       /\ row' = [fmt |-> row.fmt, blocks |-> <<Pack(row.fmt, vals)>>]
  /\ UNCHANGED out

(* The row takes part in a product, or is dequantized.                     *)
Decode(p) ==
  /\ out[p] = << >> /\ Cardinality({r \in Decoder : out[r] # << >>}) < Compared
  /\ out' = [out EXCEPT ![p] = Decoded(p, row)]
  /\ UNCHANGED <<row, meant>>

RowNext == TransposePacked \/ \E p \in Decoder : Decode(p)
RowSpec == RowInit /\ [][RowNext]_rowVars

-----------------------------------------------------------------------------
(* Properties.                                                             *)

(* The upper bits of bytes j and j-4 of the scale area are the same, for   *)
(* each group j the CPU and the device code read them from differently.    *)
UpperBitsShared(b) == \A j \in 4..7 : b.body[j] \div 64 = b.body[j - 4] \div 64

(* The paths that share a decoder for the row, whatever its bytes are, and *)
(* those that then read the same bits.                                     *)
Comparable(p, q) ==
  CASE row.fmt = "Q5_0" -> TRUE
    [] row.fmt = "Q8_0" -> (p \in {"tile", "rhs"}) = (q \in {"tile", "rhs"})
    [] row.fmt = "Q4_K" -> \/ (p \in {"cpu", "dot"}) = (q \in {"cpu", "dot"})
                           \/ \A i \in DOMAIN row.blocks : UpperBitsShared(row.blocks[i])

(* Every two paths that are meant to agree decode a row to the same        *)
(* values, element by element: block loops against index arithmetic, host  *)
(* conversion of the factors against the device's wrapping one, and a      *)
(* thread's place in a weight block against its place in the row.  The two *)
(* exceptions are the CPU's reading of Q4_K scales, when it matters, and   *)
(* the templates' decoder for Q8_0 (cuda_backend.cu, tensor.cpp).          *)
PathsAgree ==
  \A p, q \in {r \in Decoder : out[r] # << >>} : Comparable(p, q) => out[p] = out[q]

(* On every path the factor of a block is the exact value of its half,     *)
(* subnormals and signed zeros included, although the device counts their  *)
(* exponent below zero in an unsigned integer (fp16_to_fp32_device).       *)
FactorsExact ==
  \A p \in Decoder : out[p] # << >> =>
    \A i \in DOMAIN row.blocks :
      LET h == row.blocks[i].d
          f == out[p][QK[row.fmt] * (i - 1) + 1].d
      IN h.exp < 31 => SameValue(f, h)

(* Storing a factor rounds it to the nearest half, up when it is in the    *)
(* middle, with the carry into the exponent and up to infinity; only a     *)
(* factor just below the least normal half becomes zero, the carry being   *)
(* masked away (f32_to_fp16_bits).                                         *)
RoundsToNearest ==
  \A i \in DOMAIN row.blocks :
    LET h == row.blocks[i].d
        Rounded(r) == Number(ToHalf(Between(h, r)))
    IN (h.exp < 31 /\ Number(h) > 0) =>
         \A r \in {0, 1, 4095, 4096, 8191} :
           Rounded(r) = IF r < 4096 THEN Number(h)
                        ELSE IF Number(h) = 1023 THEN 0 ELSE Number(h) + 1

(* A stored factor h counts Units(h), and is off the factor f it stands    *)
(* for by no more than half a Unit(h), unless it became zero although f is *)
(* half a unit or more.                                                    *)
Units(h) == IF h.exp = 0 THEN h.frac ELSE (1024 + h.frac) * 2^(h.exp - 1)
Unit(h) == IF h.exp = 0 THEN 1 ELSE 2^(h.exp - 1)
FactorKept(h, f) == Units(h) = 0 => 2 * f.num < f.den

(* The decoded value v of block b is within half a step f of x, and half a *)
(* unit of the stored factor for each step; or, of Q4_K, within half a step*)
(* of each factor, what rounding scale and minimum to six bits costs, and  *)
(* the same for each stored factor.  sc is the scale of the group.         *)
WithinHalfStep(v, x, b, f) ==
  2 * Abs(f.den * (v.q * Units(b.d) - x)) <= f.num + f.den * (Abs(v.q) * Unit(b.d))
WithinSteps(v, x, b, sc, f) ==
  LET wide == f.d.num
      least == IF f.dmin.den = 63 THEN f.dmin.num ELSE 0
  IN Abs(1890 * (v.q * Units(b.d) - v.m * Units(b.dmin) - x))
       <= sc * wide + 15 * (wide + least) + 945 * (v.q * Unit(b.d) + v.m * Unit(b.dmin))

(* The groups that do not start above zero and for which the packer's one  *)
(* pair of upper bits serves scale and minimum alike, in a block with a    *)
(* group whose values are not all alike.                                   *)
GroupKept(vals, g, f) ==
  /\ f.d.den = 945 /\ Min(Group(vals, g)) <= 0
  /\ g >= 4 => MinimumQ4(vals, g, f.dmin) \div 16 = ScaleQ4(vals, g, f.d) \div 16

(* The factor of a packed block that has one.                              *)
FactorOf(fmt, vals) == [num |-> Largest(vals), den |-> IF fmt = "Q8_0" THEN 127 ELSE 15]

(* A packed block reads back, on the CPU, within half a step of the values *)
(* it was made from and what storing the factor as a half costs, which     *)
(* grows with the quant (Q8_0, Q5_0); so do, but for the rounding of scale *)
(* and minimum, the groups of a Q4_K block for which these are kept.  The  *)
(* exception of all three: a factor that rounds up to the least normal half*)
(* is stored as zero (tensor_quant_*_block, f32_to_fp16_bits against       *)
(* tensor_dequant_*_block).                                                *)
PackedReadsBack ==
  (meant # << >> /\ out["cpu"] # << >>) =>
    LET b == row.blocks[1]
        f == FactorOf(row.fmt, meant)
        f4 == FactorsQ4(meant)
    IN IF row.fmt # "Q4_K"
       THEN FactorKept(b.d, f) =>
              \A i \in 1..32 : WithinHalfStep(out["cpu"][i], meant[i], b, f)
       ELSE (FactorKept(b.d, f4.d) /\ FactorKept(b.dmin, f4.dmin)) =>
              \A g \in 0..7 :
                GroupKept(meant, g, f4) =>
                  \A i \in (32 * g + 1)..(32 * g + 32) :
                    WithinSteps(out["cpu"][i], meant[i], b, ScaleQ4(meant, g, f4.d), f4)
=============================================================================
