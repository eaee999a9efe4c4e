--------------------------- MODULE MCQuantBlocks ---------------------------
(* QuantBlocks with the real block sizes.  Q8_0 rows go through the header *)
(* values: every exponent, with the fractions at which rounding and the    *)
(* normalisation of subnormals change; their bytes are those of the        *)
(* repository's parity test, or an arithmetic progression.  Q4_K rows go   *)
(* through bytes of the scale area with different upper bits.              *)
EXTENDS QuantBlocks, TLC

One == [sign |-> 0, exp |-> 15, frac |-> 0]
Small == [sign |-> 1, exp |-> 0, frac |-> 5]
Heads == [sign : {0}, exp : 0..31, frac : {0, 1, 3, 512, 1023}]
           \cup [sign : {1}, exp : {0, 30}, frac : {2^n : n \in 0..9} \cup {2^n - 1 : n \in 0..10}]

Ramp(step, n) == [i \in 0..(n - 1) |-> (7 + step * i) % 256]
TestBody == [i \in 0..31 |-> IF i = 0 THEN 255 ELSE 0]
Q8(d, body) == [d |-> d, dmin |-> NoMin, body |-> body]

RowsQ8 ==
  {[fmt |-> "Q8_0", blocks |-> <<Q8(h, TestBody)>>] : h \in Heads}
    \cup {[fmt |-> "Q8_0", blocks |-> <<Q8(One, Ramp(9, 32)), Q8(Small, Ramp(37, 32))>>]}
RowsQ5 ==
  {[fmt |-> "Q5_0", blocks |-> <<Q8(One, Ramp(s, 20)), Q8(Small, Ramp(s + 2, 20))>>] :
     s \in {5, 29, 83, 171}}
Area == {<<x, y, z>> : x, y \in {5, 70, 255}, z \in {0, 201}}
RowsQ4 ==
  {[fmt |-> "Q4_K",
    blocks |-> <<[d |-> One, dmin |-> Small,
                  body |-> [i \in 0..139 |-> IF i < 12 THEN a[i \div 4 + 1]
                                             ELSE (3 + 29 * i) % 256]]>>] : a \in Area}

MCFileRows == RowsQ8 \cup RowsQ5 \cup RowsQ4

(* Values to pack, in units of 2^-24: their factors are stored as zero, as *)
(* a subnormal, as a normal half, and, just below the least normal half,   *)
(* as zero again.                                                          *)
Scaled(S, k) == {[i \in DOMAIN t |-> k * t[i]] : t \in S}
Mixed(t, n) == [i \in 1..n |-> t[(i % 3) + 1]]
Triples == {<<0, 0, 0>>, <<1, -1, 0>>, <<7, -50, 50>>, <<-100, 3, 42>>, <<99, 98, 13>>, <<-6, -7, -9>>}
Ranges == {<<0, 0>>, <<-9, 30>>, <<-30, 9>>, <<-1, 1>>, <<3, 10>>, <<-8, -8>>}
Wide == {<<-9, 30>>, <<-30, 9>>}
Columns4(k, S) == {[i \in 1..256 |-> LET r == IF i <= 128 THEN p[1] ELSE p[2]
                                     IN k * (IF i % 3 = 0 THEN r[1] ELSE IF i % 3 = 1 THEN r[2]
                                             ELSE (r[1] + r[2]) \div 2)] : p \in S \X Ranges}
Below == {[i \in 1..256 |-> IF i % 3 = 0 THEN 0 ELSE IF i % 3 = 1 THEN -300000 ELSE 667500]}
MCColumns ==
  [Q4_K |-> Columns4(1, Ranges) \cup Columns4(25000, Wide) \cup Below,
   Q5_0 |-> {Mixed(t, 32) : t \in Triples \cup Scaled(Triples, 1000) \cup {<<29, -3, 10>>, <<15355, -40, 7000>>}},
   Q8_0 |-> {Mixed(t, 32) : t \in Triples \cup Scaled(Triples, 1280) \cup Scaled(Triples, 9999)
                                    \cup {<<252, -3, 100>>, <<130000, -400, 64000>>}}]
=============================================================================
