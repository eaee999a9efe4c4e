----------------------------- MODULE HalfFloat -----------------------------
(***************************************************************************)
(* Half precision and its two conversions to single precision: the one of  *)
(* the host, which counts the exponent of a subnormal down from -14 in a   *)
(* signed integer, and the one of the device kernels, which counts an      *)
(* unsigned integer down from 1, through zero.  And the conversion back,   *)
(* which rounds.                                                           *)
(*                                                                         *)
(* A half is [sign, exp, frac] with 1, 5 and 10 bits, a float the same     *)
(* with 1, 8 and 23.  Only the low nine bits of an exponent reach a float  *)
(* word when it is shifted to bit 23, so exponents are kept modulo 2^9 and *)
(* the ninth bit is or-ed into the sign.                                   *)
(***************************************************************************)
EXTENDS Integers

Half == [sign : 0..1, exp : 0..31, frac : 0..(2^10 - 1)]
Float == [sign : 0..1, exp : 0..255, frac : 0..(2^23 - 1)]

(* The word sign << 31 | e << 23 | f << 13.                                *)
Word(s, e, f) ==
  LET nine == e % 512
  IN [sign |-> IF s = 1 \/ nine >= 256 THEN 1 ELSE 0,
      exp |-> nine % 256, frac |-> f * 2^13]

(* Turns of the loop "while ((frac & 0x400) == 0) frac <<= 1".             *)
Turns(f) == CHOOSE t \in 0..10 : f * 2^t \in 2^10..(2^11 - 1)
Normalised(f) == (f * 2^Turns(f)) % 1024

(* tensor_fp16_to_fp32, fp16_to_fp32_local, fp16_to_fp32_host.             *)
HostFloat(h) ==
  CASE h.exp = 0 /\ h.frac = 0 -> Word(h.sign, 0, 0)
    [] h.exp = 0 /\ h.frac # 0 ->
         Word(h.sign, (-14 - Turns(h.frac)) + 127, Normalised(h.frac))
    [] h.exp = 31 -> Word(h.sign, 255, h.frac)
    [] OTHER -> Word(h.sign, h.exp + 112, h.frac)

(* Mutant of DeviceFloat: the subnormal keeps the exponent field it came   *)
(* with, so counting starts at 0 and not at 1.                             *)
DeviceFloatFromZero(h) ==
  CASE h.exp = 0 /\ h.frac = 0 -> Word(h.sign, 0, 0)
    [] h.exp = 0 /\ h.frac # 0 ->
         Word(h.sign, ((0 - Turns(h.frac)) % 512) + (127 - 15), Normalised(h.frac))
    [] h.exp = 31 -> Word(h.sign, 255, h.frac)
    [] OTHER -> Word(h.sign, h.exp + (127 - 15), h.frac)

(* fp16_to_fp32_device: the unsigned exponent wraps below zero.            *)
DeviceFloat(h) ==
  CASE h.exp = 0 /\ h.frac = 0 -> Word(h.sign, 0, 0)
    [] h.exp = 0 /\ h.frac # 0 ->
         Word(h.sign, ((1 - Turns(h.frac)) % 512) + (127 - 15), Normalised(h.frac))
    [] h.exp = 31 -> Word(h.sign, 255, h.frac)
    [] OTHER -> Word(h.sign, h.exp + (127 - 15), h.frac)

(* Mutant of ShiftRounded: the bits shifted out are dropped.               *)
ShiftTruncated(x, n) == x \div 2^n

(* x >> n, plus the last bit shifted out.                                  *)
ShiftRounded(x, n) == (x \div 2^n) + ((x \div 2^(n - 1)) % 2)

(* f32_to_fp16_bits.  The rounding adds the bit below the last one kept;   *)
(* a subnormal that rounds up to 2^10 is masked, not carried.              *)
ToHalf(f) ==
  LET exp16 == (f.exp - 127) + 15
      lead == f.frac + 2^23
      sub == ShiftRounded(lead, 14 - exp16)
      norm == ShiftRounded(f.frac, 13)
      Infinity == [sign |-> f.sign, exp |-> 31, frac |-> 0]
  IN CASE f.exp = 255 /\ f.frac # 0 -> [sign |-> f.sign, exp |-> 31, frac |-> 512]
       [] f.exp = 255 /\ f.frac = 0 -> Infinity
       [] f.exp # 255 /\ exp16 >= 31 -> Infinity
       [] exp16 < -10 -> [sign |-> f.sign, exp |-> 0, frac |-> 0]
       [] exp16 \in -10..0 -> [sign |-> f.sign, exp |-> 0, frac |-> sub % 1024]
       [] exp16 \in 1..30 /\ norm < 1024 ->
            [sign |-> f.sign, exp |-> exp16, frac |-> norm]
       [] exp16 \in 1..30 /\ norm >= 1024 ->
            IF exp16 + 1 >= 31 THEN Infinity
            ELSE [sign |-> f.sign, exp |-> exp16 + 1, frac |-> 0]

TopBit(x) == CHOOSE p \in 0..22 : x \in 2^p..(2^(p + 1) - 1)

(* The float num / den * 2^-24, cut off after eleven bits of its fraction: *)
(* rounding it to half precision looks at no others.                       *)
Leading(num, den) ==
  LET p == TopBit((2 * num) \div den)
      lead == IF p <= 12 THEN (num * 2^(12 - p)) \div den ELSE num \div (den * 2^(p - 12))
  IN [sign |-> 0, exp |-> (p - 25) + 127, frac |-> (lead - 2^11) * 2^12]

(* The half a computed factor is stored as.  Its denominator is small: to  *)
(* round it to a float before does not move it past the middle of two      *)
(* halves.                                                                 *)
StoredHalf(num, den) ==
  IF 2 * num < den THEN [sign |-> 0, exp |-> 0, frac |-> 0]   \* exp16 < -10
  ELSE ToHalf(Leading(num, den))

-----------------------------------------------------------------------------
(* What a half and a float stand for, to compare with: a half counts units *)
(* of 2^-24, and the finite halves of one sign are numbered in order.      *)

(* f is exactly the value of the finite half h.                            *)
SameValue(f, h) ==
  LET units == IF h.exp = 0 THEN h.frac ELSE (1024 + h.frac)  \* times 2^(exp-1)
      f10 == 1024 + (f.frac \div 2^13)
  IN /\ f.sign = h.sign /\ f.frac % 2^13 = 0
     /\ IF units = 0 THEN f.exp = 0 /\ f.frac = 0
        ELSE IF h.exp > 0 THEN f10 = units /\ f.exp - 127 = h.exp - 15
        ELSE f.exp \in 103..112 /\ f10 = units * 2^(113 - f.exp)

Number(h) == 1024 * h.exp + h.frac

(* The float r/2^13 of the way from the finite half h to the next one.     *)
Between(h, r) ==
  LET total == h.frac * 2^13 + r
      top == TopBit(total)
  IN IF h.exp > 0 THEN [sign |-> h.sign, exp |-> h.exp + 112, frac |-> total]
     ELSE [sign |-> h.sign, exp |-> (top - 37) + 127, frac |-> (total - 2^top) * 2^(23 - top)]
=============================================================================
