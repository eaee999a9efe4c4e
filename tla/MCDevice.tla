------------------------------ MODULE MCDevice ------------------------------
(* Device with two contexts of one weight each, two host addresses (the    *)
(* second context can load where the first transposed from), three host    *)
(* tensors in all and four device blocks, so that any request can fail.    *)
EXTENDS Device, TLC

CONSTANTS c1, c2, a1, a2, b1, b2, b3, b4

MCContext == {c1, c2}
MCAddr == {a1, a2}
MCBlock == {b1, b2, b3, b4}
MCType == {"F32", "Q4_K"}
Symmetry == Permutations(MCContext) \cup Permutations(MCBlock)
=============================================================================
