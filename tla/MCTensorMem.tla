---------------------------- MODULE MCTensorMem ----------------------------
(* TensorMem with three objects, three heap blocks and two sizes, of which *)
(* the larger needs two alignment units; the arena takes three units and a *)
(* rest, a bucket two blocks and the pool 72 bytes, so every limit is met. *)
EXTENDS TensorMem, TLC

CONSTANTS i1, i2, i3, b1, b2, b3

MCImpl == {i1, i2, i3}
MCBlock == {b1, b2, b3}
MCSize == {4, 68}
Symmetry == Permutations(MCImpl) \cup Permutations(MCBlock)
=============================================================================
