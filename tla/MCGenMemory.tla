---------------------------- MODULE MCGenMemory ----------------------------
(* GenMemory with two weights of its own (Wq and one other) and one more,   *)
(* and calls of one forward pass; the arena holds two weights or four rows, *)
(* so that other requests go to the heap.  The pool keeps nothing.          *)
EXTENDS GenMemory

MCImpl == 1 .. 26
MCBlock == 1 .. 26
MCSize == {64, 128}
=============================================================================
