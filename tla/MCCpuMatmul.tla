---------------------------- MODULE MCCpuMatmul ----------------------------
(* CpuMatmul on F32 matrices of up to three rows and five columns, and on  *)
(* quantized ones of up to two blocks of two elements (three columns: not  *)
(* a whole number of blocks), with up to three threads asked for; tiles of *)
(* two terms, the last one not full.                                       *)
EXTENDS CpuMatmul

MCShape ==
  [m : 0 .. 3, k : {0, 2}, n : 0 .. 5, block : {1}]
    \cup [m : {1}, k : {3}, n : {2}, block : {1}]
    \cup [m : {1, 3}, k : {2}, n : {0, 2, 3, 4}, block : {2}]
MCWanted == {0, 2, 3}
=============================================================================
