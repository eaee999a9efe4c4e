----------------------------- MODULE MCDecoder -----------------------------
(* Decoder on three layers, the middle one of a K/V width the cache does   *)
(* not have, and rings of two rows: a prompt of two tokens fills them and  *)
(* the first generated token already wraps.                                *)
EXTENDS Decoder

MCCached == {0, 2}
=============================================================================
