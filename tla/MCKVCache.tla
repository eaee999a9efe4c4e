----------------------------- MODULE MCKVCache -----------------------------
(* KVCache with two layers, three rows each and two distinguishable keys   *)
(* and values: a ring can fill, wrap past its end and be reset in any      *)
(* order relative to the other layer.                                      *)
EXTENDS KVCache

CONSTANTS k1, k2, v1, v2

MCKey   == {k1, k2}
MCValue == {v1, v2}
=============================================================================
