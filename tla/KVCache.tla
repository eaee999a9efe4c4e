------------------------------ MODULE KVCache ------------------------------
(***************************************************************************)
(* The key/value cache of src/src/cache/kv_cache.cpp: per layer a ring of  *)
(* SeqMax rows with a length and a head index.  While a layer is not full  *)
(* a row goes to index `length'; once it is full a row overwrites the      *)
(* oldest one, at `head', and the head advances.                           *)
(*                                                                         *)
(* Attention (transformer.cpp, cpu_backend.cpp) reads the rows of a layer  *)
(* at (head + j) % seq_max for j < length: Row(l, j) and Window(l) below.  *)
(***************************************************************************)
EXTENDS Integers, Sequences

CONSTANTS
  LayerCount,  (* KVCache::layers                                          *)
  SeqMax,      (* KVCache::seq_max                                         *)
  Key,         (* the key rows a caller may append                         *)
  Value,       (* the value rows a caller may append                       *)
  Blank        (* the content of a row that was never written (zeroes)     *)

(* kvcache_create fails on seq_max = 0 as soon as there is one layer: the  *)
(* views tensor_create_f32_view(0, dim, _) are null.                       *)
ASSUME SeqMaxAssumption == SeqMax \in Nat \ {0}
ASSUME LayerAssumption == LayerCount \in Nat

Layer == 0 .. LayerCount - 1
Slot  == 0 .. SeqMax - 1

VARIABLES
  live,     (* the cache pointer is not null                               *)
  keys,     (* keys[l][i]: row i of the key buffer of layer l              *)
  vals,     (* vals[l][i]: row i of the value buffer of layer l            *)
  lengths,  (* lengths[l]: the number of valid rows of layer l             *)
  heads     (* heads[l]: the index of the oldest row once l is full        *)

vars == <<live, keys, vals, lengths, heads>>

-----------------------------------------------------------------------------
(* The readers' view.                                                      *)

Phys(l, j) == (heads[l] + j) % SeqMax

Row(l, j) == <<keys[l][Phys(l, j)], vals[l][Phys(l, j)]>>

Window(l) == [j \in 1 .. lengths[l] |-> Row(l, j - 1)]

-----------------------------------------------------------------------------
(* The operations.                                                         *)

NoRows == [l \in Layer |-> [i \in Slot |-> Blank]]
Zeroes == [l \in Layer |-> 0]

Init ==
  /\ live = FALSE
  /\ keys = NoRows /\ vals = NoRows
  /\ lengths = Zeroes /\ heads = Zeroes

(* kvcache_create: on any failed allocation everything is freed and the    *)
(* result is null, which is a step that changes nothing.                   *)
Create ==
  /\ ~live
  /\ live' = TRUE
  /\ keys' = NoRows /\ vals' = NoRows
  /\ lengths' = Zeroes /\ heads' = Zeroes

Free ==
  /\ live
  /\ live' = FALSE
  /\ keys' = NoRows /\ vals' = NoRows
  /\ lengths' = Zeroes /\ heads' = Zeroes

(* Mutant of WritePos: a full ring always overwrites its last slot.        *)
WritePosStuck(l) == IF lengths[l] < SeqMax THEN lengths[l] ELSE SeqMax - 1

(* Where kvcache_append writes.                                            *)
WritePos(l) == IF lengths[l] < SeqMax THEN lengths[l] ELSE heads[l]

(* The length and head updates of kvcache_append: one of the two.          *)
Grow(l) ==
  /\ lengths[l] < SeqMax
  /\ lengths' = [lengths EXCEPT ![l] = @ + 1]
  /\ UNCHANGED heads

(* Mutant of Rotate: the head is not wrapped.                              *)
RotateNoWrap(l) ==
  /\ lengths[l] >= SeqMax
  /\ heads' = [heads EXCEPT ![l] = @ + 1]
  /\ UNCHANGED lengths

Rotate(l) ==
  /\ lengths[l] >= SeqMax
  /\ heads' = [heads EXCEPT ![l] = (@ + 1) % SeqMax]
  /\ UNCHANGED lengths

(* kvcache_append with a layer the cache has; with any other layer, or a   *)
(* null cache, it returns false and changes nothing.                       *)
AppendRow(l, k, v) ==
  /\ live
  /\ keys' = [keys EXCEPT ![l][WritePos(l)] = k]
  /\ vals' = [vals EXCEPT ![l][WritePos(l)] = v]
  /\ Grow(l) \/ Rotate(l)
  /\ UNCHANGED live

(* Mutant of Reset: the heads keep their place.                            *)
ResetLengthsOnly == live /\ lengths' = Zeroes /\ UNCHANGED <<live, keys, vals, heads>>

(* kvcache_reset clears lengths and heads and leaves the rows in place.    *)
Reset ==
  /\ live
  /\ lengths' = Zeroes
  /\ heads' = Zeroes
  /\ UNCHANGED <<live, keys, vals>>

Next ==
  \/ Create
  \/ Free
  \/ Reset
  \/ \E l \in Layer, k \in Key, v \in Value : AppendRow(l, k, v)

Spec == Init /\ [][Next]_vars

-----------------------------------------------------------------------------
(* Properties.                                                             *)

(* Every variable keeps its C++ type: one length of at most seq_max and    *)
(* one head below seq_max per layer (KVCache in kv_cache.h).               *)
TypeOK ==
  /\ live \in BOOLEAN
  /\ keys \in [Layer -> [Slot -> Key \cup {Blank}]]
  /\ vals \in [Layer -> [Slot -> Value \cup {Blank}]]
  /\ lengths \in [Layer -> 0 .. SeqMax]
  /\ heads \in [Layer -> Slot]

(* A head leaves 0 only when its layer is full.  Everything that reads the *)
(* ring relies on it: were the head non-zero on a layer that still grows,  *)
(* kvcache_append would write at `length' while readers look at            *)
(* (head + length - 1) % seq_max.                                          *)
HeadMovesOnlyWhenFull ==
  \A l \in Layer : heads[l] # 0 => lengths[l] = SeqMax

(* The ring, read the way attention reads it, is the sliding window of the *)
(* last seq_max rows in append order: keys stay with their values, no row  *)
(* is skipped or repeated when the ring wraps, and a reset forgets it all. *)
Sliding == INSTANCE SlidingWindow WITH
  Capacity <- SeqMax,
  open     <- live,
  window   <- [l \in Layer |-> Window(l)]

Implements == Sliding!Spec
=============================================================================
