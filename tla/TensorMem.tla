----------------------------- MODULE TensorMem -----------------------------
(***************************************************************************)
(* The memory of tensors, src/src/tensor/tensor.cpp, for one thread: a     *)
(* bump arena for transient F32 buffers that one call empties at once, a   *)
(* pool of freed F32 buffers by size, the heap behind them, and a stack of *)
(* TensorImpl objects for reuse.                                           *)
(*                                                                         *)
(* Freeing an arena tensor gives nothing back; emptying the arena frees no *)
(* tensor.  `stale' marks the tensors that outlived an emptying: their     *)
(* memory may be handed out again.                                         *)
(***************************************************************************)
EXTENDS Integers, FiniteSets, Sequences, Functions

CONSTANTS
  Impl,       (* TensorImpl objects                                        *)
  Block,      (* blocks the heap can hand out (posix_memalign, external)   *)
  Size,       (* the byte sizes requested                                  *)
  Align,      (* 64: arena allocations are rounded up to it                *)
  ArenaCap,   (* MINXFMR_ARENA_BYTES; 0 or less turns the arena off        *)
  BucketMax,  (* kMaxBucketEntries                                         *)
  PoolMax,    (* kMaxCachedBytes                                           *)
  ImplMax,    (* kMaxImplCacheEntries                                      *)
  NoBlock     (* the storage of a tensor that owns no heap block           *)

ASSUME MemAssumption ==
  /\ Size \subseteq Nat \ {0} /\ Align \in Nat \ {0}
  /\ ArenaCap \in Nat /\ BucketMax \in Nat /\ PoolMax \in Nat /\ ImplMax \in Nat
  /\ NoBlock \notin Block

VARIABLES
  base,       (* the arena has been allocated                              *)
  offset,     (* Arena::offset                                             *)
  heap,       (* heap[b]: the size block b was allocated with, 0 if free   *)
  buckets,    (* buckets[n]: the pooled blocks of size n                   *)
  cached,     (* bytes_cached                                              *)
  implCache,  (* g_impl_cache                                              *)
  kind,       (* kind[i]: "none" (no tensor), "arena", "heap" or "view"    *)
  at,         (* at[i]: the arena offset of an arena tensor                *)
  block,      (* block[i]: the block of a heap tensor                      *)
  bytes,      (* bytes[i]: Tensor::bytes of a tensor that owns storage     *)
  f32,        (* f32[i]: Tensor::type is F32                               *)
  stale       (* history: i is an arena tensor that outlived a reset       *)

poolVars   == <<buckets, cached>>
arenaVars  == <<base, offset>>
tensorVars == <<kind, at, block, bytes, f32, stale>>
vars == <<arenaVars, heap, poolVars, implCache, tensorVars>>

Live == {i \in Impl : kind[i] # "none"}

Init ==
  /\ base = FALSE /\ offset = 0
  /\ heap = [b \in Block |-> 0]
  /\ buckets = [n \in Size |-> <<>>] /\ cached = 0
  /\ implCache = <<>>
  /\ kind = [i \in Impl |-> "none"] /\ at = [i \in Impl |-> 0]
  /\ block = [i \in Impl |-> NoBlock] /\ bytes = [i \in Impl |-> 0]
  /\ f32 = [i \in Impl |-> FALSE] /\ stale = [i \in Impl |-> FALSE]

-----------------------------------------------------------------------------
(* TensorImpl objects: the youngest cached one, or a new one.              *)

Cached == Range(implCache)

(* Mutant of AcquireImpl: the object stays in the cache.                   *)
AcquireImplKept(i) ==
  /\ i \in IF implCache # <<>> THEN {implCache[Len(implCache)]} ELSE Impl \ Live
  /\ UNCHANGED implCache

AcquireImpl(i) ==
  IF implCache # <<>>
  THEN /\ i = implCache[Len(implCache)]
       /\ implCache' = SubSeq(implCache, 1, Len(implCache) - 1)
  ELSE i \in Impl \ Live /\ UNCHANGED implCache

ReleaseImpl(i) ==
  implCache' = IF Len(implCache) >= ImplMax THEN implCache ELSE Append(implCache, i)

(* The fields of a new tensor.                                             *)
NewTensor(i, k, a, b, n, isF32) ==
  /\ kind'  = [kind EXCEPT ![i] = k]
  /\ at'    = [at EXCEPT ![i] = a]
  /\ block' = [block EXCEPT ![i] = b]
  /\ bytes' = [bytes EXCEPT ![i] = n]
  /\ f32'   = [f32 EXCEPT ![i] = isF32]
  /\ stale' = [stale EXCEPT ![i] = FALSE]

-----------------------------------------------------------------------------
(* Storage.                                                                *)

Need(n) == ((n + Align - 1) \div Align) * Align

(* The arena is allocated on first use; when that fails (or ArenaCap is 0) *)
(* the next request tries again.                                           *)
ArenaReady == base' \in (IF base THEN {TRUE} ELSE {FALSE, ArenaCap > 0})

(* Mutant of ArenaFits: the request is not rounded up.                     *)
ArenaFitsUnrounded(n) == base' /\ offset + n <= ArenaCap

ArenaFits(n) == base' /\ offset + Need(n) <= ArenaCap

FromArena(i, n) ==
  /\ ArenaFits(n)
  /\ offset' = offset + Need(n)
  /\ NewTensor(i, "arena", offset, NoBlock, n, TRUE)
  /\ UNCHANGED <<heap, poolVars>>

(* Mutant of FromPool: the block stays in its bucket.                      *)
FromPoolKept(i, n) ==
  /\ ~ArenaFits(n) /\ buckets[n] # <<>>
  /\ NewTensor(i, "heap", 0, buckets[n][Len(buckets[n])], n, TRUE)
  /\ UNCHANGED <<offset, heap, poolVars>>

FromPool(i, n) ==
  /\ ~ArenaFits(n) /\ buckets[n] # <<>>
  /\ NewTensor(i, "heap", 0, buckets[n][Len(buckets[n])], n, TRUE)
  /\ buckets' = [buckets EXCEPT ![n] = SubSeq(@, 1, Len(@) - 1)]
  /\ cached' = cached - n
  /\ UNCHANGED <<offset, heap>>

FromHeap(i, n, b, isF32) ==
  /\ heap[b] = 0
  /\ heap' = [heap EXCEPT ![b] = n]
  /\ NewTensor(i, "heap", 0, b, n, isF32)
  /\ UNCHANGED <<offset, poolVars>>

-----------------------------------------------------------------------------
(* The operations of tensor.h.                                             *)

(* tensor_create_f32, tensor_create_f32_noinit; b is the block the heap    *)
(* would hand out.                                                         *)
CreateF32(i, n, b) ==
  /\ AcquireImpl(i)
  /\ ArenaReady
  /\ \/ FromArena(i, n)
     \/ FromPool(i, n)
     \/ ~ArenaFits(n) /\ buckets[n] = <<>> /\ FromHeap(i, n, b, TRUE)

(* tensor_create_f32_persistent (F32) and the three packed constructors.   *)
CreateOnHeap(i, n, b, isF32) ==
  /\ AcquireImpl(i)
  /\ FromHeap(i, n, b, isF32)
  /\ UNCHANGED base

(* tensor_create_f32_view.                                                 *)
CreateView(i) ==
  /\ AcquireImpl(i)
  /\ NewTensor(i, "view", 0, NoBlock, 0, TRUE)
  /\ UNCHANGED <<arenaVars, heap, poolVars>>

(* The heap has nothing: the object acquired for the tensor goes to the    *)
(* object cache, even if it did not come from there.                       *)
GiveImplBack(i) ==
  \/ implCache = <<>> /\ i \in Impl \ Live /\ ReleaseImpl(i)
  \/ implCache # <<>> /\ UNCHANGED implCache

CreateF32Fails(i, n) ==
  /\ GiveImplBack(i)
  /\ ArenaReady /\ ~ArenaFits(n) /\ buckets[n] = <<>>
  /\ UNCHANGED <<offset, heap, poolVars, tensorVars>>

CreateOnHeapFails(i) ==
  /\ GiveImplBack(i)
  /\ UNCHANGED <<arenaVars, heap, poolVars, tensorVars>>

PoolHasRoom(n) == Len(buckets[n]) < BucketMax /\ cached + n <= PoolMax

(* Mutant of ReleaseBlock: a block the pool has no room for is forgotten.  *)
ReleaseBlockLeaks(b, n) ==
  IF PoolHasRoom(n)
  THEN /\ buckets' = [buckets EXCEPT ![n] = Append(@, b)]
       /\ cached' = cached + n
       /\ UNCHANGED heap
  ELSE UNCHANGED <<heap, poolVars>>

(* release_f32_storage of a block outside the arena.                       *)
ReleaseBlock(b, n) ==
  IF PoolHasRoom(n)
  THEN /\ buckets' = [buckets EXCEPT ![n] = Append(@, b)]
       /\ cached' = cached + n
       /\ UNCHANGED heap
  ELSE /\ heap' = [heap EXCEPT ![b] = 0]
       /\ UNCHANGED poolVars

(* tensor_free.                                                            *)
Free(i) ==
  /\ i \in Live
  /\ CASE kind[i] = "heap" /\ f32[i]  -> ReleaseBlock(block[i], bytes[i])
       [] kind[i] = "heap" /\ ~f32[i] -> /\ heap' = [heap EXCEPT ![block[i]] = 0]
                                         /\ UNCHANGED poolVars
       [] OTHER -> UNCHANGED <<heap, poolVars>>
  /\ NewTensor(i, "none", 0, NoBlock, 0, FALSE)
  /\ ReleaseImpl(i)
  /\ UNCHANGED arenaVars

(* tensor_arena_reset.                                                     *)
ArenaReset ==
  /\ offset' = (IF base THEN 0 ELSE offset)
  /\ stale' = [i \in Impl |-> stale[i] \/ kind[i] = "arena"]
  /\ UNCHANGED <<base, heap, poolVars, implCache, kind, at, block, bytes, f32>>

Next ==
  \/ \E i \in Impl :
       \/ \E n \in Size, b \in Block : CreateF32(i, n, b)
       \/ \E n \in Size, b \in Block, isF32 \in BOOLEAN : CreateOnHeap(i, n, b, isF32)
       \/ \E n \in Size : CreateF32Fails(i, n)
       \/ CreateOnHeapFails(i) \/ CreateView(i) \/ Free(i)
  \/ ArenaReset

Spec == Init /\ [][Next]_vars

-----------------------------------------------------------------------------
(* Properties.                                                             *)

(* Every variable has its type and the arena is not overrun.               *)
TypeOK ==
  /\ base \in BOOLEAN /\ offset \in 0 .. ArenaCap
  /\ heap \in [Block -> Size \cup {0}]
  /\ buckets \in [Size -> Seq(Block)] /\ cached \in Nat
  /\ implCache \in Seq(Impl) /\ Len(implCache) <= ImplMax
  /\ kind \in [Impl -> {"none", "arena", "heap", "view"}]
  /\ at \in [Impl -> 0 .. ArenaCap]
  /\ block \in [Impl -> Block \cup {NoBlock}]
  /\ bytes \in [Impl -> Size \cup {0}]
  /\ f32 \in [Impl -> BOOLEAN] /\ stale \in [Impl -> BOOLEAN]

Disjoint(i, j) ==
  CASE kind[i] = "arena" /\ kind[j] = "arena" ->
         at[i] + bytes[i] <= at[j] \/ at[j] + bytes[j] <= at[i]
    [] kind[i] = "heap" /\ kind[j] = "heap" -> block[i] # block[j]
    [] OTHER -> TRUE

(* Two tensors in use never share a byte, as long as neither outlived an   *)
(* arena reset: no matter how requests, frees, the pool and resets follow  *)
(* each other.                                                             *)
LiveStorageDisjoint ==
  \A i, j \in Live : i # j /\ ~stale[i] /\ ~stale[j] => Disjoint(i, j)

Pooled(b) == {p \in Size \X (1 .. BucketMax) :
                p[2] \in DOMAIN buckets[p[1]] /\ buckets[p[1]][p[2]] = b}
Owners(b) == {i \in Impl : kind[i] = "heap" /\ block[i] = b}

(* Every heap block that is allocated is owned by exactly one tensor or    *)
(* lies in exactly one place of the pool, in the bucket of its size; a     *)
(* free block is nowhere: no leak, no double free, no pooled block in use. *)
BlocksAccounted ==
  \A b \in Block :
    IF heap[b] = 0
    THEN Owners(b) = {} /\ Pooled(b) = {}
    ELSE /\ Cardinality(Owners(b)) + Cardinality(Pooled(b)) = 1
         /\ \A i \in Owners(b) : bytes[i] = heap[b]
         /\ \A p \in Pooled(b) : p[1] = heap[b]

(* An object waiting for reuse is no tensor and waits once.                *)
CachedObjectsAreFree ==
  /\ Cached \cap Live = {}
  /\ Cardinality(Cached) = Len(implCache)
=============================================================================
