-------------------------- MODULE TensorMemProofs --------------------------
(***************************************************************************)
(* Theorems about TensorMem for all objects, blocks, sizes and limits.     *)
(*                                                                         *)
(* LiveStorageDisjoint is not inductive.  Inv says in addition who may own *)
(* what: an object that waits for reuse is no tensor and waits once; a     *)
(* block is allocated as long as a tensor or the pool holds it, and only   *)
(* one of them does; what the arena has handed out since it was emptied    *)
(* lies below its offset.                                                  *)
(***************************************************************************)
EXTENDS TensorMem, FiniteSetTheorems, SequenceTheorems, TLAPS

(* The types the argument needs.                                           *)
Typed ==
  /\ offset \in 0 .. ArenaCap
  /\ heap \in [Block -> Size \cup {0}]
  /\ buckets \in [Size -> Seq(Block)]
  /\ kind \in [Impl -> {"none", "arena", "heap", "view"}]
  /\ at \in [Impl -> 0 .. ArenaCap]
  /\ block \in [Impl -> Block \cup {NoBlock}]
  /\ bytes \in [Impl -> Size \cup {0}]
  /\ DOMAIN stale = Impl

(* The objects that wait for reuse are no tensors and wait once.           *)
ObjectsApart ==
  /\ implCache \in Seq(Impl) /\ Len(implCache) <= ImplMax
  /\ \A p \in 1 .. Len(implCache) : kind[implCache[p]] = "none"
  /\ \A p, q \in 1 .. Len(implCache) : implCache[p] = implCache[q] => p = q

Owns(i, b) == kind[i] = "heap" /\ block[i] = b

(* Tensors own allocated blocks of their size, no two of them the same.    *)
OwnersApart ==
  /\ \A i \in Impl : kind[i] = "heap" =>
       block[i] \in Block /\ bytes[i] \in Size /\ heap[block[i]] = bytes[i]
  /\ \A i, j \in Impl : \A b \in Block : Owns(i, b) /\ Owns(j, b) => i = j

(* The pool holds allocated blocks of the bucket's size that no tensor     *)
(* owns, each in one place.                                                *)
PoolApart ==
  /\ \A n \in Size : Len(buckets[n]) <= BucketMax
  /\ \A n \in Size : \A p \in 1 .. Len(buckets[n]) :
       /\ heap[buckets[n][p]] = n
       /\ \A i \in Impl : ~Owns(i, buckets[n][p])
  /\ \A n \in Size : \A p, q \in 1 .. Len(buckets[n]) :
       buckets[n][p] = buckets[n][q] => p = q

NothingLost ==
  \A b \in Block : heap[b] # 0 =>
    \/ \E i \in Impl : Owns(i, b)
    \/ \E n \in Size : \E p \in 1 .. Len(buckets[n]) : buckets[n][p] = b

InArena(i) == kind[i] = "arena" /\ ~stale[i]

ArenaApart ==
  /\ \A i \in Impl : InArena(i) => bytes[i] \in Size /\ at[i] + bytes[i] <= offset
  /\ \A i, j \in Impl : InArena(i) /\ InArena(j) /\ i # j =>
       at[i] + bytes[i] <= at[j] \/ at[j] + bytes[j] <= at[i]

(* What holds of the storage, whatever happens to the objects.             *)
Storage == Typed /\ OwnersApart /\ PoolApart /\ NothingLost /\ ArenaApart

Inv == ObjectsApart /\ Storage

-----------------------------------------------------------------------------
(* Sizes and offsets are natural numbers.                                  *)
LEMMA Numbers ==
  ASSUME Typed
  PROVE  /\ offset \in Nat
         /\ \A i \in Impl : at[i] \in Nat /\ bytes[i] \in Nat
<1>1. \A n \in Size \cup {0} : n \in Nat
  BY MemAssumption
<1>2. \A n \in 0 .. ArenaCap : n \in Nat
  BY MemAssumption
<1> QED  BY <1>1, <1>2 DEF Typed

(* Rounding up to the alignment never shortens a request.                  *)
LEMMA NeedEnough ==
  ASSUME NEW n \in Size
  PROVE  Need(n) \in Nat /\ Need(n) >= n
<1> DEFINE a == n + Align - 1
<1>1. n \in Nat \ {0} /\ Align \in Nat \ {0} /\ a \in Nat
  BY MemAssumption
<1>2. a = (a \div Align) * Align + (a % Align) /\ a % Align < Align
  BY <1>1
<1>3. a \div Align \in Nat
  BY <1>1
<1>4. (a \div Align) * Align \in Nat
  BY <1>1, <1>3
<1> QED  BY <1>1, <1>2, <1>4 DEF Need


(* What is left of a sequence without its last element.                    *)
LEMMA WithoutLast ==
  ASSUME NEW S, NEW s \in Seq(S), s # <<>>
  PROVE  /\ Len(s) \in Nat \ {0} /\ s[Len(s)] \in S
         /\ SubSeq(s, 1, Len(s) - 1) \in Seq(S)
         /\ Len(SubSeq(s, 1, Len(s) - 1)) = Len(s) - 1
         /\ \A p \in 1 .. Len(s) - 1 : SubSeq(s, 1, Len(s) - 1)[p] = s[p]
<1>1. Len(s) \in Nat \ {0} /\ \A p \in 1 .. Len(s) : s[p] \in S
  OBVIOUS
<1> DEFINE n == Len(s) - 1
<1>2. n \in Nat /\ \A p \in 1 .. n : s[p] \in S
  BY <1>1
<1> HIDE DEF n
<1>3. /\ SubSeq(s, 1, n) \in Seq(S)
      /\ Len(SubSeq(s, 1, n)) = IF 1 <= n THEN n - 1 + 1 ELSE 0
      /\ \A p \in 1 .. n - 1 + 1 : SubSeq(s, 1, n)[p] = s[1 + p - 1]
  BY <1>2, SubSeqProperties
<1>4. Len(SubSeq(s, 1, n)) = n /\ \A p \in 1 .. n : SubSeq(s, 1, n)[p] = s[p]
  BY <1>2, <1>3
<1> QED  BY <1>1, <1>3, <1>4 DEF n

(* The object of a new tensor was no tensor, and no longer waits.          *)
LEMMA ObjectTaken ==
  ASSUME Typed, ObjectsApart, NEW i \in Impl, AcquireImpl(i)
  PROVE  /\ kind[i] = "none"
         /\ implCache' \in Seq(Impl) /\ Len(implCache') <= ImplMax
         /\ \A p \in 1 .. Len(implCache') :
              kind[implCache'[p]] = "none" /\ implCache'[p] # i
         /\ \A p, q \in 1 .. Len(implCache') :
              implCache'[p] = implCache'[q] => p = q
<1>1. CASE implCache # <<>>
  <2> DEFINE k == Len(implCache)
  <2>1. k \in Nat \ {0} /\ i = implCache[k]
        /\ implCache' = SubSeq(implCache, 1, k - 1)
    BY <1>1 DEF AcquireImpl, ObjectsApart
  <2>2. /\ implCache' \in Seq(Impl) /\ Len(implCache') = k - 1
        /\ \A p \in 1 .. k - 1 : implCache'[p] = implCache[p]
    BY <1>1, <2>1, WithoutLast DEF ObjectsApart
  <2> QED  BY <2>1, <2>2, MemAssumption DEF ObjectsApart
<1>2. CASE implCache = <<>>
  BY <1>2 DEF AcquireImpl, ObjectsApart, Live, Typed
<1> QED  BY <1>1, <1>2

(* A new tensor leaves the waiting objects apart.                          *)
LEMMA ObjectsAfterNew ==
  ASSUME Typed, ObjectsApart, NEW i \in Impl, AcquireImpl(i),
         NEW k, NEW a, NEW b, NEW n, NEW isF32, NewTensor(i, k, a, b, n, isF32)
  PROVE  ObjectsApart'
<1>1. \A p \in 1 .. Len(implCache') : kind'[implCache'[p]] = "none"
  BY ObjectTaken DEF NewTensor, Typed
<1> QED  BY <1>1, ObjectTaken DEF ObjectsApart

-----------------------------------------------------------------------------
(* Steps that change no block.                                             *)
LEMMA SameBlocks ==
  ASSUME Storage, UNCHANGED <<heap, buckets>>,
         \A j \in Impl :
           /\ kind'[j] = "heap" <=> kind[j] = "heap"
           /\ kind[j] = "heap" => block'[j] = block[j] /\ bytes'[j] = bytes[j]
  PROVE  OwnersApart' /\ PoolApart' /\ NothingLost'
<1>1. \A m \in Size : \A p \in 1 .. Len(buckets[m]) : buckets[m][p] \in Block
  BY DEF Storage, Typed
<1>2. OwnersApart'
  BY DEF Storage, OwnersApart, Owns
<1>3. PoolApart'
  BY <1>1 DEF Storage, PoolApart, Owns
<1>4. NothingLost'
  BY DEF Storage, NothingLost, Owns
<1> QED  BY <1>2, <1>3, <1>4

(* Steps that add nothing to the arena.                                    *)
LEMMA SameArena ==
  ASSUME Storage, offset' = offset,
         \A j \in Impl : InArena(j)' =>
           InArena(j) /\ at'[j] = at[j] /\ bytes'[j] = bytes[j]
  PROVE  ArenaApart'
  BY DEF Storage, ArenaApart

(* arena_acquire: the new range lies above all ranges in use.              *)
LEMMA ArenaStep ==
  ASSUME Storage, NEW i \in Impl, NEW n \in Size, kind[i] = "none",
         FromArena(i, n)
  PROVE  Storage'
<1> USE DEF FromArena, NewTensor, poolVars
<1>1. /\ Need(n) \in Nat /\ Need(n) >= n /\ n \in Nat \ {0}
      /\ offset + Need(n) <= ArenaCap
  BY NeedEnough, MemAssumption DEF ArenaFits
<1>2. Typed'
  <2>2. offset \in 0 .. ArenaCap /\ offset' \in 0 .. ArenaCap
    BY <1>1, MemAssumption DEF Storage, Typed
  <2>3. at' \in [Impl -> 0 .. ArenaCap] /\ bytes' \in [Impl -> Size \cup {0}]
    BY <2>2 DEF Storage, Typed
  <2>4. /\ kind' \in [Impl -> {"none", "arena", "heap", "view"}]
        /\ block' \in [Impl -> Block \cup {NoBlock}]
        /\ DOMAIN stale' = Impl
    BY DEF Storage, Typed
  <2> QED  BY <2>2, <2>3, <2>4 DEF Storage, Typed
<1>5. OwnersApart' /\ PoolApart' /\ NothingLost'
  BY SameBlocks DEF Storage, Typed
<1>6. ArenaApart'
  <2>1. \A j \in Impl : InArena(j)' <=> j = i \/ InArena(j)
    BY DEF Storage, Typed, InArena
  <2>2. at'[i] = offset /\ bytes'[i] = n /\ offset' = offset + Need(n)
    BY DEF Storage, Typed
  <2>3. \A j \in Impl : j # i => at'[j] = at[j] /\ bytes'[j] = bytes[j]
    BY DEF Storage, Typed
  <2>4. \A j \in Impl : at[j] \in Nat /\ bytes[j] \in Nat /\ offset \in Nat
    BY Numbers DEF Storage
  <2>5. \A j \in Impl : InArena(j)' =>
          bytes'[j] \in Size /\ at'[j] + bytes'[j] <= offset'
    BY <1>1, <2>1, <2>2, <2>3, <2>4 DEF Storage, ArenaApart
  <2>6. \A j, k \in Impl : InArena(j)' /\ InArena(k)' /\ j # k =>
          at'[j] + bytes'[j] <= at'[k] \/ at'[k] + bytes'[k] <= at'[j]
    BY <1>1, <2>1, <2>2, <2>3, <2>4 DEF Storage, ArenaApart
  <2> QED  BY <2>5, <2>6 DEF ArenaApart
<1> QED  BY <1>2, <1>5, <1>6 DEF Storage

(* posix_memalign: a free block was nobody's.                              *)
LEMMA HeapStep ==
  ASSUME Storage, NEW i \in Impl, NEW n \in Size, NEW b \in Block,
         NEW isF32 \in BOOLEAN, kind[i] = "none",
         FromHeap(i, n, b, isF32)
  PROVE  Storage'
<1> USE DEF FromHeap, NewTensor, poolVars
<1>1. n # 0 /\ heap[b] = 0 /\ 0 \notin Size
  BY MemAssumption
<1>2. Typed'
  <2>1. /\ heap' \in [Block -> Size \cup {0}]
        /\ at' \in [Impl -> 0 .. ArenaCap] /\ bytes' \in [Impl -> Size \cup {0}]
    BY MemAssumption DEF Storage, Typed
  <2>2. /\ kind' \in [Impl -> {"none", "arena", "heap", "view"}]
        /\ block' \in [Impl -> Block \cup {NoBlock}]
        /\ DOMAIN stale' = Impl
    BY DEF Storage, Typed
  <2> QED  BY <2>1, <2>2 DEF Storage, Typed
<1>3. \A j \in Impl : \A c \in Block : Owns(j, c)' <=> IF j = i THEN c = b ELSE Owns(j, c)
  BY DEF Storage, Typed, Owns
<1>4. \A j \in Impl : ~Owns(j, b)
  BY <1>1 DEF Storage, OwnersApart, Owns
<1>5. OwnersApart'
  <2>1. \A j \in Impl : kind'[j] = "heap" =>
          block'[j] \in Block /\ bytes'[j] \in Size /\ heap'[block'[j]] = bytes'[j]
    BY <1>1, <1>4 DEF Storage, Typed, OwnersApart, Owns
  <2>2. \A j, k \in Impl : \A c \in Block : Owns(j, c)' /\ Owns(k, c)' => j = k
    BY <1>3, <1>4 DEF Storage, OwnersApart
  <2> QED  BY <2>1, <2>2 DEF OwnersApart
<1>6. \A m \in Size : \A p \in 1 .. Len(buckets[m]) :
        buckets[m][p] \in Block /\ buckets[m][p] # b
  BY <1>1 DEF Storage, Typed, PoolApart
<1>7. PoolApart'
  <2>1. \A m \in Size : \A p \in 1 .. Len(buckets[m]) :
          heap'[buckets[m][p]] = m /\ \A j \in Impl : ~Owns(j, buckets[m][p])'
    BY <1>3, <1>6 DEF Storage, Typed, PoolApart
  <2> QED  BY <2>1 DEF Storage, PoolApart, Owns
<1>8. NothingLost'
  <2> SUFFICES ASSUME NEW c \in Block, heap[c] # 0, c # b
               PROVE  \/ \E j \in Impl : Owns(j, c)'
                      \/ \E m \in Size : \E p \in 1 .. Len(buckets[m]) :
                           buckets[m][p] = c
    <3>1. Owns(i, b)'
      BY DEF Storage, Typed, Owns
    <3>2. \A c \in Block : heap'[c] # 0 /\ c # b => heap[c] # 0
      BY DEF Storage, Typed
    <3> QED  BY <3>1, <3>2 DEF NothingLost
  <2>1. ASSUME NEW j \in Impl, Owns(j, c)
        PROVE  Owns(j, c)'
    BY <1>3, <2>1 DEF Owns
  <2> QED  BY <2>1 DEF Storage, NothingLost
<1>9. ArenaApart'
  BY SameArena DEF Storage, Typed, InArena
<1> QED  BY <1>2, <1>5, <1>7, <1>8, <1>9 DEF Storage

(* acquire_f32_storage from a bucket: the block leaves the pool.           *)
LEMMA PoolStep ==
  ASSUME Storage, NEW i \in Impl, NEW n \in Size, kind[i] = "none",
         FromPool(i, n)
  PROVE  Storage'
<1> DEFINE q == Len(buckets[n])
           b == buckets[n][q]
<1> USE DEF FromPool, NewTensor
<1>1. /\ buckets[n] \in Seq(Block) /\ buckets[n] # <<>>
      /\ q \in Nat \ {0} /\ b \in Block
      /\ buckets'[n] = SubSeq(buckets[n], 1, q - 1)
  BY WithoutLast DEF Storage, Typed
<1>2. /\ buckets'[n] \in Seq(Block) /\ Len(buckets'[n]) = q - 1
      /\ \A p \in 1 .. q - 1 : buckets'[n][p] = buckets[n][p]
  BY <1>1, WithoutLast
<1>3. \A m \in Size : m # n => buckets'[m] = buckets[m]
  BY DEF Storage, Typed
<1>4. /\ heap[b] = n /\ n # 0 /\ heap' = heap
      /\ \A j \in Impl : ~Owns(j, b)
  BY <1>1, MemAssumption DEF Storage, PoolApart
<1>5. /\ kind' = [kind EXCEPT ![i] = "heap"] /\ block' = [block EXCEPT ![i] = b]
      /\ bytes' = [bytes EXCEPT ![i] = n] /\ at' = [at EXCEPT ![i] = 0]
      /\ stale' = [stale EXCEPT ![i] = FALSE] /\ offset' = offset
  OBVIOUS
<1>6. buckets' = [buckets EXCEPT ![n] = buckets'[n]]
  BY DEF Storage, Typed
<1> HIDE DEF q, b, FromPool, NewTensor
<1>7. Typed'
  <2>1. buckets' \in [Size -> Seq(Block)]
    BY <1>2, <1>6 DEF Storage, Typed
  <2>2. at' \in [Impl -> 0 .. ArenaCap] /\ bytes' \in [Impl -> Size \cup {0}]
    BY <1>5, MemAssumption DEF Storage, Typed
  <2> QED  BY <1>1, <1>4, <1>5, <2>1, <2>2 DEF Storage, Typed
<1>8. \A j \in Impl : \A c \in Block :
        Owns(j, c)' <=> IF j = i THEN c = b ELSE Owns(j, c)
  BY <1>1, <1>5 DEF Storage, Typed, Owns
<1>9. OwnersApart'
  <2>1. \A j \in Impl : kind'[j] = "heap" =>
          block'[j] \in Block /\ bytes'[j] \in Size /\ heap'[block'[j]] = bytes'[j]
    BY <1>1, <1>4, <1>5 DEF Storage, Typed, OwnersApart
  <2>2. \A j, k \in Impl : \A c \in Block : Owns(j, c)' /\ Owns(k, c)' => j = k
    BY <1>4, <1>8 DEF Storage, OwnersApart
  <2> QED  BY <2>1, <2>2 DEF OwnersApart
<1>10. \A m \in Size : \A p \in 1 .. Len(buckets'[m]) :
         /\ p \in 1 .. Len(buckets[m]) /\ buckets'[m][p] = buckets[m][p]
         /\ buckets[m][p] # b /\ buckets[m][p] \in Block
  <2>1. ASSUME NEW p \in 1 .. q - 1 PROVE p \in 1 .. q /\ q \in 1 .. q /\ p # q
    BY <1>1
  <2>2. ASSUME NEW p \in 1 .. q - 1
        PROVE  /\ p \in 1 .. Len(buckets[n]) /\ buckets'[n][p] = buckets[n][p]
               /\ buckets[n][p] # b /\ buckets[n][p] \in Block
    <3>1. \A r, t \in 1 .. q : buckets[n][r] = buckets[n][t] => r = t
      BY DEF Storage, PoolApart, q
    <3>2. buckets[n][p] # b /\ p \in 1 .. Len(buckets[n])
      BY <2>1, <3>1 DEF q, b
    <3> QED  BY <1>1, <1>2, <3>2
  <2>3. ASSUME NEW m \in Size, m # n, NEW p \in 1 .. Len(buckets[m])
        PROVE  buckets[m][p] # b /\ buckets[m][p] \in Block
    BY <1>4, <2>3 DEF Storage, Typed, PoolApart
  <2> QED  BY <1>2, <1>3, <2>2, <2>3
<1>11. PoolApart'
  <2>1. \A m \in Size : Len(buckets'[m]) <= BucketMax
    <3>1. q <= BucketMax /\ BucketMax \in Nat
      BY MemAssumption DEF Storage, PoolApart, q
    <3>2. Len(buckets'[n]) <= BucketMax
      BY <1>1, <1>2, <3>1
    <3> QED  BY <1>3, <3>2 DEF Storage, PoolApart
  <2>2. \A m \in Size : \A p \in 1 .. Len(buckets'[m]) :
          /\ heap'[buckets'[m][p]] = m
          /\ \A j \in Impl : ~(kind'[j] = "heap" /\ block'[j] = buckets'[m][p])
    BY <1>4, <1>8, <1>10 DEF Storage, PoolApart, Owns
  <2>3. \A m \in Size : \A p, r \in 1 .. Len(buckets'[m]) :
          buckets'[m][p] = buckets'[m][r] => p = r
    BY <1>10 DEF Storage, PoolApart
  <2> QED  BY <2>1, <2>2, <2>3 DEF PoolApart, Owns
<1>12. NothingLost'
  <2> SUFFICES ASSUME NEW c \in Block, heap[c] # 0, c # b
               PROVE  \/ \E j \in Impl : Owns(j, c)'
                      \/ \E m \in Size : \E p \in 1 .. Len(buckets'[m]) :
                           buckets'[m][p] = c
    BY <1>4, <1>8 DEF NothingLost, Owns
  <2>1. CASE \E j \in Impl : Owns(j, c)
    <3>1. PICK j \in Impl : Owns(j, c)
      BY <2>1
    <3>2. j # i
      BY <3>1, SMT DEF Owns
    <3> QED  BY <1>8, <3>1, <3>2
  <2>2. ASSUME NEW m \in Size, NEW p \in 1 .. Len(buckets[m]), buckets[m][p] = c
        PROVE  \E r \in 1 .. Len(buckets'[m]) : buckets'[m][r] = c
    <3>1. CASE m # n
      BY <1>3, <2>2, <3>1
    <3>2. CASE m = n
      <4>1. p \in 1 .. q - 1
        BY <1>1, <2>2, <3>2 DEF q, b
      <4> QED  BY <1>2, <2>2, <3>2, <4>1
    <3> QED  BY <3>1, <3>2
  <2> QED  BY <2>1, <2>2 DEF Storage, NothingLost
<1>13. ArenaApart'
  BY <1>5, SameArena DEF Storage, Typed, InArena
<1> QED  BY <1>7, <1>9, <1>11, <1>12, <1>13 DEF Storage

(* tensor_create_f32_view: a view owns nothing.                            *)
LEMMA ViewStep ==
  ASSUME Storage, NEW i \in Impl, kind[i] = "none", CreateView(i)
  PROVE  Storage'
<1> USE DEF CreateView, NewTensor, poolVars, arenaVars
<1>1. Typed'
  BY MemAssumption DEF Storage, Typed
<1>2. OwnersApart' /\ PoolApart' /\ NothingLost'
  BY SameBlocks DEF Storage, Typed
<1>3. ArenaApart'
  BY SameArena DEF Storage, Typed, InArena
<1> QED  BY <1>1, <1>2, <1>3 DEF Storage

-----------------------------------------------------------------------------
(* tensor_free: the block of an F32 tensor goes to the pool or to the      *)
(* heap, the block of another to the heap; a view and an arena tensor have *)
(* none.                                                                   *)

(* The block goes into the bucket of its size.                             *)
LEMMA FreeToPool ==
  ASSUME Storage, NEW i \in Impl, kind[i] = "heap", PoolHasRoom(bytes[i]),
         NewTensor(i, "none", 0, NoBlock, 0, FALSE), UNCHANGED <<offset, heap>>,
         buckets' = [buckets EXCEPT ![bytes[i]] = Append(@, block[i])]
  PROVE  Storage'
<1> DEFINE n == bytes[i]
           b == block[i]
           q == Len(buckets[n])
<1>1. /\ n \in Size /\ b \in Block /\ heap[b] = n /\ Owns(i, b)
      /\ buckets[n] \in Seq(Block) /\ q \in Nat /\ q < BucketMax
  BY DEF Storage, Typed, OwnersApart, Owns, PoolHasRoom
<1>2. /\ buckets'[n] \in Seq(Block) /\ Len(buckets'[n]) = q + 1
      /\ buckets'[n][q + 1] = b
      /\ \A p \in 1 .. q : buckets'[n][p] = buckets[n][p]
      /\ \A m \in Size : m # n => buckets'[m] = buckets[m]
      /\ buckets' = [buckets EXCEPT ![n] = buckets'[n]]
  BY <1>1, AppendProperties DEF Storage, Typed
<1>3. /\ kind' = [kind EXCEPT ![i] = "none"] /\ block' = [block EXCEPT ![i] = NoBlock]
      /\ bytes' = [bytes EXCEPT ![i] = 0] /\ at' = [at EXCEPT ![i] = 0]
      /\ stale' = [stale EXCEPT ![i] = FALSE] /\ offset' = offset /\ heap' = heap
  BY DEF NewTensor
<1>4. buckets' \in [Size -> Seq(Block)]
  BY <1>2 DEF Storage, Typed
<1> HIDE DEF n, b, q
<1>5. Typed'
  <2>1. at' \in [Impl -> 0 .. ArenaCap] /\ bytes' \in [Impl -> Size \cup {0}]
    BY <1>3, MemAssumption DEF Storage, Typed
  <2> QED  BY <1>3, <1>4, <2>1 DEF Storage, Typed
<1>6. \A j \in Impl : \A c \in Block : Owns(j, c)' <=> j # i /\ Owns(j, c)
  BY <1>3 DEF Storage, Typed, Owns
<1>7. OwnersApart'
  BY <1>3, <1>6 DEF Storage, Typed, OwnersApart
<1>8. \A m \in Size : \A p \in 1 .. Len(buckets[m]) :
        buckets[m][p] # b /\ buckets[m][p] \in Block
  BY <1>1 DEF Storage, Typed, PoolApart
<1>9. \A m \in Size : \A p \in 1 .. Len(buckets'[m]) :
        \/ p \in 1 .. Len(buckets[m]) /\ buckets'[m][p] = buckets[m][p]
        \/ m = n /\ p = q + 1 /\ buckets'[m][p] = b
  BY <1>1, <1>2 DEF q
<1>10. PoolApart'
  <2>1. \A m \in Size : Len(buckets'[m]) <= BucketMax
    BY <1>1, <1>2, MemAssumption DEF Storage, PoolApart
  <2>2. \A m \in Size : \A p \in 1 .. Len(buckets'[m]) :
          /\ heap'[buckets'[m][p]] = m
          /\ \A j \in Impl : ~(kind'[j] = "heap" /\ block'[j] = buckets'[m][p])
    <3> SUFFICES ASSUME NEW m \in Size, NEW p \in 1 .. Len(buckets'[m])
                 PROVE  /\ heap'[buckets'[m][p]] = m
                        /\ \A j \in Impl :
                             ~(kind'[j] = "heap" /\ block'[j] = buckets'[m][p])
      OBVIOUS
    <3>1. CASE p \in 1 .. Len(buckets[m]) /\ buckets'[m][p] = buckets[m][p]
      BY <1>3, <1>6, <1>8, <3>1 DEF Storage, PoolApart, Owns
    <3>2. CASE m = n /\ buckets'[m][p] = b
      BY <1>1, <1>3, <1>6, <3>2 DEF Storage, OwnersApart, Owns
    <3> QED  BY <1>9, <3>1, <3>2
  <2>3. \A m \in Size : \A p, r \in 1 .. Len(buckets'[m]) :
          buckets'[m][p] = buckets'[m][r] => p = r
    BY <1>8, <1>9 DEF Storage, PoolApart
  <2> QED  BY <2>1, <2>2, <2>3 DEF PoolApart, Owns
<1>11. NothingLost'
  <2> SUFFICES ASSUME NEW c \in Block, heap[c] # 0
               PROVE  \/ \E j \in Impl : Owns(j, c)'
                      \/ \E m \in Size : \E p \in 1 .. Len(buckets'[m]) :
                           buckets'[m][p] = c
    BY <1>3 DEF NothingLost
  <2>1. CASE c = b
    <3>1. q + 1 \in 1 .. Len(buckets'[n])
      BY <1>1, <1>2
    <3> QED  BY <1>1, <1>2, <2>1, <3>1
  <2>2. ASSUME NEW j \in Impl, Owns(j, c), c # b
        PROVE  Owns(j, c)'
    BY <1>6, <2>2 DEF Owns, b
  <2>3. ASSUME NEW m \in Size, NEW p \in 1 .. Len(buckets[m]), buckets[m][p] = c
        PROVE  \E r \in 1 .. Len(buckets'[m]) : buckets'[m][r] = c
    <3>1. p \in 1 .. Len(buckets'[m]) /\ buckets'[m][p] = c
      BY <1>1, <1>2, <2>3 DEF q
    <3> QED  BY <3>1
  <2> QED  BY <2>1, <2>2, <2>3 DEF Storage, NothingLost
<1>12. ArenaApart'
  BY <1>3, SameArena DEF Storage, Typed, InArena
<1> QED  BY <1>5, <1>7, <1>10, <1>11, <1>12 DEF Storage

(* The block goes back to the heap.                                        *)
LEMMA FreeToHeap ==
  ASSUME Storage, NEW i \in Impl, kind[i] = "heap",
         NewTensor(i, "none", 0, NoBlock, 0, FALSE), UNCHANGED <<offset, buckets>>,
         heap' = [heap EXCEPT ![block[i]] = 0]
  PROVE  Storage'
<1> DEFINE b == block[i]
<1>1. b \in Block /\ Owns(i, b) /\ heap' = [heap EXCEPT ![b] = 0]
  BY DEF Storage, OwnersApart, Owns
<1>2. /\ kind' = [kind EXCEPT ![i] = "none"] /\ block' = [block EXCEPT ![i] = NoBlock]
      /\ bytes' = [bytes EXCEPT ![i] = 0] /\ at' = [at EXCEPT ![i] = 0]
      /\ stale' = [stale EXCEPT ![i] = FALSE]
  BY DEF NewTensor
<1> HIDE DEF b
<1>3. Typed'
  <2>1. at' \in [Impl -> 0 .. ArenaCap] /\ bytes' \in [Impl -> Size \cup {0}]
    BY <1>2, MemAssumption DEF Storage, Typed
  <2> QED  BY <1>1, <1>2, <2>1 DEF Storage, Typed
<1>4. \A j \in Impl : \A c \in Block : Owns(j, c)' <=> j # i /\ Owns(j, c)
  BY <1>2 DEF Storage, Typed, Owns
<1>5. OwnersApart'
  <2>1. \A j \in Impl : kind'[j] = "heap" =>
          block'[j] \in Block /\ bytes'[j] \in Size /\ heap'[block'[j]] = bytes'[j]
    BY <1>1, <1>2, <1>4 DEF Storage, Typed, OwnersApart, Owns
  <2>2. \A j, k \in Impl : \A c \in Block : Owns(j, c)' /\ Owns(k, c)' => j = k
    BY <1>4 DEF Storage, OwnersApart
  <2> QED  BY <2>1, <2>2 DEF OwnersApart
<1>6. \A m \in Size : \A p \in 1 .. Len(buckets[m]) :
        buckets[m][p] # b /\ buckets[m][p] \in Block
  BY <1>1 DEF Storage, Typed, PoolApart
<1>7. PoolApart'
  <2>1. \A m \in Size : \A p \in 1 .. Len(buckets[m]) :
          /\ heap'[buckets[m][p]] = m
          /\ \A j \in Impl : ~(kind'[j] = "heap" /\ block'[j] = buckets[m][p])
    <3> SUFFICES ASSUME NEW m \in Size, NEW p \in 1 .. Len(buckets[m])
                 PROVE  /\ heap'[buckets[m][p]] = m
                        /\ \A j \in Impl :
                             ~(kind'[j] = "heap" /\ block'[j] = buckets[m][p])
      OBVIOUS
    <3>1. heap[buckets[m][p]] = m /\ \A j \in Impl : ~Owns(j, buckets[m][p])
      BY DEF Storage, PoolApart
    <3>2. heap'[buckets[m][p]] = heap[buckets[m][p]]
      BY <1>1, <1>6 DEF Storage, Typed
    <3> QED  BY <1>4, <1>6, <3>1, <3>2 DEF Owns
  <2> QED  BY <2>1 DEF Storage, PoolApart, Owns
<1>8. NothingLost'
  <2> SUFFICES ASSUME NEW c \in Block, heap[c] # 0, c # b
               PROVE  \/ \E j \in Impl : Owns(j, c)'
                      \/ \E m \in Size : \E p \in 1 .. Len(buckets[m]) :
                           buckets[m][p] = c
    BY <1>1 DEF Storage, Typed, NothingLost
  <2>1. ASSUME NEW j \in Impl, Owns(j, c)
        PROVE  Owns(j, c)'
    BY <1>4, <2>1 DEF Owns, b
  <2> QED  BY <2>1 DEF Storage, NothingLost
<1>9. ArenaApart'
  BY <1>2, SameArena DEF Storage, Typed, InArena
<1> QED  BY <1>3, <1>5, <1>7, <1>8, <1>9 DEF Storage

(* An arena tensor or a view gives nothing back.                           *)
LEMMA FreeNothing ==
  ASSUME Storage, NEW i \in Impl, kind[i] # "heap",
         NewTensor(i, "none", 0, NoBlock, 0, FALSE), UNCHANGED <<offset, heap, buckets>>
  PROVE  Storage'
<1>1. Typed'
  BY MemAssumption DEF Storage, Typed, NewTensor
<1>2. OwnersApart' /\ PoolApart' /\ NothingLost'
  BY SameBlocks DEF Storage, Typed, NewTensor
<1>3. ArenaApart'
  BY SameArena DEF Storage, Typed, InArena, NewTensor
<1> QED  BY <1>1, <1>2, <1>3 DEF Storage

(* release_impl: an object that did not wait now may.                      *)
LEMMA ObjectAdded ==
  ASSUME Typed, ObjectsApart, NEW i \in Impl, ReleaseImpl(i),
         \A p \in 1 .. Len(implCache) : implCache[p] # i,
         kind'[i] = "none", \A j \in Impl : j # i => kind'[j] = kind[j]
  PROVE  ObjectsApart'
<1>1. CASE Len(implCache) >= ImplMax
  <2>1. UNCHANGED implCache
    BY <1>1 DEF ReleaseImpl
  <2>2. \A p \in 1 .. Len(implCache) : implCache[p] \in Impl
    BY DEF ObjectsApart
  <2> QED  BY <2>1, <2>2 DEF ObjectsApart
<1>2. CASE Len(implCache) < ImplMax
  <2>1. /\ implCache' \in Seq(Impl) /\ Len(implCache') = Len(implCache) + 1
        /\ \A p \in 1 .. Len(implCache) : implCache'[p] = implCache[p]
        /\ implCache'[Len(implCache) + 1] = i
    <3>1. implCache \in Seq(Impl) /\ ~(Len(implCache) >= ImplMax)
      BY <1>2, MemAssumption DEF ObjectsApart
    <3>2. implCache' = Append(implCache, i)
      BY <3>1 DEF ReleaseImpl
    <3> QED  BY <3>1, <3>2, AppendProperties
  <2>2. Len(implCache) \in Nat /\ \A p \in 1 .. Len(implCache) : implCache[p] \in Impl
    BY DEF ObjectsApart
  <2>3. \A p \in 1 .. Len(implCache') : p \in 1 .. Len(implCache) \/ p = Len(implCache) + 1
    BY <2>1, <2>2
  <2> QED  BY <1>2, <2>1, <2>2, <2>3, MemAssumption DEF ObjectsApart
<1>3. Len(implCache) \in Nat /\ ImplMax \in Nat
  BY MemAssumption DEF ObjectsApart
<1> QED  BY <1>1, <1>2, <1>3

-----------------------------------------------------------------------------
(* The invariant is inductive.                                             *)

(* The invariant holds before the first tensor.                            *)
LEMMA InvInit == Init => Inv
<1> SUFFICES ASSUME Init PROVE Inv
  OBVIOUS
<1>1. Typed
  BY MemAssumption DEF Init, Typed
<1>2. ObjectsApart
  BY MemAssumption DEF Init, ObjectsApart
<1>3. OwnersApart /\ PoolApart /\ NothingLost
  BY MemAssumption DEF Init, OwnersApart, PoolApart, NothingLost, Owns
<1>4. ArenaApart
  BY DEF Init, ArenaApart, InArena
<1> QED  BY <1>1, <1>2, <1>3, <1>4 DEF Inv, Storage

(* tensor_create_f32, whichever of the three ways it takes.                *)
LEMMA CreateF32Step ==
  ASSUME Inv, NEW i \in Impl, NEW n \in Size, NEW b \in Block, CreateF32(i, n, b)
  PROVE  Inv'
<1>1. AcquireImpl(i) /\ kind[i] = "none"
  BY ObjectTaken DEF CreateF32, Inv, Storage
<1>2. CASE FromArena(i, n)
  BY <1>1, <1>2, ArenaStep, ObjectsAfterNew DEF FromArena, Inv, Storage
<1>3. CASE FromPool(i, n)
  BY <1>1, <1>3, PoolStep, ObjectsAfterNew DEF FromPool, Inv, Storage
<1>4. CASE FromHeap(i, n, b, TRUE)
  BY <1>1, <1>4, HeapStep, ObjectsAfterNew DEF FromHeap, Inv, Storage
<1> QED  BY <1>2, <1>3, <1>4 DEF CreateF32

(* A constructor that found no memory.                                     *)
LEMMA FailStep ==
  ASSUME Inv, NEW i \in Impl, GiveImplBack(i),
         UNCHANGED <<offset, heap, poolVars, tensorVars>>
  PROVE  Inv'
<1>1. ObjectsApart'
  <2>1. CASE implCache = <<>> /\ i \in Impl \ Live /\ ReleaseImpl(i)
    BY <2>1, ObjectAdded DEF Inv, Storage, Live, tensorVars
  <2>2. CASE UNCHANGED implCache
    BY <2>2 DEF Inv, ObjectsApart, tensorVars
  <2> QED  BY <2>1, <2>2 DEF GiveImplBack
<1>2. Typed'
  BY DEF Inv, Storage, Typed, poolVars, tensorVars
<1>3. OwnersApart' /\ PoolApart' /\ NothingLost'
  BY SameBlocks DEF Inv, poolVars, tensorVars
<1>4. ArenaApart'
  BY SameArena DEF Inv, InArena, tensorVars
<1> QED  BY <1>1, <1>2, <1>3, <1>4 DEF Inv, Storage

(* tensor_free.                                                            *)
LEMMA FreeStep ==
  ASSUME Inv, NEW i \in Impl, Free(i)
  PROVE  Inv'
<1>1. /\ kind[i] # "none" /\ NewTensor(i, "none", 0, NoBlock, 0, FALSE)
      /\ offset' = offset /\ ReleaseImpl(i)
  BY DEF Free, Live, arenaVars
<1>2. ObjectsApart'
  BY <1>1, ObjectAdded DEF Inv, Storage, Typed, ObjectsApart, NewTensor
<1>3. CASE kind[i] = "heap"
  <2>1. \/ ReleaseBlock(block[i], bytes[i])
        \/ heap' = [heap EXCEPT ![block[i]] = 0] /\ UNCHANGED poolVars
    BY <1>3 DEF Free
  <2>2. CASE PoolHasRoom(bytes[i]) /\ ReleaseBlock(block[i], bytes[i])
    BY <1>1, <1>2, <1>3, <2>2, FreeToPool DEF Inv, ReleaseBlock
  <2>3. CASE heap' = [heap EXCEPT ![block[i]] = 0] /\ UNCHANGED poolVars
    BY <1>1, <1>2, <1>3, <2>3, FreeToHeap DEF Inv, poolVars
  <2> QED  BY <2>1, <2>2, <2>3 DEF ReleaseBlock
<1>4. CASE kind[i] # "heap"
  <2>1. UNCHANGED <<heap, poolVars>>
    BY <1>4 DEF Free
  <2> QED  BY <1>1, <1>2, <1>4, <2>1, FreeNothing DEF Inv, poolVars
<1> QED  BY <1>3, <1>4

(* tensor_arena_reset: what the arena handed out is stale from here on.    *)
LEMMA ResetStep ==
  ASSUME Inv, ArenaReset
  PROVE  Inv'
<1>1. offset' \in 0 .. ArenaCap /\ DOMAIN stale' = Impl
  BY MemAssumption DEF Inv, Storage, Typed, ArenaReset
<1>2. \A j \in Impl : ~InArena(j)'
  BY Zenon DEF ArenaReset, InArena
<1>3. Typed' /\ ObjectsApart'
  BY <1>1 DEF Inv, Storage, Typed, ObjectsApart, ArenaReset, poolVars
<1>4. OwnersApart' /\ PoolApart' /\ NothingLost'
  BY SameBlocks DEF Inv, ArenaReset, poolVars
<1>5. ArenaApart'
  BY <1>2 DEF ArenaApart
<1> QED  BY <1>3, <1>4, <1>5 DEF Inv, Storage

(* Every step preserves the invariant.                                     *)
LEMMA InvStep == Inv /\ [Next]_vars => Inv'
<1> SUFFICES ASSUME Inv, [Next]_vars PROVE Inv'
  OBVIOUS
<1>1. ASSUME NEW i \in Impl, NEW n \in Size, NEW b \in Block, CreateF32(i, n, b)
      PROVE  Inv'
  BY <1>1, CreateF32Step
<1>2. ASSUME NEW i \in Impl, NEW n \in Size, NEW b \in Block, NEW isF32 \in BOOLEAN,
             CreateOnHeap(i, n, b, isF32)
      PROVE  Inv'
  <2>1. AcquireImpl(i) /\ kind[i] = "none" /\ FromHeap(i, n, b, isF32)
    BY <1>2, ObjectTaken DEF CreateOnHeap, Inv, Storage
  <2> QED  BY <2>1, HeapStep, ObjectsAfterNew DEF FromHeap, Inv, Storage
<1>3. ASSUME NEW i \in Impl, NEW n \in Size, CreateF32Fails(i, n)
      PROVE  Inv'
  BY <1>3, FailStep DEF CreateF32Fails
<1>4. ASSUME NEW i \in Impl, CreateOnHeapFails(i)
      PROVE  Inv'
  BY <1>4, FailStep DEF CreateOnHeapFails, arenaVars
<1>5. ASSUME NEW i \in Impl, CreateView(i)
      PROVE  Inv'
  <2>1. AcquireImpl(i) /\ kind[i] = "none" /\ NewTensor(i, "view", 0, NoBlock, 0, TRUE)
    BY <1>5, ObjectTaken DEF CreateView, Inv, Storage
  <2> QED  BY <1>5, <2>1, ViewStep, ObjectsAfterNew DEF Inv, Storage
<1>6. ASSUME NEW i \in Impl, Free(i)
      PROVE  Inv'
  BY <1>6, FreeStep
<1>7. CASE ArenaReset
  BY <1>7, ResetStep
<1>8. CASE UNCHANGED vars
  <2>1. ObjectsApart' /\ Typed'
    BY <1>8 DEF Inv, Storage, Typed, ObjectsApart, vars, arenaVars, poolVars, tensorVars
  <2>2. OwnersApart' /\ PoolApart' /\ NothingLost'
    BY <1>8, SameBlocks DEF Inv, vars, poolVars, tensorVars
  <2>3. ArenaApart'
    BY <1>8, SameArena DEF Inv, InArena, vars, arenaVars, tensorVars
  <2> QED  BY <2>1, <2>2, <2>3 DEF Inv, Storage
<1> QED  BY <1>1, <1>2, <1>3, <1>4, <1>5, <1>6, <1>7, <1>8 DEF Next

(* The invariant holds in every reachable state.                           *)
LEMMA InvHolds == Spec => []Inv
  BY InvInit, InvStep, PTL DEF Spec

-----------------------------------------------------------------------------
(* Two tensors in use never share a byte, as long as neither outlived an   *)
(* arena reset: for every sequence of tensor_create_*, tensor_free and     *)
(* tensor_arena_reset calls of a thread, every arena and pool size.        *)
THEOREM StorageDisjoint == Spec => []LiveStorageDisjoint
<1>1. Inv => LiveStorageDisjoint
  <2> SUFFICES ASSUME Inv, NEW i \in Live, NEW j \in Live, i # j, ~stale[i], ~stale[j]
               PROVE  Disjoint(i, j)
    BY DEF LiveStorageDisjoint
  <2>1. CASE kind[i] = "arena" /\ kind[j] = "arena"
    BY <2>1 DEF Inv, Storage, ArenaApart, InArena, Disjoint, Live
  <2>2. CASE kind[i] = "heap" /\ kind[j] = "heap"
    BY <2>2 DEF Inv, Storage, OwnersApart, Owns, Disjoint, Live
  <2> QED  BY <2>1, <2>2 DEF Disjoint
<1> QED  BY <1>1, InvHolds, PTL

(* Every allocated heap block is owned by one tensor or lies in one place  *)
(* of the pool, and a free one is nowhere: tensor.cpp leaks no block and   *)
(* frees none twice.                                                       *)
THEOREM BlocksCounted == Spec => []BlocksAccounted
<1>1. Inv => BlocksAccounted
  <2> SUFFICES ASSUME Inv, NEW b \in Block
               PROVE  IF heap[b] = 0
                      THEN Owners(b) = {} /\ Pooled(b) = {}
                      ELSE /\ Cardinality(Owners(b)) + Cardinality(Pooled(b)) = 1
                           /\ \A i \in Owners(b) : bytes[i] = heap[b]
                           /\ \A p \in Pooled(b) : p[1] = heap[b]
    BY DEF BlocksAccounted
  <2>1. \A i \in Owners(b) : i \in Impl /\ Owns(i, b) /\ bytes[i] = heap[b] /\ heap[b] # 0
    BY MemAssumption DEF Inv, Storage, OwnersApart, Owners, Owns
  <2>2. \A m \in Size : \A r \in 1 .. BucketMax :
          <<m, r>> \in Pooled(b) <=> r \in 1 .. Len(buckets[m]) /\ buckets[m][r] = b
    BY DEF Inv, Storage, Typed, Pooled
  <2>3. \A p \in Pooled(b) : \E m \in Size : \E r \in 1 .. BucketMax :
          p = <<m, r>> /\ r \in 1 .. Len(buckets[m]) /\ buckets[m][r] = b
    BY <2>2 DEF Pooled
  <2>4. \A p \in Pooled(b) : p[1] = heap[b] /\ heap[b] # 0
    BY <2>3, MemAssumption DEF Inv, Storage, PoolApart
  <2>5. CASE heap[b] = 0
    BY <2>1, <2>4, <2>5
  <2>6. ASSUME heap[b] # 0, NEW i \in Impl, Owns(i, b)
        PROVE  Cardinality(Owners(b)) + Cardinality(Pooled(b)) = 1
    <3>1. Owners(b) = {i}
      BY <2>6 DEF Inv, Storage, OwnersApart, Owners, Owns
    <3>2. Pooled(b) = {}
      BY <2>3, <2>6 DEF Inv, Storage, PoolApart
    <3>3. Cardinality(Owners(b)) = 1 /\ Cardinality(Pooled(b)) = 0
      BY <3>1, <3>2, FS_EmptySet, FS_Singleton, Zenon
    <3> QED  BY <3>3
  <2>7. ASSUME heap[b] # 0, NEW m \in Size, NEW r \in 1 .. Len(buckets[m]),
               buckets[m][r] = b
        PROVE  Cardinality(Owners(b)) + Cardinality(Pooled(b)) = 1
    <3>1. Owners(b) = {}
      BY <2>1, <2>7 DEF Inv, Storage, PoolApart
    <3>2. Pooled(b) = {<<m, r>>}
      <4>1. r \in 1 .. BucketMax
        BY MemAssumption DEF Inv, Storage, Typed, PoolApart
      <4>2. <<m, r>> \in Pooled(b)
        BY <2>2, <2>7, <4>1
      <4>3. \A p \in Pooled(b) : p = <<m, r>>
        BY <2>3, <2>7 DEF Inv, Storage, PoolApart
      <4> QED  BY <4>2, <4>3
    <3>3. Cardinality(Owners(b)) = 0 /\ Cardinality(Pooled(b)) = 1
      BY <3>1, <3>2, FS_EmptySet, FS_Singleton, Zenon
    <3> QED  BY <3>3
  <2> QED  BY <2>1, <2>4, <2>5, <2>6, <2>7 DEF Inv, Storage, NothingLost
<1> QED  BY <1>1, InvHolds, PTL

(* An object in g_impl_cache is no tensor and lies there once.             *)
THEOREM ObjectsReusable == Spec => []CachedObjectsAreFree
<1>1. Inv => CachedObjectsAreFree
  <2> SUFFICES ASSUME Inv PROVE CachedObjectsAreFree
    OBVIOUS
  <2> DEFINE n == Len(implCache)
  <2>1. /\ n \in Nat /\ DOMAIN implCache = 1 .. n
        /\ Cached = {implCache[p] : p \in 1 .. n}
        /\ implCache \in [1 .. n -> Cached]
    BY DEF Inv, ObjectsApart, Cached, Range
  <2>2. Cached \cap Live = {}
    BY <2>1 DEF Inv, ObjectsApart, Live
  <2>3. implCache \in Surjection(1 .. n, Cached) /\ implCache \in Injection(1 .. n, Cached)
    BY <2>1 DEF Inv, ObjectsApart, Surjection, Injection, IsInjective
  <2>4. IsFiniteSet(1 .. n) /\ Cardinality(1 .. n) = n
    BY <2>1, FS_Interval
  <2> QED  BY <2>2, <2>3, <2>4, FS_Surjection DEF CachedObjectsAreFree
<1> QED  BY <1>1, InvHolds, PTL
-----------------------------------------------------------------------------
(* bytes_cached never becomes negative, since it is at least what the pool *)
(* holds.  There is no sum in the argument: the pooled blocks can be laid  *)
(* end to end, at pos[n][p] the p-th block of size n, in bytes_cached      *)
(* bytes; taking one out lets those above it slide down.                   *)
Laid(pos, bk, c) ==
  \A n \in Size : \A p \in 1 .. Len(bk[n]) :
    /\ 0 <= pos[n][p] /\ pos[n][p] + n <= c
    /\ \A m \in Size : \A q \in 1 .. Len(bk[m]) :
         \/ n = m /\ p = q
         \/ pos[n][p] + n <= pos[m][q] \/ pos[m][q] + m <= pos[n][p]

Places == [Size -> [Nat -> Int]]

Counted ==
  /\ base \in BOOLEAN /\ f32 \in [Impl -> BOOLEAN] /\ stale \in [Impl -> BOOLEAN]
  /\ cached \in Nat /\ \E pos \in Places : Laid(pos, buckets, cached)

(* Another block of size n goes on top.                                    *)
LEMMA LaidOn ==
  ASSUME NEW bk \in [Size -> Seq(Block)], NEW b \in Block, NEW n \in Size, NEW c \in Nat,
         NEW pos \in Places, Laid(pos, bk, c)
  PROVE  \E new \in Places : Laid(new, [bk EXCEPT ![n] = Append(@, b)], c + n)
<1> DEFINE q == Len(bk[n])
           to == [bk EXCEPT ![n] = Append(@, b)]
           new == [m \in Size |-> [p \in Nat |-> IF m = n /\ p = q + 1 THEN c ELSE pos[m][p]]]
<1>1. /\ q \in Nat /\ Len(to[n]) = q + 1 /\ \A m \in Size : m \in Nat
      /\ \A m \in Size : m # n => to[m] = bk[m]
      /\ \A m \in Size : Len(bk[m]) \in Nat
  BY MemAssumption, AppendProperties
<1>2. new \in Places
  <2>1. \A m \in Size, p \in Nat : pos[m][p] \in Int BY DEF Places
  <2> QED BY <2>1 DEF Places
<1>3. \A m \in Size : \A p \in Nat :
        new[m][p] = IF m = n /\ p = q + 1 THEN c ELSE pos[m][p]
  OBVIOUS
<1>4. \A m \in Size : \A p \in 1 .. Len(to[m]) :
        /\ p \in Nat
        /\ \/ m = n /\ p = q + 1 /\ new[m][p] = c
           \/ p \in 1 .. Len(bk[m]) /\ ~(m = n /\ p = q + 1) /\ new[m][p] = pos[m][p]
  <2>1. TAKE m \in Size
  <2>2. TAKE p \in 1 .. Len(to[m])
  <2>3. p \in Nat BY <1>1, <2>1, <2>2
  <2> HIDE DEF to, new
  <2>4. CASE m = n BY <1>1, <1>3, <2>2, <2>3, <2>4 DEF q
  <2>5. CASE m # n BY <1>1, <1>3, <2>2, <2>3, <2>5
  <2> QED BY <2>4, <2>5
<1>5. \A m \in Size : \A p \in 1 .. Len(bk[m]) : pos[m][p] \in Int
  BY <1>1 DEF Places
<1> HIDE DEF to, new, q
<1>6. Laid(new, to, c + n)
  <2>1. SUFFICES ASSUME NEW m \in Size, NEW p \in 1 .. Len(to[m])
                 PROVE  /\ 0 <= new[m][p] /\ new[m][p] + m <= c + n
                        /\ \A k \in Size : \A r \in 1 .. Len(to[k]) :
                             \/ m = k /\ p = r
                             \/ new[m][p] + m <= new[k][r] \/ new[k][r] + k <= new[m][p]
    BY DEF Laid
  <2>2. 0 <= new[m][p] /\ new[m][p] + m <= c + n
    <3>1. m \in Nat /\ n \in Nat BY <1>1
    <3>2. CASE m = n /\ new[m][p] = c BY <3>1, <3>2
    <3>3. CASE p \in 1 .. Len(bk[m]) /\ new[m][p] = pos[m][p]
      <4>1. 0 <= pos[m][p] /\ pos[m][p] + m <= c /\ pos[m][p] \in Int
        BY <1>5, <3>3 DEF Laid
      <4> QED BY <3>1, <3>3, <4>1
    <3> QED BY <1>4, <3>2, <3>3
  <2>3. ASSUME NEW k \in Size, NEW r \in 1 .. Len(to[k])
        PROVE  \/ m = k /\ p = r
               \/ new[m][p] + m <= new[k][r] \/ new[k][r] + k <= new[m][p]
    <3>1. CASE m = n /\ p = q + 1 BY <1>1, <1>4, <1>5, <3>1 DEF Laid
    <3>2. CASE ~(m = n /\ p = q + 1)
      <4>1. p \in 1 .. Len(bk[m]) /\ new[m][p] = pos[m][p] BY <1>4, <3>2
      <4>2. CASE k = n /\ r = q + 1
        <5>1. new[k][r] = c BY <1>4, <4>2
        <5>2. pos[m][p] + m <= c BY <4>1 DEF Laid
        <5> QED BY <4>1, <5>1, <5>2
      <4>3. CASE ~(k = n /\ r = q + 1)
        <5>1. r \in 1 .. Len(bk[k]) /\ new[k][r] = pos[k][r] BY <1>4, <4>3
        <5> QED BY <4>1, <5>1 DEF Laid
      <4> QED BY <4>2, <4>3
    <3> QED BY <3>1, <3>2
  <2> QED BY <2>2, <2>3
<1> QED BY <1>2, <1>6 DEF to

(* The last block of size n is taken out; n bytes less are enough.         *)
LEMMA TakenOut ==
  ASSUME NEW bk \in [Size -> Seq(Block)], NEW n \in Size, bk[n] # <<>>, NEW c \in Nat,
         NEW pos \in Places, Laid(pos, bk, c)
  PROVE  /\ c - n \in Nat
         /\ \E new \in Places :
              Laid(new, [bk EXCEPT ![n] = SubSeq(@, 1, Len(@) - 1)], c - n)
<1> DEFINE q == Len(bk[n])
           s == pos[n][q]
           to == [bk EXCEPT ![n] = SubSeq(@, 1, Len(@) - 1)]
           new == [m \in Size |-> [p \in Nat |-> IF pos[m][p] > s THEN pos[m][p] - n ELSE pos[m][p]]]
<1>1. /\ q \in Nat \ {0} /\ Len(to[n]) = q - 1 /\ \A m \in Size : m \in Nat \ {0}
      /\ \A m \in Size : m # n => to[m] = bk[m]
      /\ \A m \in Size : Len(bk[m]) \in Nat
  BY MemAssumption, WithoutLast
<1>2. \A m \in Size, p \in Nat : pos[m][p] \in Int BY DEF Places
<1>3. new \in Places /\ s \in Int
  <2>1. q \in Nat /\ n \in Int BY <1>1
  <2>2. s \in Int BY <1>2, <2>1
  <2> HIDE DEF s, q
  <2>3. \A m \in Size, p \in Nat :
          (IF pos[m][p] > s THEN pos[m][p] - n ELSE pos[m][p]) \in Int
    BY <1>2, <2>1, <2>2
  <2>4. new \in Places BY <2>3 DEF Places
  <2> QED BY <2>2, <2>4
<1>4. q \in 1 .. Len(bk[n]) BY <1>1
<1>5. 0 <= s /\ s + n <= c BY <1>4 DEF Laid
<1>6. c - n \in Nat BY <1>1, <1>3, <1>5
<1>7. \A m \in Size : \A p \in 1 .. Len(to[m]) :
        p \in 1 .. Len(bk[m]) /\ ~(m = n /\ p = q)
  <2>1. TAKE m \in Size
  <2>2. TAKE p \in 1 .. Len(to[m])
  <2> HIDE DEF to
  <2>3. CASE m = n BY <1>1, <2>2, <2>3 DEF q
  <2>4. CASE m # n BY <1>1, <2>2, <2>4
  <2> QED BY <2>3, <2>4
<1>8. \A m \in Size : \A p \in 1 .. Len(to[m]) :
        /\ new[m][p] = IF pos[m][p] > s THEN pos[m][p] - n ELSE pos[m][p]
        /\ 0 <= pos[m][p] /\ pos[m][p] + m <= c
        /\ pos[m][p] >= s + n \/ pos[m][p] + m <= s
        /\ pos[m][p] \in Int
  <2>1. TAKE m \in Size
  <2>2. TAKE p \in 1 .. Len(to[m])
  <2>3. p \in 1 .. Len(bk[m]) /\ ~(m = n /\ p = q) /\ p \in Nat BY <1>1, <1>7, <2>1, <2>2
  <2>4. new[m][p] = IF pos[m][p] > s THEN pos[m][p] - n ELSE pos[m][p] BY <2>3
  <2>5. 0 <= pos[m][p] /\ pos[m][p] + m <= c BY <2>3 DEF Laid
  <2>6. pos[m][p] + m <= pos[n][q] \/ pos[n][q] + n <= pos[m][p]
    BY <1>4, <2>3 DEF Laid
  <2>7. pos[m][p] \in Int BY <1>2, <2>3
  <2> HIDE DEF new, q
  <2> QED BY <1>1, <1>3, <2>4, <2>5, <2>6, <2>7
<1> HIDE DEF to, new, s
<1>9. Laid(new, to, c - n)
  <2>1. SUFFICES ASSUME NEW m \in Size, NEW p \in 1 .. Len(to[m])
                 PROVE  /\ 0 <= new[m][p] /\ new[m][p] + m <= c - n
                        /\ \A k \in Size : \A r \in 1 .. Len(to[k]) :
                             \/ m = k /\ p = r
                             \/ new[m][p] + m <= new[k][r] \/ new[k][r] + k <= new[m][p]
    BY DEF Laid
  <2>2. 0 <= new[m][p] /\ new[m][p] + m <= c - n
    <3> DEFINE x == pos[m][p]
               u == new[m][p]
    <3>1. /\ u = IF x > s THEN x - n ELSE x
          /\ 0 <= x /\ x + m <= c /\ x \in Int
          /\ x >= s + n \/ x + m <= s
      BY <1>8
    <3>2. m \in Nat \ {0} /\ n \in Nat \ {0} BY <1>1
    <3> HIDE DEF x, u
    <3>3. 0 <= u /\ u + m <= c - n BY <1>3, <1>5, <3>1, <3>2
    <3> QED BY <3>3 DEF u
  <2>3. ASSUME NEW k \in Size, NEW r \in 1 .. Len(to[k])
        PROVE  \/ m = k /\ p = r
               \/ new[m][p] + m <= new[k][r] \/ new[k][r] + k <= new[m][p]
    <3> DEFINE x == pos[m][p]
               y == pos[k][r]
               u == new[m][p]
               v == new[k][r]
    <3>1. (m = k /\ p = r) \/ x + m <= y \/ y + k <= x BY <1>7 DEF Laid
    <3>2. /\ u = IF x > s THEN x - n ELSE x
          /\ v = IF y > s THEN y - n ELSE y
          /\ x >= s + n \/ x + m <= s
          /\ y >= s + n \/ y + k <= s
          /\ x \in Int /\ y \in Int
      BY <1>8
    <3>3. m \in Nat \ {0} /\ k \in Nat \ {0} /\ n \in Nat \ {0} BY <1>1
    <3> HIDE DEF x, y, u, v
    <3>4. CASE m = k /\ p = r BY <3>4
    <3>5. CASE x + m <= y \/ y + k <= x
      <4>1. u + m <= v \/ v + k <= u BY <1>3, <3>2, <3>3, <3>5
      <4> QED BY <4>1 DEF u, v
    <3> QED BY <3>1, <3>4, <3>5
  <2> QED BY <2>2, <2>3
<1> QED BY <1>3, <1>6, <1>9 DEF to

(* Every step keeps count.                                                 *)
LEMMA CountedStep == Inv /\ Counted /\ [Next]_vars => Counted'
<1> SUFFICES ASSUME Inv, Counted, [Next]_vars PROVE Counted'
  OBVIOUS
<1> USE DEF Counted
<1>0. buckets \in [Size -> Seq(Block)] BY DEF Inv, Storage, Typed
<1>1. PICK pos \in Places : Laid(pos, buckets, cached) OBVIOUS
<1>2. ASSUME NEW i \in Impl, NEW k, NEW a, NEW b, NEW n, NEW isF32 \in BOOLEAN,
             NewTensor(i, k, a, b, n, isF32)
      PROVE  f32' \in [Impl -> BOOLEAN] /\ stale' \in [Impl -> BOOLEAN]
  BY <1>2 DEF NewTensor
<1>3. ArenaReady => base' \in BOOLEAN
  <2>1. (ArenaCap > 0) \in BOOLEAN BY MemAssumption
  <2> QED BY <2>1, Zenon DEF ArenaReady
<1>4. ASSUME NEW i \in Impl, NEW n \in Size, NEW b \in Block, CreateF32(i, n, b)
      PROVE  Counted'
  <2>1. base' \in BOOLEAN BY <1>3, <1>4 DEF CreateF32
  <2>2. CASE FromArena(i, n) BY <1>2, <2>1, <2>2 DEF FromArena, poolVars
  <2>3. CASE FromPool(i, n)
    <3>1. buckets[n] # <<>> /\ cached' = cached - n
          /\ buckets' = [buckets EXCEPT ![n] = SubSeq(@, 1, Len(@) - 1)]
      BY <2>3 DEF FromPool
    <3>2. cached' \in Nat /\ \E new \in Places : Laid(new, buckets', cached')
      BY <1>0, <1>1, <3>1, TakenOut
    <3> QED BY <1>2, <2>1, <2>3, <3>2 DEF FromPool
  <2>4. CASE FromHeap(i, n, b, TRUE) BY <1>2, <2>1, <2>4 DEF FromHeap, poolVars
  <2> QED BY <1>4, <2>2, <2>3, <2>4 DEF CreateF32
<1>5. ASSUME NEW i \in Impl, NEW n \in Size, NEW b \in Block, NEW isF32 \in BOOLEAN,
             CreateOnHeap(i, n, b, isF32)
      PROVE  Counted'
  BY <1>2, <1>5 DEF CreateOnHeap, FromHeap, poolVars
<1>6. ASSUME NEW i \in Impl, NEW n \in Size, CreateF32Fails(i, n) PROVE Counted'
  BY <1>3, <1>6 DEF CreateF32Fails, poolVars, tensorVars
<1>7. ASSUME NEW i \in Impl, CreateOnHeapFails(i) PROVE Counted'
  BY <1>7 DEF CreateOnHeapFails, arenaVars, poolVars, tensorVars
<1>8. ASSUME NEW i \in Impl, CreateView(i) PROVE Counted'
  BY <1>2, <1>8 DEF CreateView, arenaVars, poolVars
<1>9. ASSUME NEW i \in Impl, Free(i) PROVE Counted'
  <2>1. NewTensor(i, "none", 0, NoBlock, 0, FALSE) /\ base' = base
    BY <1>9 DEF Free, arenaVars
  <2>2. f32' \in [Impl -> BOOLEAN] /\ stale' \in [Impl -> BOOLEAN] BY <1>2, <2>1
  <2>3. CASE UNCHANGED poolVars BY <2>1, <2>2, <2>3 DEF poolVars
  <2>4. CASE kind[i] = "heap" /\ ReleaseBlock(block[i], bytes[i]) /\ PoolHasRoom(bytes[i])
    <3>1. bytes[i] \in Size /\ block[i] \in Block
      BY <2>4 DEF Inv, Storage, OwnersApart
    <3>2. /\ buckets' = [buckets EXCEPT ![bytes[i]] = Append(@, block[i])]
          /\ cached' = cached + bytes[i]
      BY <2>4 DEF ReleaseBlock
    <3>3. \E new \in Places : Laid(new, buckets', cached')
      BY <1>0, <1>1, <3>1, <3>2, LaidOn
    <3>4. cached' \in Nat BY <3>1, <3>2, MemAssumption
    <3> QED BY <2>1, <2>2, <3>3, <3>4
  <2> QED BY <1>9, <2>3, <2>4 DEF Free, ReleaseBlock
<1>10. CASE ArenaReset BY <1>10 DEF ArenaReset, poolVars
<1>11. CASE UNCHANGED vars
  BY <1>11 DEF vars, arenaVars, poolVars, tensorVars
<1> QED BY <1>4, <1>5, <1>6, <1>7, <1>8, <1>9, <1>10, <1>11 DEF Next

(* Every variable of the tensor memory has its type: the arena is never    *)
(* overrun, and the pool's byte count, an unsigned integer in the code,    *)
(* never goes below zero.                                                  *)
THEOREM TypeCorrect == Spec => []TypeOK
<1>1. Init => Counted
  <2>1. SUFFICES ASSUME Init PROVE Counted OBVIOUS
  <2>2. Laid([n \in Size |-> [p \in Nat |-> 0]], buckets, cached)
    BY <2>1 DEF Init, Laid
  <2>3. [n \in Size |-> [p \in Nat |-> 0]] \in Places BY DEF Places
  <2> QED BY <2>1, <2>2, <2>3 DEF Init, Counted
<1>2. Inv /\ Counted => TypeOK
  BY DEF Inv, Storage, Typed, ObjectsApart, Counted, TypeOK
<1> QED BY <1>1, <1>2, CountedStep, InvHolds, PTL DEF Spec

=============================================================================
