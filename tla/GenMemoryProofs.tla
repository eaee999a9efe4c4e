--------------------------- MODULE GenMemoryProofs ---------------------------
(***************************************************************************)
(* Proofs about GenMemory.  Every tensor in use is in the hands of exactly *)
(* one of seven owners: the weights, the cache views, the buffers, the     *)
(* locals of the layer, the list about to be freed, last_out_prefill and   *)
(* the view.  Inv says so (Owning), and says which of them may hold        *)
(* something at each place of the code (Placed, LocalsPlaced), without     *)
(* which an assignment could overwrite a pointer and a clean-up list could *)
(* miss one.                                                               *)
(*                                                                         *)
(* The allocator's own invariant is that of TensorMemProofs; the two hold  *)
(* together, step by step, and every step here is one of the allocator's   *)
(* or leaves it alone (Ok).                                                *)
(***************************************************************************)
EXTENDS GenMemory, FiniteSetTheorems, TLAPS

MP == INSTANCE TensorMemProofs

(* The assumptions of the allocator's proofs.                              *)
LEMMA MemAssumed == MP!MemAssumption
BY UseAssumption DEF Mem!MemAssumption, MP!MemAssumption

(* The allocator's definitions, here and in the module of its proofs.      *)
LEMMA MemStep == [Mem!Next]_(Mem!vars) => [MP!Next]_(MP!vars)
BY DEF Mem!Next, MP!Next, Mem!vars, MP!vars, Mem!arenaVars, MP!arenaVars, Mem!poolVars, MP!poolVars,
   Mem!tensorVars, MP!tensorVars, Mem!CreateF32, MP!CreateF32, Mem!CreateOnHeap, MP!CreateOnHeap,
   Mem!CreateF32Fails, MP!CreateF32Fails, Mem!CreateOnHeapFails, MP!CreateOnHeapFails,
   Mem!CreateView, MP!CreateView, Mem!Free, MP!Free, Mem!ArenaReset, MP!ArenaReset,
   Mem!AcquireImpl, MP!AcquireImpl, Mem!ReleaseImpl, MP!ReleaseImpl, Mem!NewTensor, MP!NewTensor,
   Mem!Need, MP!Need, Mem!ArenaReady, MP!ArenaReady, Mem!ArenaFits, MP!ArenaFits,
   Mem!FromArena, MP!FromArena, Mem!FromPool, MP!FromPool, Mem!FromHeap, MP!FromHeap,
   Mem!GiveImplBack, MP!GiveImplBack, Mem!PoolHasRoom, MP!PoolHasRoom, Mem!ReleaseBlock, MP!ReleaseBlock,
   Mem!Live, MP!Live

(* Both start the same.                                                    *)
LEMMA MemInit == Mem!Init => MP!Init
BY DEF Mem!Init, MP!Init

(* Both mean the same by a type.                                           *)
LEMMA MemType == MP!TypeOK => Mem!TypeOK
BY DEF Mem!TypeOK, MP!TypeOK

Live == Mem!Live

(* What an object of the allocator is: in the cache of objects it is no    *)
(* tensor.                                                                 *)
LEMMA ObjectsOfMem ==
  ASSUME MP!Inv
  PROVE  /\ implCache \in Seq(Impl)
         /\ \A p \in 1 .. Len(implCache) : kind[implCache[p]] = "none"
         /\ kind \in [Impl -> {"none", "arena", "heap", "view"}]
BY DEF MP!Inv, MP!ObjectsApart, MP!Storage, MP!Typed

(* There is an object and a block to name, even when all are in use.       *)
LEMMA FreshOnes == FreshImpl \in Impl /\ FreshBlock \in Block
<1>1. \E i \in Impl : i \in Impl \ Mem!Live \/ Impl \ Mem!Live = {}
  BY UseAssumption DEF Mem!Live
<1>2. \E b \in Block : heap[b] = 0 \/ \A a \in Block : heap[a] # 0
  BY UseAssumption
<1> QED BY <1>1, <1>2 DEF FreshImpl, FreshBlock

(* The object of a new tensor is no tensor yet.                            *)
LEMMA Acquired ==
  ASSUME MP!Inv, NEW i, Mem!AcquireImpl(i)
  PROVE  i \in Impl /\ i \notin Live
<1>1. CASE implCache = <<>>
  BY <1>1, ObjectsOfMem DEF Mem!AcquireImpl, Live
<1>2. CASE implCache # <<>>
  <2>1. Len(implCache) \in 1 .. Len(implCache) BY <1>2, ObjectsOfMem
  <2>2. i = implCache[Len(implCache)] BY <1>2 DEF Mem!AcquireImpl
  <2> QED BY <2>1, <2>2, ObjectsOfMem DEF Live, Mem!Live
<1> QED BY <1>1, <1>2

(* A tensor is created: one more in use.                                   *)
Gains(i) == i \in Impl \ Live /\ Live' = Live \cup {i} /\ [Mem!Next]_(Mem!vars)

(* The allocator's state, with the same tensors in use.                    *)
Keeps == Live' = Live /\ [Mem!Next]_(Mem!vars)

(* Filling in the fields of a tensor puts it in use.                       *)
LEMMA NewLive ==
  ASSUME MP!Inv, NEW i \in Impl, NEW k \in {"arena", "heap", "view"}, NEW a, NEW b, NEW n, NEW isF32,
         Mem!NewTensor(i, k, a, b, n, isF32)
  PROVE  Live' = Live \cup {i}
BY ObjectsOfMem DEF Live, Mem!Live, Mem!NewTensor

(* tensor_create_f32 succeeds.                                             *)
LEMMA AllocGains ==
  ASSUME MP!Inv, NEW i, NEW n \in {WeightBytes, RowBytes}, Alloc(i, n)
  PROVE  Gains(i)
<1>1. Mem!AcquireImpl(i) /\ Mem!CreateF32(i, n, FreshBlock)
  BY DEF Alloc, Mem!CreateF32
<1>2. i \in Impl \ Live BY <1>1, Acquired
<1>3. Live' = Live \cup {i}
  BY <1>1, <1>2, NewLive DEF Mem!CreateF32, Mem!FromArena, Mem!FromPool, Mem!FromHeap
<1>4. Mem!Next BY <1>1, <1>2, FreshOnes, UseAssumption DEF Mem!Next
<1> QED BY <1>2, <1>3, <1>4 DEF Gains

(* A constructor outside the arena succeeds.                               *)
LEMMA AllocHeapGains ==
  ASSUME MP!Inv, NEW i, NEW n \in {WeightBytes, RowBytes}, AllocHeap(i, n)
  PROVE  Gains(i)
<1>1. PICK isF32 \in BOOLEAN : Mem!CreateOnHeap(i, n, FreshBlock, isF32)
  BY UseAssumption DEF AllocHeap
<1>2. i \in Impl \ Live BY <1>1, Acquired DEF AllocHeap, Mem!CreateOnHeap
<1>3. Live' = Live \cup {i}
  BY <1>1, <1>2, NewLive DEF Mem!CreateOnHeap, Mem!FromHeap
<1>4. Mem!Next BY <1>1, <1>2, FreshOnes, UseAssumption DEF Mem!Next
<1> QED BY <1>2, <1>3, <1>4 DEF Gains

(* tensor_create_f32_view.                                                 *)
LEMMA ViewGains ==
  ASSUME MP!Inv, NEW i, Mem!CreateView(i)
  PROVE  Gains(i)
<1>1. i \in Impl \ Live BY Acquired DEF Mem!CreateView
<1>2. Live' = Live \cup {i} BY <1>1, NewLive DEF Mem!CreateView
<1>3. Mem!Next BY <1>1 DEF Mem!Next
<1> QED BY <1>1, <1>2, <1>3 DEF Gains

(* A failed allocation.                                                    *)
LEMMA FailureKeeps ==
  ASSUME NEW n \in {WeightBytes, RowBytes}, AllocFails(n)
  PROVE  Keeps /\ failures' = failures + 1
<1>1. Mem!CreateF32Fails(FreshImpl, n) BY DEF AllocFails
<1>2. Mem!Next BY <1>1, FreshOnes, UseAssumption DEF Mem!Next
<1>3. Live' = Live BY <1>1 DEF Mem!CreateF32Fails, Mem!tensorVars, Live, Mem!Live
<1> QED BY <1>2, <1>3 DEF Keeps, AllocFails, Failure

(* The allocator is not called.                                            *)
LEMMA UnchangedKeeps ==
  ASSUME UNCHANGED memVars
  PROVE  Keeps
BY DEF memVars, Keeps, Live, Mem!Live, Mem!vars, Mem!arenaVars, Mem!poolVars, Mem!tensorVars

(* tensor_arena_reset frees no tensor.                                     *)
LEMMA ResetKeeps ==
  ASSUME Mem!ArenaReset
  PROVE  Keeps
BY DEF Mem!ArenaReset, Mem!Next, Keeps, Live, Mem!Live

(* tensor_free.                                                            *)
LEMMA FreeLoses ==
  ASSUME MP!Inv, NEW i, Mem!Free(i)
  PROVE  i \in Live /\ Live' = Live \ {i} /\ [Mem!Next]_(Mem!vars)
<1>1. i \in Impl /\ i \in Live BY DEF Mem!Free, Live, Mem!Live
<1>2. Live' = Live \ {i}
  BY <1>1, ObjectsOfMem DEF Mem!Free, Mem!NewTensor, Live, Mem!Live
<1>3. Mem!Next BY <1>1 DEF Mem!Next
<1> QED BY <1>1, <1>2, <1>3

(* The tensors that a sequence, or an array, of pointers names, and that   *)
(* it names each of them once.                                             *)
Own(s) == {s[k] : k \in DOMAIN s} \ {Null}
Once(s) == \A j, k \in DOMAIN s : s[j] = s[k] /\ s[j] # Null => j = k
Pointer == Impl \cup {Null}

(* There is something left to free.                                        *)
LEMMA OwnPending == \A s : Pending(s) <=> Own(s) # {}
BY DEF Pending, Own

(* No pointers.                                                            *)
LEMMA OwnNothing == Own(<<>>) = {} /\ Once(<<>>)
BY DEF Own, Once

(* One pointer.                                                            *)
LEMMA OwnOne ==
  ASSUME NEW i \in Pointer
  PROVE  << i >> \in Seq(Pointer) /\ Own(<< i >>) = {i} \ {Null} /\ Once(<< i >>)
BY DEF Own, Once

(* Two pointers.                                                           *)
LEMMA OwnTwo ==
  ASSUME NEW i \in Pointer, NEW j \in Pointer, i # j \/ i = Null
  PROVE  << i, j >> \in Seq(Pointer) /\ Own(<< i, j >>) = {i, j} \ {Null} /\ Once(<< i, j >>)
BY DEF Own, Once

(* A pointer is added to a list.                                           *)
LEMMA OwnAppended ==
  ASSUME NEW S, S \subseteq Pointer, NEW s \in Seq(S), NEW i \in Impl, i \in S, Once(s), i \notin Own(s)
  PROVE  Append(s, i) \in Seq(S) /\ Own(Append(s, i)) = Own(s) \cup {i} /\ Once(Append(s, i))
<1> DEFINE t == Append(s, i)
           n == Len(s)
<1>1. n \in Nat /\ t \in Seq(S) /\ Len(t) = n + 1 /\ t[n + 1] = i
      /\ DOMAIN t = 1 .. n + 1 /\ DOMAIN s = 1 .. n
  OBVIOUS
<1>2. \A k \in 1 .. n : t[k] = s[k] OBVIOUS
<1>3. i # Null /\ \A k \in 1 .. n : s[k] # i
  BY UseAssumption DEF Own
<1> HIDE DEF t, n
<1>4. Own(t) = Own(s) \cup {i} BY <1>1, <1>2, <1>3 DEF Own
<1>5. Once(t) BY <1>1, <1>2, <1>3 DEF Once
<1> QED BY <1>1, <1>4, <1>5 DEF t

(* Two clean-up lists, one after the other.                                *)
LEMMA OwnJoined ==
  ASSUME NEW s \in Seq(Pointer), NEW t \in Seq(Pointer), Once(s), Once(t), Own(s) \cap Own(t) = {}
  PROVE  s \o t \in Seq(Pointer) /\ Own(s \o t) = Own(s) \cup Own(t) /\ Once(s \o t)
<1> DEFINE u == s \o t
           n == Len(s)
           m == Len(t)
<1>1. n \in Nat /\ m \in Nat /\ u \in Seq(Pointer) /\ DOMAIN u = 1 .. n + m
      /\ DOMAIN s = 1 .. n /\ DOMAIN t = 1 .. m
  OBVIOUS
<1>2. \A k \in 1 .. n + m : u[k] = IF k <= n THEN s[k] ELSE t[k - n]
  OBVIOUS
<1> HIDE DEF u, n, m
<1>3. \A k \in 1 .. n : k \in 1 .. n + m /\ u[k] = s[k] BY <1>1, <1>2
<1>4. \A k \in 1 .. m : k + n \in 1 .. n + m /\ u[k + n] = t[k] BY <1>1, <1>2
<1>5. \A k \in 1 .. n + m : k \in 1 .. n \/ k - n \in 1 .. m BY <1>1
<1>6. Own(u) = Own(s) \cup Own(t)
  <2>1. Own(u) \subseteq Own(s) \cup Own(t)
    <3> SUFFICES ASSUME NEW k \in 1 .. n + m, u[k] # Null PROVE u[k] \in Own(s) \cup Own(t)
      BY <1>1 DEF Own
    <3>1. CASE k <= n
      <4>1. u[k] = s[k] /\ k \in 1 .. n BY <1>1, <1>2, <3>1
      <4> QED BY <1>1, <4>1 DEF Own
    <3>2. CASE ~(k <= n)
      <4>1. u[k] = t[k - n] /\ k - n \in 1 .. m BY <1>1, <1>2, <3>2
      <4> QED BY <1>1, <4>1 DEF Own
    <3> QED BY <3>1, <3>2
  <2>2. Own(s) \subseteq Own(u) BY <1>1, <1>3 DEF Own
  <2>3. Own(t) \subseteq Own(u) BY <1>1, <1>4 DEF Own
  <2> QED BY <2>1, <2>2, <2>3
<1>7. Once(u)
  <2> SUFFICES ASSUME NEW j \in 1 .. n + m, NEW k \in 1 .. n + m, u[j] = u[k], u[j] # Null
               PROVE  j = k
    BY <1>1 DEF Once
  <2>1. CASE j <= n /\ k <= n
    <3>1. u[j] = s[j] /\ u[k] = s[k] /\ j \in 1 .. n /\ k \in 1 .. n BY <1>1, <1>2, <2>1
    <3> QED BY <1>1, <3>1 DEF Once
  <2>2. CASE ~(j <= n) /\ ~(k <= n)
    <3>1. u[j] = t[j - n] /\ u[k] = t[k - n] /\ j - n \in 1 .. m /\ k - n \in 1 .. m
      BY <1>1, <1>2, <2>2
    <3>2. j - n = k - n BY <1>1, <3>1 DEF Once
    <3> QED BY <1>1, <3>2
  <2>3. CASE j <= n /\ ~(k <= n)
    <3>1. u[j] = s[j] /\ u[k] = t[k - n] /\ j \in 1 .. n /\ k - n \in 1 .. m BY <1>1, <1>2, <2>3
    <3>2. u[j] \in Own(s) /\ u[j] \in Own(t) BY <1>1, <3>1 DEF Own
    <3> QED BY <3>2
  <2>4. CASE ~(j <= n) /\ k <= n
    <3>1. u[k] = s[k] /\ u[j] = t[j - n] /\ k \in 1 .. n /\ j - n \in 1 .. m BY <1>1, <1>2, <2>4
    <3>2. u[k] \in Own(s) /\ u[k] \in Own(t) BY <1>1, <3>1 DEF Own
    <3> QED BY <3>2
  <2> QED BY <2>1, <2>2, <2>3, <2>4
<1> QED BY <1>1, <1>6, <1>7 DEF u

(* A pointer is replaced.                                                  *)
LEMMA OwnReplaced ==
  ASSUME NEW D, NEW f \in [D -> Pointer], Once(f), NEW k \in D, NEW i \in Impl, i \notin Own(f),
         NEW g \in [D -> Pointer], g[k] = i, \A j \in D : j # k => g[j] = f[j]
  PROVE  Once(g) /\ Own(g) = (Own(f) \ {f[k]}) \cup {i}
<1>1. g \in [D -> Pointer] /\ g[k] = i /\ \A j \in D : j # k => g[j] = f[j]
  OBVIOUS
<1>2. i # Null /\ \A j \in D : f[j] # i BY UseAssumption DEF Own
<1>3. Once(g) BY <1>1, <1>2 DEF Once
<1>4. Own(g) = (Own(f) \ {f[k]}) \cup {i}
  <2>1. Own(g) \subseteq (Own(f) \ {f[k]}) \cup {i} BY <1>1, <1>2 DEF Own, Once
  <2>2. (Own(f) \ {f[k]}) \cup {i} \subseteq Own(g) BY <1>1, <1>2 DEF Own
  <2> QED BY <2>1, <2>2
<1> QED BY <1>3, <1>4

(* The rest of a clean-up list after its first tensor.                     *)
LEMMA OwnRest ==
  ASSUME NEW s \in Seq(Pointer), Once(s), NEW k \in DOMAIN s, s[k] # Null,
         \A j \in 1 .. k - 1 : s[j] = Null
  PROVE  LET t == SubSeq(s, k + 1, Len(s)) IN
         t \in Seq(Pointer) /\ Once(t) /\ Own(t) = Own(s) \ {s[k]}
<1> DEFINE t == SubSeq(s, k + 1, Len(s))
           n == Len(s)
<1>1. n \in Nat /\ DOMAIN s = 1 .. n /\ k \in 1 .. n OBVIOUS
<1>2. t \in Seq(Pointer) /\ DOMAIN t = 1 .. n - k /\ \A j \in 1 .. n - k : t[j] = s[j + k]
  <2>1. t \in Seq(Pointer) /\ Len(t) = n - k BY <1>1
  <2>2. DOMAIN t = 1 .. n - k BY <2>1
  <2>3. \A j \in 1 .. n - k : t[j] = s[k + 1 + j - 1] BY <1>1
  <2>4. \A j \in 1 .. n - k : k + 1 + j - 1 = j + k BY <1>1
  <2> QED BY <2>1, <2>2, <2>3, <2>4
<1> HIDE DEF t, n
<1>3. \A j \in 1 .. n - k : j + k \in 1 .. n /\ j + k # k BY <1>1
<1>4. \A j \in 1 .. n : j \in 1 .. k - 1 \/ j = k \/ j - k \in 1 .. n - k BY <1>1
<1>5. Once(t)
  <2> SUFFICES ASSUME NEW i \in 1 .. n - k, NEW j \in 1 .. n - k, t[i] = t[j], t[i] # Null
               PROVE  i = j
    BY <1>2 DEF Once
  <2>1. i + k = j + k BY <1>1, <1>2, <1>3 DEF Once
  <2> QED BY <1>1, <2>1
<1>6. Own(t) \subseteq Own(s) \ {s[k]}
  <2> SUFFICES ASSUME NEW j \in 1 .. n - k, t[j] # Null PROVE t[j] \in Own(s) /\ t[j] # s[k]
    BY <1>2 DEF Own
  <2>1. t[j] = s[j + k] /\ j + k \in 1 .. n /\ j + k # k BY <1>2, <1>3
  <2> QED BY <1>1, <2>1 DEF Own, Once
<1>7. Own(s) \ {s[k]} \subseteq Own(t)
  <2> SUFFICES ASSUME NEW j \in 1 .. n, s[j] # Null, s[j] # s[k] PROVE s[j] \in Own(t)
    BY <1>1 DEF Own
  <2>1. j - k \in 1 .. n - k BY <1>4
  <2>2. t[j - k] = s[j - k + k] /\ j - k + k = j BY <1>1, <1>2, <2>1
  <2> QED BY <1>2, <2>1, <2>2 DEF Own
<1> QED BY <1>2, <1>5, <1>6, <1>7 DEF t

(* A function on 1 .. n is a sequence.                                     *)
LEMMA AsSequence == ASSUME NEW S, NEW n \in Nat, NEW f \in [1 .. n -> S] PROVE f \in Seq(S)
OBVIOUS

(* Concatenation, by index.                                                *)
LEMMA Joined ==
  ASSUME NEW S, NEW a \in Seq(S), NEW b \in Seq(S)
  PROVE  /\ DOMAIN (a \o b) = 1 .. Len(a) + Len(b) /\ Len(a \o b) = Len(a) + Len(b)
         /\ \A k \in 1 .. Len(a) + Len(b) :
              (a \o b)[k] = IF k <= Len(a) THEN a[k] ELSE b[k - Len(a)]
<1>1. a \o b \in Seq(S) OBVIOUS
<1>2. Len(a \o b) = Len(a) + Len(b) OBVIOUS
<1>3. DOMAIN (a \o b) = 1 .. Len(a) + Len(b) BY <1>1, <1>2
<1>4. \A k \in 1 .. Len(a) + Len(b) : (a \o b)[k] = IF k <= Len(a) THEN a[k] ELSE b[k - Len(a)]
  OBVIOUS
<1> QED BY <1>2, <1>3, <1>4

(* The case of the attention half and the FFN.                             *)
LEMMA NineAndFive ==
  ASSUME NEW S, NEW a \in Seq(S), NEW b \in Seq(S), Len(a) = 9, Len(b) = 5
  PROVE  /\ a \o b \in Seq(S) /\ DOMAIN (a \o b) = 1 .. 14 /\ Len(a \o b) = 14
         /\ \A k \in 1 .. 14 : (a \o b)[k] = IF k <= 9 THEN a[k] ELSE b[k - 9]
<1>1. Len(a) + Len(b) = 14 OBVIOUS
<1>2. DOMAIN (a \o b) = 1 .. Len(a) + Len(b) BY Joined
<1>3. Len(a \o b) = Len(a) + Len(b) BY Joined
<1>4. \A k \in 1 .. Len(a) + Len(b) : (a \o b)[k] = IF k <= Len(a) THEN a[k] ELSE b[k - Len(a)]
  BY Joined
<1>5. a \o b \in Seq(S) OBVIOUS
<1> QED BY <1>1, <1>2, <1>3, <1>4, <1>5

(* The sites by number.                                                    *)
LEMMA SiteList ==
  /\ Sites \in Seq({"norm", "Q", "K", "V", "attn_out", "Wo_product", "attn_proj", "resid1", "ffn_out",
                     "ffn_norm", "gate", "up", "fused", "down"})
  /\ Len(Attention) = 9 /\ Len(Ffn) = 5 /\ Len(Sites) = 14 /\ DOMAIN Sites = 1 .. 14
  /\ Sites[1] = "norm" /\ Sites[2] = "Q" /\ Sites[3] = "K" /\ Sites[4] = "V"
  /\ Sites[5] = "attn_out" /\ Sites[6] = "Wo_product" /\ Sites[7] = "attn_proj"
  /\ Sites[8] = "resid1" /\ Sites[9] = "ffn_out" /\ Sites[10] = "ffn_norm"
  /\ Sites[11] = "gate" /\ Sites[12] = "up" /\ Sites[13] = "fused" /\ Sites[14] = "down"
<1>1. Len(Attention) = 9 /\ DOMAIN Attention = 1 .. 9 BY DEF Attention
<1>0. Len(Ffn) = 5 /\ DOMAIN Ffn = 1 .. 5 BY DEF Ffn
<1> DEFINE S == {"norm", "Q", "K", "V", "attn_out", "Wo_product", "attn_proj", "resid1", "ffn_out",
         "ffn_norm", "gate", "up", "fused", "down"}
<1>s. Attention \in Seq(S)
  <2>1. \A k \in 1 .. 9 : k = 1 \/ k = 2 \/ k = 3 \/ k = 4 \/ k = 5 \/ k = 6 \/ k = 7 \/ k = 8
         \/ k = 9
    OBVIOUS
  <2>2. \A k \in 1 .. 9 : Attention[k] \in S BY <2>1 DEF Attention
  <2>3. Attention = [k \in 1 .. 9 |-> Attention[k]] BY <1>1 DEF Attention
  <2>4. Attention \in [1 .. 9 -> S] BY <1>1, <2>2, <2>3
  <2> QED BY <2>4, AsSequence
<1>t. Ffn \in Seq(S)
  <2>1. \A k \in 1 .. 5 : k = 1 \/ k = 2 \/ k = 3 \/ k = 4 \/ k = 5
    OBVIOUS
  <2>2. \A k \in 1 .. 5 : Ffn[k] \in S BY <2>1 DEF Ffn
  <2>3. Ffn = [k \in 1 .. 5 |-> Ffn[k]] BY <1>0 DEF Ffn
  <2>4. Ffn \in [1 .. 5 -> S] BY <1>0, <2>2, <2>3
  <2> QED BY <2>4, AsSequence
<1> HIDE DEF S
<1>2. Sites \in Seq(S) /\ DOMAIN Sites = 1 .. 14 /\ Len(Sites) = 14
      /\ \A k \in 1 .. 14 : Sites[k] = IF k <= 9 THEN Attention[k] ELSE Ffn[k - 9]
  <2> DEFINE a == Attention
             b == Ffn
  <2>1. a \in Seq(S) /\ b \in Seq(S) /\ Len(a) = 9 /\ Len(b) = 5 BY <1>0, <1>1, <1>s, <1>t
  <2> HIDE DEF a, b
  <2>2. /\ a \o b \in Seq(S) /\ DOMAIN (a \o b) = 1 .. 14 /\ Len(a \o b) = 14
        /\ \A k \in 1 .. 14 : (a \o b)[k] = IF k <= 9 THEN a[k] ELSE b[k - 9]
    BY <2>1, NineAndFive
  <2> QED BY <2>2 DEF Sites, a, b
<1>3. /\ Attention[1] = "norm" /\ Attention[2] = "Q" /\ Attention[3] = "K" /\ Attention[4] = "V"
      /\ Attention[5] = "attn_out" /\ Attention[6] = "Wo_product" /\ Attention[7] = "attn_proj"
      /\ Attention[8] = "resid1" /\ Attention[9] = "ffn_out"
  BY DEF Attention
<1>4. /\ Ffn[1] = "ffn_norm" /\ Ffn[2] = "gate" /\ Ffn[3] = "up" /\ Ffn[4] = "fused" /\ Ffn[5] = "down"
  BY DEF Ffn
<1>5. /\ Sites[1] = Attention[1] /\ Sites[2] = Attention[2] /\ Sites[3] = Attention[3]
      /\ Sites[4] = Attention[4] /\ Sites[5] = Attention[5] /\ Sites[6] = Attention[6]
      /\ Sites[7] = Attention[7] /\ Sites[8] = Attention[8] /\ Sites[9] = Attention[9]
  BY <1>2
<1>6. /\ Sites[10] = Ffn[1] /\ Sites[11] = Ffn[2] /\ Sites[12] = Ffn[3] /\ Sites[13] = Ffn[4]
      /\ Sites[14] = Ffn[5]
  BY <1>2
<1> QED BY <1>0, <1>1, <1>2, <1>3, <1>4, <1>5, <1>6 DEF S

(* The names of the temporaries.                                           *)
LEMMA LocalNames ==
  Local = {"norm", "Q", "K", "V", "attn_out", "Wo_product", "attn_proj", "resid1", "ffn_out",
           "ffn_norm", "gate", "up", "fused", "down"}
<1> DEFINE N == {"norm", "Q", "K", "V", "attn_out", "Wo_product", "attn_proj", "resid1", "ffn_out",
                 "ffn_norm", "gate", "up", "fused", "down"}
<1>1. Local = {Sites[k] : k \in 1 .. 14} BY SiteList DEF Local, ToSet
<1>2. \A k \in 1 .. 14 : k = 1 \/ k = 2 \/ k = 3 \/ k = 4 \/ k = 5 \/ k = 6 \/ k = 7 \/ k = 8
       \/ k = 9 \/ k = 10 \/ k = 11 \/ k = 12 \/ k = 13 \/ k = 14
  OBVIOUS
<1>3. \A k \in 1 .. 14 : Sites[k] \in N BY <1>2, SiteList
<1>4. \A x \in N : \E k \in 1 .. 14 : x = Sites[k] BY SiteList
<1> HIDE DEF N
<1>5. {Sites[k] : k \in 1 .. 14} = N BY <1>3, <1>4
<1> QED BY <1>1, <1>5 DEF N

(* Each site has its own temporary.                                        *)
LEMMA SitesApart == \A j, k \in 1 .. 14 : Sites[j] = Sites[k] => j = k
<1> DEFINE Number == [norm |-> 1, Q |-> 2, K |-> 3, V |-> 4, attn_out |-> 5, Wo_product |-> 6,
                      attn_proj |-> 7, resid1 |-> 8, ffn_out |-> 9, ffn_norm |-> 10, gate |-> 11,
                      up |-> 12, fused |-> 13, down |-> 14]
<1>1. /\ Number["norm"] = 1 /\ Number["Q"] = 2 /\ Number["K"] = 3 /\ Number["V"] = 4
      /\ Number["attn_out"] = 5 /\ Number["Wo_product"] = 6 /\ Number["attn_proj"] = 7
      /\ Number["resid1"] = 8 /\ Number["ffn_out"] = 9 /\ Number["ffn_norm"] = 10
      /\ Number["gate"] = 11 /\ Number["up"] = 12 /\ Number["fused"] = 13 /\ Number["down"] = 14
  OBVIOUS
<1> HIDE DEF Number
<1>2. \A k \in 1 .. 14 : k = 1 \/ k = 2 \/ k = 3 \/ k = 4 \/ k = 5 \/ k = 6 \/ k = 7 \/ k = 8
       \/ k = 9 \/ k = 10 \/ k = 11 \/ k = 12 \/ k = 13 \/ k = 14
  OBVIOUS
<1>3. \A k \in 1 .. 14 : Number[Sites[k]] = k BY <1>1, <1>2, SiteList
<1> QED BY <1>3

(* Clean-up lists name each temporary once.                                *)
NamesOnce(s) == s \in Seq(Local) /\ \A j, k \in DOMAIN s : s[j] = s[k] => j = k

(* The clean-up lists of the layer.                                        *)
LEMMA CleanUpLists ==
  /\ NamesOnce(FreedOnFailure("norm")) /\ ToSet(FreedOnFailure("norm")) = {}
  /\ NamesOnce(FreedOnFailure("attn_out"))
  /\ ToSet(FreedOnFailure("attn_out")) = {"norm", "Q", "K", "V"}
  /\ NamesOnce(FreedOnFailure("attn_proj"))
  /\ ToSet(FreedOnFailure("attn_proj")) = {"norm", "attn_out", "Q", "K", "V"}
  /\ NamesOnce(FreedOnFailure("resid1"))
  /\ ToSet(FreedOnFailure("resid1")) = {"norm", "attn_out", "attn_proj", "Q", "K", "V"}
  /\ NamesOnce(FreedOnFailure("ffn_out"))
  /\ ToSet(FreedOnFailure("ffn_out")) = {"norm", "attn_out", "Q", "K", "V"}
  /\ NamesOnce(Ffn) /\ ToSet(Ffn) = {"ffn_norm", "gate", "up", "fused", "down"}
  /\ NamesOnce(LayerOrder)
  /\ ToSet(LayerOrder) = {"norm", "attn_out", "attn_proj", "resid1", "ffn_out", "Q", "K", "V"}
<1>1. FreedOnFailure("norm") = <<>> BY DEF FreedOnFailure
<1>2. FreedOnFailure("attn_out") = <<"norm", "Q", "K", "V">> BY DEF FreedOnFailure
<1>3. FreedOnFailure("attn_proj") = <<"norm", "attn_out", "Q", "K", "V">> BY DEF FreedOnFailure
<1>4. FreedOnFailure("resid1") = <<"norm", "attn_out", "attn_proj", "Q", "K", "V">> BY DEF FreedOnFailure
<1>5. FreedOnFailure("ffn_out") = <<"norm", "attn_out", "Q", "K", "V">> BY DEF FreedOnFailure
<1>6. NamesOnce(<<>>) /\ ToSet(<<>>) = {} BY DEF NamesOnce, ToSet
<1>9. NamesOnce(<<"norm", "Q", "K", "V">>) /\ ToSet(<<"norm", "Q", "K", "V">>) = {"norm", "Q", "K", "V"}
  BY LocalNames DEF NamesOnce, ToSet
<1>10. NamesOnce(<<"norm", "attn_out", "Q", "K", "V">>)
       /\ ToSet(<<"norm", "attn_out", "Q", "K", "V">>) = {"norm", "attn_out", "Q", "K", "V"}
  BY LocalNames DEF NamesOnce, ToSet
<1>11. NamesOnce(Ffn) /\ ToSet(Ffn) = {"ffn_norm", "gate", "up", "fused", "down"}
  BY LocalNames DEF NamesOnce, ToSet, Ffn
<1>12. NamesOnce(<<"norm", "attn_out", "attn_proj", "Q", "K", "V">>)
       /\ ToSet(<<"norm", "attn_out", "attn_proj", "Q", "K", "V">>)
            = {"norm", "attn_out", "attn_proj", "Q", "K", "V"}
  BY LocalNames DEF NamesOnce, ToSet
<1>13. NamesOnce(LayerOrder)
       /\ ToSet(LayerOrder) = {"norm", "attn_out", "attn_proj", "resid1", "ffn_out", "Q", "K", "V"}
  BY LocalNames DEF NamesOnce, ToSet, LayerOrder
<1> QED BY <1>1, <1>2, <1>3, <1>4, <1>5, <1>6, <1>9, <1>10, <1>11, <1>12, <1>13

(* The pointers at such names.                                             *)
LEMMA OwnValues ==
  ASSUME local \in [Local -> Pointer], Once(local), NEW s, NamesOnce(s)
  PROVE  /\ Values(s) \in Seq(Pointer) /\ Once(Values(s))
         /\ Own(Values(s)) = {local[v] : v \in ToSet(s)} \ {Null}
         /\ Own(Values(s)) \subseteq Own(local)
<1>1. DOMAIN s = 1 .. Len(s) /\ Len(s) \in Nat /\ \A k \in 1 .. Len(s) : s[k] \in Local
  BY DEF NamesOnce
<1>2. DOMAIN Values(s) = 1 .. Len(s) /\ \A k \in 1 .. Len(s) : Values(s)[k] = local[s[k]]
  BY <1>1 DEF Values
<1>3. Values(s) \in Seq(Pointer) BY <1>1 DEF Values
<1>4. Once(Values(s)) BY <1>1, <1>2 DEF Once, NamesOnce
<1>5. Own(Values(s)) = {local[v] : v \in ToSet(s)} \ {Null}
  BY <1>1, <1>2 DEF Own, ToSet
<1>6. Own(Values(s)) \subseteq Own(local) BY <1>1, <1>2 DEF Own
<1> QED BY <1>3, <1>4, <1>5, <1>6

(* Where the code is, or will be when the tensors of tofree are freed.     *)
Loc == IF pc = "free" THEN after ELSE pc
Opening == {"opening", "cloning", "reread", "normalize"}
Places == Buffers \cup Opening \cup {"closed", "cache", "idle", "loop", "layer", "layerEnd",
                                    "prefilled", "sample", "logits"}

Control ==
  /\ pc \in Places \cup {"free"} /\ Loc \in Places
  /\ tofree \in Seq(Pointer) /\ Once(tofree)
  /\ pc = "free" <=> Own(tofree) # {}

Typed ==
  /\ stage \in {"prefill", "decode"} /\ site \in Nat
  /\ weights \in Seq(Pointer) /\ Len(weights) \in Projections .. Projections + WeightMax
  /\ Once(weights) /\ \A k \in DOMAIN weights : k > Projections => weights[k] # Null
  /\ kv \in Seq(Impl) /\ Len(kv) <= 2 /\ Once(kv)
  /\ buf \in [Buffers -> Pointer] /\ Once(buf)
  /\ clone \in Pointer /\ in \in Pointer
  /\ local \in [Local -> Pointer] /\ Once(local)

(* Which pointers can be set where.                                        *)
Placed ==
  /\ Loc \in Opening \cup {"closed"} => kv = <<>>
  /\ Loc = "cache" => Len(kv) <= 1
  /\ clone # Null => stage = "decode" /\ Loc \notin Opening \cup {"closed", "cache", "idle"}
  /\ Loc = "prefilled" => stage = "prefill"
  /\ in # Null => Loc \in {"layer_buf_a", "layer_buf_b", "layer", "layerEnd"}
  /\ Loc \notin Opening \cup {"layer"} => site = 0
  /\ Loc = "cloning" => site <= Projections
  /\ Loc = "reread" => site < Projections
  /\ Loc \in {"closed", "opening"} => \A k \in 1 .. Projections : weights[k] = Null
  /\ Loc = "cloning" => \A k \in 1 .. Projections : k > site => weights[k] = Null

LocalsPlaced ==
  /\ \A v \in Local : local[v] # Null => Loc \in {"layer", "layerEnd"} /\ v # "Wo_product"
  /\ Loc = "layerEnd" => \A v \in ToSet(Ffn) : local[v] = Null
  /\ Loc = "layer" => site <= 14 /\ \A k \in 1 .. 14 : k > site => local[Sites[k]] = Null

(* The tensors in use, apart in the hands of seven owners, but for those   *)
(* that are lost.                                                          *)
Apart(W, K, B, L, T, C, I) ==
  /\ W \cap (K \cup B \cup L \cup T \cup C \cup I) = {}
  /\ K \cap (B \cup L \cup T \cup C \cup I) = {}
  /\ B \cap (L \cup T \cup C \cup I) = {}
  /\ L \cap (T \cup C \cup I) = {}
  /\ T \cap (C \cup I) = {}
  /\ C \cap I = {}

Owns(W, K, B, L, T, C, I, live, gone) ==
  /\ Apart(W, K, B, L, T, C, I)
  /\ (W \cup K \cup B \cup L \cup T \cup C \cup I) \cap gone = {}
  /\ live = W \cup K \cup B \cup L \cup T \cup C \cup I \cup gone

Ptr(p) == {p} \ {Null}
Owning ==
  Owns(Own(weights), Own(kv), Own(buf), Own(local), Own(tofree), Ptr(clone), Ptr(in), Live, lost)

Inv == Control /\ Typed /\ Placed /\ LocalsPlaced /\ Owning

(* One more tensor, in the hands of one of them.                           *)
LEMMA OwnsMore ==
  ASSUME NEW W, NEW K, NEW B, NEW L, NEW T, NEW C, NEW I, NEW live, NEW gone,
         Owns(W, K, B, L, T, C, I, live, gone), NEW i, i \notin live
  PROVE  /\ Owns(W \cup {i}, K, B, L, T, C, I, live \cup {i}, gone)
         /\ Owns(W, K \cup {i}, B, L, T, C, I, live \cup {i}, gone)
         /\ Owns(W, K, B \cup {i}, L, T, C, I, live \cup {i}, gone)
         /\ Owns(W, K, B, L \cup {i}, T, C, I, live \cup {i}, gone)
         /\ Owns(W, K, B, L, T \cup {i}, C, I, live \cup {i}, gone)
         /\ Owns(W, K, B, L, T, C \cup {i}, I, live \cup {i}, gone)
         /\ Owns(W, K, B, L, T, C, I \cup {i}, live \cup {i}, gone)
<1> USE DEF Owns, Apart
<1>1. Owns(W \cup {i}, K, B, L, T, C, I, live \cup {i}, gone) OBVIOUS
<1>2. Owns(W, K \cup {i}, B, L, T, C, I, live \cup {i}, gone) OBVIOUS
<1>3. Owns(W, K, B \cup {i}, L, T, C, I, live \cup {i}, gone) OBVIOUS
<1>4. Owns(W, K, B, L \cup {i}, T, C, I, live \cup {i}, gone) OBVIOUS
<1>5. Owns(W, K, B, L, T \cup {i}, C, I, live \cup {i}, gone) OBVIOUS
<1>6. Owns(W, K, B, L, T, C \cup {i}, I, live \cup {i}, gone) OBVIOUS
<1>7. Owns(W, K, B, L, T, C, I \cup {i}, live \cup {i}, gone) OBVIOUS
<1> HIDE DEF Owns
<1> QED BY <1>1, <1>2, <1>3, <1>4, <1>5, <1>6, <1>7

(* What an owner gives up is about to be freed.                            *)
LEMMA OwnsMoved ==
  ASSUME NEW W, NEW K, NEW B, NEW L, NEW T, NEW C, NEW I, NEW live, NEW gone,
         Owns(W, K, B, L, T, C, I, live, gone),
         NEW w, NEW k, NEW b, NEW l, NEW t, NEW c, NEW j,
         w \subseteq W, k \subseteq K, b \subseteq B, l \subseteq L, c \subseteq C, j \subseteq I,
         t = T \cup (W \ w) \cup (K \ k) \cup (B \ b) \cup (L \ l) \cup (C \ c) \cup (I \ j)
  PROVE  Owns(w, k, b, l, t, c, j, live, gone)
<1>1. Apart(w, k, b, l, t, c, j) BY DEF Owns, Apart
<1>2. w \cup k \cup b \cup l \cup t \cup c \cup j = W \cup K \cup B \cup L \cup T \cup C \cup I
  OBVIOUS
<1> QED BY <1>1, <1>2 DEF Owns

(* Of what the layer and its caller give up, not all is about to be freed. *)
LEMMA OwnsLost ==
  ASSUME NEW W, NEW K, NEW B, NEW L, NEW C, NEW I, NEW live, NEW gone,
         Owns(W, K, B, L, {}, C, I, live, gone),
         NEW t, t \subseteq L \cup C \cup I
  PROVE  Owns(W, K, B, {}, t, {}, {}, live, gone \cup ((L \cup C \cup I) \ t))
BY DEF Owns, Apart

(* A weight is no longer named.                                            *)
LEMMA OwnsDropped ==
  ASSUME NEW W, NEW K, NEW B, NEW L, NEW T, NEW C, NEW I, NEW live, NEW gone,
         Owns(W, K, B, L, T, C, I, live, gone),
         NEW w, NEW x, w \subseteq W, x = W \ w
  PROVE  Owns(w, K, B, L, T, C, I, live, gone \cup x)
BY DEF Owns, Apart

(* The next tensor is freed.                                               *)
LEMMA OwnsFreed ==
  ASSUME NEW W, NEW K, NEW B, NEW L, NEW T, NEW C, NEW I, NEW live, NEW gone,
         Owns(W, K, B, L, T, C, I, live, gone), NEW i \in T
  PROVE  Owns(W, K, B, L, T \ {i}, C, I, live \ {i}, gone)
BY DEF Owns, Apart

(* What the temporaries own.                                               *)
LEMMA LocalsOwned ==
  ASSUME local \in [Local -> Pointer]
  PROVE  Own(local) = {local[v] : v \in Local} \ {Null}
BY DEF Own

(* Going on, at once or when the clean-up is done.                         *)
LEMMA GotoControl ==
  ASSUME Control, pc # "free", NEW next \in Places, Goto(next)
  PROVE  Control' /\ Loc' = next /\ Own(tofree') = {} /\ tofree' = tofree /\ Loc = pc /\ Own(tofree) = {}
<1>1. next # "free" BY DEF Places, Opening, Buffers
<1> QED BY <1>1 DEF Control, Loc, Goto

(* Going on after the tensors of s are freed.                              *)
LEMMA FreeThenControl ==
  ASSUME NEW s \in Seq(Pointer), Once(s), NEW next \in Places, FreeThen(s, next)
  PROVE  Control' /\ Loc' = next /\ Own(tofree') = Own(s)
<1>0. next # "free" BY DEF Places, Opening, Buffers
<1>1. CASE Pending(s)
  BY <1>0, <1>1, OwnPending DEF Control, Loc, FreeThen
<1>2. CASE ~Pending(s)
  <2>1. Own(s) = {} /\ <<>> \in Seq(Pointer) BY <1>2, OwnPending
  <2>2. tofree' = <<>> /\ pc' = next /\ after' = next BY <1>2 DEF FreeThen
  <2> QED BY <1>0, <2>1, <2>2, OwnNothing DEF Control, Loc
<1> QED BY <1>1, <1>2

(* Staying where one is.                                                   *)
LEMMA SameControl ==
  ASSUME Control, UNCHANGED <<pc, tofree, after>>
  PROVE  Control' /\ Loc' = Loc /\ Own(tofree') = Own(tofree)
BY DEF Control, Loc

Ok == Inv' /\ [Mem!Next]_(Mem!vars)

(* Freeing is no place of its own.                                         *)
LEMMA NoPlaceIsFree == "free" \notin Places
BY DEF Places, Opening, Buffers

(* Outside the layer the temporaries are null, and stay so.                *)
LEMMA QuietLocals ==
  ASSUME Typed, LocalsPlaced, local' = local, Loc \notin {"layer", "layerEnd"},
         Loc' = "layer" => site' <= 14
  PROVE  LocalsPlaced'
<1>1. \A v \in Local : local[v] = Null BY DEF LocalsPlaced
<1>2. ToSet(Ffn) \subseteq Local /\ \A k \in 1 .. 14 : Sites[k] \in Local
  BY SiteList, CleanUpLists, LocalNames DEF Local, ToSet
<1> QED BY <1>1, <1>2 DEF LocalsPlaced

(* minxfmr_open begins.                                                    *)
LEMMA OpenOk ==
  ASSUME Inv, MP!Inv, Open
  PROVE  Ok
<1>1. Keeps BY UnchangedKeeps DEF Open
<1>2. "opening" \in Places /\ pc = "closed" /\ pc # "free" BY DEF Places, Opening, Open
<1>3. Control' /\ Loc' = "opening" /\ Own(tofree') = {} /\ Own(tofree) = {} /\ Loc = "closed"
  BY <1>2, GotoControl DEF Open, Inv
<1>4. Typed' BY DEF Inv, Typed, Open, ptrVars
<1>5. Placed' BY <1>3 DEF Inv, Typed, Placed, Opening, Open, ptrVars
<1>6. LocalsPlaced' BY <1>3, QuietLocals DEF Inv, Open, ptrVars
<1>7. Owning' BY <1>1, <1>3 DEF Inv, Owning, Keeps, Open, ptrVars
<1> QED BY <1>1, <1>3, <1>4, <1>5, <1>6, <1>7 DEF Ok, Inv, Keeps, Open

(* Opening goes on, and nothing changes hands.                             *)
LEMMA OnwardOk ==
  ASSUME Inv, Keeps, pc \in Opening, NEW next \in Opening \cup {"cache"}, Goto(next), site' \in Nat,
         UNCHANGED <<weights, kv, buf, clone, in, local, stage, lost>>,
         next = "opening" => pc = "opening",
         next = "cloning" => site' <= Projections
                             /\ (pc = "opening" \/ (pc = "cloning" /\ site' >= site)),
         next = "reread" => site' < Projections,
         next = "cache" => site' = 0
  PROVE  Ok
<1>1. next \in Places /\ pc # "free" /\ Loc = pc BY DEF Places, Opening, Loc
<1>2. Control' /\ Loc' = next /\ Own(tofree') = {} /\ Own(tofree) = {}
  BY <1>1, GotoControl DEF Inv
<1>3. Typed' BY DEF Inv, Typed
<1>4. Placed'
  <2>1. kv = <<>> /\ clone = Null /\ in = Null BY <1>1 DEF Inv, Placed, Opening
  <2>2. next = "opening" => \A k \in 1 .. Projections : weights'[k] = Null
    BY <1>1 DEF Inv, Placed
  <2>3. next = "cloning" => \A k \in 1 .. Projections : k > site' => weights'[k] = Null
    <3>1. site \in Nat /\ site' \in Nat BY DEF Inv, Typed
    <3>2. \A k \in 1 .. Projections : k > site' /\ site' >= site => k > site BY <3>1
    <3> QED BY <1>1, <3>2 DEF Inv, Placed
  <2>4. Len(kv') = 0 BY <2>1
  <2> QED BY <1>2, <2>1, <2>2, <2>3, <2>4 DEF Placed, Opening
<1>5. LocalsPlaced' BY <1>1, <1>2, QuietLocals DEF Inv, Opening
<1>6. Owning' BY <1>2 DEF Inv, Owning, Keeps
<1> QED BY <1>2, <1>3, <1>4, <1>5, <1>6 DEF Ok, Inv, Keeps

(* The reader adds a weight to the context.                                *)
LEMMA LoadWeightOk ==
  ASSUME Inv, MP!Inv, LoadWeight
  PROVE  Ok
<1>1. PICK i \in Impl : AllocHeap(i, WeightBytes) /\ weights' = Append(weights, i)
  BY DEF LoadWeight, Fresh
<1>0. /\ pc = "opening" /\ Len(weights) < Projections + WeightMax /\ site' = 0
      /\ UNCHANGED <<kv, buf, clone, in, local, pc, tofree, after, stage, lost>>
  BY DEF LoadWeight, countVars
<1>2. i \in Impl /\ i \notin Live /\ Live' = Live \cup {i} /\ [Mem!Next]_(Mem!vars)
  BY <1>1, AllocHeapGains DEF Gains
<1>3. Control' /\ Loc' = "opening" /\ Own(tofree') = Own(tofree) /\ Loc = "opening"
  BY <1>0, SameControl DEF Inv, Loc
<1>4. i \notin Own(weights) /\ weights \in Seq(Pointer) /\ Once(weights)
  BY <1>2 DEF Inv, Owning, Owns, Typed
<1>5. weights' \in Seq(Pointer) /\ Own(weights') = Own(weights) \cup {i} /\ Once(weights')
  BY <1>1, <1>2, <1>4, OwnAppended DEF Pointer
<1> DEFINE n == Len(weights)
<1>6. n \in Nat /\ n \in Projections .. Projections + WeightMax /\ DOMAIN weights = 1 .. n
      /\ Len(weights') = n + 1 /\ DOMAIN weights' = 1 .. n + 1
      /\ weights'[n + 1] = i /\ \A k \in 1 .. n : weights'[k] = weights[k]
  BY <1>1, <1>2, <1>4 DEF Inv, Typed, Pointer
<1>7. Projections \in Nat /\ WeightMax \in Nat /\ n < Projections + WeightMax /\ i # Null
  BY <1>0, <1>2, UseAssumption
<1> HIDE DEF n
<1>8. Typed'
  <2>1. Len(weights') \in Projections .. Projections + WeightMax BY <1>6, <1>7
  <2>2. \A k \in 1 .. n : k > Projections => weights[k] # Null BY <1>6 DEF Inv, Typed
  <2>3. \A k \in 1 .. n + 1 : k \in 1 .. n \/ k = n + 1 BY <1>6
  <2>4. \A k \in DOMAIN weights' : k > Projections => weights'[k] # Null
    BY <1>6, <1>7, <2>2, <2>3
  <2> QED BY <1>0, <1>5, <2>1, <2>4 DEF Inv, Typed
<1>9. Placed'
  <2>1. \A k \in 1 .. Projections : weights[k] = Null BY <1>3 DEF Inv, Placed
  <2>2. \A k \in 1 .. Projections : k \in 1 .. n BY <1>6, <1>7
  <2>3. \A k \in 1 .. Projections : weights'[k] = Null BY <1>6, <2>1, <2>2
  <2> QED BY <1>0, <1>3, <2>3 DEF Inv, Placed, Opening
<1>10. LocalsPlaced' BY <1>0, <1>3, QuietLocals DEF Inv
<1>11. Owning'
  <2>1. Owns(Own(weights) \cup {i}, Own(kv), Own(buf), Own(local), Own(tofree), Ptr(clone), Ptr(in),
             Live', lost)
    BY <1>2, OwnsMore DEF Inv, Owning
  <2> QED BY <1>0, <1>3, <1>5, <2>1 DEF Owning
<1> QED BY <1>2, <1>3, <1>8, <1>9, <1>10, <1>11 DEF Ok, Inv

(* The first elements of a sequence.                                       *)
LEMMA Prefix ==
  ASSUME NEW S, NEW s \in Seq(S), NEW m \in Nat, m <= Len(s)
  PROVE  /\ SubSeq(s, 1, m) \in Seq(S) /\ Len(SubSeq(s, 1, m)) = m
         /\ \A k \in 1 .. m : SubSeq(s, 1, m)[k] = s[k]
OBVIOUS

(* All but the last of a list.                                             *)
LEMMA OwnFront ==
  ASSUME NEW s \in Seq(Pointer), Once(s), Len(s) > 0
  PROVE  /\ Front(s) \in Seq(Pointer) /\ Len(Front(s)) = Len(s) - 1
         /\ DOMAIN Front(s) = 1 .. Len(s) - 1 /\ \A k \in 1 .. Len(s) - 1 : Front(s)[k] = s[k]
         /\ Once(Front(s)) /\ Own(Front(s)) = Own(s) \ {Last(s)}
<1> DEFINE n == Len(s)
           f == Front(s)
<1>1. n \in Nat /\ n > 0 /\ DOMAIN s = 1 .. n /\ Last(s) = s[n] BY DEF Last
<1>2. f \in Seq(Pointer) /\ Len(f) = n - 1 /\ \A k \in 1 .. n - 1 : f[k] = s[k]
  <2>1. f = SubSeq(s, 1, n - 1) BY DEF Front
  <2>2. n - 1 \in Nat /\ n - 1 <= n BY <1>1
  <2> DEFINE m == n - 1
  <2>3. m \in Nat /\ m <= Len(s) BY <2>2
  <2> HIDE DEF m, f
  <2>4. /\ SubSeq(s, 1, m) \in Seq(Pointer) /\ Len(SubSeq(s, 1, m)) = m
        /\ \A k \in 1 .. m : SubSeq(s, 1, m)[k] = s[k]
    BY <2>3, Prefix
  <2>5. f = SubSeq(s, 1, m) BY <2>1 DEF m
  <2>6. f \in Seq(Pointer) /\ Len(f) = m /\ \A k \in 1 .. m : f[k] = s[k] BY <2>4, <2>5
  <2> QED BY <2>6 DEF m
<1>3. DOMAIN f = 1 .. n - 1 BY <1>2
<1> HIDE DEF n, f
<1>4. \A k \in 1 .. n : k \in 1 .. n - 1 \/ k = n BY <1>1
<1>5. \A k \in 1 .. n - 1 : k \in 1 .. n /\ k # n BY <1>1
<1>6. n \in 1 .. n BY <1>1
<1>7. Once(f) BY <1>1, <1>2, <1>3, <1>5 DEF Once
<1>8. Own(f) \subseteq Own(s) \ {Last(s)}
  <2> SUFFICES ASSUME NEW k \in 1 .. n - 1, f[k] # Null PROVE f[k] \in Own(s) /\ f[k] # Last(s)
    BY <1>3 DEF Own
  <2>1. f[k] = s[k] /\ k \in 1 .. n /\ k # n BY <1>2, <1>5
  <2>2. s[k] # s[n] BY <1>1, <1>6, <2>1 DEF Once
  <2> QED BY <1>1, <2>1, <2>2 DEF Own
<1>9. Own(s) \ {Last(s)} \subseteq Own(f)
  <2> SUFFICES ASSUME NEW k \in 1 .. n, s[k] # Null, s[k] # Last(s) PROVE s[k] \in Own(f)
    BY <1>1 DEF Own
  <2>1. k \in 1 .. n - 1 BY <1>1, <1>4
  <2> QED BY <1>2, <1>3, <2>1 DEF Own
<1>10. /\ f \in Seq(Pointer) /\ Len(f) = n - 1 /\ DOMAIN f = 1 .. n - 1
       /\ \A k \in 1 .. n - 1 : f[k] = s[k]
       /\ Once(f) /\ Own(f) = Own(s) \ {Last(s)}
  BY <1>2, <1>3, <1>7, <1>8, <1>9
<1> QED BY <1>10 DEF n, f

(* A tensor of an incomplete group: nobody names it any more.              *)
LEMMA LoseWeightOk ==
  ASSUME Inv, MP!Inv, LoseWeight
  PROVE  Ok
<1>0. /\ pc = "opening" /\ Len(weights) > Projections /\ site' = 1
      /\ weights' = Front(weights) /\ lost' = lost \cup {Last(weights)}
      /\ UNCHANGED <<memVars, kv, buf, clone, in, local, pc, tofree, after, stage>>
  BY DEF LoseWeight
<1>1. Keeps BY <1>0, UnchangedKeeps
<1>2. Control' /\ Loc' = "opening" /\ Own(tofree') = Own(tofree) /\ Loc = "opening"
  BY <1>0, SameControl DEF Inv, Loc
<1> DEFINE n == Len(weights)
<1>3. /\ n \in Nat /\ n \in Projections .. Projections + WeightMax /\ DOMAIN weights = 1 .. n
      /\ Projections \in Nat /\ Projections > 0 /\ n > Projections /\ n > 0
      /\ weights \in Seq(Pointer) /\ Once(weights)
      /\ WeightMax \in Nat
  BY <1>0, UseAssumption DEF Inv, Typed
<1>4. /\ weights' \in Seq(Pointer) /\ Len(weights') = n - 1 /\ DOMAIN weights' = 1 .. n - 1
      /\ \A k \in 1 .. n - 1 : weights'[k] = weights[k]
      /\ Once(weights') /\ Own(weights') = Own(weights) \ {Last(weights)}
  BY <1>0, <1>3, OwnFront
<1>5. Last(weights) \in Own(weights)
  <2>1. Last(weights) = weights[n] BY DEF Last
  <2>2. weights[n] # Null /\ n \in DOMAIN weights BY <1>3 DEF Inv, Typed
  <2> QED BY <2>1, <2>2 DEF Own
<1> HIDE DEF n
<1>6. Typed'
  <2>1. Len(weights') \in Projections .. Projections + WeightMax BY <1>3, <1>4
  <2>2. \A k \in 1 .. n : k > Projections => weights[k] # Null BY <1>3 DEF Inv, Typed
  <2>3. \A k \in 1 .. n - 1 : k \in 1 .. n BY <1>3
  <2>4. \A k \in DOMAIN weights' : k > Projections => weights'[k] # Null BY <1>4, <2>2, <2>3
  <2> QED BY <1>0, <1>4, <2>1, <2>4 DEF Inv, Typed
<1>7. Placed'
  <2>1. \A k \in 1 .. Projections : weights[k] = Null BY <1>2 DEF Inv, Placed
  <2>2. \A k \in 1 .. Projections : k \in 1 .. n - 1 BY <1>3
  <2>3. \A k \in 1 .. Projections : weights'[k] = Null BY <1>4, <2>1, <2>2
  <2> QED BY <1>0, <1>2, <2>3 DEF Inv, Placed, Opening
<1>8. LocalsPlaced' BY <1>0, <1>2, QuietLocals DEF Inv
<1>9. Owning'
  <2>1. Owns(Own(weights), Own(kv), Own(buf), Own(local), Own(tofree), Ptr(clone), Ptr(in), Live, lost)
    BY DEF Inv, Owning
  <2>2. Own(weights') \subseteq Own(weights) /\ {Last(weights)} = Own(weights) \ Own(weights')
    BY <1>4, <1>5
  <2>3. Owns(Own(weights'), Own(kv), Own(buf), Own(local), Own(tofree), Ptr(clone), Ptr(in), Live,
             lost \cup {Last(weights)})
    BY <2>1, <2>2, OwnsDropped
  <2> QED BY <1>0, <1>1, <1>2, <2>3 DEF Owning, Keeps
<1> QED BY <1>1, <1>2, <1>6, <1>7, <1>8, <1>9 DEF Ok, Inv, Keeps

(* Another tensor becomes the k-th weight.                                 *)
LEMMA WeightReplaced ==
  ASSUME Inv, NEW k \in DOMAIN weights, NEW i \in Impl, i \notin Live, weights' = [weights EXCEPT ![k] = i]
  PROVE  /\ Once(weights') /\ Own(weights') = (Own(weights) \ {weights[k]}) \cup {i}
         /\ (Own(weights) \cup {i}) \ Own(weights') = {weights[k]} \ {Null}
         /\ Own(weights') \subseteq Own(weights) \cup {i}
         /\ weights' \in Seq(Pointer) /\ Len(weights') \in Projections .. Projections + WeightMax
         /\ \A j \in DOMAIN weights' : j > Projections => weights'[j] # Null
         /\ \A j \in 1 .. Projections : j # k => weights'[j] = weights[j]
<1>0. i \notin Own(weights) BY DEF Inv, Owning, Owns
<1>1. /\ weights \in [1 .. Len(weights) -> Pointer] /\ DOMAIN weights = 1 .. Len(weights)
      /\ weights \in Seq(Pointer) /\ Once(weights) /\ k \in 1 .. Len(weights) /\ i \in Pointer
      /\ Len(weights) \in Nat /\ Projections \in Nat /\ i # Null
  BY UseAssumption DEF Inv, Typed, Pointer
<1>2. Once(weights') /\ Own(weights') = (Own(weights) \ {weights[k]}) \cup {i}
  <2> DEFINE D == 1 .. Len(weights)
             f == weights
  <2>1. f \in [D -> Pointer] /\ Once(f) /\ k \in D /\ i \in Impl /\ i \notin Own(f)
    BY <1>0, <1>1
  <2> HIDE DEF D, f
  <2> DEFINE g == [f EXCEPT ![k] = i]
  <2>2. g \in [D -> Pointer] /\ g[k] = i /\ \A j \in D : j # k => g[j] = f[j]
    BY <2>1 DEF Pointer
  <2> HIDE DEF g
  <2>3. Once(g) /\ Own(g) = (Own(f) \ {f[k]}) \cup {i}
    BY <2>1, <2>2, OwnReplaced
  <2> QED BY <2>3 DEF f, g
<1>3. weights' \in Seq(Pointer) /\ Len(weights') = Len(weights) /\ DOMAIN weights' = DOMAIN weights
      /\ weights'[k] = i /\ \A j \in DOMAIN weights : j # k => weights'[j] = weights[j]
  BY <1>1
<1>4. \A j \in DOMAIN weights' : j > Projections => weights'[j] # Null
  BY <1>1, <1>3 DEF Inv, Typed
<1>5. \A j \in 1 .. Projections : j \in DOMAIN weights BY <1>1 DEF Inv, Typed
<1>6. (Own(weights) \cup {i}) \ Own(weights') = {weights[k]} \ {Null}
  <2>1. weights[k] # Null => weights[k] \in Own(weights) BY DEF Own
  <2>2. Null \notin Own(weights) BY DEF Own
  <2> QED BY <1>0, <1>2, <2>1, <2>2
<1>7. Own(weights') \subseteq Own(weights) \cup {i} BY <1>2
<1> QED BY <1>2, <1>3, <1>4, <1>5, <1>6, <1>7 DEF Inv, Typed

(* A weight is transposed or dequantized: the old tensor is freed.         *)
LEMMA ReplaceOk ==
  ASSUME Inv, MP!Inv, NEW k \in DOMAIN weights, weights[k] # Null, Replace(k, pc),
         pc = "normalize" \/ (pc = "opening" /\ k > Projections), site' \in Nat
  PROVE  Ok
<1>1. PICK i \in Impl : Alloc(i, WeightBytes) /\ weights' = [weights EXCEPT ![k] = i]
  BY DEF Replace, Fresh
<1>0. UNCHANGED <<kv, buf, clone, in, local, stage, lost>> /\ FreeThen(<< weights[k] >>, pc)
  BY DEF Replace, countVars
<1>2. i \in Impl /\ i \notin Live /\ Live' = Live \cup {i} /\ [Mem!Next]_(Mem!vars)
  BY <1>1, AllocGains DEF Gains
<1>3. /\ Once(weights') /\ Own(weights') = (Own(weights) \ {weights[k]}) \cup {i}
      /\ (Own(weights) \cup {i}) \ Own(weights') = {weights[k]} \ {Null}
      /\ Own(weights') \subseteq Own(weights) \cup {i}
      /\ weights' \in Seq(Pointer) /\ Len(weights') \in Projections .. Projections + WeightMax
      /\ \A j \in DOMAIN weights' : j > Projections => weights'[j] # Null
      /\ \A j \in 1 .. Projections : j # k => weights'[j] = weights[j]
  BY <1>1, <1>2, WeightReplaced
<1>4. weights[k] \in Pointer BY DEF Inv, Typed
<1>5. << weights[k] >> \in Seq(Pointer) /\ Own(<< weights[k] >>) = {weights[k]} /\ Once(<< weights[k] >>)
  BY <1>4, OwnOne
<1>6. pc \in Places /\ pc # "free" /\ Loc = pc /\ Own(tofree) = {}
  BY DEF Places, Opening, Loc, Inv, Control
<1>7. Control' /\ Loc' = pc /\ Own(tofree') = {weights[k]}
  BY <1>0, <1>5, <1>6, FreeThenControl
<1>8. Typed' BY <1>0, <1>3 DEF Inv, Typed
<1>9. Placed'
  <2>1. pc = "opening" => \A j \in 1 .. Projections : weights'[j] = Null
    <3>1. \A j \in 1 .. Projections : pc = "opening" => j # k
      <4>1. k \in Int /\ Projections \in Int BY UseAssumption DEF Inv, Typed
      <4> QED BY <4>1
    <3> QED BY <1>3, <1>6, <3>1 DEF Inv, Placed
  <2> QED BY <1>0, <1>6, <1>7, <2>1 DEF Inv, Placed, Opening
<1>10. LocalsPlaced' BY <1>0, <1>6, <1>7, QuietLocals DEF Inv
<1>11. Owning'
  <2>1. Owns(Own(weights) \cup {i}, Own(kv), Own(buf), Own(local), {}, Ptr(clone), Ptr(in), Live', lost)
    BY <1>2, <1>6, OwnsMore DEF Inv, Owning
  <2>2. (Own(weights) \cup {i}) \ Own(weights') = {weights[k]} BY <1>3
  <2>3. Owns(Own(weights'), Own(kv), Own(buf), Own(local), {weights[k]}, Ptr(clone), Ptr(in), Live', lost)
    BY <1>3, <2>1, <2>2, OwnsMoved
  <2> QED BY <1>0, <1>7, <2>3 DEF Owning
<1> QED BY <1>2, <1>7, <1>8, <1>9, <1>10, <1>11 DEF Ok, Inv

(* normalize_kv of the reader.                                             *)
LEMMA TransposeLoadedOk ==
  ASSUME Inv, MP!Inv, TransposeLoaded
  PROVE  Ok
<1>1. pc = "opening" /\ Len(weights) > Projections /\ site' = 1 /\ Replace(Len(weights), pc)
  BY DEF TransposeLoaded
<1>2. Len(weights) \in DOMAIN weights /\ weights[Len(weights)] # Null
  BY <1>1, UseAssumption DEF Inv, Typed
<1> QED BY <1>1, <1>2, ReplaceOk

(* normalize_linear_inplace, dequant_tensor_to_f32_inplace.                *)
LEMMA ReplaceWeightOk ==
  ASSUME Inv, MP!Inv, ReplaceWeight
  PROVE  Ok
<1>1. PICK k \in DOMAIN weights :
        pc = "normalize" /\ weights[k] # Null /\ site' = k /\ Replace(k, pc)
  BY DEF ReplaceWeight
<1>2. site' \in Nat BY <1>1 DEF Inv, Typed
<1> QED BY <1>1, <1>2, ReplaceOk

(* The layers are there.                                                   *)
LEMMA LoadsDoneOk ==
  ASSUME Inv, MP!Inv, LoadsDone
  PROVE  Ok
<1>1. Keeps BY UnchangedKeeps DEF LoadsDone
<1>2. Projections \in Nat BY UseAssumption
<1>3. site' \in Nat /\ site' <= Projections BY <1>2 DEF LoadsDone
<1>4. pc = "opening" /\ Goto("cloning") /\ UNCHANGED <<weights, kv, buf, clone, in, local, stage, lost>>
  BY DEF LoadsDone, ptrVars, countVars
<1> QED BY <1>1, <1>3, <1>4, OnwardOk DEF Opening

(* A tensor becomes one of the context's own; what was there is lost.      *)
LEMMA NamedOk ==
  ASSUME Inv, NEW k \in DOMAIN weights, NEW i, Gains(i), weights' = [weights EXCEPT ![k] = i],
         pc \in Opening, NEW next \in {"cloning", "reread", "normalize"}, Goto(next), site' \in Nat,
         UNCHANGED <<kv, buf, clone, in, local, stage>>, lost' = lost \cup ({weights[k]} \ {Null}),
         next = "cloning" => pc = "cloning" /\ site' = k /\ k <= Projections /\ site <= k,
         next = "reread" => site' < Projections
  PROVE  Ok
<1>1. next \in Places /\ pc # "free" /\ Loc = pc BY DEF Places, Opening, Loc
<1>2. Control' /\ Loc' = next /\ Own(tofree') = {} /\ Own(tofree) = {}
  BY <1>1, GotoControl DEF Inv
<1>3. i \in Impl /\ i \notin Live /\ Live' = Live \cup {i} /\ [Mem!Next]_(Mem!vars) BY DEF Gains
<1>4. /\ Once(weights')
      /\ (Own(weights) \cup {i}) \ Own(weights') = {weights[k]} \ {Null}
      /\ Own(weights') \subseteq Own(weights) \cup {i}
      /\ weights' \in Seq(Pointer) /\ Len(weights') \in Projections .. Projections + WeightMax
      /\ \A j \in DOMAIN weights' : j > Projections => weights'[j] # Null
      /\ \A j \in 1 .. Projections : j # k => weights'[j] = weights[j]
  BY <1>3, WeightReplaced
<1>5. Typed' BY <1>4 DEF Inv, Typed
<1>6. Placed'
  <2>1. kv = <<>> /\ clone = Null /\ in = Null BY <1>1 DEF Inv, Placed, Opening
  <2>2. next = "cloning" => \A j \in 1 .. Projections : j > site' => weights'[j] = Null
    <3>1. site \in Nat /\ k \in Nat BY DEF Inv, Typed
    <3>2. next = "cloning" => \A j \in 1 .. Projections : j > site' => j # k /\ j > site BY <3>1
    <3> QED BY <1>1, <1>4, <3>2 DEF Inv, Placed
  <2> QED BY <1>2, <2>1, <2>2 DEF Placed, Opening
<1>7. LocalsPlaced' BY <1>1, <1>2, QuietLocals DEF Inv, Opening
<1>8. Owning'
  <2>1. Owns(Own(weights) \cup {i}, Own(kv), Own(buf), Own(local), {}, Ptr(clone), Ptr(in), Live', lost)
    BY <1>2, <1>3, OwnsMore DEF Inv, Owning
  <2>2. Owns(Own(weights'), Own(kv), Own(buf), Own(local), {}, Ptr(clone), Ptr(in), Live',
             lost \cup ({weights[k]} \ {Null}))
    BY <1>4, <2>1, OwnsDropped
  <2> QED BY <1>2, <2>2 DEF Owning
<1> QED BY <1>2, <1>3, <1>5, <1>6, <1>7, <1>8 DEF Ok, Inv

(* One of the context's own weights is cloned, or stays null.              *)
LEMMA CloneWeightOk ==
  ASSUME Inv, MP!Inv, CloneWeight
  PROVE  Ok
<1>0. /\ pc = "cloning" /\ Loc = "cloning" /\ site < Projections /\ site' = site + 1 /\ Goto("cloning")
      /\ UNCHANGED <<kv, buf, clone, in, local, stage, lost>>
  BY DEF CloneWeight, Goto, Loc
<1>1. site \in Nat /\ Projections \in Nat /\ site + 1 \in DOMAIN weights
      /\ site' \in Nat /\ site' <= Projections /\ site' >= site /\ site + 1 <= Projections
      /\ site + 1 \in 1 .. Projections /\ site + 1 > site /\ site <= site + 1
  BY <1>0, UseAssumption DEF Inv, Typed
<1>2. ASSUME NEW i \in Impl, Alloc(i, WeightBytes), weights' = [weights EXCEPT ![site + 1] = i]
      PROVE  Ok
  <2>1. Gains(i) BY <1>2, AllocGains
  <2>2. weights[site + 1] = Null BY <1>0, <1>1 DEF Inv, Placed
  <2> DEFINE k == site + 1
  <2>3. k \in DOMAIN weights /\ weights' = [weights EXCEPT ![k] = i] /\ site' = k /\ k <= Projections
        /\ site <= k /\ lost' = lost \cup ({weights[k]} \ {Null})
    BY <1>0, <1>1, <1>2, <2>2
  <2> HIDE DEF k
  <2> QED BY <1>0, <1>1, <2>1, <2>3, NamedOk DEF Opening
<1>3. CASE (AllocFails(WeightBytes) \/ CheckFails) /\ UNCHANGED weights
  <2>1. Keeps BY <1>3, FailureKeeps, UnchangedKeeps DEF CheckFails
  <2> QED BY <1>0, <1>1, <1>3, <2>1, OnwardOk DEF Opening
<1> QED BY <1>2, <1>3 DEF CloneWeight, Fresh

(* They are cloned.                                                        *)
LEMMA ClonesDoneOk ==
  ASSUME Inv, MP!Inv, ClonesDone
  PROVE  Ok
<1>1. Keeps BY UnchangedKeeps DEF ClonesDone
<1>2. site' \in Nat /\ site' < Projections BY UseAssumption DEF ClonesDone
<1>3. PICK next \in {"normalize", "reread"} : Goto(next) BY DEF ClonesDone
<1>4. pc = "cloning" /\ UNCHANGED <<weights, kv, buf, clone, in, local, stage, lost>>
  BY DEF ClonesDone, ptrVars, countVars
<1> QED BY <1>1, <1>2, <1>3, <1>4, OnwardOk DEF Opening

(* One of them is read again: a clone there is lost.                       *)
LEMMA RereadOk ==
  ASSUME Inv, MP!Inv, Reread
  PROVE  Ok
<1>0. /\ pc = "reread" /\ Loc = "reread" /\ lost' = lost \cup ({weights[site + 1]} \ {Null})
      /\ site' = (site + 1) % Projections /\ UNCHANGED <<kv, buf, clone, in, local, stage>>
  BY DEF Reread, Loc
<1>1. PICK i \in Impl : AllocHeap(i, WeightBytes) /\ weights' = [weights EXCEPT ![site + 1] = i]
  BY DEF Reread, Fresh
<1>2. Gains(i) BY <1>1, AllocHeapGains
<1>3. site \in Nat /\ site < Projections /\ Projections \in Nat /\ site + 1 \in DOMAIN weights
  BY <1>0, UseAssumption DEF Inv, Typed, Placed, Opening
<1>4. site' \in Nat /\ site' < Projections
  <2> DEFINE n == site + 1
  <2>1. n \in Nat /\ Projections \in Nat /\ Projections > 0 BY <1>3
  <2> HIDE DEF n
  <2>2. n % Projections \in 0 .. Projections - 1 BY <2>1
  <2>3. site' = n % Projections BY <1>0 DEF n
  <2> QED BY <2>1, <2>2, <2>3
<1>5. PICK next \in {"normalize", "reread"} : Goto(next) BY DEF Reread
<1> DEFINE k == site + 1
<1>6. k \in DOMAIN weights /\ weights' = [weights EXCEPT ![k] = i]
      /\ lost' = lost \cup ({weights[k]} \ {Null})
  BY <1>0, <1>1, <1>3
<1> HIDE DEF k
<1> QED BY <1>0, <1>2, <1>4, <1>5, <1>6, NamedOk DEF Opening

(* The weights are there.                                                  *)
LEMMA OpenDoneOk ==
  ASSUME Inv, MP!Inv, OpenDone
  PROVE  Ok
<1>1. Keeps BY UnchangedKeeps DEF OpenDone
<1>2. pc = "normalize" /\ Goto("cache") /\ site' = 0 /\ site' \in Nat
      /\ UNCHANGED <<weights, kv, buf, clone, in, local, stage, lost>>
  BY DEF OpenDone, ptrVars, countVars
<1> QED BY <1>1, <1>2, OnwardOk DEF Opening

(* kvcache_create, one view at a time.                                     *)
LEMMA CacheViewOk ==
  ASSUME Inv, MP!Inv, CacheView
  PROVE  Ok
<1>1. PICK i \in Impl : Mem!CreateView(i) /\ kv' = Append(kv, i)
  BY DEF CacheView, Fresh
<1>2. i \in Impl /\ i \notin Live /\ Live' = Live \cup {i} /\ [Mem!Next]_(Mem!vars)
  BY <1>1, ViewGains DEF Gains
<1>3. PICK next \in {"idle", "cache"} : Goto(next) /\ (next = "cache" <=> Len(kv) # 1)
  BY DEF CacheView
<1>4. next \in Places /\ pc = "cache" /\ pc # "free" BY DEF Places, Opening, CacheView
<1>5. Control' /\ Loc' = next /\ Own(tofree') = {} /\ Own(tofree) = {} /\ Loc = "cache"
  BY <1>3, <1>4, GotoControl DEF Inv
<1>6. i \notin Own(kv) BY <1>2 DEF Inv, Owning, Owns
<1>7. kv' \in Seq(Impl) /\ Own(kv') = Own(kv) \cup {i} /\ Once(kv')
  BY <1>1, <1>2, <1>6, OwnAppended DEF Inv, Typed, Pointer
<1>8. Len(kv') = Len(kv) + 1 /\ Len(kv) \in Nat /\ Len(kv) <= 1
  BY <1>1, <1>5 DEF Inv, Typed, Placed, Opening
<1>9. Typed' BY <1>7, <1>8 DEF Inv, Typed, CacheView
<1>10. Placed'
  <2>5. next = "cache" => Len(kv) # 1 BY Zenon, <1>3
  <2> DEFINE n == Len(kv)
             m == Len(kv')
  <2>6. n \in Nat /\ n <= 1 /\ m = n + 1 BY <1>8
  <2>7. next = "cache" => n # 1 BY <2>5
  <2> HIDE DEF n, m
  <2>8. next = "cache" => m <= 1 BY <2>6, <2>7
  <2>1. next = "cache" => Len(kv') <= 1 BY <2>8 DEF m
  <2>2. clone = Null /\ in = Null /\ site = 0 BY <1>5 DEF Inv, Placed, Opening
  <2>3. clone' = Null /\ in' = Null /\ site' = 0 BY <2>2 DEF CacheView
  <2>4. next \in {"idle", "cache"} BY <1>3
  <2> QED BY <1>5, <2>1, <2>3, <2>4 DEF Placed, Opening
<1>11. LocalsPlaced' BY <1>3, <1>5, QuietLocals DEF Inv, CacheView
<1>12. Owning'
  <2>1. Owns(Own(weights), Own(kv) \cup {i}, Own(buf), Own(local), {}, Ptr(clone), Ptr(in), Live', lost)
    BY <1>2, <1>5, OwnsMore DEF Inv, Owning
  <2> QED BY <1>5, <1>7, <2>1 DEF Owning, CacheView, countVars
<1> QED BY <1>2, <1>5, <1>9, <1>10, <1>11, <1>12 DEF Ok, Inv, CacheView, countVars

(* kvcache_create fails: its views are freed.                              *)
LEMMA CacheFailsOk ==
  ASSUME Inv, MP!Inv, CacheFails
  PROVE  Ok
<1>1. Keeps BY UnchangedKeeps DEF CacheFails, CheckFails
<1>2. kv \in Seq(Pointer) /\ Once(kv) BY DEF Inv, Typed, Pointer
<1>3. Control' /\ Loc' = "idle" /\ Own(tofree') = Own(kv)
  BY <1>2, FreeThenControl DEF CacheFails, Places, Opening
<1>4. Loc = "cache" /\ Own(tofree) = {} BY DEF CacheFails, Loc, Inv, Control
<1>5. kv' = <<>> /\ kv' \in Seq(Impl) /\ Len(kv') = 0 /\ Once(kv') /\ Own(kv') = {}
  BY OwnNothing DEF CacheFails
<1>6. Typed' BY <1>5 DEF Inv, Typed, CacheFails
<1>7. Placed' BY <1>3, <1>4, <1>5 DEF Inv, Placed, Opening, CacheFails
<1>8. LocalsPlaced' BY <1>3, <1>4, QuietLocals DEF Inv, CacheFails
<1>9. Owning'
  BY <1>1, <1>3, <1>4, <1>5, OwnsMoved DEF Inv, Owning, CacheFails, Keeps
<1> QED BY <1>1, <1>3, <1>6, <1>7, <1>8, <1>9 DEF Ok, Inv, Keeps, CacheFails

(* The four buffers, as the code frees them.                               *)
LEMMA OwnBuffers ==
  ASSUME buf \in [Buffers -> Pointer], Once(buf), NEW s, s = [b \in 1 .. 4 |-> buf[BufferOrder[b]]]
  PROVE  s \in Seq(Pointer) /\ Once(s) /\ Own(s) = Own(buf)
<1>1. /\ BufferOrder[1] = "layer_buf_a" /\ BufferOrder[2] = "layer_buf_b"
      /\ BufferOrder[3] = "embed_buf" /\ BufferOrder[4] = "hidden_buf"
  BY DEF BufferOrder
<1>2. \A b \in 1 .. 4 : b = 1 \/ b = 2 \/ b = 3 \/ b = 4 OBVIOUS
<1>3. \A b \in 1 .. 4 : BufferOrder[b] \in Buffers BY <1>1, <1>2 DEF Buffers
<1>4. \A b, c \in 1 .. 4 : BufferOrder[b] = BufferOrder[c] => b = c
  <2> SUFFICES ASSUME NEW b \in 1 .. 4, NEW c \in 1 .. 4, BufferOrder[b] = BufferOrder[c] PROVE b = c
    OBVIOUS
  <2>1. CASE b = 1 BY <1>1, <1>2, <2>1
  <2>2. CASE b = 2 BY <1>1, <1>2, <2>2
  <2>3. CASE b = 3 BY <1>1, <1>2, <2>3
  <2>4. CASE b = 4 BY <1>1, <1>2, <2>4
  <2> QED BY <1>2, <2>1, <2>2, <2>3, <2>4
<1>5. \A b \in Buffers : \E k \in 1 .. 4 : BufferOrder[k] = b BY <1>1 DEF Buffers
<1>6. DOMAIN s = 1 .. 4 /\ \A b \in 1 .. 4 : s[b] = buf[BufferOrder[b]] OBVIOUS
<1>7. s \in Seq(Pointer) BY <1>3
<1>8. Once(s) BY <1>3, <1>4, <1>6 DEF Once
<1>9. Own(s) = Own(buf)
  <2>1. Own(s) \subseteq Own(buf) BY <1>3, <1>6 DEF Own
  <2>2. Own(buf) \subseteq Own(s) BY <1>5, <1>6 DEF Own
  <2> QED BY <2>1, <2>2
<1> QED BY <1>7, <1>8, <1>9

(* A context without weights.                                              *)
LEMMA NoneYet ==
  /\ NoWeights \in Seq(Pointer) /\ Len(NoWeights) \in Projections .. Projections + WeightMax
  /\ \A k \in DOMAIN NoWeights : ~(k > Projections)
  /\ \A k \in 1 .. Projections : NoWeights[k] = Null
<1> DEFINE n == Projections
           s == [k \in 1 .. n |-> Null]
<1>1. n \in Nat /\ WeightMax \in Nat BY UseAssumption
<1> HIDE DEF n
<1>2. s \in [1 .. n -> Pointer] BY DEF Pointer
<1>3. s \in Seq(Pointer) /\ Len(s) = n /\ DOMAIN s = 1 .. n BY <1>1, <1>2, AsSequence
<1>4. Len(s) \in n .. n + WeightMax /\ (\A k \in DOMAIN s : ~(k > n)) /\ \A k \in 1 .. n : s[k] = Null
  BY <1>1, <1>3
<1> QED BY <1>3, <1>4 DEF n, NoWeights

(* minxfmr_close, and an open that fails.                                  *)
LEMMA CloseOk ==
  ASSUME Inv, MP!Inv, Close
  PROVE  Ok
<1>1. Keeps BY UnchangedKeeps DEF Close
<1>2. Loc = pc /\ Loc \in {"idle", "opening", "normalize"} /\ Own(tofree) = {}
  BY DEF Close, Loc, Inv, Control
<1>3. PICK s : s = [b \in 1 .. 4 |-> buf[BufferOrder[b]]] OBVIOUS
<1>4. s \in Seq(Pointer) /\ Once(s) /\ Own(s) = Own(buf) BY <1>3, OwnBuffers DEF Inv, Typed
<1>5. kv \in Seq(Pointer) /\ Once(kv) /\ weights \in Seq(Pointer) /\ Once(weights)
  BY DEF Inv, Typed, Pointer
<1>6. /\ kv \o s \in Seq(Pointer) /\ Once(kv \o s) /\ Own(kv \o s) = Own(kv) \cup Own(buf)
  <2>1. Own(kv) \cap Own(s) = {} BY <1>4 DEF Inv, Owning, Owns, Apart
  <2> QED BY <1>4, <1>5, <2>1, OwnJoined
<1>7. /\ (kv \o s) \o weights \in Seq(Pointer) /\ Once((kv \o s) \o weights)
      /\ Own((kv \o s) \o weights) = (Own(kv) \cup Own(buf)) \cup Own(weights)
  <2>1. Own(kv \o s) \cap Own(weights) = {} BY <1>6 DEF Inv, Owning, Owns, Apart
  <2> QED BY <1>5, <1>6, <2>1, OwnJoined
<1>8. FreeThen((kv \o s) \o weights, "closed") BY <1>3 DEF Close
<1>9. Control' /\ Loc' = "closed" /\ Own(tofree') = (Own(kv) \cup Own(buf)) \cup Own(weights)
  <2>1. "closed" \in Places BY DEF Places, Opening
  <2> QED BY <1>7, <1>8, <2>1, FreeThenControl
<1>10. /\ weights' = NoWeights /\ kv' = <<>> /\ buf' = [b \in Buffers |-> Null] /\ site' = 0
       /\ UNCHANGED <<clone, in, local, stage, lost>>
  BY DEF Close, countVars
<1>11. Own(weights') = {} /\ Own(kv') = {} /\ Own(buf') = {} /\ Once(weights') /\ Once(kv') /\ Once(buf')
  BY <1>10, OwnNothing DEF Own, Once, NoWeights
<1>12. Typed'
  <2>1. <<>> \in Seq(Impl) /\ Len(<<>>) = 0 OBVIOUS
  <2>2. buf' \in [Buffers -> Pointer] BY <1>10 DEF Pointer
  <2> QED BY <1>10, <1>11, <2>1, <2>2, NoneYet DEF Inv, Typed
<1>13. Placed' BY <1>2, <1>9, <1>10, NoneYet DEF Inv, Placed, Opening
<1>14. LocalsPlaced' BY <1>2, <1>9, <1>10, QuietLocals DEF Inv
<1>15. Owning'
  <2>1. Owns({}, {}, {}, Own(local), (Own(kv) \cup Own(buf)) \cup Own(weights), Ptr(clone), Ptr(in),
             Live, lost)
    BY <1>2, OwnsMoved DEF Inv, Owning
  <2> QED BY <1>1, <1>9, <1>10, <1>11, <2>1 DEF Owning, Keeps
<1> QED BY <1>1, <1>9, <1>10, <1>12, <1>13, <1>14, <1>15 DEF Ok, Inv, Keeps

(* minxfmr_generate begins.                                                *)
LEMMA GenerateOk ==
  ASSUME Inv, MP!Inv, Generate
  PROVE  Ok
<1>1. Keeps BY ResetKeeps DEF Generate
<1>2. PICK next \in {"idle", "hidden_buf"} : Goto(next) BY DEF Generate
<1>3. next \in Places /\ pc = "idle" /\ pc # "free" BY DEF Places, Opening, Buffers, Generate
<1>4. Control' /\ Loc' = next /\ Own(tofree') = {} /\ Own(tofree) = {} /\ Loc = "idle"
  BY <1>2, <1>3, GotoControl DEF Inv
<1>5. UNCHANGED <<weights, kv, buf, clone, in, local, site, lost>> /\ stage' = "prefill"
  BY DEF Generate, ptrVars
<1>6. Typed' BY <1>5 DEF Inv, Typed
<1>7. Placed' BY <1>2, <1>4, <1>5 DEF Inv, Placed, Opening
<1>8. LocalsPlaced' BY <1>2, <1>4, <1>5, QuietLocals DEF Inv
<1>9. Owning' BY <1>1, <1>4, <1>5 DEF Inv, Owning, Keeps
<1> QED BY <1>1, <1>4, <1>5, <1>6, <1>7, <1>8, <1>9 DEF Ok, Inv, Keeps

EnsurePair(b, next) ==
  \/ b = "hidden_buf" /\ next = "embed_buf"
  \/ b = "embed_buf" /\ next = "loop"
  \/ b = "layer_buf_a" /\ next = "layer_buf_b"
  \/ b = "layer_buf_b" /\ next = "layer"

(* The view and last_out_prefill, as error paths free them.                *)
LEMMA OwnInClone ==
  ASSUME Inv
  PROVE  /\ << in, clone >> \in Seq(Pointer) /\ Once(<< in, clone >>)
         /\ Own(<< in, clone >>) = Ptr(in) \cup Ptr(clone)
<1>1. in \in Pointer /\ clone \in Pointer BY DEF Inv, Typed
<1>2. in # clone \/ in = Null BY DEF Inv, Owning, Owns, Apart, Ptr
<1>3. Own(<< in, clone >>) = {in, clone} \ {Null} BY <1>1, <1>2, OwnTwo
<1> QED BY <1>1, <1>2, <1>3, OwnTwo DEF Ptr

(* ensure_f32_tensor_shape.                                                *)
LEMMA EnsureOk ==
  ASSUME Inv, MP!Inv, NEW b, NEW next, EnsurePair(b, next), Ensure(b, next)
  PROVE  Ok
<1>0. /\ pc = b /\ b \in Buffers /\ next \in Places /\ pc # "free" /\ Loc = b
      /\ UNCHANGED <<weights, kv, local, site, stage, lost>> /\ Own(tofree) = {}
  BY DEF EnsurePair, Ensure, Places, Opening, Buffers, Loc, Inv, Control
<1>1. site = 0 /\ (next \notin {"layer_buf_b", "layer"} => in = Null)
  BY <1>0 DEF Inv, Placed, Opening, EnsurePair
<1>2. CASE Goto(next) /\ UNCHANGED <<memVars, buf, clone, in, failures>>
  <2>1. Keeps BY <1>2, UnchangedKeeps
  <2>2. Control' /\ Loc' = next /\ Own(tofree') = {} BY <1>0, <1>2, GotoControl DEF Inv
  <2>3. Typed' BY <1>0, <1>2 DEF Inv, Typed
  <2>4. Placed' BY <1>0, <1>1, <1>2, <2>2 DEF Inv, Placed, Opening, EnsurePair
  <2>5. LocalsPlaced' BY <1>0, <1>1, <1>2, <2>2, QuietLocals DEF Inv, EnsurePair
  <2>6. Owning' BY <1>0, <1>2, <2>1, <2>2 DEF Inv, Owning, Keeps
  <2> QED BY <1>0, <2>1, <2>2, <2>3, <2>4, <2>5, <2>6 DEF Ok, Inv, Keeps
<1>3. ASSUME buf[b] = Null, NEW i \in Impl, Alloc(i, RowBytes), buf' = [buf EXCEPT ![b] = i],
             Goto(next), UNCHANGED <<clone, in, failures>>
      PROVE  Ok
  <2>1. i \in Impl /\ i \notin Live /\ Live' = Live \cup {i} /\ [Mem!Next]_(Mem!vars)
    BY <1>3, AllocGains DEF Gains
  <2>2. Control' /\ Loc' = next /\ Own(tofree') = {} BY <1>0, <1>3, GotoControl DEF Inv
  <2>3. /\ buf \in [Buffers -> Pointer] /\ Once(buf) /\ i \notin Own(buf)
    BY <2>1 DEF Inv, Typed, Owning, Owns
  <2>4. buf' \in [Buffers -> Pointer] /\ buf'[b] = i /\ \A c \in Buffers : c # b => buf'[c] = buf[c]
    BY <1>0, <1>3, <2>1, <2>3 DEF Pointer
  <2>5. Once(buf') /\ Own(buf') = (Own(buf) \ {buf[b]}) \cup {i}
    BY <1>0, <2>1, <2>3, <2>4, OwnReplaced
  <2>6. Own(buf') = Own(buf) \cup {i} BY <1>3, <2>5 DEF Own
  <2>7. Typed' BY <1>0, <1>3, <2>4, <2>5 DEF Inv, Typed
  <2>8. Placed' BY <1>0, <1>1, <1>3, <2>2 DEF Inv, Placed, Opening, EnsurePair
  <2>9. LocalsPlaced' BY <1>0, <1>1, <1>3, <2>2, QuietLocals DEF Inv, EnsurePair
  <2>10. Owning'
    <3>1. Owns(Own(weights), Own(kv), Own(buf) \cup {i}, Own(local), {}, Ptr(clone), Ptr(in), Live', lost)
      BY <1>0, <2>1, OwnsMore DEF Inv, Owning
    <3> QED BY <1>0, <1>3, <2>2, <2>6, <3>1 DEF Owning
  <2> QED BY <1>0, <2>1, <2>2, <2>7, <2>8, <2>9, <2>10 DEF Ok, Inv
<1>4. CASE /\ AllocFails(RowBytes) /\ FreeThen(<< in, clone >>, "idle")
           /\ in' = Null /\ clone' = Null /\ UNCHANGED buf
  <2>1. Keeps BY <1>4, FailureKeeps
  <2>2. Control' /\ Loc' = "idle" /\ Own(tofree') = Ptr(in) \cup Ptr(clone)
    BY <1>4, OwnInClone, FreeThenControl DEF Places, Opening
  <2>3. Typed' BY <1>0, <1>4 DEF Inv, Typed, Pointer
  <2>4. Placed' BY <1>0, <1>1, <1>4, <2>2 DEF Inv, Placed, Opening
  <2>5. LocalsPlaced' BY <1>0, <1>4, <2>2, QuietLocals DEF Inv, Buffers
  <2>6. Owning'
    <3>1. Owns(Own(weights), Own(kv), Own(buf), Own(local), Ptr(in) \cup Ptr(clone), {}, {}, Live, lost)
      BY <1>0, OwnsMoved DEF Inv, Owning
    <3>2. Ptr(in') = {} /\ Ptr(clone') = {} BY <1>4 DEF Ptr
    <3> QED BY <1>0, <1>4, <2>1, <2>2, <3>1, <3>2 DEF Owning, Keeps
  <2> QED BY <1>0, <2>1, <2>2, <2>3, <2>4, <2>5, <2>6 DEF Ok, Inv, Keeps
<1> QED BY <1>2, <1>3, <1>4 DEF Ensure, Fresh

(* The four of them.                                                       *)
LEMMA EnsureBuffersOk ==
  ASSUME Inv, MP!Inv, EnsureBuffers
  PROVE  Ok
BY EnsureOk DEF EnsureBuffers, EnsurePair

(* A forward pass begins.                                                  *)
LEMMA ForwardOk ==
  ASSUME Inv, MP!Inv, Forward
  PROVE  Ok
<1>0. /\ pc = "loop" /\ pc # "free" /\ Loc = "loop" /\ Goto("layer_buf_a")
      /\ UNCHANGED <<weights, kv, buf, clone, local, site, stage, lost>>
  BY DEF Forward, Loc
<1>1. Control' /\ Loc' = "layer_buf_a" /\ Own(tofree') = {} /\ Own(tofree) = {}
  <2>1. "layer_buf_a" \in Places BY DEF Places, Opening, Buffers
  <2> QED BY <1>0, <2>1, GotoControl DEF Inv
<1>2. in = Null /\ Ptr(in) = {} BY <1>0 DEF Inv, Placed, Opening, Ptr
<1>3. Placed' BY <1>0, <1>1 DEF Inv, Placed, Opening
<1>4. LocalsPlaced' BY <1>0, <1>1, QuietLocals DEF Inv
<1>5. ASSUME NEW i \in Impl, Mem!CreateView(i), in' = i
      PROVE  Ok
  <2>1. i \in Impl /\ i \notin Live /\ Live' = Live \cup {i} /\ [Mem!Next]_(Mem!vars)
    BY <1>5, ViewGains DEF Gains
  <2>2. Typed' BY <1>0, <1>5 DEF Inv, Typed, Pointer
  <2>3. Ptr(in') = {} \cup {i} BY <1>5, UseAssumption DEF Ptr
  <2>4. Owns(Own(weights), Own(kv), Own(buf), Own(local), {}, Ptr(clone), {} \cup {i}, Live', lost)
    BY <1>1, <1>2, <2>1, OwnsMore DEF Inv, Owning
  <2>5. Owning' BY <1>0, <1>1, <2>3, <2>4 DEF Owning
  <2> QED BY <1>0, <1>1, <1>3, <1>4, <2>1, <2>2, <2>5 DEF Ok, Inv
<1>6. CASE UNCHANGED <<memVars, in>>
  <2>1. Keeps BY <1>6, UnchangedKeeps
  <2>2. Typed' BY <1>0, <1>6 DEF Inv, Typed
  <2>3. Owning' BY <1>0, <1>1, <1>6, <2>1 DEF Inv, Owning, Keeps
  <2> QED BY <1>0, <1>1, <1>3, <1>4, <2>1, <2>2, <2>3 DEF Ok, Inv, Keeps
<1> QED BY <1>5, <1>6 DEF Forward, Fresh

(* A prompt without tokens.                                                *)
LEMMA EmptyPromptOk ==
  ASSUME Inv, MP!Inv, EmptyPrompt
  PROVE  Ok
<1>1. Keeps BY UnchangedKeeps DEF EmptyPrompt
<1>2. Control' /\ Loc' = Loc /\ Own(tofree') = Own(tofree) /\ Loc = "loop"
  BY SameControl DEF EmptyPrompt, Inv, Loc
<1>3. /\ UNCHANGED <<weights, kv, buf, clone, in, local, site, lost>> /\ stage' = "decode"
  BY DEF EmptyPrompt, ptrVars, countVars
<1>4. Typed' BY <1>3 DEF Inv, Typed
<1>5. Placed' BY <1>2, <1>3 DEF Inv, Placed, Opening
<1>6. LocalsPlaced' BY <1>2, <1>3, QuietLocals DEF Inv
<1>7. Owning' BY <1>1, <1>2, <1>3 DEF Inv, Owning, Keeps
<1> QED BY <1>1, <1>2, <1>3, <1>4, <1>5, <1>6, <1>7 DEF Ok, Inv, Keeps

(* Append leaves the elements before it alone.                             *)
LEMMA BeforeLast ==
  ASSUME NEW S, NEW s \in Seq(S), NEW e, NEW k \in 1 .. Len(s)
  PROVE  Append(s, e)[k] = s[k] /\ s[k] \in S
<1>1. s \in Seq(S \cup {e}) /\ e \in S \cup {e} OBVIOUS
<1> QED BY <1>1

(* NextSite is the site the code comes to next.                            *)
LEMMA NextIs ==
  ASSUME site \in Nat, site < 14
  PROVE  /\ NextSite = Sites[site + 1] /\ site + 1 \in 1 .. 14 /\ NextSite \in Local
<1>1. Sites \in Seq(Local) /\ Len(Sites) = 14 BY SiteList, LocalNames
<1>2. site + 1 \in 1 .. 14 OBVIOUS
<1> DEFINE k == site + 1
           s == Sites
<1>3. k \in 1 .. Len(s) /\ s \in Seq(Local) BY <1>1, <1>2
<1> HIDE DEF k, s
<1>4. Append(s, "end")[k] = s[k] /\ s[k] \in Local BY <1>3, BeforeLast
<1> QED BY <1>2, <1>4 DEF k, s, NextSite

(* A temporary of the layer.                                               *)
LEMMA AllocLocalOk ==
  ASSUME Inv, MP!Inv, AllocLocal
  PROVE  Ok
<1>0. /\ pc = "layer" /\ Loc = "layer" /\ site \in Nat /\ site < 14 /\ site' = site + 1
      /\ NextSite # "Wo_product"
      /\ UNCHANGED <<weights, kv, buf, clone, in, pc, tofree, after, stage, lost>>
  BY SiteList DEF AllocLocal, Loc, Inv, Typed, countVars
<1>1. NextSite = Sites[site + 1] /\ site + 1 \in 1 .. 14 /\ NextSite \in Local
  BY <1>0, NextIs
<1>2. PICK i \in Impl : Alloc(i, RowBytes) /\ local' = [local EXCEPT ![NextSite] = i]
  BY DEF AllocLocal, Fresh
<1>3. i \in Impl /\ i \notin Live /\ Live' = Live \cup {i} /\ [Mem!Next]_(Mem!vars)
  BY <1>2, AllocGains DEF Gains
<1>4. Control' /\ Loc' = "layer" /\ Own(tofree') = Own(tofree)
  BY <1>0, SameControl DEF Inv
<1>5. local[NextSite] = Null BY <1>0, <1>1 DEF Inv, LocalsPlaced
<1>6. local \in [Local -> Pointer] /\ Once(local) /\ i \notin Own(local)
  BY <1>3 DEF Inv, Typed, Owning, Owns
<1>7. /\ local' \in [Local -> Pointer] /\ local'[NextSite] = i
      /\ \A v \in Local : v # NextSite => local'[v] = local[v]
  BY <1>1, <1>2, <1>3, <1>6 DEF Pointer
<1>8. Once(local') /\ Own(local') = (Own(local) \ {local[NextSite]}) \cup {i}
  BY <1>1, <1>3, <1>6, <1>7, OwnReplaced
<1>9. Own(local') = Own(local) \cup {i} BY <1>5, <1>8 DEF Own
<1>10. Typed' BY <1>0, <1>7, <1>8 DEF Inv, Typed
<1>11. Placed' BY <1>0, <1>4 DEF Inv, Placed, Opening
<1>12. LocalsPlaced'
  <2>1. \A v \in Local : local'[v] # Null => v # "Wo_product"
    BY <1>0, <1>7 DEF Inv, LocalsPlaced
  <2>2. site' <= 14 BY <1>0
  <2>3. ASSUME NEW k \in 1 .. 14, k > site' PROVE local'[Sites[k]] = Null
    <3>1. k > site /\ k # site + 1 BY <1>0, <2>3
    <3>2. Sites[k] # NextSite BY <1>1, <3>1, SitesApart
    <3>3. Sites[k] \in Local BY SiteList DEF Local, ToSet
    <3> QED BY <1>0, <1>7, <3>1, <3>2, <3>3 DEF Inv, LocalsPlaced
  <2> QED BY <1>4, <2>1, <2>2, <2>3 DEF LocalsPlaced
<1>13. Owning'
  <2>1. Owns(Own(weights), Own(kv), Own(buf), Own(local) \cup {i}, Own(tofree), Ptr(clone), Ptr(in),
             Live', lost)
    BY <1>3, OwnsMore DEF Inv, Owning
  <2> QED BY <1>0, <1>4, <1>9, <2>1 DEF Owning
<1> QED BY <1>0, <1>3, <1>4, <1>10, <1>11, <1>12, <1>13 DEF Ok, Inv

(* A failure of the layer that is noticed later.                           *)
LEMMA SkipLocalOk ==
  ASSUME Inv, MP!Inv, SkipLocal
  PROVE  Ok
<1>0. /\ pc = "layer" /\ pc # "free" /\ Loc = "layer" /\ site \in Nat /\ site < 14 /\ site' = site + 1
      /\ UNCHANGED <<weights, kv, buf, clone, in, local, stage, lost>>
      /\ Own(tofree) = {} /\ "layer" \in Places
  BY SiteList DEF SkipLocal, Loc, Inv, Typed, Control, ptrVars, Places, Opening
<1>1. Typed' BY <1>0 DEF Inv, Typed
<1>2. Loc' = "layer" => Placed' /\ LocalsPlaced'
  <2>1. site' <= 14 /\ \A k \in 1 .. 14 : k > site' => k > site BY <1>0
  <2> QED BY <1>0, <2>1 DEF Inv, Placed, Opening, LocalsPlaced
<1>3. CASE (AllocFails(RowBytes) \/ CheckFails \/ UNCHANGED memVars) /\ Goto("layer")
  <2>1. Keeps BY <1>3, FailureKeeps, UnchangedKeeps DEF CheckFails
  <2>2. Control' /\ Loc' = "layer" /\ Own(tofree') = {} BY <1>0, <1>3, GotoControl DEF Inv
  <2>3. Owning' BY <1>0, <2>1, <2>2 DEF Inv, Owning, Keeps
  <2> QED BY <1>0, <1>1, <1>2, <2>1, <2>2, <2>3 DEF Ok, Inv, Keeps
<1>4. ASSUME NEW i \in Impl, Alloc(i, RowBytes), FreeProduct(i)
      PROVE  Ok
  <2>1. i \in Impl /\ i \notin Live /\ Live' = Live \cup {i} /\ [Mem!Next]_(Mem!vars)
    BY <1>4, AllocGains DEF Gains
  <2>2. << i >> \in Seq(Pointer) /\ Once(<< i >>) /\ Own(<< i >>) = {} \cup {i}
    BY OwnOne, UseAssumption DEF Pointer
  <2>3. Control' /\ Loc' = "layer" /\ Own(tofree') = {} \cup {i}
    BY <1>0, <1>4, <2>2, FreeThenControl DEF FreeProduct
  <2>4. Owns(Own(weights), Own(kv), Own(buf), Own(local), {} \cup {i}, Ptr(clone), Ptr(in), Live', lost)
    BY <1>0, <2>1, OwnsMore DEF Inv, Owning
  <2>5. Owning' BY <1>0, <2>3, <2>4 DEF Owning
  <2> QED BY <1>0, <1>1, <1>2, <2>1, <2>3, <2>5 DEF Ok, Inv
<1> QED BY <1>3, <1>4 DEF SkipLocal, Fresh

(* The temporaries that can be set when a site of the attention half fails *)
(* are those of the clean-up list of that site and, at ffn_out, two more.  *)
LEMMA ListsCover ==
  ASSUME Inv, Loc = "layer", site < 9, NextSite \notin {"Q", "K", "V", "Wo_product"}
  PROVE  /\ NextSite \in {"norm", "attn_out", "attn_proj", "resid1", "ffn_out"}
         /\ NextSite # "ffn_out" =>
              \A v \in Local : local[v] # Null => v \in ToSet(FreedOnFailure(NextSite))
         /\ NextSite = "ffn_out" =>
              \A v \in Local : local[v] # Null =>
                v \in ToSet(FreedOnFailure(NextSite)) \cup {"attn_proj", "resid1"}
<1>1. site \in Nat /\ site < 14 BY DEF Inv, Typed
<1>2. NextSite = Sites[site + 1] BY <1>1, NextIs
<1>3. site = 0 \/ site = 1 \/ site = 2 \/ site = 3 \/ site = 4 \/ site = 5 \/ site = 6 \/ site = 7
      \/ site = 8
  BY <1>1
<1>4. \/ NextSite = "norm" /\ site = 0
      \/ NextSite = "attn_out" /\ site = 4
      \/ NextSite = "attn_proj" /\ site = 6
      \/ NextSite = "resid1" /\ site = 7
      \/ NextSite = "ffn_out" /\ site = 8
  <2>1. /\ Sites[1] = "norm" /\ Sites[2] = "Q" /\ Sites[3] = "K" /\ Sites[4] = "V"
        /\ Sites[5] = "attn_out" /\ Sites[6] = "Wo_product" /\ Sites[7] = "attn_proj"
        /\ Sites[8] = "resid1" /\ Sites[9] = "ffn_out"
    BY SiteList
  <2>2. NextSite \notin {"Q", "K", "V", "Wo_product"} OBVIOUS
  <2>3. CASE site = 0
    <3>1. NextSite = Sites[1] BY <1>2, <2>3
    <3> QED BY <2>1, <2>2, <2>3, <3>1
  <2>4. CASE site = 1
    <3>1. NextSite = Sites[2] BY <1>2, <2>4
    <3> QED BY <2>1, <2>2, <2>4, <3>1
  <2>5. CASE site = 2
    <3>1. NextSite = Sites[3] BY <1>2, <2>5
    <3> QED BY <2>1, <2>2, <2>5, <3>1
  <2>6. CASE site = 3
    <3>1. NextSite = Sites[4] BY <1>2, <2>6
    <3> QED BY <2>1, <2>2, <2>6, <3>1
  <2>7. CASE site = 4
    <3>1. NextSite = Sites[5] BY <1>2, <2>7
    <3> QED BY <2>1, <2>2, <2>7, <3>1
  <2>8. CASE site = 5
    <3>1. NextSite = Sites[6] BY <1>2, <2>8
    <3> QED BY <2>1, <2>2, <2>8, <3>1
  <2>9. CASE site = 6
    <3>1. NextSite = Sites[7] BY <1>2, <2>9
    <3> QED BY <2>1, <2>2, <2>9, <3>1
  <2>10. CASE site = 7
    <3>1. NextSite = Sites[8] BY <1>2, <2>10
    <3> QED BY <2>1, <2>2, <2>10, <3>1
  <2>11. CASE site = 8
    <3>1. NextSite = Sites[9] BY <1>2, <2>11
    <3> QED BY <2>1, <2>2, <2>11, <3>1
  <2> QED BY <1>3, <2>3, <2>4, <2>5, <2>6, <2>7, <2>8, <2>9, <2>10, <2>11
<1>5. /\ \A v \in Local : local[v] # Null => v # "Wo_product"
      /\ \A k \in 1 .. 14 : k > site => local[Sites[k]] = Null
  BY DEF Inv, LocalsPlaced
<1>6. \A v \in Local : \E k \in 1 .. 14 : v = Sites[k] BY SiteList DEF Local, ToSet
<1>7. ASSUME NextSite # "ffn_out", NEW v \in Local, local[v] # Null
      PROVE  v \in ToSet(FreedOnFailure(NextSite))
  <2>1. PICK k \in 1 .. 14 : v = Sites[k] BY <1>6
  <2>2. k <= site /\ v # "Wo_product" BY <1>1, <1>5, <1>7, <2>1
  <2>3. k = 1 \/ k = 2 \/ k = 3 \/ k = 4 \/ k = 5 \/ k = 6 \/ k = 7 \/ k > 7 OBVIOUS
  <2>4. CASE NextSite = "norm" /\ site = 0 BY <1>1, <2>2, <2>4
  <2>5. CASE NextSite = "attn_out" /\ site = 4
    <3>1. v \in {"norm", "Q", "K", "V"} BY <2>1, <2>2, <2>3, <2>5, SiteList
    <3> QED BY <2>5, <3>1, CleanUpLists
  <2>6. CASE NextSite = "attn_proj" /\ site = 6
    <3>1. v \in {"norm", "attn_out", "Q", "K", "V"} BY <2>1, <2>2, <2>3, <2>6, SiteList
    <3> QED BY <2>6, <3>1, CleanUpLists
  <2>7. CASE NextSite = "resid1" /\ site = 7
    <3>1. v \in {"norm", "attn_out", "attn_proj", "Q", "K", "V"} BY <2>1, <2>2, <2>3, <2>7, SiteList
    <3> QED BY <2>7, <3>1, CleanUpLists
  <2> QED BY <1>4, <1>7, <2>4, <2>5, <2>6, <2>7
<1>8. ASSUME NextSite = "ffn_out", NEW v \in Local, local[v] # Null
      PROVE  v \in ToSet(FreedOnFailure(NextSite)) \cup {"attn_proj", "resid1"}
  <2>1. PICK k \in 1 .. 14 : v = Sites[k] BY <1>6
  <2>2. k <= 8 /\ v # "Wo_product" BY <1>1, <1>4, <1>5, <1>8, <2>1
  <2>3. k = 1 \/ k = 2 \/ k = 3 \/ k = 4 \/ k = 5 \/ k = 6 \/ k = 7 \/ k = 8 BY <2>2
  <2>4. v \in {"norm", "attn_out", "Q", "K", "V"} \cup {"attn_proj", "resid1"}
    BY <2>1, <2>2, <2>3, SiteList
  <2> QED BY <1>8, <2>4, CleanUpLists
<1> QED BY <1>4, <1>7, <1>8

(* All temporaries are forgotten.                                          *)
LEMMA LocalsCleared ==
  ASSUME local' = [v \in Local |-> Null]
  PROVE  local' \in [Local -> Pointer] /\ Once(local') /\ Own(local') = {}
BY DEF Pointer, Once, Own

(* Then they are where they may be.                                        *)
LEMMA ClearedPlaced ==
  ASSUME local' = [v \in Local |-> Null], Loc' # "layer"
  PROVE  LocalsPlaced'
<1>1. ToSet(Ffn) \subseteq Local BY CleanUpLists, LocalNames
<1> QED BY <1>1 DEF LocalsPlaced

(* An early return of the layer.                                           *)
LEMMA LayerFailsOk ==
  ASSUME Inv, MP!Inv, LayerFails
  PROVE  Ok
<1>0. /\ pc = "layer" /\ Loc = "layer" /\ Own(tofree) = {} /\ "idle" \in Places
      /\ local' = [v \in Local |-> Null] /\ in' = Null /\ clone' = Null /\ site' = 0
      /\ lost' = lost \cup (LostOnFailure(NextSite) \ {Null})
      /\ UNCHANGED <<weights, kv, buf, stage>>
  BY DEF LayerFails, Loc, Inv, Control, Places, Opening
<1>1. Keeps BY FailureKeeps, UnchangedKeeps DEF LayerFails, CheckFails
<1>2. site < 9 /\ NextSite \notin {"Q", "K", "V", "Wo_product"} BY SiteList DEF LayerFails
<1>3. NextSite \in {"norm", "attn_out", "attn_proj", "resid1", "ffn_out"} BY <1>0, <1>2, ListsCover
<1> DEFINE names == FreedOnFailure(NextSite)
           s == Values(names)
<1>4. local \in [Local -> Pointer] /\ Once(local) BY DEF Inv, Typed
<1>5. NamesOnce(names) BY <1>3, CleanUpLists
<1>6. FreeThen(s \o << in, clone >>, "idle") BY DEF LayerFails
<1> HIDE DEF names
<1>7. /\ s \in Seq(Pointer) /\ Once(s) /\ Own(s) = {local[v] : v \in ToSet(names)} \ {Null}
      /\ Own(s) \subseteq Own(local)
  BY <1>4, <1>5, OwnValues
<1> HIDE DEF s
<1>8. /\ s \o << in, clone >> \in Seq(Pointer) /\ Once(s \o << in, clone >>)
      /\ Own(s \o << in, clone >>) = Own(s) \cup (Ptr(in) \cup Ptr(clone))
  <2>1. Own(s) \cap Own(<< in, clone >>) = {} BY <1>7, OwnInClone DEF Inv, Owning, Owns, Apart
  <2> QED BY <1>7, <2>1, OwnInClone, OwnJoined
<1>9. Control' /\ Loc' = "idle" /\ Own(tofree') = Own(s) \cup (Ptr(in) \cup Ptr(clone))
  BY <1>0, <1>6, <1>8, FreeThenControl
<1>10. Typed' BY <1>0, LocalsCleared DEF Inv, Typed, Pointer
<1>11. Placed' BY <1>0, <1>9 DEF Inv, Placed, Opening
<1>12. LocalsPlaced' BY <1>0, <1>9, ClearedPlaced
<1>13. Owning'
  <2>0. Ptr(in') = {} /\ Ptr(clone') = {} /\ Own(local') = {} BY <1>0, LocalsCleared DEF Ptr
  <2>1. CASE NextSite = "ffn_out"
    <3> DEFINE t == Own(s) \cup (Ptr(in) \cup Ptr(clone))
               x == {local["attn_proj"], local["resid1"]} \ {Null}
    <3>1. Owns(Own(weights), Own(kv), Own(buf), Own(local), {}, Ptr(clone), Ptr(in), Live, lost)
      BY <1>0 DEF Inv, Owning
    <3>2. Own(local) \ Own(s) = x
      <4>1. Own(s) = {local[v] : v \in {"norm", "attn_out", "Q", "K", "V"}} \ {Null}
        BY <1>7, <2>1, CleanUpLists DEF names
      <4>2. \A v \in Local : local[v] # Null =>
              v \in {"norm", "attn_out", "Q", "K", "V"} \cup {"attn_proj", "resid1"}
        BY <1>0, <1>2, <2>1, ListsCover, CleanUpLists
      <4>3. Own(local) = {local[v] : v \in Local} \ {Null} BY <1>4, LocalsOwned
      <4>4. /\ \A v \in {"norm", "attn_out", "Q", "K", "V"} : v \in Local /\ v \notin {"attn_proj", "resid1"}
            /\ {"attn_proj", "resid1"} \subseteq Local
        BY LocalNames
      <4>5. ASSUME NEW v \in Local, NEW w \in Local, v # w, local[v] = local[w] PROVE local[v] = Null
        BY <1>4, <4>5 DEF Once
      <4>6. Own(local) \ Own(s) \subseteq x BY <4>1, <4>2, <4>3
      <4>7. x \subseteq Own(local) BY <4>3, <4>4
      <4>8. ASSUME NEW v \in {"attn_proj", "resid1"}, local[v] # Null PROVE local[v] \notin Own(s)
        BY <4>1, <4>4, <4>5, <4>8
      <4>9. x \cap Own(s) = {} BY <4>8
      <4> QED BY <4>6, <4>7, <4>9
    <3>3. (Own(local) \cup Ptr(clone) \cup Ptr(in)) \ t = x
      BY <1>7, <3>1, <3>2 DEF Owns, Apart
    <3>4. t \subseteq Own(local) \cup Ptr(clone) \cup Ptr(in) BY <1>7
    <3> HIDE DEF t, x
    <3>5. Owns(Own(weights), Own(kv), Own(buf), {}, t, {}, {}, Live,
               lost \cup ((Own(local) \cup Ptr(clone) \cup Ptr(in)) \ t))
      BY <3>1, <3>4, OwnsLost
    <3>6. lost' = lost \cup x BY <1>0, <2>1 DEF LostOnFailure, x
    <3>7. Owns(Own(weights), Own(kv), Own(buf), {}, t, {}, {}, Live, lost') BY <3>3, <3>5, <3>6
    <3> QED BY <1>0, <1>1, <1>9, <2>0, <3>7 DEF Owning, Keeps, t
  <2>2. CASE NextSite # "ffn_out"
    <3>1. \A v \in Local : local[v] # Null => v \in ToSet(names)
      BY <1>0, <1>2, <2>2, ListsCover DEF names
    <3>2. Own(local) \subseteq Own(s) BY <1>4, <1>7, <3>1, LocalsOwned
    <3>3. Own(s) = Own(local) BY <1>7, <3>2
    <3>4. Owns(Own(weights), Own(kv), Own(buf), {}, Own(s) \cup (Ptr(in) \cup Ptr(clone)), {}, {},
               Live, lost)
      BY <1>0, <3>3, OwnsMoved DEF Inv, Owning
    <3>5. lost' = lost BY <1>0, <2>2 DEF LostOnFailure
    <3> QED BY <1>0, <1>1, <1>9, <2>0, <3>4, <3>5 DEF Owning, Keeps
  <2> QED BY <2>1, <2>2
<1> QED BY <1>1, <1>9, <1>10, <1>11, <1>12, <1>13 DEF Ok, Inv, Keeps

(* The FFN frees its temporaries.                                          *)
LEMMA FfnEndsOk ==
  ASSUME Inv, MP!Inv, FfnEnds
  PROVE  Ok
<1>0. /\ pc = "layer" /\ Loc = "layer" /\ Own(tofree) = {} /\ "layerEnd" \in Places
      /\ local' = Forget(Ffn) /\ site' = 0 /\ FreeThen(Values(Ffn), "layerEnd")
      /\ UNCHANGED <<weights, kv, buf, clone, in, stage, lost>>
  BY DEF FfnEnds, Loc, Inv, Control, Places, Opening
<1>1. Keeps BY FailureKeeps, UnchangedKeeps DEF FfnEnds, CheckFails
<1>2. local \in [Local -> Pointer] /\ Once(local) BY DEF Inv, Typed
<1>3. /\ Values(Ffn) \in Seq(Pointer) /\ Once(Values(Ffn)) /\ Own(Values(Ffn)) \subseteq Own(local)
      /\ Own(Values(Ffn)) = {local[v] : v \in ToSet(Ffn)} \ {Null}
  BY <1>2, CleanUpLists, OwnValues
<1>4. Control' /\ Loc' = "layerEnd" /\ Own(tofree') = Own(Values(Ffn))
  BY <1>0, <1>3, FreeThenControl
<1>5. ToSet(Ffn) \subseteq Local BY CleanUpLists, LocalNames
<1>6. /\ local' \in [Local -> Pointer]
      /\ \A v \in Local : local'[v] = IF v \in ToSet(Ffn) THEN Null ELSE local[v]
  BY <1>0, <1>2 DEF Forget, Pointer
<1>7. Once(local') BY <1>2, <1>6 DEF Once
<1>8. Own(local') = Own(local) \ Own(Values(Ffn))
  <2>1. Own(local') \subseteq Own(local) BY <1>2, <1>6 DEF Own
  <2>2. \A v \in Local, w \in Local : local'[v] # Null /\ w \in ToSet(Ffn) => local'[v] # local[w]
    BY <1>2, <1>6 DEF Once
  <2>3. Own(local') \cap Own(Values(Ffn)) = {}
    BY <1>3, <1>5, <1>6, <2>2 DEF Own
  <2>4. Own(local) \ Own(Values(Ffn)) \subseteq Own(local')
    BY <1>2, <1>3, <1>6 DEF Own
  <2> QED BY <2>1, <2>3, <2>4
<1>9. Typed' BY <1>0, <1>6, <1>7 DEF Inv, Typed
<1>10. Placed' BY <1>0, <1>4 DEF Inv, Placed, Opening
<1>11. LocalsPlaced'
  <2>1. \A v \in Local : local'[v] # Null => v # "Wo_product" BY <1>6 DEF Inv, LocalsPlaced
  <2> QED BY <1>4, <1>5, <1>6, <2>1 DEF LocalsPlaced
<1>12. Owning'
  <2>1. Own(Values(Ffn)) = Own(local) \ Own(local') BY <1>3, <1>8
  <2>2. Owns(Own(weights), Own(kv), Own(buf), Own(local'), Own(Values(Ffn)), Ptr(clone), Ptr(in),
             Live, lost)
    BY <1>0, <1>8, <2>1, OwnsMoved DEF Inv, Owning
  <2> QED BY <1>0, <1>1, <1>4, <2>2 DEF Owning, Keeps
<1> QED BY <1>0, <1>1, <1>4, <1>9, <1>10, <1>11, <1>12 DEF Ok, Inv, Keeps

(* The layer frees the others.                                             *)
LEMMA LayerEndsOk ==
  ASSUME Inv, MP!Inv, LayerEnds
  PROVE  Ok
<1>0. /\ pc = "layerEnd" /\ Loc = "layerEnd" /\ Own(tofree) = {} /\ site = 0
      /\ local' = [v \in Local |-> Null] /\ in' = Null
      /\ UNCHANGED <<weights, kv, buf, clone, site, stage, lost>>
  BY DEF LayerEnds, Loc, Inv, Control, Placed, Opening, countVars
<1>1. Keeps BY UnchangedKeeps DEF LayerEnds
<1>2. PICK next \in {"prefilled", "sample"} :
        /\ next = "prefilled" => stage = "prefill"
        /\ FreeThen(Values(LayerOrder) \o << in >>, next)
  BY DEF LayerEnds
<1>3. local \in [Local -> Pointer] /\ Once(local) /\ in \in Pointer BY DEF Inv, Typed
<1> DEFINE s == Values(LayerOrder)
<1>4. /\ s \in Seq(Pointer) /\ Once(s) /\ Own(s) \subseteq Own(local)
      /\ Own(s) = {local[v] : v \in ToSet(LayerOrder)} \ {Null}
  BY <1>3, CleanUpLists, OwnValues
<1> HIDE DEF s
<1>5. \A v \in Local : local[v] # Null => v \in ToSet(LayerOrder)
  <2>1. \A v \in Local : local[v] # Null => v # "Wo_product" /\ v \notin ToSet(Ffn)
    BY <1>0, CleanUpLists, LocalNames DEF Inv, LocalsPlaced
  <2> QED BY <2>1, CleanUpLists, LocalNames
<1>6. Own(s) = Own(local) BY <1>3, <1>4, <1>5, LocalsOwned
<1>7. << in >> \in Seq(Pointer) /\ Once(<< in >>) /\ Own(<< in >>) = Ptr(in)
  BY <1>3, OwnOne DEF Ptr
<1>8. s \o << in >> \in Seq(Pointer) /\ Once(s \o << in >>) /\ Own(s \o << in >>) = Own(local) \cup Ptr(in)
  <2>1. Own(s) \cap Own(<< in >>) = {} BY <1>6, <1>7 DEF Inv, Owning, Owns, Apart
  <2> QED BY <1>4, <1>6, <1>7, <2>1, OwnJoined
<1>9. Control' /\ Loc' = next /\ Own(tofree') = Own(local) \cup Ptr(in)
  <2>1. next \in Places BY DEF Places, Opening
  <2> QED BY <1>2, <1>8, <2>1, FreeThenControl DEF s
<1>10. Typed' BY <1>0, LocalsCleared DEF Inv, Typed, Pointer
<1>11. Placed' BY <1>0, <1>2, <1>9 DEF Inv, Placed, Opening
<1>12. LocalsPlaced' BY <1>0, <1>2, <1>9, ClearedPlaced
<1>13. Owning'
  <2>0. Ptr(in') = {} /\ Own(local') = {} BY <1>0, LocalsCleared DEF Ptr
  <2>1. Owns(Own(weights), Own(kv), Own(buf), {}, Own(local) \cup Ptr(in), Ptr(clone), {}, Live, lost)
    BY <1>0, OwnsMoved DEF Inv, Owning
  <2> QED BY <1>0, <1>1, <1>9, <2>0, <2>1 DEF Owning, Keeps
<1> QED BY <1>0, <1>1, <1>9, <1>10, <1>11, <1>12, <1>13 DEF Ok, Inv, Keeps

(* The next token of the prompt.                                           *)
LEMMA NextPromptTokenOk ==
  ASSUME Inv, MP!Inv, NextPromptToken
  PROVE  Ok
<1>1. Keeps BY UnchangedKeeps DEF NextPromptToken
<1>2. "loop" \in Places /\ pc = "prefilled" /\ pc # "free" BY DEF Places, Opening, NextPromptToken
<1>3. Control' /\ Loc' = "loop" /\ Own(tofree') = {} /\ Own(tofree) = {} /\ Loc = "prefilled"
  BY <1>2, GotoControl DEF NextPromptToken, Inv
<1>4. UNCHANGED <<weights, kv, buf, clone, in, local, site, stage, lost>>
  BY DEF NextPromptToken, ptrVars, countVars
<1>5. Typed' BY <1>4 DEF Inv, Typed
<1>6. Placed' BY <1>3, <1>4 DEF Inv, Placed, Opening
<1>7. LocalsPlaced' BY <1>3, <1>4, QuietLocals DEF Inv
<1>8. Owning' BY <1>1, <1>3, <1>4 DEF Inv, Owning, Keeps
<1> QED BY <1>1, <1>3, <1>4, <1>5, <1>6, <1>7, <1>8 DEF Ok, Inv, Keeps

(* last_out_prefill is made.                                               *)
LEMMA CloneOutputOk ==
  ASSUME Inv, MP!Inv, CloneOutput
  PROVE  Ok
<1>0. /\ pc = "prefilled" /\ pc # "free" /\ Loc = "prefilled" /\ {"sample", "loop"} \subseteq Places
      /\ UNCHANGED <<weights, kv, buf, in, local, site, lost>> /\ stage' = "decode"
      /\ Own(tofree) = {}
  BY DEF CloneOutput, Loc, Places, Opening, Inv, Control
<1>1. clone = Null /\ Ptr(clone) = {} /\ in = Null /\ site = 0
  BY <1>0 DEF Inv, Placed, Opening, Ptr
<1>2. ASSUME NEW i \in Impl, Alloc(i, RowBytes), clone' = i, Goto("sample")
      PROVE  Ok
  <2>1. i \in Impl /\ i \notin Live /\ Live' = Live \cup {i} /\ [Mem!Next]_(Mem!vars)
    BY <1>2, AllocGains DEF Gains
  <2>2. Control' /\ Loc' = "sample" /\ Own(tofree') = {} BY <1>0, <1>2, GotoControl DEF Inv
  <2>3. Typed' BY <1>0, <1>2 DEF Inv, Typed, Pointer
  <2>4. Placed' BY <1>0, <1>1, <2>2 DEF Inv, Placed, Opening
  <2>5. LocalsPlaced' BY <1>0, <2>2, QuietLocals DEF Inv
  <2>6. Ptr(clone') = {} \cup {i} BY <1>2, UseAssumption DEF Ptr
  <2>7. Owns(Own(weights), Own(kv), Own(buf), Own(local), {}, {} \cup {i}, Ptr(in), Live', lost)
    BY <1>0, <1>1, <2>1, OwnsMore DEF Inv, Owning
  <2>8. Owning' BY <1>0, <2>2, <2>6, <2>7 DEF Owning
  <2> QED BY <1>0, <2>1, <2>2, <2>3, <2>4, <2>5, <2>8 DEF Ok, Inv
<1>3. CASE AllocFails(RowBytes) /\ Goto("loop") /\ UNCHANGED clone
  <2>1. Keeps BY <1>3, FailureKeeps
  <2>2. Control' /\ Loc' = "loop" /\ Own(tofree') = {} BY <1>0, <1>3, GotoControl DEF Inv
  <2>3. Typed' BY <1>0, <1>3 DEF Inv, Typed
  <2>4. Placed' BY <1>0, <1>1, <1>3, <2>2 DEF Inv, Placed, Opening
  <2>5. LocalsPlaced' BY <1>0, <2>2, QuietLocals DEF Inv
  <2>6. Owning' BY <1>0, <1>3, <2>1, <2>2 DEF Inv, Owning, Keeps
  <2> QED BY <1>0, <2>1, <2>2, <2>3, <2>4, <2>5, <2>6 DEF Ok, Inv, Keeps
<1> QED BY <1>2, <1>3 DEF CloneOutput, Fresh

(* A step of the sampling that allocates and frees nothing, and one that   *)
(* frees the temporary it allocated.                                       *)
SamplePair(from, next) ==
  \/ from = "sample" /\ next = "logits"
  \/ from = "logits" /\ next = "loop"

(* What does not change while sampling.                                    *)
LEMMA SampleFacts ==
  ASSUME Inv, NEW from, NEW next, SamplePair(from, next), pc = from,
         UNCHANGED <<ptrVars, site, stage, lost>>
  PROVE  /\ pc # "free" /\ Loc = from /\ next \in Places /\ Own(tofree) = {}
         /\ UNCHANGED <<weights, kv, buf, clone, in, local, site, stage, lost>>
         /\ Typed'
         /\ Loc' = next => Placed' /\ LocalsPlaced'
<1>1. pc # "free" /\ Loc = from /\ next \in Places /\ Own(tofree) = {}
  BY DEF SamplePair, Loc, Places, Opening, Inv, Control
<1>2. UNCHANGED <<weights, kv, buf, clone, in, local, site, stage, lost>>
  BY DEF ptrVars
<1>3. Typed' BY <1>2 DEF Inv, Typed
<1>4. Loc' = next => Placed' BY <1>1, <1>2 DEF Inv, Placed, Opening, SamplePair
<1>5. Loc' = next => LocalsPlaced' BY <1>1, <1>2, QuietLocals DEF Inv, SamplePair
<1> QED BY <1>1, <1>2, <1>3, <1>4, <1>5

(* Nothing is allocated.                                                   *)
LEMMA SampleWithout ==
  ASSUME Inv, NEW from, NEW next, SamplePair(from, next), pc = from,
         UNCHANGED <<ptrVars, site, stage, lost>>, Keeps, Goto(next)
  PROVE  Ok
<1>1. /\ pc # "free" /\ Loc = from /\ next \in Places /\ Own(tofree) = {}
      /\ UNCHANGED <<weights, kv, buf, clone, in, local, site, stage, lost>>
      /\ Typed'
      /\ Loc' = next => Placed' /\ LocalsPlaced'
  BY SampleFacts
<1>2. Control' /\ Loc' = next /\ Own(tofree') = {} BY <1>1, GotoControl DEF Inv
<1>3. Owning' BY <1>1, <1>2 DEF Inv, Owning, Keeps
<1> QED BY <1>1, <1>2, <1>3 DEF Ok, Inv, Keeps

(* A temporary is allocated and freed.                                     *)
LEMMA SampleWith ==
  ASSUME Inv, NEW from, NEW next, SamplePair(from, next), pc = from,
         UNCHANGED <<ptrVars, site, stage, lost>>, NEW i \in Impl, Gains(i),
         FreeThen(<< i >>, next)
  PROVE  Ok
<1>1. /\ pc # "free" /\ Loc = from /\ next \in Places /\ Own(tofree) = {}
      /\ UNCHANGED <<weights, kv, buf, clone, in, local, site, stage, lost>>
      /\ Typed'
      /\ Loc' = next => Placed' /\ LocalsPlaced'
  BY SampleFacts
<1>2. << i >> \in Seq(Pointer) /\ Once(<< i >>) /\ Own(<< i >>) = {} \cup {i}
  BY OwnOne, UseAssumption DEF Pointer
<1>3. Control' /\ Loc' = next /\ Own(tofree') = {} \cup {i} BY <1>1, <1>2, FreeThenControl
<1>4. i \notin Live /\ Live' = Live \cup {i} /\ [Mem!Next]_(Mem!vars) BY DEF Gains
<1>5. Owns(Own(weights), Own(kv), Own(buf), Own(local), {} \cup {i}, Ptr(clone), Ptr(in), Live', lost)
  BY <1>1, <1>4, OwnsMore DEF Inv, Owning
<1>6. Owning' BY <1>1, <1>3, <1>5 DEF Owning
<1> QED BY <1>1, <1>3, <1>4, <1>6 DEF Ok, Inv

(* The final norm.                                                         *)
LEMMA FinalNormOk ==
  ASSUME Inv, MP!Inv, FinalNorm
  PROVE  Ok
<1>1. pc = "sample" /\ SamplePair("sample", "logits") /\ UNCHANGED <<ptrVars, site, stage, lost>>
  BY DEF FinalNorm, SamplePair
<1>2. ASSUME NEW i \in Impl, Alloc(i, RowBytes), FreeThen(<< i >>, "logits") PROVE Ok
  BY <1>1, <1>2, AllocGains, SampleWith
<1>3. CASE (AllocFails(RowBytes) \/ UNCHANGED memVars) /\ Goto("logits")
  <2>1. Keeps BY <1>3, FailureKeeps, UnchangedKeeps
  <2> QED BY <1>1, <1>3, <2>1, SampleWithout
<1> QED BY <1>2, <1>3 DEF FinalNorm, Fresh

(* The output projection.                                                  *)
LEMMA LogitsOk ==
  ASSUME Inv, MP!Inv, Logits
  PROVE  Ok
<1>1. pc = "logits" /\ SamplePair("logits", "loop") /\ UNCHANGED <<ptrVars, site, stage, lost>>
  BY DEF Logits, SamplePair, countVars
<1>2. ASSUME NEW i \in Impl, Alloc(i, WeightBytes), FreeThen(<< i >>, "loop") PROVE Ok
  BY <1>1, <1>2, AllocGains, SampleWith
<1>3. CASE Goto("loop") /\ UNCHANGED memVars
  <2>1. Keeps BY <1>3, UnchangedKeeps
  <2> QED BY <1>1, <1>3, <2>1, SampleWithout
<1> QED BY <1>2, <1>3 DEF Logits, Fresh

(* A call ends: last_out_prefill is freed, the pointers to it go.          *)
LEMMA EndFacts ==
  ASSUME Inv, pc \in {"logits", "loop"}, clone' = Null, Loc' = "idle",
         UNCHANGED <<weights, kv, buf, in, local, site, stage, lost>>
  PROVE  /\ Loc = pc /\ Own(tofree) = {} /\ Typed' /\ Placed' /\ LocalsPlaced' /\ Ptr(clone') = {}
         /\ clone \in Pointer
<1>1. Loc = pc /\ Own(tofree) = {} BY DEF Loc, Inv, Control
<1>2. Typed' BY DEF Inv, Typed, Pointer
<1>3. in = Null /\ site = 0 BY <1>1 DEF Inv, Placed, Opening
<1>4. Placed' BY <1>3 DEF Placed, Opening
<1>5. LocalsPlaced' BY <1>1, QuietLocals DEF Inv
<1> QED BY <1>1, <1>2, <1>4, <1>5 DEF Ptr, Inv, Typed

(* The loop ends, or the call fails in it.                                 *)
LEMMA EndOk ==
  ASSUME Inv, pc \in {"logits", "loop"}, clone' = Null, Keeps, FreeThen(<< clone >>, "idle"),
         UNCHANGED <<weights, kv, buf, in, local, site, stage, lost>>
  PROVE  Ok
<1>1. /\ << clone >> \in Seq(Pointer) /\ Once(<< clone >>) /\ Own(<< clone >>) = Ptr(clone)
  BY OwnOne DEF Inv, Typed, Ptr
<1>2. Control' /\ Loc' = "idle" /\ Own(tofree') = Ptr(clone)
  BY <1>1, FreeThenControl DEF Places, Opening
<1>3. /\ Loc = pc /\ Own(tofree) = {} /\ Typed' /\ Placed' /\ LocalsPlaced' /\ Ptr(clone') = {}
  BY <1>2, EndFacts
<1>4. Owns(Own(weights), Own(kv), Own(buf), Own(local), Ptr(clone), {}, Ptr(in), Live, lost)
  BY <1>3, OwnsMoved DEF Inv, Owning
<1>5. Owning' BY <1>2, <1>3, <1>4 DEF Owning, Keeps
<1> QED BY <1>2, <1>3, <1>5 DEF Ok, Inv, Keeps

(* The output projection fails.                                            *)
LEMMA LogitsFailOk ==
  ASSUME Inv, MP!Inv, LogitsFail
  PROVE  Ok
<1>0. /\ pc \in {"logits", "loop"} /\ clone' = Null
      /\ UNCHANGED <<weights, kv, buf, in, local, site, stage, lost>>
  BY DEF LogitsFail
<1>1. CASE (AllocFails(WeightBytes) \/ CheckFails) /\ FreeThen(<< clone >>, "idle")
  <2>1. Keeps BY <1>1, FailureKeeps, UnchangedKeeps DEF CheckFails
  <2> QED BY <1>0, <1>1, <2>1, EndOk
<1>2. ASSUME NEW i \in Impl, Alloc(i, WeightBytes), FreeThen(<< i, clone >>, "idle")
      PROVE  Ok
  <2>1. i \in Impl /\ i \notin Live /\ Live' = Live \cup {i} /\ [Mem!Next]_(Mem!vars)
    BY <1>2, AllocGains DEF Gains
  <2>2. i \in Pointer /\ clone \in Pointer /\ i # Null BY UseAssumption DEF Pointer, Inv, Typed
  <2>3. i # clone
    <3>1. Ptr(clone) \subseteq Live BY DEF Inv, Owning, Owns
    <3> QED BY <2>1, <2>2, <3>1 DEF Ptr
  <2>4. /\ << i, clone >> \in Seq(Pointer) /\ Once(<< i, clone >>)
        /\ Own(<< i, clone >>) = ({} \cup {i}) \cup Ptr(clone)
    <3>1. Own(<< i, clone >>) = {i, clone} \ {Null} BY <2>2, <2>3, OwnTwo
    <3>2. {i, clone} \ {Null} = ({} \cup {i}) \cup Ptr(clone) BY <2>2 DEF Ptr
    <3> QED BY <2>2, <2>3, <3>1, <3>2, OwnTwo
  <2>5. Control' /\ Loc' = "idle" /\ Own(tofree') = ({} \cup {i}) \cup Ptr(clone)
    BY <1>2, <2>4, FreeThenControl DEF Places, Opening
  <2>6. /\ Loc = pc /\ Own(tofree) = {} /\ Typed' /\ Placed' /\ LocalsPlaced' /\ Ptr(clone') = {}
    BY <1>0, <2>5, EndFacts
  <2>7. Owns(Own(weights), Own(kv), Own(buf), Own(local), {} \cup {i}, Ptr(clone), Ptr(in), Live', lost)
    BY <2>1, <2>6, OwnsMore DEF Inv, Owning
  <2>8. Owns(Own(weights), Own(kv), Own(buf), Own(local), ({} \cup {i}) \cup Ptr(clone), {}, Ptr(in),
             Live', lost)
    BY <2>7, OwnsMoved
  <2>9. Owning' BY <1>0, <2>5, <2>6, <2>8 DEF Owning
  <2> QED BY <1>0, <2>1, <2>5, <2>6, <2>9 DEF Ok, Inv
<1> QED BY <1>1, <1>2 DEF LogitsFail, Fresh

(* minxfmr_generate returns.                                               *)
LEMMA ReturnOk ==
  ASSUME Inv, MP!Inv, Return
  PROVE  Ok
<1>1. Keeps BY UnchangedKeeps DEF Return
<1> QED BY <1>1, EndOk DEF Return, countVars

(* The next tensor of a clean-up list is freed.                            *)
LEMMA FreeNextOk ==
  ASSUME Inv, MP!Inv, FreeNext
  PROVE  Ok
<1>0. /\ pc = "free" /\ Loc = after /\ after \in Places
      /\ tofree \in Seq(Pointer) /\ Once(tofree)
      /\ UNCHANGED <<weights, kv, buf, clone, in, local, site, stage, lost>>
  BY DEF FreeNext, Loc, Inv, Control, ptrVars, countVars
<1>1. PICK k \in DOMAIN tofree :
        /\ tofree[k] # Null /\ \A j \in 1 .. k - 1 : tofree[j] = Null
        /\ Mem!Free(tofree[k])
        /\ FreeThen(SubSeq(tofree, k + 1, Len(tofree)), after)
  BY DEF FreeNext
<1>2. tofree[k] \in Live /\ Live' = Live \ {tofree[k]} /\ [Mem!Next]_(Mem!vars)
  BY <1>1, FreeLoses
<1>3. PICK t : t = SubSeq(tofree, k + 1, Len(tofree)) OBVIOUS
<1>4. t \in Seq(Pointer) /\ Once(t) /\ Own(t) = Own(tofree) \ {tofree[k]}
  BY <1>0, <1>1, <1>3, OwnRest
<1>5. Control' /\ Loc' = Loc /\ Own(tofree') = Own(tofree) \ {tofree[k]}
  BY <1>0, <1>1, <1>3, <1>4, FreeThenControl
<1>6. Typed' BY <1>0 DEF Inv, Typed
<1>7. Placed' BY <1>0, <1>5 DEF Inv, Placed, Opening
<1>8. LocalsPlaced' BY <1>0, <1>5 DEF Inv, LocalsPlaced
<1>9. Owning'
  <2>1. tofree[k] \in Own(tofree) BY <1>1 DEF Own
  <2>2. Owns(Own(weights), Own(kv), Own(buf), Own(local), Own(tofree) \ {tofree[k]}, Ptr(clone), Ptr(in),
             Live \ {tofree[k]}, lost)
    BY <2>1, OwnsFreed DEF Inv, Owning
  <2> QED BY <1>0, <1>2, <1>5, <2>2 DEF Owning
<1> QED BY <1>0, <1>2, <1>5, <1>6, <1>7, <1>8, <1>9 DEF Ok, Inv

-----------------------------------------------------------------------------
(* Nothing is allocated at first.                                          *)
LEMMA InvInit == Init => Inv
<1> SUFFICES ASSUME Init PROVE Inv OBVIOUS
<1>1. Loc = "closed" BY DEF Init, Loc
<1>2. Own(tofree) = {} /\ Own(weights) = {} /\ Own(kv) = {} /\ Own(buf) = {} /\ Own(local) = {}
      /\ Ptr(clone) = {} /\ Ptr(in) = {} /\ Live = {}
  BY DEF Init, Own, Ptr, Live, Mem!Live, Mem!Init, NoWeights
<1>3. Control BY <1>1, <1>2, NoPlaceIsFree, OwnNothing DEF Control, Init, Places, Opening
<1>4. Typed
  <2>1. Once(weights) /\ Once(kv) /\ Once(buf) /\ Once(local) BY DEF Init, Once, NoWeights
  <2>2. buf \in [Buffers -> Pointer] /\ local \in [Local -> Pointer] /\ clone \in Pointer /\ in \in Pointer
    BY DEF Init, Pointer
  <2>3. <<>> \in Seq(Impl) /\ Len(<<>>) = 0 OBVIOUS
  <2> QED BY <2>1, <2>2, <2>3, NoneYet DEF Init, Typed
<1>5. Placed BY <1>1, NoneYet DEF Init, Placed, Opening
<1>6. LocalsPlaced BY <1>1 DEF Init, LocalsPlaced
<1>7. Owning BY <1>2 DEF Owning, Owns, Apart, Init
<1> QED BY <1>3, <1>4, <1>5, <1>6, <1>7 DEF Inv, Init

(* Every step keeps the invariant, and the allocator's rules.              *)
LEMMA InvStep == Inv /\ MP!Inv /\ [Next]_vars => Ok
<1> SUFFICES ASSUME Inv, MP!Inv, [Next]_vars PROVE Ok OBVIOUS
<1>1. CASE UNCHANGED vars
  <2>1. Keeps BY <1>1, UnchangedKeeps DEF vars
  <2>2. UNCHANGED <<ptrVars, ctlVars, lost>> BY <1>1 DEF vars, countVars
  <2>3. Control' /\ Loc' = Loc /\ Own(tofree') = Own(tofree) BY <2>2, SameControl DEF ctlVars, Inv
  <2>4. Typed' BY <2>2 DEF Inv, Typed, ptrVars, ctlVars
  <2>5. Placed' /\ LocalsPlaced' BY <2>2, <2>3 DEF Inv, Placed, Opening, LocalsPlaced, ptrVars, ctlVars
  <2>6. Owning' BY <2>1, <2>2, <2>3 DEF Inv, Owning, Keeps, ptrVars
  <2> QED BY <2>1, <2>2, <2>3, <2>4, <2>5, <2>6 DEF Ok, Inv, Keeps
<1>2. CASE Next
  BY <1>2, OpenOk, LoadWeightOk, TransposeLoadedOk, LoseWeightOk, LoadsDoneOk, CloneWeightOk, ClonesDoneOk,
     RereadOk, ReplaceWeightOk, OpenDoneOk, CacheViewOk, CacheFailsOk, CloseOk,
     GenerateOk, EnsureBuffersOk, ForwardOk, EmptyPromptOk, AllocLocalOk, SkipLocalOk, LayerFailsOk,
     FfnEndsOk, LayerEndsOk, NextPromptTokenOk, CloneOutputOk, FinalNormOk, LogitsOk, LogitsFailOk,
     ReturnOk, FreeNextOk DEF Next
<1> QED BY <1>1, <1>2

(* Held, in the words of the invariant.                                    *)
LEMMA OwnedBySeven ==
  ASSUME Inv
  PROVE  Owned = Own(weights) \cup Own(kv) \cup Own(buf) \cup Own(local) \cup Own(tofree)
                   \cup Ptr(clone) \cup Ptr(in)
<1>1. DOMAIN buf = Buffers /\ DOMAIN local = Local BY DEF Inv, Typed
<1> DEFINE U == Own(weights) \cup Own(kv) \cup Own(buf) \cup Own(local) \cup Own(tofree)
                  \cup Ptr(clone) \cup Ptr(in)
<1>2. \A h \in Held : h[3] \in U BY <1>1 DEF Held, Own, Ptr
<1>0. \A t, k, x : <<t, k, x>> \in Held => x \in Owned
  <2> SUFFICES ASSUME NEW t, NEW k, NEW x, <<t, k, x>> \in Held PROVE x \in Owned OBVIOUS
  <2>1. <<t, k, x>>[3] = x OBVIOUS
  <2> QED BY <2>1 DEF Owned
<1>3. /\ \A k \in DOMAIN weights : weights[k] # Null => weights[k] \in Owned
      /\ \A k \in DOMAIN kv : kv[k] # Null => kv[k] \in Owned
  <2>1. \A k \in DOMAIN weights : weights[k] # Null => <<"weight", k, weights[k]>> \in Held BY DEF Held
  <2>2. \A k \in DOMAIN kv : kv[k] # Null => <<"cache", k, kv[k]>> \in Held BY DEF Held
  <2> QED BY <1>0, <2>1, <2>2
<1>4. /\ \A b \in Buffers : buf[b] # Null => buf[b] \in Owned
      /\ \A v \in Local : local[v] # Null => local[v] \in Owned
      /\ \A k \in DOMAIN tofree : tofree[k] # Null => tofree[k] \in Owned
  <2>1. \A b \in Buffers : buf[b] # Null => <<"buffer", b, buf[b]>> \in Held BY DEF Held
  <2>2. \A v \in Local : local[v] # Null => <<"local", v, local[v]>> \in Held BY DEF Held
  <2>3. \A k \in DOMAIN tofree : tofree[k] # Null => <<"freeing", k, tofree[k]>> \in Held BY DEF Held
  <2> QED BY <1>0, <2>1, <2>2, <2>3
<1>5. (clone # Null => clone \in Owned) /\ (in # Null => in \in Owned)
  <2>1. clone # Null => <<"clone", 0, clone>> \in Held BY DEF Held
  <2>2. in # Null => <<"in", 0, in>> \in Held BY DEF Held
  <2> QED BY <1>0, <2>1, <2>2
<1>6. Owned \subseteq U BY <1>2 DEF Owned
<1>7. U \subseteq Owned BY <1>1, <1>3, <1>4, <1>5 DEF Own, Ptr
<1> QED BY <1>6, <1>7

(* A sequence is a function.                                               *)
LEMMA AsFunction == ASSUME NEW S, NEW s \in Seq(S) PROVE s \in [1 .. Len(s) -> S]
OBVIOUS

(* Finitely many places hold finitely many pointers.                       *)
LEMMA PartFinite ==
  ASSUME NEW tag, NEW D, NEW s, IsFiniteSet(D)
  PROVE  IsFiniteSet({<<tag, k, s[k]>> : k \in D})
<1> DEFINE T == {<<tag, k, s[k]>> : k \in D}
           f == [k \in D |-> <<tag, k, s[k]>>]
<1>1. f \in Surjection(D, T) BY DEF Surjection
<1> QED BY <1>1, FS_Surjection

(* Held is finite: the counts below mean something.                        *)
LEMMA HeldFinite ==
  ASSUME Inv
  PROVE  IsFiniteSet(Held)
<1> DEFINE P1 == {<<"weight", k, weights[k]>> : k \in DOMAIN weights}
           P2 == {<<"cache", k, kv[k]>> : k \in DOMAIN kv}
           P3 == {<<"buffer", b, buf[b]>> : b \in Buffers}
           P4 == {<<"local", v, local[v]>> : v \in Local}
           P5 == {<<"freeing", k, tofree[k]>> : k \in DOMAIN tofree}
           P6 == {<<"clone", 0, clone>>, <<"in", 0, in>>}
<1>1. IsFiniteSet(DOMAIN weights) /\ IsFiniteSet(DOMAIN kv) /\ IsFiniteSet(DOMAIN tofree)
  <2>1. /\ DOMAIN weights = 1 .. Len(weights) /\ Len(weights) \in Int
        /\ DOMAIN kv = 1 .. Len(kv) /\ Len(kv) \in Int
        /\ DOMAIN tofree = 1 .. Len(tofree) /\ Len(tofree) \in Int
    BY DEF Inv, Typed, Control
  <2> QED BY <2>1, FS_Interval
<1>2. IsFiniteSet(Buffers)
  <2>1. Buffers = {"hidden_buf"} \cup {"embed_buf"} \cup {"layer_buf_a"} \cup {"layer_buf_b"}
    BY DEF Buffers
  <2> QED BY <2>1, FS_Singleton, FS_Union
<1>3. IsFiniteSet(Local)
  <2>1. Sites \in Surjection(1 .. 14, Local)
    <3>1. Local = {Sites[k] : k \in 1 .. 14} BY SiteList DEF Local, ToSet
    <3>2. Sites \in [1 .. 14 -> Local]
      <4>1. Sites \in Seq(Local) /\ Len(Sites) = 14 BY SiteList, LocalNames
      <4> HIDE DEF Local
      <4> QED BY <4>1, AsFunction
    <3> QED BY <3>1, <3>2 DEF Surjection
  <2>3. 1 \in Int /\ 14 \in Int OBVIOUS
  <2>2. IsFiniteSet(1 .. 14) BY ONLY <2>3, FS_Interval
  <2> QED BY <2>1, <2>2, FS_Surjection
<1>4. IsFiniteSet(P1) /\ IsFiniteSet(P2) /\ IsFiniteSet(P3) /\ IsFiniteSet(P4) /\ IsFiniteSet(P5)
  BY <1>1, <1>2, <1>3, PartFinite
<1>5. IsFiniteSet(P6)
  <2>1. P6 = {<<"clone", 0, clone>>} \cup {<<"in", 0, in>>} OBVIOUS
  <2>2. IsFiniteSet({<<"clone", 0, clone>>}) /\ IsFiniteSet({<<"in", 0, in>>}) BY FS_Singleton
  <2> HIDE DEF P6
  <2> QED BY <2>1, <2>2, FS_Union
<1>6. Held \subseteq ((((P1 \cup P2) \cup P3) \cup P4) \cup P5) \cup P6 BY DEF Held
<1> HIDE DEF P1, P2, P3, P4, P5, P6
<1>7. IsFiniteSet(((((P1 \cup P2) \cup P3) \cup P4) \cup P5) \cup P6)
  <2>1. IsFiniteSet(P1 \cup P2) BY <1>4, FS_Union
  <2>2. IsFiniteSet((P1 \cup P2) \cup P3) BY <1>4, <2>1, FS_Union
  <2>3. IsFiniteSet(((P1 \cup P2) \cup P3) \cup P4) BY <1>4, <2>2, FS_Union
  <2>4. IsFiniteSet((((P1 \cup P2) \cup P3) \cup P4) \cup P5) BY <1>4, <2>3, FS_Union
  <2> QED BY <1>5, <2>4, FS_Union
<1> QED BY <1>6, <1>7, FS_Subset

(* A tensor tells who holds it, and where.                                 *)
LEMMA HeldOnce ==
  ASSUME Inv, NEW g \in Held, NEW h \in Held, g[3] = h[3]
  PROVE  g = h
<1> DEFINE By(t) == CASE t = "weight" -> Own(weights) [] t = "cache" -> Own(kv)
                      [] t = "buffer" -> Own(buf) [] t = "local" -> Own(local)
                      [] t = "freeing" -> Own(tofree) [] t = "clone" -> Ptr(clone)
                      [] t = "in" -> Ptr(in)
           Tags == {"weight", "cache", "buffer", "local", "freeing", "clone", "in"}
<1>0. DOMAIN buf = Buffers /\ DOMAIN local = Local BY DEF Inv, Typed
<1>1. /\ By("weight") = Own(weights) /\ By("cache") = Own(kv) /\ By("buffer") = Own(buf)
      /\ By("local") = Own(local) /\ By("freeing") = Own(tofree) /\ By("clone") = Ptr(clone)
      /\ By("in") = Ptr(in)
  OBVIOUS
<1> HIDE DEF By
<1>2. ASSUME NEW f \in Held PROVE f[1] \in Tags /\ f[3] \in By(f[1])
  <2>1. f[3] # Null BY DEF Held
  <2>2. CASE \E k \in DOMAIN weights : f = <<"weight", k, weights[k]>> BY <1>1, <2>1, <2>2 DEF Own
  <2>3. CASE \E k \in DOMAIN kv : f = <<"cache", k, kv[k]>> BY <1>1, <2>1, <2>3 DEF Own
  <2>4. CASE \E k \in Buffers : f = <<"buffer", k, buf[k]>> BY <1>0, <1>1, <2>1, <2>4 DEF Own
  <2>5. CASE \E k \in Local : f = <<"local", k, local[k]>> BY <1>0, <1>1, <2>1, <2>5 DEF Own
  <2>6. CASE \E k \in DOMAIN tofree : f = <<"freeing", k, tofree[k]>> BY <1>1, <2>1, <2>6 DEF Own
  <2>7. CASE f = <<"clone", 0, clone>> BY <1>1, <2>1, <2>7 DEF Ptr
  <2>8. CASE f = <<"in", 0, in>> BY <1>1, <2>1, <2>8 DEF Ptr
  <2> QED BY <2>2, <2>3, <2>4, <2>5, <2>6, <2>7, <2>8 DEF Held
<1>3. ASSUME NEW s \in Tags, NEW t \in Tags, NEW x, x \in By(s), x \in By(t) PROVE s = t
  <2>1. Apart(By("weight"), By("cache"), By("buffer"), By("local"), By("freeing"), By("clone"), By("in"))
    BY <1>1 DEF Inv, Owning, Owns
  <2>2. CASE s = "weight" BY <1>3, <2>1, <2>2 DEF Apart
  <2>3. CASE s = "cache" BY <1>3, <2>1, <2>3 DEF Apart
  <2>4. CASE s = "buffer" BY <1>3, <2>1, <2>4 DEF Apart
  <2>5. CASE s = "local" BY <1>3, <2>1, <2>5 DEF Apart
  <2>6. CASE s = "freeing" BY <1>3, <2>1, <2>6 DEF Apart
  <2>7. CASE s = "clone" BY <1>3, <2>1, <2>7 DEF Apart
  <2>8. CASE s = "in" BY <1>3, <2>1, <2>8 DEF Apart
  <2> QED BY <2>2, <2>3, <2>4, <2>5, <2>6, <2>7, <2>8
<1>4. g[1] = h[1] BY <1>2, <1>3
<1>5. /\ Once(weights) /\ Once(kv) /\ Once(buf) /\ Once(local) /\ Once(tofree)
      /\ g[3] # Null
  BY DEF Inv, Typed, Control, Held
<1>6. CASE g[1] = "weight"
  <2>1. PICK j \in DOMAIN weights : g = <<"weight", j, weights[j]>> BY <1>6 DEF Held
  <2>3. h[1] = "weight" BY <1>4, <1>6
  <2>2. PICK k \in DOMAIN weights : h = <<"weight", k, weights[k]>> BY <2>3 DEF Held
  <2> QED BY <1>5, <2>1, <2>2 DEF Once
<1>7. CASE g[1] = "cache"
  <2>1. PICK j \in DOMAIN kv : g = <<"cache", j, kv[j]>> BY <1>7 DEF Held
  <2>3. h[1] = "cache" BY <1>4, <1>7
  <2>2. PICK k \in DOMAIN kv : h = <<"cache", k, kv[k]>> BY <2>3 DEF Held
  <2> QED BY <1>5, <2>1, <2>2 DEF Once
<1>8. CASE g[1] = "buffer"
  <2>1. PICK j \in Buffers : g = <<"buffer", j, buf[j]>> BY <1>8 DEF Held
  <2>3. h[1] = "buffer" BY <1>4, <1>8
  <2>2. PICK k \in Buffers : h = <<"buffer", k, buf[k]>> BY <2>3 DEF Held
  <2> QED BY <1>0, <1>5, <2>1, <2>2 DEF Once
<1>9. CASE g[1] = "local"
  <2>1. PICK j \in Local : g = <<"local", j, local[j]>> BY <1>9 DEF Held
  <2>3. h[1] = "local" BY <1>4, <1>9
  <2>2. PICK k \in Local : h = <<"local", k, local[k]>> BY <2>3 DEF Held
  <2> QED BY <1>0, <1>5, <2>1, <2>2 DEF Once
<1>10. CASE g[1] = "freeing"
  <2>1. PICK j \in DOMAIN tofree : g = <<"freeing", j, tofree[j]>> BY <1>10 DEF Held
  <2>3. h[1] = "freeing" BY <1>4, <1>10
  <2>2. PICK k \in DOMAIN tofree : h = <<"freeing", k, tofree[k]>> BY <2>3 DEF Held
  <2> QED BY <1>5, <2>1, <2>2 DEF Once
<1>11. CASE g[1] = "clone"
  <2>1. g = <<"clone", 0, clone>> BY <1>11 DEF Held
  <2>3. h[1] = "clone" BY <1>4, <1>11
  <2>2. h = <<"clone", 0, clone>> BY <2>3 DEF Held
  <2> QED BY <2>1, <2>2
<1>12. CASE g[1] = "in"
  <2>1. g = <<"in", 0, in>> BY <1>12 DEF Held
  <2>3. h[1] = "in" BY <1>4, <1>12
  <2>2. h = <<"in", 0, in>> BY <2>3 DEF Held
  <2> QED BY <2>1, <2>2
<1>13. g[1] \in Tags BY <1>2
<1> QED BY <1>6, <1>7, <1>8, <1>9, <1>10, <1>11, <1>12, <1>13

(* So pointers and tensors are equally many.                               *)
LEMMA Counting ==
  ASSUME Inv
  PROVE  Cardinality(Held) = Cardinality(Owned)
<1> DEFINE f == [h \in Held |-> h[3]]
<1>1. f \in Surjection(Held, Owned) BY DEF Surjection, Owned
<1>2. f \in Injection(Held, Owned)
  <2>1. \A g, h \in Held : f[g] = f[h] => g = h BY HeldOnce
  <2>2. f \in [Held -> Owned] /\ DOMAIN f = Held BY DEF Owned
  <2> HIDE DEF f
  <2> QED BY <2>1, <2>2 DEF Injection, IsInjective
<1> QED BY <1>1, <1>2, HeldFinite, FS_Surjection

-----------------------------------------------------------------------------
(* The invariants hold together.                                           *)
LEMMA InvHolds == Spec => [](Inv /\ MP!Inv) /\ Mem!Spec
<1>1. Init => Inv /\ MP!Inv /\ Mem!Init
  <2>1. MP!Init => MP!Inv BY MemAssumed, MP!InvInit
  <2> QED BY <2>1, InvInit, MemInit DEF Init
<1>2. Inv /\ MP!Inv /\ [Next]_vars => (Inv /\ MP!Inv)' /\ [Mem!Next]_(Mem!vars)
  <2>1. MP!Inv /\ [MP!Next]_(MP!vars) => MP!Inv' BY MemAssumed, MP!InvStep
  <2> QED BY <2>1, InvStep, MemStep DEF Ok
<1> QED BY <1>1, <1>2, PTL DEF Spec, Mem!Spec

(* minxfmr_open, minxfmr_generate and minxfmr_close use the allocator as   *)
(* TensorMem describes it: each step of a call is one of its steps or      *)
(* leaves it alone; so all that is proved of the allocator holds here.     *)
THEOREM UsesTheAllocator == Spec => Mem!Spec
BY InvHolds, PTL

(* The allocator keeps its types.                                          *)
LEMMA AllocatorTypes == Spec => []Mem!TypeOK
<1>1. Mem!Spec => MP!Spec BY MemInit, MemStep, PTL DEF Mem!Spec, MP!Spec
<1>2. MP!Spec => []MP!TypeOK BY MemAssumed, MP!TypeCorrect
<1> QED BY <1>1, <1>2, MemType, InvHolds, PTL

(* Every variable has its type, whatever fails: in particular no site of   *)
(* the layer beyond the last, and something to free exactly while freeing. *)
THEOREM TypeCorrect == Spec => []TypeOK
<1>1. Inv /\ Mem!TypeOK => TypeOK
  <2> SUFFICES ASSUME Inv, Mem!TypeOK PROVE TypeOK OBVIOUS
  <2>1. pc \in Buffers \cup {"closed", "opening", "cloning", "reread", "normalize", "cache", "idle",
                          "loop", "layer", "layerEnd", "prefilled", "sample", "logits", "free"}
    BY DEF Inv, Control, Places, Opening
  <2>2. pc = "layer" => site <= Len(Sites) BY SiteList DEF Inv, LocalsPlaced, Loc
  <2>3. tofree \in Seq(Impl \cup {Null}) /\ (pc = "free" <=> Pending(tofree))
    BY OwnPending DEF Inv, Control, Pointer
  <2> QED BY <2>1, <2>2, <2>3 DEF TypeOK, Inv, Typed, Pointer
<1> QED BY <1>1, InvHolds, AllocatorTypes, PTL

(* Each pointer the code holds names a tensor in use and no two name the   *)
(* same: nothing is used after it was freed, or freed twice, on any path.  *)
THEOREM HeldInUse == Spec => []NothingDangles
<1>1. Inv => NothingDangles
  <2> SUFFICES ASSUME Inv PROVE NothingDangles OBVIOUS
  <2>1. Owned \subseteq Mem!Live BY OwnedBySeven DEF Inv, Owning, Owns, Live
  <2> QED BY <2>1, Counting DEF NothingDangles
<1> QED BY <1>1, InvHolds, PTL

(* The tensors in use that nobody holds are at any time exactly those that *)
(* opening or a layer is known to have dropped: of an incomplete group, of *)
(* a clone read again, and attn_proj and resid1 when ffn_out could not be  *)
(* allocated.  Every other path leaks nothing.                             *)
THEOREM NothingElseLeaks == Spec => []LeaksNamed
<1>1. Inv => LeaksNamed
  BY OwnedBySeven DEF LeaksNamed, Inv, Owning, Owns, Live
<1> QED BY <1>1, InvHolds, PTL
=============================================================================
