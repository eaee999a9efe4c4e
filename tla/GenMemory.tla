----------------------------- MODULE GenMemory -----------------------------
(***************************************************************************)
(* Who holds which tensor: one context, from minxfmr_open to               *)
(* minxfmr_close (src/src/api/minxfmr.cpp), and the temporaries of         *)
(* transformer_forward_single_layer (src/src/transformer/transformer.cpp), *)
(* on the allocator of TensorMem.                                          *)
(*                                                                         *)
(* Every allocation may fail; each failure has its own list of tensors to  *)
(* free.  Frees are steps of their own (`tofree'), in the order of the     *)
(* code.  Sizes are two: that of a weight and that of a row.  A tensor     *)
(* that the code stops naming without freeing it is lost; `lost' collects  *)
(* those of the three places where that is known to happen.                *)
(***************************************************************************)
EXTENDS Integers, FiniteSets, Sequences, SequencesExt

CONSTANTS
  Impl, Block, Size, Align, ArenaCap, BucketMax, PoolMax, ImplMax, NoBlock,
  WeightBytes,  (* the size of a weight tensor                             *)
  RowBytes,     (* the size of an activation row                           *)
  Null,         (* a null Tensor pointer                                   *)
  LoadedF32,    (* bound: a weight of the file is F32 or not; BOOLEAN in full *)
  Projections,  (* how many weights are the context's own: 3, Wq, Wk, Wv   *)
  WeightMax,    (* bound: its other weight tensors                         *)
  MaxCalls,     (* bound: minxfmr_open and minxfmr_generate calls          *)
  MaxForwards,  (* bound: forward passes of one call                       *)
  MaxFailures   (* bound: failures of all calls together                   *)

VARIABLES
  base, offset, heap, buckets, cached, implCache,
  kind, at, block, bytes, f32, stale,         (* the memory, see TensorMem  *)
  pc,        (* the next allocation site, or "free"                        *)
  weights,   (* the weight tensors of the context, its own Wq, Wk and Wv   *)
             (* first                                                      *)
  kv,        (* the views of the KV cache, a key and a value per layer; the *)
             (* empty sequence when there is no cache                       *)
  buf,       (* hidden_buf, embed_buf, layer_buf_a and layer_buf_b         *)
  clone,     (* last_out_prefill                                           *)
  in,        (* `in', when it is not embed_buf                             *)
  local,     (* the temporaries of the running layer                       *)
  site,      (* how many of the layer's sites have been tried; while       *)
             (* opening, how many of the context's own weights have been   *)
             (* cloned or read, then the last weight replaced              *)
  tofree,    (* the tensors about to be freed, first one first             *)
  after,     (* where to go on when they are                               *)
  stage,     (* "prefill" or "decode", once a call has its buffers         *)
  calls, forwards, failures,
  lost       (* history: tensors dropped without being freed               *)

memVars  == <<base, offset, heap, buckets, cached, implCache, kind, at, block,
              bytes, f32, stale>>
ptrVars  == <<weights, kv, buf, clone, in, local>>
ctlVars  == <<pc, site, tofree, after, stage>>
countVars == <<calls, forwards, failures, lost>>
vars == <<memVars, ptrVars, ctlVars, countVars>>

Mem == INSTANCE TensorMem

ASSUME UseAssumption ==
  /\ Mem!MemAssumption /\ Impl # {} /\ Block # {}
  /\ {WeightBytes, RowBytes} \subseteq Size /\ Null \notin Impl
  /\ LoadedF32 \subseteq BOOLEAN
  /\ Projections \in Nat \ {0} /\ WeightMax \in Nat

Buffers == {"hidden_buf", "embed_buf", "layer_buf_a", "layer_buf_b"}

(* The allocation sites of a layer, in order: those of the attention half, *)
(* the output of the FFN, and the FFN's own.                               *)
Attention == <<"norm", "Q", "K", "V", "attn_out", "Wo_product", "attn_proj",
               "resid1", "ffn_out">>
Ffn == <<"ffn_norm", "gate", "up", "fused", "down">>
Sites == Attention \o Ffn
Local == ToSet(Sites)

(* Wq, Wk and Wv of the context itself.                                    *)
NoWeights == [k \in 1 .. Projections |-> Null]

Init ==
  /\ Mem!Init
  /\ pc = "closed" /\ site = 0 /\ tofree = <<>> /\ after = "closed"
  /\ stage = "prefill"
  /\ weights = NoWeights /\ kv = <<>> /\ buf = [b \in Buffers |-> Null]
  /\ clone = Null /\ in = Null /\ local = [v \in Local |-> Null]
  /\ calls = 0 /\ forwards = 0 /\ failures = 0 /\ lost = {}

-----------------------------------------------------------------------------
(* Allocation: objects and blocks are interchangeable, so one unused one   *)
(* stands for all.  `Fresh' holds the object the next tensor gets.         *)

FreshImpl  == LET free == Impl \ Mem!Live
              IN  CHOOSE i \in Impl : i \in free \/ free = {}
FreshBlock == CHOOSE b \in Block : heap[b] = 0 \/ \A a \in Block : heap[a] # 0
Fresh      == Impl \cap {IF implCache = <<>> THEN FreshImpl ELSE Last(implCache)}

Alloc(i, n)     == Mem!CreateF32(i, n, FreshBlock)
AllocHeap(i, n) == \E isF32 \in LoadedF32 : Mem!CreateOnHeap(i, n, FreshBlock, isF32)

(* A failure: of an allocation, or of something that allocates nothing.    *)
Failure       == failures < MaxFailures /\ failures' = failures + 1
AllocFails(n) == Failure /\ Mem!CreateF32Fails(FreshImpl, n)
CheckFails    == Failure /\ UNCHANGED memVars

(* Mutant of FreeThen: it stops at null pointers.                          *)
FreeThenNulls(s, next) ==
  /\ tofree' = s /\ after' = next
  /\ pc' = (IF s = <<>> THEN next ELSE "free")

(* Free the tensors the pointers s name, then go to next; tensor_free of a *)
(* null pointer does nothing.                                              *)
Pending(s) == \E k \in DOMAIN s : s[k] # Null
FreeThen(s, next) ==
  /\ tofree' = (IF Pending(s) THEN s ELSE <<>>) /\ after' = next
  /\ pc' = (IF Pending(s) THEN "free" ELSE next)

Goto(next) == pc' = next /\ UNCHANGED <<tofree, after>>

FreeNext ==
  /\ pc = "free"
  /\ \E k \in DOMAIN tofree :
       /\ tofree[k] # Null /\ \A j \in 1 .. k - 1 : tofree[j] = Null
       /\ Mem!Free(tofree[k])
       /\ FreeThen(SubSeq(tofree, k + 1, Len(tofree)), after)
  /\ UNCHANGED <<ptrVars, site, stage, countVars>>

-----------------------------------------------------------------------------
(* minxfmr_open and minxfmr_close.                                         *)

Open ==
  /\ pc = "closed" /\ calls < MaxCalls /\ Goto("opening")
  /\ calls' = calls + 1
  /\ UNCHANGED <<memVars, ptrVars, site, stage, forwards, failures, lost>>

(* The GGUF reader allocates weights outside the arena.  The tensors read  *)
(* after the clones, the output's, are counted with the others.            *)
LoadWeight ==
  /\ pc = "opening" /\ Len(weights) < Projections + WeightMax
  /\ \E i \in Fresh : AllocHeap(i, WeightBytes) /\ weights' = Append(weights, i)
  /\ site' = 0
  /\ UNCHANGED <<kv, buf, clone, in, local, pc, tofree, after, stage, countVars>>

(* A new F32 tensor takes the place of the k-th weight.                    *)
Replace(k, next) ==
  /\ \E i \in Fresh : Alloc(i, WeightBytes) /\ weights' = [weights EXCEPT ![k] = i]
  /\ FreeThen(<< weights[k] >>, next)
  /\ UNCHANGED <<kv, buf, clone, in, local, stage, countVars>>

(* The reader transposes a key or value projection (normalize_kv).         *)
TransposeLoaded ==
  /\ pc = "opening" /\ Len(weights) > Projections /\ site = 0 /\ site' = 1
  /\ Replace(Len(weights), "opening")

(* Another tensor of its group (projections, norms, FFN) is missing: the   *)
(* reader returns false, and nobody names the one it has read.             *)
LoseWeight ==
  /\ pc = "opening" /\ Len(weights) > Projections /\ Failure
  /\ weights' = Front(weights) /\ lost' = lost \cup {Last(weights)} /\ site' = 1
  /\ UNCHANGED <<memVars, kv, buf, clone, in, local, pc, tofree, after, stage, calls, forwards>>

(* Without a layer that has all three nothing is cloned.                   *)
LoadsDone ==
  /\ pc = "opening" /\ Goto("cloning")
  /\ site' \in {0, Projections} /\ (site' = 0 => Len(weights) > Projections)
  /\ UNCHANGED <<memVars, ptrVars, stage, countVars>>

(* The context's own Wq, Wk and Wv are clones of those of the first layer  *)
(* that has all three.  One stays null when the layer's is quantized or    *)
(* when it cannot be allocated.                                            *)
CloneWeight ==
  /\ pc = "cloning" /\ site < Projections
  /\ \/ /\ \E i \in Fresh : Alloc(i, WeightBytes) /\ weights' = [weights EXCEPT ![site + 1] = i]
        /\ UNCHANGED failures
     \/ AllocFails(WeightBytes) /\ UNCHANGED weights
     \/ CheckFails /\ UNCHANGED weights
  /\ site' = site + 1
  /\ UNCHANGED <<kv, buf, clone, in, local, pc, tofree, after, stage, calls, forwards, lost>>

(* Without Wq the triple of the projection layer is read, if there is one. *)
ClonesDone ==
  /\ pc = "cloning" /\ site = Projections /\ site' = 0
  /\ Goto("normalize") \/ (weights[1] = Null /\ Goto("reread"))
  /\ UNCHANGED <<memVars, ptrVars, stage, countVars>>

(* Mutant of Reread: a clone that was made is kept.                        *)
RereadMissing ==
  /\ pc = "reread"
  /\ \E i \in Fresh :
       /\ AllocHeap(i, WeightBytes)
       /\ weights' = IF weights[site + 1] = Null THEN [weights EXCEPT ![site + 1] = i] ELSE weights
  /\ lost' = lost \cup ({weights[site + 1]} \ {Null})
  /\ site' = (site + 1) % Projections
  /\ IF site' = 0 THEN Goto("normalize") ELSE Goto("reread")
  /\ UNCHANGED <<kv, buf, clone, in, local, stage, calls, forwards, failures>>

(* Each of the three is overwritten, a clone that was made with it.  That  *)
(* the reader transposes it is left to ReplaceWeight.                      *)
Reread ==
  /\ pc = "reread"
  /\ \E i \in Fresh : AllocHeap(i, WeightBytes) /\ weights' = [weights EXCEPT ![site + 1] = i]
  /\ lost' = lost \cup ({weights[site + 1]} \ {Null})
  /\ site' = (site + 1) % Projections
  /\ IF site' = 0 THEN Goto("normalize") ELSE Goto("reread")
  /\ UNCHANGED <<kv, buf, clone, in, local, stage, calls, forwards, failures>>

(* A weight is transposed (normalize_linear_inplace) or dequantized        *)
(* (dequant_tensor_to_f32_inplace), once, in an order of the code.         *)
ReplaceWeight ==
  /\ pc = "normalize"
  /\ \E k \in DOMAIN weights :
       site < k /\ weights[k] # Null /\ site' = k /\ Replace(k, "normalize")

OpenDone ==
  /\ pc = "normalize" /\ Goto("cache") /\ site' = 0
  /\ UNCHANGED <<memVars, ptrVars, stage, countVars>>

(* kvcache_create is the last thing that allocates; when it fails the      *)
(* context is opened all the same.                                         *)
CacheView ==
  /\ pc = "cache"
  /\ \E i \in Fresh : Mem!CreateView(i) /\ kv' = Append(kv, i)
  /\ IF Len(kv) = 1 THEN Goto("idle") ELSE Goto("cache")
  /\ UNCHANGED <<weights, buf, clone, in, local, site, stage, countVars>>

CacheFails ==
  /\ pc = "cache" /\ CheckFails
  /\ FreeThen(kv, "idle")
  /\ kv' = <<>>
  /\ UNCHANGED <<weights, buf, clone, in, local, site, stage, calls, forwards, lost>>

BufferOrder == <<"layer_buf_a", "layer_buf_b", "embed_buf", "hidden_buf">>

(* Every tensor of the context is freed; an open that finds decoder        *)
(* tensors missing or sizes wrong does the same.                           *)
Close ==
  /\ pc \in {"idle", "opening", "normalize"}
  /\ FreeThen(kv \o [b \in 1 .. 4 |-> buf[BufferOrder[b]]] \o weights, "closed")
  /\ weights' = NoWeights /\ kv' = <<>> /\ buf' = [b \in Buffers |-> Null]
  /\ site' = 0
  /\ UNCHANGED <<memVars, clone, in, local, stage, countVars>>

-----------------------------------------------------------------------------
(* minxfmr_generate.                                                       *)

(* The arena is emptied before anything can fail.                          *)
Generate ==
  /\ pc = "idle" /\ calls < MaxCalls
  /\ Mem!ArenaReset
  /\ calls' = calls + 1 /\ forwards' = 0
  /\ IF kv = <<>> THEN Goto("idle") ELSE Goto("hidden_buf")
  /\ stage' = "prefill"
  /\ UNCHANGED <<ptrVars, site, failures, lost>>

(* ensure_f32_tensor_shape, the shape being the same every time; on        *)
(* failure the call returns -3 and frees last_out_prefill and a view.      *)
Ensure(b, next) ==
  /\ pc = b
  /\ \/ /\ buf[b] # Null
        /\ Goto(next) /\ UNCHANGED <<memVars, buf, clone, in, failures>>
     \/ /\ buf[b] = Null
        /\ \E i \in Fresh : Alloc(i, RowBytes) /\ buf' = [buf EXCEPT ![b] = i]
        /\ Goto(next) /\ UNCHANGED <<clone, in, failures>>
     \/ /\ buf[b] = Null
        /\ AllocFails(RowBytes)
        /\ FreeThen(<< in, clone >>, "idle")
        /\ in' = Null /\ clone' = Null
        /\ UNCHANGED buf
  /\ UNCHANGED <<weights, kv, local, site, stage, calls, forwards, lost>>

EnsureBuffers ==
  \/ Ensure("hidden_buf", "embed_buf") \/ Ensure("embed_buf", "loop")
  \/ Ensure("layer_buf_a", "layer_buf_b") \/ Ensure("layer_buf_b", "layer")

(* A forward pass, of the prefill or of the loop: its input is a tensor of *)
(* its own (a view into an F32 embedding table) or embed_buf.              *)
Forward ==
  /\ pc = "loop" /\ forwards < MaxForwards
  /\ \/ \E i \in Fresh : Mem!CreateView(i) /\ in' = i
     \/ UNCHANGED <<memVars, in>>
  /\ forwards' = forwards + 1
  /\ Goto("layer_buf_a")
  /\ UNCHANGED <<weights, kv, buf, clone, local, site, stage, calls, failures, lost>>

EmptyPrompt ==
  /\ pc = "loop" /\ stage = "prefill" /\ forwards = 0
  /\ stage' = "decode"
  /\ UNCHANGED <<memVars, ptrVars, pc, site, tofree, after, countVars>>

(* The layer allocates one temporary after the other.  Wo_product is a     *)
(* product with Wo that fails or has the wrong shape: it leaves nothing,   *)
(* and attn_proj is then a clone of attn_out.                              *)
NextSite == Append(Sites, "end")[site + 1]
FreeProduct(i) == FreeThen(<< i >>, "layer")
Values(names) == [n \in DOMAIN names |-> local[names[n]]]
Forget(names) == [v \in Local |-> IF v \in ToSet(names) THEN Null ELSE local[v]]

AllocLocal ==
  /\ pc = "layer" /\ site < Len(Sites)
  /\ NextSite # "Wo_product"
  /\ NextSite = "attn_out" => Null \notin {local["Q"], local["K"], local["V"]}
  /\ NextSite = "fused" => Null \notin {local["gate"], local["up"]}
  /\ \E i \in Fresh : Alloc(i, RowBytes) /\ local' = [local EXCEPT ![NextSite] = i]
  /\ site' = site + 1
  /\ UNCHANGED <<weights, kv, buf, clone, in, pc, tofree, after, stage, countVars>>

(* Sites whose failure is noticed only later: the other two projections    *)
(* are still made, and so is `up' after `gate'.  The failure is a weight   *)
(* that does not fit, a failed allocation, or a failed product, whose      *)
(* result is freed at once.                                                *)
SkipLocal ==
  /\ pc = "layer" /\ site < Len(Sites)
  /\ NextSite \in {"Q", "K", "V", "gate", "up", "Wo_product"}
  /\ \/ (AllocFails(RowBytes) \/ CheckFails) /\ Goto("layer")
     \/ Failure /\ \E i \in Fresh : Alloc(i, RowBytes) /\ FreeProduct(i)
     \/ /\ NextSite = "Wo_product" /\ Goto("layer")
        /\ UNCHANGED <<memVars, failures>>
  /\ site' = site + 1
  /\ UNCHANGED <<ptrVars, stage, calls, forwards, lost>>

(* Mutant of FreedOnFailure: attn_out is freed twice.                      *)
FreedOnFailureTwice(s) ==
  CASE s = "norm"      -> <<>>
    [] s = "attn_out"  -> <<"norm", "Q", "K", "V">>
    [] s = "attn_proj" -> <<"norm", "attn_out", "Q", "K", "V", "attn_out">>
    [] s = "resid1"    -> <<"norm", "attn_out", "attn_proj", "Q", "K", "V">>
    [] s = "ffn_out"   -> <<"norm", "attn_out", "Q", "K", "V">>

(* What an early return of the layer frees.                                *)
FreedOnFailure(s) ==
  CASE s = "norm"      -> <<>>
    [] s = "attn_out"  -> <<"norm", "Q", "K", "V">>
    [] s = "attn_proj" -> <<"norm", "attn_out", "Q", "K", "V">>
    [] s = "resid1"    -> <<"norm", "attn_out", "attn_proj", "Q", "K", "V">>
    [] s = "ffn_out"   -> <<"norm", "attn_out", "Q", "K", "V">>

(* What it forgets.                                                        *)
LostOnFailure(s) == IF s = "ffn_out" THEN {local["attn_proj"], local["resid1"]} ELSE {}

(* The layer's caller, run_stack_forward's caller included, frees the view *)
(* and last_out_prefill and returns -3.                                    *)
LayerFails ==
  /\ pc = "layer" /\ site < Len(Attention)
  /\ NextSite \notin {"Q", "K", "V", "Wo_product"}
  /\ \/ AllocFails(RowBytes)
     \/ NextSite \in {"norm", "attn_out", "attn_proj"} /\ CheckFails
     \/ /\ NextSite = "attn_out" /\ Null \in {local["Q"], local["K"], local["V"]}
        /\ UNCHANGED <<memVars, failures>>
  /\ FreeThen(Values(FreedOnFailure(NextSite)) \o << in, clone >>, "idle")
  /\ local' = [v \in Local |-> Null] /\ in' = Null /\ clone' = Null
  /\ site' = 0
  /\ lost' = lost \cup (LostOnFailure(NextSite) \ {Null})
  /\ UNCHANGED <<weights, kv, buf, stage, calls, forwards>>

(* The FFN ends, with a result or, after any failure, without (the layer   *)
(* then adds zeroes); its temporaries go first.                            *)
FfnEnds ==
  /\ pc = "layer" /\ site >= Len(Attention) /\ NextSite # "up"
  /\ \/ site \in {Len(Attention), Len(Sites)} /\ UNCHANGED <<memVars, failures>>
     \/ CheckFails
     \/ NextSite \in {"ffn_norm", "fused", "down"} /\ AllocFails(RowBytes)
     \/ /\ NextSite = "fused" /\ Null \in {local["gate"], local["up"]}
        /\ UNCHANGED <<memVars, failures>>
  /\ FreeThen(Values(Ffn), "layerEnd")
  /\ local' = Forget(Ffn) /\ site' = 0
  /\ UNCHANGED <<weights, kv, buf, clone, in, stage, calls, forwards, lost>>

LayerOrder == <<"norm", "attn_out", "attn_proj", "resid1", "ffn_out", "Q", "K", "V">>

LayerEnds ==
  /\ pc = "layerEnd"
  /\ FreeThen(Values(LayerOrder) \o << in >>,
              IF stage = "prefill" THEN "prefilled" ELSE "sample")
  /\ local' = [v \in Local |-> Null] /\ in' = Null
  /\ UNCHANGED <<memVars, weights, kv, buf, clone, site, stage, countVars>>

(* After the last prompt token the output is cloned, and sampled from at   *)
(* once; a failed clone stays null and the token is forwarded again.       *)
NextPromptToken ==
  /\ pc = "prefilled" /\ Goto("loop")
  /\ UNCHANGED <<memVars, ptrVars, site, stage, countVars>>

CloneOutput ==
  /\ pc = "prefilled"
  /\ \/ /\ \E i \in Fresh : Alloc(i, RowBytes) /\ clone' = i
        /\ Goto("sample") /\ UNCHANGED failures
     \/ AllocFails(RowBytes) /\ Goto("loop") /\ UNCHANGED clone
  /\ stage' = "decode"
  /\ UNCHANGED <<weights, kv, buf, in, local, site, calls, forwards, lost>>

(* Sampling: the final norm (whose failure is ignored) and a quantized     *)
(* output projection (whose failure ends the call) each compute into a     *)
(* temporary; without either, nothing is allocated.                        *)
FinalNorm ==
  /\ pc = "sample"
  /\ \/ /\ \E i \in Fresh : Alloc(i, RowBytes) /\ FreeThen(<< i >>, "logits")
        /\ UNCHANGED failures
     \/ AllocFails(RowBytes) /\ Goto("logits")
     \/ Goto("logits") /\ UNCHANGED <<memVars, failures>>
  /\ UNCHANGED <<ptrVars, site, stage, calls, forwards, lost>>

Logits ==
  /\ pc = "logits"
  /\ \/ \E i \in Fresh : Alloc(i, WeightBytes) /\ FreeThen(<< i >>, "loop")
     \/ Goto("loop") /\ UNCHANGED memVars
  /\ UNCHANGED <<ptrVars, site, stage, countVars>>

LogitsFail ==
  /\ pc = "logits"
  /\ \/ AllocFails(WeightBytes) /\ FreeThen(<< clone >>, "idle")
     \/ CheckFails /\ FreeThen(<< clone >>, "idle")
     \/ /\ Failure
        /\ \E i \in Fresh : Alloc(i, WeightBytes) /\ FreeThen(<< i, clone >>, "idle")
  /\ clone' = Null
  /\ UNCHANGED <<weights, kv, buf, in, local, site, stage, calls, forwards, lost>>

(* The loop ends or fails (-3): either way last_out_prefill is freed.      *)
Return ==
  /\ pc = "loop"
  /\ FreeThen(<< clone >>, "idle")
  /\ clone' = Null
  /\ UNCHANGED <<memVars, weights, kv, buf, in, local, site, stage, countVars>>

Next ==
  \/ Open \/ LoadWeight \/ TransposeLoaded \/ LoseWeight \/ LoadsDone
  \/ CloneWeight \/ ClonesDone \/ Reread \/ ReplaceWeight \/ OpenDone \/ CacheView \/ CacheFails \/ Close
  \/ Generate \/ EnsureBuffers \/ Forward \/ EmptyPrompt
  \/ AllocLocal \/ SkipLocal \/ LayerFails \/ FfnEnds \/ LayerEnds
  \/ NextPromptToken \/ CloneOutput \/ FinalNorm \/ Logits \/ LogitsFail
  \/ Return \/ FreeNext

Spec == Init /\ [][Next]_vars

-----------------------------------------------------------------------------
(* Properties.                                                             *)

(* Every variable has its type.                                            *)
TypeOK ==
  /\ Mem!TypeOK
  /\ pc \in Buffers \cup {"closed", "opening", "cloning", "reread", "normalize", "cache", "idle",
                          "loop", "layer", "layerEnd", "prefilled", "sample", "logits", "free"}
  /\ stage \in {"prefill", "decode"}
  /\ weights \in Seq(Impl \cup {Null}) /\ Len(weights) \in Projections .. Projections + WeightMax
  /\ kv \in Seq(Impl) /\ Len(kv) <= 2
  /\ buf \in [Buffers -> Impl \cup {Null}]
  /\ clone \in Impl \cup {Null} /\ in \in Impl \cup {Null}
  /\ local \in [Local -> Impl \cup {Null}]
  /\ site \in Nat /\ (pc = "layer" => site <= Len(Sites))
  /\ tofree \in Seq(Impl \cup {Null}) /\ (pc = "free" <=> Pending(tofree))

(* The pointers the code holds: where each is and the tensor it names.     *)
Held ==
  LET all == {<<"weight", k, weights[k]>> : k \in DOMAIN weights}
               \cup {<<"cache", k, kv[k]>> : k \in DOMAIN kv}
               \cup {<<"buffer", b, buf[b]>> : b \in Buffers}
               \cup {<<"local", v, local[v]>> : v \in Local}
               \cup {<<"freeing", k, tofree[k]>> : k \in DOMAIN tofree}
               \cup {<<"clone", 0, clone>>, <<"in", 0, in>>}
  IN  {h \in all : h[3] # Null}
Owned == {h[3] : h \in Held}

(* Each pointer names a tensor in use, and no two name the same: nothing   *)
(* is used after it was freed or freed twice on any error path.            *)
NothingDangles ==
  Owned \subseteq Mem!Live /\ Cardinality(Held) = Cardinality(Owned)

(* Opening, generating and closing leak exactly this: a tensor of a group  *)
(* that is incomplete in the file, a clone replaced because Wq's could not *)
(* be made, and attn_proj and resid1 of a layer that could not allocate    *)
(* ffn_out.  Nothing else is in use and held by nobody, on any path, and   *)
(* none of these is ever freed.                                            *)
LeaksNamed == Mem!Live \ Owned = lost

-----------------------------------------------------------------------------
(* A claim of a comment that the code does not keep.                       *)

(* "long-lived tensors ... must survive tensor_arena_reset() across        *)
(* generation calls" (tensor.h:47): what the context keeps from one call   *)
(* to the next does not share memory with anything else in use.            *)
KeptTensorsSurvive ==
  \A i \in (Range(weights) \cup Range(buf)) \ {Null}, j \in Owned :
    i # j => Mem!Disjoint(i, j)
=============================================================================
