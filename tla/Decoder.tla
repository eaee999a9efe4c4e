------------------------------ MODULE Decoder ------------------------------
(***************************************************************************)
(* How minxfmr_generate (src/src/api/minxfmr.cpp) drives the decoder       *)
(* layers over the KV cache: prefill, one forward per step, the layers of  *)
(* a forward one after the other, and every way a call ends early.         *)
(*                                                                         *)
(* A context is used by one thread, so nothing here is concurrent; what is *)
(* hard is that each layer keeps its own ring, that a forward can fail     *)
(* between two layers, and that the callback runs in the middle of a call. *)
(* Tensors are abstracted to the token they were computed for: the value   *)
(* row of a token is the token, its key row the token and the position its *)
(* rotary embedding was computed at.                                       *)
(***************************************************************************)
EXTENDS Integers, Sequences, FiniteSets

CONSTANTS
  LayerCount,  (* layers_to_run: the decoder layers, one ring each         *)
  SeqMax,      (* rows per ring                                            *)
  Cached,      (* the layers whose K/V width equals KVCache::dim           *)
  PromptMax,   (* bound: the longest prompt, in tokens                     *)
  MaxSteps,    (* max_steps of the generation loop                         *)
  MaxCalls     (* bound: minxfmr_generate calls on one context             *)

ASSUME SizeAssumption ==
  /\ LayerCount \in Nat \ {0} /\ SeqMax \in Nat \ {0}
  /\ PromptMax \in Nat /\ MaxSteps \in Nat \ {0} /\ MaxCalls \in Nat
  /\ Cached \subseteq 0 .. LayerCount - 1

VARIABLES
  live, keys, vals, lengths, heads,  (* the KV cache of the context         *)
  phase,       (* where minxfmr_generate is                                *)
  running,     (* run_stack_forward is between its first and last line     *)
  layer,       (* l of run_stack_forward                                   *)
  cur,         (* the token being forwarded                                *)
  prompt,      (* ids.size()                                               *)
  prefill_i,   (* prefill_i                                                *)
  kept,        (* last_out_prefill is not null                             *)
  t,           (* t                                                        *)
  last,        (* the index of `last' in the sequence of this call         *)
  result,      (* the code the last call returned, and why                 *)
  call,        (* history: the number of the current call                  *)
  context,     (* history: tokens forwarded since the last cache reset     *)
  cloneLost    (* history: the clone of the prefill output failed          *)

cacheVars == <<live, keys, vals, lengths, heads>>
loopVars  == <<prompt, prefill_i, kept, t, last, call, cloneLost>>
fwdVars   == <<running, layer, cur>>
vars == <<cacheVars, phase, fwdVars, loopVars, result, context>>

(* A token is named by its call and its index in the sequence of that      *)
(* call: the prompt first, then one index per sampled token.               *)
Token == (0 .. MaxCalls) \X (0 .. PromptMax + MaxSteps)
Code == {0, -2, -3}
Reason == {"none", "stop", "max_steps", "no_in", "no_cache", "error"}

Cache == INSTANCE KVCache WITH
  Key   <- [tok : Token, pos : 0 .. SeqMax],
  Value <- Token,
  Blank <- <<>>

Layer == Cache!Layer

Init ==
  /\ Cache!Init
  /\ phase = "closed"
  /\ running = FALSE /\ layer = 0 /\ cur = <<0, 0>>
  /\ prompt = 0 /\ prefill_i = 0 /\ kept = FALSE /\ t = 0 /\ last = 0
  /\ result = [code |-> 0, why |-> "none"]
  /\ call = 0 /\ context = <<>> /\ cloneLost = FALSE

-----------------------------------------------------------------------------
(* The client's calls.                                                     *)

(* minxfmr_open_with_layer returns a context even if kvcache_create failed *)
(* (it only logs).                                                         *)
Open ==
  /\ phase = "closed"
  /\ Cache!Create \/ UNCHANGED cacheVars
  /\ phase' = "idle"
  /\ UNCHANGED <<fwdVars, loopVars, result, context>>

(* minxfmr_close, never from inside a call.                                *)
Close ==
  /\ phase = "idle"
  /\ Cache!Free \/ (~live /\ UNCHANGED cacheVars)
  /\ phase' = "closed"
  /\ context' = <<>>
  /\ UNCHANGED <<fwdVars, loopVars, result>>

(* minxfmr_reset: a null cache is left alone.                              *)
ResetCache ==
  /\ Cache!Reset \/ (~live /\ UNCHANGED cacheVars)
  /\ context' = <<>>

ClientReset ==
  /\ phase = "idle"
  /\ ResetCache
  /\ UNCHANGED <<phase, fwdVars, loopVars, result>>

Return(code, why) ==
  /\ phase' = "idle"
  /\ result' = [code |-> code, why |-> why]

GenerateWithoutCache ==
  /\ phase = "idle" /\ call < MaxCalls /\ ~live
  /\ call' = call + 1
  /\ Return(-2, "no_cache")
  /\ UNCHANGED <<cacheVars, fwdVars, context, prompt, prefill_i, kept, t,
                 last, cloneLost>>

(* Mutant of Generate: the cache of the previous call is kept.             *)
GenerateWithoutReset(n) ==
  /\ phase = "idle" /\ call < MaxCalls /\ live
  /\ context' = <<>>
  /\ call' = call + 1
  /\ prompt' = n /\ prefill_i' = 0 /\ kept' = FALSE
  /\ t' = 0 /\ last' = (IF n = 0 THEN 0 ELSE n - 1) /\ cloneLost' = FALSE
  /\ phase' = "prefill"
  /\ UNCHANGED <<cacheVars, fwdVars, result>>

(* Entering minxfmr_generate with a prompt of n tokens.  The cache is      *)
(* reset before anything that can fail except the null check.              *)
Generate(n) ==
  /\ phase = "idle" /\ call < MaxCalls /\ live
  /\ ResetCache
  /\ call' = call + 1
  /\ prompt' = n /\ prefill_i' = 0 /\ kept' = FALSE
  /\ t' = 0 /\ last' = (IF n = 0 THEN 0 ELSE n - 1) /\ cloneLost' = FALSE
  /\ \/ phase' = "prefill" /\ UNCHANGED result
     \/ Return(-3, "error")        \* ensure_f32_tensor_shape failed
  /\ UNCHANGED fwdVars

-----------------------------------------------------------------------------
(* run_stack_forward.                                                      *)

StartForward(i) ==
  /\ running' = TRUE /\ layer' = 0 /\ cur' = <<call, i>>
  /\ UNCHANGED <<cacheVars, phase, loopVars, result, context>>

(* Mutant of StartPos: one position for the whole stack, that of layer 0.  *)
StartPosOfFirstLayer(l) == lengths[0]

(* transformer_forward_single_layer: the rotary position is the length of  *)
(* the layer's ring; attention reads the ring and the token itself; the    *)
(* last thing a successful layer does is append its K and V rows, if their *)
(* width is the cache's.                                                   *)
StartPos(l) == lengths[l]

RunLayer ==
  /\ running /\ layer < LayerCount
  /\ \/ /\ layer \in Cached
        /\ Cache!AppendRow(layer, [tok |-> cur, pos |-> StartPos(layer)], cur)
     \/ /\ layer \notin Cached
        /\ UNCHANGED cacheVars
  /\ layer' = layer + 1
  /\ UNCHANGED <<phase, running, cur, loopVars, result, context>>

(* Mutant of FailForward: the token is tried again, for ever.              *)
RetryForward ==
  /\ running
  /\ running' = FALSE
  /\ UNCHANGED <<cacheVars, phase, layer, cur, loopVars, result, context>>

(* A layer fails before it appends (every early return of the layer), or   *)
(* the output shape does not fit after the last one: the call returns -3   *)
(* and the rows appended so far stay where they are.                       *)
FailForward ==
  /\ running
  /\ running' = FALSE
  /\ Return(-3, "error")
  /\ UNCHANGED <<cacheVars, layer, cur, loopVars, context>>

FinishForward ==
  /\ running /\ layer = LayerCount
  /\ running' = FALSE
  /\ context' = Append(context, cur)
  /\ UNCHANGED <<cacheVars, layer, cur, prompt, t, last, result, call>>

-----------------------------------------------------------------------------
(* The prefill loop.                                                       *)

PrefillToken ==
  /\ phase = "prefill" /\ ~running /\ prefill_i < prompt
  /\ StartForward(prefill_i)

(* token_embedding_row_into found no row for the prompt token.             *)
PrefillNoEmbedding ==
  /\ phase = "prefill" /\ ~running /\ prefill_i < prompt
  /\ Return(-3, "error")
  /\ UNCHANGED <<cacheVars, fwdVars, loopVars, context>>

(* After the last prompt token its output is cloned; the clone may fail.   *)
PrefillDone ==
  /\ phase = "prefill"
  /\ FinishForward
  /\ prefill_i' = prefill_i + 1
  /\ \/ prefill_i + 1 < prompt /\ UNCHANGED <<kept, cloneLost>>
     \/ prefill_i + 1 = prompt /\ kept' = TRUE /\ UNCHANGED cloneLost
     \/ prefill_i + 1 = prompt /\ kept' = FALSE /\ cloneLost' = TRUE
  /\ UNCHANGED phase

PrefillEnd ==
  /\ phase = "prefill" /\ ~running /\ prefill_i = prompt
  /\ phase' = "decode"
  /\ UNCHANGED <<cacheVars, fwdVars, loopVars, result, context>>

-----------------------------------------------------------------------------
(* One step of the generation loop.                                        *)

(* Mutant of ReusesPrefill: the prefill output is reused on every step.    *)
AlwaysReusesPrefill == kept

ReusesPrefill == t = 0 /\ kept

DecodeReuse ==
  /\ phase = "decode" /\ ~running /\ ReusesPrefill
  /\ phase' = "sample"
  /\ UNCHANGED <<cacheVars, fwdVars, loopVars, result, context>>

DecodeForward ==
  /\ phase = "decode" /\ ~running /\ ~ReusesPrefill
  /\ StartForward(last)

(* No embedding for `last': the loop is left and the call returns 0.       *)
DecodeNoEmbedding ==
  /\ phase = "decode" /\ ~running /\ ~ReusesPrefill
  /\ Return(0, "no_in")
  /\ UNCHANGED <<cacheVars, fwdVars, loopVars, context>>

DecodeDone ==
  /\ phase = "decode"
  /\ FinishForward
  /\ phase' = "sample"
  /\ UNCHANGED <<prefill_i, kept, cloneLost>>

(* Missing or invalid output projection, or a failed logits product.       *)
SampleFails ==
  /\ phase = "sample"
  /\ Return(-3, "error")
  /\ UNCHANGED <<cacheVars, fwdVars, loopVars, context>>

(* EOS or the repetition limit.                                            *)
SampleStops ==
  /\ phase = "sample"
  /\ Return(0, "stop")
  /\ UNCHANGED <<cacheVars, fwdVars, loopVars, context>>

(* Mutant of SampleContinues: one step too many.                           *)
SampleContinuesOneMore ==
  /\ phase = "sample"
  /\ last' = last + 1
  /\ t' = t + 1
  /\ ResetCache \/ UNCHANGED <<cacheVars, context>>
  /\ \/ t < MaxSteps /\ phase' = "decode" /\ UNCHANGED result
     \/ t = MaxSteps /\ Return(0, "max_steps")
  /\ UNCHANGED <<fwdVars, prompt, prefill_i, kept, call, cloneLost>>

(* A token was chosen and, perhaps, handed to the callback, which may call *)
(* minxfmr_reset on the context (only destroying it is forbidden).         *)
SampleContinues ==
  /\ phase = "sample"
  /\ last' = last + 1
  /\ t' = t + 1
  /\ ResetCache \/ UNCHANGED <<cacheVars, context>>
  /\ \/ t + 1 < MaxSteps /\ phase' = "decode" /\ UNCHANGED result
     \/ t + 1 = MaxSteps /\ Return(0, "max_steps")
  /\ UNCHANGED <<fwdVars, prompt, prefill_i, kept, call, cloneLost>>

GenerateStep ==
  \/ RunLayer \/ FailForward
  \/ PrefillToken \/ PrefillNoEmbedding \/ PrefillDone \/ PrefillEnd
  \/ DecodeReuse \/ DecodeForward \/ DecodeNoEmbedding \/ DecodeDone
  \/ SampleFails \/ SampleStops \/ SampleContinues

ClientStep ==
  \/ Open \/ Close \/ ClientReset
  \/ \E n \in 0 .. PromptMax : Generate(n)
  \/ GenerateWithoutCache

Next == GenerateStep \/ ClientStep

Spec == Init /\ [][Next]_vars

(* The calling thread runs the call to its end: nothing in it waits.       *)
FairSpec == Spec /\ WF_vars(GenerateStep)

-----------------------------------------------------------------------------
(* Properties.                                                             *)

(* Every variable has its type, and the loop counters keep to the bounds   *)
(* of their loops in minxfmr_generate and run_stack_forward.               *)
TypeOK ==
  /\ Cache!TypeOK
  /\ phase \in {"closed", "idle", "prefill", "decode", "sample"}
  /\ running \in BOOLEAN
  /\ layer \in 0 .. LayerCount
  /\ cur \in Token
  /\ prompt \in 0 .. PromptMax /\ prefill_i \in 0 .. prompt
  /\ kept \in BOOLEAN /\ cloneLost \in BOOLEAN
  /\ t \in 0 .. MaxSteps /\ (phase \in {"decode", "sample"} => t < MaxSteps)
  /\ last \in 0 .. PromptMax + MaxSteps
  /\ result \in [code : Code, why : Reason]
  /\ call \in 0 .. MaxCalls
  /\ context \in Seq(Token)
  /\ running => phase \in {"prefill", "decode"}

Busy == phase \in {"prefill", "decode", "sample"}

(* The tokens layer l has behind it: those of the finished forwards, and   *)
(* the current one if the layer is done with it.                           *)
Seen(l) == IF running /\ l < layer THEN Append(context, cur) ELSE context

Recent(s) ==
  LET n == Len(s) IN IF n <= SeqMax THEN s ELSE SubSeq(s, n - SeqMax + 1, n)

CachedToken(l, j) == vals[l][Cache!Phys(l, j)]
CachedKey(l, j)   == keys[l][Cache!Phys(l, j)]

(* Whenever a layer runs, what attention reads from its ring is the last   *)
(* seq_max tokens of this call, in order: the rings of all layers describe *)
(* the same sequence although each layer appends on its own, rows left by  *)
(* an earlier call or by a forward that failed half-way are never read,    *)
(* and a reset from the callback leaves no layer behind.                   *)
LayersShareOneContext ==
  Busy => \A l \in Cached :
    [j \in 1 .. lengths[l] |-> CachedToken(l, j - 1)] = Recent(Seen(l))

(* Nothing of the sequence is skipped or forwarded twice: the hidden state *)
(* a token is sampled from is that of the latest token, and consecutive    *)
(* tokens in the context are consecutive in the call, the hand-over from   *)
(* prefill to decode included, provided the clone of the prefill output    *)
(* succeeded (tensor_clone_f32_local returns null without memory).         *)
Contiguous(s) ==
  \A i \in 1 .. Len(s) - 1 : s[i + 1] = <<s[i][1], s[i][2] + 1>>

SequenceUnbroken ==
  /\ phase = "sample" /\ context # <<>> => context[Len(context)] = <<call, last>>
  /\ Busy /\ ~cloneLost => Contiguous(context)

(* As long as no ring overflowed by more than one row, the rotary position *)
(* of every key that attention reads is the token's index in the context.  *)
(* After that it is not: the position is the ring's length, which stops    *)
(* growing at seq_max.                                                     *)
PositionsExactUntilFull ==
  Busy => \A l \in Cached :
    LET n == Len(Seen(l)) IN
    n <= SeqMax + 1 =>
      \A j \in 0 .. lengths[l] - 1 :
        CachedKey(l, j).pos = n - lengths[l] + j

(* Every call returns, whatever fails and whatever the callback resets.    *)
GenerateReturns == Busy ~> ~Busy

=============================================================================
