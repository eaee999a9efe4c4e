------------------------------- MODULE Device -------------------------------
(***************************************************************************)
(* Device memory behind the CUDA backend, cuda_backend.cu: a cache of      *)
(* tensors by host address (`persistent'), another of dequantized weights  *)
(* (`dequant_f32'), and the buffers of the calls in flight.  Contexts load *)
(* weights, compute and close, each on a thread of its own; the caches are *)
(* one per process.  A host address is freed and given out again, and the  *)
(* cache is not told.                                                      *)
(*                                                                         *)
(* The contents of a host or device buffer are a number that names the     *)
(* tensor written to it; the device heap (cudaMalloc, external) may refuse *)
(* any request.                                                            *)
(***************************************************************************)
EXTENDS Integers, FiniteSets

CONSTANTS
  Context,    (* contexts, each used by one thread                         *)
  Addr,       (* host addresses tensors are allocated at                   *)
  Block,      (* device blocks                                             *)
  Type,       (* tensor types, "F32" and some of "Q4_K", "Q5_0", "Q8_0"    *)
  WeightMax,  (* bound: weights loaded by one opening                      *)
  MaxTensors, (* bound: host tensors written in all                        *)
  NoBlock     (* the null device pointer                                   *)

ASSUME DeviceAssumption ==
  /\ "F32" \in Type /\ NoBlock \notin Block
  /\ WeightMax \in Nat /\ MaxTensors \in Nat

VARIABLES
  host,       (* host[a]: the tensor at a, [id, type]; id 0: none          *)
  written,    (* number of host tensors written so far                     *)
  dev,        (* dev[b]: contents of a device block; Free if not allocated *)
  persistent, (* persistent[a]: [ptr, bytes]                               *)
  dequant,    (* dequant[a]: [ptr, type]                                   *)
  kernels,    (* cuda_quant_kernels_enabled()                              *)
  parity,     (* cuda_quant_parity_mode_enabled()                          *)
  phase,      (* phase[c]: the life of a context                           *)
  own,        (* own[c]: addresses of its weights                          *)
  todo,       (* todo[c]: weights still to preload                         *)
  key,        (* key[c]: the current layer's K, {} or {address}            *)
  call,       (* call[c]: the backend call the thread is in                *)
  freedCached,(* history: addresses freed while a copy of them was cached  *)
  damaged     (* history: a cached block was freed and its entry kept      *)

cacheVars == <<persistent, dequant>>
modeVars == <<kernels, parity>>
hostVars == <<host, written>>
ctxVars == <<phase, own, todo, key>>
vars == <<hostVars, dev, cacheVars, modeVars, ctxVars, call, freedCached, damaged>>

Free == -1
Scratch == 0
Unmapped == [id |-> 0, type |-> "F32"]
NoEntry == [ptr |-> NoBlock, bytes |-> "tensor"]
NoDequant == [ptr |-> NoBlock, type |-> "F32"]
Idle == [pc |-> "idle", op |-> "none", addr |-> CHOOSE a \in Addr : TRUE, long |-> FALSE,
         dA |-> NoBlock, dB |-> NoBlock, dC |-> NoBlock, temp |-> FALSE,
         got |-> Free, cut |-> FALSE]

Init ==
  /\ host = [a \in Addr |-> Unmapped] /\ written = 0
  /\ dev = [b \in Block |-> Free]
  /\ persistent = [a \in Addr |-> NoEntry] /\ dequant = [a \in Addr |-> NoDequant]
  /\ kernels \in BOOLEAN /\ parity = FALSE
  /\ phase = [c \in Context |-> "closed"]
  /\ own = [c \in Context |-> {}] /\ todo = [c \in Context |-> {}]
  /\ key = [c \in Context |-> {}]
  /\ call = [c \in Context |-> Idle]
  /\ freedCached = {} /\ damaged = FALSE

-----------------------------------------------------------------------------
(* Host memory                                                             *)

Mapped(a) == host[a].id # 0
Copied(a) == persistent[a].ptr # NoBlock \/ dequant[a].ptr # NoBlock

Write(a, ty) ==
  /\ ~Mapped(a) /\ written < MaxTensors
  /\ written' = written + 1
  /\ host' = [host EXCEPT ![a] = [id |-> written + 1, type |-> ty]]

NoteFreed(S) == freedCached' = freedCached \cup {a \in S : Copied(a)}

-----------------------------------------------------------------------------
(* The steps of a backend call.                                            *)

Staged == ~kernels \/ parity

(* What the second operand is looked up in: the dequantized copies, the    *)
(* copies of host memory, or nothing (a buffer for this call only).  Rows  *)
(* are looked up from 256 on: a chunk of the output projection may have so *)
(* many, the K that attention scores is passed a single row at a time.     *)
Lookup(q) ==
  LET quantized == host[q.addr].type # "F32"
  IN  CASE q.op = "preload" -> IF quantized /\ parity THEN "dequant" ELSE "persistent"
        [] q.op = "product" -> IF quantized /\ Staged THEN "dequant" ELSE "persistent"
        [] q.op = "strided" -> "persistent"
        [] q.op = "rows" -> IF q.long THEN "persistent" ELSE "none"
        [] OTHER -> "none"

(* The byte count of the lookup, by what it stands for: a weight with all  *)
(* its bytes, or a chunk of the output projection's rows.                  *)
Bytes(q) == IF q.op = "rows" THEN "chunk" ELSE "tensor"

(* A thread enters the backend and copies the first operand to the device  *)
(* (alloc_copy_to_device; without a block the call has failed and nothing  *)
(* has changed).  A preload has no first operand.                          *)
Enter(c, op, a, long) ==
  LET q == [Idle EXCEPT !.pc = "resolve", !.op = op, !.addr = a, !.long = long]
  IN  /\ call[c].pc = "idle"
      /\ \/ op = "preload" /\ call' = [call EXCEPT ![c] = q] /\ UNCHANGED dev
         \/ /\ op # "preload"
            /\ \E b \in Block :
                 /\ dev[b] = Free
                 /\ dev' = [dev EXCEPT ![b] = Scratch]
                 /\ call' = [call EXCEPT ![c] = [q EXCEPT !.dA = b]]

Release1(d, b) == IF b = NoBlock THEN d ELSE [d EXCEPT ![b] = Free]

(* Mutant of FreeTemporaries: a matrix from the cache is freed as well.    *)
FreeEverything(d, q) == Release1(Release1(Release1(d, q.dA), q.dC), q.dB)

(* The call ends: its own buffers are freed.                               *)
FreeTemporaries(d, q) ==
  Release1(Release1(Release1(d, q.dA), q.dC), IF q.temp THEN q.dB ELSE NoBlock)

Return(c, d) == call' = [call EXCEPT ![c] = Idle] /\ dev' = FreeTemporaries(d, call[c])

stepFrame == <<hostVars, modeVars, ctxVars, freedCached>>

(* The second operand has been found or copied to block b.                 *)
Resolved(c, b, temp, d) ==
  call' = IF call[c].op = "preload" THEN [call EXCEPT ![c] = Idle]
          ELSE [call EXCEPT ![c].dB = b, ![c].temp = temp, ![c].pc = "out", ![c].got = d[b]]

(* get_or_upload_persistent, under its lock from beginning to end.         *)
Hit(c) == LET e == persistent[call[c].addr]
          IN  e.ptr # NoBlock /\ e.bytes = Bytes(call[c])

UseCopy(c) ==
  /\ call[c].pc = "resolve" /\ Lookup(call[c]) = "persistent" /\ Hit(c)
  /\ Resolved(c, persistent[call[c].addr].ptr, FALSE, dev)
  /\ UNCHANGED <<stepFrame, dev, cacheVars, damaged>>

(* Mutant of Evict: the block of the old copy is not freed.                *)
EvictKept(e) == dev

Evict(e) == Release1(dev, e.ptr)

(* A miss: the old entry goes, a block is asked for.  When there is none   *)
(* a long chunk of rows tries a buffer of its own, the others fail.        *)
Upload(c) ==
  LET q == call[c]
      d == Evict(persistent[q.addr])
  IN  /\ q.pc = "resolve" /\ Lookup(q) = "persistent" /\ ~Hit(c)
      /\ \/ \E b \in Block :
              /\ d[b] = Free
              /\ dev' = [d EXCEPT ![b] = host[q.addr].id]
              /\ persistent' = [persistent EXCEPT ![q.addr] = [ptr |-> b, bytes |-> Bytes(q)]]
              /\ Resolved(c, b, FALSE, dev')
         \/ /\ persistent' = [persistent EXCEPT ![q.addr] = NoEntry]
            /\ IF q.op = "rows"
               THEN dev' = d /\ call' = [call EXCEPT ![c].long = FALSE]
               ELSE Return(c, d)
      /\ UNCHANGED <<stepFrame, dequant, damaged>>

(* alloc_copy_to_device of the second operand, for this call only.         *)
CopyOnce(c) ==
  LET q == call[c]
  IN  /\ q.pc = "resolve" /\ Lookup(q) = "none"
      /\ \/ \E b \in Block :
              /\ dev[b] = Free
              /\ dev' = [dev EXCEPT ![b] = host[q.addr].id]
              /\ Resolved(c, b, TRUE, dev')
         \/ Return(c, dev)
      /\ UNCHANGED <<stepFrame, cacheVars, damaged>>

(* get_or_build_persistent_dequant_f32: the lookup and the insertion hold  *)
(* the lock, the copy between them does not.                               *)
UseDequant(c) ==
  LET e == dequant[call[c].addr]
  IN  /\ call[c].pc = "resolve" /\ Lookup(call[c]) = "dequant"
      /\ e.ptr # NoBlock /\ e.type = host[call[c].addr].type
      /\ Resolved(c, e.ptr, FALSE, dev)
      /\ UNCHANGED <<stepFrame, dev, cacheVars, damaged>>

MissDequant(c) ==
  LET e == dequant[call[c].addr]
  IN  /\ call[c].pc = "resolve" /\ Lookup(call[c]) = "dequant"
      /\ ~(e.ptr # NoBlock /\ e.type = host[call[c].addr].type)
      /\ dequant' = [dequant EXCEPT ![call[c].addr] = NoDequant]
      /\ \/ \E b \in Block :
              /\ Evict(e)[b] = Free
              /\ dev' = [Evict(e) EXCEPT ![b] = host[call[c].addr].id]
              /\ call' = [call EXCEPT ![c].dB = b, ![c].pc = "insert"]
         \/ Return(c, Evict(e))
      /\ UNCHANGED <<stepFrame, persistent, damaged>>

InsertDequant(c) ==
  LET q == call[c]
  IN  /\ q.pc = "insert"
      /\ dequant' = [dequant EXCEPT ![q.addr] = [ptr |-> q.dB, type |-> host[q.addr].type]]
      /\ Resolved(c, q.dB, FALSE, dev)
      /\ UNCHANGED <<stepFrame, dev, persistent, damaged>>

(* The calls that compute with a block of S are cut: their operand is      *)
(* freed under them.                                                       *)
Cut(S) == [c \in Context |-> IF call[c].pc \in {"out", "run"} /\ call[c].dB \in S
                             THEN [call[c] EXCEPT !.cut = TRUE] ELSE call[c]]

(* The output buffer.  Without one the call fails; the strided product     *)
(* then frees the matrix too, although the cache holds it and other calls  *)
(* may be using it.                                                        *)
AllocOut(c) ==
  LET q == call[c]
  IN  /\ q.pc = "out"
      /\ \/ \E b \in Block :
              /\ dev[b] = Free
              /\ dev' = [dev EXCEPT ![b] = Scratch]
              /\ call' = [call EXCEPT ![c].dC = b, ![c].pc = "run"]
              /\ UNCHANGED damaged
         \/ IF q.op = "strided"
            THEN /\ dev' = FreeTemporaries(Release1(dev, q.dB), q)
                 /\ call' = [Cut({q.dB}) EXCEPT ![c] = Idle]
                 /\ damaged' = TRUE
            ELSE Return(c, dev) /\ UNCHANGED damaged
      /\ UNCHANGED <<stepFrame, cacheVars>>

(* The kernel, the copy of its result, and the end of the call.            *)
Run(c) ==
  /\ call[c].pc = "run"
  /\ Return(c, dev)
  /\ UNCHANGED <<stepFrame, cacheVars, damaged>>

BackendStep(c) ==
  \/ UseCopy(c) \/ Upload(c) \/ CopyOnce(c)
  \/ UseDequant(c) \/ MissDequant(c) \/ InsertDequant(c) \/ AllocOut(c) \/ Run(c)

-----------------------------------------------------------------------------
(* A context                                                               *)

(* Opening: the architecture decides the parity mode of the process.       *)
Open(c) ==
  /\ phase[c] = "closed" /\ written < MaxTensors
  /\ phase' = [phase EXCEPT ![c] = "loading"]
  /\ parity' \in BOOLEAN
  /\ UNCHANGED <<hostVars, dev, cacheVars, kernels, own, todo, key, call, freedCached, damaged>>

(* load_one: a weight is read and preloaded at once.                       *)
LoadOne(c, a, ty) ==
  /\ phase[c] = "loading" /\ Cardinality(own[c]) < WeightMax
  /\ Write(a, ty)
  /\ own' = [own EXCEPT ![c] = @ \cup {a}]
  /\ Enter(c, "preload", a, FALSE)
  /\ UNCHANGED <<cacheVars, modeVars, phase, todo, key, freedCached, damaged>>

(* normalize_kv, normalize_linear_inplace: an F32 weight moves to another  *)
(* address, transposed.                                                    *)
(* Mutant of Transpose: the context keeps the old address too.             *)
TransposeKept(c, a, b) ==
  /\ phase[c] = "loading" /\ call[c].pc = "idle"
  /\ a \in own[c] /\ host[a].type = "F32"
  /\ ~Mapped(b) /\ written < MaxTensors
  /\ written' = written + 1
  /\ host' = [host EXCEPT ![b] = [id |-> written + 1, type |-> "F32"], ![a] = Unmapped]
  /\ own' = [own EXCEPT ![c] = @ \cup {b}]
  /\ NoteFreed({a})
  /\ UNCHANGED <<dev, cacheVars, modeVars, phase, todo, key, call, damaged>>

Transpose(c, a, b) ==
  /\ phase[c] = "loading" /\ call[c].pc = "idle"
  /\ a \in own[c] /\ host[a].type = "F32"
  /\ ~Mapped(b) /\ written < MaxTensors
  /\ written' = written + 1
  /\ host' = [host EXCEPT ![b] = [id |-> written + 1, type |-> "F32"], ![a] = Unmapped]
  /\ own' = [own EXCEPT ![c] = (@ \ {a}) \cup {b}]
  /\ NoteFreed({a})
  /\ UNCHANGED <<dev, cacheVars, modeVars, phase, todo, key, call, damaged>>

EndLoading(c) ==
  /\ phase[c] = "loading" /\ call[c].pc = "idle"
  /\ phase' = [phase EXCEPT ![c] = "open"] /\ todo' = [todo EXCEPT ![c] = own[c]]
  /\ UNCHANGED <<hostVars, dev, cacheVars, modeVars, own, key, call, freedCached, damaged>>

(* preload_context_weights_to_backend                                      *)
Preload(c, a) ==
  /\ a \in todo[c]
  /\ Enter(c, "preload", a, FALSE)
  /\ todo' = [todo EXCEPT ![c] = @ \ {a}]
  /\ UNCHANGED <<hostVars, cacheVars, modeVars, phase, own, key, freedCached, damaged>>

Ready(c) == phase[c] = "open" /\ todo[c] = {} /\ call[c].pc = "idle"

(* A product with a weight: project_with_weight, or the F32 output         *)
(* projection by columns (strided) or by chunks of rows.                   *)
UseWeight(c, a, op, long) ==
  /\ Ready(c) /\ a \in own[c]
  /\ op \in {"strided", "rows"} => host[a].type = "F32"
  /\ Enter(c, op, a, long)
  /\ UNCHANGED <<hostVars, cacheVars, modeVars, ctxVars, freedCached, damaged>>

(* The K of a layer is written, used by attention for each query, freed.   *)
NewKey(c, a) ==
  /\ Ready(c) /\ key[c] = {}
  /\ Write(a, "F32")
  /\ key' = [key EXCEPT ![c] = {a}]
  /\ UNCHANGED <<dev, cacheVars, modeVars, phase, own, todo, call, freedCached, damaged>>

Attend(c, a) ==
  /\ Ready(c) /\ a \in key[c]
  /\ Enter(c, "scores", a, FALSE)
  /\ UNCHANGED <<hostVars, cacheVars, modeVars, ctxVars, freedCached, damaged>>

FreeKey(c) ==
  /\ Ready(c) /\ key[c] # {}
  /\ host' = [a \in Addr |-> IF a \in key[c] THEN Unmapped ELSE host[a]]
  /\ key' = [key EXCEPT ![c] = {}]
  /\ NoteFreed(key[c])
  /\ UNCHANGED <<written, dev, cacheVars, modeVars, phase, own, todo, call, damaged>>

(* cuda_backend_release_resources, first thing in minxfmr_close: all       *)
(* copies of all contexts.                                                 *)
Cached == {persistent[a].ptr : a \in Addr} \cup {dequant[a].ptr : a \in Addr}

(* Mutant of Release: the dequantized copies stay.                         *)
ReleasePersistent(c) ==
  /\ phase[c] \in {"loading", "open"} /\ call[c].pc = "idle" /\ key[c] = {}
  /\ dev' = [b \in Block |-> IF \E a \in Addr : persistent[a].ptr = b THEN Free ELSE dev[b]]
  /\ persistent' = [a \in Addr |-> NoEntry]
  /\ freedCached' = {}
  /\ phase' = [phase EXCEPT ![c] = "released"] /\ todo' = [todo EXCEPT ![c] = {}]
  /\ UNCHANGED <<hostVars, modeVars, own, key, damaged, call, dequant>>

Release(c) ==
  /\ phase[c] \in {"loading", "open"} /\ call[c].pc = "idle" /\ key[c] = {}
  /\ dev' = [b \in Block |-> IF b \in Cached THEN Free ELSE dev[b]]
  /\ persistent' = [a \in Addr |-> NoEntry] /\ dequant' = [a \in Addr |-> NoDequant]
  /\ call' = Cut(Cached)
  /\ freedCached' = {}
  /\ phase' = [phase EXCEPT ![c] = "released"] /\ todo' = [todo EXCEPT ![c] = {}]
  /\ UNCHANGED <<hostVars, modeVars, own, key, damaged>>

FreeWeights(c) ==
  /\ phase[c] = "released"
  /\ host' = [a \in Addr |-> IF a \in own[c] THEN Unmapped ELSE host[a]]
  /\ NoteFreed(own[c])
  /\ own' = [own EXCEPT ![c] = {}] /\ phase' = [phase EXCEPT ![c] = "closed"]
  /\ UNCHANGED <<written, dev, cacheVars, modeVars, todo, key, call, damaged>>

ContextStep(c) ==
  \/ Open(c) \/ EndLoading(c) \/ FreeKey(c) \/ Release(c) \/ FreeWeights(c)
  \/ \E a \in Addr :
       \/ Preload(c, a) \/ NewKey(c, a) \/ Attend(c, a)
       \/ \E ty \in Type : LoadOne(c, a, ty)
       \/ \E b \in Addr : Transpose(c, a, b)
       \/ \E op \in {"product", "strided", "rows"}, long \in BOOLEAN : UseWeight(c, a, op, long)

Next == ~damaged /\ \E c \in Context : BackendStep(c) \/ ContextStep(c)

Spec == Init /\ [][Next]_vars
-----------------------------------------------------------------------------
(* Properties                                                              *)

(* Every variable has its type, and a context names mapped addresses only. *)
TypeOK ==
  /\ host \in [Addr -> [id : 0 .. MaxTensors, type : Type]] /\ written \in 0 .. MaxTensors
  /\ dev \in [Block -> -1 .. MaxTensors]
  /\ persistent \in [Addr -> [ptr : Block \cup {NoBlock}, bytes : {"tensor", "chunk"}]]
  /\ dequant \in [Addr -> [ptr : Block \cup {NoBlock}, type : Type]]
  /\ kernels \in BOOLEAN /\ parity \in BOOLEAN /\ damaged \in BOOLEAN
  /\ phase \in [Context -> {"closed", "loading", "open", "released"}]
  /\ \A c \in Context :
       /\ todo[c] \subseteq own[c]
       /\ own[c] \cup key[c] \subseteq {a \in Addr : Mapped(a)}
       /\ call[c].pc \in {"idle", "resolve", "insert", "out", "run"}
       /\ call[c].pc \in {"out", "run"} => {call[c].dA, call[c].dB} \subseteq Block
  /\ freedCached \subseteq Addr

(* Who must free a block: an entry of a cache, or a call in flight that    *)
(* has it for itself.                                                      *)
Owners ==
  {<<"persistent", a, persistent[a].ptr>> : a \in Addr}
    \cup {<<"dequant", a, dequant[a].ptr>> : a \in Addr}
    \cup (UNION {{<<"dA", c, call[c].dA>>, <<"dC", c, call[c].dC>>} : c \in Context})
    \cup {<<"dB", c, IF call[c].temp \/ call[c].pc = "insert" THEN call[c].dB ELSE NoBlock>>
          : c \in Context}

(* No block is lost and none has two owners, whatever allocation fails and *)
(* however the contexts interleave, until a strided product without room   *)
(* for its output frees the matrix the cache still names; and nothing is   *)
(* left on the device when the last context is closed.                     *)
BlocksOwned ==
  ~damaged =>
    /\ \A b \in Block :
         Cardinality({o \in Owners : o[3] = b}) = IF dev[b] = Free THEN 0 ELSE 1
    /\ (\A c \in Context : phase[c] = "closed") => \A b \in Block : dev[b] = Free

(* Between looking its operand up and the end of the kernel a call loses   *)
(* it in two ways only, those that cut the call: another context is closed *)
(* while the operand is a cached copy, or a strided product without room   *)
(* for its output frees this very block.  No eviction, upload, insertion,  *)
(* end of a call or other failure frees or overwrites an operand, nor does *)
(* the strided product's second free reach any other call.                 *)
OperandsStay ==
  \A c \in Context :
    call[c].pc \in {"out", "run"} /\ ~call[c].cut
      => dev[call[c].dB] = call[c].got /\ call[c].got # Free

Stale(a, b) == b # NoBlock /\ Mapped(a) /\ dev[b] # host[a].id

(* The copy of host memory found at an address is that of the tensor       *)
(* there, unless an earlier tensor at the address was freed while its copy *)
(* was cached (a weight transposed after its preload); the copy of a       *)
(* quantized tensor always is.                                             *)
StaleOnlyAfterFree ==
  ~damaged => \A a \in Addr :
    /\ Stale(a, persistent[a].ptr) => a \in freedCached
    /\ ~Stale(a, dequant[a].ptr)
=============================================================================
