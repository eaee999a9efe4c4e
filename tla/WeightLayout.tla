---------------------------- MODULE WeightLayout ----------------------------
(***************************************************************************)
(* How a weight matrix is laid out in memory and which product reads it:   *)
(* minxfmr_open_with_layer decides on an orientation from the architecture *)
(* or by the user's order, transposes what it can at load time and leaves  *)
(* flags for the rest; project_with_weight in transformer.cpp reads flags  *)
(* and shapes.  The flags are one set per process, not one per context.    *)
(*                                                                         *)
(* An element of a matrix is the pair <<o, i>> of its output and input;    *)
(* memory is the sequence of elements, and a product is what it reads: for *)
(* each output the elements it multiplies the inputs with, in order.       *)
(***************************************************************************)
EXTENDS Integers, Sequences, FiniteSets

CONSTANTS
  Context,   (* contexts, each opened by a thread of its own               *)
  Dim,       (* inputs of every weight here (model_dim, ffn_hidden)        *)
  Files,     (* model files: [arch, layers], a layer maps Role to a tensor *)
  Orders,    (* what a user orders with --transpose-*, [Attention -> BOOLEAN] *)
  Absent,    (* no tensor                                                  *)
  NoOrder,   (* no order of the user's                                     *)
  FailMax    (* bound: allocations that fail in one opening                *)

(* wo is like wq without the copy for the context; gate, up and down are   *)
(* alike.                                                                  *)
Triple == {"q", "k", "v"}
Attention == Triple \cup {"o"}
Role == Attention \cup {"ffn"}

(* A tensor of a file, with the inputs on one side, and one in memory.     *)
Tensor == {t \in [type : {"F32", "Quant"}, rows : Nat \ {0}, cols : Nat \ {0}] :
             Dim \in {t.rows, t.cols}}
Matrix == [type : {"F32", "Quant"}, rows : Nat \ {0}, cols : Nat \ {0}, data : Seq(Nat \X Nat)]

ASSUME LayoutAssumption ==
  /\ Dim \in Nat \ {0} /\ FailMax \in Nat
  /\ Orders \subseteq [Attention -> BOOLEAN] /\ NoOrder \notin Orders
  /\ Absent \notin Matrix
  /\ \A f \in Files : f.layers \in Seq([Role -> Tensor \cup {Absent}]) /\ f.layers # <<>>

VARIABLES
  flags,     (* backend_context().transpose_square_*                       *)
  prefer,    (* backend_context().prefer_ggml_mul_mat_layout               *)
  force,     (* MINXFMR_FORCE_FFN_F32                                      *)
  phase,     (* phase[c]: how far the opening has come                     *)
  file,      (* file[c]: the model file                                    *)
  want,      (* want[c]: desired_transpose_*                               *)
  own,       (* own[c]: the preference c's architecture asks for           *)
  weights,   (* weights[c][l][r]; layer 0 is the context's own wq, wk, wv  *)
  failed,    (* history: weights[c] that an allocation failed for          *)
  live,      (* live[c]: tensors c's opening allocated that are not freed  *)
  leaky      (* history, leaky[c]: c's file had half a triple, or clones   *)
             (* were replaced                                              *)

policyVars == <<flags, prefer, force>>
ctxVars == <<phase, file, want, own, failed>>
vars == <<policyVars, ctxVars, weights, live, leaky>>

Init ==
  /\ flags = [r \in Role |-> FALSE] /\ prefer = FALSE /\ force \in BOOLEAN
  /\ phase = [c \in Context |-> "closed"]
  /\ file = [c \in Context |-> Absent]
  /\ want = [c \in Context |-> [r \in Role |-> FALSE]]
  /\ own = [c \in Context |-> FALSE]
  /\ weights = [c \in Context |-> << >>] /\ failed = [c \in Context |-> {}]
  /\ live = [c \in Context |-> 0] /\ leaky = [c \in Context |-> FALSE]

-----------------------------------------------------------------------------
(* Matrices                                                                *)

IsSquare(t) == t.rows = Dim /\ t.cols = Dim

(* A tensor of the file, row after row.  A rectangular one shows by its    *)
(* shape which side is the input; outRows says it for a square one.        *)
Read(t, outRows) ==
  LET byOutput == IF IsSquare(t) THEN outRows ELSE t.cols = Dim
      Row(p) == (p - 1) \div t.cols + 1
      Col(p) == ((p - 1) % t.cols) + 1
  IN  [type |-> t.type, rows |-> t.rows, cols |-> t.cols,
       data |-> [p \in 1 .. t.rows * t.cols |->
                   IF byOutput THEN <<Row(p), Col(p)>> ELSE <<Col(p), Row(p)>>]]

(* tensor_transpose_f32                                                    *)
Transposed(t) ==
  [t EXCEPT !.rows = t.cols, !.cols = t.rows,
     !.data = [p \in DOMAIN t.data |->
                 t.data[((p - 1) % t.rows) * t.cols + (p - 1) \div t.rows + 1]]]

(* normalize_kv: a tall wk or wv is taken for transposed.                  *)
TallF32(t) == t # Absent /\ t.type = "F32" /\ t.rows > t.cols

(* normalize_linear_inplace: which tensors are transposed at load time.    *)
ToTranspose(t, square) ==
  /\ t # Absent /\ t.type = "F32"
  /\ IF IsSquare(t) THEN square ELSE ~prefer /\ t.rows # Dim /\ t.cols = Dim

-----------------------------------------------------------------------------
(* Products                                                                *)

(* Mutant of Path: F32 squares follow the flag too.                        *)
PathForAllTypes(t, flag) ==
  IF flag /\ IsSquare(t) THEN "rhs"
  ELSE IF prefer /\ t.cols = Dim THEN "rhs"
  ELSE IF t.rows = Dim THEN "matmul" ELSE "rhs"

(* Mutant of Path: the preference decides whatever the shape is.           *)
PathByPreference(t, flag) ==
  IF flag /\ IsSquare(t) /\ t.type # "F32" THEN "rhs"
  ELSE IF prefer THEN "rhs"
  ELSE IF t.rows = Dim THEN "matmul" ELSE "rhs"

(* project_with_weight, for a weight one of whose sides is the input's.    *)
Path(t, flag) ==
  IF flag /\ IsSquare(t) /\ t.type # "F32" THEN "rhs"
  ELSE IF prefer /\ t.cols = Dim THEN "rhs"
  ELSE IF t.rows = Dim THEN "matmul" ELSE "rhs"

(* backend_matmul                                                          *)
Matmul(t) ==
  [o \in 1 .. t.cols |-> [i \in 1 .. t.rows |-> t.data[(i - 1) * t.cols + o]]]

(* backend_matmul_rhs_transposed: quantized weights, and all on the        *)
(* device, are read by rows; the CPU reads F32 ones by columns.            *)
RhsTransposed(t, engine) ==
  [o \in 1 .. t.rows |-> [i \in 1 .. t.cols |->
     IF engine = "CPU" /\ t.type = "F32" THEN t.data[(i - 1) * t.rows + o]
     ELSE t.data[(o - 1) * t.cols + i]]]

Product(t, flag, engine) ==
  IF Path(t, flag) = "matmul" THEN Matmul(t) ELSE RhsTransposed(t, engine)

-----------------------------------------------------------------------------
(* Opening a model                                                         *)

UsesSquareTranspose(arch) == arch = "llama"
PrefersGgml(arch) == arch = "qwen"

(* The orientation policy; an order leaves the preference as it was.       *)
SetPolicy(c, f, order) ==
  /\ phase[c] = "closed"
  /\ file' = [file EXCEPT ![c] = f]
  /\ want' = [want EXCEPT ![c] = [r \in Role |->
                IF order = NoOrder THEN UsesSquareTranspose(f.arch)
                ELSE IF r = "ffn" THEN \E a \in Attention : order[a] ELSE order[r]]]
  /\ own' = [own EXCEPT ![c] = order = NoOrder /\ PrefersGgml(f.arch)]
  /\ prefer' = IF order = NoOrder THEN PrefersGgml(f.arch) ELSE prefer
  /\ phase' = [phase EXCEPT ![c] = "policy"]
  /\ live' = [live EXCEPT ![c] = 0] /\ leaky' = [leaky EXCEPT ![c] = FALSE]
  /\ UNCHANGED <<flags, force, weights, failed>>

(* Places of S for which memory is short; FailMax in one opening.          *)
Failures(c, S) == {F \in SUBSET S : Cardinality(failed[c] \cup F) <= FailMax}

Layers(c) == 1 .. Len(file[c].layers)
Present(layer, S) == {r \in S : layer[r] # Absent}
WholeTriple(layer) == Present(layer, Triple) = Triple
Stored(layer, r) == layer[r] # Absent /\ (r \in Triple => WholeTriple(layer))
NoTensors == [r \in Role |-> Absent]

(* gguf_try_load_*_for_layer for each layer: wq, wk and wv are kept when   *)
(* all three are there; read and lost otherwise.                           *)
Load(c) ==
  LET raw == [l \in Layers(c) |-> [r \in Role |->
                IF Stored(file[c].layers[l], r)
                THEN Read(file[c].layers[l][r], want[c][r] \/ own[c]) ELSE Absent]]
      tall == {p \in Layers(c) \X {"k", "v"} : TallF32(raw[p[1]][p[2]])}
  IN  /\ phase[c] = "policy"
      /\ \E F \in Failures(c, tall) :
           /\ weights' = [weights EXCEPT ![c] = [l \in {0} \cup Layers(c) |->
                IF l = 0 THEN NoTensors
                ELSE [r \in Role |-> IF <<l, r>> \in tall \ F THEN Transposed(raw[l][r])
                                     ELSE raw[l][r]]]]
           /\ failed' = [failed EXCEPT ![c] = F]
      /\ live' = [live EXCEPT ![c] =
           Cardinality({p \in Layers(c) \X Role : file[c].layers[p[1]][p[2]] # Absent})]
      /\ leaky' = [leaky EXCEPT ![c] =
           \E l \in Layers(c) : Present(file[c].layers[l], Triple) \notin {{}, Triple}]
      /\ phase' = [phase EXCEPT ![c] = "loaded"]
      /\ UNCHANGED <<policyVars, file, want, own>>

(* The context's own wq, wk and wv: clones of those of the first layer     *)
(* that has them, a null clone for a quantized one or without memory.      *)
(* With no wq the triple of the projection layer, here the first, is read, *)
(* and replaces all three.                                                 *)
FirstWhole(c) == {l \in Layers(c) : weights[c][l]["q"] # Absent
                    /\ \A k \in Layers(c) : k < l => weights[c][k]["q"] = Absent}

CopyTriple(c) ==
  /\ phase[c] = "loaded"
  /\ \E F \in Failures(c, {0} \X {r \in Triple : \E l \in FirstWhole(c) : weights[c][l][r].type = "F32"}) :
       LET cloned == {r \in Triple : /\ <<0, r>> \notin F
                                     /\ \E l \in FirstWhole(c) : weights[c][l][r].type = "F32"}
           clone == [r \in Role |-> IF r \in cloned
                       THEN weights[c][CHOOSE l \in FirstWhole(c) : TRUE][r] ELSE Absent]
           layer == file[c].layers[1]
           again == "q" \notin cloned
           reread == [r \in Role |-> IF Stored(layer, r) /\ r \in Triple
                                     THEN Read(layer[r], want[c][r] \/ own[c]) ELSE Absent]
       IN  /\ weights' = [weights EXCEPT ![c][0] =
                IF ~(again /\ WholeTriple(layer)) THEN clone
                ELSE [r \in Role |-> IF r # "q" /\ TallF32(reread[r])
                                     THEN Transposed(reread[r]) ELSE reread[r]]]
           /\ live' = [live EXCEPT ![c] = @ + Cardinality(cloned)
                         + IF again THEN Cardinality(Present(layer, Triple)) ELSE 0]
           /\ leaky' = [leaky EXCEPT ![c] = @ \/ (again /\ WholeTriple(layer) /\ cloned # {})]
           /\ failed' = [failed EXCEPT ![c] = @ \cup F]
  /\ phase' = [phase EXCEPT ![c] = "copied"]
  /\ UNCHANGED <<policyVars, file, want, own>>

Held(c) == {p \in (DOMAIN weights[c]) \X Role : weights[c][p[1]][p[2]] # Absent}

(* Mutant of Freed: the context's own copies are forgotten.                *)
FreedLayers(c) == {p \in Held(c) : p[1] # 0}

(* minxfmr_close frees every weight of the context.                        *)
Freed(c) == Held(c)

Discard(c) ==
  /\ live' = [live EXCEPT ![c] = @ - Cardinality(Freed(c))]
  /\ weights' = [weights EXCEPT ![c] = << >>] /\ failed' = [failed EXCEPT ![c] = {}]
  /\ file' = [file EXCEPT ![c] = Absent]
  /\ want' = [want EXCEPT ![c] = [r \in Role |-> FALSE]] /\ own' = [own EXCEPT ![c] = FALSE]
  /\ phase' = [phase EXCEPT ![c] = "closed"]
  /\ UNCHANGED <<policyVars, leaky>>

(* Without attention, wo or ffn weights opening is refused.                *)
Has(c, r) == \E l \in DOMAIN weights[c] : weights[c][l][r] # Absent
Complete(c) == Has(c, "q") /\ Has(c, "o") /\ Has(c, "ffn")
Refuse(c) == phase[c] = "copied" /\ ~Complete(c) /\ Discard(c)

(* Each weight transposed where it must be and memory is there; then, for  *)
(* debugging, quantized ffn weights made F32 as they lie.                  *)
Normalize(c) ==
  LET turned == {p \in Held(c) : ToTranspose(weights[c][p[1]][p[2]], want[c][p[2]])}
      forced == {p \in Held(c) : force /\ p[2] = "ffn" /\ weights[c][p[1]][p[2]].type # "F32"}
  IN  /\ phase[c] = "copied" /\ Complete(c)
      /\ \E F \in Failures(c, turned \cup forced) :
           /\ weights' = [weights EXCEPT ![c] = [l \in DOMAIN @ |-> [r \in Role |->
                IF <<l, r>> \in turned \ F THEN Transposed(@[l][r])
                ELSE IF <<l, r>> \in forced \ F THEN [@[l][r] EXCEPT !.type = "F32"]
                ELSE @[l][r]]]]
           /\ failed' = [failed EXCEPT ![c] = @ \cup F]
      /\ phase' = [phase EXCEPT ![c] = "normal"]
      /\ UNCHANGED <<policyVars, file, want, own, live, leaky>>

(* quantized_square_needs_runtime_transpose, for any layer of a context.   *)
OwnFlag(c, r) ==
  want[c][r] /\ \E l \in DOMAIN weights[c] :
    LET t == weights[c][l][r] IN t # Absent /\ t.type # "F32" /\ IsSquare(t)

SetFlags(c) ==
  /\ phase[c] = "normal"
  /\ flags' = [r \in Role |-> OwnFlag(c, r)]
  /\ phase' = [phase EXCEPT ![c] = "open"]
  /\ UNCHANGED <<prefer, force, file, want, own, weights, failed, live, leaky>>

Close(c) == phase[c] = "open" /\ Discard(c)

Next == \E c \in Context :
  \/ \E f \in Files, order \in Orders \cup {NoOrder} : SetPolicy(c, f, order)
  \/ Load(c) \/ CopyTriple(c) \/ Refuse(c) \/ Normalize(c) \/ SetFlags(c) \/ Close(c)

Spec == Init /\ [][Next]_vars

-----------------------------------------------------------------------------
(* Properties.                                                             *)

(* What the product with a weight should read: output o, input i.          *)
Meant(t) == [o \in 1 .. (IF t.cols = Dim THEN t.rows ELSE t.cols) |-> [i \in 1 .. Dim |-> <<o, i>>]]

ByColumns(t, r, engine) ==
  engine = "CPU" /\ t.type = "F32" /\ Path(t, flags[r]) = "rhs"

Weight(c, P(_, _, _)) ==
  phase[c] = "open" => \A l \in DOMAIN weights[c], r \in Role :
    weights[c][l][r] # Absent => P(weights[c][l][r], l, r)

(* The product with a rectangular weight is right whatever else is opened, *)
(* closed or ordered meanwhile, whichever transposition fails, on either   *)
(* backend; except where the CPU reads an F32 weight by columns.           *)
RectangularByShape ==
  \A c \in Context, engine \in {"CPU", "CUDA"} :
    LET Right(t, l, r) == \/ IsSquare(t) \/ ByColumns(t, r, engine)
                          \/ Product(t, flags[r], engine) = Meant(t)
    IN  Weight(c, Right)

(* The product with a square weight is right while the process-wide flags  *)
(* and preference are those of the weight's own context, whatever mixture  *)
(* of F32 and quantized layers the model has; except where a transposition *)
(* failed for lack of memory, where quantized ffn weights that needed the  *)
(* flag were made F32, and where the CPU reads by columns.                 *)
SquareByOwnFlags ==
  \A c \in Context, engine \in {"CPU", "CUDA"} :
    LET Right(t, l, r) ==
          ( /\ IsSquare(t) /\ ~ByColumns(t, r, engine)
            /\ prefer = own[c] /\ flags[r] = OwnFlag(c, r)
            /\ <<l, r>> \notin failed[c] /\ ~(force /\ r = "ffn" /\ want[c][r]) )
          => Product(t, flags[r], engine) = Meant(t)
    IN  Weight(c, Right)

(* Opening and closing leave no tensor behind, refused openings included,  *)
(* unless a file had half a triple or clones were made and then replaced   *)
(* because there was none of wq.                                           *)
OpeningLeaksOnlyParts ==
  \A c \in Context : ~leaky[c] => live[c] = Cardinality(Held(c))

-----------------------------------------------------------------------------
(* A claim of a document that the code does not keep.                      *)

(* "identical model behavior", "identical output tokens" on the CPU and    *)
(* with CUDA (20_CUDA_BACKEND.md:35): a product reads the same elements.   *)
BackendsAgree ==
  \A c \in Context :
    LET Same(t, l, r) == Product(t, flags[r], "CPU") = Product(t, flags[r], "CUDA")
    IN  Weight(c, Same)
=============================================================================
