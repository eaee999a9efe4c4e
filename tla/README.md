# minXfmr.cpp: models, checks and proofs

This directory holds TLA+ models of the inference engine in `src/src`, the
configurations that model-check them with TLC, and theorems about them checked
by TLAPS. Paths below are relative to `src/src` unless they start with `src/`.

## The system

One call of `minxfmr_generate` turns a prompt into tokens and hands their text
to a callback. Around it:

| part | state | operations | with whom |
|---|---|---|---|
| KV cache (`cache/kv_cache.cpp`) | per layer a ring of `seq_max` key and value rows, a length, a head | create, free, append, reset | appended to and read by the layers, reset by generate and reset |
| tensor memory (`tensor/tensor.cpp`) | thread-local arena, F32 pool, object cache | create (arena or heap), view, free, arena reset | every other part |
| generation driver (`api/minxfmr.cpp`) | the context: weights, cache, four work buffers | open, generate, reset, close | calls the layers, the tokenizer, the callback |
| transformer layer (`transformer/transformer.cpp`) | none of its own; up to fourteen temporaries | `transformer_forward_single_layer` | reads and appends to the cache, allocates and frees tensors |
| token streaming (second half of `minxfmr_generate`) | held-back bytes, held-back text pieces, history, counters | one iteration of the loop, final flush | the callback |
| sampling (`api/minxfmr.cpp`) | a process-wide random generator | penalties, top-k, top-p, min-p, first-token rule | token streaming |
| model opening (`api/minxfmr.cpp`, `io/`, `third_party/gguf`) | weights, dimensions, layout flags | load, infer dimensions, transpose | tensor memory, tokenizer, backend flags |
| backend (`backend/`) | process-wide choice and flags, workspace, device weight cache | choose, multiply, preload, release | the layers |
| tokenizer (`tokenizer/tokenizer.cpp`) | process-wide vocabulary, trie, merges | load, encode, decode | open and generate |
| chat loop (`main.cpp`) | the conversation | read a line, build a prompt, generate | the API |

Within a context nothing is concurrent but the threads of one CPU product;
`API.md` allows one thread per context, and several contexts.  What is hard:

* **partial failure**: any allocation and any product may fail, in a layer that
  holds up to nine temporaries, between two layers that each keep their own ring,
  in the clone of the prefill output, in the transposition of a weight; each
  failure has its own clean-up list;
* **state that outlives a call**: the ring's rows, the arena, the pool, the device
  copies of host memory, found again by address only;
* **process-wide state** under a per-context interface: vocabulary, layout flags,
  device caches;
* **callbacks in the middle of a call**, which may call `minxfmr_reset`;
* **two hold-back buffers** that are flushed together but filled apart;
* **limits**: a full ring, arena, pool or device;
* **the same format decoded in five places**, the same product computed by two
  backends and by any number of threads.

What makes each part correct: the cache must look like a sliding window; memory
must never be given to two owners nor lost; the layers must agree on the
context; every chosen token must be recorded once; pointers must be freed exactly
once on each path; a product must read the elements that were meant, whoever else is
open; text must survive encoding. `PROJECT.json` lists the hazards line by line.

## Modules

| module | models | checked by |
|---|---|---|
| `SlidingWindow` | what the cache promises: the last `Capacity` rows per layer | |
| `KVCache` | `kv_cache.cpp`, implements `SlidingWindow` | `MCKVCache`, `KVCacheProofs` |
| `Decoder` | generate and `run_stack_forward` over an instance of `KVCache` | `MCDecoder`, `DecoderProofs` |
| `TokenStream` | from the chosen token to the callback | `MCTokenStream`, `TextProofs` |
| `TensorMem` | the allocator of `tensor.cpp` | `MCTensorMem`, `TensorMemProofs` |
| `GenMemory` | ownership of tensors from open to close, over an instance of `TensorMem` | `MCGenMemory`, `GenMemoryProofs` |
| `CpuMatmul` | the threaded product of `cpu_backend.cpp` | `MCCpuMatmul`, `CpuMatmulProofs` |
| `Device` | the device caches and buffers of `cuda_backend.cu`, used by several contexts | `MCDevice`, `DeviceProofs` |
| `HalfFloat`, `QuantBlocks` | half precision, the quantized blocks, their decoders and packers | `MCQuantBlocks`, `WeightProofs` |
| `Tokenizer` | `tokenizer.cpp` | `MCTokenizer`, `TextProofs` |
| `WeightLayout` | how opening lays out weights and which product reads them | `MCWeightLayout`, `WeightProofs` |

### KVCache and SlidingWindow

`keys[l][i]` and `vals[l][i]` are the rows of `keys_buf` and `vals_buf`;
`lengths` and `heads` are the vectors of the same names; `live` says that the
pointer is not null. `Create`, `Free`, `AppendRow` and `Reset` are the four
functions of `kv_cache.h`; `Phys`, `Row` and `Window` are how attention indexes the
ring. A call with a layer the cache does not have returns false and changes nothing,
so it is a stutter. The refinement maps the ring of each layer to
`Window(l)`, the rows at `(head + j) % seq_max`.

### Decoder

One action per step of the control flow: entering generate, starting a forward,
one layer, a failure, the end of a forward, the prefill loop, a decode step, sampling.
A token is named by its call and its index in the sequence; its value row is the
token, its key row also carries the rotary position. The layers in `Cached` have
the K/V width of the cache, the others never append (the check at the end of the
layer). `context` (history) lists the tokens forwarded since the last reset; the
properties compare each ring with it. `SampleContinues` includes the callback,
which may reset the cache.

### TokenStream

The logits are abstracted: any `TopK` tokens can be the best, any of them the
first, any of them sampled. A token is kept as the number of the step that chose
it. `pendB`, `pendF`, `gen_ids`, `shown`, `run` and `lastRaw` are
`pending_bytes`, `pending_token_buf`, `gen_ids`, `gen_tokens_emitted`,
`repeat_run` and `last_emitted_raw_tok`. Text is a sequence of symbols as long as
prefix comparison needs. Byte tokens have two hex digits; special tokens whose
logits are minus infinity are not in `Tok`.

### TensorMem

`heap[b]` is the size a block was allocated with, `buckets` and `cached` the
pool, `implCache` the object cache, `offset` the arena. `kind`, `at`, `block`
and `bytes` say where the storage of each tensor is. Emptying the arena frees
no tensor; `stale` (history) marks those that outlived it. The addresses of heap
blocks are abstract; the offsets in the arena are not. All of this state is
`thread_local`, so one thread is the whole story.

### GenMemory

The pointers the code holds (`weights`, `kv`, `buf`, `clone`, `in`, `local`)
and the program counter that goes through the allocation sites of a call. A
clean-up list is put into `tofree` as the code writes it, nulls included, and freed
one tensor per step; `FreeNext` passes over nulls, as `tensor_free` does. A list
that names a tensor twice, or one that somebody still holds, is so a state that
`NothingDangles` refutes. Opening is modelled tensor by tensor: `LoadWeight` and
`TransposeLoaded` are the reader, `LoseWeight` its return with an incomplete group,
`CloneWeight` and `Reread` the context's own projections (cloned from a layer, or read
when Wq could not be cloned), `ReplaceWeight` the passes that transpose and
dequantize. What the code stops naming without freeing it is collected in `lost`
(history). `Sites` is the order of the
allocations of a layer; `FreedOnFailure` and `LayerOrder` are its clean-up lists.
Any allocation for which the arena has no room and the pool no block may fail.
Weights are one size and rows another; the CPU path is modelled, the device
copies are not. Neither is opening from a text file: it indexes vectors that only the
GGUF branch fills (`api/minxfmr.cpp:1180`), which is undefined.

### CpuMatmul

A cell of the output is the sequence of the indices whose products were added to
it, so that the order of floating-point additions is visible. An addition is two
steps, `Load` and `Store`. `Spawn` is one turn of the loop that hands out ranges
(`RangeEnd`); `Update` numbers the iterations of a worker's loop nest. The F32 and
quantized variants differ in the order of their loops, and in what they split.
Without a second thread the caller itself is the one worker. With
`MINXFMR_TILED_MATMUL`, which `CMakeLists.txt` turns on by default, every F32 product that
is not empty is computed by the caller tile by tile instead (`RunTiled`, `AddTile`: the
terms of one tile are added in one step, as nobody else writes), and only products
with quantized weights have threads; without it F32 products have them too. The
model holds both builds.

### Device

`persistent` and `dequant` are the two caches, `dev` the device heap, `call[c]` the
backend call of context `c`'s thread, from its first buffer to its return. A lookup
is one step where the code holds the lock throughout, and two with a gap where it
does not (`MissDequant`, `InsertDequant`). A tensor is a number; the
contents of a buffer are the number of the tensor copied there, so a stale copy
shows. `Transpose`, `FreeKey` and `FreeWeights` free host memory without telling
the cache, as the code does. `Release` is what `minxfmr_close` does first, to the
copies of all contexts. A call whose operand another context's close or the strided
product's second free takes away is marked `cut` (`Cut`), by the block that is freed.

Simplified: the allocation of the first operand is one step with entering the
call; workspaces and handles of cuBLAS, and `ensure_ready`, are left out; calls that
only use buffers of their own behave like short products of rows. Rows from 256 on are
cached by address: the chunks of the output projection, which are as many bytes every
time (`Bytes`). Attention passes the K of the one token it forwards, so its rows are never
cached. A product that fails falls back to the CPU
(`backend_runtime.cpp:250-264`), which this model sees as the end of the call. The
model stops when a cached block has been freed (`damaged`): nothing the
device does afterwards is defined.

### HalfFloat and QuantBlocks

A half and a float are records of their three fields; the wrapping exponent of the device
conversion is kept modulo 2^9, the bits that reach the word. A decoded value is
`q * d - m * dmin` with the factors as converted and the coefficients as integers.
`Decoder` names the paths: the CPU's blocks, the dot products of
`backend_runtime.cpp`, the host copy for parity mode, and three shapes of kernel.
The width of a thread block is assumed to divide a weight block, as the code's sixteen
columns (`block(16, 16)`) do, and the debug kernels' whole weight block: the tile kernel decodes one weight block for all of them.
The packers work on integers, values in units of 2^-24 up to two in magnitude, and on
factors that are exact fractions; a block stores a factor as the half it is rounded to
(`StoredHalf`), while the quants are counted in steps of the factor as computed, as in
the code. The float arithmetic in between is taken as exact. Two differences between the paths are
taken out of `PathsAgree` and described under *Divergences*.

`tensor_transpose_packed_inplace` has no caller in the repository; it is modelled
because the tensor interface offers it.

### Tokenizer

A string is a sequence of bytes, text a sequence of characters with a class and
bytes. The vocabulary is one variable, replaced as a whole on loading; ids of the
vocabulary before are given up there, because the code that still has some (another
context) reads them as other tokens. An added token is an entry of the vocabulary, and kept whole when its text is one
that `is_special_like_token_text` accepts (`SpecialLike`, a constant). Left out:
upper-case contractions, the
Windows-only NFKC normalisation, the ideographic space, invalid UTF-8, the letters of
a byte token (`<0xNN>` is one code), and `g_word_marker`, which nothing reads.

Every loop of the code over the positions of a text is a `Walk`: what it puts out at a
position, and where it goes on. `Rounds` are the turns of the loop of
`apply_bpe_merges`; each merges one pair at least, so that there are no more turns than
symbols, and turns with nothing to merge change nothing.

### WeightLayout

An element of a matrix is the pair of its output and its input; a product is the
table of the elements it reads. `Read` lays a tensor out as the file does, `Load`,
`CopyTriple` and `Normalize` are the passes of opening in their order, `SetFlags`
the last step. Any transposition may fail for lack of memory and does so silently.
`wo` stands for itself and `ffn` for gate, up and down; one step of `Normalize` is
the whole pass over the layers, which no other context can see into. A layer without a
triple of its own uses the context's. Opening from a text file, which indexes vectors that
are empty there, is undefined and not modelled.

## Runs and bounds

| run | shows | bounds, and why they are enough |
|---|---|---|
| `kvcache` | the ring is a sliding window; refinement of `SlidingWindow` | two layers, three rows, two keys and values: every position of the head, wraps more than once |
| `decoder` | all rings describe one context; nothing is skipped or forwarded twice; every call returns | three layers, the middle one of another width, rings of two rows, prompts of up to three tokens, three steps, two calls: rings overflow in the prompt and again in decoding, and a second call meets the leftovers of a first that failed anywhere |
| `stream` | no token lost or doubled; order per class; text is held back only while undecided; repetition bound; termination | eight tokens, one of each kind and the two halves of a marker; five steps: a marker begun, interrupted by a byte, begun again and completed; repetition limit three instead of sixteen |
| `tensor_memory` | disjointness, exact accounting of blocks | three objects, three blocks, sizes of one and two alignment units, arena of three units and a rest, pool and buckets that hold two: each limit is met from both sides |
| `ownership` | no use after free, no double free, leaks in the named places and exactly there | two projections of the context's own instead of three (`Projections`), one more weight, always F32 (`LoadedF32`), one layer, three calls, one forward pass per call, one failure anywhere: each pass of opening meets a weight, and Wq can fail while another clone is made; the pool keeps nothing, and the reuse of blocks and objects is left to `tensor_memory` |
| `cpu_matmul` | no two threads write a cell; sums are those of the serial loop to the bit; the call returns | up to three rows, five columns, two terms, three threads: more and fewer rows than columns and than threads, remainders of zero, one and two, empty products, blocks of two elements that fit a row or not; tiles of two terms (`TileK`), with three terms for one that is not full |
| `device` | every block owned once, operands lost in two known ways only, copies stale only after a known cause | two contexts, one weight each, two addresses, three tensors, four blocks: an address is used twice, and any request can fail |
| `numerics` | decoders agree, conversions exact, rounding, packing | real block sizes; every exponent of a half; scale bytes with equal and with different upper bits; two paths compared at a time (`Compared`), over thread blocks of sixteen columns; fractions and contents are chosen ones, among the packed ones factors stored as zero, as a subnormal and as a normal half; the theorems are for all |
| `tokenizer` | round trip, streaming, special tokens, merges | three vocabularies, all texts of up to three of seven characters, longer chosen ones, all pairs of generated ids (`GenMax`) |
| `layout` | products read what was meant; leaks of opening | two contexts, five files of one or two layers, matrices of one to three rows and columns around a dimension of two, one failed allocation per opening (`FailMax`) |

Two runs expect a violation; each is a disagreement between the code and a
sentence of the repository, quoted in `PROJECT.json` under `findings`:

* `ownership_kept`: the context keeps weights (its clones and transposed
  copies) and its work buffers in the arena that every generate empties; the
  next temporaries overwrite them. TLC finds it in one open and one generate: a weight
  is read and transposed, and the call's first buffer lies on top of it. The tensors that were meant for it are those of
  `tensor_create_f32_persistent`, which only the GGUF reader uses.
* `backend_parity`: for `x * W^T` with an F32 weight the CPU reads `W` by columns
  (`backend_runtime.cpp:425`), the CUDA kernel by rows, although both
  backends are documented to give identical tokens. `RectangularByShape` and
  `SquareByOwnFlags` hold with exactly this case taken out.

**Divergences** that a property describes by its exception instead of a run:

* The rotary position of a token is the ring's length and freezes at `seq_max`;
  the comment at `transformer/transformer.cpp:503` speaks of the logical sequence
  position. `PositionsExactUntilFull` says how far it is right.
* A byte token overtakes text that is held back (`EachClassInOrder` keeps the order
  within each class only).
* A suppressed role marker enters `token_history` and so the repetition penalties,
  against the comment at `api/minxfmr.cpp:2246`.
* Tensors are lost in three places: the reader drops a group that is incomplete in the
  file (`api/minxfmr.cpp:958-963` of the projections, likewise norms and FFN); when Wq could
  not be cloned, `1026-1033` overwrites the clones of Wk and Wv that were made; and a layer that
  cannot allocate `ffn_out` forgets `attn_proj` and `resid1`. `LeaksNamed` says that these
  are lost and nothing else is (`OpeningLeaksOnlyParts` says it of the first two in
  `WeightLayout`).
* `API.md:443-462` allows two contexts on two threads, but layout flags, backend choice and
  device caches are the process's. Square weights of the context opened earlier are read by
  the flags of the later one (`SquareByOwnFlags` excludes that; rectangular ones are read
  by their shape, `RectangularByShape`). Closing one context frees the cached operands of the
  other's calls, and a strided product that has no room for its output frees a
  cached matrix that others may be using (`cuda_backend.cu:1430-1434`); `OperandsStay` says that
  a call can lose its operand in no other way, and excepts the calls hit.
* `cuda_backend.cu` picks a template's decoder by the number of elements in a block,
  which is 32 for Q5_0 and Q8_0 alike, so the tile kernel and the kernel for
  transposed weights decode Q8_0 as Q5_0. (`src/tests/test_cuda_quant_kernel_parity.cpp`
  expects the tile kernel and the parity mode to agree on all three formats; it needs a
  device to run.)
* Of a Q4_K scale from group 4 on, the CPU takes the upper two bits from byte `j`,
  the device code and the comment above it from byte `j - 4`.
* A weight transposed after its preload leaves a copy under an address that is given
  out again (`StaleOnlyAfterFree`).
* Where two pieces meet, their bytes can spell a byte-level symbol: the bytes C3 A9 of
  an accented letter, two byte tokens, decode to E9. So do two tokens of raw text that
  end and begin with them, and a special token whose text has such bytes. `RoundTrip` and
  `StreamedAsDecoded` name exactly these cases (`Confused`, `Faithful`); tokens of a
  byte-level vocabulary never meet so.
* `f32_to_fp16_bits` rounds halves up, against its comment (`tensor/tensor.cpp:495`), and a
  value just below the least normal half becomes zero (`RoundsToNearest`).
* A packed block does not read back as well as its quants promise: they are counted in
  steps of a factor that is then stored as a half, so each step adds up to half a unit of that
  half. A factor just below the least normal half is stored as zero, and with it the whole block;
  so is the 1e-8 that stands in for the factor of a Q4_K block whose values are all alike.
  `PackedReadsBack` has the first in its bound and excepts the second (`FactorKept`); blocks
  of the third kind it leaves out (`GroupKept`).

**Deadlock** is checked except where the model really stops: after the end of a
generation (`TokenStream`) or of a product (`CpuMatmul`), and when the bound on
calls or tensors is used up (`GenMemory`, `Device`).

**Fairness.** `Decoder` and `TokenStream` assume weak fairness of the steps of a
call: one thread runs the call, nothing in it waits for anybody, and a callback
is assumed to return. `CpuMatmul` assumes weak fairness of its next-state relation:
while the caller waits in a join some worker has a step left, and which thread runs
does not matter, since each has finitely many. No fairness is assumed of
the client.

**Bounds named in the modules**: `PromptMax`, `MaxSteps`, `MaxCalls`
(`Decoder`; `MaxSteps` is a real parameter, 1 to 256 in the code),
`RepeatLimit` (16 in the code), `WeightMax`, `MaxCalls`, `MaxForwards`,
`MaxFailures`, `LoadedF32` (`GenMemory`; `Projections` is 3 in the code), `TileK`
(`CpuMatmul`; 256 in the code), `WeightMax`, `MaxTensors` (`Device`), `Compared`
(`QuantBlocks`; packed values lie in `Packable`), `GenMax` (`Tokenizer`), `FailMax` (`WeightLayout`).

## Proofs

`KVCacheProofs`, for every number of layers, every `seq_max` above zero and any
sets of rows (`SeqMaxAssumption`, `LayerAssumption`):

* `TypeCorrect`: lengths never exceed `seq_max`, heads stay below it.
* `HeadInvariant`: a head is non-zero only on a full layer. The invariant is
  `TypeOK /\ HeadMovesOnlyWhenFull`; it is inductive as it stands.
* `RingImplementsWindow`: `Spec => Implements`. The heart is that an append
  moves `Window(l)` by `Slide`. While the ring grows, the invariant gives head 0, so
  the new row is at the end of what readers see; once it is full, the overwritten
  row is the one readers saw first, and `(head + 1 + j) % seq_max` is row `j + 1` of
  the old window. Each case is a lemma about `%`.

`TensorMemProofs`, for any objects, blocks, sizes, alignment and limits, the arena
turned off included (`MemAssumption`):

* `StorageDisjoint`: `LiveStorageDisjoint`.
* `BlocksCounted`: `BlocksAccounted`, the exact ownership of heap blocks.
* `ObjectsReusable`: `CachedObjectsAreFree`.

All three follow from one invariant, `Inv`. None is inductive alone: that a block
from the pool is nobody's needs that the pool holds each block once
(`PoolApart`), that a block from the heap is nobody's needs that owners and pool hold
allocated blocks only (`OwnersApart`, `PoolApart`), that a bumped arena
pointer is free needs that everything handed out since the last reset lies below
it (`ArenaApart`), and that creating a tensor takes no object from another
needs `ObjectsApart`. `NothingLost` is the other half of the accounting. The
proof has one lemma per way storage is obtained or given back; the arithmetic is
in one of them, `NeedEnough`: rounding up to the alignment never shortens.

* `TypeCorrect`: `TypeOK`, the difficult part of which is that `bytes_cached`, unsigned
  in the code, never goes below zero. That is a statement about a sum over the pool;
  `Counted` puts it without one: the pooled blocks can be laid end to end in
  `bytes_cached` bytes (`Laid`), and taking one out lets those above it slide down.

`CpuMatmulProofs`, for any shapes, block sizes and thread counts
(`MatmulAssumption`):

* `TypeCorrect`: `TypeOK`; what is added lies in the output and below `k`.
* `NoSharedCell`: `SoleWriter`.
* `SameAsSerial`: `InSerialOrder`.

`Inv` adds to the types that the ranges follow each other and that the loop's `cur`
is the sum of the ranges handed out (`RangesApart`, `HandedOut`), which keeps it within
what there is to split, and that a register is loaded only for an update that exists
(`LoadsInLoop`). Ranges that do not overlap are not enough: `UpdateInRange` shows, for
each of the four loop nests, that the cells a worker writes lie in its own range;
`QuotientBelow` and `BlockOfElement` are the arithmetic.

`OrderInv` adds what ties a sum to the workers' progress: every cell is a beginning of
the serial sum (`CellsSerial`), and a worker has done the update of a cell and an index
exactly when the cell's sum is past that index (`Progress`). With a register that still
agrees with the output (`Registers`) an update so adds the next term and no other; at
the end every cell lies in some worker's range (`Covered`), which `CellReached` turns
into `k` updates done. The tiled product is the caller's alone: after `t` tiles each cell
is the serial sum of their terms (`TilesSerial`).

`DecoderProofs`, for any number of layers, any set of layers the cache fits, any `seq_max`
and any length of prompt and answer (`SizeAssumption`):

* `TypeCorrect`; `LayersAgree`: `LayersShareOneContext`; `PositionsExact`:
  `PositionsExactUntilFull`; `NothingSkipped`: `SequenceUnbroken`.
* `DrivesTheCache`: `Spec => Cache!Spec`, every step of a call is one of the cache or
  leaves it alone.

The first invariant is `RingsFollow`: the window of every cached layer is the end of what
that layer has seen: `context`, and the token being forwarded when the layer has
already run on it. That an append slides the window is taken from
`KVCacheProofs` (instance `Ring`). It says that the rings agree, not which tokens are in
them; that is `CallFollows`, what `context` must be from where the call stands in the
prompt or in its own output, the token handed over from prefill to decoding
included. Without it `SequenceUnbroken` is not inductive.

`TextProofs` has two parts. On `TokenStream`, for any vocabulary, markers and limits
(`TokenAssumption`, `LimitAssumption`):

* `TypeCorrect`; `NothingLostOrDoubled`: `EachTokenInOnePlace`; `ClassesInOrder`:
  `EachClassInOrder`; `HeldBackSoundly`: `HeldBackWhileUndecided`; `RepetitionBounded`:
  `NoLongRepetition`.

`Placed` says that the steps of the history are laid out over the record, the pending
bytes, the pending pieces and the suppressed markers, each in one place and each class
in order, what is shown before what is held back. An iteration puts its step
into one place and then perhaps empties the buffers; there is one lemma for each. `Runs`
is what `repeat_run` means: the length of the last run of equal texts. It holds in the
loop only, where the counter is read.

On `Tokenizer`, for any vocabularies, added tokens and texts (`Inputs`: each
vocabulary is a list of strings with merges of its own, whichever strings `SpecialLike`
accepts):

* `AlwaysMergedInRankOrder`: `MergedInRankOrder`; `AlwaysSpecialsWhole`: `SpecialsWhole`;
  `AlwaysStreamedAsDecoded`: `StreamedAsDecoded`; `AlwaysRoundTrip`: `RoundTrip`.

The inductive invariant, `TextInv` (`AlwaysTextInv`), says that the ids of a prompt are what
the vocabulary that is loaded makes of it, so nothing of a vocabulary before is left in
them. What the properties say of those ids is proved about the operators. The loops are
recursive functions; that they are what their definitions say follows from each going on
behind where it is (`OnwardIs`), and a claim about a loop is proved from its last
position back (`Downward`), by well-founded induction on sets.

* Merging. A round of the best rank is some turns of one merge each (`RoundByTurns`).
  In the middle of a round (`MidRound`) no pair to the left has the rank of the round, and
  none anywhere a better one: a pair with a merged half was learnt later (`LaterRank`,
  the one place that needs `LearntInOrder`). Turns and rounds so end in the same list.
* Special tokens. The rest of a text is encoded as if it stood alone, because finding a
  special token looks ahead only (`OnwardShift`, `SuffixBpe`); before the first one
  the text is one chunk (`WholeSpecial`).
* Streaming. No two bytes have the same symbol (`SymbolOnce`). A string decodes
  in two wherever no symbol stands across the cut (`DecodeCat`), so ids that are not
  `Confused` decode piece by piece (`DecodedByPiece`). The marks that streaming
  replaces first are the symbols of space and newline, and what they leave behind begins
  no symbol (`RmFirst`, `RenderedIs`).
* Round trip. Encoded bytes decode to themselves (`EncodedIs`). By merges: parts,
  symbols and rounds cut the text without losing any of it and never inside a symbol
  (`PartsWhole`, `SplitWhole`, `Keeps`), a token's id decodes as the token does, and what
  stands in for a byte says that byte (`PartSaid`, `SpecialSaid`, `BpeSaid`). By longest
  match, a token may end inside a symbol; then the next one says the second byte
  of it first, and the two are `Confused` (`GreedyFirst`, `GreedySaid`).

`DeviceProofs`, for any contexts, addresses, blocks and tensors (`DeviceAssumption`):

* `TypeCorrect`; `EveryBlockOwned`: `BlocksOwned`; `NoOperandTaken`: `OperandsStay`;
  `CopiesFresh`: `StaleOnlyAfterFree`.

Whatever can name a block, an entry of a cache or a buffer of a call in flight, is a
slot, and `Hold` says which block it names. `Owned` says that slots hold different
allocated blocks and every allocated block is in one; a step takes a free block into an
empty slot, drops a slot, or moves a block between slots, and one lemma for each
keeps it. `Operands` and `Fresh` need `Apart`: contexts have no host address in common,
so no call evicts the copy another one works on; the lock of the cache is not held
between the lookup of an operand and its use. A step that frees blocks other calls compute
with marks exactly those calls (`CutCalls`). Owners and copies are claimed up to the first
freed cached block (`damaged`), `OperandsStay` also of the step that frees it
(`SecondFree`) and of what follows, because nothing does.

`WeightProofs` has two parts. On `WeightLayout`, for any contexts, files, orders and number of failed allocations
(`LayoutAssumption`):

* `RectangularByItsShape`: `RectangularByShape`; `SquareByItsOwnFlags`:
  `SquareByOwnFlags`; `NothingElseLeaks`: `OpeningLeaksOnlyParts`.

A tensor in memory is its file's elements row after row, or their transpose. The
invariant says for each context and each tensor which (`Arranged`): a rectangular
one by its shape, a square one by what its context wanted and how far the opening
has come (`ByOutput`), and which tensors a failed transposition excuses (`Excused`). The
flags the other contexts set do not occur in it, which is why rectangular weights are
safe from them. `Counted` is the other half: allocations are what the context
holds, plus what an incomplete triple or a replaced clone has lost. The arithmetic is
that a place and its row and column determine each other (`RowAndColumn`, `InMatrix`).

On `QuantBlocks` and `HalfFloat`, for any rows of any number of blocks, any values a row
is packed from and any width of thread blocks that divides a weight block
(`QuantBlocksAssumption`):

* `DecodersAgree`: `PathsAgree`; `DecodersExact`: `FactorsExact`; `StoringRounds`:
  `RoundsToNearest`; `PackingReadsBack`: `PackedReadsBack`.

The invariant, `RowInv` (`RowInvariant`), is what makes properties of the steps out of
facts about the decoders: what a path has made of the row is still what it would make of
it, because a row is packed anew only before any path has decoded it, and then its one
block is the packer's of `meant`. The rest is about the operators, without the steps:

* Every path decodes element `c` of a row as element `c % QK` of block `c \div QK`
  (`DecodedInRow`). For the loops over blocks that is `BlockElementQ4`, `Q5` and `Q8`,
  which turn a concatenation of nibble runs into index arithmetic; for the kernels it is
  `OneWeightBlock`, where the assumption on thread blocks is needed.
* The device's conversion is the host's (`SameConversion`): counting below zero in an
  unsigned integer wraps to the same exponent bits. It is exact (`ExactConversion`)
  because the normalising loop ends with the leading bit in place (`TurnsNormalise`).
* A number between two halves is rounded to the nearer (`Rounded`), for each of the 8192
  rests and not just those of the property; the shifts of a subnormal have one common
  factor for each place of the leading bit (`Shifts`).
* `lround` is within half a step (`RoundedNear`). For Q8_0 and Q5_0 the largest value
  keeps every quant within its range, so clipping changes nothing (`StepsOf`). For Q4_K
  it does: `ClippedQuant` shows that it costs no more than what rounding scale and minimum
  to six bits allows. A stored factor is off by half a unit at most, unless it became zero
  (`StoredNear`, `StoredLargest`, `StoredFactors`); what that costs a value grows with its steps
  (`FactorOff`, `ManySteps`). `AreaRead`, `QuantRead` and `MaskBits` are the packing of bits read
  back.

`GenMemoryProofs`, for any number of weights, sizes, calls and failures, and any arena
and pool (`UseAssumption`, which includes that of the allocator):

* `UsesTheAllocator`: `Spec => Mem!Spec`, so the theorems about the allocator hold of its
  use by a context.
* `TypeCorrect`; `HeldInUse`: `NothingDangles`; `NothingElseLeaks`: `LeaksNamed`.

`Owning` says that the tensors in use are split over eight owners: the weights, the cache
views, the buffers, the locals of the layer, the clean-up list, `last_out_prefill`,
`in`, and what is lost. It is not inductive alone: an assignment could overwrite a pointer that still
names a tensor, and a clean-up list could miss one. `Placed` and `LocalsPlaced` say at
which place of the code which pointer can be set; the layer's part is that no local
beyond `site` is set, and each of `FreedOnFailure` and `LayerOrder` is shown to name all
those before it. The allocator's own invariant (`TensorMemProofs`) is needed for a
new tensor to be nobody's and is kept in the same induction (`Ok`). The property counts
pointers; `Held` is finite and maps one to one onto `Owned`.

**Model-checked only.** Liveness (`Decoder`, `TokenStream`, `CpuMatmul`): the proof system
has no rules for `ENABLED`. The two runs that expect a violation have nothing to prove.
Every other property a passing run checks is a theorem, every invariant and the
refinement `Implements` among them.

## Not modelled

Floating-point sums (kernels, rope, softmax, norms, logits and their penalties) have
no counterpart in TLC; which operands are used, in which order they are added and
what the integer parts of quantized values are is modelled. The numeric layers have
nothing else; of the CPU's products the NEON variant is left out, which has one thread and no
state. GGUF parsing, option and console handling of `main.cpp`,
environment variables, logging and the JSON trace are input and output without
state that another part reads back. The inference of dimensions from file
metadata is a list of cases without interaction.

## Plan

Modelled: cache, driver, streaming, memory, ownership, CPU product, device memory,
quantized blocks, tokenizer, weight layout. Left:

* The conversation of `main.cpp`, as far as it decides which prompt is encoded.
