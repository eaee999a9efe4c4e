----------------------------- MODULE CpuMatmul -----------------------------
(***************************************************************************)
(* The CPU matrix product, src/src/backend/cpu/cpu_backend.cpp: the caller *)
(* clears the output, splits the rows or the columns (blocks of columns    *)
(* for quantized weights) into ranges, spawns a worker for each and joins  *)
(* them.  A worker adds its products to the shared output without a lock:  *)
(* `out[j] += a * b' is a load and a store.  A build with                  *)
(* MINXFMR_TILED_MATMUL computes F32 products tile by tile instead, in the *)
(* caller (cpu_matmul_tiled.cpp); both builds are in the model.            *)
(*                                                                         *)
(* Floating-point addition is not associative, so a cell of the output is  *)
(* the sequence of the indices kk whose products were added to it, in the  *)
(* order of the additions.                                                 *)
(***************************************************************************)
EXTENDS Integers, Sequences

CONSTANTS
  Shape,      (* the products: [m, k, n, block]; block is 1 for F32        *)
              (* weights, else the elements of a quantized block           *)
  Wanted,     (* the thread counts MINXFMR_CPU_THREADS may hold; 0: unset  *)
  TileK       (* TILE_K, the terms of a tile: 256                          *)

ASSUME MatmulAssumption ==
  /\ Shape \subseteq [m : Nat, k : Nat, n : Nat, block : Nat \ {0}]
  /\ Wanted \subseteq Nat /\ TileK \in Nat \ {0}

VARIABLES
  shape,      (* the product being computed                                *)
  phase,      (* "called", "spawn", "join" and "done", or "refused", or    *)
              (* "tiles" and "tiled"                                       *)
  limit,      (* the bound of the spawning loop: nthreads, block_threads   *)
  byCols,     (* the ranges are of columns (of blocks, when quantized)     *)
  t, cur,     (* the spawning loop's t and cur (curc, cur_blk); t is also  *)
              (* the tile whose terms are next, kk / TILE_K                *)
  workers,    (* threads: the range of each, the updates done, and what a  *)
              (* load has put in a register                                *)
  out         (* out[i][j]: the indices added so far; <<-1>>: what the     *)
              (* buffer held before                                        *)

loopVars == <<t, cur>>
vars == <<shape, phase, limit, byCols, loopVars, workers, out>>

m == shape.m
k == shape.k
n == shape.n
Block == shape.block
Quantized == Block # 1

Least(a, b) == IF a <= b THEN a ELSE b
Most(a, b) == IF a >= b THEN a ELSE b

Garbage == <<-1>>
Fill(v) == [i \in 0 .. m - 1 |-> [j \in 0 .. n - 1 |-> v]]

Init ==
  /\ shape \in Shape
  /\ phase = "called"
  /\ limit = 0 /\ byCols = FALSE /\ t = 0 /\ cur = 0
  /\ workers = <<>>
  /\ out = Fill(Garbage)

-----------------------------------------------------------------------------
(* cpu_matmul_thread_config                                                *)

(* w: MINXFMR_CPU_THREADS; h: hardware_concurrency (0: not known).         *)
Threads(w, h) ==
  LET asked == IF w > 0 THEN w ELSE Most(1, h)
  IN  Least(asked, Most(1, IF m < n THEN n ELSE m))

(* A row that is no whole number of blocks has no size (row_bytes is 0).   *)
Refused == Quantized /\ (n = 0 \/ n % Block # 0)

BlocksPerRow == n \div Block

-----------------------------------------------------------------------------
(* The ranges                                                              *)

(* What the loop splits: rows, columns or blocks of columns.               *)
Total == IF byCols THEN BlocksPerRow ELSE m

(* Mutant of RangeEnd: the remainder is not handed out.                    *)
RangeEndFloor(x, c) == c + Total \div limit

RangeEnd(x, c) == c + Total \div limit + (IF x < Total % limit THEN 1 ELSE 0)

NewWorker(lo, hi) == [lo |-> lo, hi |-> hi, next |-> 0, loaded |-> FALSE, reg |-> <<>>]

-----------------------------------------------------------------------------
(* A worker: the updates of its loop nest, numbered in the order of the    *)
(* loops.  F32: rows, kk, columns; quantized: kk, blocks, rows, elements.  *)

Width(w) == workers[w].hi - workers[w].lo
Updates(w) == k * (IF byCols THEN m * Width(w) * Block ELSE Width(w) * n)

(* Mutants of UpdateF32: kk goes on counting in the next row; a worker of  *)
(* columns starts at the first one.                                        *)
UpdateF32Runaway(w, x) ==
  LET cols == IF byCols THEN Width(w) ELSE n
  IN  [row |-> (IF byCols THEN 0 ELSE workers[w].lo) + (x \div (k * cols)),
       kk  |-> x \div cols,
       col |-> (IF byCols THEN workers[w].lo ELSE 0) + (x % cols)]

UpdateF32FromZero(w, x) ==
  LET cols == IF byCols THEN Width(w) ELSE n
  IN  [row |-> (IF byCols THEN 0 ELSE workers[w].lo) + (x \div (k * cols)),
       kk  |-> (x \div cols) % k,
       col |-> x % cols]

UpdateF32(w, x) ==
  LET r == Width(w)
      lo == workers[w].lo
      cols == IF byCols THEN r ELSE n
  IN  [row |-> (IF byCols THEN 0 ELSE lo) + (x \div (k * cols)),
       kk  |-> (x \div cols) % k,
       col |-> (IF byCols THEN lo ELSE 0) + (x % cols)]

UpdateQuantized(w, x) ==
  LET r == Width(w)
      lo == workers[w].lo
      rows == IF byCols THEN m ELSE r
      blocks == IF byCols THEN r ELSE BlocksPerRow
      y == x % (blocks * rows * Block)
  IN  [row |-> (IF byCols THEN 0 ELSE lo) + ((y \div Block) % rows),
       kk  |-> x \div (blocks * rows * Block),
       col |-> ((IF byCols THEN lo ELSE 0) + (y \div (rows * Block))) * Block + (y % Block)]

Update(w, x) == IF Quantized THEN UpdateQuantized(w, x) ELSE UpdateF32(w, x)

Load(w) ==
  /\ ~workers[w].loaded /\ workers[w].next < Updates(w)
  /\ LET u == Update(w, workers[w].next)
     IN  workers' = [workers EXCEPT ![w].loaded = TRUE, ![w].reg = out[u.row][u.col]]
  /\ UNCHANGED <<shape, phase, limit, byCols, loopVars, out>>

Store(w) ==
  /\ workers[w].loaded
  /\ LET u == Update(w, workers[w].next)
     IN  out' = [out EXCEPT ![u.row][u.col] = Append(workers[w].reg, u.kk)]
  /\ workers' = [workers EXCEPT ![w].loaded = FALSE, ![w].next = @ + 1, ![w].reg = <<>>]
  /\ UNCHANGED <<shape, phase, limit, byCols, loopVars>>

-----------------------------------------------------------------------------
(* The caller                                                              *)

Refuse ==
  /\ phase = "called" /\ Refused
  /\ phase' = "refused"
  /\ UNCHANGED <<shape, limit, byCols, loopVars, workers, out>>

(* Without a second thread the caller runs the row loops itself, as one    *)
(* worker that owns everything.                                            *)
RunSerial(w, h) ==
  /\ phase = "called" /\ ~Refused /\ Threads(w, h) <= 1
  /\ out' = Fill(<<>>)
  /\ byCols' = FALSE /\ limit' = 1 /\ t' = 1 /\ cur' = m
  /\ workers' = <<NewWorker(0, m)>>
  /\ phase' = "join"
  /\ UNCHANGED shape

StartThreads(w, h) ==
  /\ phase = "called" /\ ~Refused /\ Threads(w, h) > 1
  /\ out' = Fill(<<>>)
  /\ byCols' = (m < n)
  /\ limit' = IF Quantized /\ m < n THEN Least(Threads(w, h), Most(1, BlocksPerRow))
              ELSE Threads(w, h)
  /\ phase' = "spawn"
  /\ UNCHANGED <<shape, loopVars, workers>>

Spawn ==
  /\ phase = "spawn" /\ t < limit
  /\ LET hi == RangeEnd(t, cur)
     IN  /\ cur' = hi
         /\ IF cur >= hi THEN phase' = "join" /\ UNCHANGED <<workers, t>>
            ELSE /\ workers' = Append(workers, NewWorker(cur, hi))
                 /\ t' = t + 1 /\ UNCHANGED phase
  /\ UNCHANGED <<shape, limit, byCols, out>>

(* Mutant of AllSpawned: the loop ends when all rows are handed out.       *)
RowsSpawned ==
  /\ phase = "spawn" /\ cur = m
  /\ phase' = "join"
  /\ UNCHANGED <<shape, limit, byCols, loopVars, workers, out>>

AllSpawned ==
  /\ phase = "spawn" /\ t = limit
  /\ phase' = "join"
  /\ UNCHANGED <<shape, limit, byCols, loopVars, workers, out>>

(* The tiled product, the first choice of a build that has it for F32      *)
(* weights; an empty product it leaves to the others.                      *)
RunTiled ==
  /\ phase = "called" /\ ~Quantized /\ m > 0 /\ n > 0 /\ k > 0
  /\ out' = Fill(<<>>)
  /\ phase' = "tiles"
  /\ UNCHANGED <<shape, limit, byCols, loopVars, workers>>

(* The terms of one tile are added to each cell, whose tile of rows and    *)
(* columns makes no difference to it.                                      *)
AddTile ==
  /\ phase = "tiles" /\ t * TileK < k
  /\ LET kk == t * TileK
         end == Least(k, kk + TileK)
     IN  out' = [i \in 0 .. m - 1 |-> [j \in 0 .. n - 1 |->
                   out[i][j] \o [x \in 1 .. end - kk |-> kk + x - 1]]]
  /\ t' = t + 1
  /\ UNCHANGED <<shape, phase, limit, byCols, cur, workers>>

TilesDone ==
  /\ phase = "tiles" /\ t * TileK >= k
  /\ phase' = "tiled"
  /\ UNCHANGED <<shape, limit, byCols, loopVars, workers, out>>

Finished(w) == ~workers[w].loaded /\ workers[w].next = Updates(w)

Join ==
  /\ phase = "join" /\ \A w \in DOMAIN workers : Finished(w)
  /\ phase' = "done"
  /\ UNCHANGED <<shape, limit, byCols, loopVars, workers, out>>

Next ==
  \/ Refuse \/ Spawn \/ AllSpawned \/ Join
  \/ RunTiled \/ AddTile \/ TilesDone
  \/ \E w, h \in Wanted : RunSerial(w, h) \/ StartThreads(w, h)
  \/ \E w \in DOMAIN workers : Load(w) \/ Store(w)

Spec == Init /\ [][Next]_vars

FairSpec == Spec /\ WF_vars(Next)
-----------------------------------------------------------------------------
(* Properties                                                              *)

(* Every variable has its type; what is added are indices below k.         *)
TypeOK ==
  /\ shape \in Shape
  /\ phase \in {"called", "spawn", "join", "done", "refused", "tiles", "tiled"}
  /\ limit \in Nat /\ byCols \in BOOLEAN /\ t \in Nat /\ cur \in Nat
  /\ workers \in Seq([lo : Nat, hi : Nat, next : Nat, loaded : BOOLEAN,
                      reg : Seq(-1 .. k - 1)])
  /\ out \in [0 .. m - 1 -> [0 .. n - 1 -> Seq(-1 .. k - 1)]]

(* The cells a worker writes in all of its loop nest.                      *)
CellsOf(w) == {<<Update(w, x).row, Update(w, x).col>> : x \in 0 .. Updates(w) - 1}

(* No cell of the output is written by two workers: the unlocked `+='      *)
(* never meets another one.                                                *)
SoleWriter == \A w, v \in DOMAIN workers : w # v => CellsOf(w) \cap CellsOf(v) = {}

(* When cpu_matmul returns true, every cell holds the products of all kk,  *)
(* each added once and in increasing order: whatever the build, the number *)
(* of threads, the split and the interleaving, the sum is the same to the  *)
(* bit as the serial loop's.  A refused product leaves the output alone.   *)
InSerialOrder ==
  /\ phase \in {"done", "tiled"} => out = Fill([x \in 1 .. k |-> x - 1])
  /\ phase = "refused" => out = Fill(Garbage)

(* cpu_matmul returns: the joins wait for workers that all end.            *)
Returns == <>(phase \in {"done", "tiled", "refused"})
=============================================================================
