---------------------------- MODULE DeviceProofs ----------------------------
(***************************************************************************)
(* The device memory of the CUDA backend for every number of contexts,     *)
(* addresses, blocks and tensors, every interleaving and every failed      *)
(* allocation.                                                             *)
(*                                                                         *)
(* The argument: every place that can name a block (an entry of a cache, a *)
(* buffer of a call in flight) is a slot, and Hold says which block it     *)
(* names.  A step of the backend takes a free block into an empty slot,    *)
(* drops a slot and frees its block, or moves a block between slots; each  *)
(* keeps the blocks owned (Owned).  Contexts never share a host address    *)
(* (Apart), so no call evicts the copy another one works on.               *)
(***************************************************************************)
EXTENDS Device, FiniteSetTheorems, TLAPS

-----------------------------------------------------------------------------
(* The invariant                                                           *)

AnyBlock == Block \cup {NoBlock}
AnyAddr  == Addr \cup {CHOOSE a \in Addr : TRUE}

CallSet ==
  [pc : {"idle", "resolve", "insert", "out", "run"},
   op : {"none", "preload", "product", "strided", "rows", "scores"},
   addr : AnyAddr, long : BOOLEAN, dA : AnyBlock, dB : AnyBlock, dC : AnyBlock,
   temp : BOOLEAN, got : -1 .. MaxTensors, cut : BOOLEAN]

Running(c) == phase[c] \in {"loading", "open"}

(* The types, in full.                                                     *)
Types ==
  /\ host \in [Addr -> [id : 0 .. MaxTensors, type : Type]]
  /\ written \in 0 .. MaxTensors
  /\ dev \in [Block -> -1 .. MaxTensors]
  /\ persistent \in [Addr -> [ptr : AnyBlock, bytes : {"tensor", "chunk"}]]
  /\ dequant \in [Addr -> [ptr : AnyBlock, type : Type]]
  /\ kernels \in BOOLEAN /\ parity \in BOOLEAN /\ damaged \in BOOLEAN
  /\ phase \in [Context -> {"closed", "loading", "open", "released"}]
  /\ own \in [Context -> SUBSET Addr] /\ todo \in [Context -> SUBSET Addr]
  /\ key \in [Context -> SUBSET Addr]
  /\ call \in [Context -> CallSet]
  /\ freedCached \subseteq Addr

(* Which buffers a call q of context c has at which stage.                 *)
Stage(c, q) ==
  /\ q.pc = "idle" => q = Idle
  /\ q.pc # "idle" => q.op # "none" /\ Running(c) /\ q.addr \in own[c] \cup key[c]
  /\ q.pc \in {"resolve", "insert"} => q.dC = NoBlock /\ ~q.temp /\ ~q.cut
  /\ q.pc = "resolve" => q.dB = NoBlock
  /\ q.pc \in {"insert", "out", "run"} => q.dB \in Block
  /\ q.pc = "out" => q.dC = NoBlock
  /\ q.pc \in {"out", "run"} => q.op # "preload"
  /\ q.pc # "idle" => (q.dA = NoBlock <=> q.op = "preload")
  /\ q.pc = "insert" => q.addr \in own[c] /\ host[q.addr].type # "F32"

Stages == \A c \in Context : Stage(c, call[c])

(* A context has addresses only while it lives, all of them mapped, and    *)
(* none in common with another context.                                    *)
Names(c) ==
  /\ todo[c] \subseteq own[c] /\ own[c] \cap key[c] = {}
  /\ phase[c] # "open" => todo[c] = {} /\ key[c] = {}
  /\ phase[c] = "closed" => own[c] = {}
  /\ \A a \in own[c] \cup key[c] : Mapped(a)
  /\ \A a \in key[c] : host[a].type = "F32"

Apart ==
  /\ \A c \in Context : Names(c)
  /\ \A c, d \in Context : c # d =>
       (own[c] \cup key[c]) \cap (own[d] \cup key[d]) = {}

TypeInv == Types /\ Stages /\ Apart

(* The slots, and the block each holds.                                    *)
Slots == ({"persistent", "dequant"} \X Addr) \cup ({"dA", "dB", "dC"} \X Context)

OfCopy(a)    == <<"persistent", a>>
OfDequant(a) == <<"dequant", a>>
OfA(c) == <<"dA", c>>
OfB(c) == <<"dB", c>>
OfC(c) == <<"dC", c>>

OwnB(q) == IF q.temp \/ q.pc = "insert" THEN q.dB ELSE NoBlock

HeldBy(p, e, q, s) ==
  CASE s[1] = "persistent" -> p[s[2]].ptr
    [] s[1] = "dequant"    -> e[s[2]].ptr
    [] s[1] = "dA"         -> q[s[2]].dA
    [] s[1] = "dB"         -> OwnB(q[s[2]])
    [] s[1] = "dC"         -> q[s[2]].dC

HoldOf(p, e, q) == [s \in Slots |-> HeldBy(p, e, q, s)]

Hold == HoldOf(persistent, dequant, call)

(* Slots that hold something hold different, allocated blocks, and every   *)
(* allocated block is held.                                                *)
Owned(h, d) ==
  /\ \A s \in Slots : h[s] # NoBlock => h[s] \in Block /\ d[h[s]] # Free
  /\ \A r, s \in Slots : h[r] = h[s] /\ h[r] # NoBlock => r = s
  /\ \A b \in Block : d[b] # Free => \E s \in Slots : h[s] = b

(* A cached copy is that of the tensor at its address, except where the    *)
(* address was freed with its copy in the cache, and that is never so of a *)
(* quantized tensor; a copy being made is of the call's tensor.            *)
Fresh ==
  /\ \A a \in Addr : persistent[a].ptr # NoBlock =>
       a \in freedCached \/ (Mapped(a) /\ dev[persistent[a].ptr] = host[a].id)
  /\ \A a \in Addr : dequant[a].ptr # NoBlock =>
       /\ Mapped(a) /\ host[a].type # "F32" /\ dev[dequant[a].ptr] = host[a].id
       /\ \E c \in Context : Running(c) /\ a \in own[c]
  /\ \A c \in Context : call[c].pc = "insert" =>
       /\ dev[call[c].dB] = host[call[c].addr].id
       /\ dequant[call[c].addr].ptr = NoBlock

(* What a call computes with is a buffer of its own or the cached copy of  *)
(* its address, with the contents it found there.                          *)
Operands ==
  \A c \in Context :
    LET q == call[c] IN
    q.pc \in {"out", "run"} /\ ~q.cut =>
      /\ q.temp \/ q.dB \in {persistent[q.addr].ptr, dequant[q.addr].ptr}
      /\ dev[q.dB] = q.got /\ q.got # Free

(* With no context loading or open the caches are empty.                   *)
EmptyAtRest ==
  (\A c \in Context : ~Running(c)) =>
    \A a \in Addr : persistent[a].ptr = NoBlock /\ dequant[a].ptr = NoBlock

Inv ==
  /\ TypeInv /\ OperandsStay
  /\ ~damaged => Owned(Hold, dev) /\ Fresh /\ Operands /\ EmptyAtRest

-----------------------------------------------------------------------------
(* Slots                                                                   *)

Good(h, d) ==
  h \in [Slots -> AnyBlock] /\ d \in [Block -> -1 .. MaxTensors] /\ Owned(h, d)

(* From h and d to g and e, no slot outside T changes, nor the contents of *)
(* the block it holds.                                                     *)
Kept(h, d, g, e, T) ==
  \A s \in Slots \ T : g[s] = h[s] /\ (h[s] # NoBlock => e[h[s]] = d[h[s]])

(* A free block is taken into an empty slot.                               *)
LEMMA Take ==
  ASSUME NEW h, NEW d, Good(h, d), NEW s \in Slots, h[s] = NoBlock,
         NEW b \in Block, d[b] = Free, NEW v \in 0 .. MaxTensors
  PROVE  /\ Good([h EXCEPT ![s] = b], [d EXCEPT ![b] = v])
         /\ Kept(h, d, [h EXCEPT ![s] = b], [d EXCEPT ![b] = v], {s})
<1> USE DEF Good
<1> DEFINE g == [h EXCEPT ![s] = b]
           e == [d EXCEPT ![b] = v]
<1>1. b # NoBlock /\ v # Free /\ v \in -1 .. MaxTensors
  BY DeviceAssumption DEF Free
<1>2. g \in [Slots -> AnyBlock] /\ e \in [Block -> -1 .. MaxTensors]
  BY <1>1 DEF AnyBlock
<1>3. \A r \in Slots : g[r] = IF r = s THEN b ELSE h[r]
  OBVIOUS
<1>4. \A x \in Block : e[x] = IF x = b THEN v ELSE d[x]
  OBVIOUS
<1>5. \A r \in Slots : h[r] # b
  BY <1>1 DEF Owned
<1> HIDE DEF g, e
<1>6. Owned(g, e)
  <2>1. \A r \in Slots : g[r] # NoBlock => g[r] \in Block /\ e[g[r]] # Free
    BY <1>1, <1>3, <1>4 DEF Owned
  <2>2. \A r, x \in Slots : g[r] = g[x] /\ g[r] # NoBlock => r = x
    BY <1>3, <1>5 DEF Owned
  <2>3. ASSUME NEW x \in Block, e[x] # Free
        PROVE  \E r \in Slots : g[r] = x
    <3>1. CASE x = b
      BY <1>3, <3>1
    <3>2. CASE x # b
      <4>1. PICK r \in Slots : h[r] = x
        BY <1>4, <2>3, <3>2 DEF Owned
      <4>2. r # s
        BY <4>1, DeviceAssumption
      <4> QED  BY <1>3, <4>1, <4>2
    <3> QED  BY <3>1, <3>2
  <2> QED  BY <2>1, <2>2, <2>3 DEF Owned
<1>7. \A r \in Slots : h[r] # NoBlock => e[h[r]] = d[h[r]]
  BY <1>4, <1>5 DEF Owned
<1> QED  BY <1>2, <1>3, <1>6, <1>7 DEF g, e, Kept

(* A slot is emptied and its block, if any, freed.                         *)
LEMMA Drop ==
  ASSUME NEW h, NEW d, Good(h, d), NEW s \in Slots
  PROVE  /\ Good([h EXCEPT ![s] = NoBlock], Release1(d, h[s]))
         /\ Kept(h, d, [h EXCEPT ![s] = NoBlock], Release1(d, h[s]), {s})
<1> USE DEF Good
<1> DEFINE g == [h EXCEPT ![s] = NoBlock]
           e == Release1(d, h[s])
<1>1. g \in [Slots -> AnyBlock]
  BY DEF AnyBlock
<1>2. \A r \in Slots : g[r] = IF r = s THEN NoBlock ELSE h[r]
  OBVIOUS
<1>3. CASE h[s] = NoBlock
  <2>1. g = h /\ e = d
    BY <1>2, <1>3 DEF Release1
  <2> QED  BY <2>1 DEF Kept
<1>4. CASE h[s] # NoBlock
  <2>1. h[s] \in Block /\ e = [d EXCEPT ![h[s]] = Free]
    BY <1>4 DEF Release1, Owned
  <2>2. e \in [Block -> -1 .. MaxTensors]
    BY <2>1, DeviceAssumption DEF Free
  <2>3. \A x \in Block : e[x] = IF x = h[s] THEN Free ELSE d[x]
    BY <2>1
  <2>4. \A r \in Slots : r # s /\ h[r] # NoBlock => h[r] # h[s]
    BY <1>4 DEF Owned
  <2> HIDE DEF g, e
  <2>5. Owned(g, e)
    <3>1. \A r \in Slots : g[r] # NoBlock => g[r] \in Block /\ e[g[r]] # Free
      BY <1>2, <2>3, <2>4 DEF Owned
    <3>2. \A r, x \in Slots : g[r] = g[x] /\ g[r] # NoBlock => r = x
      BY <1>2 DEF Owned
    <3>3. ASSUME NEW b \in Block, e[b] # Free
          PROVE  \E r \in Slots : g[r] = b
      <4>1. b # h[s] /\ d[b] # Free
        BY <2>3, <3>3
      <4>2. PICK r \in Slots : h[r] = b
        BY <4>1 DEF Owned
      <4> QED  BY <1>2, <4>1, <4>2
    <3> QED  BY <3>1, <3>2, <3>3 DEF Owned
  <2>6. \A r \in Slots \ {s} : h[r] # NoBlock => e[h[r]] = d[h[r]]
    BY <2>3, <2>4 DEF Owned
  <2> QED  BY <1>1, <1>2, <2>2, <2>5, <2>6 DEF g, e, Kept
<1> QED  BY <1>3, <1>4

(* A block moves from one slot to an empty one.                            *)
LEMMA Move ==
  ASSUME NEW h, NEW d, Good(h, d), NEW s \in Slots, NEW r \in Slots, r # s, h[r] = NoBlock
  PROVE  /\ Good([h EXCEPT ![s] = NoBlock, ![r] = h[s]], d)
         /\ Kept(h, d, [h EXCEPT ![s] = NoBlock, ![r] = h[s]], d, {r, s})
<1> USE DEF Good
<1> DEFINE g == [h EXCEPT ![s] = NoBlock, ![r] = h[s]]
<1>1. g \in [Slots -> AnyBlock]
  BY DEF AnyBlock
<1>2. \A x \in Slots : g[x] = IF x = r THEN h[s] ELSE IF x = s THEN NoBlock ELSE h[x]
  OBVIOUS
<1> HIDE DEF g
<1>3. \A x \in Slots : g[x] # NoBlock => g[x] \in Block /\ d[g[x]] # Free
  BY <1>2 DEF Owned
<1>4. \A x, y \in Slots : g[x] = g[y] /\ g[x] # NoBlock => x = y
  BY <1>2 DEF Owned
<1>5. ASSUME NEW b \in Block, d[b] # Free
      PROVE  \E x \in Slots : g[x] = b
  <2>1. PICK x \in Slots : h[x] = b
    BY <1>5 DEF Owned
  <2>2. x # r
    BY <2>1, DeviceAssumption
  <2> QED  BY <1>2, <2>1, <2>2
<1> QED  BY <1>1, <1>2, <1>3, <1>4, <1>5 DEF Owned, g, Kept

LEMMA KeptTwice ==
  ASSUME NEW h, NEW d, NEW g, NEW e, NEW i, NEW j, NEW S, NEW T,
         Kept(h, d, g, e, S), Kept(g, e, i, j, T)
  PROVE  Kept(h, d, i, j, S \cup T)
BY DEF Kept

Over(f, S) == f = [x \in S |-> f[x]]
Update(g, f, x, v) == g = [f EXCEPT ![x] = v]

Agree(h, p, e, q) ==
  /\ \A a \in Addr : h[OfCopy(a)] = p[a].ptr /\ h[OfDequant(a)] = e[a].ptr
  /\ \A c \in Context : h[OfA(c)] = q[c].dA /\ h[OfC(c)] = q[c].dC /\ h[OfB(c)] = OwnB(q[c])

(* What is held at each slot.                                              *)
LEMMA HoldAt ==
  ASSUME NEW p, NEW e, NEW q
  PROVE  /\ \A a \in Addr :
              /\ OfCopy(a) \in Slots /\ HoldOf(p, e, q)[OfCopy(a)] = p[a].ptr
              /\ OfDequant(a) \in Slots /\ HoldOf(p, e, q)[OfDequant(a)] = e[a].ptr
         /\ \A c \in Context :
              /\ OfA(c) \in Slots /\ HoldOf(p, e, q)[OfA(c)] = q[c].dA
              /\ OfB(c) \in Slots /\ HoldOf(p, e, q)[OfB(c)] = OwnB(q[c])
              /\ OfC(c) \in Slots /\ HoldOf(p, e, q)[OfC(c)] = q[c].dC
BY DEF HoldOf, HeldBy, Slots, OfCopy, OfDequant, OfA, OfB, OfC

LEMMA SlotsDiffer ==
  /\ \A a \in Addr, b \in Addr :
       /\ OfCopy(a) # OfDequant(b)
       /\ OfCopy(a) = OfCopy(b) <=> a = b
       /\ OfDequant(a) = OfDequant(b) <=> a = b
  /\ \A c \in Context, d \in Context :
       /\ OfA(c) # OfB(d) /\ OfA(c) # OfC(d) /\ OfB(c) # OfC(d)
       /\ OfA(c) = OfA(d) <=> c = d
       /\ OfB(c) = OfB(d) <=> c = d
       /\ OfC(c) = OfC(d) <=> c = d
  /\ \A a \in Addr, c \in Context :
       /\ OfCopy(a) # OfA(c) /\ OfCopy(a) # OfB(c) /\ OfCopy(a) # OfC(c)
       /\ OfDequant(a) # OfA(c) /\ OfDequant(a) # OfB(c) /\ OfDequant(a) # OfC(c)
BY DEF OfCopy, OfDequant, OfA, OfB, OfC

LEMMA SlotForms ==
  \A s \in Slots :
    \/ \E a \in Addr : s = OfCopy(a) \/ s = OfDequant(a)
    \/ \E c \in Context : s = OfA(c) \/ s = OfB(c) \/ s = OfC(c)
BY DEF Slots, OfCopy, OfDequant, OfA, OfB, OfC

(* The slots of context c are given those of call v.                       *)
WithCall(h, c, v) ==
  [h EXCEPT ![OfA(c)] = v.dA, ![OfB(c)] = OwnB(v), ![OfC(c)] = v.dC]

(* Two assignments of blocks to slots are equal when they agree on each.   *)
LEMMA HoldEqual ==
  ASSUME NEW p, NEW e, NEW q, NEW h, Over(h, Slots), Agree(h, p, e, q)
  PROVE  HoldOf(p, e, q) = h
<1>1. ASSUME NEW s \in Slots  PROVE HoldOf(p, e, q)[s] = h[s]
  <2>1. \A a \in Addr : HoldOf(p, e, q)[OfCopy(a)] = h[OfCopy(a)]
    BY HoldAt DEF Agree
  <2>2. \A a \in Addr : HoldOf(p, e, q)[OfDequant(a)] = h[OfDequant(a)]
    BY HoldAt DEF Agree
  <2>3. \A c \in Context : HoldOf(p, e, q)[OfA(c)] = h[OfA(c)]
    BY HoldAt DEF Agree
  <2>4. \A c \in Context : HoldOf(p, e, q)[OfB(c)] = h[OfB(c)]
    BY HoldAt DEF Agree
  <2>5. \A c \in Context : HoldOf(p, e, q)[OfC(c)] = h[OfC(c)]
    BY HoldAt DEF Agree
  <2> QED  BY <2>1, <2>2, <2>3, <2>4, <2>5, SlotForms
<1>2. Over(HoldOf(p, e, q), Slots)
  BY DEF HoldOf, Over
<1> QED  BY <1>1, <1>2 DEF Over

(* What a step does to one entry or one call, it does to its slots.        *)
LEMMA HoldPersistent ==
  ASSUME NEW p, NEW e, NEW q, NEW x \in Addr, NEW v, NEW r,
         Over(p, Addr), Update(r, p, x, v)
  PROVE  HoldOf(r, e, q) = [HoldOf(p, e, q) EXCEPT ![OfCopy(x)] = v.ptr]
<1> DEFINE h == [HoldOf(p, e, q) EXCEPT ![OfCopy(x)] = v.ptr]
<1>1. \A s \in Slots : h[s] = IF s = OfCopy(x) THEN v.ptr ELSE HoldOf(p, e, q)[s]
  BY DEF HoldOf
<1>2. Over(h, Slots)
  BY DEF HoldOf, Over
<1>3. \A a \in Addr : r[a] = IF a = x THEN v ELSE p[a]
  BY DEF Over, Update
<1> HIDE DEF h
<1>4. \A a \in Addr : h[OfCopy(a)] = r[a].ptr /\ h[OfDequant(a)] = e[a].ptr
  BY <1>1, <1>3, HoldAt, SlotsDiffer
<1>5. \A c \in Context : h[OfA(c)] = q[c].dA /\ h[OfC(c)] = q[c].dC /\ h[OfB(c)] = OwnB(q[c])
  BY <1>1, HoldAt, SlotsDiffer
<1>6. Agree(h, r, e, q)
  BY <1>4, <1>5 DEF Agree
<1>7. HoldOf(r, e, q) = h
  BY <1>2, <1>6, HoldEqual
<1> QED  BY <1>7 DEF h

LEMMA HoldDequant ==
  ASSUME NEW p, NEW e, NEW q, NEW x \in Addr, NEW v, NEW r,
         Over(e, Addr), Update(r, e, x, v)
  PROVE  HoldOf(p, r, q) = [HoldOf(p, e, q) EXCEPT ![OfDequant(x)] = v.ptr]
<1> DEFINE h == [HoldOf(p, e, q) EXCEPT ![OfDequant(x)] = v.ptr]
<1>1. \A s \in Slots : h[s] = IF s = OfDequant(x) THEN v.ptr ELSE HoldOf(p, e, q)[s]
  BY DEF HoldOf
<1>2. Over(h, Slots)
  BY DEF HoldOf, Over
<1>3. \A a \in Addr : r[a] = IF a = x THEN v ELSE e[a]
  BY DEF Over, Update
<1> HIDE DEF h
<1>4. \A a \in Addr : h[OfCopy(a)] = p[a].ptr /\ h[OfDequant(a)] = r[a].ptr
  BY <1>1, <1>3, HoldAt, SlotsDiffer
<1>5. \A c \in Context : h[OfA(c)] = q[c].dA /\ h[OfC(c)] = q[c].dC /\ h[OfB(c)] = OwnB(q[c])
  BY <1>1, HoldAt, SlotsDiffer
<1>6. Agree(h, p, r, q)
  BY <1>4, <1>5 DEF Agree
<1>7. HoldOf(p, r, q) = h
  BY <1>2, <1>6, HoldEqual
<1> QED  BY <1>7 DEF h

LEMMA HoldCall ==
  ASSUME NEW p, NEW e, NEW q, NEW c \in Context, NEW v, NEW r,
         Over(q, Context), Update(r, q, c, v)
  PROVE  HoldOf(p, e, r) = WithCall(HoldOf(p, e, q), c, v)
<1> DEFINE h == WithCall(HoldOf(p, e, q), c, v)
<1>1. \A s \in Slots : h[s] = IF s = OfC(c) THEN v.dC
                              ELSE IF s = OfB(c) THEN OwnB(v)
                              ELSE IF s = OfA(c) THEN v.dA ELSE HoldOf(p, e, q)[s]
  BY HoldAt DEF HoldOf, WithCall
<1>2. Over(h, Slots)
  BY DEF HoldOf, Over, WithCall
<1>3. \A x \in Context : r[x] = IF x = c THEN v ELSE q[x]
  BY DEF Over, Update
<1> HIDE DEF h
<1>4. \A a \in Addr : h[OfCopy(a)] = p[a].ptr /\ h[OfDequant(a)] = e[a].ptr
  BY <1>1, HoldAt, SlotsDiffer
<1>5. \A x \in Context : h[OfA(x)] = r[x].dA
  BY <1>1, <1>3, HoldAt, SlotsDiffer
<1>6. \A x \in Context : h[OfC(x)] = r[x].dC
  BY <1>1, <1>3, HoldAt, SlotsDiffer
<1>7. \A x \in Context : h[OfB(x)] = OwnB(r[x])
  BY <1>1, <1>3, HoldAt, SlotsDiffer
<1>8. \A x \in Context : /\ h[OfA(x)] = r[x].dA
                         /\ h[OfC(x)] = r[x].dC
                         /\ h[OfB(x)] = OwnB(r[x])
  BY <1>5, <1>6, <1>7, Zenon
<1>9. Agree(h, p, e, r)
  BY <1>4, <1>8 DEF Agree
<1>10. HoldOf(p, e, r) = h
  BY <1>2, <1>9, HoldEqual
<1> QED  BY <1>10 DEF h

(* The end of a call: its slots are emptied and its own buffers freed.     *)
LEMMA Returns ==
  ASSUME NEW h, NEW d, Good(h, d), NEW c \in Context, NEW q,
         h[OfA(c)] = q.dA, h[OfC(c)] = q.dC,
         h[OfB(c)] = IF q.temp THEN q.dB ELSE NoBlock
  PROVE  LET g == [h EXCEPT ![OfA(c)] = NoBlock, ![OfC(c)] = NoBlock, ![OfB(c)] = NoBlock]
         IN  /\ Good(g, FreeTemporaries(d, q))
             /\ Kept(h, d, g, FreeTemporaries(d, q), {OfA(c), OfB(c), OfC(c)})
<1> DEFINE h1 == [h EXCEPT ![OfA(c)] = NoBlock]
           d1 == Release1(d, q.dA)
           h2 == [h1 EXCEPT ![OfC(c)] = NoBlock]
           d2 == Release1(d1, q.dC)
           h3 == [h2 EXCEPT ![OfB(c)] = NoBlock]
           d3 == Release1(d2, IF q.temp THEN q.dB ELSE NoBlock)
<1>1. OfA(c) \in Slots /\ OfB(c) \in Slots /\ OfC(c) \in Slots
  BY HoldAt
<1>2. OfA(c) # OfB(c) /\ OfA(c) # OfC(c) /\ OfB(c) # OfC(c)
  BY SlotsDiffer
<1>3. Good(h1, d1) /\ Kept(h, d, h1, d1, {OfA(c)})
  BY <1>1, Drop
<1>4. h1[OfC(c)] = q.dC /\ h1[OfB(c)] = IF q.temp THEN q.dB ELSE NoBlock
  BY <1>1, <1>2 DEF Good
<1> HIDE DEF h1, d1
<1>5. Good(h2, d2) /\ Kept(h1, d1, h2, d2, {OfC(c)})
  BY <1>1, <1>3, <1>4, Drop
<1>6. h2[OfB(c)] = IF q.temp THEN q.dB ELSE NoBlock
  BY <1>1, <1>2, <1>3, <1>4 DEF Good
<1> HIDE DEF h2, d2
<1>7. Good(h3, d3) /\ Kept(h2, d2, h3, d3, {OfB(c)})
  BY <1>1, <1>5, <1>6, Drop
<1> HIDE DEF h3, d3
<1>8. Kept(h, d, h3, d3, ({OfA(c)} \cup {OfC(c)}) \cup {OfB(c)})
  BY <1>3, <1>5, <1>7, KeptTwice
<1>9. Kept(h, d, h3, d3, {OfA(c), OfB(c), OfC(c)})
  BY <1>8 DEF Kept
<1>10. h3 = [h EXCEPT ![OfA(c)] = NoBlock, ![OfC(c)] = NoBlock, ![OfB(c)] = NoBlock]
  BY DEF h1, h2, h3
<1>11. d3 = FreeTemporaries(d, q)
  BY DEF d1, d2, d3, FreeTemporaries
<1> QED  BY <1>7, <1>9, <1>10, <1>11

-----------------------------------------------------------------------------
(* Types and stages                                                        *)

LEMMA Heap ==
  ASSUME NEW d \in [Block -> -1 .. MaxTensors]
  PROVE  /\ \A b \in AnyBlock : Release1(d, b) \in [Block -> -1 .. MaxTensors]
         /\ \A q \in CallSet : FreeTemporaries(d, q) \in [Block -> -1 .. MaxTensors]
         /\ \A b \in Block, v \in -1 .. MaxTensors :
              [d EXCEPT ![b] = v] \in [Block -> -1 .. MaxTensors]
<1>1. ASSUME NEW e \in [Block -> -1 .. MaxTensors], NEW b \in AnyBlock
      PROVE  Release1(e, b) \in [Block -> -1 .. MaxTensors]
  BY <1>1, DeviceAssumption DEF Release1, AnyBlock, Free
<1>2. ASSUME NEW q \in CallSet
      PROVE  FreeTemporaries(d, q) \in [Block -> -1 .. MaxTensors]
  <2>1. q.dA \in AnyBlock /\ q.dC \in AnyBlock
        /\ (IF q.temp THEN q.dB ELSE NoBlock) \in AnyBlock
    BY DEF CallSet, AnyBlock
  <2> QED  BY <1>1, <2>1 DEF FreeTemporaries
<1>3. \A b \in Block, v \in -1 .. MaxTensors :
        [d EXCEPT ![b] = v] \in [Block -> -1 .. MaxTensors]
  OBVIOUS
<1> QED  BY <1>1, <1>2, <1>3

LEMMA IdleCall ==
  /\ Idle \in CallSet
  /\ Idle.pc = "idle" /\ Idle.dA = NoBlock /\ Idle.dC = NoBlock /\ OwnB(Idle) = NoBlock
  /\ \A c \in Context : Stage(c, Idle)
<1>1. /\ Idle \in CallSet
      /\ Idle.pc = "idle" /\ Idle.dA = NoBlock /\ Idle.dC = NoBlock /\ OwnB(Idle) = NoBlock
  BY DeviceAssumption DEF Idle, CallSet, AnyAddr, AnyBlock, Free, OwnB
<1>2. ASSUME NEW c \in Context PROVE Stage(c, Idle)
  BY <1>1 DEF Stage
<1> QED  BY <1>1, <1>2

(* The stage a call reaches when its operand is resolved.                  *)
AfterLookup(c, b, temp, d, q) ==
  /\ Update(call', call, c, q) /\ Stage(c, q)
  /\ q.dA = call[c].dA /\ q.dC = NoBlock
  /\ q.pc \in {"idle", "out"}
  /\ q.pc = "out" => q.dB = b /\ q.got = d[b] /\ q.temp = temp /\ q.addr = call[c].addr
  /\ q.pc = "idle" => ~q.temp
  /\ call[c].op # "preload" => q.pc = "out"

LEMMA ResolvedCall ==
  ASSUME NEW c \in Context, NEW b \in Block, NEW temp \in BOOLEAN,
         NEW d \in [Block -> -1 .. MaxTensors], TypeInv,
         call[c].pc \in {"resolve", "insert"}, Resolved(c, b, temp, d)
  PROVE  \E q \in CallSet : AfterLookup(c, b, temp, d, q)
<1> USE DEF TypeInv, AfterLookup, Update
<1>1. call \in [Context -> CallSet] /\ call[c] \in CallSet /\ Stage(c, call[c])
  BY DEF Types, Stages
<1>2. CASE call[c].op = "preload"
  <2>1. call' = [call EXCEPT ![c] = Idle]
    BY <1>2 DEF Resolved
  <2>2. call[c].dA = NoBlock
    BY <1>1, <1>2 DEF Stage
  <2>3. Idle.pc = "idle" /\ ~Idle.temp
    BY DEF Idle
  <2> QED  BY <1>2, <2>1, <2>2, <2>3, IdleCall
<1>3. CASE call[c].op # "preload"
  <2> DEFINE q == [call[c] EXCEPT !.dB = b, !.temp = temp, !.pc = "out", !.got = d[b]]
  <2>1. call' = [call EXCEPT ![c] = q]
    BY <1>1, <1>3 DEF Resolved
  <2>2. q \in CallSet
    BY <1>1 DEF CallSet, AnyBlock
  <2>3. /\ q.pc = "out" /\ q.dB = b /\ q.temp = temp /\ q.got = d[b] /\ q.dA = call[c].dA
        /\ q.dC = call[c].dC /\ q.op = call[c].op /\ q.addr = call[c].addr
    BY <1>1 DEF CallSet
  <2> HIDE DEF q
  <2>4. Stage(c, q) /\ q.dC = NoBlock
    BY <1>1, <1>3, <2>3 DEF Stage
  <2> QED  BY <2>1, <2>2, <2>3, <2>4
<1> QED  BY <1>2, <1>3

(* What a call keeps when it is cut.                                       *)
SameButCut(q, p) ==
  /\ p.pc = q.pc /\ p.op = q.op /\ p.addr = q.addr /\ p.temp = q.temp /\ p.got = q.got
  /\ p.dA = q.dA /\ p.dB = q.dB /\ p.dC = q.dC

CutIn(S, x, p) ==
  /\ p \in CallSet /\ Stage(x, p) /\ SameButCut(call[x], p)
  /\ p.cut \/ (p = call[x] /\ ~(p.pc \in {"out", "run"} /\ p.dB \in S))

LEMMA CutCalls ==
  ASSUME TypeInv, NEW S
  PROVE  Cut(S) \in [Context -> CallSet] /\ \A x \in Context : CutIn(S, x, Cut(S)[x])
<1>1. ASSUME NEW x \in Context  PROVE CutIn(S, x, Cut(S)[x])
  <2>1. call[x] \in CallSet /\ Stage(x, call[x])
    BY DEF TypeInv, Types, Stages
  <2> DEFINE p == [call[x] EXCEPT !.cut = TRUE]
  <2>2. p \in CallSet /\ SameButCut(call[x], p) /\ p.cut
    BY <2>1 DEF CallSet, SameButCut
  <2>3. CASE call[x].pc \in {"out", "run"} /\ call[x].dB \in S
    <3>1. Cut(S)[x] = p
      BY <2>3 DEF Cut
    <3> HIDE DEF p
    <3>2. Stage(x, p)
      BY <2>1, <2>2, <2>3 DEF Stage, SameButCut
    <3> QED  BY <2>2, <3>1, <3>2 DEF CutIn
  <2>4. CASE ~(call[x].pc \in {"out", "run"} /\ call[x].dB \in S)
    <3>1. Cut(S)[x] = call[x]
      BY <2>4 DEF Cut
    <3> QED  BY <2>1, <2>4, <3>1 DEF CutIn, SameButCut
  <2> QED  BY <2>3, <2>4
<1>2. \A x \in Context : Cut(S)[x] \in CallSet
  BY <1>1 DEF CutIn
<1> QED  BY <1>1, <1>2 DEF Cut

LEMMA BackendTypes ==
  ASSUME TypeInv, NEW c \in Context, BackendStep(c)
  PROVE  TypeInv'
<1> DEFINE Heaps == [Block -> -1 .. MaxTensors]
<1>1. /\ call \in [Context -> CallSet] /\ call[c] \in CallSet /\ Stage(c, call[c])
      /\ host \in [Addr -> [id : 0 .. MaxTensors, type : Type]]
      /\ dev \in Heaps /\ damaged \in BOOLEAN
      /\ persistent \in [Addr -> [ptr : AnyBlock, bytes : {"tensor", "chunk"}]]
      /\ dequant \in [Addr -> [ptr : AnyBlock, type : Type]]
  BY DEF TypeInv, Types, Stages
<1>2. call[c].pc # "idle" => call[c].addr \in Addr
  BY <1>1 DEF Stage, TypeInv, Types
<1>3. \A q \in CallSet : Bytes(q) \in {"tensor", "chunk"}
  BY DEF Bytes
<1>4. NoEntry \in [ptr : AnyBlock, bytes : {"tensor", "chunk"}]
      /\ NoDequant \in [ptr : AnyBlock, type : Type]
  BY DeviceAssumption DEF NoEntry, NoDequant, AnyBlock
<1>5. \A d \in Heaps : Return(c, d) =>
        dev' \in Heaps /\ \E q \in CallSet : call' = [call EXCEPT ![c] = q] /\ Stage(c, q)
  <2> SUFFICES ASSUME NEW d \in Heaps, Return(c, d)
               PROVE  /\ dev' \in Heaps
                      /\ \E q \in CallSet : call' = [call EXCEPT ![c] = q] /\ Stage(c, q)
    OBVIOUS
  <2>1. dev' = FreeTemporaries(d, call[c]) /\ call' = [call EXCEPT ![c] = Idle]
    BY DEF Return
  <2>2. dev' \in Heaps
    BY <1>1, <2>1, Heap
  <2> QED  BY <2>1, <2>2, IdleCall
<1>6. \A b \in Block, temp \in BOOLEAN, d \in Heaps :
        call[c].pc \in {"resolve", "insert"} /\ Resolved(c, b, temp, d) =>
          \E q \in CallSet : call' = [call EXCEPT ![c] = q] /\ Stage(c, q)
  BY ResolvedCall DEF AfterLookup, Update
<1>7. stepFrame' = stepFrame
  BY DEF BackendStep, UseCopy, Upload, CopyOnce, UseDequant, MissDequant, InsertDequant,
         AllocOut, Run
<1> DEFINE CallOK == \E q \in CallSet : call' = [call EXCEPT ![c] = q] /\ Stage(c, q)
           RestOK == /\ dev' \in Heaps /\ damaged' \in BOOLEAN
                     /\ persistent' \in [Addr -> [ptr : AnyBlock, bytes : {"tensor", "chunk"}]]
                     /\ dequant' \in [Addr -> [ptr : AnyBlock, type : Type]]
           CallsOK == call' \in [Context -> CallSet] /\ \A x \in Context : Stage(x, call'[x])
<1> HIDE DEF CallsOK
<1>8. (CallOK \/ CallsOK) /\ RestOK
  <2>1. CASE UseCopy(c)
    <3>1. persistent[call[c].addr].ptr \in Block
      BY <1>1, <1>2, <2>1 DEF UseCopy, Hit, AnyBlock
    <3>2. CallOK
      BY <1>1, <1>6, <2>1, <3>1 DEF UseCopy
    <3> QED  BY <1>1, <2>1, <3>2 DEF UseCopy, cacheVars
  <2>2. CASE Upload(c)
    <3> DEFINE d == Evict(persistent[call[c].addr])
    <3>1. call[c].addr \in Addr /\ call[c].pc = "resolve" /\ d \in Heaps
      BY <1>1, <1>2, <2>2, Heap DEF Upload, Evict
    <3>2. dequant' = dequant /\ damaged' = damaged
      BY <2>2 DEF Upload
    <3>3. CASE \E b \in Block :
              /\ d[b] = Free
              /\ dev' = [d EXCEPT ![b] = host[call[c].addr].id]
              /\ persistent' = [persistent EXCEPT ![call[c].addr] =
                                 [ptr |-> b, bytes |-> Bytes(call[c])]]
              /\ Resolved(c, b, FALSE, dev')
      <4>1. PICK b \in Block :
              /\ dev' = [d EXCEPT ![b] = host[call[c].addr].id]
              /\ persistent' = [persistent EXCEPT ![call[c].addr] =
                                 [ptr |-> b, bytes |-> Bytes(call[c])]]
              /\ Resolved(c, b, FALSE, dev')
        BY <3>3
      <4>2. host[call[c].addr].id \in -1 .. MaxTensors
        BY <1>1, <3>1
      <4>3. dev' \in Heaps
        BY <3>1, <4>1, <4>2, Heap
      <4>4. CallOK
        BY <1>6, <3>1, <4>1, <4>3
      <4> QED  BY <1>1, <1>3, <3>1, <3>2, <4>1, <4>3, <4>4 DEF AnyBlock
    <3>4. CASE /\ persistent' = [persistent EXCEPT ![call[c].addr] = NoEntry]
               /\ dev' = d /\ call' = [call EXCEPT ![c].long = FALSE]
               /\ call[c].op = "rows"
      <4> DEFINE q == [call[c] EXCEPT !.long = FALSE]
      <4>1. q \in CallSet /\ call' = [call EXCEPT ![c] = q]
        BY <1>1, <3>4 DEF CallSet
      <4>2. /\ q.pc = call[c].pc /\ q.op = call[c].op /\ q.addr = call[c].addr
            /\ q.dA = call[c].dA /\ q.dB = call[c].dB /\ q.dC = call[c].dC
            /\ q.temp = call[c].temp /\ q.cut = call[c].cut
        BY <1>1 DEF CallSet
      <4> HIDE DEF q
      <4>3. Stage(c, q)
        BY <1>1, <3>1, <4>2 DEF Stage
      <4> QED  BY <1>1, <1>4, <3>1, <3>2, <3>4, <4>1, <4>3
    <3>5. CASE /\ persistent' = [persistent EXCEPT ![call[c].addr] = NoEntry]
               /\ Return(c, d)
      BY <1>1, <1>4, <1>5, <3>1, <3>2, <3>5
    <3> QED  BY <2>2, <3>3, <3>4, <3>5 DEF Upload
  <2>3. CASE CopyOnce(c)
    <3>1. call[c].addr \in Addr /\ call[c].pc = "resolve"
      BY <1>2, <2>3 DEF CopyOnce
    <3>2. CASE \E b \in Block :
              /\ dev[b] = Free
              /\ dev' = [dev EXCEPT ![b] = host[call[c].addr].id]
              /\ Resolved(c, b, TRUE, dev')
      <4>1. PICK b \in Block :
              /\ dev' = [dev EXCEPT ![b] = host[call[c].addr].id]
              /\ Resolved(c, b, TRUE, dev')
        BY <3>2
      <4>2. host[call[c].addr].id \in -1 .. MaxTensors
        BY <1>1, <3>1
      <4>3. dev' \in Heaps
        BY <1>1, <4>1, <4>2, Heap
      <4>4. CallOK
        BY <1>6, <3>1, <4>1, <4>3
      <4> QED  BY <1>1, <2>3, <4>3, <4>4 DEF CopyOnce, cacheVars
    <3>3. CASE Return(c, dev)
      BY <1>1, <1>5, <2>3, <3>3 DEF CopyOnce, cacheVars
    <3> QED  BY <2>3, <3>2, <3>3 DEF CopyOnce
  <2>4. CASE UseDequant(c)
    <3>1. dequant[call[c].addr].ptr \in Block
      BY <1>1, <1>2, <2>4 DEF UseDequant, AnyBlock
    <3>2. CallOK
      BY <1>1, <1>6, <2>4, <3>1 DEF UseDequant
    <3> QED  BY <1>1, <2>4, <3>2 DEF UseDequant, cacheVars
  <2>5. CASE MissDequant(c)
    <3> DEFINE d == Evict(dequant[call[c].addr])
    <3>1. call[c].addr \in Addr /\ call[c].pc = "resolve" /\ d \in Heaps
      BY <1>1, <1>2, <2>5, Heap DEF MissDequant, Evict
    <3>2. persistent' = persistent /\ damaged' = damaged
          /\ dequant' = [dequant EXCEPT ![call[c].addr] = NoDequant]
      BY <2>5 DEF MissDequant
    <3>3. CASE \E b \in Block :
              /\ d[b] = Free
              /\ dev' = [d EXCEPT ![b] = host[call[c].addr].id]
              /\ call' = [call EXCEPT ![c].dB = b, ![c].pc = "insert"]
      <4>1. PICK b \in Block :
              /\ dev' = [d EXCEPT ![b] = host[call[c].addr].id]
              /\ call' = [call EXCEPT ![c].dB = b, ![c].pc = "insert"]
        BY <3>3
      <4>2. host[call[c].addr].id \in -1 .. MaxTensors
        BY <1>1, <3>1
      <4>3. dev' \in Heaps
        BY <3>1, <4>1, <4>2, Heap
      <4> DEFINE q == [call[c] EXCEPT !.dB = b, !.pc = "insert"]
      <4>4. q \in CallSet /\ call' = [call EXCEPT ![c] = q]
        BY <1>1, <4>1 DEF CallSet, AnyBlock
      <4>5. /\ q.pc = "insert" /\ q.op = call[c].op /\ q.addr = call[c].addr
            /\ q.dA = call[c].dA /\ q.dB = b /\ q.dC = call[c].dC
            /\ q.temp = call[c].temp /\ q.cut = call[c].cut
        BY <1>1 DEF CallSet
      <4>6. host[call[c].addr].type # "F32"
        BY <2>5 DEF MissDequant, Lookup
      <4>7. call[c].addr \in own[c]
        BY <1>1, <3>1, <4>6 DEF Stage, TypeInv, Apart, Names
      <4> HIDE DEF q
      <4>8. Stage(c, q)
        BY <1>1, <3>1, <4>5, <4>6, <4>7 DEF Stage
      <4> QED  BY <1>1, <1>4, <3>1, <3>2, <4>3, <4>4, <4>8
    <3>4. CASE Return(c, d)
      BY <1>1, <1>4, <1>5, <3>1, <3>2, <3>4
    <3> QED  BY <2>5, <3>3, <3>4 DEF MissDequant
  <2>6. CASE InsertDequant(c)
    <3>1. call[c].addr \in Addr /\ call[c].pc = "insert" /\ call[c].dB \in Block
      BY <1>1, <1>2, <2>6 DEF InsertDequant, Stage
    <3>2. CallOK
      BY <1>1, <1>6, <2>6, <3>1 DEF InsertDequant
    <3> QED  BY <1>1, <2>6, <3>1, <3>2 DEF InsertDequant, AnyBlock
  <2>7. CASE AllocOut(c)
    <3>1. persistent' = persistent /\ dequant' = dequant /\ call[c].pc = "out"
      BY <2>7 DEF AllocOut, cacheVars
    <3>2. CASE \E b \in Block :
              /\ dev' = [dev EXCEPT ![b] = Scratch]
              /\ call' = [call EXCEPT ![c].dC = b, ![c].pc = "run"]
              /\ damaged' = damaged
      <4>1. PICK b \in Block :
              /\ dev' = [dev EXCEPT ![b] = Scratch]
              /\ call' = [call EXCEPT ![c].dC = b, ![c].pc = "run"]
              /\ damaged' = damaged
        BY <3>2
      <4>2. dev' \in Heaps
        BY <1>1, <4>1, Heap, DeviceAssumption DEF Scratch
      <4> DEFINE q == [call[c] EXCEPT !.dC = b, !.pc = "run"]
      <4>3. q \in CallSet /\ call' = [call EXCEPT ![c] = q]
        BY <1>1, <4>1 DEF CallSet, AnyBlock
      <4>4. /\ q.pc = "run" /\ q.op = call[c].op /\ q.addr = call[c].addr
            /\ q.dA = call[c].dA /\ q.dB = call[c].dB
        BY <1>1 DEF CallSet
      <4> HIDE DEF q
      <4>5. Stage(c, q)
        BY <1>1, <3>1, <4>4 DEF Stage
      <4> QED  BY <1>1, <3>1, <4>1, <4>2, <4>3, <4>5
    <3>3. CASE /\ dev' = FreeTemporaries(Release1(dev, call[c].dB), call[c])
               /\ call' = [Cut({call[c].dB}) EXCEPT ![c] = Idle] /\ damaged' = TRUE
      <4>1. Release1(dev, call[c].dB) \in Heaps
        BY <1>1, Heap DEF CallSet
      <4>2. dev' \in Heaps
        BY <1>1, <3>3, <4>1, Heap
      <4> DEFINE k == Cut({call[c].dB})
      <4>3. k \in [Context -> CallSet] /\ \A x \in Context : Stage(x, k[x])
        BY CutCalls DEF CutIn
      <4>4. call' = [k EXCEPT ![c] = Idle]
        BY <3>3
      <4> HIDE DEF k
      <4>5. CallsOK
        BY <4>3, <4>4, IdleCall DEF CallsOK
      <4> QED  BY <1>1, <3>1, <3>3, <4>2, <4>5
    <3>4. CASE Return(c, dev) /\ UNCHANGED damaged
      BY <1>1, <1>5, <3>1, <3>4
    <3> QED  BY <2>7, <3>2, <3>3, <3>4 DEF AllocOut
  <2>8. CASE Run(c)
    BY <1>1, <1>5, <2>8 DEF Run, cacheVars
  <2> QED  BY <2>1, <2>2, <2>3, <2>4, <2>5, <2>6, <2>7, <2>8 DEF BackendStep
<1>9. CallsOK
  <2>1. CASE CallOK
    <3>1. PICK q \in CallSet : call' = [call EXCEPT ![c] = q] /\ Stage(c, q)
      BY <2>1
    <3> QED  BY <1>1, <3>1 DEF CallsOK, TypeInv, Stages
  <2> QED  BY <1>8, <2>1
<1> USE <1>7 DEF stepFrame, hostVars, modeVars, ctxVars
<1>10. Types'
  BY <1>8, <1>9 DEF CallsOK, TypeInv, Types
<1>11. Stages'
  BY <1>9 DEF CallsOK, Stages, Stage, Running
<1>12. Apart'
  BY DEF TypeInv, Apart, Names, Mapped
<1> QED  BY <1>10, <1>11, <1>12 DEF TypeInv

(* A step of a context leaves the others their calls and addresses, and    *)
(* takes over addresses that nobody has.                                   *)
OthersKept(c) ==
  \A x \in Context \ {c} :
    /\ own'[x] = own[x] /\ key'[x] = key[x] /\ todo'[x] = todo[x]
    /\ phase'[x] = phase[x] /\ call'[x] = call[x]
    /\ \A a \in own[x] \cup key[x] : host'[a] = host[a]

LEMMA OneContext ==
  ASSUME TypeInv, NEW c \in Context, OthersKept(c), Types', Stage(c, call[c])', Names(c)',
         \A a \in own'[c] \cup key'[c] : a \in own[c] \cup key[c] \/ ~Mapped(a)
  PROVE  TypeInv'
<1>1. ASSUME NEW x \in Context, x # c  PROVE Stage(x, call[x])' /\ Names(x)'
  <2>1. /\ own'[x] = own[x] /\ key'[x] = key[x] /\ todo'[x] = todo[x]
        /\ phase'[x] = phase[x] /\ call'[x] = call[x]
        /\ \A a \in own[x] \cup key[x] : host'[a] = host[a]
    BY <1>1 DEF OthersKept
  <2>2. Stage(x, call[x]) /\ Names(x)
    BY DEF TypeInv, Stages, Apart
  <2>3. Stage(x, call[x])'
    BY <2>1, <2>2 DEF Stage, Running
  <2>4. Names(x)'
    BY <2>1, <2>2 DEF Names, Mapped
  <2> QED  BY <2>3, <2>4
<1>2. ASSUME NEW x \in Context, x # c
      PROVE  (own'[x] \cup key'[x]) \cap (own'[c] \cup key'[c]) = {}
  <2>1. own'[x] = own[x] /\ key'[x] = key[x]
    BY <1>2 DEF OthersKept
  <2>2. \A a \in own[x] \cup key[x] : Mapped(a) /\ a \notin own[c] \cup key[c]
    BY <1>2 DEF TypeInv, Apart, Names
  <2> QED  BY <2>1, <2>2
<1>3. ASSUME NEW x \in Context, NEW y \in Context, x # c, y # c, x # y
      PROVE  (own'[x] \cup key'[x]) \cap (own'[y] \cup key'[y]) = {}
  BY <1>3 DEF OthersKept, TypeInv, Apart
<1>4. Stages'
  BY <1>1 DEF Stages
<1>5. Apart'
  BY <1>1, <1>2, <1>3 DEF Apart
<1> QED  BY <1>4, <1>5 DEF TypeInv

LEMMA Entered ==
  ASSUME TypeInv, NEW c \in Context, NEW a \in Addr, NEW long \in BOOLEAN,
         NEW op \in {"preload", "product", "strided", "rows", "scores"}, Enter(c, op, a, long)
  PROVE  \E q \in CallSet :
           /\ call' = [call EXCEPT ![c] = q]
           /\ q.pc = "resolve" /\ q.op = op /\ q.addr = a
           /\ q.dB = NoBlock /\ q.dC = NoBlock /\ ~q.temp /\ ~q.cut
           /\ \/ op = "preload" /\ q.dA = NoBlock /\ dev' = dev
              \/ op # "preload" /\ \E b \in Block :
                   q.dA = b /\ dev[b] = Free /\ dev' = [dev EXCEPT ![b] = Scratch]
<1> DEFINE i == [Idle EXCEPT !.pc = "resolve", !.op = op, !.addr = a, !.long = long]
<1>1. /\ i \in CallSet /\ i.pc = "resolve" /\ i.op = op /\ i.addr = a
      /\ i.dA = NoBlock /\ i.dB = NoBlock /\ i.dC = NoBlock /\ ~i.temp /\ ~i.cut
  <2>1. Idle \in CallSet /\ Idle.dA = NoBlock /\ Idle.dB = NoBlock /\ Idle.dC = NoBlock
        /\ ~Idle.temp /\ ~Idle.cut
    BY IdleCall DEF Idle
  <2> QED  BY <2>1 DEF CallSet, AnyAddr
<1>2. CASE op = "preload" /\ call' = [call EXCEPT ![c] = i] /\ UNCHANGED dev
  BY <1>1, <1>2
<1>3. CASE op # "preload" /\ \E b \in Block :
             /\ dev[b] = Free /\ dev' = [dev EXCEPT ![b] = Scratch]
             /\ call' = [call EXCEPT ![c] = [i EXCEPT !.dA = b]]
  <2>1. PICK b \in Block :
             /\ dev[b] = Free /\ dev' = [dev EXCEPT ![b] = Scratch]
             /\ call' = [call EXCEPT ![c] = [i EXCEPT !.dA = b]]
    BY <1>3
  <2> DEFINE q == [i EXCEPT !.dA = b]
  <2> HIDE DEF i
  <2>2. /\ q \in CallSet /\ q.pc = "resolve" /\ q.op = op /\ q.addr = a
        /\ q.dA = b /\ q.dB = NoBlock /\ q.dC = NoBlock /\ ~q.temp /\ ~q.cut
    BY <1>1 DEF CallSet, AnyBlock
  <2>3. call' = [call EXCEPT ![c] = q]
    BY <2>1
  <2> HIDE DEF q
  <2> QED  BY <1>3, <2>1, <2>2, <2>3
<1> QED  BY <1>2, <1>3 DEF Enter

LEMMA ContextTypes ==
  ASSUME TypeInv, NEW c \in Context, ContextStep(c)
  PROVE  TypeInv' /\ (OthersKept(c) \/ Release(c))
<1>1. Types /\ Stage(c, call[c]) /\ Names(c) /\ call[c] \in CallSet
      /\ \A x \in Context : Names(x) /\ own[x] \cup key[x] \subseteq Addr
  BY DEF TypeInv, Types, Stages, Apart
<1>2. \A x \in Context \ {c} : (own[c] \cup key[c]) \cap (own[x] \cup key[x]) = {}
  BY DEF TypeInv, Apart
<1>3. ~Running(c) => call[c] = Idle /\ call[c].pc = "idle"
  BY <1>1 DEF Stage, CallSet
<1>4. ASSUME call'[c].pc = "idle", call'[c] = call[c] PROVE Stage(c, call[c])'
  BY <1>1, <1>4 DEF Stage
<1>5. ASSUME NEW a \in Addr, Write(a, "F32") \/ \E ty \in Type : Write(a, ty)
      PROVE  /\ host' \in [Addr -> [id : 0 .. MaxTensors, type : Type]]
             /\ written' \in 0 .. MaxTensors /\ ~Mapped(a) /\ host'[a].id # 0
             /\ \A x \in Addr \ {a} : host'[x] = host[x]
             /\ Write(a, "F32") => host'[a].type = "F32"
  <2>1. PICK ty \in Type : Write(a, ty)
    BY <1>5, DeviceAssumption
  <2>2. written + 1 \in 0 .. MaxTensors /\ written + 1 # 0
    BY <1>1, <2>1, DeviceAssumption DEF Types, Write
  <2>3. \A x \in Addr : host'[x] = IF x = a THEN [id |-> written + 1, type |-> ty] ELSE host[x]
    BY <1>1, <2>1 DEF Types, Write
  <2>4. Write(a, "F32") => host'[a].type = "F32"
    BY <1>1 DEF Types, Write
  <2> QED  BY <1>1, <2>1, <2>2, <2>3, <2>4 DEF Types, Write
<1>6. Unmapped \in [id : 0 .. MaxTensors, type : Type]
  BY DeviceAssumption DEF Unmapped
<1>7. CASE Open(c)
  <2> USE <1>7 DEF Open, hostVars, cacheVars, modeVars
  <2>1. Types'
    BY <1>1 DEF Types
  <2>2. Stage(c, call[c])'
    BY <1>3, <1>4 DEF Running
  <2>3. Names(c)' /\ OthersKept(c)
    BY <1>1 DEF Names, OthersKept, Types, Mapped
  <2> QED  BY <2>1, <2>2, <2>3, OneContext
<1>8. CASE EndLoading(c)
  <2> USE <1>8 DEF EndLoading, hostVars, cacheVars, modeVars
  <2>1. Types'
    BY <1>1 DEF Types
  <2>2. Stage(c, call[c])'
    BY <1>4
  <2>3. Names(c)' /\ OthersKept(c)
    BY <1>1 DEF Names, OthersKept, Types, Mapped
  <2> QED  BY <2>1, <2>2, <2>3, OneContext
<1>9. CASE FreeKey(c)
  <2> USE <1>9 DEF FreeKey, Ready, cacheVars, modeVars
  <2>1. Types'
    BY <1>1, <1>6 DEF Types, NoteFreed
  <2>2. Stage(c, call[c])'
    BY <1>4
  <2>3. Names(c)'
    BY <1>1 DEF Names, Types, Mapped
  <2>4. OthersKept(c)
    BY <1>1, <1>2 DEF OthersKept, Types
  <2>5. own'[c] = own[c] /\ key'[c] = {}
    BY <1>1 DEF Types
  <2> QED  BY <2>1, <2>2, <2>3, <2>4, <2>5, OneContext
<1>10. CASE FreeWeights(c)
  <2> USE <1>10 DEF FreeWeights, cacheVars, modeVars
  <2>1. Types'
    BY <1>1, <1>6 DEF Types, NoteFreed, Names
  <2>2. Stage(c, call[c])'
    BY <1>3, <1>4 DEF Running
  <2>3. Names(c)'
    BY <1>1 DEF Names, Types, Mapped
  <2>4. OthersKept(c)
    BY <1>1, <1>2 DEF OthersKept, Types
  <2>5. own'[c] = {} /\ key'[c] = key[c]
    BY <1>1 DEF Types
  <2> QED  BY <2>1, <2>2, <2>3, <2>4, <2>5, OneContext
<1>11. ASSUME NEW a \in Addr, NewKey(c, a)  PROVE TypeInv' /\ OthersKept(c)
  <2> USE <1>11 DEF NewKey, Ready, cacheVars, modeVars
  <2>1. Types'
    BY <1>1, <1>5 DEF Types
  <2>2. Stage(c, call[c])'
    BY <1>4
  <2>3. Names(c)'
    BY <1>1, <1>5 DEF Names, Types, Mapped
  <2>4. OthersKept(c)
    BY <1>1, <1>2, <1>5 DEF OthersKept, Types, Names
  <2>5. own'[c] = own[c] /\ key'[c] = {a} /\ ~Mapped(a)
    BY <1>1, <1>5 DEF Types
  <2> QED  BY <2>1, <2>2, <2>3, <2>4, <2>5, OneContext
<1>12. ASSUME NEW a \in Addr, NEW b \in Addr, Transpose(c, a, b)
       PROVE  TypeInv' /\ OthersKept(c)
  <2> USE <1>12 DEF Transpose, cacheVars, modeVars
  <2>0. a # b /\ written + 1 \in 0 .. MaxTensors
    BY <1>1, DeviceAssumption DEF Names, Types
  <2>1. Types'
    <3>1. [id |-> written + 1, type |-> "F32"] \in [id : 0 .. MaxTensors, type : Type]
      BY <2>0, DeviceAssumption
    <3>2. host' \in [Addr -> [id : 0 .. MaxTensors, type : Type]]
      BY <1>1, <1>6, <3>1 DEF Types
    <3>3. own' \in [Context -> SUBSET Addr] /\ written' \in 0 .. MaxTensors
      BY <1>1, <2>0 DEF Types
    <3> QED  BY <1>1, <3>2, <3>3 DEF Types, NoteFreed
  <2>2. Stage(c, call[c])'
    BY <1>4
  <2>3. \A x \in Addr : host'[x] = IF x = a THEN Unmapped
                                 ELSE IF x = b THEN [id |-> written + 1, type |-> "F32"]
                                 ELSE host[x]
    BY <1>1 DEF Types
  <2>4. own'[c] = (own[c] \ {a}) \cup {b} /\ todo'[c] = {} /\ key'[c] = {} /\ phase'[c] = "loading"
    BY <1>1 DEF Types, Names
  <2>5. Names(c)'
    BY <1>1, <2>0, <2>3, <2>4 DEF Names, Types, Mapped
  <2>6. OthersKept(c)
    BY <1>1, <1>2, <2>3 DEF OthersKept, Types, Names
  <2> QED  BY <1>1, <2>1, <2>2, <2>4, <2>5, <2>6, OneContext
<1>13. ASSUME NEW a \in Addr, NEW ty \in Type, LoadOne(c, a, ty)
       PROVE  TypeInv' /\ OthersKept(c)
  <2> USE <1>13 DEF LoadOne, cacheVars, modeVars
  <2>1. PICK q \in CallSet :
           /\ call' = [call EXCEPT ![c] = q]
           /\ q.pc = "resolve" /\ q.op = "preload" /\ q.addr = a
           /\ q.dA = NoBlock /\ q.dB = NoBlock /\ q.dC = NoBlock /\ ~q.temp /\ ~q.cut
           /\ dev' = dev
    <3> DEFINE op == "preload"
               long == FALSE
    <3>1. Enter(c, op, a, long) /\ long \in BOOLEAN /\ op = "preload"
          /\ op \in {"preload", "product", "strided", "rows", "scores"}
      OBVIOUS
    <3> HIDE DEF op, long
    <3>2. PICK q \in CallSet :
           /\ call' = [call EXCEPT ![c] = q]
           /\ q.pc = "resolve" /\ q.op = op /\ q.addr = a
           /\ q.dB = NoBlock /\ q.dC = NoBlock /\ ~q.temp /\ ~q.cut
           /\ \/ op = "preload" /\ q.dA = NoBlock /\ dev' = dev
              \/ op # "preload" /\ \E b \in Block :
                   q.dA = b /\ dev[b] = Free /\ dev' = [dev EXCEPT ![b] = Scratch]
      BY <3>1, Entered
    <3> QED  BY <3>1, <3>2
  <2>2. Types'
    BY <1>1, <1>5, <2>1 DEF Types
  <2>3. own'[c] = own[c] \cup {a} /\ todo'[c] = {} /\ key'[c] = {} /\ phase'[c] = "loading"
        /\ call'[c] = q /\ ~Mapped(a)
    BY <1>1, <1>5, <2>1 DEF Types, Names
  <2>4. Stage(c, call[c])'
    BY <2>1, <2>3 DEF Stage, Running
  <2>5. Names(c)'
    BY <1>1, <1>5, <2>3 DEF Names, Mapped
  <2>6. OthersKept(c)
    BY <1>1, <1>2, <1>5, <2>1 DEF OthersKept, Types, Names
  <2> QED  BY <1>1, <2>2, <2>3, <2>4, <2>5, <2>6, OneContext
<1>14. ASSUME NEW a \in Addr, NEW op \in {"preload", "product", "strided", "rows", "scores"},
              NEW long \in BOOLEAN, Enter(c, op, a, long), a \in own[c] \cup key[c],
              Running(c), UNCHANGED <<hostVars, cacheVars, modeVars, phase, own, key>>,
              UNCHANGED <<freedCached, damaged>>,
              todo' = todo \/ todo' = [todo EXCEPT ![c] = @ \ {a}]
       PROVE  TypeInv' /\ OthersKept(c)
  <2>1. PICK q \in CallSet :
           /\ call' = [call EXCEPT ![c] = q]
           /\ q.pc = "resolve" /\ q.op = op /\ q.addr = a
           /\ q.dB = NoBlock /\ q.dC = NoBlock /\ ~q.temp /\ ~q.cut
           /\ \/ op = "preload" /\ q.dA = NoBlock /\ dev' = dev
              \/ op # "preload" /\ \E b \in Block :
                   q.dA = b /\ dev[b] = Free /\ dev' = [dev EXCEPT ![b] = Scratch]
    BY <1>14, Entered
  <2>2. dev' \in [Block -> -1 .. MaxTensors]
    <3>1. dev \in [Block -> -1 .. MaxTensors] /\ Scratch \in -1 .. MaxTensors
      BY <1>1, DeviceAssumption DEF Types, Scratch
    <3>2. \A b \in Block : [dev EXCEPT ![b] = Scratch] \in [Block -> -1 .. MaxTensors]
      BY <3>1, Heap
    <3> QED  BY <2>1, <3>1, <3>2
  <2> USE <1>14 DEF hostVars, cacheVars, modeVars
  <2>3. Types'
    <3>1. call \in [Context -> CallSet] /\ todo \in [Context -> SUBSET Addr]
      BY <1>1 DEF Types
    <3>2. call' \in [Context -> CallSet]
      BY <2>1, <3>1
    <3>3. todo' \in [Context -> SUBSET Addr]
      <4>1. CASE todo' = todo
        BY <3>1, <4>1
      <4>2. CASE todo' = [todo EXCEPT ![c] = @ \ {a}]
        BY <3>1, <4>2
      <4> QED  BY <4>1, <4>2
    <3> QED  BY <1>1, <2>2, <3>2, <3>3 DEF Types
  <2>4. call'[c] = q /\ todo'[c] \subseteq todo[c] /\ (q.dA = NoBlock <=> op = "preload")
    BY <1>1, <2>1, DeviceAssumption DEF Types
  <2>5. Stage(c, call[c])'
    BY <1>1, <2>1, <2>4, DeviceAssumption DEF Stage, Running, Types
  <2>6. Names(c)'
    BY <1>1, <2>4 DEF Names, Mapped, Types
  <2>7. OthersKept(c)
    BY <1>1, <2>1 DEF OthersKept, Types
  <2> QED  BY <2>3, <2>5, <2>6, <2>7, OneContext
<1>15. ASSUME NEW a \in Addr, Preload(c, a)  PROVE TypeInv' /\ OthersKept(c)
  <2>1. a \in own[c] /\ Running(c)
    BY <1>1, <1>15 DEF Preload, Names, Running, Types
  <2> QED  BY <1>14, <1>15, <2>1 DEF Preload
<1>16. ASSUME NEW a \in Addr, Attend(c, a)
       PROVE  TypeInv' /\ OthersKept(c)
  BY <1>14, <1>16 DEF Attend, Ready, Running, ctxVars
<1>17. ASSUME NEW a \in Addr, NEW long \in BOOLEAN, NEW op \in {"product", "strided", "rows"},
              UseWeight(c, a, op, long)
       PROVE  TypeInv' /\ OthersKept(c)
  BY <1>14, <1>17 DEF UseWeight, Ready, Running, ctxVars
<1>18. CASE Release(c)
  <2> USE <1>18 DEF Release, hostVars, modeVars
  <2>1. call' \in [Context -> CallSet] /\ \A x \in Context : CutIn(Cached, x, call'[x])
    BY CutCalls
  <2>4. dev' \in [Block -> -1 .. MaxTensors]
    BY <1>1, DeviceAssumption DEF Types, Free
  <2>5. NoEntry \in [ptr : AnyBlock, bytes : {"tensor", "chunk"}]
        /\ NoDequant \in [ptr : AnyBlock, type : Type]
    BY DeviceAssumption DEF NoEntry, NoDequant, AnyBlock
  <2>6. Types'
    BY <1>1, <2>1, <2>4, <2>5 DEF Types
  <2>7. ASSUME NEW x \in Context  PROVE Stage(x, call[x])'
    <3>1. Stage(x, call'[x]) /\ call'[x].pc = call[x].pc
      BY <2>1 DEF CutIn, SameButCut
    <3>2. CASE x = c
      BY <3>1, <3>2 DEF Stage
    <3>3. CASE x # c
      <4>1. phase'[x] = phase[x]
        BY <1>1, <3>3 DEF Types
      <4> QED  BY <3>1, <4>1 DEF Stage, Running
    <3> QED  BY <3>2, <3>3
  <2>8. ASSUME NEW x \in Context  PROVE Names(x)'
    BY <1>1 DEF Names, Types, Mapped
  <2>9. Apart'
    BY <2>8 DEF TypeInv, Apart
  <2> QED  BY <2>6, <2>7, <2>9 DEF TypeInv, Stages
<1> QED
  BY <1>7, <1>8, <1>9, <1>10, <1>11, <1>12, <1>13, <1>15, <1>16, <1>17, <1>18 DEF ContextStep

LEMMA InitTypes == Init => TypeInv
<1> SUFFICES ASSUME Init PROVE TypeInv
  OBVIOUS
<1> USE DEF Init
<1>1. Types
  <2>1. /\ Unmapped \in [id : 0 .. MaxTensors, type : Type] /\ Free \in -1 .. MaxTensors
        /\ NoEntry \in [ptr : AnyBlock, bytes : {"tensor", "chunk"}]
        /\ NoDequant \in [ptr : AnyBlock, type : Type] /\ 0 \in 0 .. MaxTensors
    BY DeviceAssumption DEF Unmapped, Free, NoEntry, NoDequant, AnyBlock
  <2> QED  BY <2>1, IdleCall DEF Types
<1>2. Stages
  BY IdleCall DEF Stages
<1>3. Apart
  BY DEF Apart, Names
<1> QED  BY <1>1, <1>2, <1>3 DEF TypeInv

LEMMA TypeStep == TypeInv /\ [Next]_vars => TypeInv'
<1> SUFFICES ASSUME TypeInv, [Next]_vars  PROVE TypeInv'
  OBVIOUS
<1>1. CASE Next
  BY <1>1, BackendTypes, ContextTypes DEF Next
<1>2. CASE UNCHANGED vars
  BY <1>2 DEF vars, hostVars, cacheVars, modeVars, ctxVars, TypeInv, Types, Stages, Stage, Running,
             Apart, Names, Mapped
<1> QED  BY <1>1, <1>2

LEMMA TypeInvIsTypeOK == TypeInv => TypeOK
<1> SUFFICES ASSUME TypeInv PROVE TypeOK
  OBVIOUS
<1>1. Types /\ \A c \in Context : Stage(c, call[c]) /\ Names(c) /\ call[c] \in CallSet
  BY DEF TypeInv, Types, Stages, Apart
<1>2. ASSUME NEW c \in Context
      PROVE  /\ todo[c] \subseteq own[c]
             /\ own[c] \cup key[c] \subseteq {a \in Addr : Mapped(a)}
             /\ call[c].pc \in {"idle", "resolve", "insert", "out", "run"}
             /\ call[c].pc \in {"out", "run"} => {call[c].dA, call[c].dB} \subseteq Block
  BY <1>1 DEF Types, Stage, Names, CallSet, AnyBlock
<1> QED  BY <1>1, <1>2 DEF TypeOK, Types, AnyBlock

(* Every variable keeps its type, a context names only host addresses that *)
(* are mapped, and a call past its lookups has both operands in blocks.    *)
THEOREM TypeCorrect == Spec => []TypeOK
<1>1. Spec => []TypeInv
  BY InitTypes, TypeStep, PTL DEF Spec
<1> QED  BY <1>1, TypeInvIsTypeOK, PTL

-----------------------------------------------------------------------------
(* Steps of a backend call                                                 *)

LEMMA ReturnOwned ==
  ASSUME NEW c \in Context, NEW p, NEW e, NEW d, TypeInv, call[c].pc # "insert",
         Good(HoldOf(p, e, call), d), Return(c, d)
  PROVE  /\ Good(HoldOf(p, e, call'), dev')
         /\ Kept(HoldOf(p, e, call), d, HoldOf(p, e, call'), dev', {OfA(c), OfB(c), OfC(c)})
         /\ call'[c].pc = "idle"
<1> DEFINE h == HoldOf(p, e, call)
           g == [h EXCEPT ![OfA(c)] = NoBlock, ![OfC(c)] = NoBlock, ![OfB(c)] = NoBlock]
<1>1. /\ h[OfA(c)] = call[c].dA /\ h[OfC(c)] = call[c].dC
      /\ h[OfB(c)] = IF call[c].temp THEN call[c].dB ELSE NoBlock
  BY HoldAt DEF OwnB
<1>2. Over(call, Context) /\ call' = [call EXCEPT ![c] = Idle] /\ dev' = FreeTemporaries(d, call[c])
  BY DEF TypeInv, Types, Over, Return
<1>3. HoldOf(p, e, call') = [h EXCEPT ![OfA(c)] = NoBlock, ![OfB(c)] = NoBlock, ![OfC(c)] = NoBlock]
  <2>1. HoldOf(p, e, call') = WithCall(h, c, Idle)
    <3>1. Over(call, Context) /\ Update(call', call, c, Idle)
      BY <1>2 DEF Update
    <3> QED  BY <3>1, HoldCall
  <2> HIDE DEF h
  <2> QED  BY <1>2, <2>1, IdleCall DEF WithCall
<1>4. HoldOf(p, e, call') = g
  <2> HIDE DEF h
  <2> QED  BY <1>3, SlotsDiffer
<1> HIDE DEF h
<1>5. Good(g, dev') /\ Kept(h, d, g, dev', {OfA(c), OfB(c), OfC(c)})
  BY <1>1, <1>2, Returns DEF h
<1>6. call'[c].pc = "idle"
  BY <1>2, IdleCall DEF TypeInv, Types
<1> QED  BY <1>4, <1>5, <1>6 DEF h

LEMMA ResolvedHold ==
  ASSUME NEW c \in Context, NEW p, NEW e, NEW q \in CallSet, TypeInv,
         call[c].pc \in {"resolve", "insert"}, Update(call', call, c, q),
         q.dA = call[c].dA, q.dC = NoBlock
  PROVE  HoldOf(p, e, call') = [HoldOf(p, e, call) EXCEPT ![OfB(c)] = OwnB(q)]
<1> DEFINE h == HoldOf(p, e, call)
<1>1. Over(call, Context) /\ call[c].dC = NoBlock
  BY DEF TypeInv, Types, Over, Stages, Stage
<1>2. HoldOf(p, e, call') = [h EXCEPT ![OfA(c)] = q.dA, ![OfB(c)] = OwnB(q), ![OfC(c)] = q.dC]
  <2>1. HoldOf(p, e, call') = WithCall(h, c, q)
    <3>1. Over(call, Context) /\ Update(call', call, c, q)
      BY <1>1
    <3> QED  BY <3>1, HoldCall
  <2> HIDE DEF h
  <2> QED  BY <2>1 DEF WithCall
<1>3. h[OfA(c)] = q.dA /\ h[OfC(c)] = q.dC
  BY <1>1, HoldAt
<1>4. Over(h, Slots)
  BY DEF HoldOf, Over
<1> HIDE DEF h
<1>5. [h EXCEPT ![OfA(c)] = q.dA, ![OfB(c)] = OwnB(q), ![OfC(c)] = q.dC]
        = [h EXCEPT ![OfB(c)] = OwnB(q)]
  <2> DEFINE x == [h EXCEPT ![OfA(c)] = q.dA, ![OfB(c)] = OwnB(q), ![OfC(c)] = q.dC]
             y == [h EXCEPT ![OfB(c)] = OwnB(q)]
  <2>1. Over(x, Slots) /\ Over(y, Slots)
    BY <1>4 DEF Over
  <2>2. \A s \in Slots : x[s] = y[s]
    BY <1>3, <1>4, SlotsDiffer DEF Over
  <2> HIDE DEF x, y
  <2> QED  BY <2>1, <2>2 DEF Over, x, y
<1> QED  BY <1>2, <1>5 DEF h

LEMMA GoodNow ==
  ASSUME Inv, ~damaged
  PROVE  Good(Hold, dev)
<1>1. \A s \in Slots : Hold[s] \in AnyBlock
  <2>1. \A a \in Addr : persistent[a].ptr \in AnyBlock /\ dequant[a].ptr \in AnyBlock
    BY DEF Inv, TypeInv, Types
  <2>2. \A c \in Context : /\ call[c].dA \in AnyBlock /\ call[c].dC \in AnyBlock
                           /\ OwnB(call[c]) \in AnyBlock
    BY DEF Inv, TypeInv, Types, CallSet, OwnB, AnyBlock
  <2> QED  BY <2>1, <2>2, SlotForms, HoldAt DEF Hold
<1>2. Hold \in [Slots -> AnyBlock]
  BY <1>1 DEF Hold, HoldOf
<1> QED  BY <1>2 DEF Good, Inv, TypeInv, Types

(* What a step of c's call leaves: its slots and those of its address may  *)
(* have changed, and what they hold now is right.                          *)
Touched(c) == {OfA(c), OfB(c), OfC(c), OfCopy(call[c].addr), OfDequant(call[c].addr)}

(* The copies of the call's address are right in the heap d.               *)
Copies(c, d) ==
  LET a == call[c].addr IN
  /\ persistent'[a].ptr # NoBlock => a \in freedCached \/ d[persistent'[a].ptr] = host[a].id
  /\ dequant'[a].ptr # NoBlock => host[a].type # "F32" /\ d[dequant'[a].ptr] = host[a].id

Local(c) ==
  LET a == call[c].addr
      q == call'[c]
  IN  /\ Copies(c, dev')
      /\ q.pc = "insert" =>
           q.addr = a /\ dev'[q.dB] = host[a].id /\ dequant'[a].ptr = NoBlock
      /\ q.pc \in {"out", "run"} /\ ~q.cut =>
           /\ q.addr = a /\ (q.temp \/ q.dB \in {persistent'[a].ptr, dequant'[a].ptr})
           /\ dev'[q.dB] = q.got /\ q.got # Free

Moves(c) ==
  Good(Hold', dev') /\ Kept(Hold, dev, Hold', dev', Touched(c)) /\ Local(c)

LEMMA CallNow ==
  ASSUME NEW c \in Context, Inv, ~damaged, call[c].pc # "idle"
  PROVE  /\ TypeInv /\ Types /\ Stage(c, call[c]) /\ call[c] \in CallSet /\ call[c].addr \in Addr
         /\ Good(Hold, dev) /\ Fresh /\ Mapped(call[c].addr)
         /\ dev \in [Block -> -1 .. MaxTensors] /\ host[call[c].addr].id \in 0 .. MaxTensors
BY GoodNow DEF Inv, TypeInv, Types, Stages, Stage, Apart, Names

LEMMA UseCopyMoves ==
  ASSUME NEW c \in Context, Inv, ~damaged, UseCopy(c)
  PROVE  Moves(c)
<1> USE DEF UseCopy
<1> DEFINE a == call[c].addr
           b == persistent[a].ptr
<1>1. /\ TypeInv /\ Types /\ Stage(c, call[c]) /\ call[c] \in CallSet /\ a \in Addr
      /\ Good(Hold, dev) /\ Fresh /\ Mapped(a)
  BY CallNow
<1>2. b \in Block
  BY <1>1 DEF Types, Hit, AnyBlock
<1>3. Resolved(c, b, FALSE, dev) /\ dev \in [Block -> -1 .. MaxTensors] /\ FALSE \in BOOLEAN
  BY <1>1 DEF Types
<1>4. PICK q \in CallSet : AfterLookup(c, b, FALSE, dev, q)
  BY <1>1, <1>2, <1>3, ResolvedCall
<1>5. Hold' = [Hold EXCEPT ![OfB(c)] = OwnB(q)]
  <2>1. HoldOf(persistent, dequant, call')
          = [HoldOf(persistent, dequant, call) EXCEPT ![OfB(c)] = OwnB(q)]
    BY <1>1, <1>4, ResolvedHold DEF AfterLookup
  <2> QED  BY <2>1 DEF Hold, cacheVars
<1>6. OwnB(q) = NoBlock /\ Hold[OfB(c)] = NoBlock
  BY <1>1, <1>4, HoldAt DEF OwnB, Hold, Stage, AfterLookup
<1>7. Hold' = Hold
  BY <1>1, <1>5, <1>6 DEF Good
<1>8. Good(Hold', dev') /\ Kept(Hold, dev, Hold', dev', Touched(c))
  BY <1>1, <1>7 DEF Kept
<1>9. call'[c] = q /\ persistent' = persistent /\ dequant' = dequant /\ dev' = dev
  BY <1>1, <1>4 DEF Types, cacheVars, AfterLookup, Update
<1>10. dev[b] # Free
  BY <1>1, <1>2, HoldAt, DeviceAssumption DEF Good, Owned, Hold
<1>11. Local(c)
  BY <1>1, <1>2, <1>4, <1>9, <1>10 DEF Local, Copies, Fresh, AfterLookup
<1> QED  BY <1>8, <1>11 DEF Moves

LEMMA UseDequantMoves ==
  ASSUME NEW c \in Context, Inv, ~damaged, UseDequant(c)
  PROVE  Moves(c)
<1> USE DEF UseDequant
<1> DEFINE a == call[c].addr
           b == dequant[a].ptr
<1>1. /\ TypeInv /\ Types /\ Stage(c, call[c]) /\ call[c] \in CallSet /\ a \in Addr
      /\ Good(Hold, dev) /\ Fresh /\ Mapped(a)
  BY CallNow
<1>2. b \in Block
  BY <1>1 DEF Types, AnyBlock
<1>3. Resolved(c, b, FALSE, dev) /\ dev \in [Block -> -1 .. MaxTensors] /\ FALSE \in BOOLEAN
  BY <1>1 DEF Types
<1>4. PICK q \in CallSet : AfterLookup(c, b, FALSE, dev, q)
  BY <1>1, <1>2, <1>3, ResolvedCall
<1>5. Hold' = [Hold EXCEPT ![OfB(c)] = OwnB(q)]
  <2>1. HoldOf(persistent, dequant, call')
          = [HoldOf(persistent, dequant, call) EXCEPT ![OfB(c)] = OwnB(q)]
    BY <1>1, <1>4, ResolvedHold DEF AfterLookup
  <2> QED  BY <2>1 DEF Hold, cacheVars
<1>6. OwnB(q) = NoBlock /\ Hold[OfB(c)] = NoBlock
  BY <1>1, <1>4, HoldAt DEF OwnB, Hold, Stage, AfterLookup
<1>7. Hold' = Hold
  BY <1>1, <1>5, <1>6 DEF Good
<1>8. Good(Hold', dev') /\ Kept(Hold, dev, Hold', dev', Touched(c))
  BY <1>1, <1>7 DEF Kept
<1>9. call'[c] = q /\ persistent' = persistent /\ dequant' = dequant /\ dev' = dev
  BY <1>1, <1>4 DEF Types, cacheVars, AfterLookup, Update
<1>10. dev[b] # Free
  BY <1>1, <1>2, HoldAt, DeviceAssumption DEF Good, Owned, Hold
<1>11. Local(c)
  BY <1>1, <1>2, <1>4, <1>9, <1>10 DEF Local, Copies, Fresh, AfterLookup
<1> QED  BY <1>8, <1>11 DEF Moves

(* A call that ends leaves nothing but the copies of its address.          *)
LEMMA ReturnMoves ==
  ASSUME NEW c \in Context, NEW d, Inv, ~damaged, call[c].pc \notin {"idle", "insert"},
         Return(c, d), Good(HoldOf(persistent', dequant', call), d),
         Kept(Hold, dev, HoldOf(persistent', dequant', call), d, Touched(c)), Copies(c, d)
  PROVE  Moves(c)
<1> DEFINE a == call[c].addr
           h == HoldOf(persistent', dequant', call)
<1>1. TypeInv /\ a \in Addr
  BY CallNow
<1>2. /\ Good(Hold', dev') /\ Kept(h, d, Hold', dev', {OfA(c), OfB(c), OfC(c)})
      /\ call'[c].pc = "idle"
  <2>1. /\ Good(HoldOf(persistent', dequant', call'), dev')
        /\ Kept(h, d, HoldOf(persistent', dequant', call'), dev', {OfA(c), OfB(c), OfC(c)})
        /\ call'[c].pc = "idle"
    BY <1>1, ReturnOwned
  <2> QED  BY <2>1 DEF Hold
<1>3. /\ h[OfCopy(a)] = persistent'[a].ptr /\ OfCopy(a) \in Slots \ {OfA(c), OfB(c), OfC(c)}
      /\ h[OfDequant(a)] = dequant'[a].ptr /\ OfDequant(a) \in Slots \ {OfA(c), OfB(c), OfC(c)}
  BY <1>1, HoldAt, SlotsDiffer
<1> HIDE DEF h
<1>4. /\ persistent'[a].ptr # NoBlock => dev'[persistent'[a].ptr] = d[persistent'[a].ptr]
      /\ dequant'[a].ptr # NoBlock => dev'[dequant'[a].ptr] = d[dequant'[a].ptr]
  BY <1>2, <1>3 DEF Kept
<1>5. Local(c)
  BY <1>2, <1>4 DEF Local, Copies
<1>6. Kept(Hold, dev, Hold', dev', Touched(c) \cup {OfA(c), OfB(c), OfC(c)})
  BY <1>2, KeptTwice DEF h
<1>7. Kept(Hold, dev, Hold', dev', Touched(c))
  BY <1>6 DEF Kept, Touched
<1> QED  BY <1>2, <1>5, <1>7 DEF Moves

LEMMA UploadMoves ==
  ASSUME NEW c \in Context, Inv, ~damaged, Upload(c)
  PROVE  Moves(c)
<1> DEFINE a == call[c].addr
           d == Evict(persistent[a])
           s == OfCopy(a)
           h == [Hold EXCEPT ![s] = NoBlock]
<1>1. /\ TypeInv /\ Types /\ Stage(c, call[c]) /\ call[c] \in CallSet /\ a \in Addr
      /\ Good(Hold, dev) /\ Fresh /\ Mapped(a) /\ host[a].id \in 0 .. MaxTensors
      /\ call[c].pc = "resolve" /\ dequant' = dequant
  BY CallNow DEF Upload
<1>2. /\ s \in Slots /\ Hold[s] = persistent[a].ptr
      /\ OfDequant(a) \in Slots \ {s} /\ Hold[OfDequant(a)] = dequant[a].ptr
  BY <1>1, HoldAt, SlotsDiffer DEF Hold
<1>3. Good(h, d) /\ Kept(Hold, dev, h, d, {s})
  BY <1>1, <1>2, Drop DEF Evict
<1>4. dequant[a].ptr # NoBlock =>
        host[a].type # "F32" /\ d[dequant[a].ptr] = host[a].id
  BY <1>1, <1>2, <1>3 DEF Kept, Fresh
<1>5. Over(persistent, Addr) /\ Over(call, Context) /\ Hold[OfB(c)] = NoBlock
  BY <1>1, HoldAt DEF Types, Over, Stage, OwnB, Hold
<1>6. CASE \E b \in Block :
              /\ d[b] = Free
              /\ dev' = [d EXCEPT ![b] = host[a].id]
              /\ persistent' = [persistent EXCEPT ![a] = [ptr |-> b, bytes |-> Bytes(call[c])]]
              /\ Resolved(c, b, FALSE, dev')
  <2>1. PICK b \in Block :
              /\ d[b] = Free
              /\ dev' = [d EXCEPT ![b] = host[a].id]
              /\ persistent' = [persistent EXCEPT ![a] = [ptr |-> b, bytes |-> Bytes(call[c])]]
              /\ Resolved(c, b, FALSE, dev')
    BY <1>6
  <2> DEFINE g == [h EXCEPT ![s] = b]
  <2>2. h[s] = NoBlock
    BY <1>1, <1>2 DEF Good
  <2> HIDE DEF h, d
  <2>3. Good(g, dev') /\ Kept(h, d, g, dev', {s})
    BY <1>1, <1>2, <1>3, <2>1, <2>2, Take
  <2>4. Kept(Hold, dev, g, dev', {s} \cup {s})
    BY <1>3, <2>3, KeptTwice
  <2>5. HoldOf(persistent', dequant, call) = [Hold EXCEPT ![s] = b]
    <3> DEFINE e == [ptr |-> b, bytes |-> Bytes(call[c])]
    <3>1. Update(persistent', persistent, a, e) /\ e.ptr = b
      BY <2>1 DEF Update
    <3> HIDE DEF e
    <3> QED  BY <1>1, <1>5, <3>1, HoldPersistent DEF Hold
  <2>6. HoldOf(persistent', dequant, call) = g
    BY <1>1, <2>5 DEF h, Good
  <2>7. dev' \in [Block -> -1 .. MaxTensors] /\ FALSE \in BOOLEAN
    BY <2>3 DEF Good
  <2>8. PICK q \in CallSet : AfterLookup(c, b, FALSE, dev', q)
    BY <1>1, <2>1, <2>7, ResolvedCall
  <2>9. HoldOf(persistent', dequant, call')
          = [HoldOf(persistent', dequant, call) EXCEPT ![OfB(c)] = OwnB(q)]
    BY <1>1, <2>8, ResolvedHold DEF AfterLookup
  <2>10. OwnB(q) = NoBlock /\ g[OfB(c)] = NoBlock
    <3>1. OfB(c) \in Slots \ {s}
      BY <1>1, HoldAt, SlotsDiffer
    <3> QED  BY <1>5, <2>4, <2>8, <3>1 DEF OwnB, AfterLookup, Kept
  <2>11. Hold' = g
    BY <1>1, <2>3, <2>6, <2>9, <2>10 DEF Good, Hold
  <2>12. Kept(Hold, dev, Hold', dev', Touched(c))
    BY <2>4, <2>11 DEF Kept, Touched
  <2>13. /\ call'[c] = q /\ persistent'[a].ptr = b /\ dev'[b] = host[a].id
    BY <1>1, <1>3, <2>1, <2>8 DEF Types, AfterLookup, Update, Good
  <2>14. dequant[a].ptr # NoBlock => dev'[dequant[a].ptr] = host[a].id
    BY <1>1, <1>2, <1>4, <2>4 DEF Kept, Fresh
  <2>15. Local(c)
    BY <1>1, <1>4, <2>8, <2>13, <2>14, DeviceAssumption DEF Local, Copies, AfterLookup, Free
  <2> QED  BY <2>3, <2>11, <2>12, <2>15 DEF Moves
<1>7. ASSUME persistent' = [persistent EXCEPT ![a] = NoEntry]
      PROVE  /\ HoldOf(persistent', dequant', call) = h
             /\ persistent'[a].ptr = NoBlock
  <2>1. Update(persistent', persistent, a, NoEntry) /\ NoEntry.ptr = NoBlock
    BY <1>7 DEF Update, NoEntry
  <2>2. HoldOf(persistent', dequant, call) = [Hold EXCEPT ![s] = NoBlock]
    <3>1. a \in Addr /\ Over(persistent, Addr)
      BY <1>1, <1>5
    <3> QED  BY <2>1, <3>1, HoldPersistent DEF Hold
  <2>3. persistent'[a].ptr = NoBlock
    BY <1>1, <1>7, <2>1 DEF Types
  <2>4. HoldOf(persistent', dequant', call) = h
    BY <1>1, <2>2, Zenon
  <2> QED  BY <2>3, <2>4
<1>8. CASE /\ persistent' = [persistent EXCEPT ![a] = NoEntry]
           /\ dev' = d /\ call' = [call EXCEPT ![c].long = FALSE]
  <2> DEFINE q == [call[c] EXCEPT !.long = FALSE]
  <2>1. Update(call', call, c, q)
    BY <1>1, <1>8 DEF CallSet, Update, Types
  <2>2. /\ q.dA = call[c].dA /\ OwnB(q) = OwnB(call[c]) /\ q.dC = call[c].dC
        /\ q.pc = "resolve"
    BY <1>1 DEF CallSet, OwnB
  <2>3. q \in CallSet /\ q.dC = NoBlock
    BY <1>1, <2>2 DEF CallSet, Stage
  <2>4. call'[c] = q
    BY <1>1, <2>1 DEF Types, Update
  <2> HIDE DEF q, h
  <2>5. HoldOf(persistent', dequant', call')
          = [HoldOf(persistent', dequant', call) EXCEPT ![OfB(c)] = OwnB(q)]
    BY <1>1, <2>1, <2>2, <2>3, ResolvedHold
  <2>6. h[OfB(c)] = OwnB(q)
    <3>1. OfB(c) \in Slots \ {s} /\ Hold[OfB(c)] = OwnB(q)
      BY <1>1, <2>2, HoldAt, SlotsDiffer DEF Hold
    <3> QED  BY <1>3, <3>1 DEF Kept
  <2>7. Hold' = h
    BY <1>3, <1>7, <1>8, <2>5, <2>6 DEF Good, Hold
  <2>8. Kept(Hold, dev, Hold', dev', Touched(c))
    BY <1>3, <1>8, <2>7 DEF Kept, Touched
  <2>9. Local(c)
    BY <1>1, <1>4, <1>7, <1>8, <2>2, <2>4 DEF Local, Copies
  <2> QED  BY <1>3, <1>8, <2>7, <2>8, <2>9 DEF Moves
<1>9. CASE persistent' = [persistent EXCEPT ![a] = NoEntry] /\ Return(c, d)
  <2>1. Copies(c, d)
    BY <1>1, <1>4, <1>7, <1>9 DEF Copies
  <2> HIDE DEF h, d
  <2>2. Kept(Hold, dev, h, d, Touched(c))
    BY <1>3 DEF Kept, Touched
  <2> QED  BY <1>1, <1>3, <1>7, <1>9, <2>1, <2>2, ReturnMoves
<1> QED  BY <1>6, <1>8, <1>9 DEF Upload

LEMMA RunMoves ==
  ASSUME NEW c \in Context, Inv, ~damaged, call[c].pc \in {"resolve", "out", "run"},
         Return(c, dev), UNCHANGED cacheVars
  PROVE  Moves(c)
<1>1. /\ Good(Hold, dev) /\ Fresh /\ call[c].addr \in Addr
      /\ persistent' = persistent /\ dequant' = dequant
  BY CallNow DEF cacheVars
<1>2. Copies(c, dev)
  BY <1>1 DEF Copies, Fresh
<1>3. HoldOf(persistent', dequant', call) = Hold
  BY <1>1 DEF Hold
<1>4. Kept(Hold, dev, Hold, dev, Touched(c))
  BY DEF Kept
<1> QED  BY <1>1, <1>2, <1>3, <1>4, ReturnMoves

LEMMA CopyOnceMoves ==
  ASSUME NEW c \in Context, Inv, ~damaged, CopyOnce(c)
  PROVE  Moves(c)
<1> DEFINE a == call[c].addr
           s == OfB(c)
<1>1. /\ TypeInv /\ Types /\ Stage(c, call[c]) /\ call[c] \in CallSet /\ a \in Addr
      /\ Good(Hold, dev) /\ Fresh /\ Mapped(a) /\ host[a].id \in 0 .. MaxTensors
      /\ call[c].pc = "resolve" /\ dequant' = dequant /\ persistent' = persistent
  BY CallNow DEF CopyOnce, cacheVars
<1>2. s \in Slots /\ Hold[s] = NoBlock
  BY <1>1, HoldAt DEF Stage, OwnB, Hold
<1>3. call[c].op # "preload"
  BY DEF CopyOnce, Lookup
<1>4. CASE \E b \in Block :
              /\ dev[b] = Free
              /\ dev' = [dev EXCEPT ![b] = host[a].id]
              /\ Resolved(c, b, TRUE, dev')
  <2>1. PICK b \in Block :
              /\ dev[b] = Free
              /\ dev' = [dev EXCEPT ![b] = host[a].id]
              /\ Resolved(c, b, TRUE, dev')
    BY <1>4
  <2> DEFINE g == [Hold EXCEPT ![s] = b]
  <2>2. Good(g, dev') /\ Kept(Hold, dev, g, dev', {s})
    BY <1>1, <1>2, <2>1, Take
  <2>3. dev' \in [Block -> -1 .. MaxTensors] /\ TRUE \in BOOLEAN
    BY <2>2 DEF Good
  <2>4. PICK q \in CallSet : AfterLookup(c, b, TRUE, dev', q)
    BY <1>1, <2>1, <2>3, ResolvedCall
  <2>5. HoldOf(persistent, dequant, call')
          = [HoldOf(persistent, dequant, call) EXCEPT ![OfB(c)] = OwnB(q)]
    BY <1>1, <2>4, ResolvedHold DEF AfterLookup
  <2>6. q.pc = "out" /\ q.temp /\ OwnB(q) = b
    BY <1>3, <2>4 DEF OwnB, AfterLookup
  <2>7. Hold' = g
    BY <1>1, <2>5, <2>6 DEF Hold
  <2> HIDE DEF g
  <2>8. Kept(Hold, dev, Hold', dev', Touched(c))
    BY <2>2, <2>7 DEF Kept, Touched
  <2>9. call'[c] = q /\ dev'[b] = host[a].id
    BY <1>1, <2>1, <2>4 DEF Types, AfterLookup, Update
  <2>10. Copies(c, dev')
    <3>1. /\ OfCopy(a) \in Slots \ {s} /\ Hold[OfCopy(a)] = persistent[a].ptr
          /\ OfDequant(a) \in Slots \ {s} /\ Hold[OfDequant(a)] = dequant[a].ptr
      BY <1>1, HoldAt, SlotsDiffer DEF Hold
    <3> QED  BY <1>1, <2>2, <3>1 DEF Kept, Copies, Fresh
  <2>11. Local(c)
    BY <1>1, <2>4, <2>6, <2>9, <2>10, DeviceAssumption DEF Local, AfterLookup, Free
  <2> QED  BY <2>2, <2>7, <2>8, <2>11 DEF Moves
<1>5. CASE Return(c, dev)
  BY <1>1, <1>5, RunMoves DEF cacheVars
<1> QED  BY <1>4, <1>5 DEF CopyOnce

LEMMA MissDequantMoves ==
  ASSUME NEW c \in Context, Inv, ~damaged, MissDequant(c)
  PROVE  Moves(c)
<1> DEFINE a == call[c].addr
           d == Evict(dequant[a])
           s == OfDequant(a)
           h == [Hold EXCEPT ![s] = NoBlock]
<1>1. /\ TypeInv /\ Types /\ Stage(c, call[c]) /\ call[c] \in CallSet /\ a \in Addr
      /\ Good(Hold, dev) /\ Fresh /\ Mapped(a) /\ host[a].id \in 0 .. MaxTensors
      /\ call[c].pc = "resolve" /\ persistent' = persistent
      /\ dequant' = [dequant EXCEPT ![a] = NoDequant]
  BY CallNow DEF MissDequant
<1>2. /\ s \in Slots /\ Hold[s] = dequant[a].ptr
      /\ OfCopy(a) \in Slots \ {s, OfB(c)} /\ Hold[OfCopy(a)] = persistent[a].ptr
      /\ OfB(c) \in Slots \ {s} /\ Hold[OfB(c)] = NoBlock
  BY <1>1, HoldAt, SlotsDiffer DEF Hold, Stage, OwnB
<1>3. Good(h, d) /\ Kept(Hold, dev, h, d, {s})
  BY <1>1, <1>2, Drop DEF Evict
<1>4. /\ HoldOf(persistent', dequant', call) = h
      /\ dequant'[a].ptr = NoBlock
  <2>1. Update(dequant', dequant, a, NoDequant) /\ NoDequant.ptr = NoBlock /\ Over(dequant, Addr)
    BY <1>1 DEF Update, NoDequant, Over, Types
  <2>2. HoldOf(persistent, dequant', call) = [Hold EXCEPT ![s] = NoBlock]
    BY <1>1, <2>1, HoldDequant DEF Hold
  <2> QED  BY <1>1, <2>1, <2>2 DEF Types
<1>5. Copies(c, d)
  BY <1>1, <1>2, <1>3, <1>4 DEF Copies, Kept, Fresh
<1> HIDE DEF h, d
<1>6. CASE \E b \in Block :
              /\ d[b] = Free
              /\ dev' = [d EXCEPT ![b] = host[a].id]
              /\ call' = [call EXCEPT ![c].dB = b, ![c].pc = "insert"]
  <2>1. PICK b \in Block :
              /\ d[b] = Free
              /\ dev' = [d EXCEPT ![b] = host[a].id]
              /\ call' = [call EXCEPT ![c].dB = b, ![c].pc = "insert"]
    BY <1>6
  <2> DEFINE g == [h EXCEPT ![OfB(c)] = b]
             q == [call[c] EXCEPT !.dB = b, !.pc = "insert"]
  <2>2. h[OfB(c)] = NoBlock
    BY <1>2, <1>3 DEF Kept
  <2>3. Good(g, dev') /\ Kept(h, d, g, dev', {OfB(c)})
    BY <1>1, <1>2, <1>3, <2>1, <2>2, Take
  <2>4. Update(call', call, c, q)
    BY <1>1, <2>1 DEF CallSet, Update, Types
  <2>5. /\ q.dA = call[c].dA /\ q.dB = b /\ q.dC = NoBlock /\ q.pc = "insert"
        /\ q.addr = a /\ OwnB(q) = b /\ q \in CallSet
    BY <1>1 DEF CallSet, OwnB, Stage, AnyBlock
  <2>6. call'[c] = q /\ dev'[b] = host[a].id
    BY <1>1, <1>3, <2>1, <2>4 DEF Types, Update, Good
  <2> HIDE DEF q
  <2>7. HoldOf(persistent', dequant', call')
          = [HoldOf(persistent', dequant', call) EXCEPT ![OfB(c)] = OwnB(q)]
    <3>1. TypeInv /\ call[c].pc \in {"resolve", "insert"}
      BY <1>1
    <3> QED  BY <2>4, <2>5, <3>1, ResolvedHold
  <2>8. Hold' = g
    BY <1>4, <2>5, <2>7 DEF Hold
  <2> HIDE DEF g
  <2>9. Kept(Hold, dev, g, dev', {s} \cup {OfB(c)})
    BY <1>3, <2>3, KeptTwice
  <2>10. Kept(Hold, dev, Hold', dev', Touched(c))
    BY <2>8, <2>9 DEF Kept, Touched
  <2>11. Copies(c, dev')
    BY <1>1, <1>2, <1>4, <2>9 DEF Kept, Copies, Fresh
  <2>12. Local(c)
    BY <1>1, <1>4, <2>5, <2>6, <2>11 DEF Local
  <2> QED  BY <2>3, <2>8, <2>10, <2>12 DEF Moves
<1>7. CASE Return(c, d)
  <2>1. Kept(Hold, dev, h, d, Touched(c))
    BY <1>3 DEF Kept, Touched
  <2> QED  BY <1>1, <1>3, <1>4, <1>5, <1>7, <2>1, ReturnMoves
<1> QED  BY <1>6, <1>7 DEF MissDequant, d

LEMMA InsertDequantMoves ==
  ASSUME NEW c \in Context, Inv, ~damaged, InsertDequant(c)
  PROVE  Moves(c)
<1> DEFINE a == call[c].addr
           b == call[c].dB
           s == OfB(c)
           r == OfDequant(a)
           g == [Hold EXCEPT ![s] = NoBlock, ![r] = Hold[s]]
<1>1. /\ TypeInv /\ Types /\ Stage(c, call[c]) /\ call[c] \in CallSet /\ a \in Addr
      /\ Good(Hold, dev) /\ Fresh /\ Mapped(a) /\ host[a].id \in 0 .. MaxTensors
      /\ call[c].pc = "insert" /\ persistent' = persistent /\ dev' = dev
      /\ dev \in [Block -> -1 .. MaxTensors]
      /\ dequant' = [dequant EXCEPT ![a] = [ptr |-> b, type |-> host[a].type]]
      /\ Resolved(c, b, FALSE, dev) /\ FALSE \in BOOLEAN
  BY CallNow DEF InsertDequant
<1>2. b \in Block /\ dequant[a].ptr = NoBlock /\ dev[b] = host[a].id /\ host[a].type # "F32"
  BY <1>1 DEF Stage, Fresh
<1>3. /\ s \in Slots /\ r \in Slots /\ r # s /\ Hold[s] = b /\ Hold[r] = NoBlock
      /\ OfCopy(a) \in Slots \ {r, s} /\ Hold[OfCopy(a)] = persistent[a].ptr
  BY <1>1, <1>2, HoldAt, SlotsDiffer DEF Hold, OwnB
<1>4. Good(g, dev) /\ Kept(Hold, dev, g, dev, {r, s})
  BY <1>1, <1>3, Move
<1>5. PICK q \in CallSet : AfterLookup(c, b, FALSE, dev, q)
  BY <1>1, <1>2, ResolvedCall
<1>6. HoldOf(persistent, dequant', call) = [Hold EXCEPT ![r] = b]
  <2> DEFINE e == [ptr |-> b, type |-> host[a].type]
  <2>1. Update(dequant', dequant, a, e) /\ e.ptr = b /\ Over(dequant, Addr)
    BY <1>1 DEF Update, Over, Types
  <2> HIDE DEF e
  <2> QED  BY <1>1, <2>1, HoldDequant DEF Hold
<1>7. HoldOf(persistent, dequant', call') = [[Hold EXCEPT ![r] = b] EXCEPT ![s] = NoBlock]
  <2>1. HoldOf(persistent, dequant', call')
          = [HoldOf(persistent, dequant', call) EXCEPT ![s] = OwnB(q)]
    <3>1. TypeInv /\ call[c].pc \in {"resolve", "insert"}
      BY <1>1
    <3> QED  BY <1>5, <3>1, ResolvedHold DEF AfterLookup
  <2>2. OwnB(q) = NoBlock
    BY <1>5 DEF OwnB, AfterLookup
  <2> QED  BY <1>6, <2>1, <2>2
<1>8. Hold' = g
  BY <1>1, <1>3, <1>7 DEF Hold, Good
<1>9. /\ call'[c] = q /\ dequant'[a].ptr = b
  BY <1>1, <1>5 DEF Types, AfterLookup, Update
<1> HIDE DEF g
<1>10. Kept(Hold, dev, Hold', dev', Touched(c))
  BY <1>1, <1>4, <1>8 DEF Kept, Touched
<1>11. Local(c)
  BY <1>1, <1>2, <1>5, <1>9, DeviceAssumption DEF Local, Copies, Fresh, AfterLookup, Free
<1> QED  BY <1>1, <1>4, <1>8, <1>10, <1>11 DEF Moves

LEMMA AllocOutMoves ==
  ASSUME NEW c \in Context, Inv, ~damaged, AllocOut(c), ~damaged'
  PROVE  Moves(c)
<1> DEFINE a == call[c].addr
           s == OfC(c)
<1>1. /\ TypeInv /\ Types /\ Stage(c, call[c]) /\ call[c] \in CallSet /\ a \in Addr
      /\ Good(Hold, dev) /\ Fresh /\ call[c].pc = "out"
      /\ dequant' = dequant /\ persistent' = persistent
  BY CallNow DEF AllocOut, cacheVars
<1>2. CASE \E b \in Block :
              /\ dev[b] = Free /\ dev' = [dev EXCEPT ![b] = Scratch]
              /\ call' = [call EXCEPT ![c].dC = b, ![c].pc = "run"]
  <2>1. PICK b \in Block :
              /\ dev[b] = Free /\ dev' = [dev EXCEPT ![b] = Scratch]
              /\ call' = [call EXCEPT ![c].dC = b, ![c].pc = "run"]
    BY <1>2
  <2> DEFINE g == [Hold EXCEPT ![s] = b]
             q == [call[c] EXCEPT !.dC = b, !.pc = "run"]
  <2>2. /\ s \in Slots /\ Hold[s] = NoBlock
        /\ OfB(c) \in Slots \ {s} /\ Hold[OfB(c)] = OwnB(call[c])
        /\ OfCopy(a) \in Slots \ {s} /\ Hold[OfCopy(a)] = persistent[a].ptr
        /\ OfDequant(a) \in Slots \ {s} /\ Hold[OfDequant(a)] = dequant[a].ptr
    BY <1>1, HoldAt, SlotsDiffer DEF Hold, Stage
  <2>3. Scratch \in 0 .. MaxTensors
    BY DeviceAssumption DEF Scratch
  <2>4. Good(g, dev') /\ Kept(Hold, dev, g, dev', {s})
    BY <1>1, <2>1, <2>2, <2>3, Take
  <2>5. Update(call', call, c, q)
    BY <1>1, <2>1 DEF CallSet, Update, Types
  <2>6. /\ q.dA = call[c].dA /\ q.dB = call[c].dB /\ q.dC = b /\ q.pc = "run"
        /\ q.addr = a /\ q.temp = call[c].temp /\ q.cut = call[c].cut /\ q.got = call[c].got
        /\ OwnB(q) = OwnB(call[c])
    BY <1>1 DEF CallSet, OwnB
  <2>7. call'[c] = q
    BY <1>1, <2>5 DEF Types, Update
  <2> HIDE DEF q
  <2>8. HoldOf(persistent, dequant, call') = WithCall(Hold, c, q)
    <3>1. Over(call, Context)
      BY <1>1 DEF Types, Over
    <3> QED  BY <2>5, <3>1, HoldCall DEF Hold
  <2>9. Hold[OfA(c)] = q.dA /\ Hold[OfB(c)] = OwnB(q) /\ OfA(c) \in Slots
    BY <2>2, <2>6, HoldAt DEF Hold
  <2>10. WithCall(Hold, c, q) = g
    <3>1. \A r \in Slots : WithCall(Hold, c, q)[r] = g[r]
      BY <1>1, <2>2, <2>6, <2>9, SlotsDiffer DEF WithCall, Good
    <3>2. Over(g, Slots) /\ Over(WithCall(Hold, c, q), Slots)
      BY <1>1 DEF Over, WithCall, Good
    <3> HIDE DEF g
    <3> QED  BY <3>1, <3>2 DEF Over
  <2>11. Hold' = g
    BY <1>1, <2>8, <2>10 DEF Hold
  <2> HIDE DEF g
  <2>12. Kept(Hold, dev, Hold', dev', Touched(c))
    BY <2>4, <2>11 DEF Kept, Touched
  <2>13. Copies(c, dev')
    BY <1>1, <2>2, <2>4 DEF Kept, Copies, Fresh
  <2>14. ASSUME ~q.cut
         PROVE  /\ q.temp \/ q.dB \in {persistent[a].ptr, dequant[a].ptr}
                /\ dev'[q.dB] = q.got /\ q.got # Free
    <3>1. /\ call[c].temp \/ call[c].dB \in {persistent[a].ptr, dequant[a].ptr}
          /\ dev[call[c].dB] = call[c].got /\ call[c].got # Free
      BY <1>1, <2>6, <2>14 DEF Inv, Operands
    <3>2. call[c].dB # NoBlock
      BY <1>1, DeviceAssumption DEF Stage
    <3>3. dev'[call[c].dB] = dev[call[c].dB]
      BY <2>2, <2>4, <3>1, <3>2 DEF Kept, OwnB
    <3> QED  BY <2>6, <3>1, <3>3
  <2>15. Local(c)
    BY <1>1, <2>6, <2>7, <2>13, <2>14 DEF Local
  <2> QED  BY <2>4, <2>11, <2>12, <2>15 DEF Moves
<1>3. CASE Return(c, dev)
  BY <1>1, <1>3, RunMoves DEF cacheVars
<1>4. CASE damaged' = TRUE
  BY <1>4
<1> QED  BY <1>2, <1>3, <1>4 DEF AllocOut

LEMMA BackendMoves ==
  ASSUME NEW c \in Context, Inv, ~damaged, BackendStep(c), ~damaged'
  PROVE  /\ Moves(c) /\ call[c].pc # "idle" /\ stepFrame' = stepFrame
         /\ \A x \in Context \ {c} : call'[x] = call[x]
<1>1. call \in [Context -> CallSet]
  BY DEF Inv, TypeInv, Types
<1>2. ASSUME NEW b, NEW temp, NEW d, Resolved(c, b, temp, d)
      PROVE  \A x \in Context \ {c} : call'[x] = call[x]
  BY <1>1, <1>2 DEF Resolved
<1>3. ASSUME NEW d, Return(c, d)
      PROVE  \A x \in Context \ {c} : call'[x] = call[x]
  BY <1>1, <1>3 DEF Return
<1>4. CASE UseCopy(c)
  BY <1>2, <1>4, UseCopyMoves DEF UseCopy
<1>5. CASE Upload(c)
  <2>1. \A x \in Context \ {c} : call'[x] = call[x]
    <3>1. CASE call' = [call EXCEPT ![c].long = FALSE]
      BY <1>1, <3>1
    <3> QED  BY <1>2, <1>3, <1>5, <3>1 DEF Upload
  <2> QED  BY <1>5, <2>1, UploadMoves DEF Upload
<1>6. CASE CopyOnce(c)
  BY <1>2, <1>3, <1>6, CopyOnceMoves DEF CopyOnce
<1>7. CASE UseDequant(c)
  BY <1>2, <1>7, UseDequantMoves DEF UseDequant
<1>8. CASE MissDequant(c)
  BY <1>1, <1>3, <1>8, MissDequantMoves DEF MissDequant
<1>9. CASE InsertDequant(c)
  BY <1>2, <1>9, InsertDequantMoves DEF InsertDequant
<1>10. CASE AllocOut(c)
  BY <1>1, <1>3, <1>10, AllocOutMoves DEF AllocOut
<1>11. CASE Run(c)
  BY <1>3, <1>11, RunMoves DEF Run
<1> QED  BY <1>4, <1>5, <1>6, <1>7, <1>8, <1>9, <1>10, <1>11 DEF BackendStep

(* The second free of the strided product reaches its own matrix and its   *)
(* own first operand: the operand of another call is that very matrix, and *)
(* the call is cut, or a block in another slot.                            *)
LEMMA SecondFree ==
  ASSUME NEW c \in Context, Inv, ~damaged, BackendStep(c), damaged'
  PROVE  OperandsStay'
<1> DEFINE q == call[c]
           k == Cut({q.dB})
<1>1. /\ AllocOut(c) /\ q.pc = "out" /\ call' = [k EXCEPT ![c] = Idle]
      /\ dev' = FreeTemporaries(Release1(dev, q.dB), q)
  BY DEF BackendStep, UseCopy, Upload, CopyOnce, UseDequant, MissDequant, InsertDequant,
         AllocOut, Run
<1>2. /\ TypeInv /\ Types /\ Stage(c, q) /\ Good(Hold, dev)
      /\ dev \in [Block -> -1 .. MaxTensors]
      /\ k \in [Context -> CallSet] /\ \A x \in Context : CutIn({q.dB}, x, k[x])
  BY GoodNow, CutCalls DEF Inv, TypeInv, Types, Stages
<1>3. ASSUME NEW b \in Block, b # q.dB, b # q.dA
      PROVE  dev'[b] = dev[b]
  <2>1. q.dC = NoBlock /\ (IF q.temp THEN q.dB ELSE NoBlock) \in {q.dB, NoBlock}
    BY <1>1, <1>2 DEF Stage
  <2>2. \A d \in [Block -> -1 .. MaxTensors], y \in {q.dA, q.dB, NoBlock} :
          Release1(d, y)[b] = d[b]
    BY <1>3 DEF Release1
  <2>3. \A d \in [Block -> -1 .. MaxTensors], y \in AnyBlock :
          Release1(d, y) \in [Block -> -1 .. MaxTensors]
    BY Heap
  <2>4. {q.dA, q.dB, NoBlock} \subseteq AnyBlock
    BY <1>2 DEF Types, CallSet, AnyBlock
  <2> DEFINE m == IF q.temp THEN q.dB ELSE NoBlock
             d1 == Release1(dev, q.dB)
             d2 == Release1(d1, q.dA)
             d3 == Release1(d2, q.dC)
  <2>5. dev' = Release1(d3, m)
    BY <1>1 DEF FreeTemporaries
  <2>6. m \in {q.dA, q.dB, NoBlock} /\ q.dC \in {q.dA, q.dB, NoBlock}
    BY <2>1
  <2> HIDE DEF q, m
  <2>7. d1 \in [Block -> -1 .. MaxTensors] /\ d1[b] = dev[b]
    BY <1>2, <2>2, <2>3, <2>4
  <2> HIDE DEF d1
  <2>8. d2 \in [Block -> -1 .. MaxTensors] /\ d2[b] = dev[b]
    BY <2>2, <2>3, <2>4, <2>7
  <2> HIDE DEF d2
  <2>9. d3 \in [Block -> -1 .. MaxTensors] /\ d3[b] = dev[b]
    BY <2>2, <2>3, <2>4, <2>6, <2>8
  <2> HIDE DEF d3
  <2> QED  BY <2>2, <2>5, <2>6, <2>9
<1> SUFFICES ASSUME NEW x \in Context, call'[x].pc \in {"out", "run"}, ~call'[x].cut
             PROVE  dev'[call'[x].dB] = call'[x].got /\ call'[x].got # Free
  BY DEF OperandsStay
<1>4. x # c /\ call'[x] = k[x]
  BY <1>1, <1>2, IdleCall
<1>5. CutIn({q.dB}, x, call'[x])
  BY <1>2, <1>4
<1>6. call'[x] = call[x] /\ call[x].dB # q.dB
  BY <1>5 DEF CutIn
<1>7. /\ call[x].temp \/ call[x].dB \in {persistent[call[x].addr].ptr, dequant[call[x].addr].ptr}
      /\ dev[call[x].dB] = call[x].got /\ call[x].got # Free
  BY <1>6 DEF Inv, Operands
<1>8. call[x].dB \in Block /\ call[x].addr \in Addr /\ call[x].dB # NoBlock
  BY <1>2, <1>6, DeviceAssumption DEF TypeInv, Types, Stages, Stage
<1>9. PICK s \in Slots : Hold[s] = call[x].dB /\ s # OfA(c)
  <2>1. CASE call[x].temp
    <3>1. OfB(x) \in Slots /\ OfB(x) # OfA(c) /\ Hold[OfB(x)] = call[x].dB
      BY <2>1, HoldAt, SlotsDiffer DEF Hold, OwnB
    <3> QED  BY <3>1
  <2>2. CASE call[x].dB \in {persistent[call[x].addr].ptr, dequant[call[x].addr].ptr}
    <3> DEFINE a == call[x].addr
    <3>1. /\ OfCopy(a) \in Slots /\ OfCopy(a) # OfA(c) /\ Hold[OfCopy(a)] = persistent[a].ptr
          /\ OfDequant(a) \in Slots /\ OfDequant(a) # OfA(c) /\ Hold[OfDequant(a)] = dequant[a].ptr
      BY <1>8, HoldAt, SlotsDiffer DEF Hold
    <3> QED  BY <2>2, <3>1
  <2> QED  BY <1>7, <2>1, <2>2
<1>10. OfA(c) \in Slots /\ Hold[OfA(c)] = q.dA
  BY HoldAt DEF Hold
<1>11. call[x].dB # q.dA
  BY <1>2, <1>8, <1>9, <1>10 DEF Good, Owned
<1> QED  BY <1>3, <1>6, <1>7, <1>8, <1>11

LEMMA BackendInv ==
  ASSUME NEW c \in Context, Inv, ~damaged, BackendStep(c)
  PROVE  Inv'
<1>1. TypeInv /\ TypeInv'
  BY BackendTypes DEF Inv
<1>0. (Owned(Hold, dev) /\ Fresh /\ Operands /\ EmptyAtRest)' /\ ~damaged' => Inv'
  BY <1>1 DEF Inv, Operands, OperandsStay
<1> SUFFICES ASSUME ~damaged'
             PROVE  (Owned(Hold, dev) /\ Fresh /\ Operands /\ EmptyAtRest)'
  BY <1>0, <1>1, SecondFree DEF Inv
<1> DEFINE a == call[c].addr
<1>2. /\ Moves(c) /\ call[c].pc # "idle"
      /\ \A x \in Context \ {c} : call'[x] = call[x]
      /\ host' = host /\ freedCached' = freedCached /\ own' = own /\ key' = key /\ phase' = phase
  BY BackendMoves DEF stepFrame, hostVars, ctxVars
<1>3. /\ Stage(c, call[c]) /\ a \in Addr /\ Mapped(a) /\ Fresh /\ Operands
      /\ Running(c) /\ a \in own[c] \cup key[c] /\ Names(c)
  BY <1>2, CallNow DEF Inv, Stage, TypeInv, Apart
<1>4. Good(Hold', dev') /\ Kept(Hold, dev, Hold', dev', Touched(c)) /\ Local(c) /\ Copies(c, dev')
  BY <1>2 DEF Moves, Local
<1>5. ASSUME NEW x \in Addr, x # a
      PROVE  /\ persistent'[x].ptr = persistent[x].ptr /\ dequant'[x].ptr = dequant[x].ptr
             /\ persistent[x].ptr # NoBlock => dev'[persistent[x].ptr] = dev[persistent[x].ptr]
             /\ dequant[x].ptr # NoBlock => dev'[dequant[x].ptr] = dev[dequant[x].ptr]
  <2>1. OfCopy(x) \in Slots \ Touched(c) /\ OfDequant(x) \in Slots \ Touched(c)
    BY <1>3, <1>5, HoldAt, SlotsDiffer DEF Touched
  <2>2. /\ Hold[OfCopy(x)] = persistent[x].ptr /\ Hold'[OfCopy(x)] = persistent'[x].ptr
        /\ Hold[OfDequant(x)] = dequant[x].ptr /\ Hold'[OfDequant(x)] = dequant'[x].ptr
    BY HoldAt DEF Hold
  <2> QED  BY <1>4, <2>1, <2>2 DEF Kept
<1>6. ASSUME NEW x \in Context, x # c
      PROVE  OwnB(call[x]) # NoBlock => dev'[OwnB(call[x])] = dev[OwnB(call[x])]
  <2>1. OfB(x) \in Slots \ Touched(c)
    BY <1>3, <1>6, HoldAt, SlotsDiffer DEF Touched
  <2>2. Hold[OfB(x)] = OwnB(call[x])
    BY HoldAt DEF Hold
  <2> QED  BY <1>4, <2>1, <2>2 DEF Kept
<1>7. ASSUME NEW x \in Context, x # c, call[x].pc # "idle"
      PROVE  call[x].addr \in Addr /\ call[x].addr # a
  BY <1>3, <1>7 DEF Inv, TypeInv, Types, Stages, Stage, Apart
<1>8. Fresh'
  <2>1. ASSUME NEW x \in Addr, persistent'[x].ptr # NoBlock
        PROVE  x \in freedCached \/ (Mapped(x) /\ dev'[persistent'[x].ptr] = host[x].id)
    BY <1>3, <1>4, <1>5, <2>1 DEF Fresh, Copies
  <2>2. ASSUME NEW x \in Addr, dequant'[x].ptr # NoBlock
        PROVE  /\ Mapped(x) /\ host[x].type # "F32" /\ dev'[dequant'[x].ptr] = host[x].id
               /\ \E y \in Context : Running(y) /\ x \in own[y]
    <3>1. CASE x = a
      BY <1>3, <1>4, <2>2, <3>1 DEF Copies, Names
    <3>2. CASE x # a
      BY <1>3, <1>5, <2>2, <3>2 DEF Fresh
    <3> QED  BY <3>1, <3>2
  <2>3. ASSUME NEW x \in Context, call'[x].pc = "insert"
        PROVE  /\ dev'[call'[x].dB] = host[call'[x].addr].id
               /\ dequant'[call'[x].addr].ptr = NoBlock
    <3>1. CASE x = c
      BY <1>4, <2>3, <3>1 DEF Local
    <3>2. CASE x # c
      <4>1. call'[x] = call[x] /\ call[x].pc = "insert"
        BY <1>2, <2>3, <3>2
      <4>2. OwnB(call[x]) = call[x].dB /\ call[x].dB # NoBlock
        BY <1>1, <4>1, DeviceAssumption DEF TypeInv, Stages, Stage, OwnB
      <4> QED  BY <1>3, <1>5, <1>6, <1>7, <3>2, <4>1, <4>2 DEF Fresh
    <3> QED  BY <3>1, <3>2
  <2> QED  BY <1>2, <2>1, <2>2, <2>3 DEF Fresh, Mapped, Running
<1>9. Operands'
  <2> SUFFICES ASSUME NEW x \in Context, call'[x].pc \in {"out", "run"}, ~call'[x].cut
               PROVE  /\ \/ call'[x].temp
                         \/ call'[x].dB \in {persistent'[call'[x].addr].ptr,
                                            dequant'[call'[x].addr].ptr}
                      /\ dev'[call'[x].dB] = call'[x].got /\ call'[x].got # Free
    BY DEF Operands
  <2>1. CASE x = c
    BY <1>4, <2>1 DEF Local
  <2>2. CASE x # c
    <3>1. call'[x] = call[x] /\ call[x].pc \in {"out", "run"} /\ ~call[x].cut
      BY <1>2, <2>2
    <3>2. /\ call[x].temp \/ call[x].dB \in {persistent[call[x].addr].ptr, dequant[call[x].addr].ptr}
          /\ dev[call[x].dB] = call[x].got /\ call[x].got # Free
      BY <1>3, <3>1 DEF Operands
    <3>3. call[x].dB # NoBlock
      BY <1>1, <3>1, DeviceAssumption DEF TypeInv, Stages, Stage
    <3>4. call[x].addr \in Addr /\ call[x].addr # a
      BY <1>7, <2>2, <3>1
    <3>5. CASE call[x].temp
      BY <1>6, <2>2, <3>1, <3>2, <3>3, <3>5 DEF OwnB
    <3>6. CASE call[x].dB \in {persistent[call[x].addr].ptr, dequant[call[x].addr].ptr}
      BY <1>5, <3>1, <3>2, <3>3, <3>4, <3>6
    <3> QED  BY <3>2, <3>5, <3>6
  <2> QED  BY <2>1, <2>2
<1>10. EmptyAtRest'
  BY <1>2, <1>3 DEF EmptyAtRest, Running
<1> QED  BY <1>4, <1>8, <1>9, <1>10 DEF Good

-----------------------------------------------------------------------------
(* Steps of a context                                                      *)

(* A step that leaves the caches alone, takes at most a block for the      *)
(* first operand of a call, and notes the cached addresses it frees.       *)
Quiet(c) ==
  /\ persistent' = persistent /\ dequant' = dequant
  /\ Good(Hold', dev') /\ Kept(Hold, dev, Hold', dev', {OfA(c)})
  /\ call'[c].pc \in {"idle", "resolve"}
  /\ freedCached \subseteq freedCached'
  /\ \A a \in Addr : Mapped(a) /\ host'[a] # host[a] /\ persistent[a].ptr # NoBlock
                      => a \in freedCached'
  /\ \A a \in Addr : dequant[a].ptr # NoBlock =>
       host'[a] = host[a] /\ \A y \in Context : Running(y) /\ a \in own[y] => a \in own'[y]
  /\ \A y \in Context : Running(y) => Running(y)'

LEMMA QuietInv ==
  ASSUME NEW c \in Context, Inv, ~damaged, TypeInv', OthersKept(c), Quiet(c)
  PROVE  Inv'
<1>1. /\ TypeInv /\ Fresh /\ Operands /\ EmptyAtRest
      /\ persistent' = persistent /\ dequant' = dequant
      /\ Good(Hold', dev') /\ Kept(Hold, dev, Hold', dev', {OfA(c)})
  BY DEF Inv, Quiet
<1>2. ASSUME NEW a \in Addr
      PROVE  /\ persistent[a].ptr # NoBlock => dev'[persistent[a].ptr] = dev[persistent[a].ptr]
             /\ dequant[a].ptr # NoBlock => dev'[dequant[a].ptr] = dev[dequant[a].ptr]
  <2>1. /\ OfCopy(a) \in Slots \ {OfA(c)} /\ Hold[OfCopy(a)] = persistent[a].ptr
        /\ OfDequant(a) \in Slots \ {OfA(c)} /\ Hold[OfDequant(a)] = dequant[a].ptr
    BY HoldAt, SlotsDiffer DEF Hold
  <2> QED  BY <1>1, <2>1 DEF Kept
<1>3. ASSUME NEW x \in Context
      PROVE  OwnB(call[x]) # NoBlock => dev'[OwnB(call[x])] = dev[OwnB(call[x])]
  <2>1. OfB(x) \in Slots \ {OfA(c)} /\ Hold[OfB(x)] = OwnB(call[x])
    BY HoldAt, SlotsDiffer DEF Hold
  <2> QED  BY <1>1, <2>1 DEF Kept
<1>4. ASSUME NEW x \in Context, call'[x].pc \notin {"idle", "resolve"}
      PROVE  /\ x # c /\ call'[x] = call[x] /\ Stage(x, call[x])
             /\ \A a \in own[x] \cup key[x] : host'[a] = host[a]
  BY <1>1, <1>4 DEF Quiet, OthersKept, TypeInv, Stages
<1>5. Fresh'
  <2>1. ASSUME NEW a \in Addr, persistent'[a].ptr # NoBlock
        PROVE  a \in freedCached' \/ (host'[a].id # 0 /\ dev'[persistent'[a].ptr] = host'[a].id)
    BY <1>1, <1>2, <2>1 DEF Fresh, Quiet, Mapped
  <2>2. ASSUME NEW a \in Addr, dequant'[a].ptr # NoBlock
        PROVE  /\ host'[a].id # 0 /\ host'[a].type # "F32"
               /\ dev'[dequant'[a].ptr] = host'[a].id
    BY <1>1, <1>2, <2>2 DEF Fresh, Quiet, Mapped
  <2>3. ASSUME NEW a \in Addr, dequant'[a].ptr # NoBlock
        PROVE  \E y \in Context : Running(y)' /\ a \in own'[y]
    BY <1>1, <2>3 DEF Fresh, Quiet
  <2>4. ASSUME NEW x \in Context, call'[x].pc = "insert"
        PROVE  /\ dev'[call'[x].dB] = host'[call'[x].addr].id
               /\ dequant'[call'[x].addr].ptr = NoBlock
    <3>1. /\ call'[x] = call[x] /\ Stage(x, call[x]) /\ call[x].pc = "insert"
          /\ \A a \in own[x] \cup key[x] : host'[a] = host[a]
      BY <1>4, <2>4
    <3>2. OwnB(call[x]) = call[x].dB /\ call[x].dB # NoBlock /\ call[x].addr \in own[x]
      BY <3>1, DeviceAssumption DEF Stage, OwnB
    <3> QED  BY <1>1, <1>3, <3>1, <3>2 DEF Fresh
  <2> QED  BY <2>1, <2>2, <2>3, <2>4 DEF Fresh, Mapped
<1>6. Operands'
  <2> SUFFICES ASSUME NEW x \in Context, call'[x].pc \in {"out", "run"}, ~call'[x].cut
               PROVE  /\ \/ call'[x].temp
                         \/ call'[x].dB \in {persistent'[call'[x].addr].ptr,
                                            dequant'[call'[x].addr].ptr}
                      /\ dev'[call'[x].dB] = call'[x].got /\ call'[x].got # Free
    BY DEF Operands
  <2>1. call'[x] = call[x] /\ Stage(x, call[x]) /\ call[x].pc \in {"out", "run"} /\ ~call[x].cut
    BY <1>4
  <2>2. /\ call[x].temp \/ call[x].dB \in {persistent[call[x].addr].ptr, dequant[call[x].addr].ptr}
        /\ dev[call[x].dB] = call[x].got /\ call[x].got # Free
    BY <1>1, <2>1 DEF Operands
  <2>3. call[x].dB # NoBlock /\ call[x].addr \in Addr
    BY <1>1, <2>1, DeviceAssumption DEF Stage, TypeInv, Types
  <2>4. CASE call[x].temp
    BY <1>3, <2>1, <2>2, <2>3, <2>4 DEF OwnB
  <2>5. CASE call[x].dB \in {persistent[call[x].addr].ptr, dequant[call[x].addr].ptr}
    BY <1>1, <1>2, <2>1, <2>2, <2>3, <2>5
  <2> QED  BY <2>2, <2>4, <2>5
<1>7. EmptyAtRest'
  BY <1>1 DEF EmptyAtRest, Quiet
<1>8. OperandsStay'
  BY <1>6 DEF Operands, OperandsStay
<1> QED  BY <1>1, <1>5, <1>6, <1>7, <1>8 DEF Inv, Good

LEMMA ReleaseInv ==
  ASSUME NEW c \in Context, Inv, ~damaged, Release(c), TypeInv'
  PROVE  Inv'
<1> USE DEF Release
<1>1. /\ TypeInv /\ Good(Hold, dev) /\ Fresh
      /\ \A a \in Addr : persistent'[a].ptr = NoBlock /\ dequant'[a].ptr = NoBlock
      /\ host' = host
  BY GoodNow DEF Inv, NoEntry, NoDequant, hostVars
<1>2. ASSUME NEW x \in Context
      PROVE  /\ call'[x].pc = call[x].pc /\ call'[x].dA = call[x].dA /\ call'[x].dB = call[x].dB
             /\ call'[x].dC = call[x].dC /\ call'[x].addr = call[x].addr
             /\ OwnB(call'[x]) = OwnB(call[x])
             /\ call'[x].temp = call[x].temp /\ call'[x].got = call[x].got
             /\ call'[x].cut \/ (~call[x].cut /\ ~(/\ call[x].pc \in {"out", "run"}
                                                 /\ call[x].dB \in Cached))
  <2>1. CutIn(Cached, x, call'[x])
    BY <1>1, CutCalls
  <2>2. SameButCut(call[x], call'[x])
    BY <2>1 DEF CutIn
  <2>3. call'[x].cut \/ (~call[x].cut /\ ~(/\ call[x].pc \in {"out", "run"}
                                          /\ call[x].dB \in Cached))
    BY <2>1 DEF CutIn
  <2> QED  BY <2>2, <2>3 DEF SameButCut, OwnB
<1>3. \A b \in Block : dev'[b] = IF b \in Cached THEN Free ELSE dev[b]
  OBVIOUS
<1> HIDE DEF Release
<1>4. ASSUME NEW s \in Slots
      PROVE  \/ /\ \E a \in Addr : s = OfCopy(a) \/ s = OfDequant(a)
                /\ Hold'[s] = NoBlock
             \/ /\ Hold'[s] = Hold[s]
                /\ Hold[s] # NoBlock => Hold[s] \notin Cached
  <2>1. CASE \E a \in Addr : s = OfCopy(a) \/ s = OfDequant(a)
    BY <1>1, <2>1, HoldAt DEF Hold
  <2>2. CASE \E x \in Context : s = OfA(x) \/ s = OfB(x) \/ s = OfC(x)
    <3>1. PICK x \in Context : s = OfA(x) \/ s = OfB(x) \/ s = OfC(x)
      BY <2>2
    <3>2. Hold'[s] = Hold[s]
      <4>1. /\ Hold[OfA(x)] = call[x].dA /\ Hold[OfC(x)] = call[x].dC
            /\ Hold[OfB(x)] = OwnB(call[x])
        BY HoldAt DEF Hold
      <4>2. /\ Hold'[OfA(x)] = call'[x].dA /\ Hold'[OfC(x)] = call'[x].dC
            /\ Hold'[OfB(x)] = OwnB(call'[x])
        BY HoldAt DEF Hold
      <4> QED  BY <1>2, <3>1, <4>1, <4>2
    <3>3. ASSUME Hold[s] # NoBlock, Hold[s] \in Cached  PROVE FALSE
      <4>1. PICK a \in Addr : Hold[s] = Hold[OfCopy(a)] \/ Hold[s] = Hold[OfDequant(a)]
        BY <3>3, HoldAt DEF Cached, Hold
      <4>2. s = OfCopy(a) \/ s = OfDequant(a)
        BY <1>1, <3>3, <4>1, HoldAt DEF Good, Owned
      <4> QED  BY <3>1, <4>2, SlotsDiffer
    <3> QED  BY <3>2, <3>3
  <2> QED  BY <2>1, <2>2, SlotForms
<1>5. Owned(Hold', dev')
  <2>1. \A s \in Slots : Hold'[s] # NoBlock => Hold'[s] \in Block /\ dev'[Hold'[s]] # Free
    BY <1>1, <1>4, <1>3 DEF Good, Owned
  <2>2. \A r, s \in Slots : Hold'[r] = Hold'[s] /\ Hold'[r] # NoBlock => r = s
    BY <1>1, <1>4 DEF Good, Owned
  <2>3. ASSUME NEW b \in Block, dev'[b] # Free
        PROVE  \E s \in Slots : Hold'[s] = b
    <3>1. b \notin Cached /\ dev[b] # Free
      BY <1>3, <2>3
    <3>2. PICK s \in Slots : Hold[s] = b
      BY <1>1, <3>1 DEF Good, Owned
    <3>3. \A a \in Addr : s # OfCopy(a) /\ s # OfDequant(a)
      BY <3>1, <3>2, HoldAt DEF Hold, Cached
    <3> QED  BY <1>4, <3>2, <3>3
  <2> QED  BY <2>1, <2>2, <2>3 DEF Owned
<1>6. Fresh'
  <2>1. ASSUME NEW x \in Context, call'[x].pc = "insert"
        PROVE  dev'[call'[x].dB] = host'[call'[x].addr].id
    <3>1. call[x].pc = "insert" /\ call[x].dB \in Block /\ call[x].addr \in Addr
      BY <1>1, <1>2, <2>1 DEF TypeInv, Types, Stages, Stage
    <3>2. OfB(x) \in Slots /\ Hold[OfB(x)] = call[x].dB /\ call[x].dB # NoBlock
          /\ \A a \in Addr : OfB(x) # OfCopy(a) /\ OfB(x) # OfDequant(a)
      BY <3>1, HoldAt, SlotsDiffer, DeviceAssumption DEF Hold, OwnB
    <3>3. call[x].dB \notin Cached
      BY <1>4, <3>2
    <3> QED  BY <1>1, <1>2, <1>3, <3>1, <3>3 DEF Fresh
  <2>2. \A x \in Context : call'[x].pc = "insert" => dequant'[call'[x].addr].ptr = NoBlock
    BY <1>1, <1>2 DEF TypeInv, Types, Stages, Stage
  <2> QED  BY <1>1, <2>1, <2>2 DEF Fresh
<1>7. Operands'
  <2> SUFFICES ASSUME NEW x \in Context, call'[x].pc \in {"out", "run"}, ~call'[x].cut
               PROVE  call'[x].temp /\ dev'[call'[x].dB] = call'[x].got /\ call'[x].got # Free
    BY DEF Operands
  <2>1. /\ call[x].pc \in {"out", "run"} /\ ~call[x].cut /\ call[x].dB \notin Cached
        /\ call'[x].temp = call[x].temp /\ call'[x].got = call[x].got /\ call'[x].dB = call[x].dB
    BY <1>2
  <2>2. /\ call[x].temp \/ call[x].dB \in {persistent[call[x].addr].ptr, dequant[call[x].addr].ptr}
        /\ dev[call[x].dB] = call[x].got /\ call[x].got # Free
    BY <2>1 DEF Inv, Operands
  <2>3. call[x].dB \in Block /\ call[x].addr \in Addr
    BY <1>1, <2>1 DEF TypeInv, Types, Stages, Stage
  <2>4. call[x].temp
    BY <2>1, <2>2, <2>3 DEF Cached
  <2> QED  BY <1>3, <2>1, <2>2, <2>3, <2>4
<1>8. EmptyAtRest'
  BY <1>1 DEF EmptyAtRest
<1>9. OperandsStay'
  BY <1>7 DEF Operands, OperandsStay
<1> QED  BY <1>5, <1>6, <1>7, <1>8, <1>9 DEF Inv

LEMMA ContextInv ==
  ASSUME NEW c \in Context, Inv, ~damaged, ContextStep(c)
  PROVE  Inv'
<1>1. TypeInv' /\ (OthersKept(c) \/ Release(c))
  BY ContextTypes DEF Inv
<1>2. /\ TypeInv /\ Types /\ Good(Hold, dev) /\ Fresh /\ Stage(c, call[c]) /\ Names(c)
      /\ call[c] \in CallSet
  BY GoodNow DEF Inv, TypeInv, Stages, Apart, Types
<1>3. CASE Release(c)
  BY <1>1, <1>3, ReleaseInv
<1>4. SUFFICES ASSUME ~Release(c)  PROVE Quiet(c)
  BY <1>1, <1>3, QuietInv
<1>5. ASSUME call' = call, dev' = dev, persistent' = persistent, dequant' = dequant
      PROVE  Good(Hold', dev') /\ Kept(Hold, dev, Hold', dev', {OfA(c)})
  BY <1>2, <1>5 DEF Hold, Kept
<1>6. ASSUME NEW a \in Addr, NEW op \in {"preload", "product", "strided", "rows", "scores"},
             NEW long \in BOOLEAN, Enter(c, op, a, long), UNCHANGED cacheVars
      PROVE  /\ Good(Hold', dev') /\ Kept(Hold, dev, Hold', dev', {OfA(c)})
             /\ call'[c].pc = "resolve"
  <2>1. PICK q \in CallSet :
           /\ call' = [call EXCEPT ![c] = q]
           /\ q.pc = "resolve" /\ q.op = op /\ q.addr = a
           /\ q.dB = NoBlock /\ q.dC = NoBlock /\ ~q.temp /\ ~q.cut
           /\ \/ op = "preload" /\ q.dA = NoBlock /\ dev' = dev
              \/ op # "preload" /\ \E b \in Block :
                   q.dA = b /\ dev[b] = Free /\ dev' = [dev EXCEPT ![b] = Scratch]
    BY <1>2, <1>6, Entered
  <2>2. call[c] = Idle
    BY <1>2, <1>6 DEF Enter, Stage
  <2>3. /\ OfA(c) \in Slots /\ Hold[OfA(c)] = NoBlock
        /\ OfB(c) \in Slots /\ Hold[OfB(c)] = NoBlock
        /\ OfC(c) \in Slots /\ Hold[OfC(c)] = NoBlock
    BY <2>2, HoldAt, IdleCall DEF Hold
  <2>4. Hold' = [Hold EXCEPT ![OfA(c)] = q.dA]
    <3> DEFINE g == [Hold EXCEPT ![OfA(c)] = q.dA]
               w == WithCall(Hold, c, q)
    <3>1. Update(call', call, c, q) /\ Over(call, Context)
      BY <1>2, <2>1 DEF Update, Over, Types
    <3>2. HoldOf(persistent, dequant, call') = w
      BY <3>1, HoldCall DEF Hold
    <3>3. OwnB(q) = NoBlock
      BY <2>1 DEF OwnB
    <3>4. \A r \in Slots : w[r] = g[r]
      BY <1>2, <2>1, <2>3, <3>3, SlotsDiffer DEF WithCall, Good
    <3>5. Over(g, Slots) /\ Over(w, Slots)
      BY <1>2 DEF Over, WithCall, Good
    <3> HIDE DEF g, w
    <3>6. w = g
      BY <3>4, <3>5 DEF Over
    <3> QED  BY <1>6, <3>2, <3>6 DEF Hold, cacheVars, g
  <2>5. call'[c].pc = "resolve"
    BY <1>2, <2>1 DEF Types
  <2>6. CASE q.dA = NoBlock /\ dev' = dev
    <3>1. Hold' = Hold
      BY <1>2, <2>3, <2>4, <2>6 DEF Good
    <3> QED  BY <1>2, <2>5, <2>6, <3>1 DEF Kept
  <2>7. CASE \E b \in Block : q.dA = b /\ dev[b] = Free /\ dev' = [dev EXCEPT ![b] = Scratch]
    <3>1. PICK b \in Block : q.dA = b /\ dev[b] = Free /\ dev' = [dev EXCEPT ![b] = Scratch]
      BY <2>7
    <3> DEFINE g == [Hold EXCEPT ![OfA(c)] = b]
               e == [dev EXCEPT ![b] = Scratch]
    <3>2. Scratch \in 0 .. MaxTensors
      BY DeviceAssumption DEF Scratch
    <3>3. Good(g, e) /\ Kept(Hold, dev, g, e, {OfA(c)})
      BY <1>2, <2>3, <3>1, <3>2, Take
    <3>4. Hold' = g /\ dev' = e
      BY <2>4, <3>1
    <3> HIDE DEF g, e
    <3> QED  BY <2>5, <3>3, <3>4
  <2> QED  BY <2>1, <2>6, <2>7
<1> USE DEF cacheVars, modeVars, hostVars, ctxVars
<1>7. \A y \in Context : phase'[y] = IF y = c THEN phase'[c] ELSE phase[y]
  BY <1>1, <1>4 DEF OthersKept
<1>8. CASE Open(c)
  BY <1>2, <1>5, <1>7, <1>8 DEF Open, Quiet, Running, Stage, Types, CallSet
<1>9. CASE EndLoading(c)
  BY <1>2, <1>5, <1>7, <1>9 DEF EndLoading, Quiet, Running, Types
<1>10. CASE FreeKey(c)
  <2> USE <1>10 DEF FreeKey, Ready
  <2>1. \A a \in Addr : dequant[a].ptr # NoBlock => host'[a] = host[a]
    BY <1>2 DEF Fresh, Names
  <2>2. \A a \in Addr : Mapped(a) /\ host'[a] # host[a] /\ persistent[a].ptr # NoBlock
                         => a \in freedCached'
    BY DEF NoteFreed, Copied
  <2> QED  BY <1>2, <1>5, <2>1, <2>2 DEF Quiet, Running, NoteFreed
<1>11. CASE FreeWeights(c)
  <2> USE <1>11 DEF FreeWeights
  <2>1. \A a \in Addr : dequant[a].ptr # NoBlock => a \notin own[c]
    BY <1>2 DEF Fresh, TypeInv, Apart, Running
  <2>2. \A a \in Addr : Mapped(a) /\ host'[a] # host[a] /\ persistent[a].ptr # NoBlock
                         => a \in freedCached'
    BY DEF NoteFreed, Copied
  <2>3. \A y \in Context : Running(y) => y # c /\ own'[y] = own[y] /\ Running(y)'
    BY <1>2 DEF Running, Types
  <2>4. call'[c].pc = "idle"
    BY <1>2 DEF Stage, Running, CallSet
  <2> QED  BY <1>2, <1>5, <2>1, <2>2, <2>3, <2>4 DEF Quiet, NoteFreed
<1>12. ASSUME NEW a \in Addr, NewKey(c, a)  PROVE Quiet(c)
  <2> USE <1>12 DEF NewKey, Ready
  <2>1. \A x \in Addr : Mapped(x) => host'[x] = host[x]
    BY <1>2 DEF Write, Types
  <2> QED  BY <1>2, <1>5, <2>1 DEF Quiet, Running, Fresh
<1>13. ASSUME NEW a \in Addr, NEW b \in Addr, Transpose(c, a, b)  PROVE Quiet(c)
  <2> USE <1>13 DEF Transpose
  <2>1. \A x \in Addr : Mapped(x) /\ x # a => host'[x] = host[x]
    BY <1>2 DEF Types
  <2>2. dequant[a].ptr = NoBlock
    BY <1>2 DEF Fresh
  <2>3. \A y \in Context : \A x \in own[y] : x # a => x \in own'[y]
    BY <1>2 DEF Types
  <2>4. \A x \in Addr : Mapped(x) /\ host'[x] # host[x] /\ persistent[x].ptr # NoBlock
                         => x \in freedCached'
    BY <2>1 DEF NoteFreed, Copied
  <2>5. \A x \in Addr : dequant[x].ptr # NoBlock => Mapped(x) /\ x # a
    BY <1>2, <2>2 DEF Fresh
  <2> QED  BY <1>2, <1>5, <2>1, <2>3, <2>4, <2>5 DEF Quiet, Running, NoteFreed
<1>14. ASSUME NEW a \in Addr, NEW ty \in Type, LoadOne(c, a, ty)  PROVE Quiet(c)
  <2> USE <1>14 DEF LoadOne
  <2>1. \A x \in Addr : Mapped(x) => host'[x] = host[x]
    BY <1>2 DEF Write, Types
  <2>2. \A y \in Context : own[y] \subseteq own'[y]
    BY <1>2 DEF Types
  <2>3. /\ Good(Hold', dev') /\ Kept(Hold, dev, Hold', dev', {OfA(c)})
        /\ call'[c].pc = "resolve"
    BY <1>6
  <2> QED  BY <1>2, <2>1, <2>2, <2>3 DEF Quiet, Running, Fresh
<1>15. ASSUME NEW a \in Addr, Preload(c, a)  PROVE Quiet(c)
  <2>1. /\ Good(Hold', dev') /\ Kept(Hold, dev, Hold', dev', {OfA(c)})
        /\ call'[c].pc = "resolve"
    BY <1>6, <1>15 DEF Preload
  <2> QED  BY <1>15, <2>1 DEF Preload, Quiet, Running
<1>16. ASSUME NEW a \in Addr, Attend(c, a)  PROVE Quiet(c)
  <2>1. /\ Good(Hold', dev') /\ Kept(Hold, dev, Hold', dev', {OfA(c)})
        /\ call'[c].pc = "resolve"
    BY <1>6, <1>16 DEF Attend
  <2> QED  BY <1>16, <2>1 DEF Attend, Quiet, Running
<1>17. ASSUME NEW a \in Addr, NEW long \in BOOLEAN, NEW op \in {"product", "strided", "rows"},
              UseWeight(c, a, op, long)
       PROVE  Quiet(c)
  <2>1. /\ Good(Hold', dev') /\ Kept(Hold, dev, Hold', dev', {OfA(c)})
        /\ call'[c].pc = "resolve"
    BY <1>6, <1>17 DEF UseWeight
  <2> QED  BY <1>17, <2>1 DEF UseWeight, Quiet, Running
<1> QED
  BY <1>4, <1>8, <1>9, <1>10, <1>11, <1>12, <1>13, <1>14, <1>15, <1>16, <1>17 DEF ContextStep

-----------------------------------------------------------------------------
(* The theorems                                                            *)

LEMMA InitInv == Init => Inv
<1> SUFFICES ASSUME Init PROVE Inv
  OBVIOUS
<1> USE DEF Init
<1>1. TypeInv
  BY InitTypes
<1>2. \A a \in Addr : persistent[a].ptr = NoBlock /\ dequant[a].ptr = NoBlock
  BY DEF NoEntry, NoDequant
<1>3. \A c \in Context : call[c] = Idle /\ call[c].pc = "idle"
  BY IdleCall
<1>4. \A s \in Slots : Hold[s] = NoBlock
  BY <1>2, <1>3, SlotForms, HoldAt, IdleCall DEF Hold
<1>5. Owned(Hold, dev)
  BY <1>4 DEF Owned
<1>6. Fresh /\ Operands /\ EmptyAtRest /\ OperandsStay
  BY <1>2, <1>3 DEF Fresh, Operands, EmptyAtRest, OperandsStay
<1> QED  BY <1>1, <1>5, <1>6 DEF Inv

LEMMA InvStep == Inv /\ [Next]_vars => Inv'
<1> SUFFICES ASSUME Inv, [Next]_vars  PROVE Inv'
  OBVIOUS
<1>1. CASE Next
  BY <1>1, BackendInv, ContextInv DEF Next
<1>2. CASE UNCHANGED vars
  <2> USE <1>2 DEF vars, hostVars, cacheVars, modeVars, ctxVars
  <2>1. TypeInv'
    BY TypeStep DEF Inv
  <2>2. Hold' = Hold
    BY DEF Hold
  <2>3. /\ (Fresh => Fresh') /\ (Operands => Operands') /\ (EmptyAtRest => EmptyAtRest')
        /\ (OperandsStay => OperandsStay')
    BY DEF Fresh, Operands, EmptyAtRest, OperandsStay, Mapped, Running
  <2> QED  BY <2>1, <2>2, <2>3 DEF Inv
<1> QED  BY <1>1, <1>2

LEMMA Invariant == Spec => []Inv
BY InitInv, InvStep, PTL DEF Spec

(* The owners of blocks are the slots.                                     *)
LEMMA OwnersAreSlots ==
  /\ \A o \in Owners : \E s \in Slots : o = <<s[1], s[2], Hold[s]>>
  /\ \A s \in Slots : <<s[1], s[2], Hold[s]>> \in Owners
<1> DEFINE Tuple(s) == <<s[1], s[2], Hold[s]>>
<1>1. ASSUME NEW a \in Addr
      PROVE  /\ Tuple(OfCopy(a)) = <<"persistent", a, persistent[a].ptr>>
             /\ Tuple(OfDequant(a)) = <<"dequant", a, dequant[a].ptr>>
             /\ OfCopy(a) \in Slots /\ OfDequant(a) \in Slots
  <2>1. Hold[OfCopy(a)] = persistent[a].ptr /\ Hold[OfDequant(a)] = dequant[a].ptr
    BY HoldAt DEF Hold
  <2>2. OfCopy(a)[1] = "persistent" /\ OfCopy(a)[2] = a
        /\ OfDequant(a)[1] = "dequant" /\ OfDequant(a)[2] = a
    BY DEF OfCopy, OfDequant
  <2> QED  BY <2>1, <2>2, HoldAt
<1>2. ASSUME NEW c \in Context
      PROVE  /\ Tuple(OfA(c)) = <<"dA", c, call[c].dA>>
             /\ Tuple(OfC(c)) = <<"dC", c, call[c].dC>>
             /\ Tuple(OfB(c)) = <<"dB", c, OwnB(call[c])>>
             /\ OfA(c) \in Slots /\ OfB(c) \in Slots /\ OfC(c) \in Slots
  <2>1. /\ Hold[OfA(c)] = call[c].dA /\ Hold[OfC(c)] = call[c].dC
        /\ Hold[OfB(c)] = OwnB(call[c])
    BY HoldAt DEF Hold
  <2>2. /\ OfA(c)[1] = "dA" /\ OfA(c)[2] = c /\ OfB(c)[1] = "dB" /\ OfB(c)[2] = c
        /\ OfC(c)[1] = "dC" /\ OfC(c)[2] = c
    BY DEF OfA, OfB, OfC
  <2> QED  BY <2>1, <2>2, HoldAt
<1> HIDE DEF Tuple
<1> DEFINE OfCaches == {<<"persistent", a, persistent[a].ptr>> : a \in Addr}
                         \cup {<<"dequant", a, dequant[a].ptr>> : a \in Addr}
           OfCalls == UNION {{<<"dA", c, call[c].dA>>, <<"dC", c, call[c].dC>>} : c \in Context}
           OfMatrices == {<<"dB", c, IF call[c].temp \/ call[c].pc = "insert"
                                     THEN call[c].dB ELSE NoBlock>> : c \in Context}
<1>0. /\ Owners = OfCaches \cup OfCalls \cup OfMatrices
      /\ \A c \in Context : OwnB(call[c]) = IF call[c].temp \/ call[c].pc = "insert"
                                            THEN call[c].dB ELSE NoBlock
  <2>1. Owners = OfCaches \cup OfCalls \cup OfMatrices
    BY Zenon DEF Owners
  <2>2. \A c \in Context : OwnB(call[c]) = IF call[c].temp \/ call[c].pc = "insert"
                                          THEN call[c].dB ELSE NoBlock
    BY DEF OwnB
  <2> HIDE DEF OfCaches, OfCalls, OfMatrices
  <2> QED  BY <2>1, <2>2
<1>3. ASSUME NEW o \in Owners  PROVE \E s \in Slots : o = Tuple(s)
  <2>1. CASE \E a \in Addr : \/ o = <<"persistent", a, persistent[a].ptr>>
                             \/ o = <<"dequant", a, dequant[a].ptr>>
    BY <1>1, <2>1
  <2>2. CASE \E c \in Context : \/ o = <<"dA", c, call[c].dA>> \/ o = <<"dC", c, call[c].dC>>
                                \/ o = <<"dB", c, OwnB(call[c])>>
    BY <1>2, <2>2
  <2>3. \/ o \in OfCaches \/ o \in OfCalls \/ o \in OfMatrices
    BY <1>0
  <2>4. CASE o \in OfMatrices
    BY <1>0, <2>2, <2>4
  <2> QED  BY <2>1, <2>2, <2>3, <2>4
<1>4. ASSUME NEW s \in Slots  PROVE Tuple(s) \in Owners
  <2>1. CASE \E a \in Addr : s = OfCopy(a) \/ s = OfDequant(a)
    BY <1>0, <1>1, <2>1
  <2>2. ASSUME NEW c \in Context  PROVE {Tuple(OfA(c)), Tuple(OfB(c)), Tuple(OfC(c))} \subseteq Owners
    BY <1>0, <1>2
  <2> QED  BY <2>1, <2>2, SlotForms
<1> QED  BY <1>3, <1>4 DEF Tuple

LEMMA InvOwns == Inv => BlocksOwned
<1> SUFFICES ASSUME Inv, ~damaged
             PROVE  /\ \A b \in Block : Cardinality({o \in Owners : o[3] = b})
                                          = IF dev[b] = Free THEN 0 ELSE 1
                    /\ (\A c \in Context : phase[c] = "closed") => \A b \in Block : dev[b] = Free
  BY DEF BlocksOwned
<1>1. Owned(Hold, dev) /\ EmptyAtRest /\ TypeInv
  BY DEF Inv
<1>2. ASSUME NEW b \in Block, dev[b] = Free
      PROVE  Cardinality({o \in Owners : o[3] = b}) = 0
  <2>1. ASSUME NEW o \in Owners, o[3] = b  PROVE FALSE
    <3>1. PICK s \in Slots : o = <<s[1], s[2], Hold[s]>>
      BY OwnersAreSlots
    <3>2. Hold[s] = b
      BY <2>1, <3>1
    <3> QED  BY <1>1, <1>2, <3>2, DeviceAssumption DEF Owned
  <2>2. {o \in Owners : o[3] = b} = {}
    BY <2>1
  <2> QED  BY <2>2, FS_EmptySet
<1>3. ASSUME NEW b \in Block, dev[b] # Free
      PROVE  Cardinality({o \in Owners : o[3] = b}) = 1
  <2>1. PICK s \in Slots : Hold[s] = b
    BY <1>1, <1>3 DEF Owned
  <2> DEFINE t == <<s[1], s[2], b>>
  <2>2. t \in Owners /\ t[3] = b
    BY <2>1, OwnersAreSlots
  <2>3. ASSUME NEW o \in Owners, o[3] = b  PROVE o = t
    <3>1. PICK r \in Slots : o = <<r[1], r[2], Hold[r]>>
      BY OwnersAreSlots
    <3>2. Hold[r] = b
      BY <2>3, <3>1
    <3>3. r = s
      BY <1>1, <2>1, <3>2, DeviceAssumption DEF Owned
    <3> QED  BY <3>1, <3>2, <3>3
  <2> HIDE DEF t
  <2>4. {o \in Owners : o[3] = b} = {t}
    BY <2>2, <2>3
  <2> QED  BY <2>4, FS_Singleton
<1>4. ASSUME \A c \in Context : phase[c] = "closed", NEW b \in Block, dev[b] # Free
      PROVE  FALSE
  <2>1. \A c \in Context : ~Running(c)
    BY <1>4 DEF Running
  <2>2. \A a \in Addr : persistent[a].ptr = NoBlock /\ dequant[a].ptr = NoBlock
    BY <1>1, <2>1 DEF EmptyAtRest
  <2>3. \A c \in Context : call[c] = Idle
    BY <1>1, <2>1 DEF TypeInv, Types, CallSet, Stages, Stage
  <2>4. \A s \in Slots : Hold[s] = NoBlock
    BY <2>2, <2>3, SlotForms, HoldAt, IdleCall DEF Hold
  <2> QED  BY <1>1, <1>4, <2>4, DeviceAssumption DEF Owned
<1> QED  BY <1>2, <1>3, <1>4

(* Whatever allocation fails and however the contexts interleave, every    *)
(* device block in use has exactly one owner to free it, a free block has  *)
(* none, and nothing is left when the last context is closed (until the    *)
(* strided product's failure path frees a cached matrix).                  *)
THEOREM EveryBlockOwned == Spec => []BlocksOwned
BY Invariant, InvOwns, PTL

(* A call loses the operand it looked up, before its kernel has run, in    *)
(* two ways only, both of which cut it: another context is closed and the  *)
(* operand is a cached copy, or a strided product without room for its     *)
(* output frees the very block.  Contexts have no host address in common,  *)
(* so no other call's lookup evicts it, and no other free reaches it.      *)
THEOREM NoOperandTaken == Spec => []OperandsStay
<1>1. Inv => OperandsStay
  BY DEF Inv
<1> QED  BY <1>1, Invariant, PTL

(* A cached copy is stale only at an address whose earlier tensor was      *)
(* freed while its copy was cached; a dequantized copy never is.           *)
THEOREM CopiesFresh == Spec => []StaleOnlyAfterFree
<1>1. Inv => StaleOnlyAfterFree
  BY DEF Inv, Fresh, StaleOnlyAfterFree, Stale
<1> QED  BY <1>1, Invariant, PTL
=============================================================================
