--------------------------- MODULE KVCacheProofs ---------------------------
(***************************************************************************)
(* Theorems about KVCache for every number of layers, every capacity and   *)
(* every set of rows.                                                      *)
(***************************************************************************)
EXTENDS KVCache, TLAPS

(* One step around the ring: adding two indices below SeqMax wraps at most *)
(* once.                                                                   *)
LEMMA RingIndex ==
  ASSUME NEW a \in Nat, a < 2 * SeqMax
  PROVE  a % SeqMax = IF a < SeqMax THEN a ELSE a - SeqMax
<1>1. CASE a < SeqMax
  BY <1>1, SeqMaxAssumption
<1>2. CASE a >= SeqMax
  BY <1>2, SeqMaxAssumption
<1> QED  BY <1>1, <1>2, SeqMaxAssumption

LEMMA ZeroIsASlot == 0 \in Slot /\ 0 \in 0 .. SeqMax
  BY SeqMaxAssumption DEF Slot

(* kvcache_append writes inside the buffer of its layer.                   *)
LEMMA WritePosIsASlot ==
  ASSUME TypeOK, NEW l \in Layer
  PROVE  WritePos(l) \in Slot
  BY SeqMaxAssumption DEF TypeOK, WritePos, Slot

(* Every step of the cache keeps the types.                                *)
LEMMA TypeStep == TypeOK /\ [Next]_vars => TypeOK'
<1> SUFFICES ASSUME TypeOK, [Next]_vars PROVE TypeOK'
  OBVIOUS
<1>1. CASE Create
  BY <1>1, ZeroIsASlot DEF Create, TypeOK, NoRows, Zeroes
<1>2. CASE Free
  BY <1>2, ZeroIsASlot DEF Free, TypeOK, NoRows, Zeroes
<1>3. CASE Reset
  BY <1>3, ZeroIsASlot DEF Reset, TypeOK, Zeroes
<1>4. ASSUME NEW l \in Layer, NEW k \in Key, NEW v \in Value,
             AppendRow(l, k, v)
      PROVE  TypeOK'
  <2>1. keys' \in [Layer -> [Slot -> Key \cup {Blank}]]
    BY <1>4, WritePosIsASlot DEF AppendRow, TypeOK
  <2>2. vals' \in [Layer -> [Slot -> Value \cup {Blank}]]
    BY <1>4, WritePosIsASlot DEF AppendRow, TypeOK
  <2>3. lengths' \in [Layer -> 0 .. SeqMax]
    BY <1>4, SeqMaxAssumption DEF AppendRow, Grow, Rotate, TypeOK
  <2>4. heads' \in [Layer -> Slot]
    <3>1. CASE Grow(l)
      BY <3>1 DEF Grow, TypeOK
    <3>2. CASE Rotate(l)
      <4>1. (heads[l] + 1) % SeqMax \in Slot
        BY SeqMaxAssumption DEF TypeOK, Slot
      <4> QED  BY <3>2, <4>1 DEF Rotate, TypeOK
    <3> QED  BY <1>4, <3>1, <3>2 DEF AppendRow
  <2> QED  BY <1>4, <2>1, <2>2, <2>3, <2>4 DEF AppendRow, TypeOK
<1>5. CASE UNCHANGED vars
  BY <1>5 DEF vars, TypeOK
<1> QED  BY <1>1, <1>2, <1>3, <1>4, <1>5 DEF Next

(* Every variable keeps its C++ type in every state of the cache           *)
(* (kv_cache.h).                                                           *)
THEOREM TypeCorrect == Spec => []TypeOK
<1>1. Init => TypeOK
  <2> SUFFICES ASSUME Init PROVE TypeOK
    OBVIOUS
  <2>1. live \in BOOLEAN
    BY Zenon DEF Init
  <2>2. /\ keys \in [Layer -> [Slot -> Key \cup {Blank}]]
        /\ vals \in [Layer -> [Slot -> Value \cup {Blank}]]
    BY DEF Init, NoRows
  <2>3. lengths \in [Layer -> 0 .. SeqMax] /\ heads \in [Layer -> Slot]
    BY ZeroIsASlot DEF Init, Zeroes
  <2> QED  BY <2>1, <2>2, <2>3 DEF TypeOK
<1> QED  BY <1>1, TypeStep, PTL DEF Spec

LEMMA HeadStep ==
  TypeOK /\ HeadMovesOnlyWhenFull /\ [Next]_vars => HeadMovesOnlyWhenFull'
<1> SUFFICES ASSUME TypeOK, HeadMovesOnlyWhenFull, [Next]_vars
             PROVE  HeadMovesOnlyWhenFull'
  OBVIOUS
<1>1. CASE Create \/ Free \/ Reset
  BY <1>1 DEF Create, Free, Reset, Zeroes, HeadMovesOnlyWhenFull
<1>2. ASSUME NEW l \in Layer, NEW k \in Key, NEW v \in Value,
             AppendRow(l, k, v)
      PROVE  HeadMovesOnlyWhenFull'
  <2>1. CASE Grow(l)
    BY <2>1, SeqMaxAssumption DEF Grow, HeadMovesOnlyWhenFull, TypeOK
  <2>2. CASE Rotate(l)
    <3>1. lengths[l] = SeqMax
      BY <2>2, SeqMaxAssumption DEF Rotate, TypeOK, Slot
    <3>2. ASSUME NEW m \in Layer, m # l
          PROVE  heads'[m] = heads[m]
      BY <2>2, <3>2 DEF Rotate, TypeOK
    <3>3. lengths' = lengths
      BY <2>2 DEF Rotate
    <3> QED  BY <3>1, <3>2, <3>3 DEF HeadMovesOnlyWhenFull
  <2> QED  BY <1>2, <2>1, <2>2 DEF AppendRow
<1>3. CASE UNCHANGED vars
  BY <1>3 DEF vars, HeadMovesOnlyWhenFull
<1> QED  BY <1>1, <1>2, <1>3 DEF Next

(* A layer's head is 0 until the layer is full, so the writer's index      *)
(* `length' and the readers' (head + length) % seq_max never disagree on a *)
(* growing layer.                                                          *)
THEOREM HeadInvariant == Spec => []HeadMovesOnlyWhenFull
<1>1. Init => HeadMovesOnlyWhenFull
  BY DEF Init, Zeroes, HeadMovesOnlyWhenFull
<1> QED  BY <1>1, HeadStep, TypeCorrect, PTL DEF Spec

-----------------------------------------------------------------------------
(* The window of a layer, step by step.                                    *)

LEMMA WindowIsASequence ==
  ASSUME TypeOK, NEW l \in Layer
  PROVE  /\ Window(l) \in Seq((Key \cup {Blank}) \X (Value \cup {Blank}))
         /\ Len(Window(l)) = lengths[l]
<1>1. lengths[l] \in Nat
  BY SeqMaxAssumption DEF TypeOK
<1>2. ASSUME NEW j \in 1 .. lengths[l]
      PROVE  Phys(l, j - 1) \in Slot
  BY <1>1, SeqMaxAssumption DEF TypeOK, Phys, Slot
<1>3. ASSUME NEW j \in 1 .. lengths[l]
      PROVE  Row(l, j - 1) \in (Key \cup {Blank}) \X (Value \cup {Blank})
  <2>1. /\ keys[l][Phys(l, j - 1)] \in Key \cup {Blank}
        /\ vals[l][Phys(l, j - 1)] \in Value \cup {Blank}
    BY <1>2 DEF TypeOK
  <2> QED  BY <2>1 DEF Row
<1> QED  BY <1>1, <1>3 DEF Window

(* While a layer grows, readers see one more row at the end.               *)
LEMMA WindowGrows ==
  ASSUME TypeOK, HeadMovesOnlyWhenFull,
         NEW l \in Layer, NEW k \in Key, NEW v \in Value,
         AppendRow(l, k, v), Grow(l)
  PROVE  Window(l)' = Append(Window(l), <<k, v>>)
<1>1. /\ lengths[l] \in 0 .. SeqMax - 1
      /\ heads[l] = 0
      /\ WritePos(l) = lengths[l]
  BY SeqMaxAssumption DEF TypeOK, Grow, WritePos, HeadMovesOnlyWhenFull
<1>2. lengths'[l] = lengths[l] + 1 /\ heads'[l] = 0
  BY <1>1 DEF Grow, TypeOK
<1>3. ASSUME NEW j \in 0 .. lengths[l]
      PROVE  Phys(l, j)' = j /\ Phys(l, j) = j /\ j \in Slot
  BY <1>1, <1>2, RingIndex, SeqMaxAssumption DEF Phys, Slot
<1>4. ASSUME NEW i \in Slot
      PROVE  /\ keys'[l][i] = IF i = lengths[l] THEN k ELSE keys[l][i]
             /\ vals'[l][i] = IF i = lengths[l] THEN v ELSE vals[l][i]
  BY <1>1 DEF AppendRow, TypeOK
<1>5. ASSUME NEW j \in 1 .. lengths[l] + 1
      PROVE  Row(l, j - 1)' = IF j = lengths[l] + 1 THEN <<k, v>>
                                                    ELSE Row(l, j - 1)
  <2>1. j - 1 \in 0 .. lengths[l]
    BY <1>1
  <2>2. Phys(l, j - 1)' = j - 1 /\ Phys(l, j - 1) = j - 1 /\ j - 1 \in Slot
    BY <1>3, <2>1
  <2> QED  BY <1>1, <1>4, <2>1, <2>2 DEF Row
<1> QED  BY <1>1, <1>2, <1>5 DEF Window

(* On a full layer, readers lose the oldest row and see the new one last.  *)
LEMMA WindowSlides ==
  ASSUME TypeOK, HeadMovesOnlyWhenFull,
         NEW l \in Layer, NEW k \in Key, NEW v \in Value,
         AppendRow(l, k, v), Rotate(l)
  PROVE  Window(l)' = Append(Tail(Window(l)), <<k, v>>)
<1>1. /\ lengths[l] = SeqMax
      /\ heads[l] \in Slot
      /\ WritePos(l) = heads[l]
  BY SeqMaxAssumption DEF TypeOK, Rotate, WritePos, Slot
<1>2. /\ lengths'[l] = SeqMax
      /\ heads'[l] = (heads[l] + 1) % SeqMax
  BY <1>1 DEF Rotate, TypeOK, Slot
<1>3. ASSUME NEW j \in Slot
      PROVE  /\ Phys(l, j)' \in Slot
             /\ j < SeqMax - 1 => /\ Phys(l, j)' = Phys(l, j + 1)
                                  /\ Phys(l, j)' # heads[l]
             /\ j = SeqMax - 1 => Phys(l, j)' = heads[l]
  <2>1. Phys(l, j)' = (heads'[l] + j) % SeqMax
    BY DEF Phys
  <2>2. heads'[l] = IF heads[l] + 1 < SeqMax THEN heads[l] + 1 ELSE 0
    BY <1>1, <1>2, RingIndex, SeqMaxAssumption DEF Slot
  <2>3. (heads'[l] + j) % SeqMax
          = IF heads'[l] + j < SeqMax THEN heads'[l] + j
                                      ELSE heads'[l] + j - SeqMax
    BY <1>1, <2>2, RingIndex, SeqMaxAssumption DEF Slot
  <2>4. j < SeqMax - 1 =>
          Phys(l, j + 1) = IF heads[l] + j + 1 < SeqMax
                             THEN heads[l] + j + 1
                             ELSE heads[l] + j + 1 - SeqMax
    BY <1>1, RingIndex, SeqMaxAssumption DEF Slot, Phys
  <2> QED  BY <1>1, <2>1, <2>2, <2>3, <2>4, SeqMaxAssumption DEF Slot
<1>4. ASSUME NEW i \in Slot
      PROVE  /\ keys'[l][i] = IF i = heads[l] THEN k ELSE keys[l][i]
             /\ vals'[l][i] = IF i = heads[l] THEN v ELSE vals[l][i]
  BY <1>1 DEF AppendRow, TypeOK
<1>5. ASSUME NEW j \in 1 .. SeqMax
      PROVE  Row(l, j - 1)' = IF j = SeqMax THEN <<k, v>> ELSE Row(l, j)
  <2>1. j - 1 \in Slot /\ (j - 1) + 1 = j
    BY SeqMaxAssumption DEF Slot
  <2>2. CASE j = SeqMax
    <3>1. Phys(l, j - 1)' = heads[l]
      BY <1>3, <2>1, <2>2, SeqMaxAssumption
    <3> QED  BY <1>1, <1>4, <2>2, <3>1 DEF Row
  <2>3. CASE j # SeqMax
    <3>1. /\ Phys(l, j - 1)' = Phys(l, j)
          /\ Phys(l, j - 1)' # heads[l]
          /\ Phys(l, j - 1)' \in Slot
      BY <1>3, <2>1, <2>3, SeqMaxAssumption
    <3> QED  BY <1>4, <2>3, <3>1 DEF Row
  <2> QED  BY <2>2, <2>3
<1>6. Window(l) \in Seq((Key \cup {Blank}) \X (Value \cup {Blank}))
      /\ Len(Window(l)) = SeqMax
  BY <1>1, WindowIsASequence
<1>7. Tail(Window(l)) = [j \in 1 .. SeqMax - 1 |-> Row(l, j)]
  BY <1>1, <1>6, SeqMaxAssumption DEF Window
<1>8. Append(Tail(Window(l)), <<k, v>>)
        = [j \in 1 .. SeqMax |-> IF j = SeqMax THEN <<k, v>> ELSE Row(l, j)]
  <2> DEFINE R == (Key \cup {Blank}) \X (Value \cup {Blank})
             T == Tail(Window(l))
  <2>1. T \in Seq(R) /\ Len(T) = SeqMax - 1
    BY <1>6, SeqMaxAssumption
  <2>2. \A j \in 1 .. SeqMax - 1 : T[j] = Row(l, j)
    BY <1>7
  <2> HIDE DEF T, R
  <2>3. Append(T, <<k, v>>)
          = [j \in 1 .. Len(T) + 1 |->
               IF j = Len(T) + 1 THEN <<k, v>> ELSE T[j]]
    BY <2>1
  <2>4. Append(T, <<k, v>>)
          = [j \in 1 .. SeqMax |-> IF j = SeqMax THEN <<k, v>> ELSE Row(l, j)]
    BY <2>1, <2>2, <2>3, SeqMaxAssumption
  <2> QED  BY <2>4 DEF T
<1>9. Window(l)' = [j \in 1 .. SeqMax |-> Row(l, j - 1)']
  BY <1>2 DEF Window
<1> QED  BY <1>5, <1>8, <1>9, SeqMaxAssumption

(* What an append does to the readers' window of its layer.                *)
LEMMA WindowRemembers ==
  ASSUME TypeOK, HeadMovesOnlyWhenFull,
         NEW l \in Layer, NEW k \in Key, NEW v \in Value,
         AppendRow(l, k, v)
  PROVE  Window(l)' = IF lengths[l] < SeqMax
                      THEN Append(Window(l), <<k, v>>)
                      ELSE Append(Tail(Window(l)), <<k, v>>)
<1>1. CASE Grow(l)
  BY <1>1, WindowGrows DEF Grow
<1>2. CASE Rotate(l)
  <2>1. ~(lengths[l] < SeqMax)
    BY <1>2, SeqMaxAssumption DEF Rotate, TypeOK
  <2> QED  BY <1>2, <2>1, WindowSlides
<1> QED  BY <1>1, <1>2 DEF AppendRow

(* An append is invisible to the readers of every other layer.             *)
LEMMA OtherWindows ==
  ASSUME TypeOK,
         NEW l \in Layer, NEW k \in Key, NEW v \in Value,
         AppendRow(l, k, v),
         NEW m \in Layer, m # l
  PROVE  Window(m)' = Window(m)
<1>1. keys'[m] = keys[m] /\ vals'[m] = vals[m]
  BY DEF AppendRow, TypeOK
<1>2. lengths'[m] = lengths[m] /\ heads'[m] = heads[m]
  BY SeqMaxAssumption DEF AppendRow, Grow, Rotate, TypeOK, Slot
<1> QED  BY <1>1, <1>2 DEF Window, Row, Phys

LEMMA EmptyWindows ==
  ASSUME lengths = Zeroes
  PROVE  [l \in Layer |-> Window(l)] = Sliding!Empty
  BY DEF Zeroes, Window, Sliding!Empty

(* Read the way attention reads it, the ring is the sliding window: every  *)
(* step of the cache is a step of SlidingWindow or invisible in it.        *)
THEOREM RingImplementsWindow == Spec => Implements
<1>1. Init => Sliding!Init
  BY EmptyWindows DEF Init, Sliding!Init
<1>2. /\ TypeOK /\ HeadMovesOnlyWhenFull /\ [Next]_vars
      => [Sliding!Next]_(Sliding!swVars)
  <2> SUFFICES ASSUME TypeOK, HeadMovesOnlyWhenFull, [Next]_vars
               PROVE  [Sliding!Next]_(Sliding!swVars)
    OBVIOUS
  <2> DEFINE W == [l \in Layer |-> Window(l)]
  <2>1. (lengths = Zeroes)' => W' = Sliding!Empty
    BY DEF Zeroes, Window, Sliding!Empty
  <2>2. CASE Create
    BY <2>1, <2>2 DEF Create, Sliding!Open, Sliding!Next
  <2>3. CASE Free
    BY <2>1, <2>3 DEF Free, Sliding!Close, Sliding!Next
  <2>4. CASE Reset
    BY <2>1, <2>4 DEF Reset, Sliding!Forget, Sliding!Next
  <2>5. ASSUME NEW l \in Layer, NEW k \in Key, NEW v \in Value,
               AppendRow(l, k, v)
        PROVE  Sliding!Next
    <3>1. Window(l)' = Sliding!Slide(Window(l), <<k, v>>)
      BY <2>5, WindowRemembers, WindowIsASequence DEF Sliding!Slide
    <3>2. \A m \in Layer : m # l => Window(m)' = Window(m)
      BY <2>5, OtherWindows
    <3>3. W' = [W EXCEPT ![l] = Sliding!Slide(@, <<k, v>>)]
      BY <3>1, <3>2
    <3>4. Sliding!Remember(l, k, v)
      BY <2>5, <3>3 DEF AppendRow, Sliding!Remember
    <3> QED  BY <3>4 DEF Sliding!Next
  <2>6. CASE UNCHANGED vars
    <3>1. W' = W
      BY <2>6 DEF vars, Window, Row, Phys
    <3> QED  BY <2>6, <3>1 DEF vars, Sliding!swVars
  <2> QED  BY <2>2, <2>3, <2>4, <2>5, <2>6 DEF Next
<1> QED
  BY <1>1, <1>2, TypeCorrect, HeadInvariant, PTL
  DEF Spec, Implements, Sliding!Spec
=============================================================================
