--------------------------- MODULE DecoderProofs ---------------------------
(***************************************************************************)
(* What a call of minxfmr_generate keeps true of the key/value cache, for  *)
(* every number of layers, every seq_max, every set of layers the cache    *)
(* fits and every length of prompt and answer.                             *)
(*                                                                         *)
(* The argument: each layer's ring is the sliding window of what was       *)
(* appended to it (KVCacheProofs, taken over by Ring below), and between   *)
(* two appends of a layer the context grows by exactly the token appended  *)
(* (RingsFollow); which token that is follows from where the call stands   *)
(* in the prompt or in its own output (CallFollows).                       *)
(***************************************************************************)
EXTENDS Decoder, TLAPS

KeyRow == [tok : Token, pos : 0 .. SeqMax]

(* The theorems about the cache, for the cache of this context.            *)
Ring == INSTANCE KVCacheProofs WITH
  Key   <- [tok : Token, pos : 0 .. SeqMax],
  Value <- Token,
  Blank <- <<>>

LEMMA RingAssumptions == Ring!SeqMaxAssumption /\ Ring!LayerAssumption
BY SizeAssumption DEF Ring!SeqMaxAssumption, Ring!LayerAssumption

(* A step of the cache keeps its types and its heads in order.             *)
LEMMA CacheStep ==
  ASSUME Cache!TypeOK, Cache!HeadMovesOnlyWhenFull, [Cache!Next]_cacheVars
  PROVE  Cache!TypeOK' /\ Cache!HeadMovesOnlyWhenFull'
<1>1. Ring!TypeOK /\ Ring!HeadMovesOnlyWhenFull
  BY DEF Cache!TypeOK, Ring!TypeOK, Cache!HeadMovesOnlyWhenFull,
         Ring!HeadMovesOnlyWhenFull, Cache!Layer, Ring!Layer, Cache!Slot, Ring!Slot
<1>2. [Ring!Next]_(Ring!vars)
  BY DEF Cache!Next, Ring!Next, cacheVars, Ring!vars, Cache!Create, Ring!Create,
         Cache!Free, Ring!Free, Cache!Reset, Ring!Reset, Cache!AppendRow,
         Ring!AppendRow, Cache!NoRows, Ring!NoRows, Cache!Zeroes, Ring!Zeroes,
         Cache!Layer, Ring!Layer, Cache!Slot, Ring!Slot, Cache!WritePos,
         Ring!WritePos, Cache!Grow, Ring!Grow, Cache!Rotate, Ring!Rotate
<1>3. Ring!TypeOK' /\ Ring!HeadMovesOnlyWhenFull'
  BY <1>1, <1>2, RingAssumptions, Ring!TypeStep, Ring!HeadStep
<1> QED
  BY <1>3 DEF Cache!TypeOK, Ring!TypeOK, Cache!HeadMovesOnlyWhenFull,
         Ring!HeadMovesOnlyWhenFull, Cache!Layer, Ring!Layer, Cache!Slot, Ring!Slot

(* What an append does to the window of its layer, and to the others.      *)
LEMMA CacheAppend ==
  ASSUME Cache!TypeOK, Cache!HeadMovesOnlyWhenFull,
         NEW l \in Layer, NEW k \in KeyRow, NEW v \in Token,
         Cache!AppendRow(l, k, v)
  PROVE  /\ Cache!Window(l) \in Seq((KeyRow \cup {<<>>}) \X (Token \cup {<<>>}))
         /\ Len(Cache!Window(l)) = lengths[l]
         /\ Cache!Window(l)' = IF lengths[l] < SeqMax
                               THEN Append(Cache!Window(l), <<k, v>>)
                               ELSE Append(Tail(Cache!Window(l)), <<k, v>>)
         /\ \A m \in Layer : m # l => Cache!Window(m)' = Cache!Window(m)
         /\ \A m \in Layer : m # l => lengths'[m] = lengths[m]
<1> USE DEF Cache!Layer, Ring!Layer, Cache!Slot, Ring!Slot, Layer, KeyRow
<1>1. Ring!TypeOK /\ Ring!HeadMovesOnlyWhenFull
  BY DEF Cache!TypeOK, Ring!TypeOK, Cache!HeadMovesOnlyWhenFull,
         Ring!HeadMovesOnlyWhenFull
<1>2. Ring!AppendRow(l, k, v)
  BY DEF Cache!AppendRow, Ring!AppendRow, Cache!WritePos, Ring!WritePos,
         Cache!Grow, Ring!Grow, Cache!Rotate, Ring!Rotate
<1>3. \A m \in Layer : /\ Ring!Window(m) = Cache!Window(m)
                       /\ Ring!Window(m)' = Cache!Window(m)'
  BY DEF Ring!Window, Cache!Window, Ring!Row, Cache!Row, Ring!Phys, Cache!Phys
<1> USE RingAssumptions
<1>4. /\ Ring!Window(l) \in Seq((KeyRow \cup {<<>>}) \X (Token \cup {<<>>}))
      /\ Len(Ring!Window(l)) = lengths[l]
  BY <1>1, Ring!WindowIsASequence
<1>5. Ring!Window(l)' = IF lengths[l] < SeqMax
                        THEN Append(Ring!Window(l), <<k, v>>)
                        ELSE Append(Tail(Ring!Window(l)), <<k, v>>)
  BY <1>1, <1>2, Ring!WindowRemembers
<1>6. \A m \in Layer : m # l => Ring!Window(m)' = Ring!Window(m)
  BY <1>1, <1>2, Ring!OtherWindows
<1>7. \A m \in Layer : m # l => lengths'[m] = lengths[m]
  BY SizeAssumption DEF Cache!AppendRow, Cache!Grow, Cache!Rotate, Cache!TypeOK
<1> QED  BY <1>3, <1>4, <1>5, <1>6, <1>7

-----------------------------------------------------------------------------
(* Types                                                                   *)

(* TypeOK with what keeps the loop counters in bounds: t counts the tokens *)
(* `last' has moved on by.  No call runs without a cache.                  *)
TypeInv ==
  /\ TypeOK
  /\ Cache!HeadMovesOnlyWhenFull
  /\ Busy => live
  /\ phase = "prefill" => t = 0
  /\ last <= PromptMax + t

LEMMA ZeroToken == <<0, 0>> \in Token
BY SizeAssumption DEF Token

(* The cache's part of a step is a step of the cache or changes nothing.   *)
LEMMA StepOfCache ==
  ASSUME TypeOK, [Next]_vars
  PROVE  [Cache!Next]_cacheVars
<1>1. CASE RunLayer
  <2>1. CASE UNCHANGED cacheVars
    BY <2>1
  <2>2. CASE layer \in Cached /\
             Cache!AppendRow(layer, [tok |-> cur, pos |-> StartPos(layer)], cur)
    <3>1. layer \in Cache!Layer
      BY <2>2, SizeAssumption DEF Cache!Layer
    <3>2. cur \in Token /\ lengths[layer] \in 0 .. SeqMax
      BY <3>1 DEF TypeOK, Cache!TypeOK
    <3>3. [tok |-> cur, pos |-> StartPos(layer)] \in [tok : Token, pos : 0 .. SeqMax]
      BY <3>2 DEF StartPos
    <3> QED  BY <2>2, <3>1, <3>2, <3>3 DEF Cache!Next
  <2> QED  BY <1>1, <2>1, <2>2 DEF RunLayer
<1>2. CASE \/ Open \/ Close \/ ClientReset \/ SampleContinues
           \/ \E n \in 0 .. PromptMax : Generate(n)
  BY <1>2 DEF Open, Close, ClientReset, SampleContinues, Generate, ResetCache,
              Cache!Next
<1>3. CASE \/ FailForward \/ PrefillToken \/ PrefillNoEmbedding \/ PrefillDone
           \/ PrefillEnd \/ DecodeReuse \/ DecodeForward \/ DecodeNoEmbedding
           \/ DecodeDone \/ SampleFails \/ SampleStops \/ GenerateWithoutCache
           \/ UNCHANGED vars
  BY <1>3 DEF FailForward, PrefillToken, PrefillNoEmbedding, PrefillDone,
       PrefillEnd, DecodeReuse, DecodeForward, DecodeNoEmbedding, DecodeDone,
       SampleFails, SampleStops, GenerateWithoutCache, StartForward,
       FinishForward, vars
<1> QED  BY <1>1, <1>2, <1>3 DEF Next, GenerateStep, ClientStep

LEMMA TypeInvInit == Init => TypeInv
<1> SUFFICES ASSUME Init PROVE TypeInv
  OBVIOUS
<1>1. Cache!TypeOK /\ Cache!HeadMovesOnlyWhenFull
  <2>1. live \in BOOLEAN
    BY Zenon DEF Init, Cache!Init
  <2>2. 0 \in Cache!Slot /\ 0 \in 0 .. SeqMax
    BY SizeAssumption DEF Cache!Slot
  <2> QED  BY <2>1, <2>2 DEF Init, Cache!Init, Cache!NoRows, Cache!Zeroes, Cache!TypeOK,
                       Cache!HeadMovesOnlyWhenFull
<1>2. running \in BOOLEAN /\ kept \in BOOLEAN /\ cloneLost \in BOOLEAN
  BY Zenon DEF Init
<1>3. result \in [code : Code, why : Reason]
  BY DEF Init, Code, Reason
<1> QED
  BY <1>1, <1>2, <1>3, ZeroToken, SizeAssumption DEF Init, TypeInv, TypeOK, Busy

(* The types a step gives to the truth values and to the result.           *)
LEMMA FlagTypes ==
  ASSUME TypeOK, [Next]_vars
  PROVE  /\ running' \in BOOLEAN /\ kept' \in BOOLEAN /\ cloneLost' \in BOOLEAN
         /\ result' \in [code : Code, why : Reason]
<1> USE DEF TypeOK, Next, GenerateStep, ClientStep, vars, fwdVars, loopVars,
      Open, Close, ClientReset, GenerateWithoutCache, Generate, RunLayer,
      FailForward, PrefillToken, PrefillNoEmbedding, PrefillDone, PrefillEnd,
      DecodeReuse, DecodeForward, DecodeNoEmbedding, DecodeDone, SampleFails,
      SampleStops, SampleContinues, StartForward, FinishForward
<1>1. running' \in BOOLEAN /\ kept' \in BOOLEAN /\ cloneLost' \in BOOLEAN
  BY Zenon
<1>2. result' \in [code : Code, why : Reason]
  BY DEF Return, Code, Reason
<1> QED  BY <1>1, <1>2

(* A call starts with a cache, and only a client that is not in a call     *)
(* takes it away.                                                          *)
LEMMA CallHasCache ==
  ASSUME Busy => live, [Next]_vars
  PROVE  Busy' => live'
<1>1. CASE \E n \in 0 .. PromptMax : Generate(n)
  BY <1>1 DEF Generate, ResetCache, Cache!Reset
<1>2. CASE RunLayer \/ SampleContinues
  BY <1>2 DEF RunLayer, SampleContinues, ResetCache, Cache!Reset, Cache!AppendRow,
              cacheVars, Busy
<1>3. CASE \/ PrefillToken \/ PrefillDone \/ PrefillEnd \/ DecodeReuse
           \/ DecodeForward \/ DecodeDone \/ UNCHANGED vars
  BY <1>3 DEF PrefillToken, PrefillDone, PrefillEnd, DecodeReuse, DecodeForward,
       DecodeDone, StartForward, FinishForward, cacheVars, vars, Busy
<1>4. CASE \/ Open \/ Close \/ ClientReset \/ GenerateWithoutCache \/ FailForward
           \/ PrefillNoEmbedding \/ DecodeNoEmbedding \/ SampleFails \/ SampleStops
  BY <1>4 DEF Open, Close, ClientReset, GenerateWithoutCache, FailForward,
       PrefillNoEmbedding, DecodeNoEmbedding, SampleFails, SampleStops, Return, Busy
<1> QED  BY <1>1, <1>2, <1>3, <1>4 DEF Next, GenerateStep, ClientStep

LEMMA TypeInvStep == ASSUME TypeInv, [Next]_vars PROVE TypeInv'
<1>1. Cache!TypeOK' /\ Cache!HeadMovesOnlyWhenFull' /\ (Busy' => live')
  BY StepOfCache, CacheStep, CallHasCache DEF TypeInv, TypeOK
<1>2. /\ running' \in BOOLEAN /\ kept' \in BOOLEAN /\ cloneLost' \in BOOLEAN
      /\ result' \in [code : Code, why : Reason]
  BY FlagTypes DEF TypeInv
<1> USE <1>1, <1>2, SizeAssumption DEF TypeInv, TypeOK, fwdVars, loopVars, Return
<1>3. CASE Open
  BY <1>3 DEF Open
<1>4. CASE Close
  BY <1>4 DEF Close
<1>5. CASE ClientReset
  BY <1>5 DEF ClientReset, ResetCache
<1>6. CASE GenerateWithoutCache
  BY <1>6 DEF GenerateWithoutCache
<1>7. ASSUME NEW n \in 0 .. PromptMax, Generate(n) PROVE TypeInv'
  BY <1>7 DEF Generate, ResetCache
<1>8. CASE RunLayer
  BY <1>8 DEF RunLayer
<1>9. CASE FailForward
  BY <1>9 DEF FailForward
<1>10. CASE PrefillToken
  BY <1>10 DEF PrefillToken, StartForward, Token
<1>11. CASE PrefillNoEmbedding
  BY <1>11 DEF PrefillNoEmbedding
<1>12. CASE PrefillDone
  BY <1>12 DEF PrefillDone, FinishForward
<1>13. CASE PrefillEnd
  BY <1>13 DEF PrefillEnd
<1>14. CASE DecodeReuse
  BY <1>14 DEF DecodeReuse, ReusesPrefill
<1>15. CASE DecodeForward
  BY <1>15 DEF DecodeForward, StartForward, Token
<1>16. CASE DecodeNoEmbedding
  BY <1>16 DEF DecodeNoEmbedding
<1>17. CASE DecodeDone
  BY <1>17 DEF DecodeDone, FinishForward
<1>18. CASE SampleFails
  BY <1>18 DEF SampleFails
<1>19. CASE SampleStops
  BY <1>19 DEF SampleStops
<1>20. CASE SampleContinues
  <2>1. t \in Nat /\ t < MaxSteps /\ last \in Nat /\ last <= PromptMax + t
    BY <1>20 DEF SampleContinues
  <2>2. /\ t' \in 0 .. MaxSteps /\ last' \in 0 .. PromptMax + MaxSteps
        /\ last' <= PromptMax + t' /\ (phase' = "decode" => t' < MaxSteps)
        /\ phase' \in {"decode", "idle"}
    BY <1>20, <2>1 DEF SampleContinues
  <2>3. ~running'
    BY <1>20 DEF SampleContinues
  <2>4. context' \in Seq(Token)
    <3>1. context' = <<>> \/ context' = context
      BY <1>20 DEF SampleContinues, ResetCache
    <3>2. context \in Seq(Token) /\ <<>> \in Seq(Token)
      OBVIOUS
    <3> QED  BY <3>1, <3>2, Zenon
  <2> QED  BY <1>20, <2>2, <2>3, <2>4 DEF SampleContinues
<1>21. CASE UNCHANGED vars
  BY <1>21 DEF vars
<1> QED
  BY <1>3, <1>4, <1>5, <1>6, <1>7, <1>8, <1>9, <1>10, <1>11, <1>12,
     <1>13, <1>14, <1>15, <1>16, <1>17, <1>18, <1>19, <1>20, <1>21
  DEF Next, GenerateStep, ClientStep

(* Every variable has its type and the loops keep to their bounds.         *)
THEOREM TypeCorrect == Spec => []TypeOK
<1>1. TypeInv => TypeOK
  BY DEF TypeInv
<1>2. TypeInv /\ [Next]_vars => TypeInv'
  BY TypeInvStep
<1> QED  BY <1>1, <1>2, TypeInvInit, PTL DEF Spec

-----------------------------------------------------------------------------
(* The rings and the context                                               *)

(* The window w is the end of the sequence s, as long as the ring allows;  *)
(* and while at most one row was overwritten, the position of a key is the *)
(* place of its token in s, counted from 0.                                *)
Follows(w, s) ==
  /\ Len(w) = IF Len(s) < SeqMax THEN Len(s) ELSE SeqMax
  /\ \A j \in 1 .. Len(w) : w[j][2] = s[Len(s) - Len(w) + j]
  /\ Len(s) <= SeqMax + 1 =>
       \A j \in 1 .. Len(w) : w[j][1].pos = Len(s) - Len(w) + j - 1

(* In a call, every layer's ring is the end of what the layer has seen.    *)
RingsFollow == Busy => \A l \in Cached : Follows(Cache!Window(l), Seen(l))

(* An empty window follows the empty sequence.                             *)
LEMMA EmptyFollows == Follows(<<>>, <<>>)
BY SizeAssumption DEF Follows

(* A window that slides over the next token still follows.                 *)
LEMMA SlideFollows ==
  ASSUME NEW R, NEW w \in Seq(R), NEW s \in Seq(Token), NEW tok \in Token,
         NEW k, k.pos = Len(w), Follows(w, s)
  PROVE  Follows(IF Len(w) < SeqMax THEN Append(w, <<k, tok>>)
                                    ELSE Append(Tail(w), <<k, tok>>),
                 Append(s, tok))
<1> DEFINE row == <<k, tok>>
           n == Len(s)
<1>1. n \in Nat /\ Len(w) \in Nat /\ Len(w) = IF n < SeqMax THEN n ELSE SeqMax
  BY DEF Follows
<1>2. Append(s, tok) \in Seq(Token) /\ Len(Append(s, tok)) = n + 1
  OBVIOUS
<1>3. \A i \in 1 .. n + 1 : Append(s, tok)[i] = IF i = n + 1 THEN tok ELSE s[i]
  OBVIOUS
<1>4. \A j \in 1 .. Len(w) : w[j][2] = s[n - Len(w) + j]
  BY DEF Follows
<1>5. n <= SeqMax + 1 =>
        \A j \in 1 .. Len(w) : w[j][1].pos = n - Len(w) + j - 1
  BY DEF Follows
<1>6. CASE Len(w) < SeqMax
  <2> DEFINE x == Append(w, row)
  <2>1. Len(x) = n + 1 /\ n = Len(w) /\ n < SeqMax
    BY <1>1, <1>6
  <2>2. \A j \in 1 .. n + 1 : x[j] = IF j = n + 1 THEN row ELSE w[j]
    BY <2>1
  <2> HIDE DEF x
  <2>3. \A j \in 1 .. n + 1 : x[j][2] = Append(s, tok)[j]
    BY <1>1, <1>3, <2>1, <2>2 DEF Follows
  <2>4. ASSUME NEW j \in 1 .. n + 1
        PROVE  x[j][1].pos = j - 1
    <3>1. CASE j = n + 1
      BY <1>1, <2>1, <2>2, <3>1
    <3>2. CASE j # n + 1
      <4>1. j \in 1 .. Len(w) /\ x[j] = w[j] /\ n <= SeqMax + 1
        BY <1>1, <2>1, <2>2, <3>2, SizeAssumption
      <4>2. w[j][1].pos = n - Len(w) + j - 1
        BY <1>5, <4>1
      <4> QED  BY <1>1, <2>1, <4>1, <4>2
    <3> QED  BY <3>1, <3>2
  <2> DEFINE z == Append(s, tok)
  <2>5. Len(z) = n + 1 /\ Len(x) = Len(z)
    BY <1>2, <2>1
  <2>6. \A j \in 1 .. Len(x) : x[j][2] = z[Len(z) - Len(x) + j]
    BY <1>1, <2>1, <2>3, <2>5
  <2>7. \A j \in 1 .. Len(x) : x[j][1].pos = Len(z) - Len(x) + j - 1
    BY <1>1, <2>1, <2>4, <2>5
  <2>8. Len(x) = IF Len(z) < SeqMax THEN Len(z) ELSE SeqMax
    BY <1>1, <2>1, <2>5, SizeAssumption
  <2> HIDE DEF z, n
  <2>9. Follows(x, z)
    BY <2>6, <2>7, <2>8 DEF Follows
  <2> QED  BY <1>6, <2>9 DEF x, z
<1>7. CASE ~(Len(w) < SeqMax)
  <2> DEFINE x == Append(Tail(w), row)
  <2>1. Len(w) = SeqMax /\ n >= SeqMax /\ Len(Tail(w)) = SeqMax - 1
        /\ Tail(w) \in Seq(R)
    BY <1>1, <1>7, SizeAssumption
  <2>2. \A j \in 1 .. SeqMax - 1 : Tail(w)[j] = w[j + 1]
    BY <2>1, SizeAssumption
  <2>3. Len(x) = SeqMax
    BY <2>1, SizeAssumption
  <2>4. \A j \in 1 .. SeqMax : x[j] = IF j = SeqMax THEN row ELSE w[j + 1]
    BY <2>1, <2>2, SizeAssumption
  <2> HIDE DEF x
  <2>5. ASSUME NEW j \in 1 .. SeqMax
        PROVE  /\ x[j][2] = Append(s, tok)[(n + 1) - SeqMax + j]
               /\ n + 1 <= SeqMax + 1 => x[j][1].pos = (n + 1) - SeqMax + j - 1
    <3>1. CASE j = SeqMax
      <4>1. x[j] = row /\ (n + 1) - SeqMax + j = n + 1
        BY <1>1, <2>1, <2>4, <3>1, SizeAssumption
      <4>2. n + 1 <= SeqMax + 1 => k.pos = (n + 1) - SeqMax + j - 1
        BY <1>1, <2>1, <3>1, SizeAssumption
      <4> QED  BY <1>1, <1>3, <4>1, <4>2
    <3>2. CASE j # SeqMax
      <4>0. x[j] = w[j + 1] /\ j + 1 \in 1 .. Len(w)
        BY <2>1, <2>4, <3>2, SizeAssumption
      <4>1. /\ x[j] = w[j + 1] /\ j + 1 \in 1 .. Len(w)
            /\ n - Len(w) + (j + 1) = (n + 1) - SeqMax + j
            /\ (n + 1) - SeqMax + j \in 1 .. n
        <5> HIDE DEF x, n, row
        <5> QED  BY <1>1, <2>1, <4>0, <3>2, SizeAssumption
      <4>2. w[j + 1][2] = s[n - Len(w) + (j + 1)]
        BY <1>4, <4>1
      <4>3. n <= SeqMax + 1 => w[j + 1][1].pos = n - Len(w) + (j + 1) - 1
        BY <1>5, <4>1
      <4>4. Append(s, tok)[(n + 1) - SeqMax + j] = s[(n + 1) - SeqMax + j]
        BY <1>1, <1>3, <4>1
      <4>5. x[j][2] = Append(s, tok)[(n + 1) - SeqMax + j]
        BY <4>1, <4>2, <4>4
      <4>6. Len(w) = SeqMax /\ SeqMax \in Nat /\ n \in Nat
        BY <1>1, <2>1, SizeAssumption
      <4> HIDE DEF n
      <4>7. n - SeqMax + (j + 1) - 1 = (n + 1) - SeqMax + j - 1
        BY <4>6
      <4>8. n + 1 <= SeqMax + 1 => x[j][1].pos = (n + 1) - SeqMax + j - 1
        BY <4>1, <4>3, <4>6, <4>7
      <4> QED  BY <4>5, <4>8
    <3> QED  BY <3>1, <3>2
  <2>6. Len(x) = IF n + 1 < SeqMax THEN n + 1 ELSE SeqMax
    BY <1>1, <2>1, <2>3, SizeAssumption
  <2>7. \A j \in 1 .. Len(x) : x[j][2] = Append(s, tok)[(n + 1) - Len(x) + j]
    BY <2>3, <2>5
  <2>8. n + 1 <= SeqMax + 1 =>
          \A j \in 1 .. Len(x) : x[j][1].pos = (n + 1) - Len(x) + j - 1
    BY <2>3, <2>5
  <2> DEFINE z == Append(s, tok)
  <2>9. Len(z) = n + 1
    BY <1>2
  <2> HIDE DEF z, n
  <2>10. Follows(x, z)
    BY <2>6, <2>7, <2>8, <2>9 DEF Follows, z
  <2> QED  BY <1>7, <2>10 DEF x, z
<1> QED  BY <1>6, <1>7

(* The window of a layer is a sequence of rows, as long as the layer.      *)
LEMMA WindowType ==
  ASSUME Cache!TypeOK, NEW l \in Layer
  PROVE  /\ Cache!Window(l) \in Seq((KeyRow \cup {<<>>}) \X (Token \cup {<<>>}))
         /\ Len(Cache!Window(l)) = lengths[l]
<1> USE DEF Cache!Layer, Ring!Layer, Cache!Slot, Ring!Slot, Layer, KeyRow
<1>1. Ring!TypeOK
  BY DEF Cache!TypeOK, Ring!TypeOK
<1>2. Ring!Window(l) = Cache!Window(l)
  BY DEF Ring!Window, Cache!Window, Ring!Row, Cache!Row, Ring!Phys, Cache!Phys
<1>3. /\ Ring!Window(l) \in Seq((KeyRow \cup {<<>>}) \X (Token \cup {<<>>}))
      /\ Len(Ring!Window(l)) = lengths[l]
  BY <1>1, RingAssumptions, Ring!WindowIsASequence
<1> QED  BY <1>2, <1>3

LEMMA CachedAreLayers == Cached \subseteq Layer /\ Cached \subseteq Int
BY SizeAssumption DEF Layer, Cache!Layer

(* Windows that stay, of a context that stays, still follow.               *)
LEMMA RingsUntouched ==
  ASSUME RingsFollow, UNCHANGED cacheVars,
         Busy' => Busy,
         \A l \in Cached : Seen(l)' = Seen(l)
  PROVE  RingsFollow'
<1>1. \A l \in Cached : Cache!Window(l)' = Cache!Window(l)
  BY DEF cacheVars, Cache!Window, Cache!Row, Cache!Phys
<1> QED  BY <1>1 DEF RingsFollow

(* After a reset the windows and the context are empty.                    *)
LEMMA RingsEmptied ==
  ASSUME lengths' = Cache!Zeroes, context' = <<>>, ~running'
  PROVE  RingsFollow'
<1> SUFFICES ASSUME NEW l \in Cached
             PROVE  Follows(Cache!Window(l)', Seen(l)')
  BY DEF RingsFollow
<1>1. Cache!Window(l)' = <<>>
  BY CachedAreLayers DEF Cache!Window, Cache!Zeroes, Layer
<1>2. Seen(l)' = <<>>
  BY DEF Seen
<1> QED  BY <1>1, <1>2, EmptyFollows

LEMMA RingsStep ==
  ASSUME TypeInv, RingsFollow, [Next]_vars
  PROVE  RingsFollow'
<1>1. CASE RunLayer
  <2>1. CASE /\ layer \in Cached
             /\ Cache!AppendRow(layer, [tok |-> cur, pos |-> StartPos(layer)], cur)
    <3> SUFFICES ASSUME Busy, NEW l \in Cached
                 PROVE  Follows(Cache!Window(l)', Seen(l)')
      BY <1>1 DEF RingsFollow, RunLayer, Busy
    <3> DEFINE k == [tok |-> cur, pos |-> lengths[layer]]
    <3>1. layer \in Layer /\ l \in Layer /\ layer \in Int /\ l \in Int
      BY <2>1, CachedAreLayers
    <3>2. cur \in Token /\ k \in KeyRow /\ context \in Seq(Token) /\ k.pos = lengths[layer]
      BY <3>1 DEF TypeInv, TypeOK, Cache!TypeOK, Layer, KeyRow
    <3>3. Cache!AppendRow(layer, k, cur)
      BY <2>1 DEF StartPos
    <3> HIDE DEF k
    <3>4. Follows(Cache!Window(l), Seen(l))
      BY DEF RingsFollow
    <3>5. CASE l = layer
      <4>1. Seen(l) = context /\ Seen(l)' = Append(context, cur)
        BY <1>1, <3>1, <3>5 DEF RunLayer, Seen
      <4>2. /\ Cache!Window(l) \in Seq((KeyRow \cup {<<>>}) \X (Token \cup {<<>>}))
            /\ Len(Cache!Window(l)) = lengths[l]
            /\ Cache!Window(l)' = IF lengths[l] < SeqMax
                                  THEN Append(Cache!Window(l), <<k, cur>>)
                                  ELSE Append(Tail(Cache!Window(l)), <<k, cur>>)
        BY <3>1, <3>2, <3>3, <3>5, CacheAppend DEF TypeInv, TypeOK
      <4> QED  BY <3>2, <3>4, <3>5, <4>1, <4>2, SlideFollows
    <3>6. CASE l # layer
      <4>1. Seen(l)' = Seen(l)
        BY <1>1, <3>1, <3>6 DEF RunLayer, Seen
      <4>2. Cache!Window(l)' = Cache!Window(l)
        BY <3>1, <3>2, <3>3, <3>6, CacheAppend DEF TypeInv, TypeOK
      <4> QED  BY <3>4, <4>1, <4>2
    <3> QED  BY <3>5, <3>6
  <2>2. CASE layer \notin Cached /\ UNCHANGED cacheVars
    <3>1. \A l \in Cached : Seen(l)' = Seen(l)
      BY <1>1, <2>2, CachedAreLayers DEF RunLayer, Seen, TypeInv, TypeOK
    <3> QED  BY <1>1, <2>2, <3>1, RingsUntouched DEF RunLayer, Busy
  <2> QED  BY <1>1, <2>1, <2>2 DEF RunLayer
<1>2. CASE PrefillDone \/ DecodeDone
  <2>1. \A l \in Cached : Seen(l)' = Seen(l)
    <3>1. FinishForward
      BY <1>2 DEF PrefillDone, DecodeDone
    <3>2. \A l \in Cached : l < LayerCount
      BY SizeAssumption
    <3> QED  BY <3>1, <3>2 DEF FinishForward, Seen
  <2> QED
    BY <1>2, <2>1, RingsUntouched
    DEF PrefillDone, DecodeDone, FinishForward, Busy
<1>3. CASE PrefillToken \/ DecodeForward
  <2>1. \A l \in Cached : Seen(l)' = Seen(l)
    BY <1>3, SizeAssumption DEF PrefillToken, DecodeForward, StartForward, Seen
  <2> QED
    BY <1>3, <2>1, RingsUntouched DEF PrefillToken, DecodeForward, StartForward, Busy
<1>4. ASSUME NEW n \in 0 .. PromptMax, Generate(n) PROVE RingsFollow'
  <2>1. lengths' = Cache!Zeroes /\ context' = <<>> /\ ~running'
    BY <1>4 DEF Generate, ResetCache, Cache!Reset, TypeInv, TypeOK, fwdVars
  <2> QED  BY <2>1, RingsEmptied
<1>5. CASE SampleContinues
  <2>1. CASE UNCHANGED <<cacheVars, context>>
    BY <1>5, <2>1, RingsUntouched DEF SampleContinues, Seen, Busy, fwdVars
  <2>2. CASE ResetCache
    <3>1. live
      BY <1>5 DEF SampleContinues, TypeInv, Busy
    <3>2. lengths' = Cache!Zeroes /\ context' = <<>> /\ ~running'
      BY <1>5, <2>2, <3>1
      DEF ResetCache, Cache!Reset, SampleContinues, TypeInv, TypeOK, fwdVars
    <3> QED  BY <3>2, RingsEmptied
  <2> QED  BY <1>5, <2>1, <2>2 DEF SampleContinues
<1>6. CASE PrefillEnd \/ DecodeReuse \/ UNCHANGED vars
  BY <1>6, RingsUntouched DEF PrefillEnd, DecodeReuse, Busy, Seen, vars, fwdVars
<1>7. CASE \/ Open \/ Close \/ ClientReset \/ GenerateWithoutCache \/ FailForward
           \/ PrefillNoEmbedding \/ DecodeNoEmbedding \/ SampleFails \/ SampleStops
  <2>1. ~Busy'
    BY <1>7 DEF Open, Close, ClientReset, GenerateWithoutCache, FailForward,
       PrefillNoEmbedding, DecodeNoEmbedding, SampleFails, SampleStops, Return, Busy
  <2> QED  BY <2>1 DEF RingsFollow
<1> QED
  BY <1>1, <1>2, <1>3, <1>4, <1>5, <1>6, <1>7 DEF Next, GenerateStep, ClientStep

(* Attention in a layer always reads the last seq_max tokens of the call   *)
(* in order, whatever failed, wrapped or was reset before: the rings of    *)
(* all the layers the cache fits describe one sequence.                    *)
THEOREM LayersAgree == Spec => []LayersShareOneContext
<1>1. Init => RingsFollow
  BY DEF Init, RingsFollow, Busy
<1>2. TypeInv /\ RingsFollow /\ [Next]_vars => TypeInv' /\ RingsFollow'
  BY TypeInvStep, RingsStep
<1>3. TypeInv /\ RingsFollow => LayersShareOneContext
  <2> SUFFICES ASSUME TypeInv, RingsFollow, Busy, NEW l \in Cached
               PROVE  [j \in 1 .. lengths[l] |-> CachedToken(l, j - 1)]
                        = Recent(Seen(l))
    BY DEF LayersShareOneContext
  <2> DEFINE s == Seen(l)
             w == Cache!Window(l)
             n == Len(s)
  <2>1. Follows(w, s) /\ Len(w) = lengths[l] /\ lengths[l] \in Nat
    BY CachedAreLayers, WindowType, SizeAssumption
    DEF RingsFollow, TypeInv, TypeOK, Cache!TypeOK, Layer
  <2>2. s \in Seq(Token) /\ n \in Nat
    BY DEF Seen, TypeInv, TypeOK
  <2>3. \A j \in 1 .. lengths[l] : w[j][2] = CachedToken(l, j - 1)
    BY DEF Cache!Window, Cache!Row, CachedToken
  <2>4. Recent(s) = [j \in 1 .. lengths[l] |-> s[n - lengths[l] + j]]
    <3>1. CASE n <= SeqMax
      BY <2>1, <2>2, <3>1, SizeAssumption DEF Follows, Recent
    <3>2. CASE n > SeqMax
      <4>0. lengths[l] = SeqMax
        BY <2>1, <2>2, <3>2, SizeAssumption DEF Follows
      <4>1. Recent(s) = SubSeq(s, n - SeqMax + 1, n) /\ lengths[l] = SeqMax
        <5> HIDE DEF w, s
        <5> QED  BY <2>2, <3>2, <4>0, SizeAssumption DEF Recent
      <4>2. SubSeq(s, n - SeqMax + 1, n) = [j \in 1 .. SeqMax |-> s[n - SeqMax + j]]
        BY <2>2, <3>2, SizeAssumption
      <4> QED  BY <4>1, <4>2
    <3> QED  BY <2>2, <3>1, <3>2, SizeAssumption
  <2> QED  BY <2>1, <2>3, <2>4 DEF Follows
<1> QED  BY <1>1, <1>2, <1>3, TypeInvInit, PTL DEF Spec

(* Until a ring has overwritten more than one row, the rotary position of  *)
(* every key that attention reads is the place of its token.               *)
THEOREM PositionsExact == Spec => []PositionsExactUntilFull
<1>1. Init => RingsFollow
  BY DEF Init, RingsFollow, Busy
<1>2. TypeInv /\ RingsFollow /\ [Next]_vars => TypeInv' /\ RingsFollow'
  BY TypeInvStep, RingsStep
<1>3. TypeInv /\ RingsFollow => PositionsExactUntilFull
  <2> SUFFICES ASSUME TypeInv, RingsFollow, Busy, NEW l \in Cached,
                      Len(Seen(l)) <= SeqMax + 1, NEW j \in 0 .. lengths[l] - 1
               PROVE  CachedKey(l, j).pos = Len(Seen(l)) - lengths[l] + j
    BY DEF PositionsExactUntilFull
  <2>1. /\ Follows(Cache!Window(l), Seen(l)) /\ Len(Cache!Window(l)) = lengths[l]
        /\ lengths[l] \in Nat
    BY CachedAreLayers, WindowType, SizeAssumption
    DEF RingsFollow, TypeInv, TypeOK, Cache!TypeOK, Layer
  <2>2. Seen(l) \in Seq(Token)
    BY DEF Seen, TypeInv, TypeOK
  <2>3. j + 1 \in 1 .. lengths[l] /\ (j + 1) - 1 = j
    BY <2>1
  <2>4. Cache!Window(l)[j + 1][1] = CachedKey(l, j)
    BY <2>1, <2>3 DEF Cache!Window, Cache!Row, CachedKey
  <2>5. Cache!Window(l)[j + 1][1].pos = Len(Seen(l)) - lengths[l] + (j + 1) - 1
    BY <2>1, <2>3 DEF Follows
  <2> QED  BY <2>1, <2>2, <2>4, <2>5
<1> QED  BY <1>1, <1>2, <1>3, TypeInvInit, PTL DEF Spec

-----------------------------------------------------------------------------
(* The sequence of a call                                                  *)

LastIs(s, tok) == s # <<>> => s[Len(s)] = tok

(* Where the call stands decides what the context is.  In the prefill it   *)
(* is the prompt so far.  In the loop it ends with the token before        *)
(* `last' once a token was chosen, and at first either with the last       *)
(* prompt token, whose output is kept or was lost, or it is empty.         *)
CallFollows ==
  /\ phase = "prefill" =>
       /\ last = (IF prompt = 0 THEN 0 ELSE prompt - 1)
       /\ context = [i \in 1 .. prefill_i |-> <<call, i - 1>>]
       /\ running => cur = <<call, prefill_i>> /\ prefill_i < prompt
       /\ kept \/ cloneLost <=> prefill_i = prompt /\ prompt > 0
       /\ ~(kept /\ cloneLost)
  /\ phase = "decode" =>
       /\ running => cur = <<call, last>> /\ ~ReusesPrefill
       /\ t = 0 /\ kept => ~cloneLost /\ LastIs(context, <<call, last>>)
       /\ t = 0 /\ ~kept /\ ~cloneLost => context = <<>>
       /\ t > 0 => LastIs(context, <<call, last - 1>>)
  /\ phase = "sample" => LastIs(context, <<call, last>>)
  /\ Busy /\ ~cloneLost => Contiguous(context)

(* A sequence grows by its successor and stays contiguous.                 *)
LEMMA ContiguousGrows ==
  ASSUME NEW s \in Seq(Token), Contiguous(s), NEW c \in Int, NEW i \in Int,
         <<c, i>> \in Token, LastIs(s, <<c, i - 1>>)
  PROVE  Contiguous(Append(s, <<c, i>>))
<1> DEFINE z == Append(s, <<c, i>>)
<1>1. /\ Len(z) = Len(s) + 1 /\ Len(s) \in Nat
      /\ \A j \in 1 .. Len(s) + 1 : z[j] = IF j = Len(s) + 1 THEN <<c, i>> ELSE s[j]
  OBVIOUS
<1> HIDE DEF z
<1> SUFFICES ASSUME NEW j \in 1 .. Len(s)
             PROVE  z[j + 1] = <<z[j][1], z[j][2] + 1>>
  BY <1>1 DEF Contiguous, z
<1>2. CASE j = Len(s)
  <2>1. s[Len(s)] = <<c, i - 1>>
    BY <1>1, <1>2 DEF LastIs
  <2> QED  BY <1>1, <1>2, <2>1
<1>3. CASE j # Len(s)
  <2>1. s[j + 1] = <<s[j][1], s[j][2] + 1>>
    BY <1>1, <1>3 DEF Contiguous
  <2> QED  BY <1>1, <1>3, <2>1
<1> QED  BY <1>2, <1>3

LEMMA LastAfterAppend ==
  ASSUME NEW s \in Seq(Token), NEW tok \in Token
  PROVE  LastIs(Append(s, tok), tok) /\ Append(s, tok) # <<>>
BY DEF LastIs

LEMMA EmptyIsContiguous == Contiguous(<<>>)
BY DEF Contiguous

LEMMA CallStep ==
  ASSUME TypeInv, CallFollows, [Next]_vars
  PROVE  CallFollows'
<1> USE DEF TypeInv, TypeOK
<1>1. ASSUME NEW n \in 0 .. PromptMax, Generate(n) PROVE CallFollows'
  <2>1. /\ context' = <<>> /\ ~running' /\ ~kept' /\ ~cloneLost' /\ prompt' = n
        /\ prefill_i' = 0 /\ last' = (IF n = 0 THEN 0 ELSE n - 1)
        /\ phase' \in {"prefill", "idle"}
    BY <1>1 DEF Generate, ResetCache, fwdVars, Return
  <2>2. <<>> = [i \in 1 .. 0 |-> <<call', i - 1>>]
    OBVIOUS
  <2> QED  BY <2>1, <2>2, EmptyIsContiguous, SizeAssumption DEF CallFollows
<1>2. CASE RunLayer
  BY <1>2 DEF RunLayer, CallFollows, loopVars, Busy, ReusesPrefill
<1>3. CASE PrefillToken
  BY <1>3 DEF PrefillToken, StartForward, CallFollows, loopVars, Busy
<1>4. CASE DecodeForward
  BY <1>4 DEF DecodeForward, StartForward, CallFollows, loopVars, Busy, ReusesPrefill
<1>5. CASE PrefillDone
  <2>1. /\ cur = <<call, prefill_i>> /\ prefill_i < prompt /\ prefill_i \in Nat
        /\ prompt \in Nat /\ call \in Nat /\ cur \in Token /\ ~kept /\ ~cloneLost
        /\ context = [i \in 1 .. prefill_i |-> <<call, i - 1>>]
        /\ context \in Seq(Token) /\ Contiguous(context)
    BY <1>5, SizeAssumption DEF PrefillDone, FinishForward, CallFollows, Busy
  <2>2. /\ context' = Append(context, cur) /\ prefill_i' = prefill_i + 1
        /\ ~running' /\ phase' = "prefill"
        /\ prompt' = prompt /\ call' = call /\ last' = last
        /\ kept' \/ cloneLost' <=> prefill_i' = prompt' /\ prompt' > 0
        /\ ~(kept' /\ cloneLost')
    BY <1>5, <2>1 DEF PrefillDone, FinishForward
  <2>3. context' = [i \in 1 .. prefill_i' |-> <<call', i - 1>>]
    BY <2>1, <2>2
  <2>4. LastIs(context, <<call, prefill_i - 1>>)
    BY <2>1 DEF LastIs
  <2>5. Contiguous(context')
    <3>1. /\ context \in Seq(Token) /\ Contiguous(context)
          /\ call \in Int /\ prefill_i \in Int /\ <<call, prefill_i>> \in Token
      BY <2>1
    <3>2. Contiguous(Append(context, <<call, prefill_i>>))
      BY <2>4, <3>1, ContiguousGrows
    <3> QED  BY <2>1, <2>2, <3>2
  <2> QED  BY <1>5, <2>2, <2>3, <2>5 DEF CallFollows, PrefillDone
<1>6. CASE PrefillEnd
  <2>1. /\ phase = "prefill" /\ phase' = "decode" /\ ~running' /\ prefill_i = prompt
        /\ UNCHANGED <<context, prompt, kept, t, last, call, cloneLost>>
    BY <1>6 DEF PrefillEnd, fwdVars, loopVars
  <2>2. /\ last = (IF prompt = 0 THEN 0 ELSE prompt - 1) /\ prompt \in Nat
        /\ context = [i \in 1 .. prompt |-> <<call, i - 1>>]
        /\ kept \/ cloneLost <=> prompt > 0
        /\ ~(kept /\ cloneLost) /\ t = 0
        /\ ~cloneLost => Contiguous(context)
    BY <2>1, SizeAssumption DEF CallFollows, Busy
  <2>3. kept => LastIs(context, <<call, last>>)
    BY <2>2 DEF LastIs
  <2>4. ~kept /\ ~cloneLost => context = <<>>
    BY <2>2
  <2> QED  BY <2>1, <2>2, <2>3, <2>4 DEF CallFollows
<1>7. CASE DecodeReuse
  BY <1>7 DEF DecodeReuse, ReusesPrefill, CallFollows, loopVars, fwdVars, Busy
<1>8. CASE DecodeDone
  <2>1. /\ phase = "decode" /\ running /\ cur = <<call, last>> /\ cur \in Token
        /\ context \in Seq(Token) /\ call \in Int /\ last \in Int
        /\ ~ReusesPrefill /\ t \in Nat
    BY <1>8, SizeAssumption DEF DecodeDone, FinishForward, CallFollows
  <2>2. /\ context' = Append(context, cur) /\ phase' = "sample"
        /\ call' = call /\ last' = last /\ cloneLost' = cloneLost
    BY <1>8 DEF DecodeDone, FinishForward
  <2>3. LastIs(context', <<call', last'>>)
    BY <2>1, <2>2, LastAfterAppend
  <2>4. ~cloneLost => Contiguous(context) /\ LastIs(context, <<call, last - 1>>)
    <3>1. CASE t = 0 /\ ~cloneLost
      BY <2>1, <3>1 DEF CallFollows, ReusesPrefill, Busy, LastIs
    <3>2. CASE t > 0
      BY <2>1, <3>2 DEF CallFollows, Busy
    <3> QED  BY <2>1, <3>1, <3>2
  <2>5. ASSUME ~cloneLost PROVE Contiguous(context')
    <3>1. Contiguous(Append(context, <<call, last>>))
      BY <2>1, <2>4, <2>5, ContiguousGrows
    <3> QED  BY <2>1, <2>2, <3>1
  <2> QED  BY <2>2, <2>3, <2>5 DEF CallFollows
<1>9. CASE SampleContinues
  <2>1. /\ phase = "sample" /\ last' = last + 1 /\ t' = t + 1 /\ ~running'
        /\ call' = call /\ cloneLost' = cloneLost /\ kept' = kept
        /\ phase' \in {"decode", "idle"}
        /\ last \in Int /\ t \in Nat
    BY <1>9, SizeAssumption DEF SampleContinues, Return, fwdVars
  <2>2. context' = <<>> \/ context' = context
    BY <1>9 DEF SampleContinues, ResetCache
  <2>3. LastIs(context', <<call', last' - 1>>)
    BY <2>1, <2>2 DEF CallFollows, LastIs
  <2>4. ~cloneLost => Contiguous(context')
    BY <2>1, <2>2, EmptyIsContiguous DEF CallFollows, Busy
  <2> QED  BY <2>1, <2>3, <2>4 DEF CallFollows
<1>10. CASE UNCHANGED vars
  BY <1>10 DEF vars, CallFollows, loopVars, fwdVars, Busy, ReusesPrefill
<1>11. CASE \/ Open \/ Close \/ ClientReset \/ GenerateWithoutCache \/ FailForward
           \/ PrefillNoEmbedding \/ DecodeNoEmbedding \/ SampleFails \/ SampleStops
  <2>1. phase' \in {"idle", "closed"}
    BY <1>11 DEF Open, Close, ClientReset, GenerateWithoutCache, FailForward,
       PrefillNoEmbedding, DecodeNoEmbedding, SampleFails, SampleStops, Return, Busy
  <2> QED  BY <2>1 DEF CallFollows, Busy
<1> QED
  BY <1>1, <1>2, <1>3, <1>4, <1>5, <1>6, <1>7, <1>8, <1>9, <1>10, <1>11
  DEF Next, GenerateStep, ClientStep

(* The answer is sampled from the hidden state of the latest token, and no *)
(* token of a call is skipped or forwarded twice, the hand-over from       *)
(* prefill to generation included, unless the clone of the prefill's       *)
(* output failed.                                                          *)
THEOREM NothingSkipped == Spec => []SequenceUnbroken
<1>1. Init => CallFollows
  BY DEF Init, CallFollows, Busy
<1>2. TypeInv /\ CallFollows /\ [Next]_vars => TypeInv' /\ CallFollows'
  BY TypeInvStep, CallStep
<1>3. CallFollows => SequenceUnbroken
  BY DEF CallFollows, SequenceUnbroken, LastIs
<1> QED  BY <1>1, <1>2, <1>3, TypeInvInit, PTL DEF Spec

(* The cache of a context is driven the way KVCache says: every step of a  *)
(* call is a step of the cache or leaves it alone.                         *)
THEOREM DrivesTheCache == Spec => Cache!Spec
<1>1. Init => Cache!Init
  BY DEF Init
<1>2. TypeInv /\ [Next]_vars => TypeInv'
  BY TypeInvStep
<1>3. TypeInv /\ [Next]_vars => [Cache!Next]_(Cache!vars)
  BY StepOfCache DEF TypeInv, cacheVars, Cache!vars
<1> QED  BY <1>1, <1>2, <1>3, TypeInvInit, PTL DEF Spec, Cache!Spec
=============================================================================
