----------------------------- MODULE TextProofs -----------------------------
(***************************************************************************)
(* The text of a conversation: what the token buffers keep, for every      *)
(* vocabulary, every set of markers and every bound, and what the          *)
(* tokenizer keeps of a text, for every vocabulary and every text.         *)
(*                                                                         *)
(* TokenStream.  An iteration of the loop puts the new step into one of    *)
(* the places and then perhaps empties the buffers into the record;        *)
(* Placed(h, G, B, F, D) says that the steps of the history h are laid out *)
(* over the record G, the bytes B, the pieces F and the suppressed D, each *)
(* in one place and each class in order.  Each half of an iteration keeps  *)
(* it: the lemmas Role-, Byte- and PiecePlaced for the first, FlushPlaced  *)
(* and DropPlaced for the second.  NoLongRepetition needs what repeat_run  *)
(* means: the length of the last run of equal texts of the history (Runs). *)
(*                                                                         *)
(* Tokenizer.  The state matters little: ids in use were made of the       *)
(* vocabulary that is loaded (TextInv).  The properties are about loops    *)
(* over a text, each the Onward of its pieces and its next positions; a    *)
(* loop is reasoned about from its last position back (Downward)  .        *)
(*   - A round of merges is some turns of one merge each (RoundByTurns).   *)
(*   - The rest of a text is encoded as if it stood alone (OnwardShift).   *)
(*   - Text is decoded piece by piece wherever no symbol stands across two *)
(*     pieces (DecodeCat), and a mark decodes to what streaming replaces   *)
(*     it with (RenderedIs).                                               *)
(*   - Symbols decode to their bytes (EncodedIs), merging and cutting      *)
(*     keep the string and never cut a symbol (Keeps), and a token's id    *)
(*     says the token (SaysBytes): ids decode to the text they encode.     *)
(***************************************************************************)
EXTENDS TokenStream, Tokenizer, SequenceTheorems, FiniteSetTheorems,
        WellFoundedInduction, TLAPS

-----------------------------------------------------------------------------
(* The places.                                                             *)

StepsOf(h) == 1 .. Len(h)
BytesOf(h) == {s \in StepsOf(h) : h[s] \in Byte}
PiecesOf(h) == {s \in StepsOf(h) : h[s] \notin Byte \cup Role}

Once(s) == \A i, j \in DOMAIN s : s[i] = s[j] => i = j
NoneIn(A, B) == A \cap B = {}
Before(A, B) == \A a \in A, b \in B : a < b

(* The four places: their types, ...                                       *)
InPlace(h, G, B, F) ==
  /\ h \in Seq(Tok)
  /\ G \in Seq(BytesOf(h) \cup PiecesOf(h))
  /\ B \in Seq(BytesOf(h)) /\ F \in Seq(PiecesOf(h))

(* ... no step twice, ...                                                  *)
OnePlace(h, G, B, F, D) ==
  /\ Once(G) /\ Once(B) /\ Once(F)
  /\ NoneIn(ToSet(G), ToSet(B)) /\ NoneIn(ToSet(G), ToSet(F))
  /\ NoneIn(ToSet(G) \cup ToSet(B) \cup ToSet(F), D)
  /\ ToSet(G) \cup ToSet(B) \cup ToSet(F) \cup D = BytesOf(h) \cup PiecesOf(h)

(* ... and each class in order.                                            *)
Ordered(h, G, B, F) ==
  /\ InOrder(G, BytesOf(h)) /\ InOrder(G, PiecesOf(h))
  /\ InOrder(B, BytesOf(h)) /\ InOrder(F, PiecesOf(h))
  /\ Before(ToSet(G) \cap BytesOf(h), ToSet(B))
  /\ Before(ToSet(G) \cap PiecesOf(h), ToSet(F))

Placed(h, G, B, F, D) ==
  InPlace(h, G, B, F) /\ OnePlace(h, G, B, F, D) /\ Ordered(h, G, B, F)

(* repeat_run is how often the last text has been repeated up to here: it  *)
(* begins the history or follows another text.                             *)
Runs ==
  /\ run \in Nat /\ run <= Len(history)
  /\ history = <<>> => lastRaw = <<>>
  /\ history # <<>> => lastRaw = Text[history[Len(history)]]
  /\ lastRaw # <<>> =>
       /\ run \in 1 .. RepeatLimit - 1
       /\ run < Len(history) => Text[history[Len(history) - run]] # lastRaw

Inv ==
  /\ TypeOK
  /\ Placed(history, gen_ids, pendB, pendF, dropped)
  /\ shown = Len(gen_ids) + Len(pendB)
  /\ phase = "loop" => Runs

-----------------------------------------------------------------------------
(* Sequences.                                                              *)

(* What one sequence after the other holds.                                *)
LEMMA ConcatSet ==
  ASSUME NEW S, NEW s \in Seq(S), NEW t \in Seq(S)
  PROVE  s \o t \in Seq(S) /\ ToSet(s \o t) = ToSet(s) \cup ToSet(t)
         /\ Len(s \o t) = Len(s) + Len(t)
<1>1. /\ s \o t \in Seq(S) /\ Len(s \o t) = Len(s) + Len(t)
      /\ DOMAIN (s \o t) = 1 .. Len(s) + Len(t)
      /\ DOMAIN s = 1 .. Len(s) /\ DOMAIN t = 1 .. Len(t) /\ Len(s) \in Nat /\ Len(t) \in Nat
  OBVIOUS
<1>2. \A i \in 1 .. Len(s) : (s \o t)[i] = s[i] OBVIOUS
<1>3. \A i \in 1 .. Len(t) : Len(s) + i \in 1 .. Len(s) + Len(t) /\ (s \o t)[Len(s) + i] = t[i]
  OBVIOUS
<1>4. \A i \in 1 .. Len(s) + Len(t) : i \in 1 .. Len(s) \/ \E j \in 1 .. Len(t) : i = Len(s) + j
  <2>1. TAKE i \in 1 .. Len(s) + Len(t)
  <2>2. CASE i <= Len(s) BY <1>1, <2>2
  <2>3. CASE i > Len(s)
    <3>1. i - Len(s) \in 1 .. Len(t) /\ i = Len(s) + (i - Len(s)) BY <1>1, <2>3
    <3> QED BY <3>1
  <2> QED BY <1>1, <2>2, <2>3
<1>5. ToSet(s \o t) \subseteq ToSet(s) \cup ToSet(t)
  <2>1. SUFFICES ASSUME NEW i \in 1 .. Len(s) + Len(t)
                 PROVE  (s \o t)[i] \in ToSet(s) \cup ToSet(t)
    BY <1>1 DEF ToSet
  <2>2. CASE i \in 1 .. Len(s) BY <1>1, <1>2, <2>2 DEF ToSet
  <2>3. CASE \E j \in 1 .. Len(t) : i = Len(s) + j BY <1>1, <1>3, <2>3 DEF ToSet
  <2> QED BY <1>4, <2>1, <2>2, <2>3
<1>6. ToSet(s) \cup ToSet(t) \subseteq ToSet(s \o t)
  <2>1. ToSet(s) \subseteq ToSet(s \o t) BY <1>1, <1>2 DEF ToSet
  <2>2. ToSet(t) \subseteq ToSet(s \o t) BY <1>1, <1>3 DEF ToSet
  <2> QED BY <2>1, <2>2
<1> QED BY <1>1, <1>5, <1>6

(* An appended element.                                                    *)
LEMMA AppendSet ==
  ASSUME NEW S, NEW s \in Seq(S), NEW x \in S
  PROVE  /\ Append(s, x) \in Seq(S) /\ Len(Append(s, x)) = Len(s) + 1
         /\ ToSet(Append(s, x)) = ToSet(s) \cup {x}
         /\ Append(s, x)[Len(s) + 1] = x
         /\ \A i \in 1 .. Len(s) : Append(s, x)[i] = s[i]
         /\ DOMAIN Append(s, x) = 1 .. Len(s) + 1 /\ DOMAIN s = 1 .. Len(s) /\ Len(s) \in Nat
BY DEF ToSet

(* The empty sequence.                                                     *)
LEMMA EmptySet == ToSet(<<>>) = {} /\ Once(<<>>) /\ \A C : InOrder(<<>>, C)
BY DEF ToSet, Once, InOrder

(* The elements of a sequence are where its type says.                     *)
LEMMA SetOfSeq == ASSUME NEW S, NEW s \in Seq(S) PROVE ToSet(s) \subseteq S
BY DEF ToSet

(* A sequence over a set is one over a larger set.                         *)
LEMMA LargerSeq == ASSUME NEW S, NEW T, S \subseteq T, NEW s \in Seq(S) PROVE s \in Seq(T)
BY SeqMonotonic

(* Two sequences without repetitions and without a common element.         *)
LEMMA ConcatOnce ==
  ASSUME NEW S, NEW s \in Seq(S), NEW t \in Seq(S), Once(s), Once(t),
         NoneIn(ToSet(s), ToSet(t))
  PROVE  Once(s \o t)
<1>1. /\ DOMAIN (s \o t) = 1 .. Len(s) + Len(t) /\ DOMAIN s = 1 .. Len(s)
      /\ DOMAIN t = 1 .. Len(t) /\ Len(s) \in Nat /\ Len(t) \in Nat
  OBVIOUS
<1>2. \A i \in 1 .. Len(s) + Len(t) :
        \/ i \in 1 .. Len(s) /\ (s \o t)[i] = s[i]
        \/ i - Len(s) \in 1 .. Len(t) /\ (s \o t)[i] = t[i - Len(s)]
  OBVIOUS
<1>3. \A i \in 1 .. Len(s), j \in 1 .. Len(t) : s[i] # t[j] BY <1>1 DEF ToSet, NoneIn
<1>4. SUFFICES ASSUME NEW i \in 1 .. Len(s) + Len(t), NEW j \in 1 .. Len(s) + Len(t),
                      (s \o t)[i] = (s \o t)[j]
               PROVE  i = j
  BY <1>1 DEF Once
<1>5. CASE i \in 1 .. Len(s) /\ (s \o t)[i] = s[i]
  <2>1. CASE j \in 1 .. Len(s) /\ (s \o t)[j] = s[j] BY <1>1, <1>4, <1>5, <2>1 DEF Once
  <2>2. CASE j - Len(s) \in 1 .. Len(t) /\ (s \o t)[j] = t[j - Len(s)]
    BY <1>3, <1>4, <1>5, <2>2
  <2> QED BY <1>2, <2>1, <2>2
<1>6. CASE i - Len(s) \in 1 .. Len(t) /\ (s \o t)[i] = t[i - Len(s)]
  <2>1. CASE j \in 1 .. Len(s) /\ (s \o t)[j] = s[j] BY <1>3, <1>4, <1>6, <2>1
  <2>2. CASE j - Len(s) \in 1 .. Len(t) /\ (s \o t)[j] = t[j - Len(s)]
    <3>1. i - Len(s) = j - Len(s) BY <1>1, <1>4, <1>6, <2>2 DEF Once
    <3> QED BY <1>1, <3>1
  <2> QED BY <1>2, <2>1, <2>2
<1> QED BY <1>2, <1>5, <1>6

(* A new element.                                                          *)
LEMMA AppendOnce ==
  ASSUME NEW S, NEW s \in Seq(S), NEW x \in S, Once(s), x \notin ToSet(s)
  PROVE  Once(Append(s, x))
BY AppendSet DEF Once, ToSet

(* A sequence without repetitions has as many elements as it is long.      *)
LEMMA OnceCount ==
  ASSUME NEW S, NEW s \in Seq(S), Once(s)
  PROVE  Len(s) = Cardinality(ToSet(s))
<1>1. DOMAIN s = 1 .. Len(s) /\ Len(s) \in Nat OBVIOUS
<1>2. IsFiniteSet(1 .. Len(s)) /\ Cardinality(1 .. Len(s)) = Len(s)
  BY <1>1, FS_Interval
<1>3. s \in [1 .. Len(s) -> ToSet(s)] BY <1>1 DEF ToSet
<1>4. ExistsBijection(1 .. Len(s), ToSet(s))
  BY <1>1, <1>3 DEF ExistsBijection, Bijection, Injection, Surjection, IsInjective, Once, ToSet
<1> QED BY <1>2, <1>4, FS_Bijection

(* The order within a concatenation.                                       *)
LEMMA ConcatInOrder ==
  ASSUME NEW S \in SUBSET Nat, NEW C, NEW s \in Seq(S), NEW t \in Seq(S),
         InOrder(s, C), InOrder(t, C), Before(ToSet(s) \cap C, ToSet(t) \cap C)
  PROVE  InOrder(s \o t, C)
<1>1. /\ DOMAIN (s \o t) = 1 .. Len(s) + Len(t) /\ DOMAIN s = 1 .. Len(s)
      /\ DOMAIN t = 1 .. Len(t) /\ Len(s) \in Nat /\ Len(t) \in Nat
  OBVIOUS
<1>2. \A i \in 1 .. Len(s) + Len(t) :
        \/ i \in 1 .. Len(s) /\ (s \o t)[i] = s[i]
        \/ i - Len(s) \in 1 .. Len(t) /\ (s \o t)[i] = t[i - Len(s)]
  OBVIOUS
<1>3. \A i \in 1 .. Len(s), j \in 1 .. Len(t) : s[i] \in C /\ t[j] \in C => s[i] < t[j]
  BY <1>1 DEF ToSet, Before
<1>4. SUFFICES ASSUME NEW i \in 1 .. Len(s) + Len(t), NEW j \in 1 .. Len(s) + Len(t), i < j,
                      (s \o t)[i] \in C, (s \o t)[j] \in C
               PROVE  (s \o t)[i] < (s \o t)[j]
  BY <1>1 DEF InOrder
<1>5. CASE i \in 1 .. Len(s) /\ (s \o t)[i] = s[i]
  BY <1>1, <1>2, <1>3, <1>4, <1>5 DEF InOrder
<1>6. CASE i - Len(s) \in 1 .. Len(t) /\ (s \o t)[i] = t[i - Len(s)] /\ i > Len(s)
  <2>1. j - Len(s) \in 1 .. Len(t) /\ (s \o t)[j] = t[j - Len(s)]
    BY <1>1, <1>2, <1>4, <1>6
  <2>2. i - Len(s) < j - Len(s) BY <1>1, <1>4
  <2> QED BY <1>1, <1>4, <1>6, <2>1, <2>2 DEF InOrder
<1> QED BY <1>1, <1>2, <1>5, <1>6

(* The order with a youngest element appended.                             *)
LEMMA AppendInOrder ==
  ASSUME NEW S \in SUBSET Nat, NEW C, NEW s \in Seq(S), NEW x \in S,
         InOrder(s, C), Before(ToSet(s), {x})
  PROVE  InOrder(Append(s, x), C)
<1>1. /\ DOMAIN Append(s, x) = 1 .. Len(s) + 1 /\ DOMAIN s = 1 .. Len(s) /\ Len(s) \in Nat
      /\ \A i \in 1 .. Len(s) : Append(s, x)[i] = s[i]
      /\ Append(s, x)[Len(s) + 1] = x
  BY AppendSet
<1>2. \A i \in 1 .. Len(s) : s[i] < x BY <1>1 DEF Before, ToSet
<1> QED BY <1>1, <1>2 DEF InOrder

(* The order of a class is the order of those of its members that occur.   *)
LEMMA SameOrder ==
  ASSUME NEW s, NEW C, NEW E, InOrder(s, C), ToSet(s) \cap E \subseteq C
  PROVE  InOrder(s, E)
BY DEF InOrder, ToSet

-----------------------------------------------------------------------------
(* The history grows.                                                      *)

(* The classes of a longer history: the new step joins one or none.        *)
LEMMA Grown ==
  ASSUME NEW h \in Seq(Tok), NEW next \in Tok
  PROVE  LET g == Append(h, next)
             step == Len(h) + 1 IN
         /\ g \in Seq(Tok) /\ Len(g) = step /\ Len(h) \in Nat /\ step \notin StepsOf(h)
         /\ StepsOf(g) = StepsOf(h) \cup {step}
         /\ g[step] = next /\ \A s \in StepsOf(h) : g[s] = h[s]
         /\ BytesOf(g) = BytesOf(h) \cup (IF next \in Byte THEN {step} ELSE {})
         /\ PiecesOf(g) = PiecesOf(h)
               \cup (IF next \notin Byte \cup Role THEN {step} ELSE {})
<1> DEFINE g == Append(h, next)
           step == Len(h) + 1
<1>1. /\ g \in Seq(Tok) /\ Len(g) = step /\ Len(h) \in Nat /\ g[step] = next
      /\ \A s \in 1 .. Len(h) : g[s] = h[s]
  BY AppendSet
<1> HIDE DEF g
<1>2. StepsOf(g) = StepsOf(h) \cup {step} /\ step \notin StepsOf(h) BY <1>1 DEF StepsOf
<1>3. BytesOf(g) = BytesOf(h) \cup (IF next \in Byte THEN {step} ELSE {})
  BY <1>1, <1>2 DEF BytesOf, StepsOf
<1>4. PiecesOf(g) = PiecesOf(h) \cup (IF next \notin Byte \cup Role THEN {step} ELSE {})
  BY <1>1, <1>2 DEF PiecesOf, StepsOf
<1>5. \A s \in StepsOf(h) : g[s] = h[s] BY <1>1 DEF StepsOf
<1> QED BY <1>1, <1>2, <1>3, <1>4, <1>5 DEF g

(* The classes share no step, and both consist of steps.                   *)
LEMMA Classes ==
  ASSUME NEW h \in Seq(Tok)
  PROVE  /\ BytesOf(h) \subseteq StepsOf(h) /\ PiecesOf(h) \subseteq StepsOf(h)
         /\ NoneIn(BytesOf(h), PiecesOf(h)) /\ StepsOf(h) \in SUBSET Nat
         /\ BytesOf(h) \cup PiecesOf(h) = {s \in StepsOf(h) : h[s] \notin Role}
         /\ BytesOf(h) \in SUBSET Nat /\ PiecesOf(h) \in SUBSET Nat
<1>1. Len(h) \in Nat OBVIOUS
<1>2. Byte \cap Role = {} BY TokenAssumption
<1>3. StepsOf(h) \in SUBSET Nat BY <1>1 DEF StepsOf
<1> QED BY <1>2, <1>3 DEF BytesOf, PiecesOf, NoneIn

(* What the places of a layout hold.                                       *)
LEMMA PlaceSets ==
  ASSUME NEW h, NEW G, NEW B, NEW F, InPlace(h, G, B, F)
  PROVE  /\ h \in Seq(Tok)
         /\ ToSet(G) \subseteq BytesOf(h) \cup PiecesOf(h)
         /\ ToSet(B) \subseteq BytesOf(h) /\ ToSet(F) \subseteq PiecesOf(h)
BY SetOfSeq DEF InPlace

(* A role marker is in the history and in no place.                        *)
LEMMA RolePlaced ==
  ASSUME NEW h, NEW G, NEW B, NEW F, NEW D, Placed(h, G, B, F, D),
         NEW next \in Tok, next \in Role
  PROVE  Placed(Append(h, next), G, B, F, D)
<1> DEFINE g == Append(h, next)
<1>1. h \in Seq(Tok) BY DEF Placed, InPlace
<1>2. next \notin Byte BY TokenAssumption
<1>3. g \in Seq(Tok) /\ BytesOf(g) = BytesOf(h) /\ PiecesOf(g) = PiecesOf(h)
  <2>1. g \in Seq(Tok) BY <1>1
  <2>2. BytesOf(g) = BytesOf(h) \cup {} /\ PiecesOf(g) = PiecesOf(h) \cup {}
    BY <1>1, <1>2, Grown
  <2> QED BY <2>1, <2>2
<1> HIDE DEF g
<1>4. Placed(g, G, B, F, D) BY <1>3 DEF Placed, InPlace, OnePlace, Ordered
<1> QED BY <1>4 DEF g

(* A byte is the youngest of the bytes held back.                          *)
LEMMA BytePlaced ==
  ASSUME NEW h, NEW G, NEW B, NEW F, NEW D, Placed(h, G, B, F, D),
         NEW next \in Tok, next \in Byte
  PROVE  Placed(Append(h, next), G, Append(B, Len(h) + 1), F, D)
<1> DEFINE g == Append(h, next)
           step == Len(h) + 1
           C == Append(B, step)
<1>1. h \in Seq(Tok) BY DEF Placed, InPlace
<1>2. /\ g \in Seq(Tok) /\ step \notin StepsOf(h)
      /\ BytesOf(g) = BytesOf(h) \cup {step} /\ PiecesOf(g) = PiecesOf(h)
  <2>1. /\ g \in Seq(Tok) /\ step \notin StepsOf(h)
        /\ BytesOf(g) = BytesOf(h) \cup (IF next \in Byte THEN {step} ELSE {})
        /\ PiecesOf(g) = PiecesOf(h)
             \cup (IF next \notin Byte \cup Role THEN {step} ELSE {})
    BY <1>1, Grown
  <2> HIDE DEF g, step
  <2> QED BY <2>1
<1>3. /\ ToSet(G) \subseteq BytesOf(h) \cup PiecesOf(h)
      /\ ToSet(B) \subseteq BytesOf(h) /\ ToSet(F) \subseteq PiecesOf(h)
  BY PlaceSets DEF Placed
<1>4. /\ step \notin BytesOf(h) /\ step \notin PiecesOf(h)
      /\ BytesOf(h) \in SUBSET Nat /\ BytesOf(g) \in SUBSET Nat
      /\ \A s \in BytesOf(h) \cup PiecesOf(h) : s < step
  BY <1>1, <1>2, Classes DEF StepsOf
<1> HIDE DEF g, step
<1>5. C \in Seq(BytesOf(g)) /\ ToSet(C) = ToSet(B) \cup {step}
  <2>1. B \in Seq(BytesOf(g)) BY <1>2, LargerSeq DEF Placed, InPlace
  <2> QED BY <1>2, <2>1, AppendSet
<1>6. Once(C) /\ InOrder(C, BytesOf(g))
  <2>1. B \in Seq(BytesOf(g)) /\ step \in BytesOf(g)
    BY <1>2, LargerSeq DEF Placed, InPlace
  <2>2. Once(B) /\ InOrder(B, BytesOf(h)) BY DEF Placed, OnePlace, Ordered
  <2>3. InOrder(B, BytesOf(g)) BY <1>3, <2>2, SameOrder
  <2>4. Before(ToSet(B), {step}) BY <1>3, <1>4 DEF Before
  <2>5. step \notin ToSet(B) BY <1>3, <1>4
  <2> QED BY <1>4, <2>1, <2>2, <2>3, <2>4, <2>5, AppendOnce, AppendInOrder
<1> HIDE DEF C
<1>7. InPlace(g, G, C, F)
  <2>1. G \in Seq(BytesOf(g) \cup PiecesOf(g)) BY <1>2, LargerSeq DEF Placed, InPlace
  <2> QED BY <1>2, <1>5, <2>1 DEF Placed, InPlace
<1>8. OnePlace(g, G, C, F, D)
  <2>1. step \notin ToSet(G) /\ step \notin D BY <1>3, <1>4 DEF Placed, OnePlace
  <2> QED BY <1>2, <1>5, <1>6, <2>1 DEF Placed, OnePlace, NoneIn
<1>9. Ordered(g, G, C, F)
  <2>1. InOrder(G, BytesOf(g)) /\ InOrder(G, PiecesOf(g))
    BY <1>2, <1>3, <1>4, SameOrder DEF Placed, Ordered
  <2>2. InOrder(F, PiecesOf(g)) BY <1>2 DEF Placed, Ordered
  <2>3. Before(ToSet(G) \cap BytesOf(g), ToSet(C))
    BY <1>2, <1>3, <1>4, <1>5 DEF Placed, Ordered, Before
  <2>4. Before(ToSet(G) \cap PiecesOf(g), ToSet(F)) BY <1>2 DEF Placed, Ordered
  <2> QED BY <1>6, <2>1, <2>2, <2>3, <2>4 DEF Ordered
<1> QED BY <1>7, <1>8, <1>9 DEF Placed, g, C, step

(* A piece is the youngest of the pieces held back.                        *)
LEMMA PiecePlaced ==
  ASSUME NEW h, NEW G, NEW B, NEW F, NEW D, Placed(h, G, B, F, D),
         NEW next \in Tok, next \notin Byte \cup Role
  PROVE  Placed(Append(h, next), G, B, Append(F, Len(h) + 1), D)
<1> DEFINE g == Append(h, next)
           step == Len(h) + 1
           C == Append(F, step)
<1>1. h \in Seq(Tok) BY DEF Placed, InPlace
<1>2. /\ g \in Seq(Tok) /\ step \notin StepsOf(h)
      /\ BytesOf(g) = BytesOf(h) /\ PiecesOf(g) = PiecesOf(h) \cup {step}
  <2>1. /\ g \in Seq(Tok) /\ step \notin StepsOf(h)
        /\ BytesOf(g) = BytesOf(h) \cup (IF next \in Byte THEN {step} ELSE {})
        /\ PiecesOf(g) = PiecesOf(h)
             \cup (IF next \notin Byte \cup Role THEN {step} ELSE {})
    BY <1>1, Grown
  <2> HIDE DEF g, step
  <2> QED BY <2>1
<1>3. /\ ToSet(G) \subseteq BytesOf(h) \cup PiecesOf(h)
      /\ ToSet(B) \subseteq BytesOf(h) /\ ToSet(F) \subseteq PiecesOf(h)
  BY PlaceSets DEF Placed
<1>4. /\ step \notin BytesOf(h) /\ step \notin PiecesOf(h)
      /\ PiecesOf(h) \in SUBSET Nat /\ PiecesOf(g) \in SUBSET Nat
      /\ \A s \in BytesOf(h) \cup PiecesOf(h) : s < step
  BY <1>1, <1>2, Classes DEF StepsOf
<1> HIDE DEF g, step
<1>5. C \in Seq(PiecesOf(g)) /\ ToSet(C) = ToSet(F) \cup {step}
  <2>1. F \in Seq(PiecesOf(g)) BY <1>2, LargerSeq DEF Placed, InPlace
  <2> QED BY <1>2, <2>1, AppendSet
<1>6. Once(C) /\ InOrder(C, PiecesOf(g))
  <2>1. F \in Seq(PiecesOf(g)) /\ step \in PiecesOf(g)
    BY <1>2, LargerSeq DEF Placed, InPlace
  <2>2. Once(F) /\ InOrder(F, PiecesOf(h)) BY DEF Placed, OnePlace, Ordered
  <2>3. InOrder(F, PiecesOf(g)) BY <1>3, <2>2, SameOrder
  <2>4. Before(ToSet(F), {step}) BY <1>3, <1>4 DEF Before
  <2>5. step \notin ToSet(F) BY <1>3, <1>4
  <2> QED BY <1>4, <2>1, <2>2, <2>3, <2>4, <2>5, AppendOnce, AppendInOrder
<1> HIDE DEF C
<1>7. InPlace(g, G, B, C)
  <2>1. G \in Seq(BytesOf(g) \cup PiecesOf(g)) BY <1>2, LargerSeq DEF Placed, InPlace
  <2> QED BY <1>2, <1>5, <2>1 DEF Placed, InPlace
<1>8. OnePlace(g, G, B, C, D)
  <2>1. step \notin ToSet(G) /\ step \notin D BY <1>3, <1>4 DEF Placed, OnePlace
  <2> QED BY <1>2, <1>5, <1>6, <2>1 DEF Placed, OnePlace, NoneIn
<1>9. Ordered(g, G, B, C)
  <2>1. InOrder(G, BytesOf(g)) /\ InOrder(G, PiecesOf(g))
    BY <1>2, <1>3, <1>4, SameOrder DEF Placed, Ordered
  <2>2. InOrder(B, BytesOf(g)) BY <1>2 DEF Placed, Ordered
  <2>3. Before(ToSet(G) \cap PiecesOf(g), ToSet(C))
    BY <1>2, <1>3, <1>4, <1>5 DEF Placed, Ordered, Before
  <2>4. Before(ToSet(G) \cap BytesOf(g), ToSet(B)) BY <1>2 DEF Placed, Ordered
  <2> QED BY <1>6, <2>1, <2>2, <2>3, <2>4 DEF Ordered
<1> QED BY <1>7, <1>8, <1>9 DEF Placed, g, C, step

(* Bytes and pieces held back go to the record.                            *)
LEMMA FlushPlaced ==
  ASSUME NEW h, NEW G, NEW B, NEW F, NEW D, Placed(h, G, B, F, D)
  PROVE  Placed(h, G \o B \o F, <<>>, <<>>, D)
<1> DEFINE S == BytesOf(h) \cup PiecesOf(h)
           H == G \o B
           K == H \o F
<1>1. h \in Seq(Tok) /\ G \in Seq(S) /\ B \in Seq(S) /\ F \in Seq(S)
  BY LargerSeq DEF Placed, InPlace
<1>2. /\ ToSet(B) \subseteq BytesOf(h) /\ ToSet(F) \subseteq PiecesOf(h)
      /\ NoneIn(BytesOf(h), PiecesOf(h)) /\ S \in SUBSET Nat
  BY <1>1, PlaceSets, Classes DEF Placed
<1>3. H \in Seq(S) /\ ToSet(H) = ToSet(G) \cup ToSet(B) BY <1>1, ConcatSet
<1>4. Once(H) BY <1>1, ConcatOnce DEF Placed, OnePlace
<1>5. InOrder(H, BytesOf(h)) /\ InOrder(H, PiecesOf(h))
  <2>1. InOrder(B, PiecesOf(h)) BY <1>2, SameOrder DEF Placed, Ordered, NoneIn
  <2>2. /\ Before(ToSet(G) \cap BytesOf(h), ToSet(B) \cap BytesOf(h))
        /\ Before(ToSet(G) \cap PiecesOf(h), ToSet(B) \cap PiecesOf(h))
    BY <1>2 DEF Placed, Ordered, Before, NoneIn
  <2> QED BY <1>1, <1>2, <2>1, <2>2, ConcatInOrder DEF Placed, Ordered
<1> HIDE DEF H
<1>6. K \in Seq(S) /\ ToSet(K) = ToSet(H) \cup ToSet(F) BY <1>1, <1>3, ConcatSet
<1>7. Once(K)
  <2>1. NoneIn(ToSet(H), ToSet(F))
    BY <1>2, <1>3 DEF Placed, OnePlace, NoneIn
  <2>2. Once(F) BY DEF Placed, OnePlace
  <2> QED BY <1>1, <1>3, <1>4, <2>1, <2>2, ConcatOnce
<1>8. InOrder(K, BytesOf(h)) /\ InOrder(K, PiecesOf(h))
  <2>1. InOrder(F, BytesOf(h)) /\ InOrder(F, PiecesOf(h))
    BY <1>2, SameOrder DEF Placed, Ordered, NoneIn
  <2>2. /\ Before(ToSet(H) \cap BytesOf(h), ToSet(F) \cap BytesOf(h))
        /\ Before(ToSet(H) \cap PiecesOf(h), ToSet(F) \cap PiecesOf(h))
    BY <1>2, <1>3 DEF Placed, Ordered, Before, NoneIn
  <2> QED BY <1>1, <1>2, <1>3, <1>5, <2>1, <2>2, ConcatInOrder
<1> HIDE DEF K
<1>9. InPlace(h, K, <<>>, <<>>) BY <1>1, <1>6 DEF InPlace
<1>10. OnePlace(h, K, <<>>, <<>>, D)
  BY <1>3, <1>6, <1>7, EmptySet DEF Placed, OnePlace, NoneIn
<1>11. Ordered(h, K, <<>>, <<>>) BY <1>8, EmptySet DEF Ordered, Before
<1> QED BY <1>9, <1>10, <1>11 DEF Placed, K, H

(* The pieces of a marker are suppressed.                                  *)
LEMMA DropPlaced ==
  ASSUME NEW h, NEW G, NEW B, NEW F, NEW D, Placed(h, G, B, F, D)
  PROVE  Placed(h, G, B, <<>>, D \cup ToSet(F))
<1>1. InPlace(h, G, B, <<>>) BY DEF Placed, InPlace
<1>2. OnePlace(h, G, B, <<>>, D \cup ToSet(F))
  <2>1. NoneIn(ToSet(B), ToSet(F))
    <3>1. ToSet(B) \subseteq BytesOf(h) /\ ToSet(F) \subseteq PiecesOf(h) /\ h \in Seq(Tok)
      BY PlaceSets DEF Placed
    <3> QED BY <3>1, Classes DEF NoneIn
  <2> QED BY <2>1, EmptySet DEF Placed, OnePlace, NoneIn
<1>3. Ordered(h, G, B, <<>>) BY EmptySet DEF Placed, Ordered, Before
<1> QED BY <1>1, <1>2, <1>3 DEF Placed

-----------------------------------------------------------------------------
(* What the callback is given.                                             *)

(* A set of natural numbers that is not empty has a least one.             *)
LEMMA Least ==
  ASSUME NEW S \in SUBSET Nat, S # {}
  PROVE  \E i \in S : \A j \in S : i <= j
<1>1. PICK x \in S : \A y \in S : ~ (<<y, x>> \in OpToRel(<, Nat))
  BY NatLessThanWellFounded, WFMin
<1>2. \A y \in S : ~ (y < x) BY <1>1 DEF OpToRel
<1> QED BY <1>2

(* A batch of bytes cut at a zero byte is a batch of steps.                *)
LEMMA CutType ==
  ASSUME NEW S, NEW b \in Seq(S), NEW h
  PROVE  UpToNul(b, h) \in Seq(S)
<1> DEFINE zeros == {i \in DOMAIN b : h[b[i]] \in Nul}
           z == CHOOSE i \in zeros : \A j \in zeros : i <= j
<1>1. DOMAIN b = 1 .. Len(b) /\ Len(b) \in Nat OBVIOUS
<1>2. CASE zeros = {} BY <1>2 DEF UpToNul
<1>3. CASE zeros # {}
  <2>1. zeros \in SUBSET Nat BY <1>1
  <2>2. z \in zeros
    <3>1. \E i \in zeros : \A j \in zeros : i <= j BY <1>3, <2>1, Least
    <3> QED BY <3>1
  <2>3. z \in 1 .. Len(b) BY <1>1, <2>2
  <2> HIDE DEF z
  <2>4. SubSeq(b, 1, z - 1) \in Seq(S)
    <3>1. \A i \in 1 .. z - 1 : b[i] \in S BY <1>1, <2>3
    <3>2. 1 \in Int /\ z - 1 \in Int BY <1>1, <2>3
    <3> QED BY <3>1, <3>2, SubSeqProperties
  <2>5. UpToNul(b, h) = SubSeq(b, 1, z - 1) BY <1>3 DEF UpToNul, z
  <2> QED BY <2>4, <2>5
<1> QED BY <1>2, <1>3

(* Every call is given steps of the history.                               *)
LEMMA CallTypes ==
  ASSUME NEW S, NEW b \in Seq(S), NEW f \in Seq(S), NEW o \in Seq(Seq(S)), NEW h
  PROVE  o \o ByteCall(b, h) \o FragmentCalls(f) \in Seq(Seq(S))
<1>1. UpToNul(b, h) \in Seq(S) BY CutType
<1>2. ByteCall(b, h) \in Seq(Seq(S)) BY <1>1 DEF ByteCall
<1>3. FragmentCalls(f) \in Seq(Seq(S))
  <2>1. DOMAIN f = 1 .. Len(f) /\ Len(f) \in Nat OBVIOUS
  <2>2. \A i \in 1 .. Len(f) : << f[i] >> \in Seq(S) BY <2>1
  <2> QED BY <2>1, <2>2 DEF FragmentCalls
<1> HIDE DEF ByteCall, FragmentCalls
<1> QED BY <1>2, <1>3

-----------------------------------------------------------------------------
(* The invariant, step by step.                                            *)

(* The classes of the program's history.                                   *)
LEMMA Now == /\ Steps = StepsOf(history) /\ Bytes = BytesOf(history) /\ Pieces = PiecesOf(history)
BY DEF Steps, Bytes, Pieces, StepsOf, BytesOf, PiecesOf

(* At first the places are empty.                                          *)
LEMMA InitInv == ASSUME Init PROVE Inv
<1>1. StepsOf(<<>>) = {} /\ BytesOf(<<>>) = {} /\ PiecesOf(<<>>) = {}
  BY DEF StepsOf, BytesOf, PiecesOf
<1>2. Placed(<<>>, <<>>, <<>>, <<>>, {})
  BY <1>1, EmptySet DEF Placed, InPlace, OnePlace, Ordered, NoneIn, Before
<1>3. TypeOK BY LimitAssumption DEF Init, TypeOK
<1>4. shown = Len(gen_ids) + Len(pendB) /\ Runs BY DEF Init, Runs
<1> QED BY <1>2, <1>3, <1>4 DEF Init, Inv

(* What an iteration leaves behind, with the history h: the places, the    *)
(* counter and the calls.                                                  *)
Left(h, G, B, F, D, n, o) ==
  Placed(h, G, B, F, D) /\ n = Len(G) + Len(B) /\ o \in Seq(Seq(StepsOf(h)))

Stands == Left(history, gen_ids, pendB, pendF, dropped, shown, out)

(* What the invariant leaves behind.                                       *)
LEMMA InvStands == ASSUME Inv PROVE Stands
BY Now DEF Inv, TypeOK, Stands, Left

(* From what the next state leaves behind, its types.                      *)
LEMMA TypesFrom ==
  ASSUME Stands', Len(history)' <= MaxSteps,
         phase' \in {"loop", "flush", "done"},
         reason' \in {"none", "eos", "repeat", "max_steps", "no_in", "error"},
         run' \in 0 .. RepeatLimit
  PROVE  TypeOK'
<1>1. /\ Steps' = StepsOf(history') /\ Bytes' = BytesOf(history')
      /\ Pieces' = PiecesOf(history')
  BY DEF Steps, Bytes, Pieces, StepsOf, BytesOf, PiecesOf
<1>2. /\ history' \in Seq(Tok) /\ gen_ids' \in Seq(Bytes' \cup Pieces')
      /\ pendB' \in Seq(Bytes') /\ pendF' \in Seq(Pieces')
  BY <1>1 DEF Stands, Left, Placed, InPlace
<1>3. dropped' \subseteq Steps'
  <2>1. BytesOf(history') \cup PiecesOf(history') \subseteq StepsOf(history')
    BY DEF BytesOf, PiecesOf
  <2>2. dropped' \subseteq BytesOf(history') \cup PiecesOf(history')
    BY DEF Stands, Left, Placed, OnePlace
  <2> QED BY <1>1, <2>1, <2>2
<1>4. shown' \in Nat
  <2>1. Len(gen_ids') \in Nat /\ Len(pendB') \in Nat BY <1>2, LenProperties
  <2> QED BY <2>1 DEF Stands, Left
<1>5. out' \in Seq(Seq(Steps')) BY <1>1 DEF Stands, Left
<1> QED BY <1>2, <1>3, <1>4, <1>5 DEF TypeOK

(* A break stops the loop and touches no place.                            *)
LEMMA BreakInv ==
  ASSUME Inv, NEW why \in {"eos", "repeat", "max_steps", "no_in"}, Break(why),
         run' \in 0 .. RepeatLimit
  PROVE  Inv'
<1>1. TypeOK' BY DEF Inv, TypeOK, Break, Steps, Bytes, Pieces
<1>2. phase' # "loop" BY DEF Break
<1> QED BY <1>1, <1>2 DEF Inv, Break

(* The run of a chosen token.                                              *)
LEMMA RunBound ==
  ASSUME Inv, phase = "loop", NEW next
  PROVE  RunAfter(next) \in 0 .. RepeatLimit
<1>1. Runs BY DEF Inv
<1> QED BY <1>1, LimitAssumption DEF RunAfter, Runs

(* A token that is accepted makes the run longer or begins a new one.      *)
LEMMA RunsOn ==
  ASSUME Inv, phase = "loop", NEW next \in Tok, CountRepeat(next), ~Repeats(next),
         history' = Append(history, next)
  PROVE  Runs'
<1> DEFINE h == history
           n == Len(history)
<1>1. /\ n \in Nat /\ Len(history') = n + 1 /\ history'[n + 1] = next
      /\ \A i \in 1 .. n : history'[i] = h[i]
      /\ history' # <<>> /\ (n = 0 <=> h = <<>>)
  <2>1. history \in Seq(Tok) BY DEF Inv, TypeOK
  <2>2. n = 0 <=> h = <<>> BY <2>1
  <2> QED BY <2>1, <2>2, AppendSet
<1>2. Runs BY DEF Inv
<1>3. lastRaw' = Text[next] /\ run' = RunAfter(next) BY DEF CountRepeat
<1>4. run' < RepeatLimit
  <2>1. RunAfter(next) \in 0 .. RepeatLimit BY RunBound
  <2> QED BY <1>3, <2>1, LimitAssumption DEF Repeats
<1> HIDE DEF n
<1>5. lastRaw' = Text[history'[Len(history')]] BY <1>1, <1>3
<1>6. CASE Text[next] # <<>> /\ Text[next] = lastRaw
  <2>1. run' = run + 1 BY <1>3, <1>6 DEF RunAfter
  <2>2. /\ run \in 1 .. RepeatLimit - 1 /\ run <= n
        /\ run < n => Text[h[n - run]] # lastRaw
    BY <1>2, <1>6 DEF Runs, n
  <2>3. run' < n + 1 => Text[history'[(n + 1) - run']] # lastRaw'
    <3>1. HAVE run' < n + 1
    <3>2. (n + 1) - run' = n - run /\ n - run \in 1 .. n BY <1>1, <2>1, <2>2, <3>1
    <3> QED BY <1>1, <1>3, <1>6, <2>1, <2>2, <3>1, <3>2
  <2> QED BY <1>1, <1>4, <1>5, <2>1, <2>2, <2>3, LimitAssumption DEF Runs
<1>7. CASE ~(Text[next] # <<>> /\ Text[next] = lastRaw)
  <2>1. run' = 1 BY <1>3, <1>7 DEF RunAfter
  <2>2. lastRaw' # <<>> /\ run' < n + 1 => Text[history'[(n + 1) - run']] # lastRaw'
    <3>1. HAVE lastRaw' # <<>> /\ run' < n + 1
    <3>2. n \in 1 .. n /\ (n + 1) - run' = n BY <1>1, <2>1, <3>1
    <3>3. lastRaw = Text[h[n]] BY <1>1, <1>2, <3>2 DEF Runs, n
    <3> QED BY <1>1, <1>3, <1>7, <3>1, <3>2, <3>3
  <2> QED BY <1>1, <1>4, <1>5, <2>1, <2>2, LimitAssumption DEF Runs
<1> QED BY <1>6, <1>7

(* A flush moves all that is held back, with the new piece if there is     *)
(* one, to the record and gives it to the callback.                        *)
LEMMA FlushLeft ==
  ASSUME NEW h, NEW frags, Left(h, gen_ids, pendB, frags, dropped, shown, out), Flush(frags, h)
  PROVE  Left(h, gen_ids', pendB', pendF', dropped, shown', out')
<1> DEFINE S == StepsOf(h)
<1>1. Placed(h, gen_ids', pendB', pendF', dropped) BY FlushPlaced DEF Left, Flush
<1>2. gen_ids \in Seq(S) /\ pendB \in Seq(S) /\ frags \in Seq(S)
  <2>1. BytesOf(h) \subseteq S /\ PiecesOf(h) \subseteq S BY DEF BytesOf, PiecesOf
  <2>2. BytesOf(h) \cup PiecesOf(h) \subseteq S BY <2>1
  <2> QED BY <2>1, <2>2, LargerSeq DEF Left, Placed, InPlace
<1>3. shown' = Len(gen_ids') + Len(pendB')
  <2>1. gen_ids \o pendB \in Seq(S) /\ Len(gen_ids \o pendB) = Len(gen_ids) + Len(pendB)
    BY <1>2, ConcatSet
  <2>2. Len(gen_ids \o pendB \o frags) = Len(gen_ids) + Len(pendB) + Len(frags)
    BY <1>2, <2>1, ConcatSet
  <2>3. Len(gen_ids) \in Nat /\ Len(pendB) \in Nat /\ Len(frags) \in Nat /\ Len(<<>>) = 0
    BY <1>2, LenProperties, EmptySeq
  <2>4. shown' = shown + Len(frags) /\ gen_ids' = gen_ids \o pendB \o frags /\ pendB' = <<>>
    BY DEF Flush
  <2>5. shown = Len(gen_ids) + Len(pendB) BY DEF Left
  <2> QED BY <2>2, <2>3, <2>4, <2>5
<1>4. out' \in Seq(Seq(S)) BY <1>2, CallTypes DEF Left, Flush
<1> QED BY <1>1, <1>3, <1>4 DEF Left

(* The next piece, before it is decided what becomes of it.                *)
LEMMA PieceLeft ==
  ASSUME Inv, NEW next \in Tok, next \notin Role \cup Byte
  PROVE  Left(Append(history, next), gen_ids, pendB, Append(pendF, Len(history) + 1), dropped,
              shown, out)
<1>1. Stands BY InvStands
<1>2. Placed(Append(history, next), gen_ids, pendB, Append(pendF, Len(history) + 1), dropped)
  BY <1>1, PiecePlaced DEF Stands, Left
<1>3. out \in Seq(Seq(StepsOf(Append(history, next))))
  <2>1. StepsOf(history) \subseteq StepsOf(Append(history, next))
    BY Grown DEF Inv, TypeOK
  <2>2. Seq(StepsOf(history)) \subseteq Seq(StepsOf(Append(history, next)))
    BY <2>1, LargerSeq
  <2> QED BY <1>1, <2>2, LargerSeq DEF Stands, Left
<1> QED BY <1>1, <1>2, <1>3 DEF Stands, Left

(* One iteration of the loop.                                              *)
LEMMA AcceptInv == ASSUME Inv, NEW next \in Tok, Accept(next) PROVE Inv'
<1> DEFINE h == Append(history, next)
           step == Len(history) + 1
<1>1. /\ phase = "loop" /\ Len(history) < MaxSteps /\ history' = h
      /\ phase' = phase /\ reason' = reason
      /\ CountRepeat(next) /\ ~Repeats(next)
      /\ SkipRole(next) \/ HoldByte(next, step) \/ AddFragment(next, step)
  BY DEF Accept, Chosen
<1>2. Runs' BY <1>1, RunsOn
<1>3. Stands BY InvStands
<1>4. /\ Len(history) \in Nat /\ Len(h) = step /\ h \in Seq(Tok)
      /\ out \in Seq(Seq(StepsOf(h)))
  <2>1. history \in Seq(Tok) BY DEF Inv, TypeOK
  <2>2. StepsOf(history) \subseteq StepsOf(h) /\ Len(history) \in Nat /\ Len(h) = step
        /\ h \in Seq(Tok)
    BY <2>1, Grown
  <2>3. Seq(StepsOf(history)) \subseteq Seq(StepsOf(h)) BY <2>2, LargerSeq
  <2> QED BY <1>3, <2>2, <2>3, LargerSeq DEF Stands, Left
<1>5. Left(h, gen_ids', pendB', pendF', dropped', shown', out')
  <2>1. CASE SkipRole(next)
    <3>1. Placed(h, gen_ids, pendB, pendF, dropped)
      BY <1>3, <2>1, RolePlaced DEF SkipRole, Stands, Left
    <3> HIDE DEF h
    <3> QED BY <1>3, <1>4, <2>1, <3>1 DEF SkipRole, Stands, Left
  <2>2. CASE HoldByte(next, step)
    <3>1. Placed(h, gen_ids, Append(pendB, step), pendF, dropped)
      BY <1>3, <2>2, BytePlaced DEF HoldByte, Stands, Left
    <3>2. Len(Append(pendB, step)) = Len(pendB) + 1 /\ Len(pendB) \in Nat
          /\ Len(gen_ids) \in Nat
      BY DEF Inv, TypeOK
    <3> HIDE DEF h, step
    <3> QED BY <1>3, <1>4, <2>2, <3>1, <3>2 DEF HoldByte, Stands, Left
  <2>3. CASE AddFragment(next, step)
    <3> DEFINE frags == Append(pendF, step)
    <3>1. next \in Tok /\ next \notin Role \cup Byte BY <2>3 DEF AddFragment
    <3>2. Left(h, gen_ids, pendB, frags, dropped, shown, out) BY <3>1, PieceLeft
    <3>3. \/ /\ dropped' = dropped \cup ToSet(frags) /\ pendF' = <<>>
             /\ UNCHANGED <<pendB, gen_ids, out, shown>>
          \/ pendF' = frags /\ UNCHANGED <<pendB, gen_ids, out, shown, dropped>>
          \/ Flush(frags, h) /\ UNCHANGED dropped
      BY <2>3 DEF AddFragment
    <3> HIDE DEF h, frags
    <3>4. CASE /\ dropped' = dropped \cup ToSet(frags) /\ pendF' = <<>>
               /\ UNCHANGED <<pendB, gen_ids, out, shown>>
      BY <3>2, <3>4, DropPlaced DEF Left
    <3>5. CASE pendF' = frags /\ UNCHANGED <<pendB, gen_ids, out, shown, dropped>>
      BY <3>2, <3>5
    <3>6. CASE Flush(frags, h) /\ UNCHANGED dropped
      BY <3>2, <3>6, FlushLeft
    <3> QED BY <3>3, <3>4, <3>5, <3>6
  <2> QED BY <1>1, <2>1, <2>2, <2>3
<1>6. Stands' BY <1>1, <1>5 DEF Stands
<1>7. run' \in 0 .. RepeatLimit BY <1>1, RunBound DEF CountRepeat
<1>8. TypeOK'
  <2>1. Len(history)' <= MaxSteps BY <1>1, <1>4, LimitAssumption
  <2>2. phase' \in {"loop", "flush", "done"}
        /\ reason' \in {"none", "eos", "repeat", "max_steps", "no_in", "error"}
    BY <1>1 DEF Inv, TypeOK
  <2> QED BY <1>6, <1>7, <2>1, <2>2, TypesFrom
<1> QED BY <1>2, <1>6, <1>8 DEF Inv, Stands, Left

(* The flush after the loop.                                               *)
LEMMA FinalFlushInv == ASSUME Inv, FinalFlush PROVE Inv'
<1>1. Stands BY InvStands
<1>2. Flush(pendF, history) /\ phase' = "done"
      /\ UNCHANGED <<reason, history, lastRaw, run, dropped>>
  BY DEF FinalFlush
<1>3. Left(history, gen_ids', pendB', pendF', dropped, shown', out')
  BY <1>1, <1>2, FlushLeft DEF Stands
<1>4. Stands' BY <1>2, <1>3 DEF Stands
<1>5. TypeOK'
  <2>1. Len(history)' <= MaxSteps /\ run' \in 0 .. RepeatLimit
        /\ reason' \in {"none", "eos", "repeat", "max_steps", "no_in", "error"}
    BY <1>2 DEF Inv, TypeOK
  <2> QED BY <1>2, <1>4, <2>1, TypesFrom
<1> QED BY <1>2, <1>4, <1>5 DEF Inv, Stands, Left

(* A failed pass ends the call where it is.                                *)
LEMMA FailInv == ASSUME Inv, Fail PROVE Inv'
<1>1. TypeOK' BY DEF Inv, TypeOK, Fail, Steps, Bytes, Pieces
<1> QED BY <1>1 DEF Inv, Fail

-----------------------------------------------------------------------------
(* The theorems.                                                           *)

(* Every step of a call keeps the four places, the count of what was shown *)
(* and the length of the last run: one step per action.                    *)
THEOREM Invariance == Spec => []Inv
<1>1. ASSUME Inv, [Next]_vars PROVE Inv'
  <2>1. ASSUME NEW next \in Tok, StopOnRepetition(next) PROVE Inv'
    <3>1. phase = "loop" BY <2>1 DEF StopOnRepetition, Chosen
    <3>2. run' \in 0 .. RepeatLimit
      BY <1>1, <2>1, <3>1, RunBound DEF StopOnRepetition, CountRepeat
    <3>3. Break("repeat") BY <2>1 DEF StopOnRepetition
    <3> QED BY <1>1, <3>2, <3>3, BreakInv
  <2>2. ASSUME NEW next \in Tok, StopOnEos(next) PROVE Inv'
    <3>1. phase = "loop" BY <2>2 DEF StopOnEos, Chosen
    <3>2. run' \in 0 .. RepeatLimit
      BY <1>1, <2>2, <3>1, RunBound DEF StopOnEos, CountRepeat
    <3>3. Break("eos") BY <2>2 DEF StopOnEos
    <3> QED BY <1>1, <3>2, <3>3, BreakInv
  <2>3. ASSUME NEW next \in Tok, Accept(next) PROVE Inv' BY <1>1, <2>3, AcceptInv
  <2>4. CASE StepsUsedUp
    <3>1. run' \in 0 .. RepeatLimit BY <1>1, <2>4 DEF StepsUsedUp, Inv, TypeOK
    <3>2. Break("max_steps") BY <2>4 DEF StepsUsedUp
    <3> QED BY <1>1, <3>1, <3>2, BreakInv
  <2>5. CASE NoEmbedding
    <3>1. run' \in 0 .. RepeatLimit BY <1>1, <2>5 DEF NoEmbedding, Inv, TypeOK
    <3>2. Break("no_in") BY <2>5 DEF NoEmbedding
    <3> QED BY <1>1, <3>1, <3>2, BreakInv
  <2>6. CASE Fail BY <1>1, <2>6, FailInv
  <2>7. CASE FinalFlush BY <1>1, <2>7, FinalFlushInv
  <2>8. CASE UNCHANGED vars
    BY <1>1, <2>8 DEF vars, Inv, TypeOK, Runs, Steps, Bytes, Pieces
  <2> QED BY <1>1, <2>1, <2>2, <2>3, <2>4, <2>5, <2>6, <2>7, <2>8 DEF Next
<1> QED BY <1>1, InitInv, PTL DEF Spec

(* Every variable of the token loop of minxfmr_generate has its type: the  *)
(* byte buffer holds byte tokens, the piece buffer never does, and the     *)
(* callback is given steps of the history.                                 *)
THEOREM TypeCorrect == Spec => []TypeOK
<1>1. Inv => TypeOK BY DEF Inv
<1> QED BY <1>1, Invariance, PTL

(* No accepted token is lost, doubled or both shown and suppressed, and    *)
(* gen_tokens_emitted counts what it is said to count.                     *)
THEOREM NothingLostOrDoubled == Spec => []EachTokenInOnePlace
<1>1. ASSUME Inv PROVE EachTokenInOnePlace
  <2> DEFINE S == BytesOf(history) \cup PiecesOf(history)
  <2>1. Placed(history, gen_ids, pendB, pendF, dropped) /\ shown = Len(gen_ids) + Len(pendB)
    BY <1>1 DEF Inv
  <2>2. history \in Seq(Tok) /\ gen_ids \in Seq(S) /\ pendB \in Seq(S) /\ pendF \in Seq(S)
    BY <2>1, LargerSeq DEF Placed, InPlace
  <2>3. gen_ids \o pendB \in Seq(S) /\ ToSet(gen_ids \o pendB) = ToSet(gen_ids) \cup ToSet(pendB)
    BY <2>2, ConcatSet
  <2>4. /\ gen_ids \o pendB \o pendF \in Seq(S)
        /\ ToSet(gen_ids \o pendB \o pendF) = ToSet(gen_ids) \cup ToSet(pendB) \cup ToSet(pendF)
    <3> DEFINE K == gen_ids \o pendB
    <3>1. K \in Seq(S) /\ ToSet(K) = ToSet(gen_ids) \cup ToSet(pendB) BY <2>3
    <3> HIDE DEF K, S
    <3>2. K \o pendF \in Seq(S) /\ ToSet(K \o pendF) = ToSet(K) \cup ToSet(pendF)
      BY <2>2, <3>1, ConcatSet
    <3> QED BY <3>1, <3>2 DEF K
  <2>5. Once(gen_ids \o pendB \o pendF)
    <3>1. Once(gen_ids \o pendB) BY <2>1, <2>2, ConcatOnce DEF Placed, OnePlace
    <3>2. NoneIn(ToSet(gen_ids \o pendB), ToSet(pendF))
      <4>1. NoneIn(BytesOf(history), PiecesOf(history)) BY <2>2, Classes
      <4>2. ToSet(pendB) \subseteq BytesOf(history) /\ ToSet(pendF) \subseteq PiecesOf(history)
        BY <2>1, PlaceSets DEF Placed
      <4> QED BY <2>1, <2>3, <4>1, <4>2 DEF Placed, OnePlace, NoneIn
    <3> QED BY <2>1, <2>2, <2>3, <3>1, <3>2, ConcatOnce DEF Placed, OnePlace
  <2>6. Len(gen_ids \o pendB \o pendF) = Cardinality(ToSet(gen_ids \o pendB \o pendF))
    BY <2>4, <2>5, OnceCount
  <2>7. S = {s \in Steps : history[s] \notin Role} BY <2>2, Classes, Now
  <2> QED BY <2>1, <2>4, <2>6, <2>7 DEF EachTokenInOnePlace, Placed, OnePlace, NoneIn
<1> QED BY <1>1, Invariance, PTL

(* Bytes leave in the order in which they were generated, and so do the    *)
(* pieces of text.                                                         *)
THEOREM ClassesInOrder == Spec => []EachClassInOrder
<1>1. ASSUME Inv PROVE EachClassInOrder
  <2> DEFINE S == BytesOf(history) \cup PiecesOf(history)
  <2>1. Placed(history, gen_ids, pendB, pendF, dropped) BY <1>1 DEF Inv
  <2>2. history \in Seq(Tok) /\ gen_ids \in Seq(S) /\ pendB \in Seq(S) /\ pendF \in Seq(S)
    BY <2>1, LargerSeq DEF Placed, InPlace
  <2>3. S \in SUBSET Nat BY <2>2, Classes
  <2>4. InOrder(gen_ids \o pendB, BytesOf(history))
    <3>1. Before(ToSet(gen_ids) \cap BytesOf(history), ToSet(pendB) \cap BytesOf(history))
      BY <2>1 DEF Placed, Ordered, Before
    <3> QED BY <2>1, <2>2, <2>3, <3>1, ConcatInOrder DEF Placed, Ordered
  <2>5. InOrder(gen_ids \o pendF, PiecesOf(history))
    <3>1. Before(ToSet(gen_ids) \cap PiecesOf(history), ToSet(pendF) \cap PiecesOf(history))
      BY <2>1 DEF Placed, Ordered, Before
    <3> QED BY <2>1, <2>2, <2>3, <3>1, ConcatInOrder DEF Placed, Ordered
  <2> QED BY <2>4, <2>5, Now DEF EachClassInOrder
<1> QED BY <1>1, Invariance, PTL

(* The text of pieces does not change when the history grows.              *)
LEMMA SameText ==
  ASSUME NEW h \in Seq(Tok), NEW next \in Tok, NEW f \in Seq(StepsOf(h))
  PROVE  TextOf(f, Append(h, next)) = TextOf(f, h)
<1> DEFINE g == Append(h, next)
<1>1. \A s \in StepsOf(h) : g[s] = h[s] BY Grown
<1> HIDE DEF g
<1>2. \A i \in DOMAIN f : f[i] \in StepsOf(h) OBVIOUS
<1>3. [i \in DOMAIN f |-> Text[g[f[i]]]] = [i \in DOMAIN f |-> Text[h[f[i]]]]
  BY <1>1, <1>2
<1>4. TextOf(f, g) = TextOf(f, h) BY <1>3 DEF TextOf
<1> QED BY <1>4 DEF g

(* Text waits only while it can still become a marker (the pending_token_  *)
(* buf of minxfmr_generate), and nothing waits when the call returns 0.    *)
THEOREM HeldBackSoundly == Spec => []HeldBackWhileUndecided
<1> DEFINE Held(f, h) == f # <<>> => /\ CouldBeMarker(TextOf(f, h))
                                     /\ ~IsMarker(TextOf(f, h))
<1> HIDE DEF Held
<1>1. Init => HeldBackWhileUndecided BY DEF Init, HeldBackWhileUndecided
<1>2. ASSUME Inv, HeldBackWhileUndecided, [Next]_vars PROVE HeldBackWhileUndecided'
  <2>1. ASSUME UNCHANGED <<history, pendF>>, phase' \in {"loop", "flush"} \/ reason' = "error"
        PROVE  HeldBackWhileUndecided'
    BY <1>2, <2>1 DEF HeldBackWhileUndecided
  <2>2. ASSUME NEW next \in Tok, StopOnRepetition(next) \/ StopOnEos(next)
        PROVE  HeldBackWhileUndecided'
    BY <2>1, <2>2 DEF StopOnRepetition, StopOnEos, Break
  <2>3. CASE StepsUsedUp \/ NoEmbedding \/ Fail
    BY <2>1, <2>3 DEF StepsUsedUp, NoEmbedding, Break, Fail
  <2>4. CASE FinalFlush
    <3>1. pendB' = <<>> /\ pendF' = <<>> BY <2>4 DEF FinalFlush, Flush
    <3> QED BY <3>1 DEF HeldBackWhileUndecided
  <2>5. ASSUME NEW next \in Tok, Accept(next) PROVE HeldBackWhileUndecided'
    <3> DEFINE h == Append(history, next)
               step == Len(history) + 1
    <3>1. /\ phase' = "loop" /\ history' = h
          /\ SkipRole(next) \/ HoldByte(next, step) \/ AddFragment(next, step)
      BY <2>5 DEF Accept, Chosen
    <3>0. SUFFICES Held(pendF', history') BY <3>1 DEF Held, HeldBackWhileUndecided
    <3>2. history \in Seq(Tok) /\ pendF \in Seq(StepsOf(history))
      <4>1. PiecesOf(history) \subseteq StepsOf(history) BY DEF PiecesOf
      <4> QED BY <1>2, <4>1, LargerSeq DEF Inv, Placed, InPlace
    <3>3. ASSUME pendF' = pendF PROVE Held(pendF', history')
      <4>1. TextOf(pendF, h) = TextOf(pendF, history) BY <3>2, SameText
      <4>2. Held(pendF, history) BY <1>2 DEF Held, HeldBackWhileUndecided
      <4> HIDE DEF h
      <4> QED BY <3>1, <3>3, <4>1, <4>2 DEF Held
    <3>4. CASE SkipRole(next) \/ HoldByte(next, step)
      BY <3>3, <3>4 DEF SkipRole, HoldByte
    <3>5. CASE AddFragment(next, step)
      <4> DEFINE frags == Append(pendF, step)
      <4>1. pendF' = <<>> \/ ( /\ pendF' = frags /\ ~IsMarker(TextOf(frags, h))
                               /\ CouldBeMarker(TextOf(frags, h)) )
        BY <3>5 DEF AddFragment, Flush
      <4> HIDE DEF h, frags
      <4>2. CASE pendF' = <<>> BY <4>2 DEF Held
      <4>3. CASE pendF' # <<>> BY <3>1, <4>1, <4>3 DEF Held
      <4> QED BY <4>2, <4>3
    <3> QED BY <3>1, <3>4, <3>5
  <2>6. CASE UNCHANGED vars BY <1>2, <2>6 DEF vars, HeldBackWhileUndecided
  <2> QED BY <1>2, <2>2, <2>3, <2>4, <2>5, <2>6 DEF Next
<1> QED BY <1>1, <1>2, Invariance, PTL DEF Spec

(* The history never holds RepeatLimit times the same text in a row, empty *)
(* text apart: repeat_run stops the loop before, whatever was shown.       *)
THEOREM RepetitionBounded == Spec => []NoLongRepetition
<1>1. Init => NoLongRepetition
  BY LimitAssumption DEF Init, NoLongRepetition
<1>2. ASSUME Inv, NoLongRepetition, [Next]_vars PROVE NoLongRepetition'
  <2>1. ASSUME history' = history PROVE NoLongRepetition'
    BY <1>2, <2>1 DEF NoLongRepetition
  <2>2. ASSUME NEW next \in Tok, Accept(next) PROVE NoLongRepetition'
    <3> DEFINE n == Len(history)
    <3>1. /\ phase = "loop" /\ history' = Append(history, next)
          /\ CountRepeat(next) /\ ~Repeats(next)
      BY <2>2 DEF Accept, Chosen
    <3>2. Runs' BY <1>2, <3>1, RunsOn
    <3>3. /\ n \in Nat /\ Len(history') = n + 1 /\ history'[n + 1] = next
          /\ history' # <<>> /\ \A i \in 1 .. n : history'[i] = history[i]
      <4>1. history \in Seq(Tok) BY <1>2 DEF Inv, TypeOK
      <4> QED BY <3>1, <4>1, AppendSet
    <3> HIDE DEF n
    <3>4. SUFFICES ASSUME NEW i \in 1 .. (n + 1) - RepeatLimit + 1, Text[history'[i]] # <<>>
                   PROVE  \E j \in i .. i + RepeatLimit - 1 :
                            Text[history'[j]] # Text[history'[i]]
      BY <3>3 DEF NoLongRepetition
    <3>5. i \in Nat /\ RepeatLimit \in Nat \ {0} BY <3>3, LimitAssumption
    <3>6. CASE i <= n - RepeatLimit + 1
      <4>1. i \in 1 .. Len(history) - RepeatLimit + 1 /\ i \in 1 .. n
        BY <3>3, <3>5, <3>6 DEF n
      <4>2. Text[history[i]] # <<>> BY <3>3, <3>4, <4>1
      <4>3. PICK j \in i .. i + RepeatLimit - 1 : Text[history[j]] # Text[history[i]]
        BY <1>2, <4>1, <4>2 DEF NoLongRepetition
      <4>4. j \in 1 .. n BY <3>3, <3>5, <3>6, <4>3
      <4> QED BY <3>3, <4>1, <4>3, <4>4
    <3>7. CASE i = (n + 1) - RepeatLimit + 1
      <4>1. n + 1 = i + RepeatLimit - 1 /\ n + 1 \in i .. i + RepeatLimit - 1
        BY <3>3, <3>5, <3>7
      <4>2. CASE Text[next] # Text[history'[i]] BY <3>3, <4>1, <4>2
      <4>3. CASE Text[next] = Text[history'[i]]
        <5>1. lastRaw' = Text[next] /\ lastRaw' # <<>> BY <3>1, <3>4, <4>3 DEF CountRepeat
        <5>2. /\ run' \in 1 .. RepeatLimit - 1
              /\ run' < n + 1 => Text[history'[(n + 1) - run']] # lastRaw'
          BY <3>2, <3>3, <5>1 DEF Runs
        <5>3. (n + 1) - run' \in i .. i + RepeatLimit - 1 /\ run' < n + 1
          <6> DEFINE r == run'
          <6>1. r \in 1 .. RepeatLimit - 1 /\ n \in Nat BY <3>3, <5>2
          <6> HIDE DEF r
          <6>2. n = i + RepeatLimit - 2 BY <3>5, <4>1, <6>1
          <6>3. (n + 1) - r >= i /\ (n + 1) - r <= i + RepeatLimit - 1 /\ r < n + 1
            BY <3>5, <6>1, <6>2
          <6>4. (n + 1) - r \in i .. i + RepeatLimit - 1 /\ r < n + 1
            BY <3>5, <6>1, <6>3
          <6> QED BY <6>4 DEF r
        <5> QED BY <4>3, <5>1, <5>2, <5>3
      <4> QED BY <4>2, <4>3
    <3> QED BY <3>3, <3>5, <3>6, <3>7
  <2>3. ASSUME NEW next \in Tok, StopOnRepetition(next) \/ StopOnEos(next)
        PROVE  NoLongRepetition'
    BY <2>1, <2>3 DEF StopOnRepetition, StopOnEos, Break
  <2>4. CASE StepsUsedUp \/ NoEmbedding \/ Fail \/ FinalFlush
    BY <2>1, <2>4 DEF StepsUsedUp, NoEmbedding, Break, Fail, FinalFlush
  <2>5. CASE UNCHANGED vars BY <2>1, <2>5 DEF vars
  <2> QED BY <1>2, <2>2, <2>3, <2>4, <2>5 DEF Next
<1> QED BY <1>1, <1>2, Invariance, PTL DEF Spec

-----------------------------------------------------------------------------
(* Loops over the positions of a sequence.                                 *)

(* What holds of 0 and of the successor of each that it holds of.          *)
LEMMA EveryNat ==
  ASSUME NEW S, 0 \in S, \A n \in Nat : n \in S => n + 1 \in S
  PROVE  Nat \subseteq S
<1> DEFINE T == {n \in Nat : n \notin S}
<1>1. CASE T = {} BY <1>1
<1>2. CASE T # {}
  <2>1. T \in SUBSET Nat OBVIOUS
  <2> HIDE DEF T
  <2>2. PICK m \in T : \A j \in T : m <= j BY <1>2, <2>1, Least
  <2>3. m \in Nat /\ m \notin S BY <2>2 DEF T
  <2>4. m # 0 BY <2>3
  <2>5. m - 1 \in Nat /\ m - 1 < m /\ (m - 1) + 1 = m BY <2>3, <2>4
  <2>6. m - 1 \notin T BY <2>2, <2>5
  <2>7. m - 1 \in S BY <2>5, <2>6 DEF T
  <2> QED BY <2>3, <2>5, <2>7
<1> QED BY <1>1, <1>2

(* What holds of n and of each below n if it holds of all above.           *)
LEMMA Downward ==
  ASSUME NEW n \in Nat, NEW S,
         \A i \in 1..n : (\A j \in (i + 1)..n : j \in S) => i \in S
  PROVE  \A i \in 1..n : i \in S
<1> DEFINE T == {k \in Nat : n - k >= 1 /\ n - k \notin S}
<1>1. T = {}
  <2> SUFFICES ASSUME T # {} PROVE FALSE OBVIOUS
  <2>1. T \in SUBSET Nat OBVIOUS
  <2> HIDE DEF T
  <2>2. PICK k \in T : \A j \in T : k <= j BY <2>1, Least
  <2>3. k \in Nat /\ n - k >= 1 /\ n - k \notin S BY <2>2 DEF T
  <2>4. \A j \in (n - k + 1)..n : j \in S
    <3> SUFFICES ASSUME NEW j \in (n - k + 1)..n, j \notin S PROVE FALSE OBVIOUS
    <3>1. n - j \in Nat /\ n - (n - j) = j /\ n - j < k /\ j >= 1 BY <2>3
    <3>2. n - j \in T BY <3>1 DEF T
    <3> QED BY <2>2, <2>3, <3>1, <3>2
  <2>5. n - k \in 1..n BY <2>3
  <2> QED BY <2>3, <2>4, <2>5
<1>2. TAKE i \in 1..n
<1>3. n - i \in Nat /\ n - (n - i) = i /\ i >= 1 OBVIOUS
<1> QED BY <1>1, <1>3

(* Every loop goes on behind where it is.                                  *)
Onwards(n, next) == \A i \in 1..n : next[i] \in (i + 1)..(n + 1)

Unfolds(S, piece, next) ==
  /\ Onward(piece, next) \in [1..(Len(piece) + 1) -> Seq(S)]
  /\ Onward(piece, next)[Len(piece) + 1] = << >>
  /\ \A i \in 1..Len(piece) : Onward(piece, next)[i] = piece[i] \o Onward(piece, next)[next[i]]

(* The recursive function of a loop is the one its definition means.       *)
LEMMA OnwardIs ==
  ASSUME NEW S, NEW piece \in Seq(Seq(S)), NEW next, Onwards(Len(piece), next)
  PROVE  Unfolds(S, piece, next)
<1> DEFINE n == Len(piece)
           D(m) == m..(n + 1)
           Val(g, i) == IF i > n THEN << >> ELSE piece[i] \o g[next[i]]
           Fits(m, g) == g \in [D(m) -> Seq(S)] /\ \A i \in D(m) : g[i] = Val(g, i)
           N == {m \in 1..(n + 1) : \E g : Fits(m, g)}
<1>1. n \in Nat /\ \A i \in 1..n : piece[i] \in Seq(S) OBVIOUS
<1>2. \A i \in 1..n : next[i] \in Int /\ i + 1 <= next[i] /\ next[i] <= n + 1 BY <1>1 DEF Onwards
<1> HIDE DEF n
<1>3. n + 1 \in N
  <2> DEFINE g == [i \in D(n + 1) |-> << >>]
  <2>1. << >> \in Seq(S) OBVIOUS
  <2>2. \A i \in D(n + 1) : i = n + 1 /\ i > n BY <1>1
  <2>3. g \in [D(n + 1) -> Seq(S)] BY <2>1
  <2>4. \A i \in D(n + 1) : g[i] = Val(g, i) BY <2>2
  <2>5. Fits(n + 1, g) BY <2>3, <2>4
  <2>6. n + 1 \in 1..(n + 1) BY <1>1
  <2> HIDE DEF Fits
  <2> QED BY <2>5, <2>6
<1>4. ASSUME NEW m \in 1..n, m + 1 \in N PROVE m \in N
  <2>1. PICK g : Fits(m + 1, g) BY <1>4
  <2> DEFINE h == [i \in D(m) |-> IF i = m THEN piece[m] \o g[next[m]] ELSE g[i]]
  <2>2. next[m] \in D(m + 1) BY <1>2
  <2>3. g[next[m]] \in Seq(S) /\ piece[m] \in Seq(S) BY <1>1, <2>1, <2>2
  <2>4. piece[m] \o g[next[m]] \in Seq(S) BY <2>3
  <2>5. \A i \in D(m) : i = m \/ i \in D(m + 1) BY <1>1
  <2>6. \A i \in D(m) : h[i] \in Seq(S) BY <2>1, <2>4, <2>5
  <2>7. h \in [D(m) -> Seq(S)] BY <2>6
  <2>8. \A i \in D(m + 1) : i # m /\ i \in D(m) BY <1>1
  <2>9. \A i \in D(m + 1) : h[i] = g[i] BY <2>8
  <2> HIDE DEF h
  <2>10. ASSUME NEW i \in D(m) PROVE h[i] = Val(h, i)
    <3>1. CASE i = m
      <4>1. h[m] = piece[m] \o g[next[m]] BY <3>1 DEF h
      <4>2. h[next[m]] = g[next[m]] BY <2>2, <2>9
      <4>3. ~(m > n) BY <1>1
      <4> QED BY <3>1, <4>1, <4>2, <4>3
    <3>2. CASE i # m /\ i > n
      <4>1. i \in D(m + 1) BY <2>5, <3>2
      <4> QED BY <2>1, <2>9, <3>2, <4>1
    <3>3. CASE i # m /\ ~(i > n)
      <4>1. i \in D(m + 1) BY <2>5, <3>3
      <4>2. i \in 1..n BY <1>1, <3>3
      <4>3. next[i] \in D(m + 1) BY <1>1, <1>2, <4>1, <4>2
      <4>4. g[i] = piece[i] \o g[next[i]] BY <2>1, <3>3, <4>1
      <4> QED BY <2>9, <3>3, <4>1, <4>3, <4>4
    <3> QED BY <3>1, <3>2, <3>3
  <2>11. Fits(m, h) BY <2>7, <2>10
  <2>12. m \in 1..(n + 1) BY <1>1
  <2> HIDE DEF Fits
  <2> QED BY <2>11, <2>12
<1>5. 1 \in N
  <2> DEFINE U == {i \in 1..(n + 1) : i \in N}
  <2>1. \A i \in 1..(n + 1) : (\A j \in (i + 1)..(n + 1) : j \in U) => i \in U
    <3> SUFFICES ASSUME NEW i \in 1..(n + 1), \A j \in (i + 1)..(n + 1) : j \in U PROVE i \in U OBVIOUS
    <3>1. CASE i = n + 1 BY <1>3, <3>1
    <3>2. CASE i # n + 1
      <4>1. i \in 1..n /\ i + 1 \in (i + 1)..(n + 1) BY <1>1, <3>2
      <4>2. i + 1 \in N BY <4>1
      <4> HIDE DEF N
      <4> QED BY <1>4, <4>1, <4>2
    <3> QED BY <3>1, <3>2
  <2>2. n + 1 \in Nat BY <1>1
  <2> HIDE DEF U
  <2>3. \A i \in 1..(n + 1) : i \in U BY <2>1, <2>2, Downward
  <2>4. 1 \in 1..(n + 1) BY <1>1
  <2> HIDE DEF N
  <2> QED BY <2>3, <2>4 DEF U
<1>6. PICK g : Fits(1, g) BY <1>5
<1>7. g = [i \in 1..(n + 1) |-> IF i > n THEN << >> ELSE piece[i] \o g[next[i]]] BY <1>6
<1>8. Onward(piece, next) = CHOOSE f : f = [i \in 1..(n + 1) |-> IF i > n THEN << >> ELSE piece[i] \o f[next[i]]]
  BY DEF Onward, n
<1>9. Onward(piece, next) = [i \in 1..(n + 1) |-> IF i > n THEN << >>
                                                   ELSE piece[i] \o Onward(piece, next)[next[i]]]
  BY <1>7, <1>8
<1> DEFINE W == Onward(piece, next)
<1> HIDE DEF W
<1>10. W = [i \in 1..(n + 1) |-> IF i > n THEN << >> ELSE piece[i] \o W[next[i]]] BY <1>9 DEF W
<1>11. W[n + 1] = << >>
  <2>1. n + 1 \in 1..(n + 1) /\ n + 1 > n BY <1>1
  <2> QED BY <1>10, <2>1
<1>12. \A i \in 1..n : W[i] = piece[i] \o W[next[i]]
  <2>1. \A i \in 1..n : i \in 1..(n + 1) /\ ~(i > n) BY <1>1
  <2> QED BY <1>10, <2>1
<1>13. \A i \in 1..(n + 1) : W[i] \in Seq(S)
  <2> DEFINE U == {i \in 1..(n + 1) : W[i] \in Seq(S)}
  <2>1. \A i \in 1..(n + 1) : (\A j \in (i + 1)..(n + 1) : j \in U) => i \in U
    <3> SUFFICES ASSUME NEW i \in 1..(n + 1), \A j \in (i + 1)..(n + 1) : j \in U PROVE i \in U OBVIOUS
    <3>1. CASE i = n + 1
      <4>1. << >> \in Seq(S) OBVIOUS
      <4> QED BY <1>11, <3>1, <4>1
    <3>2. CASE i # n + 1
      <4>1. i \in 1..n BY <1>1, <3>2
      <4>2. next[i] \in (i + 1)..(n + 1) BY <1>1, <1>2, <4>1
      <4>3. piece[i] \in Seq(S) BY <1>1, <4>1
      <4>4. next[i] \in U BY <4>2
      <4>5. W[next[i]] \in Seq(S) BY <4>4
      <4>6. piece[i] \o W[next[i]] \in Seq(S) BY <4>3, <4>5
      <4>7. W[i] \in Seq(S) BY <1>12, <4>1, <4>6
      <4> QED BY <4>7
    <3> QED BY <3>1, <3>2
  <2>2. n + 1 \in Nat BY <1>1
  <2> HIDE DEF U
  <2>3. \A i \in 1..(n + 1) : i \in U BY <2>1, <2>2, Downward
  <2> QED BY <2>3 DEF U
<1>14. W \in [1..(n + 1) -> Seq(S)] BY <1>10, <1>13
<1> QED BY <1>11, <1>12, <1>14 DEF W, n, Unfolds

(* What holds of 0 and from each number up to n on of the next one.        *)
LEMMA Upward ==
  ASSUME NEW n \in Nat, NEW S, 0 \in S, \A i \in 0..(n - 1) : i \in S => i + 1 \in S
  PROVE  \A i \in 0..n : i \in S
<1> DEFINE T == {i \in Nat : i <= n => i \in S}
<1>1. 0 \in T OBVIOUS
<1>2. \A i \in Nat : i \in T => i + 1 \in T OBVIOUS
<1> HIDE DEF T
<1>3. Nat \subseteq T BY <1>1, <1>2, EveryNat
<1>4. \A i \in 0..n : i \in T BY <1>3
<1> QED BY <1>4 DEF T

(* A loop over the rest of a sequence is the rest of the loop.             *)
Shifted(p, next, q, after, k) ==
  \A i \in 1..Len(q) : p[i + k] = q[i] /\ next[i + k] = after[i] + k
SameRest(p, next, q, after, k) ==
  \A i \in 1..(Len(q) + 1) : Onward(p, next)[i + k] = Onward(q, after)[i]

(* A loop over the rest of a sequence comes to the same from there on.     *)
LEMMA OnwardShift ==
  ASSUME NEW S, NEW p \in Seq(Seq(S)), NEW next, Onwards(Len(p), next),
         NEW q \in Seq(Seq(S)), NEW after, Onwards(Len(q), after),
         NEW k \in Nat, Len(p) = Len(q) + k,
         Shifted(p, next, q, after, k)
  PROVE  SameRest(p, next, q, after, k)
<1> DEFINE P == Onward(p, next)
           Q == Onward(q, after)
           n == Len(q)
           U == {i \in 1..(n + 1) : P[i + k] = Q[i]}
<1>1. n \in Nat /\ n + 1 \in Nat /\ Len(p) \in Nat OBVIOUS
<1>2. /\ P[Len(p) + 1] = << >>
      /\ \A i \in 1..Len(p) : P[i] = p[i] \o P[next[i]]
  <2>1. Unfolds(S, p, next) BY OnwardIs
  <2> QED BY <2>1 DEF Unfolds
<1>3. /\ Q[n + 1] = << >>
      /\ \A i \in 1..n : Q[i] = q[i] \o Q[after[i]]
  <2>1. Unfolds(S, q, after) BY OnwardIs
  <2> QED BY <2>1 DEF Unfolds
<1>4. \A i \in 1..n : after[i] \in (i + 1)..(n + 1) BY DEF Onwards
<1>5. \A i \in 1..n : p[i + k] = q[i] /\ next[i + k] = after[i] + k BY DEF Shifted
<1>6. Len(p) = n + k OBVIOUS
<1> HIDE DEF P, Q, n
<1>7. ASSUME NEW i \in 1..(n + 1), \A j \in (i + 1)..(n + 1) : j \in U PROVE i \in U
  <2>1. CASE i = n + 1
    <3>1. i + k = Len(p) + 1 BY <1>1, <1>6, <2>1
    <3> QED BY <1>2, <1>3, <2>1, <3>1
  <2>2. CASE i # n + 1
    <3>1. i \in 1..n /\ i + k \in 1..Len(p) BY <1>1, <1>6, <2>2
    <3>2. after[i] \in U BY <1>4, <1>7, <3>1
    <3>3. P[after[i] + k] = Q[after[i]] BY <3>2
    <3>4. P[i + k] = p[i + k] \o P[next[i + k]] BY <1>2, <3>1
    <3>5. P[i + k] = q[i] \o Q[after[i]] BY <1>5, <3>1, <3>3, <3>4
    <3>6. P[i + k] = Q[i] BY <1>3, <3>1, <3>5
    <3> QED BY <3>6
  <2> QED BY <2>1, <2>2
<1> HIDE DEF U
<1>8. \A i \in 1..(n + 1) : i \in U BY <1>1, <1>7, Downward
<1> QED BY <1>8 DEF U, P, Q, n, SameRest

-----------------------------------------------------------------------------
(* Strings joined.                                                         *)

(* The function behind Concat.                                             *)
Joins(ss, F) ==
  /\ F[0] = << >>
  /\ \A i \in 1..Len(ss) : F[i] = F[i - 1] \o ss[i]

(* Concat(ss) is the last of the joined prefixes of ss.                    *)
LEMMA ConcatIs ==
  ASSUME NEW S, NEW ss \in Seq(Seq(S))
  PROVE  \E F \in [0..Len(ss) -> Seq(S)] : Joins(ss, F) /\ Concat(ss) = F[Len(ss)]
<1> DEFINE n == Len(ss)
           Val(g, i) == IF i = 1 THEN ss[i] ELSE g[i - 1] \o ss[i]
           Fits(m, g) == g \in [1..m -> Seq(S)] /\ \A i \in 1..m : g[i] = Val(g, i)
           N == {m \in 0..n : \E g : Fits(m, g)}
<1>1. n \in Nat /\ \A i \in 1..n : ss[i] \in Seq(S) OBVIOUS
<1>2. << >> \in Seq(S) OBVIOUS
<1> HIDE DEF n
<1>3. 0 \in N
  <2> DEFINE g == [i \in 1..0 |-> << >>]
  <2>1. g \in [1..0 -> Seq(S)] /\ \A i \in 1..0 : g[i] = Val(g, i) BY <1>2
  <2>2. Fits(0, g) BY <2>1
  <2>3. 0 \in 0..n BY <1>1
  <2> HIDE DEF Fits
  <2> QED BY <2>2, <2>3
<1>4. ASSUME NEW m \in 0..(n - 1), m \in N PROVE m + 1 \in N
  <2>1. PICK g : Fits(m, g) BY <1>4
  <2> DEFINE x == IF m = 0 THEN ss[1] ELSE g[m] \o ss[m + 1]
             h == [i \in 1..(m + 1) |-> IF i = m + 1 THEN x ELSE g[i]]
  <2>2. x \in Seq(S)
    <3>1. CASE m = 0
      <4>1. 1 \in 1..n BY <1>1, <3>1
      <4> QED BY <1>1, <3>1, <4>1
    <3>2. CASE m # 0
      <4>1. m \in 1..m /\ m + 1 \in 1..n BY <1>1, <3>2
      <4>2. g[m] \in Seq(S) /\ ss[m + 1] \in Seq(S) BY <1>1, <2>1, <4>1
      <4>3. g[m] \o ss[m + 1] \in Seq(S) BY <4>2
      <4> QED BY <3>2, <4>3
    <3> QED BY <3>1, <3>2
  <2>3. \A i \in 1..(m + 1) : i = m + 1 \/ i \in 1..m BY <1>1
  <2>4. \A i \in 1..m : i # m + 1 /\ i \in 1..(m + 1) BY <1>1
  <2>5. \A i \in 1..(m + 1) : h[i] \in Seq(S)
    <3> HIDE DEF x
    <3> QED BY <2>1, <2>2, <2>3
  <2>6. h \in [1..(m + 1) -> Seq(S)]
    <3> HIDE DEF x
    <3> QED BY <2>5
  <2>7. h[m + 1] = x
    <3>1. m + 1 \in 1..(m + 1) BY <1>1
    <3> HIDE DEF x
    <3> QED BY <3>1
  <2>8. \A i \in 1..m : h[i] = g[i]
    <3> HIDE DEF x
    <3> QED BY <2>4
  <2> HIDE DEF h
  <2>9. ASSUME NEW i \in 1..(m + 1) PROVE h[i] = Val(h, i)
    <3>1. CASE i = m + 1
      <4>1. CASE m = 0 BY <2>7, <3>1, <4>1
      <4>2. CASE m # 0
        <5>1. m \in 1..m /\ (m + 1) - 1 = m /\ m + 1 # 1 BY <1>1, <4>2
        <5>2. h[m] = g[m] BY <2>8, <5>1
        <5> QED BY <2>7, <3>1, <4>2, <5>1, <5>2
      <4> QED BY <4>1, <4>2
    <3>2. CASE i # m + 1
      <4>1. i \in 1..m BY <2>3, <3>2
      <4>2. h[i] = g[i] /\ g[i] = Val(g, i) BY <2>1, <2>8, <4>1
      <4>3. CASE i = 1 BY <4>2, <4>3
      <4>4. CASE i # 1
        <5>1. i - 1 \in 1..m BY <1>1, <4>1, <4>4
        <5>2. h[i - 1] = g[i - 1] BY <2>8, <5>1
        <5> QED BY <4>2, <4>4, <5>2
      <4> QED BY <4>3, <4>4
    <3> QED BY <3>1, <3>2
  <2>10. Fits(m + 1, h) BY <2>6, <2>9
  <2>11. m + 1 \in 0..n BY <1>1
  <2> HIDE DEF Fits
  <2> QED BY <2>10, <2>11
<1>5. n \in N
  <2> HIDE DEF N
  <2>1. \A i \in 0..n : i \in N BY <1>1, <1>3, <1>4, Upward
  <2>2. n \in 0..n BY <1>1
  <2> QED BY <2>1, <2>2
<1>6. PICK g : Fits(n, g) BY <1>5
<1>7. g = [i \in 1..n |-> IF i = 1 THEN ss[i] ELSE g[i - 1] \o ss[i]] BY <1>6
<1> DEFINE W == CHOOSE f : f = [i \in 1..n |-> IF i = 1 THEN ss[i] ELSE f[i - 1] \o ss[i]]
<1>8. W = [i \in 1..n |-> IF i = 1 THEN ss[i] ELSE W[i - 1] \o ss[i]] BY <1>7
<1>9. Concat(ss) = IF n = 0 THEN ss ELSE W[n] BY DEF Concat, FlattenSeq, n
<1> HIDE DEF W
<1>10. \A i \in 1..n : W[i] \in Seq(S)
  <2> DEFINE U == {i \in 0..n : i # 0 => W[i] \in Seq(S)}
  <2>1. 0 \in U BY <1>1
  <2>2. ASSUME NEW i \in 0..(n - 1), i \in U PROVE i + 1 \in U
    <3>1. i + 1 \in 1..n /\ (i + 1) - 1 = i /\ ss[i + 1] \in Seq(S) BY <1>1
    <3>2. CASE i = 0
      <4>1. W[1] = ss[1] BY <1>8, <3>1, <3>2
      <4> QED BY <3>1, <3>2, <4>1
    <3>3. CASE i # 0
      <4>1. W[i] \in Seq(S) BY <2>2, <3>3
      <4>2. W[i] \o ss[i + 1] \in Seq(S) BY <3>1, <4>1
      <4>3. i + 1 # 1 BY <3>3
      <4>4. W[i + 1] = W[i] \o ss[i + 1] BY <1>8, <3>1, <4>3
      <4>5. W[i + 1] \in Seq(S) /\ i + 1 \in 0..n BY <1>1, <4>2, <4>4
      <4> QED BY <4>5
    <3> QED BY <3>2, <3>3
  <2> HIDE DEF U
  <2>3. \A i \in 0..n : i \in U BY <1>1, <2>1, <2>2, Upward
  <2>4. TAKE i \in 1..n
  <2>5. i \in 0..n /\ i # 0 BY <1>1
  <2> QED BY <2>3, <2>5 DEF U
<1> DEFINE F == [i \in 0..n |-> IF i = 0 THEN << >> ELSE W[i]]
<1>11. F \in [0..n -> Seq(S)]
  <2>1. \A i \in 0..n : i = 0 \/ i \in 1..n BY <1>1
  <2> QED BY <1>2, <1>10, <2>1
<1>12. F[0] = << >>
  <2>1. 0 \in 0..n BY <1>1
  <2> QED BY <2>1
<1>13. \A i \in 1..n : F[i] = F[i - 1] \o ss[i]
  <2>1. TAKE i \in 1..n
  <2>2. i \in 0..n /\ i - 1 \in 0..n /\ i # 0 /\ ss[i] \in Seq(S) BY <1>1
  <2>3. F[i] = W[i] BY <2>2
  <2>4. CASE i = 1
    <3>1. F[i - 1] = << >> BY <1>12, <2>4
    <3>2. W[i] = ss[i] BY <1>8, <2>4
    <3>3. << >> \o ss[i] = ss[i] BY <2>2
    <3> QED BY <2>3, <3>1, <3>2, <3>3
  <2>5. CASE i # 1
    <3>1. i - 1 # 0 BY <2>2, <2>5
    <3>2. F[i - 1] = W[i - 1] BY <2>2, <3>1
    <3>3. W[i] = W[i - 1] \o ss[i] BY <1>8, <2>5
    <3> QED BY <2>3, <3>2, <3>3
  <2> QED BY <2>4, <2>5
<1>14. Concat(ss) = F[n]
  <2>1. n \in 0..n BY <1>1
  <2>2. CASE n = 0
    <3>1. ss = << >> BY <2>2 DEF n
    <3> QED BY <1>9, <1>12, <2>2, <3>1
  <2>3. CASE n # 0 BY <1>9, <2>1, <2>3
  <2> QED BY <2>2, <2>3
<1> HIDE DEF F
<1>15. Joins(ss, F) BY <1>12, <1>13 DEF Joins, n
<1> QED BY <1>11, <1>14, <1>15 DEF n

(* Sequences over S joined are a sequence over S.                          *)
LEMMA ConcatType ==
  ASSUME NEW S, NEW ss \in Seq(Seq(S)) PROVE Concat(ss) \in Seq(S)
<1>1. PICK F \in [0..Len(ss) -> Seq(S)] : Joins(ss, F) /\ Concat(ss) = F[Len(ss)] BY ConcatIs
<1>2. Len(ss) \in 0..Len(ss) OBVIOUS
<1> QED BY <1>1, <1>2

(* No sequences joined are none.                                           *)
LEMMA ConcatNone == Concat(<< >>) = << >>
<1>1. Len(<< >>) = 0 OBVIOUS
<1> QED BY <1>1 DEF Concat, FlattenSeq

(* One sequence joined is itself.                                          *)
LEMMA ConcatOne ==
  ASSUME NEW S, NEW x \in Seq(S) PROVE Concat(<<x>>) = x
<1>1. <<x>> \in Seq(Seq(S)) /\ Len(<<x>>) = 1 /\ <<x>>[1] = x OBVIOUS
<1>2. PICK F : Joins(<<x>>, F) /\ Concat(<<x>>) = F[Len(<<x>>)] BY <1>1, ConcatIs
<1>3. F[0] = << >> /\ F[1] = << >> \o x
  <2>1. F[0] = << >> /\ \A i \in 1..Len(<<x>>) : F[i] = F[i - 1] \o <<x>>[i]
    BY <1>2, Zenon DEF Joins
  <2>2. 1 \in 1..Len(<<x>>) /\ 1 - 1 = 0 BY <1>1
  <2>3. F[1] = F[1 - 1] \o <<x>>[1] BY <2>1, <2>2, Zenon
  <2> QED BY <1>1, <2>1, <2>2, <2>3, Zenon
<1>4. F[1] = << >> \o x BY <1>3
<1>5. << >> \o x = x OBVIOUS
<1> QED BY <1>1, <1>2, <1>4, <1>5

(* Joining is associative, ...                                             *)
LEMMA JoinInAnyOrder == \A S : \A s, t, u \in Seq(S) : (s \o t) \o u = s \o (t \o u)
<1> TAKE S
<1> TAKE s, t, u \in Seq(S)
<1> QED BY ConcatAssociative

(* Concatenation by name: the provers match the name.                      *)
Cat(s, t) == s \o t

(* ... by name too.                                                        *)
LEMMA CatInAnyOrder == \A S : \A s, t, u \in Seq(S) : Cat(Cat(s, t), u) = Cat(s, Cat(t, u))
BY JoinInAnyOrder DEF Cat

(* Joining what is in one list and then in another.                        *)
LEMMA ConcatCat ==
  ASSUME NEW S, NEW a \in Seq(Seq(S)), NEW b \in Seq(Seq(S))
  PROVE  Concat(a \o b) = Concat(a) \o Concat(b)
<1> DEFINE m == Len(a)
           n == Len(b)
           c == a \o b
<1>1. m \in Nat /\ n \in Nat /\ c \in Seq(Seq(S)) /\ Len(c) = m + n OBVIOUS
<1>2. PICK F \in [0..m -> Seq(S)] : Joins(a, F) /\ Concat(a) = F[m] BY ConcatIs
<1>3. PICK G \in [0..n -> Seq(S)] : Joins(b, G) /\ Concat(b) = G[n] BY ConcatIs
<1>4. PICK H : Joins(c, H) /\ Concat(c) = H[m + n] BY <1>1, ConcatIs
<1>5. /\ \A i \in 1..m : c[i] = a[i]
      /\ \A j \in 1..n : c[m + j] = b[j]
  OBVIOUS
<1>6. F[0] = << >> /\ \A i \in 1..m : F[i] = F[i - 1] \o a[i] BY <1>2 DEF Joins
<1>7. G[0] = << >> /\ \A i \in 1..n : G[i] = G[i - 1] \o b[i] BY <1>3 DEF Joins
<1>8. H[0] = << >> /\ \A i \in 1..(m + n) : H[i] = H[i - 1] \o c[i] BY <1>1, <1>4 DEF Joins
<1>9. \A j \in 1..n : b[j] \in Seq(S) OBVIOUS
<1> HIDE DEF m, n, c
<1>10. H[m] = F[m]
  <2> DEFINE U == {i \in 0..m : H[i] = F[i]}
  <2>1. 0 \in U BY <1>1, <1>6, <1>8
  <2>2. ASSUME NEW i \in 0..(m - 1), i \in U PROVE i + 1 \in U
    <3>1. i + 1 \in 1..m /\ i + 1 \in 1..(m + n) /\ (i + 1) - 1 = i /\ i + 1 \in 0..m BY <1>1
    <3>2. H[i] = F[i] BY <2>2
    <3>3. H[i + 1] = H[i] \o a[i + 1] BY <1>5, <1>8, <3>1
    <3>4. F[i + 1] = F[i] \o a[i + 1] BY <1>6, <3>1
    <3> QED BY <3>1, <3>2, <3>3, <3>4
  <2> HIDE DEF U
  <2>3. \A i \in 0..m : i \in U BY <1>1, <2>1, <2>2, Upward
  <2>4. m \in 0..m BY <1>1
  <2> QED BY <2>3, <2>4 DEF U
<1>11. H[m + n] = F[m] \o G[n]
  <2> DEFINE U == {j \in 0..n : H[m + j] = F[m] \o G[j]}
  <2>0. F[m] \in Seq(S)
    <3>1. m \in 0..m BY <1>1
    <3> QED BY <1>2, <3>1
  <2>1. 0 \in U
    <3>1. F[m] \o << >> = F[m] /\ m + 0 = m /\ 0 \in 0..n BY <1>1, <2>0
    <3> QED BY <1>7, <1>10, <3>1
  <2>2. ASSUME NEW j \in 0..(n - 1), j \in U PROVE j + 1 \in U
    <3>1. /\ j + 1 \in 1..n /\ m + (j + 1) \in 1..(m + n) /\ (j + 1) - 1 = j
          /\ (m + (j + 1)) - 1 = m + j /\ j + 1 \in 0..n /\ j \in 0..n
      BY <1>1
    <3>2. H[m + j] = F[m] \o G[j] BY <2>2
    <3> DEFINE y == b[j + 1]
    <3>3. H[m + (j + 1)] = (F[m] \o G[j]) \o y
      <4>1. c[m + (j + 1)] = y BY <1>5, <3>1
      <4>2. H[m + (j + 1)] = H[m + j] \o c[m + (j + 1)] BY <1>8, <3>1
      <4> QED BY <3>2, <4>1, <4>2
    <3>4. G[j + 1] = G[j] \o y BY <1>7, <3>1
    <3>5. G[j] \in Seq(S) /\ y \in Seq(S) BY <1>3, <1>9, <3>1
    <3> HIDE DEF y
    <3>6. (F[m] \o G[j]) \o y = F[m] \o (G[j] \o y)
      <4>1. Cat(Cat(F[m], G[j]), y) = Cat(F[m], Cat(G[j], y)) BY <2>0, <3>5, CatInAnyOrder
      <4> QED BY <4>1 DEF Cat
    <3> QED BY <3>1, <3>3, <3>4, <3>6
  <2> HIDE DEF U
  <2>3. \A j \in 0..n : j \in U BY <1>1, <2>1, <2>2, Upward
  <2>4. n \in 0..n BY <1>1
  <2> QED BY <2>3, <2>4 DEF U
<1> QED BY <1>2, <1>3, <1>4, <1>11 DEF c

(* The last of a list is joined last, ...                                  *)
LEMMA ConcatAppend ==
  ASSUME NEW S, NEW a \in Seq(Seq(S)), NEW x \in Seq(S)
  PROVE  Concat(Append(a, x)) = Concat(a) \o x
<1>1. Append(a, x) = a \o <<x>> /\ <<x>> \in Seq(Seq(S)) BY AppendIsConcat
<1>2. Concat(a \o <<x>>) = Concat(a) \o Concat(<<x>>) BY <1>1, ConcatCat
<1> QED BY <1>1, <1>2, ConcatOne

(* ... the first of a list first.                                          *)
LEMMA ConcatHead ==
  ASSUME NEW S, NEW a \in Seq(Seq(S)), NEW x \in Seq(S)
  PROVE  Concat(<<x>> \o a) = x \o Concat(a)
<1>1. <<x>> \in Seq(Seq(S)) OBVIOUS
<1>2. Concat(<<x>> \o a) = Concat(<<x>>) \o Concat(a) BY <1>1, ConcatCat
<1> QED BY <1>2, ConcatOne

-----------------------------------------------------------------------------
(* Finite sets of numbers                                                  *)

(* The least of a set of numbers.                                          *)
LEMMA MinIs ==
  ASSUME NEW S \in SUBSET Nat, S # {}
  PROVE  Min(S) \in S /\ \A j \in S : Min(S) <= j
<1>1. \E i \in S : \A j \in S : i <= j BY Least
<1> QED BY <1>1 DEF Min

(* The greatest of a bounded set of numbers.                               *)
LEMMA MaxIs ==
  ASSUME NEW n \in Nat, NEW S \in SUBSET (0..n), S # {}
  PROVE  Max(S) \in S /\ \A j \in S : j <= Max(S)
<1> DEFINE T == {k \in Nat : n - k \in S}
<1>1. T \in SUBSET Nat OBVIOUS
<1>2. T # {}
  <2>1. PICK j \in S : TRUE OBVIOUS
  <2>2. n - j \in Nat /\ n - (n - j) = j BY <2>1
  <2> QED BY <2>1, <2>2
<1>3. PICK k \in T : \A j \in T : k <= j BY <1>1, <1>2, Least
<1>4. n - k \in S /\ k \in Nat BY <1>3
<1>5. \A j \in S : n - j \in T /\ j \in Nat
  <2>1. TAKE j \in S
  <2>2. n - j \in Nat /\ n - (n - j) = j OBVIOUS
  <2> QED BY <2>2
<1>6. \A j \in S : n - k >= j
  <2>1. TAKE j \in S
  <2>2. k <= n - j /\ j \in Nat BY <1>3, <1>5
  <2> QED BY <1>4, <2>2
<1>7. \E i \in S : \A j \in S : i >= j BY <1>4, <1>6
<1>8. Max(S) \in S /\ \A j \in S : Max(S) >= j
  <2> HIDE DEF T
  <2> QED BY <1>7 DEF Max
<1> QED BY <1>8

-----------------------------------------------------------------------------
(* Merging.                                                                *)

(* A step taken again and again.                                           *)
Iterates(X, step, x, n, f) ==
  f \in [0..n -> X] /\ f[0] = x /\ \A k \in 1..n : f[k] = step[f[k - 1]]

(* A step can be taken n times.                                            *)
LEMMA IterateExists ==
  ASSUME NEW X, NEW step \in [X -> X], NEW x \in X, NEW n \in Nat
  PROVE  \E f : Iterates(X, step, x, n, f)
<1> DEFINE Fits(m, g) == g \in [0..m -> X] /\ g[0] = x /\ \A k \in 1..m : g[k] = step[g[k - 1]]
           N == {m \in 0..n : \E g : Fits(m, g)}
<1>1. 0 \in N
  <2> DEFINE g == [k \in 0..0 |-> x]
  <2>1. g \in [0..0 -> X] /\ g[0] = x /\ \A k \in 1..0 : g[k] = step[g[k - 1]] OBVIOUS
  <2>2. Fits(0, g) BY <2>1
  <2> HIDE DEF Fits
  <2> QED BY <2>2
<1>2. ASSUME NEW m \in 0..(n - 1), m \in N PROVE m + 1 \in N
  <2>1. PICK g : Fits(m, g) BY <1>2
  <2> DEFINE h == [k \in 0..(m + 1) |-> IF k = m + 1 THEN step[g[m]] ELSE g[k]]
  <2>2. g[m] \in X /\ step[g[m]] \in X
    <3>1. m \in 0..m OBVIOUS
    <3> QED BY <2>1, <3>1
  <2>3. \A k \in 0..(m + 1) : k = m + 1 \/ k \in 0..m OBVIOUS
  <2>4. \A k \in 0..m : k # m + 1 /\ k \in 0..(m + 1) OBVIOUS
  <2>5. \A k \in 0..(m + 1) : h[k] \in X BY <2>1, <2>2, <2>3
  <2>6. h \in [0..(m + 1) -> X] BY <2>5
  <2>7. h[m + 1] = step[g[m]] OBVIOUS
  <2>8. \A k \in 0..m : h[k] = g[k] BY <2>4
  <2> HIDE DEF h
  <2>9. h[0] = x
    <3>1. 0 \in 0..m OBVIOUS
    <3> QED BY <2>1, <2>8, <3>1
  <2>10. ASSUME NEW k \in 1..(m + 1) PROVE h[k] = step[h[k - 1]]
    <3>1. k - 1 \in 0..m OBVIOUS
    <3>2. h[k - 1] = g[k - 1] BY <2>8, <3>1
    <3>3. CASE k = m + 1
      <4>1. k - 1 = m BY <3>3
      <4> QED BY <2>7, <3>2, <3>3, <4>1
    <3>4. CASE k # m + 1
      <4>1. k \in 1..m /\ k \in 0..m BY <3>4
      <4> QED BY <2>1, <2>8, <3>2, <4>1
    <3> QED BY <3>3, <3>4
  <2>11. Fits(m + 1, h) BY <2>6, <2>9, <2>10
  <2>12. m + 1 \in 0..n OBVIOUS
  <2> HIDE DEF Fits
  <2> QED BY <2>11, <2>12
<1> HIDE DEF N
<1>3. \A m \in 0..n : m \in N BY <1>1, <1>2, Upward
<1>4. n \in N
  <2>1. n \in 0..n OBVIOUS
  <2> QED BY <1>3, <2>1
<1> QED BY <1>4 DEF N, Iterates

(* The strings of a vocabulary, and those made of them.                    *)
Learnt(v) == v.merges \in Seq(String \X String)

(* Strings joined are a string.                                            *)
LEMMA StringCat == ASSUME NEW a \in String, NEW b \in String PROVE a \o b \in String
BY DEF String

(* A rank other than 0 is the place of a merge of the pair.                *)
LEMMA RankIs ==
  ASSUME NEW v, Learnt(v), NEW a, NEW b
  PROVE  /\ Rank(v, a, b) \in Nat
         /\ Rank(v, a, b) # 0 => Rank(v, a, b) \in DOMAIN v.merges /\ v.merges[Rank(v, a, b)] = <<a, b>>
<1> DEFINE S == {r \in DOMAIN v.merges : v.merges[r] = <<a, b>>}
           n == Len(v.merges)
<1>1. DOMAIN v.merges = 1..n /\ n \in Nat BY DEF Learnt
<1>2. Rank(v, a, b) = IF S # {} THEN Max(S) ELSE 0 BY DEF Rank
<1>3. S \in SUBSET (0..n) BY <1>1
<1>4. S # {} => Max(S) \in S
  <2> HIDE DEF S, n
  <2> QED BY <1>1, <1>3, MaxIs
<1>5. CASE S = {} BY <1>2, <1>5
<1>6. CASE S # {}
  <2>1. Max(S) \in S BY <1>4, <1>6
  <2>2. Max(S) \in DOMAIN v.merges /\ v.merges[Max(S)] = <<a, b>> BY <2>1
  <2>3. Max(S) \in Nat BY <1>1, <2>2
  <2> HIDE DEF S
  <2> QED BY <1>2, <1>6, <2>2, <2>3
<1> QED BY <1>5, <1>6

(* No pair with a merged half is learnt before the merge.                  *)
LEMMA LaterRank ==
  ASSUME NEW v, Learnt(v), LearntInOrder(v), NEW a, NEW b, NEW x, Rank(v, a, b) # 0
  PROVE  /\ Rank(v, x, a \o b) # 0 => Rank(v, a, b) < Rank(v, x, a \o b)
         /\ Rank(v, a \o b, x) # 0 => Rank(v, a, b) < Rank(v, a \o b, x)
<1> DEFINE q == Rank(v, a, b)
<1>1. q \in DOMAIN v.merges /\ v.merges[q] = <<a, b>> BY RankIs
<1>2. v.merges[q][1] \o v.merges[q][2] = a \o b BY <1>1
<1>3. ASSUME NEW r \in DOMAIN v.merges, NEW half, half = v.merges[r][1] \/ half = v.merges[r][2],
             half = a \o b
      PROVE  q < r
  <2> HIDE DEF q
  <2> QED BY <1>1, <1>2, <1>3 DEF LearntInOrder
<1>4. Rank(v, x, a \o b) # 0 => q < Rank(v, x, a \o b)
  <2> DEFINE r == Rank(v, x, a \o b)
  <2> SUFFICES ASSUME r # 0 PROVE q < r OBVIOUS
  <2>1. r \in DOMAIN v.merges /\ v.merges[r] = <<x, a \o b>> BY RankIs
  <2>2. v.merges[r][2] = a \o b BY <2>1
  <2> HIDE DEF r, q
  <2> QED BY <1>3, <2>1, <2>2
<1>5. Rank(v, a \o b, x) # 0 => q < Rank(v, a \o b, x)
  <2> DEFINE r == Rank(v, a \o b, x)
  <2> SUFFICES ASSUME r # 0 PROVE q < r OBVIOUS
  <2>1. r \in DOMAIN v.merges /\ v.merges[r] = <<a \o b, x>> BY RankIs
  <2>2. v.merges[r][1] = a \o b BY <2>1
  <2> HIDE DEF r, q
  <2> QED BY <1>3, <2>1, <2>2
<1> QED BY <1>4, <1>5

(* The ranks of the neighbours in a list.                                  *)
RankAt(v, s, i) == Rank(v, s[i], s[i + 1])

(* The mergeable ranks are those of neighbours.                            *)
LEMMA MergeableIs ==
  ASSUME NEW v, Learnt(v), NEW s \in Seq(String)
  PROVE  /\ Mergeable(v, s) \in SUBSET Nat /\ 0 \notin Mergeable(v, s)
         /\ \A i \in 1..(Len(s) - 1) : RankAt(v, s, i) # 0 => RankAt(v, s, i) \in Mergeable(v, s)
         /\ \A r \in Mergeable(v, s) : \E i \in 1..(Len(s) - 1) : r = RankAt(v, s, i)
<1>1. Mergeable(v, s) = {RankAt(v, s, i) : i \in 1..(Len(s) - 1)} \ {0} BY DEF Mergeable, RankAt
<1>2. ASSUME NEW i \in 1..(Len(s) - 1) PROVE RankAt(v, s, i) \in Nat BY RankIs DEF RankAt
<1> QED BY <1>1, <1>2

(* The best rank is that of some neighbours, and no neighbours have a      *)
(* better.                                                                 *)
LEMMA BestIs ==
  ASSUME NEW v, Learnt(v), NEW s \in Seq(String), Mergeable(v, s) # {}
  PROVE  /\ BestRank(v, s) \in Nat /\ BestRank(v, s) # 0 /\ BestRank(v, s) \in Mergeable(v, s)
         /\ \A i \in 1..(Len(s) - 1) : RankAt(v, s, i) # 0 => BestRank(v, s) <= RankAt(v, s, i)
<1>1. Mergeable(v, s) \in SUBSET Nat /\ 0 \notin Mergeable(v, s) BY MergeableIs
<1>2. /\ BestRank(v, s) \in Mergeable(v, s)
      /\ \A r \in Mergeable(v, s) : BestRank(v, s) <= r
  BY <1>1, MinIs DEF BestRank
<1>3. \A i \in 1..(Len(s) - 1) : RankAt(v, s, i) # 0 => RankAt(v, s, i) \in Mergeable(v, s)
  BY MergeableIs
<1> QED BY <1>1, <1>2, <1>3

(* The loop of a round.                                                    *)
PairAt(v, s, r, i) == i < Len(s) /\ Rank(v, s[i], s[i + 1]) = r
RoundPiece(v, s, r) ==
  [i \in DOMAIN s |-> IF PairAt(v, s, r, i) THEN <<s[i] \o s[i + 1]>> ELSE <<s[i]>>]
RoundNext(v, s, r) == [i \in DOMAIN s |-> IF PairAt(v, s, r, i) THEN i + 2 ELSE i + 1]
RoundFrom(v, s, r) == Onward(RoundPiece(v, s, r), RoundNext(v, s, r))

RoundUnfolds(v, s, r) ==
  /\ RoundFrom(v, s, r) \in [1..(Len(s) + 1) -> Seq(String)]
  /\ RoundFrom(v, s, r)[Len(s) + 1] = << >>
  /\ \A i \in 1..Len(s) :
       RoundFrom(v, s, r)[i]
         = IF PairAt(v, s, r, i) THEN <<s[i] \o s[i + 1]>> \o RoundFrom(v, s, r)[i + 2]
           ELSE <<s[i]>> \o RoundFrom(v, s, r)[i + 1]
  /\ MergeRound(v, s, r) = RoundFrom(v, s, r)[1]

(* A round from position i on, in terms of the round further on.           *)
LEMMA RoundIs ==
  ASSUME NEW v, NEW s \in Seq(String), NEW r
  PROVE  RoundUnfolds(v, s, r)
<1> DEFINE p == RoundPiece(v, s, r)
           nx == RoundNext(v, s, r)
           n == Len(s)
<1>1. DOMAIN s = 1..n /\ n \in Nat /\ \A i \in 1..n : s[i] \in String OBVIOUS
<1>2. \A i \in 1..n : PairAt(v, s, r, i) => i + 1 \in 1..n BY <1>1 DEF PairAt
<1>3. \A i \in 1..n : p[i] \in Seq(String)
  <2>1. TAKE i \in 1..n
  <2>2. CASE PairAt(v, s, r, i)
    <3>1. s[i] \in String /\ s[i + 1] \in String BY <1>1, <1>2, <2>2
    <3>2. s[i] \o s[i + 1] \in String BY <3>1, StringCat
    <3>3. <<s[i] \o s[i + 1]>> \in Seq(String) BY <3>2
    <3>4. p[i] = <<s[i] \o s[i + 1]>> BY <1>1, <2>2 DEF RoundPiece
    <3> QED BY <3>3, <3>4
  <2>3. CASE ~PairAt(v, s, r, i)
    <3>1. p[i] = <<s[i]>> BY <1>1, <2>3 DEF RoundPiece
    <3>2. <<s[i]>> \in Seq(String) BY <1>1
    <3> QED BY <3>1, <3>2
  <2> QED BY <2>2, <2>3
<1>4. DOMAIN p = 1..n BY <1>1 DEF RoundPiece
<1>5. p \in Seq(Seq(String)) /\ Len(p) = n
  <2>1. p = [i \in 1..n |-> p[i]] BY <1>1 DEF RoundPiece
  <2>2. p \in [1..n -> Seq(String)]
    <3> HIDE DEF p
    <3> QED BY <1>3, <2>1
  <2> HIDE DEF p, n
  <2> QED BY <1>1, <2>2
<1>6. \A i \in 1..n : nx[i] = IF PairAt(v, s, r, i) THEN i + 2 ELSE i + 1 BY <1>1 DEF RoundNext
<1>7. Onwards(Len(p), nx)
  <2>1. ASSUME NEW i \in 1..n PROVE nx[i] \in (i + 1)..(n + 1)
    <3>1. CASE PairAt(v, s, r, i)
      <4>1. nx[i] = i + 2 /\ i + 1 \in 1..n BY <1>2, <1>6, <3>1
      <4> QED BY <1>1, <4>1
    <3>2. CASE ~PairAt(v, s, r, i)
      <4>1. nx[i] = i + 1 BY <1>6, <3>2
      <4> QED BY <1>1, <4>1
    <3> QED BY <3>1, <3>2
  <2> QED BY <1>5, <2>1 DEF Onwards
<1>8. Unfolds(String, p, nx)
  <2> HIDE DEF p, nx
  <2> QED BY <1>5, <1>7, OnwardIs
<1> DEFINE W == RoundFrom(v, s, r)
<1>9. /\ W \in [1..(n + 1) -> Seq(String)] /\ W[n + 1] = << >>
      /\ \A i \in 1..n : W[i] = p[i] \o W[nx[i]]
  <2>1. W = Onward(p, nx) BY DEF RoundFrom
  <2> HIDE DEF p, nx, W, n
  <2> QED BY <1>5, <1>8, <2>1 DEF Unfolds
<1>10. ASSUME NEW i \in 1..n
       PROVE  W[i] = IF PairAt(v, s, r, i) THEN <<s[i] \o s[i + 1]>> \o W[i + 2]
                     ELSE <<s[i]>> \o W[i + 1]
  <2>1. p[i] = IF PairAt(v, s, r, i) THEN <<s[i] \o s[i + 1]>> ELSE <<s[i]>>
    BY <1>1 DEF RoundPiece
  <2> HIDE DEF p, nx, W, n
  <2> QED BY <1>6, <1>9, <2>1
<1>11. MergeRound(v, s, r) = W[1]
  BY DEF MergeRound, Walk, RoundFrom, RoundPiece, RoundNext, PairAt
<1> HIDE DEF p, nx, W
<1> QED BY <1>9, <1>10, <1>11 DEF RoundUnfolds, W

(* Two neighbours of a list put together.                                  *)
PutTogether(s, i) ==
  SubSeq(s, 1, i - 1) \o <<s[i] \o s[i + 1]>> \o SubSeq(s, i + 2, Len(s))

(* A part of a list is indexed from its beginning.                         *)
LEMMA SubSeqIs ==
  ASSUME NEW S, NEW s \in Seq(S), NEW i \in Int, NEW j \in Int, 1 <= i, j <= Len(s), i <= j + 1
  PROVE  /\ SubSeq(s, i, j) \in Seq(S) /\ Len(SubSeq(s, i, j)) = j - i + 1
         /\ \A k \in 1..(j - i + 1) : SubSeq(s, i, j)[k] = s[k + i - 1]
<1>1. \A k \in i..j : s[k] \in S OBVIOUS
<1>2. /\ SubSeq(s, i, j) \in Seq(S)
      /\ Len(SubSeq(s, i, j)) = IF i <= j THEN j - i + 1 ELSE 0
      /\ \A k \in 1..(j - i + 1) : SubSeq(s, i, j)[k] = s[i + k - 1]
  BY <1>1, SubSeqProperties
<1>3. \A k \in 1..(j - i + 1) : i + k - 1 = k + i - 1 OBVIOUS
<1> QED BY <1>2, <1>3

(* What the list is after its neighbours i and i + 1 are put together.     *)
LEMMA PutTogetherIs ==
  ASSUME NEW s \in Seq(String), NEW i \in 1..(Len(s) - 1)
  PROVE  LET d == PutTogether(s, i)
         IN /\ d \in Seq(String) /\ Len(d) = Len(s) - 1
            /\ \A k \in 1..(i - 1) : d[k] = s[k]
            /\ d[i] = s[i] \o s[i + 1]
            /\ \A k \in (i + 1)..(Len(s) - 1) : d[k] = s[k + 1]
            /\ SubSeq(d, 1, i) = SubSeq(s, 1, i - 1) \o <<s[i] \o s[i + 1]>>
<1> DEFINE n == Len(s)
           a == SubSeq(s, 1, i - 1)
           x == s[i] \o s[i + 1]
           b == SubSeq(s, i + 2, n)
           c == a \o <<x>>
           d == PutTogether(s, i)
<1>1. n \in Nat /\ i \in Nat /\ i >= 1 /\ i + 1 <= n OBVIOUS
<1>2. x \in String
  <2>1. s[i] \in String /\ s[i + 1] \in String OBVIOUS
  <2> QED BY <2>1, StringCat
<1>3. a \in Seq(String) /\ Len(a) = i - 1 /\ \A k \in 1..(i - 1) : a[k] = s[k]
  <2>1. /\ a \in Seq(String) /\ Len(a) = (i - 1) - 1 + 1
        /\ \A k \in 1..((i - 1) - 1 + 1) : a[k] = s[k + 1 - 1]
    BY <1>1, SubSeqIs
  <2>2. (i - 1) - 1 + 1 = i - 1 /\ \A k \in 1..(i - 1) : k + 1 - 1 = k BY <1>1
  <2> HIDE DEF a
  <2> QED BY <2>1, <2>2
<1>4. b \in Seq(String) /\ Len(b) = n - i - 1 /\ \A k \in 1..(n - i - 1) : b[k] = s[k + i + 1]
  <2>1. /\ b \in Seq(String) /\ Len(b) = n - (i + 2) + 1
        /\ \A k \in 1..(n - (i + 2) + 1) : b[k] = s[k + (i + 2) - 1]
    BY <1>1, SubSeqIs
  <2>2. n - (i + 2) + 1 = n - i - 1 /\ \A k \in 1..(n - i - 1) : k + (i + 2) - 1 = k + i + 1 BY <1>1
  <2> HIDE DEF b
  <2> QED BY <2>1, <2>2
<1>5. d = c \o b BY DEF PutTogether
<1> HIDE DEF a, b, x, d, n
<1>6. c \in Seq(String) /\ Len(c) = i /\ (\A k \in 1..(i - 1) : c[k] = s[k]) /\ c[i] = x
  <2>1. <<x>> \in Seq(String) /\ Len(<<x>>) = 1 /\ <<x>>[1] = x BY <1>2
  <2> QED BY <1>1, <1>3, <2>1
<1> HIDE DEF c
<1>7. d \in Seq(String) /\ Len(d) = n - 1
  <2>1. c \o b \in Seq(String) /\ Len(c \o b) = Len(c) + Len(b) BY <1>4, <1>6, ConcatProperties
  <2>2. Len(c) + Len(b) = n - 1 BY <1>1, <1>4, <1>6
  <2> QED BY <1>5, <2>1, <2>2
<1>8. \A k \in 1..i : d[k] = c[k] BY <1>1, <1>4, <1>5, <1>6
<1>9. (\A k \in 1..(i - 1) : d[k] = s[k]) /\ d[i] = x BY <1>1, <1>6, <1>8
<1>10. \A k \in (i + 1)..(n - 1) : d[k] = s[k + 1]
  <2>1. TAKE k \in (i + 1)..(n - 1)
  <2>2. k - i \in 1..(n - i - 1) /\ (k - i) + i + 1 = k + 1 BY <1>1
  <2>3. d[k] = b[k - i] BY <1>1, <1>4, <1>5, <1>6, <2>2
  <2> QED BY <1>4, <2>2, <2>3
<1>11. SubSeq(d, 1, i) = c
  <2> DEFINE e == SubSeq(d, 1, i)
  <2>1. e \in Seq(String) /\ Len(e) = i - 1 + 1 /\ \A k \in 1..(i - 1 + 1) : e[k] = d[k + 1 - 1]
    BY <1>1, <1>7, SubSeqIs
  <2>2. i - 1 + 1 = i /\ \A k \in 1..i : k + 1 - 1 = k BY <1>1
  <2> HIDE DEF e
  <2>3. Len(e) = Len(c) /\ \A k \in 1..Len(e) : e[k] = c[k] BY <1>6, <1>8, <2>1, <2>2
  <2>4. e = c BY <1>6, <2>1, <2>3, SeqEqual
  <2> QED BY <2>4 DEF e
<1> QED BY <1>7, <1>9, <1>10, <1>11 DEF n, d, x, c, a

(* The turn that merges at i.                                              *)
LEMMA LeftmostIs ==
  ASSUME NEW v, Learnt(v), NEW s \in Seq(String), NEW i \in 1..(Len(s) - 1), RankAt(v, s, i) # 0,
         \A k \in 1..(Len(s) - 1) : RankAt(v, s, k) # 0 => RankAt(v, s, i) <= RankAt(v, s, k),
         \A k \in 1..(i - 1) : RankAt(v, s, k) # RankAt(v, s, i)
  PROVE  MergedLeftmost(v, s) = PutTogether(s, i)
<1> DEFINE r == RankAt(v, s, i)
           M == Mergeable(v, s)
           J == {j \in 1..(Len(s) - 1) : Rank(v, s[j], s[j + 1]) = Min(Mergeable(v, s))}
<1>1. M \in SUBSET Nat /\ r \in M /\ \A q \in M : \E k \in 1..(Len(s) - 1) : q = RankAt(v, s, k)
  BY MergeableIs
<1>2. 0 \notin M BY MergeableIs
<1>3. Min(M) \in M /\ Min(M) <= r
  <2> HIDE DEF M, r
  <2> QED BY <1>1, MinIs
<1>4. Min(M) = r
  <2>1. PICK k \in 1..(Len(s) - 1) : Min(M) = RankAt(v, s, k) BY <1>1, <1>3
  <2>2. r <= Min(M) BY <1>2, <1>3, <2>1
  <2>3. Min(M) \in Nat /\ r \in Nat BY <1>1, <1>3
  <2> HIDE DEF M, r
  <2> QED BY <1>3, <2>2, <2>3
<1>5. i \in J /\ J \in SUBSET Nat /\ \A j \in J : ~(j < i)
  <2>1. \A j \in 1..(Len(s) - 1) : j \in J <=> RankAt(v, s, j) = r BY <1>4 DEF RankAt
  <2>2. \A j \in J : j \in 1..(Len(s) - 1) OBVIOUS
  <2> HIDE DEF J
  <2>3. J \in SUBSET Nat BY <2>2
  <2>4. i \in J BY <2>1
  <2>5. ASSUME NEW j \in J, j < i PROVE FALSE
    <3>1. j \in 1..(i - 1) /\ RankAt(v, s, j) = r BY <2>1, <2>2, <2>5
    <3> QED BY <3>1
  <2> QED BY <2>3, <2>4, <2>5
<1>6. Min(J) = i
  <2> HIDE DEF J
  <2>1. Min(J) \in J /\ Min(J) <= i BY <1>5, MinIs
  <2>2. Min(J) \in Nat /\ ~(Min(J) < i) BY <1>5, <2>1
  <2> QED BY <2>1, <2>2
<1>7. MergedLeftmost(v, s)
        = IF M = {} THEN s
          ELSE LET j == Min(J)
               IN SubSeq(s, 1, j - 1) \o <<s[j] \o s[j + 1]>> \o SubSeq(s, j + 2, Len(s))
  BY DEF MergedLeftmost
<1>8. M # {} BY <1>1
<1> HIDE DEF M, J, r
<1> QED BY <1>6, <1>7, <1>8 DEF PutTogether

(* Turns of one merge each.                                                *)
Turn(v, T, n) ==
  T \in [0..n -> Seq(String)] /\ \A k \in 1..n : T[k] = MergedLeftmost(v, T[k - 1])

(* In the middle of a round of rank r over s: a symbols are out, the loop  *)
(* is at i, and j turns make what is out and the rest of s.                *)
MidRound(v, s, r, T, n, j0, a, i, j) ==
  LET C == T[j]
  IN /\ a \in Nat /\ i \in 1..(Len(s) + 1) /\ j \in j0..n
     /\ Len(C) = n - j /\ Len(C) = a + Len(s) - i + 1
     /\ \A q \in i..Len(s) : C[a + q - i + 1] = s[q]
     /\ MergeRound(v, s, r) = SubSeq(C, 1, a) \o RoundFrom(v, s, r)[i]
     /\ \A p \in 1..(Len(C) - 1) : /\ RankAt(v, C, p) # 0 => r <= RankAt(v, C, p)
                                   /\ p <= a => RankAt(v, C, p) # r
     /\ j > j0 \/ \E q \in i..(Len(s) - 1) : RankAt(v, s, q) = r

(* The round merges a pair: that is the next turn.                         *)
LEMMA RoundMerges ==
  ASSUME NEW v, Learnt(v), LearntInOrder(v), NEW s \in Seq(String), NEW r \in Nat, r # 0,
         NEW n \in Nat, NEW T, Turn(v, T, n), NEW j0 \in Nat,
         NEW a, NEW i, NEW j, MidRound(v, s, r, T, n, j0, a, i, j), i <= Len(s), PairAt(v, s, r, i)
  PROVE  MidRound(v, s, r, T, n, j0, a + 1, i + 2, j + 1)
<1> DEFINE m == Len(s)
           C == T[j]
           D == T[j + 1]
           W == RoundFrom(v, s, r)
<1>1. /\ a \in Nat /\ i \in 1..(m + 1) /\ j \in j0..n
      /\ Len(C) = n - j /\ Len(C) = a + m - i + 1
      /\ \A q \in i..m : C[a + q - i + 1] = s[q]
      /\ MergeRound(v, s, r) = SubSeq(C, 1, a) \o W[i]
      /\ \A p \in 1..(Len(C) - 1) : /\ RankAt(v, C, p) # 0 => r <= RankAt(v, C, p)
                                    /\ p <= a => RankAt(v, C, p) # r
  BY DEF MidRound
<1>2. m \in Nat /\ i + 1 <= m /\ i \in Nat /\ i >= 1 /\ j \in Nat /\ j <= n /\ j >= j0
  <2>1. m \in Nat /\ i < m BY DEF PairAt
  <2>2. i \in 1..(m + 1) /\ j \in j0..n /\ j0 \in Nat /\ n \in Nat BY <1>1
  <2> HIDE DEF m
  <2> QED BY <2>1, <2>2
<1> DEFINE c == Len(C)
<1>0. /\ a \in Nat /\ c \in Nat /\ c = n - j /\ c = a + m - i + 1
      /\ m \in Nat /\ i + 1 <= m /\ i \in Nat /\ i >= 1 /\ j \in Nat /\ j <= n /\ j >= j0
  <2>1. c = n - j /\ c = a + m - i + 1 /\ a \in Nat BY <1>1
  <2> HIDE DEF c, m
  <2> QED BY <1>2, <2>1
<1>3. C \in Seq(String) BY <1>1, <1>2 DEF Turn
<1>4. C[a + 1] = s[i] /\ C[a + 2] = s[i + 1]
  <2>1. i \in i..m /\ i + 1 \in i..m /\ a + i - i + 1 = a + 1 /\ a + (i + 1) - i + 1 = a + 2
    BY <1>0
  <2> QED BY <1>1, <2>1
<1>5. a + 1 \in 1..(Len(C) - 1) /\ (a + 1) + 1 = a + 2 BY <1>1, <1>2
<1>6. RankAt(v, C, a + 1) = r BY <1>4, <1>5 DEF RankAt, PairAt
<1>7. j + 1 \in 1..n /\ (j + 1) - 1 = j BY <1>1, <1>2
<1>8. D = PutTogether(C, a + 1)
  <2>1. D = MergedLeftmost(v, C) BY <1>7 DEF Turn
  <2>2. \A k \in 1..(Len(C) - 1) : RankAt(v, C, k) # 0 => RankAt(v, C, a + 1) <= RankAt(v, C, k)
    BY <1>1, <1>6
  <2>3. \A k \in 1..((a + 1) - 1) : RankAt(v, C, k) # RankAt(v, C, a + 1)
    <3>1. TAKE k \in 1..((a + 1) - 1)
    <3>2. k \in 1..(Len(C) - 1) /\ k <= a BY <1>1, <1>2
    <3> QED BY <1>1, <1>6, <3>2
  <2> HIDE DEF C, D
  <2> QED BY <1>3, <1>5, <1>6, <2>1, <2>2, <2>3, LeftmostIs
<1> DEFINE x == C[a + 1] \o C[a + 2]
<1>9. /\ D \in Seq(String) /\ Len(D) = Len(C) - 1
      /\ \A k \in 1..a : D[k] = C[k]
      /\ D[a + 1] = x
      /\ \A k \in (a + 2)..(Len(C) - 1) : D[k] = C[k + 1]
      /\ SubSeq(D, 1, a + 1) = SubSeq(C, 1, a) \o <<x>>
  <2>1. /\ D \in Seq(String) /\ Len(D) = Len(C) - 1
        /\ \A k \in 1..((a + 1) - 1) : D[k] = C[k]
        /\ D[a + 1] = C[a + 1] \o C[(a + 1) + 1]
        /\ \A k \in ((a + 1) + 1)..(Len(C) - 1) : D[k] = C[k + 1]
        /\ SubSeq(D, 1, a + 1) = SubSeq(C, 1, (a + 1) - 1) \o <<C[a + 1] \o C[(a + 1) + 1]>>
    <3> HIDE DEF C, D
    <3> QED BY <1>3, <1>5, <1>8, PutTogetherIs
  <2>2. (a + 1) - 1 = a /\ (a + 1) + 1 = a + 2 BY <1>1
  <2> HIDE DEF C, D
  <2> QED BY <2>1, <2>2
<1>10. SubSeq(C, 1, a) \in Seq(String)
  <2>1. 1 \in Int /\ a \in Int /\ 1 <= 1 /\ a <= c /\ 1 <= a + 1
    <3> HIDE DEF c, m
    <3> QED BY <1>0
  <2> HIDE DEF C
  <2> QED BY <1>3, <2>1, SubSeqIs
<1>11. MergeRound(v, s, r) = SubSeq(D, 1, a + 1) \o W[i + 2]
  <2>1. RoundUnfolds(v, s, r) BY RoundIs
  <2>2. W[i] = <<s[i] \o s[i + 1]>> \o W[i + 2] /\ W[i + 2] \in Seq(String)
    <3>1. i \in 1..m /\ i + 2 \in 1..(m + 1)
      <4> HIDE DEF m
      <4> QED BY <1>2
    <3>2. i \in 1..Len(s) /\ i + 2 \in 1..(Len(s) + 1) BY <3>1
    <3> QED BY <2>1, <3>2 DEF RoundUnfolds
  <2> DEFINE y == W[i + 2]
             b == SubSeq(C, 1, a)
             z == <<x>>
  <2>3. z \in Seq(String)
    <3>1. C[a + 1] \in String /\ C[a + 2] \in String
      <4>1. a + 1 \in 1..Len(C) /\ a + 2 \in 1..Len(C) BY <1>1, <1>2
      <4> HIDE DEF C
      <4> QED BY <1>3, <4>1
    <3>2. x \in String BY <3>1, StringCat
    <3> HIDE DEF x
    <3> QED BY <3>2
  <2>4. b \o (z \o y) = (b \o z) \o y
    <3>1. b \in Seq(String) /\ y \in Seq(String) BY <1>10, <2>2
    <3> HIDE DEF b, y, z
    <3>2. Cat(Cat(b, z), y) = Cat(b, Cat(z, y)) BY <2>3, <3>1, CatInAnyOrder
    <3> QED BY <3>2 DEF Cat
  <2>5. W[i] = z \o y BY <1>4, <2>2
  <2> HIDE DEF z, y, W, C, D, x
  <2> QED BY <1>1, <1>9, <2>4, <2>5 DEF y, z
<1>12. \A q \in (i + 2)..m : D[(a + 1) + q - (i + 2) + 1] = s[q]
  <2>1. TAKE q \in (i + 2)..m
  <2>2. /\ q \in i..m /\ (a + 1) + q - (i + 2) + 1 = a + q - i
        /\ a + q - i \in (a + 2)..(c - 1) /\ (a + q - i) + 1 = a + q - i + 1
    <3> HIDE DEF c, m
    <3> QED BY <1>0
  <2> HIDE DEF C, D
  <2> QED BY <1>1, <1>9, <2>2
<1>13. ASSUME NEW p \in 1..(Len(D) - 1)
       PROVE  /\ RankAt(v, D, p) # 0 => r <= RankAt(v, D, p)
              /\ p <= a + 1 => RankAt(v, D, p) # r
  <2>0. Len(D) = Len(C) - 1 /\ Len(C) \in Nat BY <1>3, <1>9
  <2>1. CASE p < a
    <3>1. p \in 1..a /\ p + 1 \in 1..a /\ p \in 1..(c - 1)
      <4> HIDE DEF c, m, C, D
      <4> QED BY <1>0, <2>1
    <3>2. RankAt(v, D, p) = RankAt(v, C, p) BY <1>9, <3>1 DEF RankAt
    <3> QED BY <1>1, <3>1, <3>2
  <2>2. CASE p = a
    <3>1. p \in 1..a BY <2>2
    <3>2. D[p + 1] = x BY <1>9, <2>2
    <3>3. Rank(v, C[a + 1], C[a + 2]) = r BY <1>5, <1>6 DEF RankAt
    <3>4. RankAt(v, D, p) # 0 => r < RankAt(v, D, p) BY <3>2, <3>3, LaterRank DEF RankAt
    <3>5. RankAt(v, D, p) \in Nat BY RankIs DEF RankAt
    <3> HIDE DEF C, D, x
    <3> QED BY <3>4, <3>5
  <2>3. CASE p = a + 1
    <3>2. D[p] = x BY <1>9, <2>3
    <3>3. Rank(v, C[a + 1], C[a + 2]) = r BY <1>5, <1>6 DEF RankAt
    <3>4. RankAt(v, D, p) # 0 => r < RankAt(v, D, p) BY <3>2, <3>3, LaterRank DEF RankAt
    <3>5. RankAt(v, D, p) \in Nat BY RankIs DEF RankAt
    <3> HIDE DEF C, D, x
    <3> QED BY <3>4, <3>5
  <2>4. CASE p > a + 1
    <3>1. /\ p \in (a + 2)..(Len(C) - 1) /\ p + 1 \in (a + 2)..(Len(C) - 1)
          /\ p + 1 \in 1..(Len(C) - 1)
      <4>1. p \in 1..((c - 1) - 1) BY <2>0
      <4>2. /\ p \in (a + 2)..(c - 1) /\ p + 1 \in (a + 2)..(c - 1) /\ p + 1 \in 1..(c - 1)
        <5> HIDE DEF c, m, C, D
        <5> QED BY <1>0, <2>4, <4>1
      <4> QED BY <4>2
    <3>2. RankAt(v, D, p) = RankAt(v, C, p + 1) BY <1>9, <3>1 DEF RankAt
    <3>3. ~(p <= a + 1) BY <1>1, <2>4
    <3> QED BY <1>1, <3>1, <3>2, <3>3
  <2>5. p \in Int /\ a \in Int BY <1>1
  <2> HIDE DEF C, D
  <2> QED BY <2>1, <2>2, <2>3, <2>4, <2>5
<1>14. /\ a + 1 \in Nat /\ i + 2 \in 1..(m + 1) /\ j + 1 \in j0..n
       /\ Len(D) = n - (j + 1) /\ Len(D) = (a + 1) + m - (i + 2) + 1 /\ j + 1 > j0
  <2>1. Len(D) = c - 1 BY <1>9
  <2> HIDE DEF c, C, D, m
  <2> QED BY <1>0, <2>1
<1> HIDE DEF C, W
<1> QED BY <1>11, <1>12, <1>13, <1>14 DEF MidRound, W

(* The round passes a symbol by.                                           *)
LEMMA RoundPasses ==
  ASSUME NEW v, Learnt(v), NEW s \in Seq(String), NEW r \in Nat, r # 0,
         NEW n \in Nat, NEW T, Turn(v, T, n), NEW j0 \in Nat,
         NEW a, NEW i, NEW j, MidRound(v, s, r, T, n, j0, a, i, j), i <= Len(s), ~PairAt(v, s, r, i)
  PROVE  MidRound(v, s, r, T, n, j0, a + 1, i + 1, j)
<1> DEFINE m == Len(s)
           C == T[j]
           W == RoundFrom(v, s, r)
<1>1. /\ a \in Nat /\ i \in 1..(m + 1) /\ j \in j0..n
      /\ Len(C) = n - j /\ Len(C) = a + m - i + 1
      /\ \A q \in i..m : C[a + q - i + 1] = s[q]
      /\ MergeRound(v, s, r) = SubSeq(C, 1, a) \o W[i]
      /\ \A p \in 1..(Len(C) - 1) : /\ RankAt(v, C, p) # 0 => r <= RankAt(v, C, p)
                                    /\ p <= a => RankAt(v, C, p) # r
      /\ j > j0 \/ \E q \in i..(m - 1) : RankAt(v, s, q) = r
  BY DEF MidRound
<1>2. m \in Nat /\ i <= m /\ i \in Nat /\ i >= 1 /\ j \in Nat /\ j <= n /\ j >= j0 BY <1>1
<1> DEFINE c == Len(C)
<1>0. /\ a \in Nat /\ c \in Nat /\ c = n - j /\ c = a + m - i + 1
      /\ m \in Nat /\ i <= m /\ i \in Nat /\ i >= 1 /\ j \in Nat /\ j <= n /\ j >= j0
  <2>1. c = n - j /\ c = a + m - i + 1 /\ a \in Nat BY <1>1
  <2> HIDE DEF c, m
  <2> QED BY <1>2, <2>1
<1>3. C \in Seq(String) BY <1>1, <1>2 DEF Turn
<1>4. C[a + 1] = s[i]
  <2>1. i \in i..m /\ a + i - i + 1 = a + 1 BY <1>1, <1>2
  <2> QED BY <1>1, <2>1
<1>5. SubSeq(C, 1, a + 1) = SubSeq(C, 1, a) \o <<s[i]>> /\ SubSeq(C, 1, a) \in Seq(String)
  <2>1. 1 \in 1..Len(C) /\ a + 1 \in 1..Len(C) /\ (a + 1) - 1 = a BY <1>1, <1>2
  <2>2. 1 \in Int /\ a \in Int /\ 1 <= 1 /\ a <= Len(C) /\ 1 <= a + 1 BY <1>1, <1>2
  <2> HIDE DEF C
  <2>3. SubSeq(C, 1, a + 1) = SubSeq(C, 1, (a + 1) - 1) \o <<C[a + 1]>>
    BY <1>3, <2>1, SubSeqRecursiveSecond
  <2>4. SubSeq(C, 1, a) \in Seq(String) BY <1>3, <2>2, SubSeqIs
  <2> QED BY <1>4, <2>1, <2>3, <2>4
<1>6. MergeRound(v, s, r) = SubSeq(C, 1, a + 1) \o W[i + 1]
  <2>1. RoundUnfolds(v, s, r) BY RoundIs
  <2>2. W[i] = <<s[i]>> \o W[i + 1] /\ W[i + 1] \in Seq(String)
    <3>1. i \in 1..Len(s) /\ i + 1 \in 1..(Len(s) + 1) BY <1>2, <1>1
    <3> QED BY <2>1, <3>1 DEF RoundUnfolds
  <2> DEFINE y == W[i + 1]
             b == SubSeq(C, 1, a)
             z == <<s[i]>>
  <2>3. z \in Seq(String) BY <1>2
  <2>4. b \o (z \o y) = (b \o z) \o y
    <3>1. b \in Seq(String) /\ y \in Seq(String) BY <1>5, <2>2
    <3> HIDE DEF b, y, z
    <3>2. Cat(Cat(b, z), y) = Cat(b, Cat(z, y)) BY <2>3, <3>1, CatInAnyOrder
    <3> QED BY <3>2 DEF Cat
  <2>5. W[i] = z \o y BY <2>2
  <2> HIDE DEF z, y, W, C
  <2> QED BY <1>1, <1>5, <2>4, <2>5 DEF y, z
<1>7. \A q \in (i + 1)..m : C[(a + 1) + q - (i + 1) + 1] = s[q]
  <2>1. TAKE q \in (i + 1)..m
  <2>2. q \in i..m /\ (a + 1) + q - (i + 1) + 1 = a + q - i + 1 BY <1>1, <1>2
  <2> HIDE DEF C
  <2> QED BY <1>1, <2>2
<1>8. ASSUME NEW p \in 1..(Len(C) - 1), p <= a + 1 PROVE RankAt(v, C, p) # r
  <2>1. CASE p <= a BY <1>1, <2>1
  <2>2. CASE p = a + 1
    <3>0. p <= c - 1 /\ p \in Int OBVIOUS
    <3>1. i + 1 <= m
      <4> HIDE DEF c, m
      <4> QED BY <1>0, <2>2, <3>0
    <3>2. i + 1 \in i..m /\ a + (i + 1) - i + 1 = p + 1
      <4> HIDE DEF c, m
      <4> QED BY <1>0, <2>2, <3>1
    <3>3. C[p + 1] = s[i + 1]
      <4>1. C[a + (i + 1) - i + 1] = s[i + 1] BY <1>1, <3>2, Zenon
      <4> QED BY <3>2, <4>1, Zenon
    <3>4. i < Len(s) BY <1>2, <3>1
    <3>5. Rank(v, s[i], s[i + 1]) # r BY <3>4 DEF PairAt
    <3> HIDE DEF C
    <3> QED BY <1>4, <2>2, <3>3, <3>5 DEF RankAt
  <2>3. p \in Int /\ a \in Int BY <1>1
  <2> QED BY <1>8, <2>1, <2>2, <2>3
<1>9. j > j0 \/ \E q \in (i + 1)..(m - 1) : RankAt(v, s, q) = r
  <2> SUFFICES ASSUME NEW q \in i..(m - 1), RankAt(v, s, q) = r
               PROVE  \E k \in (i + 1)..(m - 1) : RankAt(v, s, k) = r
    BY <1>1
  <2>1. q # i
    <3> SUFFICES ASSUME q = i PROVE FALSE OBVIOUS
    <3>1. i < Len(s) BY <1>2
    <3> QED BY <3>1 DEF PairAt, RankAt
  <2>2. q \in (i + 1)..(m - 1) BY <1>2, <2>1
  <2> QED BY <2>2
<1>10. a + 1 \in Nat /\ i + 1 \in 1..(m + 1) /\ c = (a + 1) + m - (i + 1) + 1
  <2> HIDE DEF c, m
  <2> QED BY <1>0
<1> HIDE DEF C, W
<1> QED BY <1>1, <1>6, <1>7, <1>8, <1>9, <1>10 DEF MidRound, C, W

(* A round is some turns.                                                  *)
NextRound(v, T, n, j, i) ==
  /\ i \in (j + 1)..n
  /\ T[i] = MergeRound(v, T[j], BestRank(v, T[j])) /\ Len(T[i]) = n - i

(* From a list with something to merge, turns reach what a round makes.    *)
LEMMA RoundByTurns ==
  ASSUME NEW v, Learnt(v), LearntInOrder(v), NEW n \in Nat, NEW T, Turn(v, T, n),
         NEW j0 \in 0..n, Len(T[j0]) = n - j0, Mergeable(v, T[j0]) # {}
  PROVE  \E j : NextRound(v, T, n, j0, j)
<1> DEFINE s == T[j0]
           r == BestRank(v, s)
           m == Len(s)
           W == RoundFrom(v, s, r)
           At(i) == \E a, j : MidRound(v, s, r, T, n, j0, a, i, j)
           A == {i \in 1..(m + 1) : At(i)}
<1>1. s \in Seq(String) /\ j0 \in Nat BY DEF Turn
<1>a. Mergeable(v, s) # {} OBVIOUS
<1>2. /\ r \in Nat /\ r # 0 /\ r \in Mergeable(v, s)
      /\ \A i \in 1..(m - 1) : RankAt(v, s, i) # 0 => r <= RankAt(v, s, i)
  <2>1. Len(s) = m OBVIOUS
  <2> HIDE DEF s, m
  <2>2. /\ r \in Nat /\ r # 0 /\ r \in Mergeable(v, s)
        /\ \A i \in 1..(Len(s) - 1) : RankAt(v, s, i) # 0 => r <= RankAt(v, s, i)
    BY <1>1, <1>a, BestIs
  <2> HIDE DEF r
  <2> QED BY <2>1, <2>2
<1>3. m \in Nat /\ m = n - j0 BY <1>1
<1>4. RoundUnfolds(v, s, r) BY <1>1, RoundIs
<1> HIDE DEF r
<1>5. 1 \in A
  <2>1. MidRound(v, s, r, T, n, j0, 0, 1, j0)
    <3>1. 0 \in Nat /\ 1 \in 1..(m + 1) /\ j0 \in j0..n BY <1>3
    <3>2. Len(T[j0]) = n - j0 /\ m = 0 + m - 1 + 1 BY <1>3
    <3>3. \A q \in 1..m : s[0 + q - 1 + 1] = s[q]
      <4>1. \A q \in 1..m : 0 + q - 1 + 1 = q BY <1>3
      <4> QED BY <4>1
    <3>4. MergeRound(v, s, r) = SubSeq(s, 1, 0) \o W[1]
      <4>1. SubSeq(s, 1, 0) = << >> OBVIOUS
      <4>2. MergeRound(v, s, r) = W[1] /\ W[1] \in Seq(String)
        <5>1. 1 \in 1..(Len(s) + 1) BY <1>3
        <5> QED BY <1>4, <5>1 DEF RoundUnfolds
      <4>3. << >> \o W[1] = W[1]
        <5> HIDE DEF W
        <5> QED BY <4>2
      <4> QED BY <4>1, <4>2, <4>3
    <3>5. \A p \in 1..(m - 1) : /\ RankAt(v, s, p) # 0 => r <= RankAt(v, s, p)
                                /\ p <= 0 => RankAt(v, s, p) # r
      <4>1. \A p \in 1..(m - 1) : ~(p <= 0) OBVIOUS
      <4> QED BY <1>2, <4>1
    <3>6. \E q \in 1..(m - 1) : RankAt(v, s, q) = r
      <4> HIDE DEF s
      <4> QED BY <1>1, <1>2, MergeableIs
    <3> HIDE DEF W
    <3> QED BY <3>1, <3>2, <3>3, <3>4, <3>5, <3>6 DEF MidRound, W
  <2>2. 1 \in 1..(m + 1) BY <1>3
  <2> QED BY <2>1, <2>2
<1>6. ASSUME NEW i \in A, i # m + 1 PROVE \E k \in A : i < k
  <2>1. PICK a, j : MidRound(v, s, r, T, n, j0, a, i, j) OBVIOUS
  <2>2. i \in 1..m /\ i \in Nat /\ i <= Len(s)
    <3>1. i \in 1..(m + 1) OBVIOUS
    <3> HIDE DEF A, m
    <3>2. i \in 1..m /\ i <= m BY <1>3, <1>6, <3>1
    <3> QED BY <3>2 DEF m
  <2> HIDE DEF s, m, A
  <2>3. CASE PairAt(v, s, r, i)
    <3>1. MidRound(v, s, r, T, n, j0, a + 1, i + 2, j + 1)
      BY <1>1, <1>2, <2>1, <2>2, <2>3, RoundMerges
    <3>2. i + 2 \in 1..(m + 1) BY <3>1 DEF MidRound, m
    <3>3. i + 2 \in A BY <3>1, <3>2 DEF A
    <3>4. i < i + 2 BY <2>2
    <3> QED BY <3>3, <3>4
  <2>4. CASE ~PairAt(v, s, r, i)
    <3>1. MidRound(v, s, r, T, n, j0, a + 1, i + 1, j)
      BY <1>1, <1>2, <2>1, <2>2, <2>4, RoundPasses
    <3>2. i + 1 \in 1..(m + 1) BY <3>1 DEF MidRound, m
    <3>3. i + 1 \in A BY <3>1, <3>2 DEF A
    <3>4. i < i + 1 BY <2>2
    <3> QED BY <3>3, <3>4
  <2> QED BY <2>3, <2>4
<1>7. m + 1 \in A
  <2>1. A \in SUBSET (0..(m + 1)) /\ A # {} /\ m + 1 \in Nat
    <3>1. \A i \in A : i \in 1..(m + 1) OBVIOUS
    <3> HIDE DEF A, m
    <3> QED BY <1>3, <1>5, <3>1
  <2> HIDE DEF A, m
  <2>2. Max(A) \in A /\ \A k \in A : k <= Max(A) BY <2>1, MaxIs
  <2>3. CASE Max(A) = m + 1 BY <2>2, <2>3
  <2>4. CASE Max(A) # m + 1
    <3>1. PICK k \in A : Max(A) < k BY <1>6, <2>2, <2>4
    <3>2. k <= Max(A) BY <2>2
    <3>3. k \in 0..(m + 1) /\ Max(A) \in 0..(m + 1) BY <2>1, <2>2
    <3> DEFINE w == Max(A)
    <3>4. k <= w /\ w < k /\ k \in Int /\ w \in Int BY <2>1, <3>1, <3>2, <3>3
    <3> HIDE DEF w
    <3> QED BY <3>4
  <2> QED BY <2>3, <2>4
<1>8. PICK a, j : MidRound(v, s, r, T, n, j0, a, m + 1, j)
  <2>1. At(m + 1) BY <1>7
  <2> QED BY <2>1
<1> DEFINE C == T[j]
<1>9. /\ a \in Nat /\ j \in j0..n /\ Len(C) = n - j /\ Len(C) = a + m - (m + 1) + 1
      /\ MergeRound(v, s, r) = SubSeq(C, 1, a) \o W[m + 1]
      /\ j > j0 \/ \E q \in (m + 1)..(m - 1) : RankAt(v, s, q) = r
  <2> HIDE DEF s, C
  <2> QED BY <1>8 DEF MidRound, m, C
<1>10. j \in (j0 + 1)..n
  <2>1. \A q \in (m + 1)..(m - 1) : FALSE BY <1>3
  <2>2. j > j0 /\ j \in j0..n BY <1>9, <2>1
  <2> QED BY <1>1, <2>2
<1>11. C \in Seq(String) BY <1>10 DEF Turn
<1>12. Len(C) = a BY <1>3, <1>9
<1>13. W[m + 1] = << >> BY <1>4 DEF RoundUnfolds
<1>14. SubSeq(C, 1, a) = C
  <2> HIDE DEF C
  <2> QED BY <1>11, <1>12, SubSeqFull
<1>15. MergeRound(v, s, r) = C
  <2> HIDE DEF C, W, s
  <2>1. C \o << >> = C BY <1>11
  <2> QED BY <1>9, <1>13, <1>14, <2>1
<1> QED BY <1>9, <1>10, <1>15 DEF r, NextRound

(* Merging keeps lists of strings.                                         *)
LEMMA MergedType ==
  ASSUME NEW v, Learnt(v), NEW s \in Seq(String)
  PROVE  Merged(v, s) \in Seq(String) /\ MergedLeftmost(v, s) \in Seq(String)
<1>1. CASE Mergeable(v, s) = {} BY <1>1 DEF Merged, MergedLeftmost
<1>2. CASE Mergeable(v, s) # {}
  <2> DEFINE r == BestRank(v, s)
             J == {j \in 1..(Len(s) - 1) : Rank(v, s[j], s[j + 1]) = Min(Mergeable(v, s))}
             i == Min(J)
  <2>1. RoundUnfolds(v, s, r) BY RoundIs
  <2>2. MergeRound(v, s, r) \in Seq(String)
    <3>1. 1 \in 1..(Len(s) + 1) OBVIOUS
    <3> HIDE DEF r
    <3> QED BY <2>1, <3>1 DEF RoundUnfolds
  <2>3. i \in 1..(Len(s) - 1)
    <3>1. r \in Mergeable(v, s) BY <1>2, BestIs
    <3>2. PICK k \in 1..(Len(s) - 1) : r = RankAt(v, s, k) BY <3>1, MergeableIs
    <3>3. k \in J BY <3>2 DEF RankAt, BestRank
    <3>4. \A j \in J : j \in 1..(Len(s) - 1) OBVIOUS
    <3> HIDE DEF J, r
    <3>5. J \in SUBSET Nat BY <3>4
    <3>6. Min(J) \in J BY <3>3, <3>5, MinIs
    <3> QED BY <3>4, <3>6
  <2>4. PutTogether(s, i) \in Seq(String)
    <3> HIDE DEF i
    <3> QED BY <2>3, PutTogetherIs
  <2>5. MergedLeftmost(v, s) = PutTogether(s, i) BY <1>2 DEF MergedLeftmost, PutTogether
  <2>6. Merged(v, s) = MergeRound(v, s, r) BY <1>2 DEF Merged
  <2> HIDE DEF r, i
  <2> QED BY <2>2, <2>4, <2>5, <2>6
<1> QED BY <1>1, <1>2

(* The turns and the rounds are what their definitions mean.               *)
LEMMA TurnsIs ==
  ASSUME NEW v, Learnt(v), NEW s \in Seq(String)
  PROVE  Turn(v, Turns(v, s), Len(s)) /\ Turns(v, s)[0] = s
<1> DEFINE n == Len(s)
           step == [x \in Seq(String) |-> MergedLeftmost(v, x)]
           T == Turns(v, s)
           F(t) == [k \in 0..n |-> IF k = 0 THEN s ELSE MergedLeftmost(v, t[k - 1])]
<1>1. n \in Nat OBVIOUS
<1>2. step \in [Seq(String) -> Seq(String)] BY MergedType
<1>3. \A x \in Seq(String) : step[x] = MergedLeftmost(v, x) OBVIOUS
<1>4. T = CHOOSE t : t = [k \in 0..n |-> IF k = 0 THEN s ELSE MergedLeftmost(v, t[k - 1])]
  BY DEF Turns
<1> HIDE DEF step, n, T
<1>5. PICK f \in [0..n -> Seq(String)] : f[0] = s /\ \A k \in 1..n : f[k] = step[f[k - 1]]
  <2> DEFINE X == Seq(String)
  <2>1. s \in X /\ step \in [X -> X] BY <1>2
  <2> HIDE DEF X
  <2>2. PICK f : Iterates(X, step, s, n, f) BY <1>1, <2>1, IterateExists
  <2> QED BY <2>2 DEF X, Iterates
<1>6. \A k \in 1..n : k \in 0..n /\ k # 0 /\ k - 1 \in 0..n BY <1>1
<1>7. \A k \in 0..n : k = 0 \/ k \in 1..n BY <1>1
<1>8. \A k \in 1..n : f[k] = MergedLeftmost(v, f[k - 1]) BY <1>3, <1>5, <1>6
<1>9. f = F(f) BY <1>5, <1>7, <1>8
<1>10. T = F(T) BY <1>4, <1>9
<1>11. T[0] = s
  <2>1. 0 \in 0..n BY <1>1
  <2> QED BY <1>10, <2>1
<1>12. \A k \in 1..n : T[k] = MergedLeftmost(v, T[k - 1]) BY <1>6, <1>10
<1>13. \A k \in 0..n : T[k] \in Seq(String)
  <2> DEFINE U == {k \in 0..n : T[k] \in Seq(String)}
  <2>1. 0 \in U BY <1>1, <1>11
  <2>2. ASSUME NEW k \in 0..(n - 1), k \in U PROVE k + 1 \in U
    <3>1. k + 1 \in 1..n /\ (k + 1) - 1 = k /\ k + 1 \in 0..n BY <1>1
    <3>2. T[k] \in Seq(String) BY <2>2
    <3>3. T[k + 1] = MergedLeftmost(v, T[k]) BY <1>12, <3>1
    <3>4. MergedLeftmost(v, T[k]) \in Seq(String) BY <3>2, MergedType
    <3> QED BY <3>1, <3>3, <3>4
  <2> HIDE DEF U
  <2>3. \A k \in 0..n : k \in U BY <1>1, <2>1, <2>2, Upward
  <2> QED BY <2>3 DEF U
<1>14. T \in [0..n -> Seq(String)] BY <1>10, <1>13
<1> QED BY <1>11, <1>12, <1>14 DEF Turn, T, n

(* The rounds are defined: each is made of the one before.                 *)
LEMMA RoundsIs ==
  ASSUME NEW v, Learnt(v), NEW s \in Seq(String)
  PROVE  /\ Rounds(v, s) \in [0..Len(s) -> Seq(String)] /\ Rounds(v, s)[0] = s
         /\ \A k \in 1..Len(s) : Rounds(v, s)[k] = Merged(v, Rounds(v, s)[k - 1])
<1> DEFINE n == Len(s)
           step == [x \in Seq(String) |-> Merged(v, x)]
           T == Rounds(v, s)
           F(t) == [k \in 0..n |-> IF k = 0 THEN s ELSE Merged(v, t[k - 1])]
<1>1. n \in Nat OBVIOUS
<1>2. step \in [Seq(String) -> Seq(String)] BY MergedType
<1>3. \A x \in Seq(String) : step[x] = Merged(v, x) OBVIOUS
<1>4. T = CHOOSE t : t = [k \in 0..n |-> IF k = 0 THEN s ELSE Merged(v, t[k - 1])]
  BY DEF Rounds
<1> HIDE DEF step, n, T
<1>5. PICK f \in [0..n -> Seq(String)] : f[0] = s /\ \A k \in 1..n : f[k] = step[f[k - 1]]
  <2> DEFINE X == Seq(String)
  <2>1. s \in X /\ step \in [X -> X] BY <1>2
  <2> HIDE DEF X
  <2>2. PICK f : Iterates(X, step, s, n, f) BY <1>1, <2>1, IterateExists
  <2> QED BY <2>2 DEF X, Iterates
<1>6. \A k \in 1..n : k \in 0..n /\ k # 0 /\ k - 1 \in 0..n BY <1>1
<1>7. \A k \in 0..n : k = 0 \/ k \in 1..n BY <1>1
<1>8. \A k \in 1..n : f[k] = Merged(v, f[k - 1]) BY <1>3, <1>5, <1>6
<1>9. f = F(f) BY <1>5, <1>7, <1>8
<1>10. T = F(T) BY <1>4, <1>9
<1>11. T[0] = s
  <2>1. 0 \in 0..n BY <1>1
  <2> QED BY <1>10, <2>1
<1>12. \A k \in 1..n : T[k] = Merged(v, T[k - 1]) BY <1>6, <1>10
<1>13. \A k \in 0..n : T[k] \in Seq(String)
  <2> DEFINE U == {k \in 0..n : T[k] \in Seq(String)}
  <2>1. 0 \in U BY <1>1, <1>11
  <2>2. ASSUME NEW k \in 0..(n - 1), k \in U PROVE k + 1 \in U
    <3>1. k + 1 \in 1..n /\ (k + 1) - 1 = k /\ k + 1 \in 0..n BY <1>1
    <3>2. T[k] \in Seq(String) BY <2>2
    <3>3. T[k + 1] = Merged(v, T[k]) BY <1>12, <3>1
    <3>4. Merged(v, T[k]) \in Seq(String) BY <3>2, MergedType
    <3> QED BY <3>1, <3>3, <3>4
  <2> HIDE DEF U
  <2>3. \A k \in 0..n : k \in U BY <1>1, <2>1, <2>2, Upward
  <2> QED BY <2>3 DEF U
<1>14. T \in [0..n -> Seq(String)] BY <1>10, <1>13
<1> QED BY <1>11, <1>12, <1>14 DEF T, n

(* Merging by rounds is merging one pair at a time.                        *)
LEMMA MergesAgree ==
  ASSUME NEW v, Learnt(v), LearntInOrder(v), NEW s \in Seq(String)
  PROVE  ApplyMerges(v, s) = MergeOneByOne(v, s)
<1> DEFINE n == Len(s)
           T == Turns(v, s)
           R == Rounds(v, s)
           Met(k, j) == R[k] = T[j] /\ Len(T[j]) = n - j /\ (Mergeable(v, R[k]) = {} \/ k <= j)
           N == {k \in 0..n : \E j \in 0..n : Met(k, j)}
<1>1. n \in Nat /\ Turn(v, T, n) /\ T[0] = s BY TurnsIs
<1>2. R \in [0..n -> Seq(String)] /\ R[0] = s /\ \A k \in 1..n : R[k] = Merged(v, R[k - 1])
  BY RoundsIs
<1>3. T \in [0..n -> Seq(String)] /\ \A k \in 1..n : T[k] = MergedLeftmost(v, T[k - 1])
  BY <1>1 DEF Turn
<1>4. Len(s) = n OBVIOUS
<1>5. ApplyMerges(v, s) = R[n] /\ MergeOneByOne(v, s) = T[n] BY DEF ApplyMerges, MergeOneByOne
<1> HIDE DEF n, T, R
<1>6. 0 \in N
  <2>1. Met(0, 0) BY <1>1, <1>2, <1>4
  <2>2. 0 \in 0..n BY <1>1
  <2> QED BY <2>1, <2>2
<1>7. ASSUME NEW k \in 0..(n - 1), k \in N PROVE k + 1 \in N
  <2>1. PICK j \in 0..n : Met(k, j) BY <1>7
  <2>2. k + 1 \in 1..n /\ k + 1 \in 0..n /\ (k + 1) - 1 = k /\ k \in 0..n BY <1>1
  <2>3. R[k + 1] = Merged(v, R[k]) BY <1>2, <2>2
  <2>4. CASE Mergeable(v, R[k]) = {}
    <3>1. R[k + 1] = R[k] BY <2>3, <2>4 DEF Merged
    <3>2. Met(k + 1, j) BY <2>1, <2>4, <3>1
    <3> HIDE DEF Met
    <3> QED BY <2>2, <3>2
  <2>5. CASE Mergeable(v, R[k]) # {}
    <3>1. Mergeable(v, T[j]) # {} /\ Len(T[j]) = n - j /\ k <= j BY <2>1, <2>5
    <3>a. n \in Nat /\ Turn(v, T, n) /\ j \in 0..n BY <1>1
    <3>b. PICK i : NextRound(v, T, n, j, i) BY <3>1, <3>a, RoundByTurns
    <3>2. i \in (j + 1)..n /\ T[i] = MergeRound(v, T[j], BestRank(v, T[j])) /\ Len(T[i]) = n - i
      BY <3>b DEF NextRound
    <3>3. R[k + 1] = T[i] BY <2>1, <2>3, <2>5, <3>2 DEF Merged
    <3>4. k + 1 <= i /\ i \in 0..n BY <1>1, <2>2, <3>1, <3>2
    <3>5. Met(k + 1, i) BY <3>2, <3>3, <3>4
    <3> HIDE DEF Met
    <3> QED BY <2>2, <3>4, <3>5
  <2> QED BY <2>4, <2>5
<1>8. n \in N
  <2> HIDE DEF N
  <2>1. \A k \in 0..n : k \in N BY <1>1, <1>6, <1>7, Upward
  <2>2. n \in 0..n BY <1>1
  <2> QED BY <2>1, <2>2
<1>9. PICK j \in 0..n : Met(n, j) BY <1>8
<1>10. Mergeable(v, T[j]) = {}
  <2>1. CASE n <= j
    <3>1. Len(T[j]) = 0 BY <1>1, <1>9, <2>1
    <3>2. T[j] \in Seq(String) BY <1>3
    <3>3. \A i \in 1..(Len(T[j]) - 1) : FALSE BY <3>1
    <3> QED BY <3>3 DEF Mergeable
  <2>2. CASE ~(n <= j) BY <1>9, <2>2
  <2> QED BY <2>1, <2>2
<1>11. \A d \in 0..(n - j) : T[j + d] = T[j]
  <2> DEFINE U == {d \in 0..(n - j) : T[j + d] = T[j]}
  <2>0. n - j \in Nat /\ j + 0 = j BY <1>1
  <2>1. 0 \in U BY <2>0
  <2>2. ASSUME NEW d \in 0..((n - j) - 1), d \in U PROVE d + 1 \in U
    <3>1. j + (d + 1) \in 1..n /\ (j + (d + 1)) - 1 = j + d /\ d + 1 \in 0..(n - j) BY <1>1
    <3>2. T[j + d] = T[j] BY <2>2
    <3>3. T[j + (d + 1)] = MergedLeftmost(v, T[j]) BY <1>3, <3>1, <3>2
    <3>4. MergedLeftmost(v, T[j]) = T[j] BY <1>10 DEF MergedLeftmost
    <3> QED BY <3>1, <3>3, <3>4
  <2> HIDE DEF U
  <2>3. \A d \in 0..(n - j) : d \in U BY <2>0, <2>1, <2>2, Upward
  <2> QED BY <2>3 DEF U
<1>12. T[n] = T[j]
  <2>1. n - j \in 0..(n - j) /\ j + (n - j) = n BY <1>1
  <2> QED BY <1>11, <2>1
<1> QED BY <1>5, <1>9, <1>12

-----------------------------------------------------------------------------
(* The types of the tokenizer's strings and of its state.                  *)

(* Strings joined, one for each position of a list.                        *)
LEMMA ConcatOf ==
  ASSUME NEW S, NEW n \in Nat, NEW f, f = [i \in 1..n |-> f[i]], \A i \in 1..n : f[i] \in Seq(S)
  PROVE  f \in Seq(Seq(S)) /\ Len(f) = n /\ Concat(f) \in Seq(S)
<1> DEFINE X == Seq(S)
<1>1. \A i \in 1..n : f[i] \in X OBVIOUS
<1> HIDE DEF X
<1>2. f \in [1..n -> X] BY <1>1
<1>3. f \in Seq(X) /\ Len(f) = n BY <1>2
<1> QED BY <1>3, ConcatType DEF X

(* A symbol is the byte itself, if that is a printable one below 127, or   *)
(* two bytes, the first from C2 to C7 and the second from 80 to BF.        *)
OneByte == 33..126
Leading == 194..199
Trailing == 128..191

(* A printable byte is its own code point, another is past 255.            *)
LEMMA CodePointIs ==
  ASSUME NEW b \in 0..255
  PROVE  /\ b \in Printable => CodePoint[b] = b
         /\ b \notin Printable => CodePoint[b] = 256 + Cardinality((0..(b - 1)) \ Printable)
         /\ Cardinality((0..(b - 1)) \ Printable) \in 0..b
<1> DEFINE A == 0..(b - 1)
           B == A \ Printable
<1>1. IsFiniteSet(A) /\ Cardinality(A) = b
  <2>1. IsFiniteSet(0..(b - 1)) /\ Cardinality(0..(b - 1)) = IF 0 > b - 1 THEN 0 ELSE (b - 1) - 0 + 1
    BY FS_Interval
  <2> QED BY <2>1
<1>2. B \subseteq A OBVIOUS
<1> HIDE DEF A, B
<1>3. IsFiniteSet(B) /\ Cardinality(B) <= Cardinality(A) BY <1>1, <1>2, FS_Subset
<1>4. Cardinality(B) \in Nat BY <1>3, FS_CardinalityType
<1>5. Cardinality(B) \in 0..b BY <1>1, <1>3, <1>4
<1> QED BY <1>5 DEF CodePoint, A, B

(* The symbol of a byte has one byte or two, by OneByte.                   *)
LEMMA SymbolIs ==
  ASSUME NEW b \in 0..255
  PROVE  /\ CodePoint[b] \in 0..511 /\ Symbol[b] = Utf8(CodePoint[b])
         /\ b \in OneByte => Symbol[b] = <<b>>
         /\ b \notin OneByte => /\ CodePoint[b] >= 128
                                /\ \E x \in Leading, y \in Trailing : Symbol[b] = <<x, y>>
<1> DEFINE cp == CodePoint[b]
<1>1. Symbol[b] = Utf8(cp) BY DEF Symbol
<1>2. \/ cp = b /\ b \in (33..126) \cup (161..255)
      \/ cp \in 256..511 /\ b \notin OneByte
  <2>1. CASE b \in Printable
    <3>1. cp = b BY <2>1, CodePointIs
    <3>2. b \in (33..126) \cup (161..172) \cup (174..255) BY <2>1 DEF Printable
    <3> HIDE DEF cp
    <3>3. b \in (33..126) \cup (161..255) BY <3>2
    <3> QED BY <3>1, <3>3
  <2>2. CASE b \notin Printable
    <3>1. cp = 256 + Cardinality((0..(b - 1)) \ Printable) BY <2>2, CodePointIs
    <3>2. Cardinality((0..(b - 1)) \ Printable) \in 0..b BY CodePointIs
    <3>3. b \notin OneByte BY <2>2 DEF Printable, OneByte
    <3> DEFINE c == Cardinality((0..(b - 1)) \ Printable)
    <3> HIDE DEF c, cp
    <3> QED BY <3>1, <3>2, <3>3 DEF c
  <2> QED BY <2>1, <2>2
<1> HIDE DEF cp
<1>3. cp \in 0..511 BY <1>2 DEF OneByte
<1>4. b \in OneByte => Utf8(cp) = <<b>>
  <2>1. b \in OneByte => cp = b /\ cp < 128 BY <1>2 DEF OneByte
  <2> QED BY <2>1 DEF Utf8
<1>5. ASSUME b \notin OneByte
      PROVE  cp >= 128 /\ \E x \in Leading, y \in Trailing : Symbol[b] = <<x, y>>
  <2>1. cp \in 161..511 BY <1>2, <1>5 DEF OneByte
  <2>2. Utf8(cp) = <<192 + (cp \div 64), 128 + (cp % 64)>> BY <2>1 DEF Utf8
  <2>3. 192 + (cp \div 64) \in Leading /\ 128 + (cp % 64) \in Trailing
    BY <2>1 DEF Leading, Trailing
  <2> QED BY <1>1, <2>1, <2>2, <2>3
<1> QED BY <1>1, <1>3, <1>4, <1>5 DEF cp

(* A symbol is a string.                                                   *)
LEMMA SymbolType == ASSUME NEW b \in 0..255 PROVE Symbol[b] \in String
<1>1. CASE b \in OneByte
  <2>1. Symbol[b] = <<b>> BY <1>1, SymbolIs
  <2>2. b \in Nat OBVIOUS
  <2> QED BY <2>1, <2>2 DEF String
<1>2. CASE b \notin OneByte
  <2>1. PICK x \in Leading, y \in Trailing : Symbol[b] = <<x, y>> BY <1>2, SymbolIs
  <2>2. x \in Nat /\ y \in Nat BY DEF Leading, Trailing
  <2> QED BY <2>1, <2>2 DEF String
<1> QED BY <1>1, <1>2

(* The space is a character.                                               *)
LEMMA SpaceType == Space \in Char
<1>1. 32 \in Octet BY DEF Octet
<1>2. <<32>> \in Seq(Octet) BY <1>1
<1>3. "space" \in Class BY DEF Class
<1> QED BY <1>2, <1>3 DEF Space, Char

(* A normalised text is a text.                                            *)
LEMMA NormaliseType == ASSUME NEW text \in Seq(Char) PROVE Normalise(text) \in Seq(Char)
<1> DEFINE t == IF text # << >> /\ text[1].class = "bom" THEN Tail(text) ELSE text
           f == [i \in DOMAIN t |-> CASE t[i].class = "return" -> << >>
                                      [] t[i].class = "nbsp" -> <<Space>>
                                      [] OTHER -> <<t[i]>>]
           n == Len(t)
<1>1. t \in Seq(Char) OBVIOUS
<1>2. Normalise(text) = Concat(f) BY DEF Normalise
<1> HIDE DEF t
<1>3. n \in Nat /\ DOMAIN t = 1..n /\ \A i \in 1..n : t[i] \in Char BY <1>1
<1>4. \A i \in 1..n : f[i] \in Seq(Char)
  <2>1. TAKE i \in 1..n
  <2>2. f[i] \in {<< >>, <<Space>>, <<t[i]>>} BY <1>3
  <2>3. << >> \in Seq(Char) /\ <<Space>> \in Seq(Char) /\ <<t[i]>> \in Seq(Char)
    BY <1>3, SpaceType
  <2> QED BY <2>2, <2>3
<1>5. f = [i \in 1..n |-> f[i]] BY <1>3
<1>6. n \in Nat BY <1>3
<1> HIDE DEF f, n
<1>7. Concat(f) \in Seq(Char) BY <1>4, <1>5, <1>6, ConcatOf
<1> QED BY <1>2, <1>7

(* The bytes of a text are bytes.                                          *)
LEMMA TextBytesType == ASSUME NEW text \in Seq(Char) PROVE TextBytes(text) \in Seq(Octet)
<1> DEFINE f == [i \in DOMAIN text |-> text[i].bytes]
           n == Len(text)
<1>1. n \in Nat /\ DOMAIN text = 1..n /\ \A i \in 1..n : text[i] \in Char OBVIOUS
<1>2. \A i \in 1..n : f[i] \in Seq(Octet) BY <1>1 DEF Char
<1>3. f = [i \in 1..n |-> f[i]] BY <1>1
<1>4. TextBytes(text) = Concat(f) BY DEF TextBytes
<1> HIDE DEF f, n
<1>5. n \in Nat BY <1>1
<1>6. Concat(f) \in Seq(Octet) BY <1>2, <1>3, <1>5, ConcatOf
<1> QED BY <1>4, <1>6

(* Bytes encode to a string.                                               *)
LEMMA ByteLevelType == ASSUME NEW s \in Seq(Octet) PROVE ByteLevelEncode(s) \in String
<1> DEFINE f == [i \in DOMAIN s |-> Symbol[s[i]]]
           n == Len(s)
<1>1. n \in Nat /\ DOMAIN s = 1..n /\ \A i \in 1..n : s[i] \in 0..255
  <2>1. \A i \in 1..n : s[i] \in Octet OBVIOUS
  <2> QED BY <2>1 DEF Octet
<1>2. \A i \in 1..n : f[i] \in Seq(Nat) BY <1>1, SymbolType DEF String
<1>3. f = [i \in 1..n |-> f[i]] BY <1>1
<1>4. ByteLevelEncode(s) = Concat(f) BY DEF ByteLevelEncode
<1> HIDE DEF f, n
<1>5. n \in Nat BY <1>1
<1>6. Concat(f) \in Seq(Nat) BY <1>2, <1>3, <1>5, ConcatOf
<1> QED BY <1>4, <1>6 DEF String

(* The loop that cuts a string into symbols.                               *)
CutPiece(s) == [i \in DOMAIN s |-> <<SubSeq(s, i, i + SymbolLen(s, i) - 1)>>]
CutNext(s) == [i \in DOMAIN s |-> i + SymbolLen(s, i)]

(* The piece at a position is one byte, or the two of a symbol.            *)
LEMMA SymbolLenIs ==
  ASSUME NEW s \in String, NEW i \in 1..Len(s)
  PROVE  /\ SymbolLen(s, i) \in 1..2 /\ i + SymbolLen(s, i) \in (i + 1)..(Len(s) + 1)
         /\ SymbolLen(s, i) = 1 => SubSeq(s, i, i + SymbolLen(s, i) - 1) = <<s[i]>>
         /\ SymbolLen(s, i) = 2 =>
              /\ SubSeq(s, i, i + SymbolLen(s, i) - 1) = <<s[i], s[i + 1]>>
              /\ i < Len(s) /\ <<s[i], s[i + 1]>> \in DOMAIN SymbolByte
<1>1. Len(s) \in Nat /\ s \in Seq(Nat) BY DEF String
<1>2. CASE SymbolLen(s, i) = 2
  <2>1. i < Len(s) /\ <<s[i], s[i + 1]>> \in DOMAIN SymbolByte BY <1>2 DEF SymbolLen
  <2>2. i + 2 - 1 = i + 1 /\ i + 1 <= Len(s) BY <1>1, <2>1
  <2> DEFINE e == SubSeq(s, i, i + 1)
  <2>3. e \in Seq(Nat) /\ Len(e) = (i + 1) - i + 1 /\ \A k \in 1..((i + 1) - i + 1) : e[k] = s[k + i - 1]
    BY <1>1, <2>2, SubSeqIs
  <2>4. (i + 1) - i + 1 = 2 /\ 1 + i - 1 = i /\ 2 + i - 1 = i + 1 OBVIOUS
  <2> HIDE DEF e
  <2>5. Len(e) = 2 /\ e[1] = s[i] /\ e[2] = s[i + 1] BY <2>3, <2>4
  <2>6. e = <<s[i], s[i + 1]>> BY <2>3, <2>5
  <2>7. SubSeq(s, i, i + SymbolLen(s, i) - 1) = e BY <1>2, <2>2 DEF e
  <2> QED BY <1>1, <1>2, <2>1, <2>2, <2>6, <2>7
<1>3. CASE SymbolLen(s, i) # 2
  <2>1. SymbolLen(s, i) = 1 BY <1>3 DEF SymbolLen
  <2>2. i + 1 - 1 = i BY <1>1
  <2> DEFINE e == SubSeq(s, i, i)
  <2>3. e \in Seq(Nat) /\ Len(e) = i - i + 1 /\ \A k \in 1..(i - i + 1) : e[k] = s[k + i - 1]
    <3>1. i \in Int /\ 1 <= i /\ i <= Len(s) /\ i <= i + 1 BY <1>1
    <3>2. s \in Seq(Nat) BY DEF String
    <3> HIDE DEF e
    <3>3. /\ SubSeq(s, i, i) \in Seq(Nat) /\ Len(SubSeq(s, i, i)) = i - i + 1
          /\ \A k \in 1..(i - i + 1) : SubSeq(s, i, i)[k] = s[k + i - 1]
      BY <3>1, <3>2, SubSeqIs
    <3> QED BY <3>3 DEF e
  <2>4. i - i + 1 = 1 /\ 1 + i - 1 = i OBVIOUS
  <2> HIDE DEF e
  <2>5. e = <<s[i]>> BY <2>3, <2>4
  <2>6. SubSeq(s, i, i + SymbolLen(s, i) - 1) = e BY <2>1, <2>2 DEF e
  <2> QED BY <1>1, <2>1, <2>5, <2>6
<1> QED BY <1>2, <1>3

(* Cutting into symbols is a loop, and gives strings.                      *)
LEMMA SplitType ==
  ASSUME NEW s \in String
  PROVE  /\ CutPiece(s) \in Seq(Seq(String)) /\ Len(CutPiece(s)) = Len(s)
         /\ Onwards(Len(s), CutNext(s)) /\ SplitSymbols(s) = Onward(CutPiece(s), CutNext(s))[1]
         /\ SplitSymbols(s) \in Seq(String)
<1> DEFINE p == CutPiece(s)
           nx == CutNext(s)
           n == Len(s)
           X == Seq(String)
<1>1. n \in Nat /\ DOMAIN s = 1..n BY DEF String
<1>2. \A i \in 1..n : p[i] \in X
  <2>1. TAKE i \in 1..n
  <2>2. p[i] = <<SubSeq(s, i, i + SymbolLen(s, i) - 1)>> BY <1>1 DEF CutPiece
  <2>3. SubSeq(s, i, i + SymbolLen(s, i) - 1) \in String
    <3>1. s \in Seq(Nat) BY DEF String
    <3>2. /\ i \in Int /\ i + SymbolLen(s, i) - 1 \in Int /\ 1 <= i
          /\ i + SymbolLen(s, i) - 1 <= Len(s) /\ i <= (i + SymbolLen(s, i) - 1) + 1
      <4>1. SymbolLen(s, i) \in 1..2 /\ i + SymbolLen(s, i) \in (i + 1)..(n + 1) BY SymbolLenIs
      <4> DEFINE w == SymbolLen(s, i)
      <4> HIDE DEF w
      <4> QED BY <1>1, <4>1 DEF w
    <3> QED BY <3>1, <3>2, SubSeqIs DEF String
  <2> QED BY <2>2, <2>3
<1>3. p = [i \in 1..n |-> p[i]] BY <1>1 DEF CutPiece
<1>4. p \in Seq(X) /\ Len(p) = n
  <2> HIDE DEF p, n, X
  <2>1. p \in [1..n -> X] BY <1>2, <1>3
  <2> QED BY <1>1, <2>1
<1>5. Onwards(n, nx)
  <2>1. ASSUME NEW i \in 1..n PROVE nx[i] \in (i + 1)..(n + 1)
    <3>1. nx[i] = i + SymbolLen(s, i) BY <1>1 DEF CutNext
    <3>2. i + SymbolLen(s, i) \in (i + 1)..(n + 1) BY SymbolLenIs
    <3> QED BY <3>1, <3>2
  <2> HIDE DEF nx, n
  <2> QED BY <2>1 DEF Onwards
<1>6. SplitSymbols(s) = Onward(p, nx)[1] BY DEF SplitSymbols, Walk, CutPiece, CutNext
<1>7. Unfolds(String, p, nx)
  <2> HIDE DEF p, nx, n
  <2> QED BY <1>4, <1>5, OnwardIs DEF X
<1>8. Onward(p, nx)[1] \in Seq(String)
  <2> HIDE DEF p, nx
  <2>1. Onward(p, nx) \in [1..(Len(p) + 1) -> Seq(String)] BY <1>7 DEF Unfolds
  <2>2. 1 \in 1..(Len(p) + 1) BY <1>1, <1>4
  <2> QED BY <2>1, <2>2
<1> HIDE DEF p, nx
<1> QED BY <1>4, <1>5, <1>6, <1>8 DEF p, nx, X

-----------------------------------------------------------------------------
(* The inductive invariant: what is loaded is a vocabulary, and ids that   *)
(* are in use were made of what is loaded.                                 *)
TextInv ==
  /\ vocab \in Vocabulary
  /\ prompt \in Seq(Char)
  /\ source \in {"none", "encoded", "generated"}
  /\ source = "encoded" => ids = Encoded(vocab, prompt)
  /\ source = "generated" => ids \in Seq(0..(Len(vocab.tokens) - 1))

(* The fields of a vocabulary.                                             *)
LEMMA Fields ==
  ASSUME NEW v \in Vocabulary
  PROVE  /\ v.tokens \in Seq(String) /\ Learnt(v)
         /\ v.bpe \in BOOLEAN /\ v.mode \in Mode
BY DEF Vocabulary, Learnt

(* Loading from a list keeps the tokens.                                   *)
LEMMA ListedIs ==
  ASSUME NEW v \in Vocabulary
  PROVE  LET w == [v EXCEPT !.merges = << >>, !.bpe = FALSE, !.mode = "Generic"]
         IN w \in Vocabulary
<1>1. "Generic" \in Mode /\ << >> \in Seq(String \X String) BY DEF Mode
<1> QED BY <1>1 DEF Vocabulary

(* Tokens added at the end.                                                *)
LEMMA AddedIs ==
  ASSUME NEW v \in Vocabulary, NEW new \in Seq(String)
  PROVE  [v EXCEPT !.tokens = @ \o new] \in Vocabulary
<1> DEFINE t == v.tokens
           u == t \o new
<1>1. t \in Seq(String) BY Fields
<1>2. u \in Seq(String)
  <2> HIDE DEF t
  <2> QED BY <1>1, ConcatProperties
<1>3. [v EXCEPT !.tokens = u] \in Vocabulary
  <2> HIDE DEF u
  <2> QED BY <1>2 DEF Vocabulary
<1> QED BY <1>3

(* TextInv holds at first, ...                                             *)
LEMMA AtFirst == TextInit => TextInv
<1> SUFFICES ASSUME TextInit PROVE TextInv OBVIOUS
<1>1. "Generic" \in Mode /\ << >> \in Seq(String \X String) /\ << >> \in Seq(String) BY DEF Mode
<1>2. NoVocabulary \in Vocabulary BY <1>1 DEF Vocabulary, NoVocabulary
<1>3. << >> \in Seq(Char) OBVIOUS
<1> QED BY <1>2, <1>3 DEF TextInit, TextInv

(* ... when the vocabulary is replaced, ...                                *)
LEMMA Replaced ==
  ASSUME NEW v \in Vocabulary, Replace(v)
  PROVE  TextInv'
<1>1. << >> \in Seq(Char) OBVIOUS
<1> QED BY <1>1 DEF Replace, TextInv

(* What is appended for the tokens to add.                                 *)
LEMMA NewTokens ==
  ASSUME NEW f, f = [i \in DOMAIN Added |-> f[i]],
         \A i \in DOMAIN Added : f[i] \in {<<Added[i]>>, << >>}
  PROVE  Concat(f) \in Seq(String)
<1> DEFINE n == Len(Added)
<1>1. n \in Nat /\ DOMAIN Added = 1..n /\ \A i \in 1..n : Added[i] \in String BY Inputs
<1>2. \A i \in 1..n : f[i] \in Seq(String)
  <2>1. TAKE i \in 1..n
  <2>2. << >> \in Seq(String) /\ <<Added[i]>> \in Seq(String) BY <1>1
  <2> QED BY <1>1, <2>2
<1>3. f = [i \in 1..n |-> f[i]] BY <1>1
<1> HIDE DEF n
<1>4. n \in Nat BY <1>1
<1> QED BY <1>2, <1>3, <1>4, ConcatOf

(* ... and after every step.                                               *)
LEMMA EveryStep == TextInv /\ [TextNext]_textVars => TextInv'
<1> SUFFICES ASSUME TextInv, [TextNext]_textVars PROVE TextInv' OBVIOUS
<1>1. ASSUME NEW v \in Vocabularies, LoadFromGguf(v) PROVE TextInv'
  <2>1. v \in Vocabulary BY Inputs
  <2> QED BY <1>1, <2>1, Replaced DEF LoadFromGguf
<1>2. ASSUME NEW v \in Vocabularies, LoadFromList(v) PROVE TextInv'
  <2> DEFINE w == [v EXCEPT !.merges = << >>, !.bpe = FALSE, !.mode = "Generic"]
  <2>1. v \in Vocabulary BY Inputs
  <2>2. w \in Vocabulary BY <2>1, ListedIs
  <2>3. Replace(w) BY <1>2 DEF LoadFromList
  <2> HIDE DEF w
  <2> QED BY <2>1, <2>2, <2>3, Replaced
<1>3. CASE AddSpecialTokens
  <2> DEFINE IsNew(i) == Id(vocab, Added[i]) < 0 /\ ~\E j \in 1..(i - 1) : Added[j] = Added[i]
             f == [i \in DOMAIN Added |-> IF IsNew(i) THEN <<Added[i]>> ELSE << >>]
             new == Concat(f)
             w == [vocab EXCEPT !.tokens = @ \o new]
  <2>1. source = "none" /\ vocab' = w /\ UNCHANGED <<prompt, ids, source>>
    BY <1>3 DEF AddSpecialTokens
  <2>2. new \in Seq(String)
    <3>1. \A i \in DOMAIN Added : f[i] \in {<<Added[i]>>, << >>} OBVIOUS
    <3>2. f = [i \in DOMAIN Added |-> f[i]] OBVIOUS
    <3> HIDE DEF f
    <3> QED BY <3>1, <3>2, NewTokens
  <2>3. w \in Vocabulary
    <3> HIDE DEF new
    <3> QED BY <2>2, AddedIs DEF TextInv
  <2> HIDE DEF w
  <2> QED BY <2>1, <2>3 DEF TextInv
<1>4. ASSUME NEW text \in Texts, Encode(text) PROVE TextInv'
  <2>1. text \in Seq(Char) BY Inputs
  <2> QED BY <1>4, <2>1 DEF Encode, TextInv
<1>5. CASE Generate
  <2>1. PICK n \in 1..GenMax : \E seq \in [1..n -> 0..(Len(vocab.tokens) - 1)] : ids' = seq
    BY <1>5 DEF Generate
  <2>2. n \in Nat BY Inputs
  <2> DEFINE I == 0..(Len(vocab.tokens) - 1)
  <2>3. ids' \in [1..n -> I] BY <2>1
  <2> HIDE DEF I
  <2>4. ids' \in Seq(I) BY <2>2, <2>3
  <2>5. ids' \in Seq(0..(Len(vocab'.tokens) - 1)) BY <1>5, <2>4 DEF I, Generate
  <2> QED BY <1>5, <2>5 DEF Generate, TextInv
<1>6. CASE Finish
  <2>1. << >> \in Seq(Char) OBVIOUS
  <2> QED BY <1>6, <2>1 DEF Finish, TextInv
<1>7. CASE UNCHANGED textVars BY <1>7 DEF TextInv, textVars
<1> QED BY <1>1, <1>2, <1>3, <1>4, <1>5, <1>6, <1>7 DEF TextNext

(* What is loaded is a vocabulary, and the ids of a prompt are those made  *)
(* of it by the vocabulary still loaded (tokenizer_load_from_gguf,         *)
(* tokenizer_encode).                                                      *)
THEOREM AlwaysTextInv == TextSpec => []TextInv
BY AtFirst, EveryStep, PTL DEF TextSpec

(* Merging whole rounds gives what merging one pair at a time gives.       *)
THEOREM AlwaysMergedInRankOrder == TextSpec => []MergedInRankOrder
<1>1. TextInv => MergedInRankOrder
  <2> SUFFICES ASSUME TextInv, LearntInOrder(vocab)
               PROVE  LET syms == SplitSymbols(ByteLevelEncode(TextBytes(Normalise(prompt))))
                      IN ApplyMerges(vocab, syms) = MergeOneByOne(vocab, syms)
    BY DEF MergedInRankOrder
  <2>1. Normalise(prompt) \in Seq(Char) BY NormaliseType DEF TextInv
  <2>2. ByteLevelEncode(TextBytes(Normalise(prompt))) \in String
    BY <2>1, TextBytesType, ByteLevelType
  <2>3. SplitSymbols(ByteLevelEncode(TextBytes(Normalise(prompt)))) \in Seq(String)
    BY <2>2, SplitType
  <2>4. Learnt(vocab) BY Fields DEF TextInv
  <2> QED BY <2>3, <2>4, MergesAgree
<1> QED BY <1>1, AlwaysTextInv, PTL

-----------------------------------------------------------------------------
(* Encoding by byte-pair merges: the types of its parts.                   *)

(* The least element of a set of positions from i to m that has m.         *)
LEMMA Reaches ==
  ASSUME NEW m \in Nat, NEW i \in Nat, NEW S \in SUBSET (i..m), m \in S
  PROVE  Min(S) \in i..m
<1>1. S \in SUBSET Nat BY SMT
<1>2. Min(S) \in S BY <1>1, MinIs
<1> QED BY <1>2

(* An id is a number, of a token that there is or not.                     *)
LEMMA IdIs == ASSUME NEW v \in Vocabulary, NEW tok PROVE Id(v, tok) \in Int
<1> DEFINE S == {i \in DOMAIN v.tokens : v.tokens[i] = tok}
           n == Len(v.tokens)
<1>1. n \in Nat /\ DOMAIN v.tokens = 1..n BY Fields
<1>2. Id(v, tok) = IF S # {} THEN Max(S) - 1 ELSE -1 BY DEF Id
<1>3. S \in SUBSET (0..n) BY <1>1
<1> HIDE DEF S, n
<1>4. CASE S = {} BY <1>2, <1>4
<1>5. CASE S # {}
  <2>1. Max(S) \in S BY <1>1, <1>3, <1>5, MaxIs
  <2>2. Max(S) \in 0..n BY <1>3, <2>1
  <2> DEFINE x == Max(S)
  <2>3. x \in 0..n /\ Id(v, tok) = x - 1 BY <1>2, <1>5, <2>2
  <2> HIDE DEF x
  <2> QED BY <1>1, <2>3
<1> QED BY <1>4, <1>5

(* So are the ids that stand in.                                           *)
LEMMA OtherIdIs ==
  ASSUME NEW v \in Vocabulary
  PROVE  UnknownId(v) \in Int /\ NewlineId(v) \in Int /\ \A b : ByteOrUnknown(v, b) \in Int
<1>1. UnknownId(v) \in Int
  <2>1. Id(v, Unknown) \in Int BY IdIs
  <2> QED BY <2>1 DEF UnknownId
<1>2. NewlineId(v) \in Int
  <2>1. \A tok : Id(v, tok) \in Int BY IdIs
  <2> DEFINE mark == IF Id(v, Symbol[10]) >= 0 THEN Symbol[10] ELSE LineFeed
  <2>2. NewlineId(v) = IF Id(v, mark) >= 0 THEN Id(v, mark) ELSE Id(v, EscapedNewline)
    BY DEF NewlineId
  <2>3. NewlineId(v) \in {Id(v, mark), Id(v, EscapedNewline)}
    <3> HIDE DEF mark
    <3> QED BY <2>2
  <2>4. Id(v, mark) \in Int /\ Id(v, EscapedNewline) \in Int BY <2>1
  <2> QED BY <2>3, <2>4
<1>3. \A b : ByteOrUnknown(v, b) \in Int BY <1>1, IdIs DEF ByteOrUnknown
<1> QED BY <1>1, <1>2, <1>3

(* Merging gives a list of strings.                                        *)
LEMMA ApplyMergesType ==
  ASSUME NEW v \in Vocabulary, NEW s \in Seq(String) PROVE ApplyMerges(v, s) \in Seq(String)
<1>1. Learnt(v) BY Fields
<1>2. Rounds(v, s) \in [0..Len(s) -> Seq(String)] BY <1>1, RoundsIs
<1>3. Len(s) \in 0..Len(s) OBVIOUS
<1> QED BY <1>2, <1>3 DEF ApplyMerges

(* A part is encoded to numbers, ...                                       *)
LEMMA EncodePartType ==
  ASSUME NEW v \in Vocabulary, NEW part \in Seq(Char) PROVE EncodePart(v, part) \in Seq(Int)
<1> DEFINE syms == ApplyMerges(v, SplitSymbols(ByteLevelEncode(TextBytes(part))))
           n == Len(syms)
           e == EncodePart(v, part)
           X == Int
<1>1. syms \in Seq(String)
  <2>1. ByteLevelEncode(TextBytes(part)) \in String BY TextBytesType, ByteLevelType
  <2>2. SplitSymbols(ByteLevelEncode(TextBytes(part))) \in Seq(String) BY <2>1, SplitType
  <2> QED BY <2>2, ApplyMergesType
<1>2. e = [i \in DOMAIN syms |->
             IF Id(v, syms[i]) >= 0 THEN Id(v, syms[i])
             ELSE IF syms[i] \in DOMAIN SymbolByte THEN ByteOrUnknown(v, SymbolByte[syms[i]])
             ELSE UnknownId(v)]
  BY DEF EncodePart
<1> HIDE DEF syms, e
<1>3. n \in Nat /\ DOMAIN syms = 1..n BY <1>1
<1>4. \A i \in 1..n : e[i] \in X
  <2>1. TAKE i \in 1..n
  <2>2. e[i] \in {Id(v, syms[i]), ByteOrUnknown(v, SymbolByte[syms[i]]), UnknownId(v)}
    BY <1>2, <1>3
  <2>3. /\ Id(v, syms[i]) \in Int /\ UnknownId(v) \in Int
        /\ ByteOrUnknown(v, SymbolByte[syms[i]]) \in Int
    BY IdIs, OtherIdIs
  <2> QED BY <2>2, <2>3
<1>5. e = [i \in 1..n |-> e[i]] BY <1>2, <1>3
<1> HIDE DEF n, X
<1>6. e \in [1..n -> X] BY <1>4, <1>5
<1>7. n \in Nat BY <1>3
<1>8. e \in Seq(X) BY <1>6, <1>7
<1> QED BY <1>8 DEF X, e

(* A part ends behind where it begins and within the text.                 *)
LEMMA PartEndIs ==
  ASSUME NEW t \in Seq(Char), NEW i \in 1..Len(t), NEW mode
  PROVE  PartEnd(t, i, mode) \in (i + 1)..(Len(t) + 1)
<1> DEFINE m == Len(t) + 1
           Word(ch) == IsWord(ch, mode)
           Mark(ch) == ~IsSpace(ch) /\ ~IsNewline(ch) /\ ~Word(ch)
           Tail1(ch) == ~IsSpace(ch) /\ ~IsNewline(ch) /\ ch.class \notin {"letter", "digit"}
           Words(k) == {j \in k..m : j = m \/ ~Word(t[j])}
           Marks(k) == {j \in k..m : j = m \/ ~Mark(t[j])}
           Tails(k) == {j \in k..m : j = m \/ ~Tail1(t[j])}
           Spaces(k) == {j \in k..m : j = m \/ ~IsSpace(t[j])}
           Lines(k) == {j \in k..m : j = m \/ ~IsNewline(t[j])}
<1>1. m \in Nat /\ i \in Nat /\ i < m /\ i >= 1 /\ m = Len(t) + 1 OBVIOUS
<1>2. PartEnd(t, i, mode)
        = CASE Contraction(t, i) -> i + 2
            [] ~Contraction(t, i) /\ LongContraction(t, i) -> i + 3
            [] OTHER ->
                 IF t[i] = Space /\ i < Len(t) /\ Mark(t[i + 1])
                 THEN Min(Lines(Min(Marks(i + 2))))
                 ELSE IF ~IsNewline(t[i]) /\ ~Word(t[i]) /\ i < Len(t) /\ Word(t[i + 1])
                 THEN Min(Words(i + 2))
                 ELSE IF Word(t[i]) THEN Min(Words(i + 1))
                 ELSE IF IsSpace(t[i]) THEN Min(Lines(Min(Spaces(i + 1))))
                 ELSE IF IsNewline(t[i]) THEN Min(Lines(i + 1))
                 ELSE Min(Lines(Min(Tails(i + 1))))
  BY DEF PartEnd, Past
<1>3. ASSUME NEW k \in Nat, k <= m
      PROVE  /\ Min(Words(k)) \in k..m /\ Min(Marks(k)) \in k..m /\ Min(Tails(k)) \in k..m
             /\ Min(Spaces(k)) \in k..m /\ Min(Lines(k)) \in k..m
  <2>1. /\ Words(k) \in SUBSET (k..m) /\ Marks(k) \in SUBSET (k..m) /\ Tails(k) \in SUBSET (k..m)
        /\ Spaces(k) \in SUBSET (k..m) /\ Lines(k) \in SUBSET (k..m)
    OBVIOUS
  <2>2. m \in k..m BY <1>1, <1>3
  <2>3. m \in Words(k) /\ m \in Marks(k) /\ m \in Tails(k) /\ m \in Spaces(k) /\ m \in Lines(k)
    BY <2>2
  <2> HIDE DEF Words, Marks, Tails, Spaces, Lines, m
  <2> QED BY <1>1, <2>1, <2>3, Reaches
<1> DEFINE Two(k) == Min(Lines(k))
<1> HIDE DEF Words, Marks, Tails, Spaces, Lines, Word, Mark, m
<1>4. i < Len(t) => i + 2 \in Nat /\ i + 2 <= m BY <1>1
<1>5. i + 1 \in Nat /\ i + 1 <= m BY <1>1
<1>6. CASE Contraction(t, i)
  <2>1. i < Len(t) BY <1>6 DEF Contraction
  <2>2. PartEnd(t, i, mode) = i + 2 BY <1>2, <1>6
  <2> QED BY <1>1, <2>1, <2>2
<1>7. CASE ~Contraction(t, i) /\ LongContraction(t, i)
  <2>1. i + 1 < Len(t) BY <1>7 DEF LongContraction
  <2>2. PartEnd(t, i, mode) = i + 3 BY <1>2, <1>7
  <2> QED BY <1>1, <2>1, <2>2
<1>8. CASE ~Contraction(t, i) /\ ~LongContraction(t, i)
  <2> DEFINE e == PartEnd(t, i, mode)
  <2>1. \/ i < Len(t) /\ e = Min(Lines(Min(Marks(i + 2))))
        \/ i < Len(t) /\ e = Min(Words(i + 2))
        \/ e = Min(Words(i + 1))
        \/ e = Min(Lines(Min(Spaces(i + 1))))
        \/ e = Min(Lines(i + 1))
        \/ e = Min(Lines(Min(Tails(i + 1))))
    BY <1>2, <1>8
  <2> HIDE DEF e
  <2>2. \A x \in (i + 1)..m : Min(Lines(x)) \in (i + 1)..m
    <3>1. TAKE x \in (i + 1)..m
    <3>2. x \in Nat /\ x <= m /\ x >= i + 1 BY <1>1
    <3>3. Min(Lines(x)) \in x..m BY <1>3, <3>2
    <3> DEFINE y == Min(Lines(x))
    <3> HIDE DEF y
    <3>4. y \in x..m BY <3>3 DEF y
    <3>5. y \in (i + 1)..m BY <1>1, <3>2, <3>4
    <3> QED BY <3>5 DEF y
  <2>3. /\ Min(Words(i + 1)) \in (i + 1)..m /\ Min(Spaces(i + 1)) \in (i + 1)..m
        /\ Min(Tails(i + 1)) \in (i + 1)..m
    BY <1>3, <1>5
  <2>4. ASSUME i < Len(t)
        PROVE  Min(Marks(i + 2)) \in (i + 1)..m /\ Min(Words(i + 2)) \in (i + 1)..m
    <3>1. Min(Marks(i + 2)) \in (i + 2)..m /\ Min(Words(i + 2)) \in (i + 2)..m
      BY <1>3, <1>4, <2>4
    <3>2. \A x \in (i + 2)..m : x \in (i + 1)..m BY <1>1
    <3> QED BY <3>1, <3>2
  <2>5. i + 1 \in (i + 1)..m BY <1>1
  <2>10. e \in (i + 1)..m BY <2>1, <2>2, <2>3, <2>4, <2>5, Zenon
  <2> QED BY <2>10 DEF e, m
<1> QED BY <1>6, <1>7, <1>8

(* A loop whose pieces are given for each position.                        *)
LEMMA LoopOf ==
  ASSUME NEW S, NEW n \in Nat, NEW p, p = [i \in 1..n |-> p[i]], \A i \in 1..n : p[i] \in Seq(S),
         NEW nx, \A i \in 1..n : nx[i] \in (i + 1)..(n + 1)
  PROVE  p \in Seq(Seq(S)) /\ Len(p) = n /\ Onwards(Len(p), nx) /\ Unfolds(S, p, nx)
<1>1. p \in Seq(Seq(S)) /\ Len(p) = n BY ConcatOf
<1>2. Onwards(Len(p), nx) BY <1>1 DEF Onwards
<1> QED BY <1>1, <1>2, OnwardIs

(* The loop that cuts a text into parts.                                   *)
LEMMA PartsType ==
  ASSUME NEW t \in Seq(Char), NEW mode PROVE Parts(t, mode) \in Seq(Seq(Char))
<1> DEFINE n == Len(t)
           X == Seq(Char)
           p == [i \in DOMAIN t |-> <<SubSeq(t, i, PartEnd(t, i, mode) - 1)>>]
           nx == [i \in DOMAIN t |-> PartEnd(t, i, mode)]
<1>1. n \in Nat /\ DOMAIN t = 1..n OBVIOUS
<1>2. \A i \in 1..n : nx[i] \in (i + 1)..(n + 1) BY <1>1, PartEndIs
<1>3. \A i \in 1..n : p[i] \in Seq(X)
  <2>1. TAKE i \in 1..n
  <2> DEFINE e == PartEnd(t, i, mode) - 1
             c == SubSeq(t, i, e)
  <2>2. e \in Int /\ 1 <= i /\ i \in Int /\ e <= Len(t) /\ i <= e + 1
    <3>1. PartEnd(t, i, mode) \in (i + 1)..(Len(t) + 1) BY PartEndIs
    <3> DEFINE z == PartEnd(t, i, mode)
    <3> HIDE DEF z
    <3> QED BY <1>1, <3>1 DEF z
  <2>3. p[i] = <<c>> BY <1>1
  <2> HIDE DEF e, p
  <2>4. c \in X BY <2>2, SubSeqIs
  <2> HIDE DEF c, X
  <2> QED BY <2>3, <2>4
<1>4. p = [i \in 1..n |-> p[i]] BY <1>1
<1>5. Parts(t, mode) = Onward(p, nx)[1] BY DEF Parts, Walk
<1> HIDE DEF p, nx, n, X
<1>6. n \in Nat BY <1>1
<1>7. Len(p) = n /\ Unfolds(X, p, nx) BY <1>2, <1>3, <1>4, <1>6, LoopOf
<1>8. 1 \in 1..(n + 1) BY <1>6
<1>9. Onward(p, nx)[1] \in Seq(X) BY <1>7, <1>8 DEF Unfolds
<1> QED BY <1>5, <1>9 DEF X

(* ... and so is a text without special tokens.                            *)
LEMMA EncodeChunkType ==
  ASSUME NEW v \in Vocabulary, NEW t \in Seq(Char) PROVE EncodeChunk(v, t) \in Seq(Int)
<1> DEFINE parts == Parts(t, v.mode)
           n == Len(parts)
           f == [k \in DOMAIN parts |-> EncodePart(v, parts[k])]
<1>1. parts \in Seq(Seq(Char)) BY PartsType
<1>2. EncodeChunk(v, t) = Concat(f) BY DEF EncodeChunk
<1> HIDE DEF parts
<1>3. n \in Nat /\ DOMAIN parts = 1..n /\ \A k \in 1..n : parts[k] \in Seq(Char) BY <1>1
<1>4. \A k \in 1..n : f[k] \in Seq(Int) BY <1>3, EncodePartType
<1>5. f = [k \in 1..n |-> f[k]] BY <1>3
<1>6. n \in Nat BY <1>3
<1> HIDE DEF f, n
<1>7. Concat(f) \in Seq(Int) BY <1>4, <1>5, <1>6, ConcatOf
<1> QED BY <1>2, <1>7

-----------------------------------------------------------------------------
(* Where special tokens are.                                               *)
Ends(v, t, i) ==
  {n \in 1..(Len(t) - i + 1) : TextBytes(SubSeq(t, i, i + n - 1)) \in Special(v)}
Nexts(v, t, i) == {j \in (i + 1)..(Len(t) + 1) : j = Len(t) + 1 \/ SpecialLen(v, t, j) > 0}

(* A special token at i is within the text.                                *)
LEMMA SpecialLenIs ==
  ASSUME NEW v, NEW t \in Seq(Char), NEW i \in 1..Len(t)
  PROVE  /\ SpecialLen(v, t, i) \in 0..(Len(t) - i + 1)
         /\ SpecialLen(v, t, i) = (IF Ends(v, t, i) = {} THEN 0 ELSE Max(Ends(v, t, i)))
         /\ SpecialLen(v, t, i) > 0 <=> Ends(v, t, i) # {}
<1> DEFINE m == Len(t) - i + 1
           E == Ends(v, t, i)
           x == SpecialLen(v, t, i)
<1>1. m \in Nat OBVIOUS
<1>2. E \subseteq 1..m BY DEF Ends
<1>3. x = IF E = {} THEN 0 ELSE Max(E) BY DEF SpecialLen, Ends
<1> HIDE DEF m, E, x
<1>4. CASE E = {} BY <1>1, <1>3, <1>4 DEF m, E, x
<1>5. CASE E # {}
  <2>1. E \in SUBSET (0..m) BY <1>1, <1>2
  <2>2. Max(E) \in E BY <1>1, <1>5, <2>1, MaxIs
  <2>3. x \in 1..m BY <1>2, <1>3, <1>5, <2>2
  <2>4. x \in 0..m /\ x > 0 BY <1>1, <2>3
  <2> QED BY <1>3, <1>5, <2>4 DEF m, E, x
<1> QED BY <1>4, <1>5

(* The next special token is behind i, the end of the text if there is     *)
(* none.                                                                   *)
LEMMA NextSpecialIs ==
  ASSUME NEW v, NEW t \in Seq(Char), NEW i \in 1..Len(t)
  PROVE  /\ NextSpecial(v, t, i) = Min(Nexts(v, t, i))
         /\ NextSpecial(v, t, i) \in (i + 1)..(Len(t) + 1)
         /\ Nexts(v, t, i) \in SUBSET ((i + 1)..(Len(t) + 1)) /\ Len(t) + 1 \in Nexts(v, t, i)
<1>1. Len(t) + 1 \in Nat /\ i + 1 \in Nat /\ Len(t) + 1 \in (i + 1)..(Len(t) + 1) OBVIOUS
<1>2. Nexts(v, t, i) \in SUBSET ((i + 1)..(Len(t) + 1)) /\ Len(t) + 1 \in Nexts(v, t, i)
  BY <1>1 DEF Nexts
<1>3. NextSpecial(v, t, i) = Min(Nexts(v, t, i)) BY DEF NextSpecial, Nexts
<1>4. Min(Nexts(v, t, i)) \in (i + 1)..(Len(t) + 1) BY <1>1, <1>2, Reaches
<1> QED BY <1>2, <1>3, <1>4

(* The loop that encodes a text.                                           *)
BpePiece(v, t) ==
  [i \in DOMAIN t |->
     LET n == SpecialLen(v, t, i)
     IN IF n > 0 THEN <<Id(v, TextBytes(SubSeq(t, i, i + n - 1)))>>
        ELSE EncodeChunk(v, SubSeq(t, i, NextSpecial(v, t, i) - 1))]
BpeNext(v, t) ==
  [i \in DOMAIN t |->
     IF SpecialLen(v, t, i) > 0 THEN i + SpecialLen(v, t, i) ELSE NextSpecial(v, t, i)]
BpeFrom(v, t) == Onward(BpePiece(v, t), BpeNext(v, t))
BpeLoop(v, t) ==
  /\ BpePiece(v, t) \in Seq(Seq(Int)) /\ Len(BpePiece(v, t)) = Len(t)
  /\ Onwards(Len(BpePiece(v, t)), BpeNext(v, t)) /\ Unfolds(Int, BpePiece(v, t), BpeNext(v, t))

(* Encoding by merges is its loop, begun at position 1.                    *)
LEMMA BpeLoopIs ==
  ASSUME NEW v \in Vocabulary, NEW t \in Seq(Char)
  PROVE  BpeLoop(v, t) /\ EncodeBpe(v, t) = BpeFrom(v, t)[1]
<1> DEFINE n == Len(t)
           p == BpePiece(v, t)
           nx == BpeNext(v, t)
           X == Seq(Int)
<1>1. n \in Nat /\ DOMAIN t = 1..n OBVIOUS
<1>2. \A i \in 1..n : p[i] \in X
  <2>1. TAKE i \in 1..n
  <2> DEFINE w == SpecialLen(v, t, i)
             e == NextSpecial(v, t, i)
             c == SubSeq(t, i, e - 1)
             d == Id(v, TextBytes(SubSeq(t, i, i + w - 1)))
  <2>2. p[i] = IF w > 0 THEN <<d>> ELSE EncodeChunk(v, c) BY <1>1 DEF BpePiece
  <2>3. d \in Int BY IdIs
  <2>4. e \in (i + 1)..(n + 1) BY NextSpecialIs
  <2> HIDE DEF e
  <2>5. e - 1 \in Int /\ 1 <= i /\ i \in Int /\ e - 1 <= Len(t) /\ i <= (e - 1) + 1 BY <1>1, <2>4
  <2>6. c \in Seq(Char) BY <2>5, SubSeqIs
  <2> HIDE DEF c, d, w, p
  <2>7. EncodeChunk(v, c) \in Seq(Int) /\ <<d>> \in Seq(Int) BY <2>3, <2>6, EncodeChunkType
  <2> QED BY <2>2, <2>7
<1>3. \A i \in 1..n : nx[i] \in (i + 1)..(n + 1)
  <2>1. TAKE i \in 1..n
  <2> DEFINE w == SpecialLen(v, t, i)
             e == NextSpecial(v, t, i)
  <2>2. nx[i] = IF w > 0 THEN i + w ELSE e BY <1>1 DEF BpeNext
  <2>3. w \in 0..(n - i + 1) BY SpecialLenIs
  <2>4. e \in (i + 1)..(n + 1) BY NextSpecialIs
  <2> HIDE DEF e, w, nx, n
  <2>5. w > 0 => i + w \in (i + 1)..(n + 1) BY <1>1, <2>3
  <2> QED BY <2>2, <2>4, <2>5
<1>4. p = [i \in 1..n |-> p[i]] BY <1>1 DEF BpePiece
<1>5. EncodeBpe(v, t) = BpeFrom(v, t)[1] BY DEF EncodeBpe, Walk, BpeFrom, BpePiece, BpeNext
<1>6. n \in Nat BY <1>1
<1>7. p \in Seq(Seq(Int)) /\ Len(p) = n /\ Onwards(Len(p), nx) /\ Unfolds(Int, p, nx)
  <2> HIDE DEF p, nx, n
  <2> QED BY <1>2, <1>3, <1>4, <1>6, LoopOf DEF X
<1> QED BY <1>5, <1>7 DEF BpeLoop

-----------------------------------------------------------------------------
(* A part of a part of a list.                                             *)
LEMMA SubSub ==
  ASSUME NEW S, NEW s \in Seq(S), NEW k \in Nat, NEW m \in Nat, k <= m, m <= Len(s),
         NEW i \in Int, NEW j \in Int, 1 <= i, i <= j + 1, j <= m - k
  PROVE  SubSeq(SubSeq(s, k + 1, m), i, j) = SubSeq(s, i + k, j + k)
<1> DEFINE r == SubSeq(s, k + 1, m)
           a == SubSeq(r, i, j)
           b == SubSeq(s, i + k, j + k)
<1>1. r \in Seq(S) /\ Len(r) = m - k /\ \A q \in 1..(m - k) : r[q] = s[q + k]
  <2>1. /\ r \in Seq(S) /\ Len(r) = m - (k + 1) + 1
        /\ \A q \in 1..(m - (k + 1) + 1) : r[q] = s[q + (k + 1) - 1]
    BY SubSeqIs
  <2>2. m - (k + 1) + 1 = m - k /\ \A q \in 1..(m - k) : q + (k + 1) - 1 = q + k OBVIOUS
  <2> HIDE DEF r
  <2> QED BY <2>1, <2>2
<1> HIDE DEF r
<1>2. a \in Seq(S) /\ Len(a) = j - i + 1 /\ \A q \in 1..(j - i + 1) : a[q] = r[q + i - 1]
  BY <1>1, SubSeqIs
<1>3. /\ b \in Seq(S) /\ Len(b) = (j + k) - (i + k) + 1
      /\ \A q \in 1..((j + k) - (i + k) + 1) : b[q] = s[q + (i + k) - 1]
  <2>1. i + k \in Int /\ j + k \in Int /\ 1 <= i + k /\ j + k <= Len(s) /\ i + k <= (j + k) + 1
    OBVIOUS
  <2> QED BY <2>1, SubSeqIs
<1> HIDE DEF a, b
<1>4. (j + k) - (i + k) + 1 = j - i + 1 OBVIOUS
<1>5. \A q \in 1..(j - i + 1) : a[q] = b[q]
  <2>1. TAKE q \in 1..(j - i + 1)
  <2>2. q + i - 1 \in 1..(m - k) /\ (q + i - 1) + k = q + (i + k) - 1 OBVIOUS
  <2> QED BY <1>1, <1>2, <1>3, <1>4, <2>2
<1>6. a = b BY <1>2, <1>3, <1>4, <1>5, SeqEqual
<1> QED BY <1>6 DEF a, b, r

(* A set moved by k has its least element moved by k.                      *)
LEMMA MinShift ==
  ASSUME NEW k \in Nat, NEW A \in SUBSET Nat, A # {}, NEW B \in SUBSET Nat,
         \A j \in A : j + k \in B, \A j \in B : j - k \in A
  PROVE  Min(B) = Min(A) + k
<1> DEFINE a == Min(A)
           b == Min(B)
<1>1. a \in A /\ \A j \in A : a <= j BY MinIs
<1>2. B # {} BY <1>1
<1>3. b \in B /\ \A j \in B : b <= j BY <1>2, MinIs
<1> HIDE DEF a, b
<1>4. b <= a + k /\ a <= b - k BY <1>1, <1>3
<1>5. a \in Nat /\ b \in Nat BY <1>1, <1>3
<1>6. b = a + k BY <1>4, <1>5
<1> QED BY <1>6 DEF a, b

(* A special token in a part of a text is one in the text.                 *)
LEMMA EndsShift ==
  ASSUME NEW v, NEW t \in Seq(Char), NEW k \in Nat, NEW m \in Nat, k <= m, m <= Len(t),
         NEW i \in 1..(m - k), NEW n \in 1..(m - k - i + 1)
  PROVE  /\ Len(SubSeq(t, k + 1, m)) = m - k
         /\ n \in Ends(v, SubSeq(t, k + 1, m), i) <=> n \in Ends(v, t, i + k)
         /\ SubSeq(SubSeq(t, k + 1, m), i, i + n - 1) = SubSeq(t, i + k, i + k + n - 1)
<1> DEFINE u == SubSeq(t, k + 1, m)
<1>1. Len(u) = m - k
  <2>1. Len(u) = m - (k + 1) + 1 BY SubSeqIs
  <2> HIDE DEF u
  <2> QED BY <2>1
<1>2. SubSeq(u, i, i + n - 1) = SubSeq(t, i + k, i + k + n - 1)
  <2>1. /\ i \in Int /\ i + n - 1 \in Int /\ 1 <= i /\ i <= (i + n - 1) + 1 /\ i + n - 1 <= m - k
        /\ (i + n - 1) + k = i + k + n - 1
    OBVIOUS
  <2>2. SubSeq(u, i, i + n - 1) = SubSeq(t, i + k, (i + n - 1) + k) BY <2>1, SubSub
  <2> QED BY <2>1, <2>2
<1>3. n \in 1..(Len(u) - i + 1) BY <1>1
<1>4. n \in 1..(Len(t) - (i + k) + 1) OBVIOUS
<1> HIDE DEF u
<1>5. n \in Ends(v, u, i) <=> n \in Ends(v, t, i + k) BY <1>2, <1>3, <1>4 DEF Ends
<1> QED BY <1>1, <1>2, <1>5 DEF u

(* A special token in the rest of a text is the one in the text.           *)
LEMMA SpecialLenShift ==
  ASSUME NEW v, NEW t \in Seq(Char), NEW k \in 0..Len(t), NEW i \in 1..(Len(t) - k)
  PROVE  SpecialLen(v, SubSeq(t, k + 1, Len(t)), i) = SpecialLen(v, t, i + k)
<1> DEFINE u == SubSeq(t, k + 1, Len(t))
           m == Len(t)
<1>1. k \in Nat /\ m \in Nat /\ k <= m /\ m <= Len(t) OBVIOUS
<1>2. u \in Seq(Char) /\ Len(u) = m - k
  <2>1. u \in Seq(Char) /\ Len(u) = m - (k + 1) + 1 BY SubSeqIs
  <2> HIDE DEF u
  <2> QED BY <1>1, <2>1
<1>3. i \in 1..Len(u) /\ i + k \in 1..Len(t) BY <1>2
<1>4. Ends(v, u, i) = Ends(v, t, i + k)
  <2>1. Ends(v, u, i) \subseteq 1..(Len(u) - i + 1) BY DEF Ends
  <2>2. Ends(v, t, i + k) \subseteq 1..(Len(t) - (i + k) + 1) BY DEF Ends
  <2>3. Len(u) - i + 1 = m - k - i + 1 /\ Len(t) - (i + k) + 1 = m - k - i + 1 BY <1>2
  <2>4. \A n \in 1..(m - k - i + 1) : n \in Ends(v, u, i) <=> n \in Ends(v, t, i + k)
    BY <1>1, EndsShift
  <2> HIDE DEF u
  <2> QED BY <2>1, <2>2, <2>3, <2>4
<1> HIDE DEF u
<1>5. SpecialLen(v, u, i) = SpecialLen(v, t, i + k) BY <1>2, <1>3, <1>4, SpecialLenIs
<1> QED BY <1>5 DEF u

(* And so is the next one.                                                 *)
LEMMA NextSpecialShift ==
  ASSUME NEW v, NEW t \in Seq(Char), NEW k \in 0..Len(t), NEW i \in 1..(Len(t) - k)
  PROVE  NextSpecial(v, t, i + k) = NextSpecial(v, SubSeq(t, k + 1, Len(t)), i) + k
<1> DEFINE u == SubSeq(t, k + 1, Len(t))
           m == Len(t)
           A == Nexts(v, u, i)
           B == Nexts(v, t, i + k)
<1>1. k \in Nat /\ m \in Nat /\ k <= m OBVIOUS
<1>2. u \in Seq(Char) /\ Len(u) = m - k
  <2>1. u \in Seq(Char) /\ Len(u) = m - (k + 1) + 1 BY SubSeqIs
  <2> HIDE DEF u
  <2> QED BY <1>1, <2>1
<1>3. i \in 1..Len(u) /\ i + k \in 1..Len(t) BY <1>2
<1>4. \A j \in 1..(m - k) : SpecialLen(v, u, j) = SpecialLen(v, t, j + k) BY SpecialLenShift
<1> HIDE DEF u
<1>5. /\ NextSpecial(v, u, i) = Min(A) /\ A \in SUBSET ((i + 1)..(Len(u) + 1))
      /\ Len(u) + 1 \in A
  BY <1>2, <1>3, NextSpecialIs
<1>6. NextSpecial(v, t, i + k) = Min(B) /\ B \in SUBSET ((i + k + 1)..(m + 1))
  BY <1>3, NextSpecialIs
<1>7. ASSUME NEW j \in A PROVE j + k \in B
  <2>1. j \in (i + 1)..(Len(u) + 1) /\ (j = Len(u) + 1 \/ SpecialLen(v, u, j) > 0) BY DEF Nexts
  <2>2. j + k \in (i + k + 1)..(m + 1) /\ (j = Len(u) + 1 => j + k = m + 1) BY <1>1, <1>2, <2>1
  <2>3. j # Len(u) + 1 => j \in 1..(m - k) BY <1>1, <1>2, <2>1
  <2>4. j + k = Len(t) + 1 \/ SpecialLen(v, t, j + k) > 0 BY <1>4, <2>1, <2>2, <2>3
  <2> QED BY <2>2, <2>4 DEF Nexts
<1>8. ASSUME NEW j \in B PROVE j - k \in A
  <2>1. j \in (i + k + 1)..(m + 1) /\ (j = m + 1 \/ SpecialLen(v, t, j) > 0) BY DEF Nexts
  <2>2. j - k \in (i + 1)..(Len(u) + 1) /\ (j = m + 1 => j - k = Len(u) + 1) BY <1>1, <1>2, <2>1
  <2>3. j # m + 1 => j - k \in 1..(m - k) /\ (j - k) + k = j BY <1>1, <2>1
  <2>4. j - k = Len(u) + 1 \/ SpecialLen(v, u, j - k) > 0 BY <1>4, <2>1, <2>2, <2>3
  <2> QED BY <2>2, <2>4 DEF Nexts
<1>9. A \in SUBSET Nat /\ B \in SUBSET Nat
  <2>1. \A j \in (i + 1)..(Len(u) + 1) : j \in Nat BY <1>2
  <2>2. \A j \in (i + k + 1)..(m + 1) : j \in Nat BY <1>1
  <2> HIDE DEF A, B, m
  <2> QED BY <1>5, <1>6, <2>1, <2>2
<1>10. Min(B) = Min(A) + k
  <2> HIDE DEF A, B
  <2> QED BY <1>1, <1>5, <1>7, <1>8, <1>9, MinShift
<1> HIDE DEF A, B
<1> QED BY <1>5, <1>6, <1>10 DEF u

(* The rest of a text is encoded as if it stood alone.                     *)
LEMMA SuffixBpe ==
  ASSUME NEW v \in Vocabulary, NEW t \in Seq(Char), NEW k \in 0..Len(t)
  PROVE  BpeFrom(v, t)[k + 1] = EncodeBpe(v, SubSeq(t, k + 1, Len(t)))
<1> DEFINE u == SubSeq(t, k + 1, Len(t))
           m == Len(t)
           p == BpePiece(v, t)
           q == BpePiece(v, u)
           nx == BpeNext(v, t)
           nu == BpeNext(v, u)
<1>1. k \in Nat /\ m \in Nat /\ k <= m /\ DOMAIN t = 1..m OBVIOUS
<1>2. u \in Seq(Char) /\ Len(u) = m - k
  <2>1. u \in Seq(Char) /\ Len(u) = m - (k + 1) + 1 BY SubSeqIs
  <2> HIDE DEF u
  <2> QED BY <1>1, <2>1
<1>3. DOMAIN u = 1..(m - k) /\ m - k \in Nat
  <2>1. DOMAIN u = 1..Len(u)
    <3> HIDE DEF u
    <3> QED BY <1>2
  <2> HIDE DEF u, m
  <2> QED BY <1>1, <1>2, <2>1
<1>4. BpeLoop(v, t) BY BpeLoopIs
<1>5. BpeLoop(v, u) /\ EncodeBpe(v, u) = BpeFrom(v, u)[1]
  <2> HIDE DEF u
  <2> QED BY <1>2, BpeLoopIs
<1>6. ASSUME NEW i \in 1..(m - k) PROVE p[i + k] = q[i] /\ nx[i + k] = nu[i] + k
  <2> DEFINE w == SpecialLen(v, t, i + k)
             e == NextSpecial(v, u, i)
  <2>1. w = SpecialLen(v, u, i) BY SpecialLenShift
  <2>2. NextSpecial(v, t, i + k) = e + k BY NextSpecialShift
  <2>3. i \in DOMAIN u /\ i + k \in DOMAIN t /\ i \in 1..Len(u) /\ i + k \in 1..m
    <3> HIDE DEF u, m
    <3> QED BY <1>1, <1>2, <1>3
  <2>4. /\ p[i + k] = IF w > 0 THEN <<Id(v, TextBytes(SubSeq(t, i + k, i + k + w - 1)))>>
                      ELSE EncodeChunk(v, SubSeq(t, i + k, (e + k) - 1))
        /\ nx[i + k] = IF w > 0 THEN i + k + w ELSE e + k
    <3> HIDE DEF e
    <3> QED BY <2>2, <2>3 DEF BpePiece, BpeNext
  <2>5. /\ q[i] = IF w > 0 THEN <<Id(v, TextBytes(SubSeq(u, i, i + w - 1)))>>
                  ELSE EncodeChunk(v, SubSeq(u, i, e - 1))
        /\ nu[i] = IF w > 0 THEN i + w ELSE e
    <3> HIDE DEF w
    <3>1. i \in DOMAIN u /\ SpecialLen(v, u, i) = w BY <2>1, <2>3
    <3> HIDE DEF u
    <3> QED BY <3>1 DEF BpePiece, BpeNext
  <2>6. w \in 0..(m - (i + k) + 1) BY <2>3, SpecialLenIs
  <2>7. e \in (i + 1)..((m - k) + 1)
    <3> HIDE DEF u
    <3>1. e \in (i + 1)..(Len(u) + 1) BY <1>2, <2>3, NextSpecialIs
    <3> QED BY <1>2, <3>1
  <2> HIDE DEF w, e
  <2>8. w > 0 => SubSeq(u, i, i + w - 1) = SubSeq(t, i + k, i + k + w - 1)
    <3> SUFFICES ASSUME w > 0 PROVE SubSeq(u, i, i + w - 1) = SubSeq(t, i + k, i + k + w - 1)
      OBVIOUS
    <3>1. w \in 1..(m - k - i + 1) BY <1>1, <2>6
    <3> QED BY <1>1, <3>1, EndsShift
  <2>9. SubSeq(u, i, e - 1) = SubSeq(t, i + k, (e + k) - 1)
    <3>1. /\ i \in Int /\ e - 1 \in Int /\ 1 <= i /\ i <= (e - 1) + 1 /\ e - 1 <= m - k
          /\ (e - 1) + k = (e + k) - 1
      BY <1>1, <2>7
    <3>2. m \in Nat /\ k \in Nat /\ k <= m /\ m <= Len(t) BY <1>1
    <3>3. SubSeq(SubSeq(t, k + 1, m), i, e - 1) = SubSeq(t, i + k, (e - 1) + k)
      BY <3>1, <3>2, SubSub
    <3> QED BY <3>1, <3>3
  <2>10. p[i + k] = q[i]
    <3> HIDE DEF p, q, u
    <3> DEFINE a == SubSeq(t, i + k, i + k + w - 1)
               b == SubSeq(t, i + k, (e + k) - 1)
    <3>1. p[i + k] = IF w > 0 THEN <<Id(v, TextBytes(a))>> ELSE EncodeChunk(v, b) BY <2>4
    <3>2. w > 0 => q[i] = <<Id(v, TextBytes(a))>>
      <4> SUFFICES ASSUME w > 0 PROVE q[i] = <<Id(v, TextBytes(a))>> OBVIOUS
      <4>1. SubSeq(u, i, i + w - 1) = a BY <2>8
      <4>2. q[i] = <<Id(v, TextBytes(SubSeq(u, i, i + w - 1)))>> BY <2>5
      <4> QED BY <4>1, <4>2
    <3>3. ~(w > 0) => q[i] = EncodeChunk(v, b)
      <4>1. SubSeq(u, i, e - 1) = b BY <2>9
      <4>2. ~(w > 0) => q[i] = EncodeChunk(v, SubSeq(u, i, e - 1)) BY <2>5
      <4> QED BY <4>1, <4>2
    <3> HIDE DEF a, b
    <3> QED BY <3>1, <3>2, <3>3
  <2>11. nx[i + k] = nu[i] + k
    <3>1. i + k + w = (i + w) + k BY <1>1, <2>6
    <3> HIDE DEF nx, nu, u
    <3> QED BY <2>4, <2>5, <3>1
  <2> QED BY <2>10, <2>11
<1>7. /\ p \in Seq(Seq(Int)) /\ Len(p) = m /\ Onwards(Len(p), nx)
      /\ q \in Seq(Seq(Int)) /\ Len(q) = m - k /\ Onwards(Len(q), nu)
  <2>1. p \in Seq(Seq(Int)) /\ Len(p) = m /\ Onwards(Len(p), nx) BY <1>4 DEF BpeLoop
  <2>2. q \in Seq(Seq(Int)) /\ Len(q) = m - k /\ Onwards(Len(q), nu)
    <3> HIDE DEF u
    <3> QED BY <1>2, <1>5 DEF BpeLoop
  <2> QED BY <2>1, <2>2
<1>8. \A i \in 1..(Len(q) + 1) : Onward(p, nx)[i + k] = Onward(q, nu)[i]
  <2> HIDE DEF p, q, nx, nu, m, u
  <2>1. Len(p) = Len(q) + k BY <1>1, <1>7
  <2>2. Shifted(p, nx, q, nu, k) BY <1>6, <1>7 DEF Shifted
  <2> DEFINE Z == Int
  <2>3. /\ p \in Seq(Seq(Z)) /\ Onwards(Len(p), nx)
        /\ q \in Seq(Seq(Z)) /\ Onwards(Len(q), nu) /\ k \in Nat
    BY <1>1, <1>7
  <2> HIDE DEF Z
  <2>4. k \in Nat BY <1>1
  <2>5. SameRest(p, nx, q, nu, k) BY <2>1, <2>2, <2>3, <2>4, OnwardShift
  <2> QED BY <2>5 DEF SameRest
<1>9. Onward(p, nx)[1 + k] = Onward(q, nu)[1]
  <2>1. 1 \in 1..(Len(q) + 1)
    <3> HIDE DEF p, q, m
    <3> QED BY <1>3, <1>7
  <2> HIDE DEF p, q, nx, nu
  <2> QED BY <1>8, <2>1
<1>10. 1 + k = k + 1 BY <1>1
<1> HIDE DEF u
<1> QED BY <1>5, <1>9, <1>10 DEF BpeFrom, u

(* Where the first special token of a text is.                             *)
Firsts(v, t) == {i \in 1..(Len(t) + 1) : i = Len(t) + 1 \/ SpecialLen(v, t, i) > 0}

(* At the first special token there is one, and before it none.            *)
LEMMA FirstIs ==
  ASSUME NEW v, NEW t \in Seq(Char), Min(Firsts(v, t)) <= Len(t)
  PROVE  /\ Min(Firsts(v, t)) \in 1..Len(t) /\ SpecialLen(v, t, Min(Firsts(v, t))) > 0
         /\ \A i \in 1..(Min(Firsts(v, t)) - 1) : ~(SpecialLen(v, t, i) > 0)
<1> DEFINE F == Firsts(v, t)
           x == Min(F)
           m == Len(t)
<1>1. m \in Nat /\ m + 1 \in 1..(m + 1) OBVIOUS
<1>2. F \in SUBSET (1..(m + 1)) /\ m + 1 \in F BY <1>1 DEF Firsts
<1>3. F \in SUBSET Nat
  <2>1. \A i \in 1..(m + 1) : i \in Nat OBVIOUS
  <2> HIDE DEF F, m
  <2> QED BY <1>2, <2>1
<1>4. x \in F /\ \A i \in F : x <= i
  <2> HIDE DEF F, m
  <2> QED BY <1>2, <1>3, MinIs
<1>5. x \in 1..(m + 1) /\ (x = m + 1 \/ SpecialLen(v, t, x) > 0) BY <1>4 DEF Firsts
<1>6. x <= m OBVIOUS
<1> HIDE DEF x
<1>7. x \in 1..m /\ SpecialLen(v, t, x) > 0 BY <1>1, <1>5, <1>6
<1>8. ASSUME NEW i \in 1..(x - 1), SpecialLen(v, t, i) > 0 PROVE FALSE
  <2>1. i \in 1..(m + 1) BY <1>1, <1>7
  <2>2. i \in F BY <1>8, <2>1 DEF Firsts
  <2>3. x <= i BY <1>4, <2>2
  <2> QED BY <1>7, <2>3
<1> QED BY <1>7, <1>8 DEF x

(* No special token, one part.                                             *)
LEMMA PlainBpe ==
  ASSUME NEW v \in Vocabulary, NEW u \in Seq(Char),
         \A i \in 1..Len(u) : ~(SpecialLen(v, u, i) > 0)
  PROVE  EncodeBpe(v, u) = (IF u = << >> THEN << >> ELSE EncodeChunk(v, u))
<1> DEFINE p == BpePiece(v, u)
           nx == BpeNext(v, u)
           W == BpeFrom(v, u)
           n == Len(u)
<1>1. n \in Nat /\ DOMAIN u = 1..n OBVIOUS
<1>2. BpeLoop(v, u) /\ EncodeBpe(v, u) = W[1] BY BpeLoopIs
<1>3. Len(p) = n /\ W[n + 1] = << >> /\ \A i \in 1..n : W[i] = p[i] \o W[nx[i]]
  <2>1. Len(p) = n /\ Unfolds(Int, p, nx) BY <1>2 DEF BpeLoop
  <2>2. W = Onward(p, nx) BY DEF BpeFrom
  <2> HIDE DEF p, nx, W
  <2> QED BY <2>1, <2>2 DEF Unfolds
<1>4. CASE u = << >>
  <2>1. n = 0 /\ n + 1 = 1 BY <1>4
  <2> HIDE DEF W, n
  <2> QED BY <1>2, <1>3, <1>4, <2>1
<1>5. CASE u # << >>
  <2>1. 1 \in 1..n BY <1>1, <1>5
  <2> DEFINE N == Nexts(v, u, 1)
  <2>2. NextSpecial(v, u, 1) = Min(N) /\ N \in SUBSET (2..(n + 1)) /\ n + 1 \in N
    <3>1. 1 + 1 = 2 OBVIOUS
    <3> HIDE DEF N
    <3> QED BY <2>1, <3>1, NextSpecialIs DEF N
  <2>3. \A j \in N : j = n + 1
    <3>1. TAKE j \in N
    <3>2. j \in 2..(n + 1) /\ (j = n + 1 \/ SpecialLen(v, u, j) > 0) BY <2>2 DEF Nexts
    <3>3. j # n + 1 => j \in 1..n BY <1>1, <3>2
    <3> QED BY <3>2, <3>3
  <2>4. Min(N) = n + 1
    <3>1. \A j \in 2..(n + 1) : j \in Nat BY <1>1
    <3> HIDE DEF N, n
    <3>2. N \in SUBSET Nat BY <2>2, <3>1
    <3>3. Min(N) \in N BY <2>2, <3>2, MinIs
    <3> QED BY <2>3, <3>3
  <2>5. ~(SpecialLen(v, u, 1) > 0) BY <2>1
  <2>6. nx[1] = n + 1 BY <1>1, <2>1, <2>2, <2>4, <2>5 DEF BpeNext
  <2>7. p[1] = EncodeChunk(v, u)
    <3>1. p[1] = EncodeChunk(v, SubSeq(u, 1, NextSpecial(v, u, 1) - 1))
      BY <1>1, <2>1, <2>5 DEF BpePiece
    <3>2. NextSpecial(v, u, 1) - 1 = n BY <1>1, <2>2, <2>4
    <3>3. SubSeq(u, 1, n) = u BY SubSeqFull
    <3> HIDE DEF p, n
    <3> QED BY <3>1, <3>2, <3>3
  <2>8. W[1] = EncodeChunk(v, u) \o << >>
    <3> HIDE DEF W, p, nx, n
    <3> QED BY <1>3, <2>1, <2>6, <2>7
  <2>9. EncodeChunk(v, u) \o << >> = EncodeChunk(v, u)
    <3>1. EncodeChunk(v, u) \in Seq(Int) BY EncodeChunkType
    <3> QED BY <3>1
  <2> HIDE DEF W
  <2> QED BY <1>2, <1>5, <2>8, <2>9
<1> QED BY <1>4, <1>5

Around(v, t, x, n) ==
  EncodeBpe(v, SubSeq(t, 1, x - 1)) \o <<Id(v, TextBytes(SubSeq(t, x, x + n - 1)))>>
    \o EncodeBpe(v, SubSeq(t, x + n, Len(t)))

(* A text encodes to what is before its first special token, the token,    *)
(* and what is behind it.                                                  *)
LEMMA WholeSpecial ==
  ASSUME NEW v \in Vocabulary, NEW t \in Seq(Char), NEW x, x = Min(Firsts(v, t)), x <= Len(t),
         NEW n, n = SpecialLen(v, t, x)
  PROVE  EncodeBpe(v, t) = Around(v, t, x, n)
<1> DEFINE p == BpePiece(v, t)
           nx == BpeNext(v, t)
           W == BpeFrom(v, t)
           m == Len(t)
           pre == SubSeq(t, 1, x - 1)
           suf == SubSeq(t, x + n, m)
           one == <<Id(v, TextBytes(SubSeq(t, x, x + n - 1)))>>
<1>1. x \in 1..m /\ n > 0 /\ \A i \in 1..(x - 1) : ~(SpecialLen(v, t, i) > 0) BY FirstIs
<1>2. m \in Nat /\ DOMAIN t = 1..m /\ n \in 1..(m - x + 1)
  <2>1. n \in 0..(Len(t) - x + 1) BY <1>1, SpecialLenIs
  <2> QED BY <1>1, <2>1
<1>3. BpeLoop(v, t) /\ EncodeBpe(v, t) = W[1] BY BpeLoopIs
<1>4. \A i \in 1..m : W[i] = p[i] \o W[nx[i]]
  <2>1. Len(p) = m /\ Unfolds(Int, p, nx) BY <1>3 DEF BpeLoop
  <2>2. W = Onward(p, nx) BY DEF BpeFrom
  <2> HIDE DEF p, nx, W
  <2> QED BY <2>1, <2>2 DEF Unfolds
<1>5. W[x] = one \o EncodeBpe(v, suf)
  <2>1. p[x] = one /\ nx[x] = x + n BY <1>1, <1>2 DEF BpePiece, BpeNext
  <2>2. W[x + n] = EncodeBpe(v, suf)
    <3>1. x + n - 1 \in 0..Len(t) /\ (x + n - 1) + 1 = x + n BY <1>1, <1>2
    <3>2. BpeFrom(v, t)[(x + n - 1) + 1] = EncodeBpe(v, SubSeq(t, (x + n - 1) + 1, Len(t)))
      BY <3>1, SuffixBpe
    <3> QED BY <3>1, <3>2
  <2> HIDE DEF p, nx, W, one, suf
  <2> QED BY <1>1, <1>4, <2>1, <2>2
<1>6. pre \in Seq(Char) /\ Len(pre) = x - 1
  <2>1. 1 \in Int /\ x - 1 \in Int /\ 1 <= 1 /\ x - 1 <= Len(t) /\ 1 <= (x - 1) + 1 BY <1>1, <1>2
  <2>2. pre \in Seq(Char) /\ Len(pre) = (x - 1) - 1 + 1 BY <2>1, SubSeqIs
  <2> HIDE DEF pre
  <2> QED BY <1>1, <2>2
<1>7. EncodeBpe(v, pre) = IF pre = << >> THEN << >> ELSE EncodeChunk(v, pre)
  <2>1. ASSUME NEW i \in 1..Len(pre), SpecialLen(v, pre, i) > 0 PROVE FALSE
    <3>1. i \in 1..(x - 1) BY <1>6
    <3>2. i \in 1..Len(pre) OBVIOUS
    <3>3. Ends(v, pre, i) # {}
      <4> HIDE DEF pre
      <4> QED BY <1>6, <2>1, SpecialLenIs
    <3>4. PICK k \in Ends(v, pre, i) : TRUE BY <3>3
    <3>5. k \in 1..(x - 1 - i + 1)
      <4>1. k \in 1..(Len(pre) - i + 1) BY DEF Ends
      <4> HIDE DEF pre
      <4> QED BY <1>6, <4>1
    <3>6. k \in Ends(v, t, i)
      <4>1. /\ 0 \in Nat /\ x - 1 \in Nat /\ 0 <= x - 1 /\ x - 1 <= Len(t)
            /\ i \in 1..((x - 1) - 0) /\ k \in 1..((x - 1) - 0 - i + 1) /\ 0 + 1 = 1 /\ i + 0 = i
        <5>1. x \in Nat /\ x >= 1 /\ x <= m /\ m \in Nat /\ i \in Nat /\ i >= 1 /\ i <= x - 1
          BY <1>1, <1>2, <3>1
        <5>2. k \in Nat /\ k >= 1 /\ k <= x - 1 - i + 1 BY <3>5, <5>1
        <5>3. m = Len(t) OBVIOUS
        <5> HIDE DEF pre, m
        <5> QED BY <5>1, <5>2, <5>3
      <4>2. k \in Ends(v, SubSeq(t, 0 + 1, x - 1), i) <=> k \in Ends(v, t, i + 0)
        BY <4>1, EndsShift
      <4> QED BY <3>4, <4>1, <4>2
    <3>7. i \in 1..Len(t) BY <1>1, <1>2, <3>1
    <3>8. SpecialLen(v, t, i) > 0 BY <3>6, <3>7, SpecialLenIs
    <3> QED BY <1>1, <3>1, <3>8
  <2> HIDE DEF pre
  <2> QED BY <1>6, <2>1, PlainBpe
<1>8. W[1] = EncodeBpe(v, pre) \o W[x]
  <2>1. W[x] \in Seq(Int)
    <3>1. Len(p) = m /\ Unfolds(Int, p, nx) BY <1>3 DEF BpeLoop
    <3>2. W = Onward(p, nx) BY DEF BpeFrom
    <3>3. x \in 1..(m + 1) BY <1>1, <1>2
    <3> HIDE DEF p, nx, W, m
    <3> QED BY <3>1, <3>2, <3>3 DEF Unfolds
  <2>2. CASE x = 1
    <3>1. pre = << >> BY <1>6, <2>2
    <3>2. EncodeBpe(v, pre) = << >> BY <1>7, <3>1
    <3>3. << >> \o W[x] = W[x]
      <4> HIDE DEF W
      <4> QED BY <2>1
    <3> HIDE DEF W
    <3> QED BY <2>2, <3>2, <3>3
  <2>3. CASE x # 1
    <3>1. 1 \in 1..m /\ 1 \in 1..(x - 1) BY <1>1, <1>2, <2>3
    <3>2. ~(SpecialLen(v, t, 1) > 0) BY <1>1, <3>1
    <3>3. pre # << >> BY <1>6, <3>1
    <3>4. NextSpecial(v, t, 1) = x
      <4> DEFINE N == Nexts(v, t, 1)
                 F == Firsts(v, t)
      <4>1. NextSpecial(v, t, 1) = Min(N) /\ N \in SUBSET (2..(m + 1)) /\ m + 1 \in N
        <5>1. 1 + 1 = 2 OBVIOUS
        <5> HIDE DEF N
        <5> QED BY <3>1, <5>1, NextSpecialIs DEF N
      <4>2. x \in N
        <5>1. x \in 2..(m + 1) BY <1>1, <1>2, <2>3
        <5>2. SpecialLen(v, t, x) > 0 BY <1>1
        <5> QED BY <5>1, <5>2 DEF Nexts
      <4>3. \A j \in N : x <= j
        <5>1. TAKE j \in N
        <5>2. j \in 2..(m + 1) /\ (j = m + 1 \/ SpecialLen(v, t, j) > 0) BY <4>1 DEF Nexts
        <5>3. j \in 1..(x - 1) => j # m + 1 BY <1>1, <1>2
        <5>4. ~(j \in 1..(x - 1)) BY <1>1, <5>2, <5>3
        <5> QED BY <1>1, <1>2, <5>2, <5>4
      <4>4. N \in SUBSET Nat
        <5>1. \A j \in 2..(m + 1) : j \in Nat BY <1>2
        <5> HIDE DEF N, m
        <5> QED BY <4>1, <5>1
      <4> DEFINE y == Min(N)
      <4>5. y \in N /\ \A j \in N : y <= j
        <5> HIDE DEF N
        <5> QED BY <4>2, <4>4, MinIs
      <4> HIDE DEF y
      <4>6. y <= x /\ x <= y /\ y \in Nat BY <4>2, <4>3, <4>4, <4>5
      <4>7. y = x BY <1>1, <4>6
      <4> QED BY <4>1, <4>7 DEF y
    <3>5. p[1] = EncodeChunk(v, pre) /\ nx[1] = x
      BY <1>2, <3>1, <3>2, <3>4 DEF BpePiece, BpeNext
    <3>6. W[1] = p[1] \o W[nx[1]]
      <4> HIDE DEF W, p, nx
      <4> QED BY <1>4, <3>1
    <3> HIDE DEF W, p, nx, pre
    <3> QED BY <1>7, <3>3, <3>5, <3>6
  <2> QED BY <2>2, <2>3
<1>9. EncodeBpe(v, pre) \in Seq(Int)
  <2> HIDE DEF pre
  <2> QED BY <1>6, <1>7, EncodeChunkType
<1>10. EncodeBpe(v, suf) \in Seq(Int)
  <2>1. suf \in Seq(Char)
    <3>1. x + n \in Int /\ m \in Int /\ 1 <= x + n /\ m <= Len(t) /\ x + n <= m + 1 BY <1>1, <1>2
    <3> QED BY <3>1, SubSeqIs
  <2> HIDE DEF suf
  <2>2. BpeLoop(v, suf) /\ EncodeBpe(v, suf) = BpeFrom(v, suf)[1] BY <2>1, BpeLoopIs
  <2>3. /\ BpeFrom(v, suf) \in [1..(Len(suf) + 1) -> Seq(Int)] /\ 1 \in 1..(Len(suf) + 1)
    BY <2>1, <2>2 DEF BpeLoop, Unfolds, BpeFrom
  <2> QED BY <2>2, <2>3
<1>11. one \in Seq(Int)
  <2> DEFINE d == Id(v, TextBytes(SubSeq(t, x, x + n - 1)))
  <2>1. d \in Int BY IdIs
  <2> HIDE DEF d
  <2>2. <<d>> \in Seq(Int) BY <2>1
  <2> QED BY <2>2 DEF d
<1> DEFINE a == EncodeBpe(v, pre)
           c == EncodeBpe(v, suf)
<1>12. (a \o one) \o c = a \o (one \o c)
  <2> DEFINE Z == Int
  <2>1. a \in Seq(Z) /\ one \in Seq(Z) /\ c \in Seq(Z) BY <1>9, <1>10, <1>11
  <2> HIDE DEF a, one, c, Z
  <2>2. Cat(Cat(a, one), c) = Cat(a, Cat(one, c)) BY <2>1, CatInAnyOrder
  <2> QED BY <2>2 DEF Cat
<1>13. W[1] = a \o (one \o c)
  <2> HIDE DEF W, one, pre, suf
  <2> QED BY <1>5, <1>8
<1> HIDE DEF W, one, a, c
<1>14. EncodeBpe(v, t) = (a \o one) \o c BY <1>3, <1>12, <1>13
<1> QED BY <1>14 DEF Around, a, one, c

(* A special token in a prompt is one id, and the text around it is        *)
(* encoded as if it stood alone.                                           *)
THEOREM AlwaysSpecialsWhole == TextSpec => []SpecialsWhole
<1>1. TextInv => SpecialsWhole
  <2> DEFINE t == Normalise(prompt)
             x == Min({i \in 1..(Len(t) + 1) : i = Len(t) + 1 \/ SpecialLen(vocab, t, i) > 0})
             n == SpecialLen(vocab, t, x)
  <2> SUFFICES ASSUME TextInv, source = "encoded", UsesBpe(vocab), x <= Len(t)
               PROVE  ids = EncodeBpe(vocab, SubSeq(t, 1, x - 1))
                              \o <<Id(vocab, TextBytes(SubSeq(t, x, x + n - 1)))>>
                              \o EncodeBpe(vocab, SubSeq(t, x + n, Len(t)))
    BY DEF SpecialsWhole
  <2>1. vocab \in Vocabulary /\ t \in Seq(Char) BY NormaliseType DEF TextInv
  <2>2. ids = EncodeBpe(vocab, t) BY DEF TextInv, Encoded
  <2>3. x = Min(Firsts(vocab, t)) BY DEF Firsts
  <2>4. n = SpecialLen(vocab, t, x) OBVIOUS
  <2>5. x <= Len(t) OBVIOUS
  <2> HIDE DEF t, x, n
  <2>6. EncodeBpe(vocab, t) = Around(vocab, t, x, n) BY <2>1, <2>3, <2>4, <2>5, WholeSpecial
  <2> QED BY <2>2, <2>6 DEF Around
<1> QED BY <1>1, AlwaysTextInv, PTL

-----------------------------------------------------------------------------
(* Byte-level symbols: no two bytes have the same one.                     *)
Skipped(b) == (0..(b - 1)) \ Printable

(* Behind a byte that is not printable more are skipped.                   *)
LEMMA SkippedGrows ==
  ASSUME NEW a \in 0..255, NEW b \in 0..255, a < b, a \notin Printable
  PROVE  Cardinality(Skipped(a)) < Cardinality(Skipped(b))
<1> DEFINE A == Skipped(a)
           B == Skipped(b)
           C == A \cup {a}
<1>1. IsFiniteSet(0..(b - 1)) BY FS_Interval
<1>2. B \subseteq 0..(b - 1) BY DEF Skipped
<1>3. IsFiniteSet(B)
  <2> HIDE DEF B
  <2> QED BY <1>1, <1>2, FS_Subset
<1>4. C \subseteq B
  <2>1. \A x \in 0..(a - 1) : x \in 0..(b - 1) BY SMT
  <2>2. a \in 0..(b - 1) BY SMT
  <2> HIDE DEF Printable
  <2> QED BY <2>1, <2>2 DEF Skipped
<1>5. a \notin A
  <2>1. a \notin 0..(a - 1) OBVIOUS
  <2> QED BY <2>1 DEF Skipped
<1> HIDE DEF A, B
<1>6. IsFiniteSet(C) /\ Cardinality(C) <= Cardinality(B) BY <1>3, <1>4, FS_Subset
<1>7. IsFiniteSet(A) BY <1>6, FS_Subset
<1>8. Cardinality(C) = Cardinality(A) + 1 BY <1>5, <1>7, FS_AddElement
<1>9. Cardinality(A) \in Nat /\ Cardinality(B) \in Nat BY <1>3, <1>7, FS_CardinalityType
<1> HIDE DEF C
<1> QED BY <1>6, <1>8, <1>9 DEF A, B

(* No two bytes have the same code point, ...                              *)
LEMMA CodePointOnce ==
  ASSUME NEW a \in 0..255, NEW b \in 0..255, CodePoint[a] = CodePoint[b]
  PROVE  a = b
<1> DEFINE x == Cardinality(Skipped(a))
           y == Cardinality(Skipped(b))
<1>1. /\ a \in Printable => CodePoint[a] = a
      /\ a \notin Printable => CodePoint[a] = 256 + x
      /\ x \in Nat
  <2>1. /\ a \in Printable => CodePoint[a] = a
        /\ a \notin Printable => CodePoint[a] = 256 + Cardinality((0..(a - 1)) \ Printable)
        /\ Cardinality((0..(a - 1)) \ Printable) \in 0..a
    BY CodePointIs
  <2>2. x = Cardinality((0..(a - 1)) \ Printable) BY DEF Skipped
  <2> HIDE DEF x
  <2>3. x \in 0..a BY <2>1, <2>2
  <2>4. x \in Nat BY <2>3
  <2> QED BY <2>1, <2>2, <2>4
<1>2. /\ b \in Printable => CodePoint[b] = b
      /\ b \notin Printable => CodePoint[b] = 256 + y
      /\ y \in Nat
  <2>1. /\ b \in Printable => CodePoint[b] = b
        /\ b \notin Printable => CodePoint[b] = 256 + Cardinality((0..(b - 1)) \ Printable)
        /\ Cardinality((0..(b - 1)) \ Printable) \in 0..b
    BY CodePointIs
  <2>2. y = Cardinality((0..(b - 1)) \ Printable) BY DEF Skipped
  <2> HIDE DEF y
  <2>3. y \in 0..b BY <2>1, <2>2
  <2>4. y \in Nat BY <2>3
  <2> QED BY <2>1, <2>2, <2>4
<1>3. a < b /\ a \notin Printable => x < y BY SkippedGrows
<1>4. b < a /\ b \notin Printable => y < x BY SkippedGrows
<1>5. a \in Int /\ b \in Int /\ a <= 255 /\ b <= 255 OBVIOUS
<1> HIDE DEF x, y
<1>6. CASE a \in Printable /\ b \in Printable BY <1>1, <1>2, <1>6
<1>7. CASE a \in Printable /\ b \notin Printable BY <1>1, <1>2, <1>5, <1>7
<1>8. CASE a \notin Printable /\ b \in Printable BY <1>1, <1>2, <1>5, <1>8
<1>9. CASE a \notin Printable /\ b \notin Printable
  <2>1. 256 + x = 256 + y BY <1>1, <1>2, <1>9
  <2>2. ~(a < b) /\ ~(b < a) BY <1>1, <1>2, <1>3, <1>4, <1>9, <2>1
  <2> QED BY <1>5, <2>2
<1> QED BY <1>6, <1>7, <1>8, <1>9

(* ... and none the same symbol.                                           *)
LEMMA SymbolOnce ==
  ASSUME NEW a \in 0..255, NEW b \in 0..255, Symbol[a] = Symbol[b]
  PROVE  a = b
<1> DEFINE x == CodePoint[a]
           y == CodePoint[b]
<1>1. x \in 0..511 /\ Symbol[a] = Utf8(x) /\ y \in 0..511 /\ Symbol[b] = Utf8(y)
  <2>1. x \in 0..511 /\ Symbol[a] = Utf8(x) BY SymbolIs
  <2>2. y \in 0..511 /\ Symbol[b] = Utf8(y) BY SymbolIs
  <2> QED BY <2>1, <2>2
<1> HIDE DEF x, y
<1>2. x = y
  <2>1. Utf8(x) = Utf8(y) BY <1>1
  <2>2. CASE x < 128 /\ y < 128
    <3>1. Utf8(x) = <<x>> /\ Utf8(y) = <<y>> BY <2>2 DEF Utf8
    <3>2. <<x>>[1] = x /\ <<y>>[1] = y OBVIOUS
    <3> QED BY <2>1, <3>1, <3>2
  <2>3. CASE x >= 128 /\ y >= 128
    <3>1. /\ Utf8(x) = <<192 + (x \div 64), 128 + (x % 64)>>
          /\ Utf8(y) = <<192 + (y \div 64), 128 + (y % 64)>>
      BY <1>1, <2>3 DEF Utf8
    <3> DEFINE e == x \div 64
               f == x % 64
               g == y \div 64
               h == y % 64
    <3> HIDE DEF e, f, g, h
    <3>2. <<192 + e, 128 + f>> = <<192 + g, 128 + h>> BY <2>1, <3>1 DEF e, f, g, h
    <3>3. 192 + e = 192 + g /\ 128 + f = 128 + h BY <3>2
    <3>4. x = 64 * e + f /\ y = 64 * g + h /\ e \in Int /\ f \in Int /\ g \in Int /\ h \in Int
      BY <1>1 DEF e, f, g, h
    <3>5. e = g /\ f = h BY <3>3, <3>4
    <3> QED BY <3>4, <3>5
  <2>4. CASE x < 128 /\ y >= 128
    <3>1. Utf8(x) = <<x>> /\ Utf8(y) = <<192 + (y \div 64), 128 + (y % 64)>>
      BY <1>1, <2>4 DEF Utf8
    <3> DEFINE e == 192 + (y \div 64)
               f == 128 + (y % 64)
    <3> HIDE DEF e, f
    <3>2. <<x>> = <<e, f>> BY <2>1, <3>1 DEF e, f
    <3>3. Len(<<x>>) = 1 /\ Len(<<e, f>>) = 2 OBVIOUS
    <3> QED BY <3>2, <3>3
  <2>5. CASE x >= 128 /\ y < 128
    <3>1. Utf8(y) = <<y>> /\ Utf8(x) = <<192 + (x \div 64), 128 + (x % 64)>>
      BY <1>1, <2>5 DEF Utf8
    <3> DEFINE e == 192 + (x \div 64)
               f == 128 + (x % 64)
    <3> HIDE DEF e, f
    <3>2. <<y>> = <<e, f>> BY <2>1, <3>1 DEF e, f
    <3>3. Len(<<y>>) = 1 /\ Len(<<e, f>>) = 2 OBVIOUS
    <3> QED BY <3>2, <3>3
  <2> QED BY <1>1, <2>2, <2>3, <2>4, <2>5
<1> QED BY <1>2, CodePointOnce DEF x, y

(* The byte of the symbol of a byte is that byte.                          *)
LEMMA SymbolBack ==
  ASSUME NEW b \in 0..255
  PROVE  Symbol[b] \in DOMAIN SymbolByte /\ SymbolByte[Symbol[b]] = b
<1> DEFINE D == {Symbol[c] : c \in 0..255}
<1>1. Symbol[b] \in D OBVIOUS
<1>2. SymbolByte = [s \in D |-> CHOOSE c \in 0..255 : Symbol[c] = s] BY DEF SymbolByte
<1> DEFINE f == CHOOSE c \in 0..255 : Symbol[c] = Symbol[b]
<1>3. f \in 0..255 /\ Symbol[f] = Symbol[b] OBVIOUS
<1> HIDE DEF D
<1>4. DOMAIN SymbolByte = D /\ SymbolByte[Symbol[b]] = f BY <1>1, <1>2
<1> HIDE DEF f
<1>5. f = b BY <1>3, SymbolOnce
<1> QED BY <1>1, <1>4, <1>5

(* What is a symbol, by its length.                                        *)
Spells(x, y) == <<x, y>> \in DOMAIN SymbolByte

(* A symbol of two bytes leads and trails, one of one byte is that byte.   *)
LEMMA SymbolsAre ==
  /\ \A x, y : Spells(x, y) => x \in Leading /\ y \in Trailing /\ SymbolByte[<<x, y>>] \in 0..255
  /\ \A x : <<x>> \in DOMAIN SymbolByte => SymbolByte[<<x>>] = x
  /\ \A s \in DOMAIN SymbolByte : s \in String /\ Len(s) \in {1, 2} /\ SymbolByte[s] \in 0..255
<1>1. \A s \in DOMAIN SymbolByte : \E b \in 0..255 : s = Symbol[b] BY DEF SymbolByte
<1>2. ASSUME NEW x, NEW y, Spells(x, y)
      PROVE  x \in Leading /\ y \in Trailing /\ SymbolByte[<<x, y>>] \in 0..255
  <2>1. PICK b \in 0..255 : <<x, y>> = Symbol[b] BY <1>1, <1>2 DEF Spells
  <2>2. SymbolByte[<<x, y>>] = b BY <2>1, SymbolBack
  <2>3. b \notin OneByte
    <3> SUFFICES ASSUME b \in OneByte PROVE FALSE OBVIOUS
    <3>1. <<x, y>> = <<b>> BY <2>1, SymbolIs
    <3> QED BY <3>1
  <2>4. PICK p \in Leading, q \in Trailing : <<x, y>> = <<p, q>> BY <2>1, <2>3, SymbolIs
  <2> QED BY <2>2, <2>4
<1>3. ASSUME NEW x, <<x>> \in DOMAIN SymbolByte PROVE SymbolByte[<<x>>] = x
  <2>1. PICK b \in 0..255 : <<x>> = Symbol[b] BY <1>1, <1>3
  <2>2. SymbolByte[<<x>>] = b BY <2>1, SymbolBack
  <2>3. b \in OneByte
    <3> SUFFICES ASSUME b \notin OneByte PROVE FALSE OBVIOUS
    <3>1. \E p \in Leading, q \in Trailing : Symbol[b] = <<p, q>> BY SymbolIs
    <3>2. PICK p \in Leading, q \in Trailing : Symbol[b] = <<p, q>> BY <3>1
    <3>3. <<x>> = <<p, q>> BY <2>1, <3>2
    <3> QED BY <3>3
  <2>4. <<x>> = <<b>> BY <2>1, <2>3, SymbolIs
  <2> QED BY <2>2, <2>4
<1>4. ASSUME NEW s \in DOMAIN SymbolByte
      PROVE  s \in String /\ Len(s) \in {1, 2} /\ SymbolByte[s] \in 0..255
  <2>1. PICK b \in 0..255 : s = Symbol[b] BY <1>1
  <2>2. SymbolByte[s] = b /\ s \in String BY <2>1, SymbolBack, SymbolType
  <2>3. Len(s) \in {1, 2}
    <3>1. CASE b \in OneByte
      <4>1. s = <<b>> BY <2>1, <3>1, SymbolIs
      <4> QED BY <4>1
    <3>2. CASE b \notin OneByte
      <4>1. PICK p \in Leading, q \in Trailing : s = <<p, q>> BY <2>1, <3>2, SymbolIs
      <4> QED BY <4>1
    <3> QED BY <3>1, <3>2
  <2> QED BY <2>2, <2>3
<1> QED BY <1>2, <1>3, <1>4

(* The symbols of a space and of a newline.                                *)
LEMMA BlankSymbols == Symbol[32] = <<196, 160>> /\ Symbol[10] = <<196, 138>>
<1>1. ASSUME NEW b \in 0..32 PROVE CodePoint[b] = 256 + b
  <2>1. b \in 0..255 BY SMT
  <2>2. b \notin Printable BY DEF Printable
  <2>3. Skipped(b) = 0..(b - 1)
    <3>1. \A x \in 0..(b - 1) : x \notin Printable BY DEF Printable
    <3> QED BY <3>1 DEF Skipped
  <2>4. Cardinality(0..(b - 1)) = IF 0 > b - 1 THEN 0 ELSE (b - 1) - 0 + 1 BY FS_Interval
  <2>5. Cardinality(0..(b - 1)) = b BY <2>4
  <2>6. CodePoint[b] = 256 + Cardinality(Skipped(b)) BY <2>1, <2>2, CodePointIs DEF Skipped
  <2> QED BY <2>3, <2>5, <2>6
<1>2. CodePoint[32] = 288 /\ CodePoint[10] = 266 BY <1>1
<1>3. 32 \in 0..255 /\ 10 \in 0..255 BY SMT
<1>4. Symbol[32] = Utf8(288) /\ Symbol[10] = Utf8(266)
  <2>1. \A b \in 0..255 : Symbol[b] = Utf8(CodePoint[b]) BY SymbolIs
  <2>2. Symbol[32] = Utf8(CodePoint[32]) BY <1>3, <2>1
  <2>3. Symbol[10] = Utf8(CodePoint[10]) BY <1>3, <2>1
  <2> QED BY <1>2, <2>2, <2>3
<1>5. 288 \div 64 = 4 /\ 288 % 64 = 32 /\ 266 \div 64 = 4 /\ 266 % 64 = 10 BY SMT
<1>6. Utf8(288) = <<192 + (288 \div 64), 128 + (288 % 64)>> /\ Utf8(266) = <<192 + (266 \div 64), 128 + (266 % 64)>>
  BY DEF Utf8
<1> QED BY <1>4, <1>5, <1>6

-----------------------------------------------------------------------------
(* What a function makes of each element of a list, joined.                *)
Mapped(f, l) == [j \in DOMAIN l |-> f[l[j]]]
Gather(f, l) == Concat(Mapped(f, l))

Maps(f, S, T) == f \in [S -> Seq(T)]
IsMapped(f, a, T) ==
  /\ Mapped(f, a) \in Seq(Seq(T)) /\ Len(Mapped(f, a)) = Len(a)
  /\ \A j \in 1..Len(a) : Mapped(f, a)[j] = f[a[j]]
  /\ Gather(f, a) \in Seq(T)

(* A function applied to each element of a list gives a list.              *)
LEMMA GatherType ==
  ASSUME NEW S, NEW T, NEW f, Maps(f, S, T), NEW a \in Seq(S)
  PROVE  IsMapped(f, a, T)
<1> DEFINE g == Mapped(f, a)
           n == Len(a)
<1>1. n \in Nat /\ DOMAIN a = 1..n /\ \A j \in 1..n : a[j] \in S OBVIOUS
<1>2. \A j \in 1..n : g[j] \in Seq(T) /\ g[j] = f[a[j]] BY <1>1 DEF Mapped, Maps
<1>3. g = [j \in 1..n |-> g[j]] BY <1>1 DEF Mapped
<1>4. Gather(f, a) = Concat(g) BY DEF Gather
<1>5. n \in Nat BY <1>1
<1> HIDE DEF g, n
<1>6. g \in Seq(Seq(T)) /\ Len(g) = n /\ Concat(g) \in Seq(T) BY <1>2, <1>3, <1>5, ConcatOf
<1> QED BY <1>2, <1>4, <1>6 DEF g, n, IsMapped

(* Of nothing, nothing is gathered; ...                                    *)
LEMMA GatherNone == \A f : Gather(f, << >>) = << >>
<1> TAKE f
<1>1. Mapped(f, << >>) = << >> BY DEF Mapped
<1> QED BY <1>1, ConcatNone DEF Gather

(* ... of one element, what the function makes of it; ...                  *)
LEMMA GatherOne ==
  ASSUME NEW S, NEW T, NEW f, Maps(f, S, T), NEW x \in S
  PROVE  Gather(f, <<x>>) = f[x]
<1>1. Mapped(f, <<x>>) = <<f[x]>> BY DEF Mapped
<1>2. f[x] \in Seq(T) BY DEF Maps
<1> QED BY <1>1, <1>2, ConcatOne DEF Gather

(* The elements of two lists joined.                                       *)
LEMMA CatElements ==
  ASSUME NEW S, NEW a \in Seq(S), NEW b \in Seq(S)
  PROVE  /\ \A j \in 1..Len(a) : (a \o b)[j] = a[j]
         /\ \A j \in 1..Len(b) : (a \o b)[Len(a) + j] = b[j]
OBVIOUS

(* ... of two lists joined, what is gathered of each.                      *)
LEMMA GatherCat ==
  ASSUME NEW S, NEW T, NEW f, Maps(f, S, T), NEW a \in Seq(S), NEW b \in Seq(S)
  PROVE  Gather(f, a \o b) = Gather(f, a) \o Gather(f, b)
<1> DEFINE g == Mapped(f, a)
           h == Mapped(f, b)
           c == a \o b
           k == Mapped(f, c)
           m == Len(a)
           n == Len(b)
<1>1. g \in Seq(Seq(T)) /\ Len(g) = m /\ h \in Seq(Seq(T)) /\ Len(h) = n
  <2>1. IsMapped(f, a, T) /\ IsMapped(f, b, T) BY GatherType
  <2> QED BY <2>1 DEF IsMapped
<1>2. c \in Seq(S) /\ Len(c) = m + n BY ConcatProperties
<1>3. /\ \A j \in 1..m : c[j] = a[j]
      /\ \A j \in 1..n : c[m + j] = b[j]
  BY CatElements
<1>4. /\ \A j \in 1..m : g[j] = f[a[j]]
      /\ \A j \in 1..n : h[j] = f[b[j]]
  <2>1. IsMapped(f, a, T) /\ IsMapped(f, b, T) BY GatherType
  <2> QED BY <2>1 DEF IsMapped
<1> HIDE DEF c
<1>a. IsMapped(f, c, T) BY <1>2, GatherType
<1>5. k \in Seq(Seq(T)) /\ Len(k) = m + n BY <1>2, <1>a DEF IsMapped
<1>6. m \in Nat /\ n \in Nat /\ DOMAIN c = 1..(m + n) BY <1>2
<1>7. \A j \in 1..(m + n) : k[j] = f[c[j]] BY <1>2, <1>a DEF IsMapped
<1> HIDE DEF g, h, k, m, n
<1>8. k = g \o h
  <2> DEFINE e == g \o h
  <2>1. e \in Seq(Seq(T)) /\ Len(e) = m + n BY <1>1, ConcatProperties
  <2>2. /\ \A j \in 1..m : e[j] = g[j]
        /\ \A j \in 1..n : e[m + j] = h[j]
    <3>1. /\ \A j \in 1..Len(g) : e[j] = g[j]
          /\ \A j \in 1..Len(h) : e[Len(g) + j] = h[j]
      <4> DEFINE U == Seq(T)
      <4>1. g \in Seq(U) /\ h \in Seq(U) BY <1>1
      <4> HIDE DEF U
      <4> QED BY <4>1, CatElements
    <3> HIDE DEF e
    <3> QED BY <1>1, <3>1
  <2> HIDE DEF e
  <2>3. \A j \in 1..(m + n) : k[j] = e[j]
    <3>1. TAKE j \in 1..(m + n)
    <3>2. CASE j <= m
      <4>1. j \in 1..m BY <1>6, <3>2
      <4> QED BY <1>3, <1>4, <1>7, <2>2, <4>1
    <3>3. CASE j > m
      <4>1. j - m \in 1..n /\ m + (j - m) = j BY <1>6, <3>3
      <4>2. c[j] = b[j - m] /\ e[j] = h[j - m] BY <1>3, <2>2, <4>1
      <4> QED BY <1>4, <1>7, <4>1, <4>2
    <3> QED BY <1>6, <3>2, <3>3
  <2>4. k = e BY <1>5, <2>1, <2>3, SeqEqual
  <2> QED BY <2>4 DEF e
<1>9. Concat(k) = Concat(g) \o Concat(h) BY <1>1, <1>8, ConcatCat
<1> QED BY <1>9 DEF Gather, g, h, k, c

-----------------------------------------------------------------------------
(* Byte-level decoding, symbol by symbol.                                  *)
Dec(sym) == IF sym \in DOMAIN SymbolByte THEN <<SymbolByte[sym]>> ELSE sym
DecOf == [sym \in String |-> Dec(sym)]
DecPiece(s) == [i \in DOMAIN s |-> Dec(SubSeq(s, i, i + SymbolLen(s, i) - 1))]
DecFrom(s) == Onward(DecPiece(s), CutNext(s))

(* Decoding a piece gives bytes.                                           *)
LEMMA DecType == DecOf \in [String -> Seq(Nat)] /\ Maps(DecOf, String, Nat)
<1>1. ASSUME NEW s \in String PROVE Dec(s) \in Seq(Nat)
  <2>1. CASE s \in DOMAIN SymbolByte
    <3>1. SymbolByte[s] \in 0..255 BY <2>1, SymbolsAre
    <3>2. SymbolByte[s] \in Nat BY <3>1
    <3>3. Dec(s) = <<SymbolByte[s]>> BY <2>1 DEF Dec
    <3> QED BY <3>2, <3>3
  <2>2. CASE s \notin DOMAIN SymbolByte BY <2>2 DEF Dec, String
  <2> QED BY <2>1, <2>2
<1> QED BY <1>1 DEF DecOf, Maps

DecUnfolds(s) ==
  /\ DecFrom(s) \in [1..(Len(s) + 1) -> Seq(Nat)]
  /\ DecFrom(s)[Len(s) + 1] = << >>
  /\ \A i \in 1..Len(s) : DecFrom(s)[i] = DecPiece(s)[i] \o DecFrom(s)[i + SymbolLen(s, i)]
  /\ DecPiece(s) \in Seq(Seq(Nat)) /\ Len(DecPiece(s)) = Len(s)
  /\ Onwards(Len(DecPiece(s)), CutNext(s))

(* Decoding from position i on, in terms of decoding further on.           *)
LEMMA DecLoop == ASSUME NEW s \in String PROVE DecUnfolds(s)
<1> DEFINE n == Len(s)
           p == DecPiece(s)
           nx == CutNext(s)
           W == DecFrom(s)
<1>1. n \in Nat /\ DOMAIN s = 1..n /\ s \in Seq(Nat) BY DEF String
<1>2. \A i \in 1..n : p[i] \in Seq(Nat)
  <2>1. TAKE i \in 1..n
  <2> DEFINE e == i + SymbolLen(s, i) - 1
             c == SubSeq(s, i, e)
  <2>2. e \in Int /\ e <= Len(s) /\ i <= e + 1 /\ i \in Int /\ 1 <= i
    <3>1. SymbolLen(s, i) \in 1..2 /\ i + SymbolLen(s, i) \in (i + 1)..(Len(s) + 1) BY SymbolLenIs
    <3> DEFINE w == SymbolLen(s, i)
    <3> HIDE DEF w
    <3> QED BY <1>1, <3>1 DEF w
  <2>3. p[i] = Dec(c) BY <1>1 DEF DecPiece
  <2> HIDE DEF e
  <2>4. c \in String BY <1>1, <2>2, SubSeqIs DEF String
  <2> HIDE DEF c
  <2>5. Dec(c) = DecOf[c] BY <2>4 DEF DecOf
  <2>6. DecOf[c] \in Seq(Nat) BY <2>4, DecType
  <2> QED BY <2>3, <2>5, <2>6
<1>3. p = [i \in 1..n |-> p[i]] BY <1>1 DEF DecPiece
<1>4. \A i \in 1..n : nx[i] = i + SymbolLen(s, i) /\ nx[i] \in (i + 1)..(n + 1)
  BY <1>1, SymbolLenIs DEF CutNext
<1>5. n \in Nat /\ W = Onward(p, nx) BY <1>1 DEF DecFrom
<1> HIDE DEF p, nx, n, W
<1>6. /\ p \in Seq(Seq(Nat)) /\ Len(p) = n /\ Onwards(Len(p), nx) /\ Unfolds(Nat, p, nx)
  <2> DEFINE Z == Nat
  <2>1. \A i \in 1..n : p[i] \in Seq(Z) BY <1>2
  <2>2. \A i \in 1..n : nx[i] \in (i + 1)..(n + 1) BY <1>4
  <2> HIDE DEF Z
  <2>3. p \in Seq(Seq(Z)) /\ Len(p) = n /\ Onwards(Len(p), nx) /\ Unfolds(Z, p, nx)
    BY <1>3, <1>5, <2>1, <2>2, LoopOf
  <2> QED BY <2>3 DEF Z
<1>7. /\ W \in [1..(n + 1) -> Seq(Nat)] /\ W[n + 1] = << >>
      /\ \A i \in 1..n : W[i] = p[i] \o W[nx[i]]
  BY <1>5, <1>6 DEF Unfolds
<1>8. \A i \in 1..n : W[i] = p[i] \o W[i + SymbolLen(s, i)] BY <1>4, <1>7
<1> QED BY <1>6, <1>7, <1>8 DEF DecUnfolds, W, n, p, nx

(* Decoding is decoding from position 1 on.                                *)
LEMMA DecodeIs == ASSUME NEW s \in String PROVE ByteLevelDecode(s) = DecFrom(s)[1]
<1> DEFINE n == Len(s)
           p == CutPiece(s)
           nx == CutNext(s)
           C == Onward(p, nx)
           W == DecFrom(s)
           U == {i \in 1..(n + 1) : Gather(DecOf, C[i]) = W[i]}
<1>1. n \in Nat /\ n + 1 \in Nat /\ DOMAIN s = 1..n BY DEF String
<1>2. /\ p \in Seq(Seq(String)) /\ Len(p) = n /\ Onwards(n, nx) /\ SplitSymbols(s) = C[1]
      /\ SplitSymbols(s) \in Seq(String)
  BY SplitType
<1>3. Unfolds(String, p, nx)
  <2> HIDE DEF p, nx, n
  <2> QED BY <1>2, OnwardIs
<1>4. /\ C \in [1..(n + 1) -> Seq(String)] /\ C[n + 1] = << >>
      /\ \A i \in 1..n : C[i] = p[i] \o C[nx[i]]
  <2> HIDE DEF p, nx, n
  <2> QED BY <1>2, <1>3 DEF Unfolds
<1>5. /\ W[n + 1] = << >>
      /\ \A i \in 1..n : W[i] = DecPiece(s)[i] \o W[i + SymbolLen(s, i)]
  <2>1. DecUnfolds(s) BY DecLoop
  <2> HIDE DEF W
  <2> QED BY <2>1 DEF DecUnfolds, W
<1>6. ASSUME NEW i \in 1..n
      PROVE  /\ nx[i] = i + SymbolLen(s, i) /\ nx[i] \in (i + 1)..(n + 1)
             /\ p[i] \in Seq(String) /\ Gather(DecOf, p[i]) = DecPiece(s)[i]
  <2> DEFINE c == SubSeq(s, i, i + SymbolLen(s, i) - 1)
  <2>1. nx[i] = i + SymbolLen(s, i) BY <1>1 DEF CutNext
  <2>2. nx[i] \in (i + 1)..(n + 1) BY <1>2 DEF Onwards
  <2>3. p[i] = <<c>> /\ DecPiece(s)[i] = Dec(c) BY <1>1 DEF CutPiece, DecPiece
  <2>4. p[i] \in Seq(String)
    <3> HIDE DEF p, n
    <3> QED BY <1>1, <1>2
  <2>5. c \in String
    <3> HIDE DEF c, p
    <3>1. Len(p[i]) = 1 /\ p[i][1] = c BY <2>3
    <3> QED BY <2>4, <3>1
  <2> HIDE DEF c
  <2>6. Gather(DecOf, <<c>>) = DecOf[c] BY <2>5, DecType, GatherOne
  <2>7. DecOf[c] = Dec(c) BY <2>5 DEF DecOf
  <2> QED BY <2>1, <2>2, <2>3, <2>4, <2>6, <2>7
<1> HIDE DEF p, nx, C, W
<1>7. ASSUME NEW i \in 1..(n + 1), \A j \in (i + 1)..(n + 1) : j \in U PROVE i \in U
  <2>1. CASE i = n + 1 BY <1>4, <1>5, <2>1, GatherNone
  <2>2. CASE i # n + 1
    <3>1. i \in 1..n BY <1>1, <2>2
    <3> DEFINE j == nx[i]
    <3>2. j = i + SymbolLen(s, i) /\ j \in (i + 1)..(n + 1) BY <1>6, <3>1
    <3>3. Gather(DecOf, C[j]) = W[j] BY <1>7, <3>2
    <3>4. p[i] \in Seq(String) /\ Gather(DecOf, p[i]) = DecPiece(s)[i] BY <1>6, <3>1
    <3>5. C[j] \in Seq(String)
      <4>1. j \in 1..(n + 1) BY <1>1, <3>1, <3>2
      <4> HIDE DEF j, n
      <4> QED BY <1>4, <4>1
    <3> HIDE DEF j
    <3>6. Gather(DecOf, p[i] \o C[j]) = Gather(DecOf, p[i]) \o Gather(DecOf, C[j])
      <4> DEFINE a == p[i]
                 b == C[j]
      <4>1. a \in Seq(String) /\ b \in Seq(String) BY <3>4, <3>5
      <4>2. Maps(DecOf, String, Nat) BY DecType
      <4> HIDE DEF a, b
      <4>3. Gather(DecOf, a \o b) = Gather(DecOf, a) \o Gather(DecOf, b) BY <4>1, <4>2, GatherCat
      <4> QED BY <4>3 DEF a, b
    <3>7. C[i] = p[i] \o C[j] BY <1>4, <3>1 DEF j
    <3>8. W[i] = DecPiece(s)[i] \o W[j] BY <1>5, <3>1, <3>2
    <3>9. Gather(DecOf, C[i]) = W[i] BY <3>3, <3>4, <3>6, <3>7, <3>8, Zenon
    <3> QED BY <3>9
  <2> QED BY <2>1, <2>2
<1>8. \A i \in 1..(n + 1) : i \in U
  <2> HIDE DEF U
  <2> QED BY <1>1, <1>7, Downward
<1>9. Gather(DecOf, C[1]) = W[1]
  <2>1. 1 \in 1..(n + 1) BY <1>1
  <2> QED BY <1>8, <2>1
<1>10. ByteLevelDecode(s) = Gather(DecOf, SplitSymbols(s))
  <2> DEFINE l == SplitSymbols(s)
  <2>1. \A j \in DOMAIN l : DecOf[l[j]] = Dec(l[j])
    <3>1. \A j \in DOMAIN l : l[j] \in String
      <4>1. l \in Seq(String) BY <1>2
      <4> HIDE DEF l
      <4> QED BY <4>1
    <3> QED BY <3>1 DEF DecOf
  <2>2. ByteLevelDecode(s) = Concat([j \in DOMAIN l |-> Dec(l[j])]) BY DEF ByteLevelDecode, Dec
  <2>3. Mapped(DecOf, l) = [j \in DOMAIN l |-> Dec(l[j])]
    <3> HIDE DEF l
    <3> QED BY <2>1 DEF Mapped
  <2> QED BY <2>2, <2>3 DEF Gather
<1> QED BY <1>2, <1>9, <1>10 DEF W

(* Decoding gives a string.                                                *)
LEMMA DecodeType == ASSUME NEW s \in String PROVE ByteLevelDecode(s) \in String
<1>1. ByteLevelDecode(s) = DecFrom(s)[1] BY DecodeIs
<1>2. DecFrom(s) \in [1..(Len(s) + 1) -> Seq(Nat)] BY DecLoop DEF DecUnfolds
<1>3. 1 \in 1..(Len(s) + 1) BY DEF String
<1> QED BY <1>1, <1>2, <1>3 DEF String

(* Nothing decodes to nothing.                                             *)
LEMMA DecodeNone == ByteLevelDecode(<< >>) = << >> /\ << >> \in String
<1>1. << >> \in String BY DEF String
<1>2. DecFrom(<< >>)[Len(<< >>) + 1] = << >> BY <1>1, DecLoop DEF DecUnfolds
<1>3. Len(<< >>) + 1 = 1 OBVIOUS
<1> QED BY <1>1, <1>2, <1>3, DecodeIs

(* What is decoded at a position.                                          *)
LEMMA DecAt ==
  ASSUME NEW s \in String, NEW i \in 1..Len(s)
  PROVE  /\ SymbolLen(s, i) = 2 <=> i < Len(s) /\ Spells(s[i], s[i + 1])
         /\ SymbolLen(s, i) \in 1..2
         /\ SymbolLen(s, i) = 1 => DecPiece(s)[i] = <<s[i]>>
         /\ SymbolLen(s, i) = 2 => DecPiece(s)[i] = <<SymbolByte[<<s[i], s[i + 1]>>]>>
<1> DEFINE w == SymbolLen(s, i)
<1>1. i \in DOMAIN s BY DEF String
<1>2. w = IF i < Len(s) /\ Spells(s[i], s[i + 1]) THEN 2 ELSE 1 BY DEF SymbolLen, Spells
<1>3. /\ w \in 1..2
      /\ w = 1 => SubSeq(s, i, i + w - 1) = <<s[i]>>
      /\ w = 2 => /\ SubSeq(s, i, i + w - 1) = <<s[i], s[i + 1]>>
                  /\ <<s[i], s[i + 1]>> \in DOMAIN SymbolByte
  BY SymbolLenIs
<1>4. DecPiece(s)[i] = Dec(SubSeq(s, i, i + w - 1)) BY <1>1 DEF DecPiece
<1> HIDE DEF w
<1>5. ASSUME w = 1 PROVE DecPiece(s)[i] = <<s[i]>>
  <2>1. DecPiece(s)[i] = Dec(<<s[i]>>) BY <1>3, <1>4, <1>5
  <2>2. Dec(<<s[i]>>) = <<s[i]>> BY SymbolsAre DEF Dec
  <2> QED BY <2>1, <2>2
<1>6. ASSUME w = 2 PROVE DecPiece(s)[i] = <<SymbolByte[<<s[i], s[i + 1]>>]>>
  <2>1. DecPiece(s)[i] = Dec(<<s[i], s[i + 1]>>) BY <1>3, <1>4, <1>6
  <2> QED BY <1>3, <1>6, <2>1 DEF Dec
<1> QED BY <1>2, <1>3, <1>5, <1>6 DEF w

(* Decoding from a position on is decoding the rest.                       *)
LEMMA DecodeRest ==
  ASSUME NEW s \in String, NEW k \in 0..Len(s)
  PROVE  /\ SubSeq(s, k + 1, Len(s)) \in String /\ Len(SubSeq(s, k + 1, Len(s))) = Len(s) - k
         /\ \A i \in 1..(Len(s) - k) : SubSeq(s, k + 1, Len(s))[i] = s[i + k]
         /\ DecFrom(s)[k + 1] = ByteLevelDecode(SubSeq(s, k + 1, Len(s)))
<1> DEFINE u == SubSeq(s, k + 1, Len(s))
           m == Len(s)
           p == DecPiece(s)
           q == DecPiece(u)
           nx == CutNext(s)
           nu == CutNext(u)
<1>1. k \in Nat /\ m \in Nat /\ k <= m /\ DOMAIN s = 1..m /\ s \in Seq(Nat) BY DEF String
<1>2. u \in String /\ Len(u) = m - k /\ \A i \in 1..(m - k) : u[i] = s[i + k]
  <2>1. /\ u \in Seq(Nat) /\ Len(u) = m - (k + 1) + 1
        /\ \A i \in 1..(m - (k + 1) + 1) : u[i] = s[i + (k + 1) - 1]
    <3>1. k + 1 \in Int /\ Len(s) \in Int /\ 1 <= k + 1 /\ Len(s) <= Len(s) /\ k + 1 <= Len(s) + 1
      BY <1>1
    <3> QED BY <1>1, <3>1, SubSeqIs
  <2>2. m - (k + 1) + 1 = m - k /\ \A i \in 1..(m - k) : i + (k + 1) - 1 = i + k BY <1>1
  <2> HIDE DEF u, m
  <2> QED BY <2>1, <2>2 DEF String
<1> HIDE DEF u
<1>3. DOMAIN u = 1..(m - k) /\ m - k \in Nat BY <1>1, <1>2 DEF String
<1>4. ASSUME NEW i \in 1..(m - k) PROVE p[i + k] = q[i] /\ nx[i + k] = nu[i] + k
  <2>1. i \in 1..Len(u) /\ i + k \in 1..m BY <1>1, <1>2
  <2>2. u[i] = s[i + k] BY <1>2
  <2>3. i < Len(u) <=> i + k < m BY <1>1, <1>2
  <2>4. i < Len(u) => u[i + 1] = s[(i + k) + 1]
    <3>1. i < Len(u) => i + 1 \in 1..(m - k) /\ (i + 1) + k = (i + k) + 1 BY <1>1, <1>2
    <3> QED BY <1>2, <3>1
  <2> DEFINE w == SymbolLen(u, i)
             z == SymbolLen(s, i + k)
  <2>5. /\ w = 2 <=> i < Len(u) /\ Spells(u[i], u[i + 1])
        /\ w \in 1..2
        /\ w = 1 => q[i] = <<u[i]>>
        /\ w = 2 => q[i] = <<SymbolByte[<<u[i], u[i + 1]>>]>>
    BY <1>2, <2>1, DecAt
  <2>6. /\ z = 2 <=> i + k < m /\ Spells(s[i + k], s[(i + k) + 1])
        /\ z \in 1..2
        /\ z = 1 => p[i + k] = <<s[i + k]>>
        /\ z = 2 => p[i + k] = <<SymbolByte[<<s[i + k], s[(i + k) + 1]>>]>>
    BY <2>1, DecAt
  <2>7. nu[i] = i + w /\ nx[i + k] = i + k + z BY <1>1, <1>3, <2>1 DEF CutNext
  <2> HIDE DEF w, z, p, q, nx, nu, m
  <2>8. w = z BY <2>2, <2>3, <2>4, <2>5, <2>6
  <2>9. p[i + k] = q[i]
    <3>1. CASE w = 1 BY <2>2, <2>5, <2>6, <2>8, <3>1
    <3>2. CASE w = 2 BY <2>2, <2>4, <2>5, <2>6, <2>8, <3>2
    <3> QED BY <2>5, <3>1, <3>2
  <2>10. nx[i + k] = nu[i] + k BY <1>1, <2>5, <2>7, <2>8
  <2> QED BY <2>9, <2>10
<1>5. /\ p \in Seq(Seq(Nat)) /\ Len(p) = m /\ Onwards(Len(p), nx)
      /\ q \in Seq(Seq(Nat)) /\ Len(q) = m - k /\ Onwards(Len(q), nu)
  <2>1. DecUnfolds(s) /\ DecUnfolds(u) BY <1>2, DecLoop
  <2> QED BY <1>2, <2>1 DEF DecUnfolds
<1>6. \A i \in 1..(Len(q) + 1) : Onward(p, nx)[i + k] = Onward(q, nu)[i]
  <2> HIDE DEF p, q, nx, nu, m
  <2>1. Len(p) = Len(q) + k BY <1>1, <1>5
  <2>2. Shifted(p, nx, q, nu, k) BY <1>4, <1>5 DEF Shifted
  <2> DEFINE Z == Nat
  <2>3. /\ p \in Seq(Seq(Z)) /\ Onwards(Len(p), nx)
        /\ q \in Seq(Seq(Z)) /\ Onwards(Len(q), nu) /\ k \in Nat
    BY <1>1, <1>5
  <2> HIDE DEF Z
  <2>4. k \in Nat BY <1>1
  <2>5. SameRest(p, nx, q, nu, k) BY <2>1, <2>2, <2>3, <2>4, OnwardShift
  <2> QED BY <2>5 DEF SameRest
<1>7. Onward(p, nx)[1 + k] = Onward(q, nu)[1] /\ 1 + k = k + 1
  <2>1. 1 \in 1..(Len(q) + 1) /\ 1 + k = k + 1
    <3> HIDE DEF p, q, m
    <3> QED BY <1>1, <1>3, <1>5
  <2> HIDE DEF p, q, nx, nu
  <2> QED BY <1>6, <2>1
<1>8. DecFrom(s)[k + 1] = ByteLevelDecode(u)
  <2>1. ByteLevelDecode(u) = DecFrom(u)[1] BY <1>2, DecodeIs
  <2>2. DecFrom(s) = Onward(p, nx) /\ DecFrom(u) = Onward(q, nu) BY DEF DecFrom
  <2> HIDE DEF p, q, nx, nu
  <2> QED BY <1>7, <2>1, <2>2
<1> QED BY <1>2, <1>8 DEF u

(* What follows the first of two lists joined is the second.               *)
LEMMA CatRest ==
  ASSUME NEW S, NEW a \in Seq(S), NEW b \in Seq(S)
  PROVE  SubSeq(a \o b, Len(a) + 1, Len(a \o b)) = b
<1> DEFINE c == a \o b
           m == Len(a)
           n == Len(b)
           d == SubSeq(c, m + 1, Len(c))
<1>1. c \in Seq(S) /\ Len(c) = m + n BY ConcatProperties
<1>2. \A j \in 1..n : c[m + j] = b[j] BY CatElements
<1>3. m \in Nat /\ n \in Nat OBVIOUS
<1> HIDE DEF c, m, n
<1>4. /\ d \in Seq(S) /\ Len(d) = Len(c) - (m + 1) + 1
      /\ \A k \in 1..(Len(c) - (m + 1) + 1) : d[k] = c[k + (m + 1) - 1]
  <2>1. /\ m + 1 \in Int /\ Len(c) \in Int /\ 1 <= m + 1 /\ Len(c) <= Len(c) /\ m + 1 <= Len(c) + 1
    BY <1>1, <1>3
  <2> QED BY <1>1, <2>1, SubSeqIs
<1>5. Len(c) - (m + 1) + 1 = n /\ \A k \in 1..n : k + (m + 1) - 1 = m + k BY <1>1, <1>3
<1> HIDE DEF d
<1>6. Len(d) = n /\ \A k \in 1..n : d[k] = b[k] BY <1>2, <1>4, <1>5
<1>7. d = b
  <2>1. Len(d) = Len(b) /\ \A k \in 1..Len(d) : d[k] = b[k] BY <1>6 DEF n
  <2> QED BY <1>4, <2>1, SeqEqual
<1> QED BY <1>7 DEF c, m, d

(* Where two strings meet no symbol stands.                                *)
Meeting(a, b) == a # << >> /\ b # << >> /\ Spells(a[Len(a)], b[1])

(* Two strings decode one after the other, unless a symbol stands where    *)
(* they meet.                                                              *)
LEMMA DecodeCat ==
  ASSUME NEW a \in String, NEW b \in String, ~Meeting(a, b)
  PROVE  ByteLevelDecode(a \o b) = ByteLevelDecode(a) \o ByteLevelDecode(b)
<1> DEFINE s == a \o b
           m == Len(a)
           n == Len(b)
           B == ByteLevelDecode(b)
           A == DecFrom(a)
           W == DecFrom(s)
           U == {i \in 1..(m + 1) : W[i] = A[i] \o B}
<1>1. a \in Seq(Nat) /\ b \in Seq(Nat) /\ m \in Nat /\ n \in Nat BY DEF String
<1>2. s \in String /\ Len(s) = m + n BY <1>1, ConcatProperties DEF String
<1>3. /\ \A j \in 1..m : s[j] = a[j]
      /\ \A j \in 1..n : s[m + j] = b[j]
  BY <1>1, CatElements
<1>4. SubSeq(s, m + 1, Len(s)) = b BY <1>1, CatRest
<1>5. B \in Seq(Nat) BY DecodeType DEF String
<1> HIDE DEF s
<1>6. DecUnfolds(a) /\ DecUnfolds(s) BY <1>2, DecLoop
<1>7. /\ A \in [1..(m + 1) -> Seq(Nat)] /\ A[m + 1] = << >>
      /\ \A i \in 1..m : A[i] = DecPiece(a)[i] \o A[i + SymbolLen(a, i)]
      /\ \A i \in 1..m : DecPiece(a)[i] \in Seq(Nat)
  <2>1. DecPiece(a) \in Seq(Seq(Nat)) /\ Len(DecPiece(a)) = m BY <1>6 DEF DecUnfolds
  <2>2. \A i \in 1..m : DecPiece(a)[i] \in Seq(Nat)
    <3> HIDE DEF m
    <3> QED BY <2>1
  <2> QED BY <1>6, <2>2 DEF DecUnfolds
<1>8. \A i \in 1..(m + n) : W[i] = DecPiece(s)[i] \o W[i + SymbolLen(s, i)]
  BY <1>2, <1>6 DEF DecUnfolds
<1>9. W[m + 1] = B
  <2>1. m \in 0..Len(s)
    <3> HIDE DEF m, n
    <3> QED BY <1>1, <1>2
  <2> HIDE DEF W, m
  <2>2. W[m + 1] = ByteLevelDecode(SubSeq(s, m + 1, Len(s))) BY <1>2, <2>1, DecodeRest DEF W
  <2> QED BY <1>4, <2>2
<1>10. ASSUME NEW i \in 1..m
       PROVE  /\ SymbolLen(s, i) = SymbolLen(a, i) /\ DecPiece(s)[i] = DecPiece(a)[i]
              /\ i + SymbolLen(a, i) \in (i + 1)..(m + 1)
  <2> DEFINE w == SymbolLen(a, i)
             z == SymbolLen(s, i)
             p == DecPiece(a)[i]
             q == DecPiece(s)[i]
  <2>1. i \in 1..Len(s)
    <3> HIDE DEF m, n
    <3> QED BY <1>1, <1>2
  <2>2. /\ w = 2 <=> i < m /\ Spells(a[i], a[i + 1])
        /\ w \in 1..2
        /\ w = 1 => p = <<a[i]>>
        /\ w = 2 => p = <<SymbolByte[<<a[i], a[i + 1]>>]>>
    BY DecAt
  <2>3. /\ z = 2 <=> i < m + n /\ Spells(s[i], s[i + 1])
        /\ z \in 1..2
        /\ z = 1 => q = <<s[i]>>
        /\ z = 2 => q = <<SymbolByte[<<s[i], s[i + 1]>>]>>
    BY <1>2, <2>1, DecAt
  <2>4. s[i] = a[i] BY <1>3
  <2>5. i < m => s[i + 1] = a[i + 1]
    <3>1. i < m => i + 1 \in 1..m BY <1>1
    <3> QED BY <1>3, <3>1
  <2>6. i = m /\ i < m + n => ~Spells(s[i], s[i + 1])
    <3> SUFFICES ASSUME i = m, i < m + n PROVE ~Spells(s[i], s[i + 1]) OBVIOUS
    <3>1. 1 \in 1..n /\ m + 1 = i + 1 BY <1>1
    <3>2. s[i + 1] = b[1] BY <1>3, <3>1
    <3>3. a # << >> /\ b # << >> BY <1>1, <3>1
    <3>4. s[i] = a[Len(a)] BY <2>4
    <3> QED BY <3>2, <3>3, <3>4 DEF Meeting
  <2>7. i < m \/ i = m BY <1>1
  <2>8. i + w \in (i + 1)..(m + 1) BY SymbolLenIs
  <2>9. i < m => i < m + n BY <1>1
  <2> HIDE DEF w, z, p, q, m, n
  <2>10. w = z BY <2>2, <2>3, <2>4, <2>5, <2>6, <2>7, <2>9
  <2>11. p = q
    <3>1. CASE w = 1 BY <2>2, <2>3, <2>4, <2>10, <3>1
    <3>2. CASE w = 2 BY <2>2, <2>3, <2>4, <2>5, <2>10, <3>2
    <3> QED BY <2>2, <3>1, <3>2
  <2> QED BY <2>8, <2>10, <2>11 DEF w, z, p, q
<1>11. ASSUME NEW i \in 1..(m + 1), \A j \in (i + 1)..(m + 1) : j \in U PROVE i \in U
  <2>1. CASE i = m + 1
    <3>1. << >> \o B = B BY <1>5
    <3> HIDE DEF A, W, B
    <3> QED BY <1>7, <1>9, <2>1, <3>1
  <2>2. CASE i # m + 1
    <3>1. i \in 1..m /\ i \in 1..(m + n) BY <1>1, <2>2
    <3> DEFINE j == i + SymbolLen(a, i)
               p == DecPiece(a)[i]
    <3>2. /\ j \in (i + 1)..(m + 1) /\ j = i + SymbolLen(s, i) /\ DecPiece(s)[i] = p
      BY <1>10, <3>1
    <3>3. W[j] = A[j] \o B BY <1>11, <3>2
    <3>4. W[i] = p \o W[j] /\ A[i] = p \o A[j] BY <1>7, <1>8, <3>1, <3>2
    <3>5. A[j] \in Seq(Nat) /\ p \in Seq(Nat)
      <4>1. j \in 1..(m + 1) BY <1>1, <3>1, <3>2
      <4> HIDE DEF A, p, j, m
      <4> QED BY <1>7, <3>1, <4>1 DEF p
    <3> DEFINE x == A[j]
    <3>6. x \in Seq(Nat) BY <3>5
    <3> HIDE DEF p, A, B, W, x
    <3>7. Cat(Cat(p, x), B) = Cat(p, Cat(x, B)) BY <1>5, <3>5, <3>6, CatInAnyOrder
    <3>8. (p \o x) \o B = p \o (x \o B) BY <3>7 DEF Cat
    <3>9. W[i] = A[i] \o B BY <3>3, <3>4, <3>8 DEF x
    <3> QED BY <3>9
  <2> QED BY <2>1, <2>2
<1>12. \A i \in 1..(m + 1) : i \in U
  <2>1. m + 1 \in Nat BY <1>1
  <2> HIDE DEF U
  <2> QED BY <1>11, <2>1, Downward
<1>13. W[1] = A[1] \o B
  <2>1. 1 \in 1..(m + 1) BY <1>1
  <2> QED BY <1>12, <2>1
<1>14. ByteLevelDecode(s) = W[1] /\ ByteLevelDecode(a) = A[1] BY <1>2, DecodeIs
<1> HIDE DEF W, A, B
<1> QED BY <1>13, <1>14 DEF s, B

(* A single byte decodes to itself, ...                                    *)
LEMMA DecodeOne ==
  ASSUME NEW x \in Nat PROVE ByteLevelDecode(<<x>>) = <<x>> /\ <<x>> \in String
<1> DEFINE s == <<x>>
<1>1. s \in String /\ Len(s) = 1 /\ s[1] = x BY DEF String
<1> HIDE DEF s
<1>2. 1 \in 1..Len(s) BY <1>1
<1>3. SymbolLen(s, 1) = 1 /\ DecPiece(s)[1] = <<x>>
  <2>1. /\ SymbolLen(s, 1) = 2 <=> 1 < Len(s) /\ Spells(s[1], s[1 + 1])
        /\ SymbolLen(s, 1) \in 1..2
        /\ SymbolLen(s, 1) = 1 => DecPiece(s)[1] = <<s[1]>>
    BY <1>1, <1>2, DecAt
  <2> DEFINE w == SymbolLen(s, 1)
  <2>2. w \in 1..2 /\ w # 2
    <3>1. ~(1 < Len(s)) BY <1>1
    <3> QED BY <2>1, <3>1
  <2> HIDE DEF w
  <2>3. w = 1 BY <2>2
  <2> QED BY <1>1, <2>1, <2>3 DEF w
<1>4. DecFrom(s)[1] = DecPiece(s)[1] \o DecFrom(s)[1 + SymbolLen(s, 1)] /\ DecFrom(s)[1 + 1] = << >>
  BY <1>1, <1>2, DecLoop DEF DecUnfolds
<1>5. <<x>> \o << >> = <<x>> OBVIOUS
<1> QED BY <1>1, <1>3, <1>4, <1>5, DecodeIs DEF s

(* ... the two of a symbol to the byte of the symbol, ...                  *)
LEMMA DecodePair ==
  ASSUME NEW x, NEW y, Spells(x, y)
  PROVE  /\ ByteLevelDecode(<<x, y>>) = <<SymbolByte[<<x, y>>]>> /\ <<x, y>> \in String
         /\ SymbolByte[<<x, y>>] \in Nat
<1> DEFINE s == <<x, y>>
           b == SymbolByte[<<x, y>>]
<1>1. x \in Nat /\ y \in Nat /\ b \in Nat
  <2>1. x \in Leading /\ y \in Trailing /\ b \in 0..255 BY SymbolsAre
  <2> HIDE DEF b
  <2> QED BY <2>1 DEF Leading, Trailing
<1>2. s \in String /\ Len(s) = 2 /\ s[1] = x /\ s[2] = y BY <1>1 DEF String
<1> HIDE DEF s, b
<1>3. 1 \in 1..Len(s) BY <1>2
<1>4. SymbolLen(s, 1) = 2 /\ DecPiece(s)[1] = <<b>>
  <2>1. 1 < Len(s) /\ Spells(s[1], s[1 + 1]) BY <1>2
  <2>2. SymbolLen(s, 1) = 2 BY <1>2, <1>3, <2>1, DecAt
  <2>3. DecPiece(s)[1] = <<SymbolByte[<<s[1], s[1 + 1]>>]>> BY <1>2, <1>3, <2>2, DecAt
  <2> QED BY <1>2, <2>2, <2>3 DEF b
<1>5. DecFrom(s)[1] = DecPiece(s)[1] \o DecFrom(s)[1 + SymbolLen(s, 1)] /\ DecFrom(s)[2 + 1] = << >>
  BY <1>2, <1>3, DecLoop DEF DecUnfolds
<1>6. <<b>> \o << >> = <<b>> BY <1>1
<1>7. 1 + 2 = 2 + 1 OBVIOUS
<1> QED BY <1>1, <1>2, <1>4, <1>5, <1>6, <1>7, DecodeIs DEF s, b

(* ... and what is not empty to what is not empty.                         *)
LEMMA DecodeSome ==
  ASSUME NEW s \in String, s # << >> PROVE ByteLevelDecode(s) # << >>
<1> DEFINE n == Len(s)
           w == SymbolLen(s, 1)
           p == DecPiece(s)
           W == DecFrom(s)
<1>1. n \in Nat /\ 1 \in 1..n BY DEF String
<1>2. /\ W \in [1..(n + 1) -> Seq(Nat)]
      /\ \A i \in 1..n : W[i] = p[i] \o W[i + SymbolLen(s, i)]
      /\ p \in Seq(Seq(Nat)) /\ Len(p) = n
  BY DecLoop DEF DecUnfolds
<1>3. w \in 1..2 /\ 1 + w \in (1 + 1)..(n + 1)
  <2>1. 1 \in 1..Len(s) BY <1>1
  <2> QED BY <2>1, SymbolLenIs
<1>4. W[1] = p[1] \o W[1 + w] BY <1>1, <1>2
<1>5. /\ w = 1 => p[1] = <<s[1]>>
      /\ w = 2 => p[1] = <<SymbolByte[<<s[1], s[1 + 1]>>]>>
  BY <1>1, DecAt
<1> DEFINE a == p[1]
           b == W[1 + w]
<1>6. Len(a) = 1
  <2>1. \A x : Len(<<x>>) = 1 OBVIOUS
  <2>2. w = 1 \/ w = 2 BY <1>3
  <2> HIDE DEF p, w
  <2> QED BY <1>5, <2>1, <2>2
<1>7. a \in Seq(Nat) /\ b \in Seq(Nat)
  <2>1. 1 + w \in 1..(n + 1)
    <3> HIDE DEF w, n
    <3> QED BY <1>1, <1>3
  <2> HIDE DEF p, W, w, n
  <2> QED BY <1>1, <1>2, <2>1
<1> HIDE DEF a, b
<1>8. Len(a \o b) = Len(a) + Len(b) BY <1>7, ConcatProperties
<1>9. Len(b) \in Nat BY <1>7
<1>10. Len(a \o b) # 0 BY <1>6, <1>8, <1>9
<1>11. a \o b # << >> BY <1>10
<1>12. W[1] # << >>
  <2>1. W[1] = a \o b BY <1>4 DEF a, b
  <2> HIDE DEF W
  <2> QED BY <1>11, <2>1
<1> QED BY <1>12, DecodeIs

-----------------------------------------------------------------------------
(* What ids say: the string of each, and the text that decodes to.         *)
Ids == Int
Said(v, id) == RawPiece(Token(v, id))
SaidOf(v) == [id \in Ids |-> Said(v, id)]
HeardOf(v) == [id \in Ids |-> ByteLevelDecode(Said(v, id))]

(* What an id stands for is a string, <unk> if no token has the id, ...    *)
LEMMA TokenType == ASSUME NEW v \in Vocabulary, NEW id PROVE Token(v, id) \in String
<1>1. v.tokens \in Seq(String) BY Fields
<1>2. Unknown \in String BY DEF Unknown, String
<1>3. CASE id \in 0..(Len(v.tokens) - 1)
  <2> DEFINE c == v.tokens
             n == Len(c)
  <2>1. n \in Nat BY <1>1
  <2>2. id + 1 \in 1..n BY <1>3, <2>1
  <2>3. c[id + 1] \in String
    <3> HIDE DEF c
    <3> QED BY <1>1, <2>2 DEF c
  <2> QED BY <1>3, <2>3 DEF Token
<1> QED BY <1>2, <1>3 DEF Token

(* ... a byte token read as its byte is a string, ...                      *)
LEMMA RawType == ASSUME NEW tok \in String PROVE RawPiece(tok) \in String
<1>1. CASE IsByteToken(tok)
  <2> DEFINE b == tok[1] - 1000
  <2>1. tok[1] \in 1000..1255 BY <1>1 DEF IsByteToken
  <2>2. b \in Nat BY <2>1, SMT
  <2>3. RawPiece(tok) = <<b>> BY <1>1 DEF RawPiece
  <2> HIDE DEF b
  <2> QED BY <2>2, <2>3 DEF String
<1> QED BY <1>1 DEF RawPiece

(* ... and so is what an id says.                                          *)
LEMMA SaidType == ASSUME NEW v \in Vocabulary, NEW id PROVE Said(v, id) \in String
BY TokenType, RawType DEF Said

(* SaidOf and HeardOf are functions from ids to strings.                   *)
LEMMA SaidMaps ==
  ASSUME NEW v \in Vocabulary
  PROVE  Maps(SaidOf(v), Ids, Nat) /\ Maps(HeardOf(v), Ids, Nat)
<1>1. \A id \in Ids : Said(v, id) \in Seq(Nat) /\ ByteLevelDecode(Said(v, id)) \in Seq(Nat)
  BY SaidType, DecodeType DEF String
<1> QED BY <1>1 DEF Maps, SaidOf, HeardOf

(* The pieces joined are what the ids say.                                 *)
LEMMA JoinedIs ==
  ASSUME NEW v \in Vocabulary, NEW seq \in Seq(Ids)
  PROVE  Joined(v, seq) = Gather(SaidOf(v), seq) /\ Joined(v, seq) \in String
<1>1. IsMapped(SaidOf(v), seq, Nat) BY SaidMaps, GatherType
<1>2. \A j \in DOMAIN seq : SaidOf(v)[seq[j]] = RawPiece(Token(v, seq[j]))
  <2>1. \A j \in DOMAIN seq : seq[j] \in Ids OBVIOUS
  <2> QED BY <2>1 DEF SaidOf, Said
<1>3. Mapped(SaidOf(v), seq) = [j \in DOMAIN seq |-> RawPiece(Token(v, seq[j]))] BY <1>2 DEF Mapped
<1>4. Joined(v, seq) = Gather(SaidOf(v), seq) BY <1>3 DEF Joined, Gather
<1> QED BY <1>1, <1>4 DEF IsMapped, String

(* A prefix that is one longer has the next element at its end.            *)
LEMMA PrefixGrows ==
  ASSUME NEW S, NEW s \in Seq(S), NEW k \in 0..(Len(s) - 1)
  PROVE  /\ SubSeq(s, 1, k) \in Seq(S) /\ Len(SubSeq(s, 1, k)) = k /\ s[k + 1] \in S
         /\ SubSeq(s, 1, k + 1) = SubSeq(s, 1, k) \o <<s[k + 1]>>
<1> DEFINE n == Len(s)
           a == SubSeq(s, 1, k)
           x == s[k + 1]
           b == SubSeq(s, 1, k + 1)
<1>1. n \in Nat /\ k \in Nat /\ k + 1 \in 1..n /\ k < n OBVIOUS
<1>2. x \in S BY <1>1
<1>3. a \in Seq(S) /\ Len(a) = k /\ \A j \in 1..k : a[j] = s[j]
  <2>1. /\ a \in Seq(S) /\ Len(a) = k - 1 + 1
        /\ \A j \in 1..(k - 1 + 1) : a[j] = s[j + 1 - 1]
    BY <1>1, SubSeqIs
  <2>2. k - 1 + 1 = k /\ \A j \in 1..k : j + 1 - 1 = j BY <1>1
  <2> HIDE DEF a
  <2> QED BY <2>1, <2>2
<1>4. b \in Seq(S) /\ Len(b) = k + 1 /\ \A j \in 1..(k + 1) : b[j] = s[j]
  <2>1. /\ b \in Seq(S) /\ Len(b) = (k + 1) - 1 + 1
        /\ \A j \in 1..((k + 1) - 1 + 1) : b[j] = s[j + 1 - 1]
    BY <1>1, SubSeqIs
  <2>2. (k + 1) - 1 + 1 = k + 1 /\ \A j \in 1..(k + 1) : j + 1 - 1 = j BY <1>1
  <2> HIDE DEF b
  <2> QED BY <2>1, <2>2
<1> HIDE DEF a, b, x, n
<1> DEFINE y == <<x>>
           c == a \o y
<1>5. y \in Seq(S) /\ Len(y) = 1 /\ y[1] = x BY <1>2
<1> HIDE DEF y
<1>a. a \in Seq(S) /\ y \in Seq(S) BY <1>3, <1>5
<1>b. c \in Seq(S) /\ Len(c) = Len(a) + Len(y) BY <1>a, ConcatProperties
<1>6. c \in Seq(S) /\ Len(c) = k + 1
  <2> HIDE DEF c
  <2> QED BY <1>3, <1>5, <1>b
<1>7. /\ \A j \in 1..Len(a) : c[j] = a[j]
      /\ \A j \in 1..Len(y) : c[Len(a) + j] = y[j]
  BY <1>a, CatElements
<1> HIDE DEF c
<1>8. \A j \in 1..(k + 1) : b[j] = c[j]
  <2>1. TAKE j \in 1..(k + 1)
  <2>2. CASE j \in 1..k BY <1>3, <1>4, <1>7, <2>2
  <2>3. CASE j = k + 1
    <3>1. c[k + 1] = x BY <1>3, <1>5, <1>7
    <3>2. b[k + 1] = x BY <1>1, <1>4 DEF x
    <3> QED BY <2>3, <3>1, <3>2
  <2>4. j \in 1..k \/ j = k + 1 BY <1>1
  <2> QED BY <2>2, <2>3, <2>4
<1>9. b = c
  <2>1. Len(b) = Len(c) /\ \A j \in 1..Len(b) : b[j] = c[j] BY <1>4, <1>6, <1>8
  <2> QED BY <1>4, <1>6, <2>1, SeqEqual
<1> QED BY <1>2, <1>3, <1>9 DEF a, b, c, x, y

(* Ids none of whose pieces are confused decode piece by piece.            *)
LEMMA DecodedByPiece ==
  ASSUME NEW v \in Vocabulary, NEW seq \in Seq(Ids), ~Confused(v, seq)
  PROVE  Decoded(v, seq) = Gather(HeardOf(v), seq)
<1> DEFINE n == Len(seq)
           P(k) == SubSeq(seq, 1, k)
           U == {k \in 0..n : ByteLevelDecode(Joined(v, P(k))) = Gather(HeardOf(v), P(k))}
<1>1. n \in Nat OBVIOUS
<1>2. P(0) = << >> /\ P(n) = seq
  <2>1. P(0) = << >> OBVIOUS
  <2>2. P(n) = seq OBVIOUS
  <2> QED BY <2>1, <2>2
<1>3. Joined(v, << >>) = << >>
  <2>1. << >> \in Seq(Ids) OBVIOUS
  <2> QED BY <2>1, JoinedIs, GatherNone
<1>4. 0 \in U
  <2>1. ByteLevelDecode(Joined(v, P(0))) = << >> BY <1>2, <1>3, DecodeNone
  <2>2. Gather(HeardOf(v), P(0)) = << >> BY <1>2, GatherNone
  <2> HIDE DEF P
  <2> QED BY <1>1, <2>1, <2>2
<1>5. ASSUME NEW k \in 0..(n - 1), k \in U PROVE k + 1 \in U
  <2> DEFINE a == P(k)
             x == seq[k + 1]
             y == <<x>>
             w == Said(v, x)
             A == Joined(v, a)
  <2>1. a \in Seq(Ids) /\ Len(a) = k /\ x \in Ids /\ P(k + 1) = a \o y BY PrefixGrows
  <2>2. y \in Seq(Ids) BY <2>1
  <2>3. A = Gather(SaidOf(v), a) /\ A \in String BY <2>1, JoinedIs
  <2>4. w \in String BY <2>1, SaidType
  <2>5. Gather(SaidOf(v), y) = w /\ Gather(HeardOf(v), y) = ByteLevelDecode(w)
    <3>1. Gather(SaidOf(v), y) = SaidOf(v)[x] BY <2>1, SaidMaps, GatherOne
    <3>2. Gather(HeardOf(v), y) = HeardOf(v)[x] BY <2>1, SaidMaps, GatherOne
    <3>3. SaidOf(v)[x] = w /\ HeardOf(v)[x] = ByteLevelDecode(w) BY <2>1 DEF SaidOf, HeardOf
    <3> QED BY <3>1, <3>2, <3>3
  <2>6. ~Meeting(A, w)
    <3>1. CASE k = 0
      <4>1. A = << >> BY <1>2, <1>3, <3>1
      <4> QED BY <4>1 DEF Meeting
    <3>2. CASE k # 0
      <4>1. k \in 1..(n - 1) BY <1>1, <3>2
      <4>2. ~(/\ Joined(v, SubSeq(seq, 1, k)) # << >> /\ w # << >>
              /\ <<Joined(v, SubSeq(seq, 1, k))[Len(Joined(v, SubSeq(seq, 1, k)))], w[1]>> \in DOMAIN SymbolByte)
        BY <4>1 DEF Confused, Said
      <4> QED BY <4>2 DEF Meeting, Spells
    <3> QED BY <3>1, <3>2
  <2>7. ByteLevelDecode(A) = Gather(HeardOf(v), a) BY <1>5
  <2> DEFINE z == a \o y
  <2>8. z \in Seq(Ids) /\ P(k + 1) = z
    <3> HIDE DEF a, y, P
    <3> QED BY <2>1, <2>2, ConcatProperties
  <2> HIDE DEF a, y, x, w, A, P
  <2>9. Gather(SaidOf(v), z) = A \o w
    <3>1. Gather(SaidOf(v), z) = Gather(SaidOf(v), a) \o Gather(SaidOf(v), y)
      <4> DEFINE G == SaidOf(v)
      <4>1. a \in Seq(Ids) /\ y \in Seq(Ids) /\ Maps(G, Ids, Nat) BY <2>1, <2>2, SaidMaps
      <4> HIDE DEF G
      <4>2. Gather(G, a \o y) = Gather(G, a) \o Gather(G, y) BY <4>1, GatherCat
      <4> QED BY <4>2 DEF G, z
    <3> QED BY <2>3, <2>5, <3>1
  <2>10. Gather(HeardOf(v), z) = ByteLevelDecode(A) \o ByteLevelDecode(w)
    <3>1. Gather(HeardOf(v), z) = Gather(HeardOf(v), a) \o Gather(HeardOf(v), y)
      <4> DEFINE G == HeardOf(v)
      <4>1. a \in Seq(Ids) /\ y \in Seq(Ids) /\ Maps(G, Ids, Nat) BY <2>1, <2>2, SaidMaps
      <4> HIDE DEF G
      <4>2. Gather(G, a \o y) = Gather(G, a) \o Gather(G, y) BY <4>1, GatherCat
      <4> QED BY <4>2 DEF G, z
    <3> QED BY <2>5, <2>7, <3>1
  <2>11. Joined(v, z) = A \o w BY <2>8, <2>9, JoinedIs
  <2>12. ByteLevelDecode(A \o w) = ByteLevelDecode(A) \o ByteLevelDecode(w)
    BY <2>3, <2>4, <2>6, DecodeCat
  <2>13. k + 1 \in 0..n BY <1>1
  <2> QED BY <2>8, <2>10, <2>11, <2>12, <2>13
<1>6. \A k \in 0..n : k \in U
  <2> HIDE DEF U, n
  <2> QED BY <1>1, <1>4, <1>5, Upward
<1>7. n \in 0..n BY <1>1
<1>8. ByteLevelDecode(Joined(v, P(n))) = Gather(HeardOf(v), P(n))
  <2> HIDE DEF P
  <2> QED BY <1>6, <1>7
<1> QED BY <1>2, <1>8 DEF Decoded

-----------------------------------------------------------------------------
(* The longest string of a set at a position.                              *)
LongestAt(S, s, i) == {n \in 1..(Len(s) - i + 1) : SubSeq(s, i, i + n - 1) \in S}

(* The longest string of a set at a position, none being longer.           *)
LEMMA LongestIs ==
  ASSUME NEW S, NEW s \in String, NEW i \in 1..Len(s)
  PROVE  /\ Longest(S, s, i) \in 0..(Len(s) - i + 1)
         /\ Longest(S, s, i) > 0 => Longest(S, s, i) \in LongestAt(S, s, i)
         /\ \A n \in LongestAt(S, s, i) : n <= Longest(S, s, i)
<1> DEFINE E == LongestAt(S, s, i)
           m == Len(s) - i + 1
           L == Longest(S, s, i)
<1>1. m \in Nat BY DEF String
<1>2. L = IF E = {} THEN 0 ELSE Max(E) BY DEF Longest, LongestAt
<1>3. E \in SUBSET (0..m) /\ \A n \in E : n \in 1..m
  <2>1. \A n \in E : n \in 1..m BY DEF LongestAt
  <2> HIDE DEF E, m
  <2> QED BY <1>1, <2>1
<1> HIDE DEF E, m, L
<1>4. ASSUME E = {} PROVE L \in 0..m /\ (L > 0 => L \in E) /\ \A n \in E : n <= L
  <2>1. L = 0 BY <1>2, <1>4
  <2> QED BY <1>1, <1>4, <2>1
<1>5. ASSUME E # {} PROVE L \in 0..m /\ (L > 0 => L \in E) /\ \A n \in E : n <= L
  <2>1. L \in E /\ \A n \in E : n <= L BY <1>1, <1>2, <1>3, <1>5, MaxIs
  <2>2. L \in 1..m BY <1>3, <2>1
  <2>3. L \in 0..m BY <1>1, <2>2
  <2> QED BY <2>1, <2>3
<1>6. L \in 0..m /\ (L > 0 => L \in E) /\ \A n \in E : n <= L BY <1>4, <1>5
<1> QED BY <1>6 DEF E, m, L

-----------------------------------------------------------------------------
(* Word and newline marks in a streamed piece.                             *)
Marks == Blank \cup LineBreak
MarkAt(s, i) == Longest(Marks, s, i)
Replaces(s, i) == i < Len(s) /\ <<s[i], s[i + 1]>> \in {Symbol[32], Symbol[10]}

(* Two neighbours are a part of two.                                       *)
LEMMA PairIs ==
  ASSUME NEW s \in String, NEW i \in 1..Len(s)
  PROVE  i < Len(s) => SubSeq(s, i, i + 1) = <<s[i], s[i + 1]>>
<1> SUFFICES ASSUME i < Len(s) PROVE SubSeq(s, i, i + 1) = <<s[i], s[i + 1]>> OBVIOUS
<1> DEFINE u == SubSeq(s, i, i + 1)
           x == s[i]
           y == s[i + 1]
<1>1. s \in Seq(Nat) /\ i + 1 \in 1..Len(s) /\ i \in 1..Len(s) BY DEF String
<1>2. /\ u \in Seq(Nat) /\ Len(u) = (i + 1) - i + 1
      /\ \A k \in 1..((i + 1) - i + 1) : u[k] = s[k + i - 1]
  <2>1. i \in Int /\ i + 1 \in Int /\ 1 <= i /\ i + 1 <= Len(s) /\ i <= (i + 1) + 1 BY <1>1
  <2> QED BY <1>1, <2>1, SubSeqIs
<1>3. (i + 1) - i + 1 = 2 /\ 1 + i - 1 = i /\ 2 + i - 1 = i + 1 BY <1>1
<1> HIDE DEF u
<1>4. Len(u) = 2 /\ u[1] = x /\ u[2] = y
  <2>1. Len(u) = 2 BY <1>2, <1>3
  <2>2. 1 \in 1..((i + 1) - i + 1) /\ 2 \in 1..((i + 1) - i + 1) BY <1>3
  <2>3. u[1] = s[1 + i - 1] /\ u[2] = s[2 + i - 1] BY <1>2, <2>2
  <2> QED BY <1>3, <2>1, <2>3
<1>5. x \in Nat /\ y \in Nat BY <1>1
<1> HIDE DEF x, y
<1>6. u = <<x, y>> BY <1>2, <1>4, <1>5
<1> QED BY <1>6 DEF u, x, y

(* With one kind of mark only, a mark is two bytes long or there is none.  *)
LEMMA MarkIs ==
  ASSUME NEW s \in String, OneMarkOnly(s), NEW i \in 1..Len(s)
  PROVE  IF Replaces(s, i) THEN MarkAt(s, i) = 2 ELSE MarkAt(s, i) = 0
<1> DEFINE L == MarkAt(s, i)
           m == SubSeq(s, i, i + L - 1)
           z == Len(s)
<1>0. s \in Seq(Nat) /\ z \in Nat /\ i \in 1..z BY DEF String
<1>1. /\ L \in 0..(z - i + 1)
      /\ L > 0 => L \in LongestAt(Marks, s, i)
      /\ \A n \in LongestAt(Marks, s, i) : n <= L
  BY LongestIs DEF MarkAt
<1>2. Symbol[32] = <<196, 160>> /\ Symbol[10] = <<196, 138>> BY BlankSymbols
<1>3. L > 0 => L = 2 /\ i < z /\ m \in {Symbol[32], Symbol[10]}
  <2> SUFFICES ASSUME L > 0 PROVE L = 2 /\ i < z /\ m \in {Symbol[32], Symbol[10]} OBVIOUS
  <2>1. m \in Marks BY <1>1 DEF LongestAt
  <2>2. m \in {Symbol[32], Symbol[10]}
    <3> SUFFICES ASSUME m \notin {Symbol[32], Symbol[10]} PROVE FALSE OBVIOUS
    <3>1. m \in (Blank \cup LineBreak) \ {Symbol[32], Symbol[10]} BY <2>1 DEF Marks
    <3>2. i \in DOMAIN s BY <1>0
    <3> DEFINE K == Longest({m}, s, i)
    <3>3. ~(K > 0)
      <4> HIDE DEF m
      <4> QED BY <3>1, <3>2 DEF OneMarkOnly
    <3>4. L \in LongestAt({m}, s, i)
      <4>1. L \in 1..(Len(s) - i + 1) /\ SubSeq(s, i, i + L - 1) = m BY <1>1 DEF LongestAt
      <4> HIDE DEF m, L
      <4> QED BY <4>1 DEF LongestAt
    <3>5. L <= K
      <4> HIDE DEF m
      <4> QED BY <3>4, LongestIs
    <3>6. K \in Int
      <4> HIDE DEF m
      <4>1. K \in 0..(z - i + 1) BY LongestIs
      <4> HIDE DEF K
      <4> QED BY <1>0, <4>1
    <3> HIDE DEF K, L
    <3> QED BY <1>0, <1>1, <3>3, <3>5, <3>6
  <2>3. Len(m) = 2
    <3>1. \A a, b : Len(<<a, b>>) = 2 OBVIOUS
    <3> HIDE DEF m
    <3> QED BY <1>2, <2>2, <3>1
  <2>4. Len(m) = (i + L - 1) - i + 1
    <3> DEFINE e == i + L - 1
    <3>1. e \in Int /\ 1 <= i /\ e <= Len(s) /\ i <= e + 1 /\ i \in Int
      <4> HIDE DEF L
      <4> QED BY <1>0, <1>1
    <3> HIDE DEF e
    <3>2. Len(SubSeq(s, i, e)) = e - i + 1 BY <1>0, <3>1, SubSeqIs
    <3> QED BY <3>2 DEF e
  <2> DEFINE c == Len(m)
  <2>5. L = 2
    <3>1. L \in 0..(z - i + 1) BY <1>1
    <3>2. c = 2 /\ c = (i + L - 1) - i + 1 BY <2>3, <2>4
    <3> HIDE DEF c, m, L, z
    <3>3. L \in Int /\ i \in Int BY <1>0, <3>1
    <3> QED BY <3>2, <3>3
  <2>6. L \in 0..(z - i + 1) BY <1>1
  <2> HIDE DEF c, m, L, z
  <2>7. i < z BY <1>0, <2>5, <2>6
  <2> QED BY <2>2, <2>5, <2>7
<1>4. L > 0 => Replaces(s, i)
  <2> SUFFICES ASSUME L > 0 PROVE Replaces(s, i) OBVIOUS
  <2>1. L = 2 /\ i < z /\ m \in {Symbol[32], Symbol[10]} BY <1>3
  <2>2. i + L - 1 = i + 1 BY <1>0, <2>1
  <2>3. m = <<s[i], s[i + 1]>>
    <3>1. m = SubSeq(s, i, i + 1) BY <2>2
    <3> QED BY <2>1, <3>1, PairIs
  <2> QED BY <2>1, <2>3 DEF Replaces
<1>5. Replaces(s, i) => L > 0
  <2> SUFFICES ASSUME Replaces(s, i) PROVE L > 0 OBVIOUS
  <2>1. i < z /\ <<s[i], s[i + 1]>> \in {Symbol[32], Symbol[10]} BY DEF Replaces
  <2>2. SubSeq(s, i, i + 1) \in Marks
    <3>1. SubSeq(s, i, i + 1) = <<s[i], s[i + 1]>> BY <2>1, PairIs
    <3>2. <<196, 160>> \in Marks /\ <<196, 138>> \in Marks BY DEF Marks, Blank, LineBreak
    <3> DEFINE u == SubSeq(s, i, i + 1)
    <3>3. u \in {<<196, 160>>, <<196, 138>>} BY <1>2, <2>1, <3>1
    <3> HIDE DEF u
    <3>4. u \in Marks BY <3>2, <3>3
    <3> QED BY <3>4 DEF u
  <2>3. 2 \in 1..(Len(s) - i + 1) /\ i + 2 - 1 = i + 1 BY <1>0, <2>1
  <2>4. 2 \in LongestAt(Marks, s, i) BY <2>2, <2>3 DEF LongestAt
  <2>5. 2 <= L BY <1>1, <2>4
  <2> HIDE DEF L
  <2> QED BY <1>0, <1>1, <2>5
<1> HIDE DEF L, m
<1>6. ~(L > 0) => L = 0 BY <1>0, <1>1
<1> QED BY <1>3, <1>4, <1>5, <1>6 DEF L

(* The loop that replaces marks.                                           *)
RmPiece(s) ==
  [i \in DOMAIN s |->
     CASE MarkAt(s, i) = 0 -> <<s[i]>>
       [] SubSeq(s, i, i + MarkAt(s, i) - 1) \in Blank -> <<32>>
       [] SubSeq(s, i, i + MarkAt(s, i) - 1) \in LineBreak -> <<10>>]
RmNext(s) == [i \in DOMAIN s |-> i + IF MarkAt(s, i) = 0 THEN 1 ELSE MarkAt(s, i)]
RmFrom(s) == Onward(RmPiece(s), RmNext(s))
RmLoop(s) ==
  /\ RmFrom(s) \in [1..(Len(s) + 1) -> Seq(Nat)] /\ RmFrom(s)[Len(s) + 1] = << >>
  /\ \A i \in 1..Len(s) :
       IF Replaces(s, i)
       THEN RmFrom(s)[i] = <<SymbolByte[<<s[i], s[i + 1]>>]>> \o RmFrom(s)[i + 2]
       ELSE RmFrom(s)[i] = <<s[i]>> \o RmFrom(s)[i + 1]

(* A mark that streaming replaces is the symbol of a space or a newline.   *)
LEMMA ReplacedIs ==
  ASSUME NEW s, NEW i, Replaces(s, i)
  PROVE  /\ Spells(s[i], s[i + 1]) /\ SymbolByte[<<s[i], s[i + 1]>>] \in {32, 10}
         /\ s[i] = 196 /\ i < Len(s)
         /\ <<s[i], s[i + 1]>> \in Blank => SymbolByte[<<s[i], s[i + 1]>>] = 32
         /\ <<s[i], s[i + 1]>> \notin Blank => SymbolByte[<<s[i], s[i + 1]>>] = 10 /\ <<s[i], s[i + 1]>> \in LineBreak
<1> DEFINE p == <<s[i], s[i + 1]>>
<1>1. i < Len(s) /\ p \in {Symbol[32], Symbol[10]} BY DEF Replaces
<1>2. /\ Symbol[32] \in DOMAIN SymbolByte /\ SymbolByte[Symbol[32]] = 32
      /\ Symbol[10] \in DOMAIN SymbolByte /\ SymbolByte[Symbol[10]] = 10
  <2>1. 32 \in 0..255 /\ 10 \in 0..255 BY SMT
  <2> QED BY <2>1, SymbolBack
<1>3. Symbol[32] = <<196, 160>> /\ Symbol[10] = <<196, 138>> BY BlankSymbols
<1>4. Symbol[32] \in Blank /\ Symbol[10] \in LineBreak BY <1>3 DEF Blank, LineBreak
<1>5. Symbol[10] \notin Blank
  <2>1. <<196, 138>> # <<196, 160>> /\ <<196, 138>> # <<226, 150, 129>> /\ <<196, 138>> # <<195, 132, 194, 160>>
    OBVIOUS
  <2> QED BY <1>3, <2>1 DEF Blank, WordMark
<1>6. p[1] = s[i] OBVIOUS
<1>7. s[i] = 196
  <2>1. Symbol[32][1] = 196 /\ Symbol[10][1] = 196 BY <1>3
  <2> HIDE DEF p
  <2> QED BY <1>1, <1>6, <2>1
<1> HIDE DEF p
<1>8. p \in DOMAIN SymbolByte /\ SymbolByte[p] \in {32, 10} BY <1>1, <1>2
<1>9. /\ p \in Blank => SymbolByte[p] = 32
      /\ p \notin Blank => SymbolByte[p] = 10 /\ p \in LineBreak
  BY <1>1, <1>2, <1>4, <1>5
<1> QED BY <1>1, <1>7, <1>8, <1>9 DEF p, Spells

(* Replacing the marks is its loop, begun at position 1.                   *)
LEMMA RmLoopIs ==
  ASSUME NEW s \in String, OneMarkOnly(s)
  PROVE  RmLoop(s) /\ ReplaceMarks(s) = RmFrom(s)[1]
<1> DEFINE n == Len(s)
           p == RmPiece(s)
           nx == RmNext(s)
           R == RmFrom(s)
<1>1. n \in Nat /\ DOMAIN s = 1..n /\ \A i \in 1..n : s[i] \in Nat BY DEF String
<1>2. ASSUME NEW i \in 1..n
      PROVE  /\ IF Replaces(s, i) THEN p[i] = <<SymbolByte[<<s[i], s[i + 1]>>]>> /\ nx[i] = i + 2
                                  ELSE p[i] = <<s[i]>> /\ nx[i] = i + 1
             /\ p[i] \in Seq(Nat) /\ nx[i] \in (i + 1)..(n + 1)
  <2> DEFINE L == MarkAt(s, i)
             c == SubSeq(s, i, i + L - 1)
             x == <<s[i], s[i + 1]>>
  <2>1. IF Replaces(s, i) THEN L = 2 ELSE L = 0 BY MarkIs
  <2>2. /\ L = 0 => p[i] = <<s[i]>>
        /\ L # 0 /\ c \in Blank => p[i] = <<32>>
        /\ L # 0 /\ c \notin Blank /\ c \in LineBreak => p[i] = <<10>>
    <3>1. p[i] = CASE L = 0 -> <<s[i]>> [] c \in Blank -> <<32>> [] c \in LineBreak -> <<10>>
      BY <1>1 DEF RmPiece
    <3>2. c \in Blank \/ c \in LineBreak => L # 0
      <4> SUFFICES ASSUME L = 0 PROVE c \notin Blank /\ c \notin LineBreak OBVIOUS
      <4>1. i + L - 1 < i /\ i + L - 1 \in Int /\ i \in Int BY <1>1
      <4> DEFINE e == i + L - 1
      <4>2. c = << >>
        <5> HIDE DEF e
        <5>1. e < i /\ e \in Int /\ i \in Int BY <4>1 DEF e
        <5>2. SubSeq(s, i, e) = << >> BY <5>1
        <5> QED BY <5>2 DEF e
      <4> HIDE DEF c
      <4>3. \A mark \in Blank \cup LineBreak : mark # << >> BY DEF Blank, LineBreak, WordMark
      <4> QED BY <4>2, <4>3
    <3>3. ~(c \in Blank /\ c \in LineBreak)
      <4>1. \A mark \in Blank : mark \notin LineBreak
        <5>1. \A mark \in Blank : mark = <<226, 150, 129>> \/ mark = <<196, 160>> \/ mark = <<195, 132, 194, 160>>
          BY DEF Blank, WordMark
        <5>2. \A mark \in LineBreak : mark = <<196, 138>> \/ mark = <<195, 132, 194, 138>> BY DEF LineBreak
        <5> QED BY <5>1, <5>2
      <4> QED BY <4>1
    <3> HIDE DEF L, c, p
    <3> QED BY <3>1, <3>2, <3>3
  <2>3. nx[i] = i + IF L = 0 THEN 1 ELSE L BY <1>1 DEF RmNext
  <2>4. CASE Replaces(s, i)
    <3>1. L = 2 BY <2>1, <2>4
    <3>2. nx[i] = i + 2 BY <2>3, <3>1
    <3>3. i < n BY <2>4 DEF Replaces
    <3>4. c = x
      <4>1. i + L - 1 = i + 1 BY <1>1, <3>1
      <4>2. c = SubSeq(s, i, i + 1) BY <4>1
      <4> QED BY <3>3, <4>2, PairIs
    <3>5. p[i] = <<SymbolByte[x]>>
      <4>1. /\ x \in Blank => SymbolByte[x] = 32
            /\ x \notin Blank => SymbolByte[x] = 10 /\ x \in LineBreak
        BY <2>4, ReplacedIs
      <4>a. L # 0 BY <3>1
      <4> HIDE DEF x, c, L, p
      <4>2. CASE x \in Blank BY <2>2, <4>a, <3>4, <4>1, <4>2
      <4>3. CASE x \notin Blank BY <2>2, <4>a, <3>4, <4>1, <4>3
      <4> QED BY <4>2, <4>3
    <3>6. p[i] \in Seq(Nat)
      <4>1. SymbolByte[x] \in {32, 10} BY <2>4, ReplacedIs
      <4> DEFINE b == SymbolByte[x]
      <4>2. b \in Nat BY <4>1
      <4> HIDE DEF b, p
      <4> QED BY <3>5, <4>2 DEF b
    <3>7. nx[i] \in (i + 1)..(n + 1)
      <4> HIDE DEF n, nx
      <4> QED BY <1>1, <3>2, <3>3
    <3> QED BY <2>4, <3>2, <3>5, <3>6, <3>7
  <2>5. CASE ~Replaces(s, i)
    <3>1. L = 0 BY <2>1, <2>5
    <3>2. p[i] = <<s[i]>> /\ nx[i] = i + 1
      <4> HIDE DEF L, c, p, nx
      <4> QED BY <2>2, <2>3, <3>1
    <3>3. p[i] \in Seq(Nat)
      <4> HIDE DEF p
      <4> QED BY <1>1, <3>2
    <3>4. nx[i] \in (i + 1)..(n + 1)
      <4> HIDE DEF n, nx
      <4> QED BY <1>1, <3>2
    <3> QED BY <2>5, <3>2, <3>3, <3>4
  <2> QED BY <2>4, <2>5
<1>3. p = [i \in 1..n |-> p[i]]
  <2> DEFINE B(i) == CASE MarkAt(s, i) = 0 -> <<s[i]>>
                       [] SubSeq(s, i, i + MarkAt(s, i) - 1) \in Blank -> <<32>>
                       [] SubSeq(s, i, i + MarkAt(s, i) - 1) \in LineBreak -> <<10>>
  <2>1. p = [i \in DOMAIN s |-> B(i)] BY DEF RmPiece
  <2> HIDE DEF B, p
  <2> QED BY <1>1, <2>1
<1>4. R = Onward(p, nx) BY DEF RmFrom
<1>5. ReplaceMarks(s) = R[1] BY DEF ReplaceMarks, RmFrom, RmPiece, RmNext, Walk, MarkAt, Marks
<1> HIDE DEF p, nx, n, R
<1>6. Len(p) = n /\ Unfolds(Nat, p, nx)
  <2> DEFINE Z == Nat
  <2>1. \A i \in 1..n : p[i] \in Seq(Z) BY <1>2
  <2>2. \A i \in 1..n : nx[i] \in (i + 1)..(n + 1) BY <1>2
  <2>3. n \in Nat BY <1>1
  <2> HIDE DEF Z
  <2>4. Len(p) = n /\ Unfolds(Z, p, nx) BY <1>3, <2>1, <2>2, <2>3, LoopOf
  <2> QED BY <2>4 DEF Z
<1>7. /\ R \in [1..(n + 1) -> Seq(Nat)] /\ R[n + 1] = << >>
      /\ \A i \in 1..n : R[i] = p[i] \o R[nx[i]]
  BY <1>4, <1>6 DEF Unfolds
<1>8. ASSUME NEW i \in 1..n
      PROVE  IF Replaces(s, i)
             THEN R[i] = <<SymbolByte[<<s[i], s[i + 1]>>]>> \o R[i + 2]
             ELSE R[i] = <<s[i]>> \o R[i + 1]
  <2>1. R[i] = p[i] \o R[nx[i]] BY <1>7
  <2>2. CASE Replaces(s, i)
    <3>1. p[i] = <<SymbolByte[<<s[i], s[i + 1]>>]>> /\ nx[i] = i + 2 BY <1>2, <2>2
    <3> QED BY <2>1, <2>2, <3>1
  <2>3. CASE ~Replaces(s, i)
    <3>1. p[i] = <<s[i]>> /\ nx[i] = i + 1 BY <1>2, <2>3
    <3> QED BY <2>1, <2>3, <3>1
  <2> QED BY <2>2, <2>3
<1> QED BY <1>5, <1>7, <1>8 DEF RmLoop, n, R

(* Two joined are a pair.                                                  *)
LEMMA CatOnes == ASSUME NEW x \in Nat, NEW y \in Nat PROVE <<x>> \o <<y>> = <<x, y>>
<1> DEFINE a == <<x>>
           b == <<y>>
           c == a \o b
<1>1. a \in Seq(Nat) /\ b \in Seq(Nat) /\ Len(a) = 1 /\ Len(b) = 1 /\ a[1] = x /\ b[1] = y OBVIOUS
<1> HIDE DEF a, b
<1>2. c \in Seq(Nat) /\ Len(c) = 2
  <2>1. c \in Seq(Nat) /\ Len(c) = Len(a) + Len(b) BY <1>1, ConcatProperties
  <2> HIDE DEF c
  <2> QED BY <1>1, <2>1
<1>3. /\ \A j \in 1..Len(a) : c[j] = a[j]
      /\ \A j \in 1..Len(b) : c[Len(a) + j] = b[j]
  <2>1. a \in Seq(Nat) /\ b \in Seq(Nat) BY <1>1
  <2> QED BY <2>1, CatElements
<1> HIDE DEF c
<1>4. c[1] = x /\ c[2] = y
  <2>1. c[1] = a[1] BY <1>1, <1>3
  <2>2. c[1 + 1] = b[1] BY <1>1, <1>3
  <2> QED BY <1>1, <2>1, <2>2
<1>5. c = <<x, y>> BY <1>2, <1>4
<1> QED BY <1>5 DEF a, b, c

(* What the text of a piece, marks replaced, begins with.                  *)
LEMMA RmFirst ==
  ASSUME NEW s \in String, OneMarkOnly(s), NEW i \in 1..Len(s)
  PROVE  RmFrom(s)[i] # << >> /\ RmFrom(s)[i][1] \in {s[i], 32, 10}
<1> DEFINE R == RmFrom(s)
           n == Len(s)
<1>1. /\ R \in [1..(n + 1) -> Seq(Nat)]
      /\ IF Replaces(s, i) THEN R[i] = <<SymbolByte[<<s[i], s[i + 1]>>]>> \o R[i + 2]
         ELSE R[i] = <<s[i]>> \o R[i + 1]
  BY RmLoopIs DEF RmLoop
<1>2. n \in Nat /\ s[i] \in Nat BY DEF String
<1>3. \A x \in Nat : \A q \in Seq(Nat) : <<x>> \o q # << >> /\ (<<x>> \o q)[1] = x OBVIOUS
<1>4. CASE Replaces(s, i)
  <2> DEFINE b == SymbolByte[<<s[i], s[i + 1]>>]
  <2>1. b \in {32, 10} /\ i < n BY <1>4, ReplacedIs
  <2>2. i + 2 \in 1..(n + 1) BY <1>2, <2>1
  <2>3. R[i] = <<b>> \o R[i + 2] BY <1>1, <1>4
  <2> HIDE DEF b, R, n
  <2>4. R[i + 2] \in Seq(Nat) /\ b \in Nat BY <1>1, <2>1, <2>2
  <2>5. R[i] # << >> /\ R[i][1] = b BY <1>3, <2>3, <2>4
  <2> QED BY <2>1, <2>5 DEF R
<1>5. CASE ~Replaces(s, i)
  <2>1. i + 1 \in 1..(n + 1) BY <1>2
  <2>2. R[i] = <<s[i]>> \o R[i + 1] BY <1>1, <1>5
  <2> HIDE DEF R, n
  <2>3. R[i + 1] \in Seq(Nat) BY <1>1, <2>1
  <2>4. R[i] # << >> /\ R[i][1] = s[i] BY <1>2, <1>3, <2>2, <2>3
  <2> QED BY <2>4 DEF R
<1> QED BY <1>4, <1>5

(* Replacing the marks first makes no difference to what is decoded.       *)
LEMMA RenderedIs ==
  ASSUME NEW s \in String, OneMarkOnly(s)
  PROVE  RenderPiece(s) = ByteLevelDecode(s)
<1> DEFINE n == Len(s)
           R == RmFrom(s)
           W == DecFrom(s)
           U == {i \in 1..(n + 1) : ByteLevelDecode(R[i]) = W[i]}
<1>1. n \in Nat /\ \A i \in 1..n : s[i] \in Nat BY DEF String
<1>2. /\ R \in [1..(n + 1) -> Seq(Nat)] /\ R[n + 1] = << >>
      /\ \A i \in 1..n : IF Replaces(s, i)
                         THEN R[i] = <<SymbolByte[<<s[i], s[i + 1]>>]>> \o R[i + 2]
                         ELSE R[i] = <<s[i]>> \o R[i + 1]
  BY RmLoopIs DEF RmLoop
<1>3. /\ W \in [1..(n + 1) -> Seq(Nat)] /\ W[n + 1] = << >>
      /\ \A i \in 1..n : W[i] = DecPiece(s)[i] \o W[i + SymbolLen(s, i)]
  BY DecLoop DEF DecUnfolds
<1>4. \A i \in 1..(n + 1) : R[i] \in String
  <2> HIDE DEF R, n
  <2> QED BY <1>2 DEF String
<1>5. \A i \in 1..n : /\ SymbolLen(s, i) = 2 <=> i < n /\ Spells(s[i], s[i + 1])
                      /\ SymbolLen(s, i) \in 1..2
                      /\ SymbolLen(s, i) = 1 => DecPiece(s)[i] = <<s[i]>>
                      /\ SymbolLen(s, i) = 2 => DecPiece(s)[i] = <<SymbolByte[<<s[i], s[i + 1]>>]>>
  BY DecAt
<1>6. 32 \notin Leading /\ 10 \notin Leading /\ 32 \notin Trailing /\ 10 \notin Trailing
      /\ \A x : ~(x \in Leading /\ x \in Trailing)
  BY DEF Leading, Trailing
<1>7. \A x, y : Spells(x, y) => x \in Leading /\ y \in Trailing BY SymbolsAre
<1> HIDE DEF R, W, n
<1>8. ASSUME NEW i \in 1..(n + 1), \A j \in (i + 1)..(n + 1) : j \in U PROVE i \in U
  <2>1. CASE i = n + 1 BY <1>2, <1>3, <2>1, DecodeNone
  <2>2. CASE i # n + 1 /\ Replaces(s, i)
    <3> DEFINE b == SymbolByte[<<s[i], s[i + 1]>>]
    <3>1. i \in 1..n BY <1>1, <2>2
    <3>2. Spells(s[i], s[i + 1]) /\ b \in {32, 10} /\ i < n BY <2>2, ReplacedIs DEF n
    <3>3. i + 2 \in (i + 1)..(n + 1) BY <1>1, <3>1, <3>2
    <3>4. W[i] = <<b>> \o W[i + 2]
      <4>1. SymbolLen(s, i) = 2 BY <1>5, <3>1, <3>2
      <4>2. DecPiece(s)[i] = <<b>> BY <1>5, <3>1, <4>1
      <4>3. W[i] = DecPiece(s)[i] \o W[i + SymbolLen(s, i)] BY <1>3, <3>1
      <4> QED BY <4>1, <4>2, <4>3
    <3>5. R[i] = <<b>> \o R[i + 2] BY <1>2, <2>2, <3>1
    <3> HIDE DEF b
    <3>6. b \in Nat BY <3>2
    <3>7. ByteLevelDecode(R[i + 2]) = W[i + 2] BY <1>8, <3>3
    <3>8. R[i + 2] \in String
      <4>1. i + 2 \in 1..(n + 1) BY <3>1, <3>3
      <4> QED BY <1>4, <4>1
    <3>9. ~Meeting(<<b>>, R[i + 2])
      <4>1. <<b>>[Len(<<b>>)] = b OBVIOUS
      <4>2. b \notin Leading BY <1>6, <3>2
      <4> QED BY <1>7, <4>1, <4>2 DEF Meeting
    <3>10. ByteLevelDecode(<<b>>) = <<b>> /\ <<b>> \in String BY <3>6, DecodeOne
    <3>11. ByteLevelDecode(<<b>> \o R[i + 2]) = ByteLevelDecode(<<b>>) \o ByteLevelDecode(R[i + 2])
      BY <3>8, <3>9, <3>10, DecodeCat
    <3> QED BY <3>4, <3>5, <3>7, <3>10, <3>11
  <2>3. CASE i # n + 1 /\ ~Replaces(s, i) /\ SymbolLen(s, i) = 1
    <3> DEFINE x == s[i]
               q == R[i + 1]
    <3>1. i \in 1..n /\ i + 1 \in 1..(n + 1) /\ i + 1 \in (i + 1)..(n + 1) BY <1>1, <2>3
    <3>2. W[i] = <<x>> \o W[i + 1]
      <4>1. DecPiece(s)[i] = <<x>> BY <1>5, <2>3, <3>1
      <4>2. W[i] = DecPiece(s)[i] \o W[i + SymbolLen(s, i)] BY <1>3, <3>1
      <4> QED BY <2>3, <4>1, <4>2
    <3>3. R[i] = <<x>> \o q BY <1>2, <2>3, <3>1
    <3>4. x \in Nat BY <1>1, <3>1
    <3>5. q \in String /\ ByteLevelDecode(q) = W[i + 1] BY <1>4, <1>8, <3>1
    <3>6. ~Meeting(<<x>>, q)
      <4>1. <<x>>[Len(<<x>>)] = x OBVIOUS
      <4>2. SUFFICES ASSUME q # << >>, Spells(x, q[1]) PROVE FALSE BY <4>1 DEF Meeting
      <4>3. i < n
        <5>1. i # n BY <1>2, <4>2
        <5> QED BY <1>1, <3>1, <5>1
      <4>4. i + 1 \in 1..n BY <1>1, <3>1, <4>3
      <4>5. q[1] \in {s[i + 1], 32, 10} BY <4>4, RmFirst DEF R, n
      <4>6. q[1] \in Trailing BY <1>7, <4>2
      <4>7. q[1] = s[i + 1] BY <1>6, <4>5, <4>6
      <4>8. SymbolLen(s, i) = 2 BY <1>5, <3>1, <4>2, <4>3, <4>7
      <4> QED BY <2>3, <4>8
    <3> HIDE DEF x, q
    <3>7. ByteLevelDecode(<<x>>) = <<x>> /\ <<x>> \in String BY <3>4, DecodeOne
    <3>8. ByteLevelDecode(<<x>> \o q) = ByteLevelDecode(<<x>>) \o ByteLevelDecode(q)
      BY <3>5, <3>6, <3>7, DecodeCat
    <3> QED BY <3>2, <3>3, <3>5, <3>7, <3>8
  <2>4. CASE i # n + 1 /\ ~Replaces(s, i) /\ SymbolLen(s, i) = 2
    <3> DEFINE x == s[i]
               y == s[i + 1]
               b == SymbolByte[<<x, y>>]
               q == R[i + 2]
    <3>1. i \in 1..n BY <1>1, <2>4
    <3>2. i < n /\ Spells(x, y) BY <1>5, <2>4, <3>1
    <3>3. i + 1 \in 1..n /\ i + 2 \in 1..(n + 1) /\ i + 2 \in (i + 1)..(n + 1) BY <1>1, <3>1, <3>2
    <3>4. W[i] = <<b>> \o W[i + 2]
      <4>1. DecPiece(s)[i] = <<b>> BY <1>5, <2>4, <3>1
      <4>2. W[i] = DecPiece(s)[i] \o W[i + SymbolLen(s, i)] BY <1>3, <3>1
      <4> QED BY <2>4, <4>1, <4>2
    <3>5. y \in Trailing /\ y \notin Leading BY <1>6, <1>7, <3>2
    <3>6. ~Replaces(s, i + 1)
      <4> SUFFICES ASSUME Replaces(s, i + 1) PROVE FALSE OBVIOUS
      <4>1. Spells(s[i + 1], s[(i + 1) + 1]) BY ReplacedIs, Zenon
      <4>2. y \in Leading BY <1>7, <4>1
      <4> QED BY <3>5, <4>2
    <3>7. R[i] = <<x>> \o R[i + 1] BY <1>2, <2>4, <3>1
    <3>8. R[i + 1] = <<y>> \o q
      <4>1. R[i + 1] = <<s[i + 1]>> \o R[(i + 1) + 1] BY <1>2, <3>3, <3>6
      <4>2. (i + 1) + 1 = i + 2 BY <3>1
      <4> QED BY <4>1, <4>2
    <3>9. q \in String /\ ByteLevelDecode(q) = W[i + 2] BY <1>4, <1>8, <3>3
    <3>10. x \in Nat /\ y \in Nat BY <1>1, <3>1, <3>3
    <3> HIDE DEF x, y, q, b
    <3>11. R[i] = <<x, y>> \o q
      <4>1. q \in Seq(Nat) BY <3>9 DEF String
      <4>2. <<x>> \o (<<y>> \o q) = <<x, y>> \o q
        <5> DEFINE a == <<x>>
                   c == <<y>>
        <5>a. a \in Seq(Nat) /\ c \in Seq(Nat) BY <3>10
        <5>b. a \o c = <<x, y>>
          BY <3>10, CatOnes
        <5>1. a \in Seq(Nat) /\ c \in Seq(Nat) /\ a \o c = <<x, y>> BY <5>a, <5>b
        <5> HIDE DEF a, c
        <5>2. Cat(Cat(a, c), q) = Cat(a, Cat(c, q)) BY <4>1, <5>1, CatInAnyOrder
        <5> QED BY <5>1, <5>2 DEF Cat, a, c
      <4> QED BY <3>7, <3>8, <4>2
    <3>12. ByteLevelDecode(<<x, y>>) = <<b>> /\ <<x, y>> \in String BY <3>2, DecodePair DEF b
    <3>13. ~Meeting(<<x, y>>, q)
      <4>1. <<x, y>>[Len(<<x, y>>)] = y OBVIOUS
      <4> QED BY <1>7, <3>5, <4>1 DEF Meeting
    <3>14. ByteLevelDecode(<<x, y>> \o q) = ByteLevelDecode(<<x, y>>) \o ByteLevelDecode(q)
      BY <3>9, <3>12, <3>13, DecodeCat
    <3> QED BY <3>4, <3>9, <3>11, <3>12, <3>14
  <2>5. i # n + 1 => SymbolLen(s, i) = 1 \/ SymbolLen(s, i) = 2
    <3>1. i # n + 1 => i \in 1..n BY <1>1
    <3> DEFINE w == SymbolLen(s, i)
    <3>2. i # n + 1 => w \in 1..2 BY <1>5, <3>1
    <3> HIDE DEF w
    <3>3. i # n + 1 => w = 1 \/ w = 2 BY <3>2
    <3> QED BY <3>3 DEF w
  <2> QED BY <2>1, <2>2, <2>3, <2>4, <2>5
<1>9. \A i \in 1..(n + 1) : i \in U
  <2>1. n + 1 \in Nat BY <1>1
  <2> HIDE DEF U
  <2> QED BY <1>8, <2>1, Downward
<1>10. ByteLevelDecode(R[1]) = W[1]
  <2>1. 1 \in 1..(n + 1) BY <1>1
  <2> QED BY <1>9, <2>1
<1>11. ReplaceMarks(s) = R[1] BY RmLoopIs DEF R
<1>12. ByteLevelDecode(s) = W[1] BY DecodeIs DEF W
<1> QED BY <1>10, <1>11, <1>12 DEF RenderPiece

(* A piece is streamed as it is decoded.                                   *)
LEMMA StreamedPieceIs ==
  ASSUME NEW s \in String, s # << >>, OneMarkOnly(s)
  PROVE  StreamedPiece(s) = ByteLevelDecode(RawPiece(s))
<1>1. CASE IsByteToken(s)
  <2> DEFINE b == s[1] - 1000
  <2>1. s[1] \in 1000..1255 BY <1>1 DEF IsByteToken
  <2>2. b \in Nat
    <3> DEFINE x == s[1]
    <3>1. x \in 1000..1255 BY <2>1
    <3> HIDE DEF x
    <3>2. x - 1000 \in Nat BY <3>1, SMT
    <3> QED BY <3>2 DEF x
  <2>3. RawPiece(s) = <<b>> BY <1>1 DEF RawPiece
  <2>4. StreamedPiece(s) = <<b>> BY <1>1, <2>3 DEF StreamedPiece
  <2> HIDE DEF b
  <2> QED BY <2>2, <2>3, <2>4, DecodeOne
<1>2. CASE ~IsByteToken(s)
  <2>1. RawPiece(s) = s BY <1>2 DEF RawPiece
  <2>2. RenderPiece(s) = ByteLevelDecode(s) /\ ByteLevelDecode(s) # << >> BY RenderedIs, DecodeSome
  <2> QED BY <1>2, <2>1, <2>2 DEF StreamedPiece
<1> QED BY <1>1, <1>2

(* The text streamed for generated ids is the text they decode to.         *)
THEOREM AlwaysStreamedAsDecoded == TextSpec => []StreamedAsDecoded
<1>1. TextInv => StreamedAsDecoded
  <2> SUFFICES ASSUME TextInv, source = "generated", ~Confused(vocab, ids),
                      \A i \in DOMAIN ids : Token(vocab, ids[i]) # << >> /\ OneMarkOnly(Token(vocab, ids[i]))
               PROVE  Streamed(vocab, ids) = Decoded(vocab, ids)
    BY DEF StreamedAsDecoded
  <2> DEFINE v == vocab
  <2>1. v \in Vocabulary /\ ids \in Seq(0..(Len(v.tokens) - 1)) BY DEF TextInv
  <2>2. ids \in Seq(Ids)
    <3> DEFINE I == 0..(Len(v.tokens) - 1)
    <3>1. \A x \in I : x \in Ids BY DEF Ids
    <3> HIDE DEF I
    <3>2. ids \in Seq(I) BY <2>1 DEF I
    <3> QED BY <3>1, <3>2
  <2>3. Decoded(v, ids) = Gather(HeardOf(v), ids) BY <2>1, <2>2, DecodedByPiece
  <2>4. \A j \in DOMAIN ids : HeardOf(v)[ids[j]] = StreamedPiece(Token(v, ids[j]))
    <3>1. TAKE j \in DOMAIN ids
    <3>2. ids[j] \in Ids BY <2>2
    <3>3. HeardOf(v)[ids[j]] = ByteLevelDecode(RawPiece(Token(v, ids[j])))
      BY <3>2 DEF HeardOf, Said
    <3>4. Token(v, ids[j]) \in String BY <2>1, TokenType
    <3>5. StreamedPiece(Token(v, ids[j])) = ByteLevelDecode(RawPiece(Token(v, ids[j])))
      BY <3>4, StreamedPieceIs
    <3> QED BY <3>3, <3>5
  <2>5. Mapped(HeardOf(v), ids) = [j \in DOMAIN ids |-> StreamedPiece(Token(v, ids[j]))]
    BY <2>4 DEF Mapped
  <2>6. Streamed(v, ids) = Gather(HeardOf(v), ids) BY <2>5 DEF Streamed, Gather
  <2> QED BY <2>3, <2>6
<1> QED BY <1>1, AlwaysTextInv, PTL

-----------------------------------------------------------------------------
(* Cutting a sequence up loses nothing.                                    *)
LEMMA SubSeqJoin ==
  ASSUME NEW S, NEW s \in Seq(S), NEW i \in 1..(Len(s) + 1), NEW k \in i..(Len(s) + 1)
  PROVE  /\ SubSeq(s, i, k - 1) \o SubSeq(s, k, Len(s)) = SubSeq(s, i, Len(s))
         /\ SubSeq(s, i, k - 1) \in Seq(S) /\ SubSeq(s, k, Len(s)) \in Seq(S)
         /\ Len(SubSeq(s, i, k - 1)) = k - i
         /\ \A j \in 1..(k - i) : SubSeq(s, i, k - 1)[j] = s[j + i - 1]
<1> DEFINE n == Len(s)
           e == k - 1
           a == SubSeq(s, i, e)
           b == SubSeq(s, k, n)
           c == SubSeq(s, i, n)
           d == a \o b
<1>1. n \in Nat /\ i \in 1..(n + 1) /\ k \in i..(n + 1) OBVIOUS
<1>2. /\ e \in Int /\ n \in Int /\ k \in Int /\ i \in Int
      /\ 1 <= i /\ e <= Len(s) /\ i <= e + 1 /\ n <= Len(s) /\ 1 <= k /\ k <= n + 1 /\ i <= n + 1
      /\ e - i + 1 = k - i /\ (k - i) + (n - k + 1) = n - i + 1
  BY <1>1
<1>3. a \in Seq(S) /\ Len(a) = e - i + 1 /\ \A j \in 1..(e - i + 1) : a[j] = s[j + i - 1]
  <2> HIDE DEF e, n
  <2> QED BY <1>2, SubSeqIs
<1>4. b \in Seq(S) /\ Len(b) = n - k + 1 /\ \A j \in 1..(n - k + 1) : b[j] = s[j + k - 1]
  <2> HIDE DEF e, n
  <2> QED BY <1>2, SubSeqIs
<1>5. c \in Seq(S) /\ Len(c) = n - i + 1 /\ \A j \in 1..(n - i + 1) : c[j] = s[j + i - 1]
  <2> HIDE DEF e, n
  <2> QED BY <1>2, SubSeqIs
<1> HIDE DEF a, b, c
<1>6. d \in Seq(S) /\ Len(d) = Len(a) + Len(b)
  <2>1. a \in Seq(S) /\ b \in Seq(S) BY <1>3, <1>4
  <2> QED BY <2>1, ConcatProperties
<1>7. /\ \A j \in 1..Len(a) : d[j] = a[j]
      /\ \A j \in 1..Len(b) : d[Len(a) + j] = b[j]
  <2>1. a \in Seq(S) /\ b \in Seq(S) BY <1>3, <1>4
  <2> QED BY <2>1, CatElements
<1> HIDE DEF d
<1>8. Len(a) = k - i
  <2> HIDE DEF n, e
  <2> QED BY <1>2, <1>3
<1>9. Len(d) = n - i + 1
  <2> HIDE DEF n, e
  <2> QED BY <1>2, <1>4, <1>6, <1>8
<1>10. \A j \in 1..(n - i + 1) : d[j] = c[j]
  <2>1. TAKE j \in 1..(n - i + 1)
  <2>2. c[j] = s[j + i - 1] BY <1>5
  <2>3. CASE j <= k - i
    <3>1. j \in 1..Len(a)
      <4> HIDE DEF n, e
      <4> QED BY <1>2, <1>8, <2>3
    <3>2. d[j] = a[j] BY <1>7, <3>1
    <3>3. a[j] = s[j + i - 1] BY <1>3, <3>1
    <3> QED BY <2>2, <3>2, <3>3
  <2>4. CASE j > k - i
    <3> DEFINE h == j - (k - i)
    <3>1. h \in 1..(n - k + 1) /\ Len(a) + h = j /\ h + k - 1 = j + i - 1
      <4> HIDE DEF n, e
      <4> QED BY <1>2, <1>8, <2>4
    <3> HIDE DEF h
    <3>2. h \in 1..Len(b) BY <1>4, <3>1
    <3>3. d[j] = b[h] BY <1>7, <3>1, <3>2
    <3>4. b[h] = s[h + k - 1] BY <1>4, <3>1
    <3> QED BY <2>2, <3>1, <3>3, <3>4
  <2>5. j <= k - i \/ j > k - i
    <3> HIDE DEF n, e
    <3> QED BY <1>2
  <2> QED BY <2>3, <2>4, <2>5
<1>11. d = c
  <2>1. Len(d) = Len(c) /\ \A j \in 1..Len(d) : d[j] = c[j] BY <1>5, <1>9, <1>10
  <2> QED BY <1>5, <1>6, <2>1, SeqEqual
<1>12. \A j \in 1..(k - i) : a[j] = s[j + i - 1]
  <2> HIDE DEF n, e
  <2> QED BY <1>2, <1>3
<1> QED BY <1>3, <1>4, <1>8, <1>11, <1>12 DEF a, b, c, d, e, n

(* What is from i on begins with the element at i.                         *)
LEMMA RestIs ==
  ASSUME NEW S, NEW s \in Seq(S), NEW i \in 1..Len(s)
  PROVE  /\ SubSeq(s, i, Len(s)) = <<s[i]>> \o SubSeq(s, i + 1, Len(s))
         /\ SubSeq(s, i + 1, Len(s)) \in Seq(S) /\ s[i] \in S
<1> DEFINE k == i + 1
           a == SubSeq(s, i, k - 1)
           x == s[i]
<1>1. i \in 1..(Len(s) + 1) /\ k \in i..(Len(s) + 1) /\ k - i = 1 /\ 1 + i - 1 = i /\ x \in S OBVIOUS
<1>2. /\ a \o SubSeq(s, k, Len(s)) = SubSeq(s, i, Len(s))
      /\ a \in Seq(S) /\ SubSeq(s, k, Len(s)) \in Seq(S)
      /\ Len(a) = k - i /\ \A j \in 1..(k - i) : a[j] = s[j + i - 1]
  <2> HIDE DEF k
  <2> QED BY <1>1, SubSeqJoin
<1>3. Len(a) = 1 /\ a[1] = x
  <2> HIDE DEF a
  <2>1. 1 \in 1..(k - i) BY <1>1
  <2>2. a[1] = s[1 + i - 1] BY <1>2, <2>1
  <2> QED BY <1>1, <1>2, <2>2
<1> HIDE DEF a, x
<1>4. a = <<x>> BY <1>1, <1>2, <1>3
<1> QED BY <1>1, <1>2, <1>4 DEF k, x

(* The pieces a loop cuts, joined.                                         *)
Cuts(t, p, nx) ==
  /\ p = [i \in 1..Len(t) |-> p[i]]
  /\ \A i \in 1..Len(t) : p[i] = <<SubSeq(t, i, nx[i] - 1)>> /\ nx[i] \in (i + 1)..(Len(t) + 1)

(* What the loop cuts, joined, is the whole.                               *)
LEMMA CutWhole ==
  ASSUME NEW S, NEW t \in Seq(S), NEW p, NEW nx, Cuts(t, p, nx)
  PROVE  Concat(Onward(p, nx)[1]) = t /\ Onward(p, nx)[1] \in Seq(Seq(S))
<1> DEFINE n == Len(t)
           T == Seq(S)
           C == Onward(p, nx)
           U == {i \in 1..(n + 1) : Concat(C[i]) = SubSeq(t, i, n)}
<1>1. n \in Nat OBVIOUS
<1>2. \A i \in 1..n : p[i] = <<SubSeq(t, i, nx[i] - 1)>> /\ nx[i] \in (i + 1)..(n + 1) BY DEF Cuts
<1>3. ASSUME NEW i \in 1..n
      PROVE  LET a == SubSeq(t, i, nx[i] - 1)
             IN a \in T /\ SubSeq(t, i, n) = a \o SubSeq(t, nx[i], n) /\ nx[i] \in 1..(n + 1)
  <2> DEFINE k == nx[i]
  <2>1. k \in (i + 1)..(n + 1) BY <1>2
  <2> HIDE DEF k
  <2>2. k \in i..(Len(t) + 1) /\ i \in 1..(Len(t) + 1) /\ k \in 1..(n + 1) BY <1>1, <2>1
  <2>3. /\ SubSeq(t, i, k - 1) \o SubSeq(t, k, Len(t)) = SubSeq(t, i, Len(t))
        /\ SubSeq(t, i, k - 1) \in Seq(S)
    BY <2>2, SubSeqJoin
  <2> QED BY <2>2, <2>3 DEF k
<1>4. \A i \in 1..n : p[i] \in Seq(T)
  <2>1. TAKE i \in 1..n
  <2> DEFINE a == SubSeq(t, i, nx[i] - 1)
  <2>2. a \in T /\ p[i] = <<a>> BY <1>2, <1>3
  <2> HIDE DEF a, T
  <2> QED BY <2>2
<1>5. p = [i \in 1..n |-> p[i]] BY DEF Cuts
<1> HIDE DEF n
<1>6. Unfolds(T, p, nx) /\ Len(p) = n
  <2>1. \A i \in 1..n : nx[i] \in (i + 1)..(n + 1) BY <1>2
  <2> HIDE DEF T
  <2> QED BY <1>1, <1>4, <1>5, <2>1, LoopOf
<1>7. /\ C \in [1..(n + 1) -> Seq(T)] /\ C[n + 1] = << >>
      /\ \A i \in 1..n : C[i] = p[i] \o C[nx[i]]
  <2> HIDE DEF T
  <2> QED BY <1>6 DEF Unfolds
<1> HIDE DEF C
<1>8. ASSUME NEW i \in 1..(n + 1), \A j \in (i + 1)..(n + 1) : j \in U PROVE i \in U
  <2>1. CASE i = n + 1
    <3>1. SubSeq(t, n + 1, n) = << >> BY <1>1
    <3> QED BY <1>7, <2>1, <3>1, ConcatNone
  <2>2. CASE i # n + 1
    <3>1. i \in 1..n BY <1>1, <2>2
    <3> DEFINE a == SubSeq(t, i, nx[i] - 1)
               k == nx[i]
    <3>2. a \in T /\ SubSeq(t, i, n) = a \o SubSeq(t, k, n) /\ k \in 1..(n + 1) BY <1>3, <3>1
    <3>3. k \in (i + 1)..(n + 1) BY <1>2, <3>1
    <3>4. Concat(C[k]) = SubSeq(t, k, n) BY <1>8, <3>3
    <3>5. C[i] = <<a>> \o C[k] BY <1>2, <1>7, <3>1
    <3>6. C[k] \in Seq(T)
      <4> HIDE DEF k, T
      <4> QED BY <1>7, <3>2
    <3>7. Concat(<<a>> \o C[k]) = a \o Concat(C[k])
      <4> DEFINE b == C[k]
      <4>1. a \in Seq(S) /\ b \in Seq(Seq(S)) BY <3>2, <3>6
      <4> HIDE DEF a, b
      <4>2. Concat(<<a>> \o b) = a \o Concat(b) BY <4>1, ConcatHead
      <4> QED BY <4>2 DEF b
    <3> HIDE DEF a, k
    <3> QED BY <3>2, <3>4, <3>5, <3>7
  <2> QED BY <2>1, <2>2
<1>9. \A i \in 1..(n + 1) : i \in U
  <2>1. n + 1 \in Nat BY <1>1
  <2> HIDE DEF U
  <2> QED BY <1>8, <2>1, Downward
<1>10. 1 \in 1..(n + 1) BY <1>1
<1>11. Concat(C[1]) = SubSeq(t, 1, n) /\ C[1] \in Seq(T)
  <2>1. Concat(C[1]) = SubSeq(t, 1, n) BY <1>9, <1>10
  <2> HIDE DEF T
  <2> QED BY <1>7, <1>10, <2>1
<1>12. SubSeq(t, 1, n) = t BY DEF n
<1> QED BY <1>11, <1>12 DEF C

-----------------------------------------------------------------------------
(* The bytes of a text, character by character.                            *)
CharBytes == [ch \in Char |-> ch.bytes]

(* The bytes of a character are bytes.                                     *)
LEMMA CharBytesMap == Maps(CharBytes, Char, Octet)
BY DEF Maps, CharBytes, Char

(* The bytes of a text are those of each character, ...                    *)
LEMMA TextBytesIs == ASSUME NEW t \in Seq(Char) PROVE TextBytes(t) = Gather(CharBytes, t)
<1>1. \A i \in DOMAIN t : CharBytes[t[i]] = t[i].bytes
  <2>1. \A i \in DOMAIN t : t[i] \in Char OBVIOUS
  <2> QED BY <2>1 DEF CharBytes
<1>2. Mapped(CharBytes, t) = [i \in DOMAIN t |-> t[i].bytes] BY <1>1 DEF Mapped
<1> QED BY <1>2 DEF TextBytes, Gather

(* ... of two texts joined, the bytes of each, ...                         *)
LEMMA TextBytesCat ==
  ASSUME NEW a \in Seq(Char), NEW b \in Seq(Char)
  PROVE  TextBytes(a \o b) = TextBytes(a) \o TextBytes(b)
<1>1. a \o b \in Seq(Char) BY ConcatProperties
<1>2. Gather(CharBytes, a \o b) = Gather(CharBytes, a) \o Gather(CharBytes, b)
  BY CharBytesMap, GatherCat
<1> QED BY <1>1, <1>2, TextBytesIs

(* ... and of no text none.                                                *)
LEMMA TextBytesNone == TextBytes(<< >>) = << >>
<1>1. << >> \in Seq(Char) OBVIOUS
<1> QED BY <1>1, TextBytesIs, GatherNone

(* The parts of a text are all of it.                                      *)
LEMMA PartsWhole ==
  ASSUME NEW t \in Seq(Char), NEW mode
  PROVE  Concat(Parts(t, mode)) = t /\ Parts(t, mode) \in Seq(Seq(Char))
<1> DEFINE p == [i \in DOMAIN t |-> <<SubSeq(t, i, PartEnd(t, i, mode) - 1)>>]
           nx == [i \in DOMAIN t |-> PartEnd(t, i, mode)]
<1>1. DOMAIN t = 1..Len(t) OBVIOUS
<1>2. Cuts(t, p, nx)
  <2>1. \A i \in 1..Len(t) : nx[i] = PartEnd(t, i, mode) /\ p[i] = <<SubSeq(t, i, PartEnd(t, i, mode) - 1)>>
    BY <1>1
  <2>2. \A i \in 1..Len(t) : PartEnd(t, i, mode) \in (i + 1)..(Len(t) + 1) BY PartEndIs
  <2>3. p = [i \in 1..Len(t) |-> p[i]] BY <1>1
  <2> HIDE DEF p, nx
  <2> QED BY <2>1, <2>2, <2>3 DEF Cuts
<1>3. Parts(t, mode) = Onward(p, nx)[1] BY DEF Parts, Walk
<1> HIDE DEF p, nx
<1> QED BY <1>2, <1>3, CutWhole

(* The symbols of a string are all of it.                                  *)
LEMMA SplitWhole == ASSUME NEW s \in String PROVE Concat(SplitSymbols(s)) = s
<1> DEFINE p == CutPiece(s)
           nx == CutNext(s)
<1>1. s \in Seq(Nat) /\ DOMAIN s = 1..Len(s) BY DEF String
<1>2. Cuts(s, p, nx)
  <2>1. \A i \in 1..Len(s) : nx[i] = i + SymbolLen(s, i) /\ p[i] = <<SubSeq(s, i, i + SymbolLen(s, i) - 1)>>
    BY <1>1 DEF CutPiece, CutNext
  <2>2. \A i \in 1..Len(s) : i + SymbolLen(s, i) \in (i + 1)..(Len(s) + 1) BY SymbolLenIs
  <2>3. p = [i \in 1..Len(s) |-> p[i]] BY <1>1 DEF CutPiece
  <2>4. \A i \in 1..Len(s) : p[i] = <<SubSeq(s, i, nx[i] - 1)>> /\ nx[i] \in (i + 1)..(Len(s) + 1)
    <3>1. TAKE i \in 1..Len(s)
    <3> DEFINE w == SymbolLen(s, i)
    <3>2. nx[i] = i + w /\ p[i] = <<SubSeq(s, i, i + w - 1)>> BY <2>1
    <3>3. i + w \in (i + 1)..(Len(s) + 1) BY <2>2
    <3> HIDE DEF w, p, nx
    <3>4. nx[i] \in (i + 1)..(Len(s) + 1) BY <3>2, <3>3
    <3> DEFINE x == SubSeq(s, i, nx[i] - 1)
               y == SubSeq(s, i, i + w - 1)
    <3>5. p[i] = <<x>>
      <4>1. nx[i] - 1 = i + w - 1
        <5>1. w \in 1..2 BY SymbolLenIs DEF w
        <5>2. w \in Int /\ i \in Int BY <5>1
        <5> QED BY <3>2, <5>2
      <4>2. x = y BY <4>1, Zenon
      <4>3. p[i] = <<y>> BY <3>2
      <4> HIDE DEF x, y
      <4> QED BY <4>2, <4>3
    <3> QED BY <3>4, <3>5
  <2> HIDE DEF p, nx
  <2> QED BY <2>3, <2>4 DEF Cuts
<1>3. SplitSymbols(s) = Onward(p, nx)[1] BY SplitType
<1> HIDE DEF p, nx
<1> QED BY <1>1, <1>2, <1>3, CutWhole

-----------------------------------------------------------------------------
(* Strings of bytes that end where a symbol may end, and those of which    *)
(* every byte that leads a symbol is followed by the byte that ends it.    *)
Whole == {x \in Seq(Octet) : x # << >> => x[Len(x)] \notin Leading}
Paired == {x \in Seq(Octet) : \A i \in 1..Len(x) : x[i] \in Leading => i < Len(x) /\ Spells(x[i], x[i + 1])}

(* Bytes are a string.                                                     *)
LEMMA ByteString == \A x \in Seq(Octet) : x \in String
<1>1. \A b \in Octet : b \in Nat BY DEF Octet
<1> HIDE DEF Octet
<1>2. ASSUME NEW x \in Seq(Octet) PROVE x \in Seq(Nat)
  <2>1. Len(x) \in Nat /\ \A j \in 1..Len(x) : x[j] \in Nat BY <1>1
  <2>2. x = [j \in 1..Len(x) |-> x[j]] OBVIOUS
  <2> QED BY <2>1, <2>2
<1> QED BY <1>2 DEF String

(* A paired string is whole.                                               *)
LEMMA PairedIsWhole == \A x \in Paired : x \in Whole
<1>1. ASSUME NEW x \in Paired, x # << >> PROVE x[Len(x)] \notin Leading
  <2>1. x \in Seq(Octet) BY DEF Paired
  <2>2. Len(x) \in 1..Len(x)
    <3> HIDE DEF Octet
    <3> QED BY <1>1, <2>1
  <2>3. x[Len(x)] \in Leading => Len(x) < Len(x) BY <2>2 DEF Paired
  <2>4. ~(Len(x) < Len(x)) BY <2>2
  <2> QED BY <2>3, <2>4
<1> QED BY <1>1 DEF Whole, Paired

(* What is closed under joining.                                           *)
Closed(S, T) == << >> \in S /\ S \subseteq Seq(T) /\ \A a, b \in S : a \o b \in S

(* Whole strings are closed under joining, ...                             *)
LEMMA WholeClosed == Closed(Whole, Octet)
<1>1. << >> \in Whole BY DEF Whole
<1>2. Whole \subseteq Seq(Octet) BY DEF Whole
<1>3. ASSUME NEW a \in Whole, NEW b \in Whole PROVE a \o b \in Whole
  <2> DEFINE c == a \o b
  <2>1. a \in Seq(Octet) /\ b \in Seq(Octet) BY DEF Whole
  <2>2. c \in Seq(Octet) /\ Len(c) = Len(a) + Len(b) BY <2>1, ConcatProperties
  <2>3. CASE b = << >>
    <3>1. c = a
      <4> HIDE DEF Octet
      <4> QED BY <2>1, <2>3
    <3> QED BY <3>1
  <2>4. CASE b # << >>
    <3>1. Len(a) \in Nat /\ Len(b) \in Nat /\ Len(b) \in 1..Len(b)
      <4> HIDE DEF Octet
      <4> QED BY <2>1, <2>4
    <3>2. c[Len(a) + Len(b)] = b[Len(b)]
      <4>1. \A j \in 1..Len(b) : c[Len(a) + j] = b[j] BY <2>1, CatElements
      <4> HIDE DEF c
      <4> QED BY <3>1, <4>1
    <3>3. b[Len(b)] \notin Leading BY <2>4 DEF Whole
    <3> HIDE DEF c
    <3>4. c[Len(c)] \notin Leading BY <2>2, <3>2, <3>3
    <3> QED BY <2>2, <3>4 DEF Whole, c
  <2> QED BY <2>3, <2>4
<1> QED BY <1>1, <1>2, <1>3 DEF Closed

(* ... and so are paired ones.                                             *)
LEMMA PairedClosed == Closed(Paired, Octet)
<1>1. << >> \in Paired
  <2>1. << >> \in Seq(Octet) /\ Len(<< >>) = 0 /\ 1..0 = {} OBVIOUS
  <2> QED BY <2>1 DEF Paired
<1>2. Paired \subseteq Seq(Octet) BY DEF Paired
<1>3. ASSUME NEW a \in Paired, NEW b \in Paired PROVE a \o b \in Paired
  <2> DEFINE c == a \o b
             m == Len(a)
             n == Len(b)
  <2>1. a \in Seq(Octet) /\ b \in Seq(Octet) BY DEF Paired
  <2>2. c \in Seq(Octet) /\ Len(c) = m + n BY <2>1, ConcatProperties
  <2>3. m \in Nat /\ n \in Nat
    <3> HIDE DEF Octet
    <3> QED BY <2>1
  <2>4. /\ \A j \in 1..m : c[j] = a[j]
        /\ \A j \in 1..n : c[m + j] = b[j]
    BY <2>1, CatElements
  <2>5. \A j \in 1..m : a[j] \in Leading => j < m /\ Spells(a[j], a[j + 1]) BY DEF Paired
  <2>6. \A j \in 1..n : b[j] \in Leading => j < n /\ Spells(b[j], b[j + 1]) BY DEF Paired
  <2> HIDE DEF c, m, n
  <2>7. ASSUME NEW i \in 1..(m + n), c[i] \in Leading PROVE i < m + n /\ Spells(c[i], c[i + 1])
    <3>1. CASE i \in 1..m
      <4>1. i < m /\ Spells(a[i], a[i + 1]) BY <2>4, <2>5, <2>7, <3>1
      <4>2. i + 1 \in 1..m /\ i < m + n BY <2>3, <3>1, <4>1
      <4> QED BY <2>4, <3>1, <4>1, <4>2
    <3>2. CASE i \notin 1..m
      <4> DEFINE j == i - m
      <4>1. j \in 1..n /\ i = m + j BY <2>3, <3>2
      <4> HIDE DEF j
      <4>2. c[i] = b[j] BY <2>4, <4>1
      <4>3. j < n /\ Spells(b[j], b[j + 1]) BY <2>6, <2>7, <4>1, <4>2
      <4>4. j + 1 \in 1..n /\ i < m + n /\ m + (j + 1) = i + 1 BY <2>3, <4>1, <4>3
      <4>5. c[i + 1] = b[j + 1] BY <2>4, <4>4
      <4> QED BY <4>2, <4>3, <4>4, <4>5
    <3> QED BY <3>1, <3>2
  <2>8. \A i \in 1..Len(c) : c[i] \in Leading => i < Len(c) /\ Spells(c[i], c[i + 1]) BY <2>2, <2>7
  <2> QED BY <2>2, <2>8 DEF Paired, c
<1> QED BY <1>1, <1>2, <1>3 DEF Closed

(* One more of a list is joined at the end.                                *)
LEMMA ConcatGrows ==
  ASSUME NEW T, NEW l \in Seq(Seq(T)), NEW k \in 0..(Len(l) - 1)
  PROVE  Concat(SubSeq(l, 1, k + 1)) = Concat(SubSeq(l, 1, k)) \o l[k + 1]
<1> DEFINE S == Seq(T)
           a == SubSeq(l, 1, k)
           x == l[k + 1]
<1>1. a \in Seq(S) /\ x \in S /\ SubSeq(l, 1, k + 1) = a \o <<x>>
  <2>1. l \in Seq(S) /\ k \in 0..(Len(l) - 1) OBVIOUS
  <2> HIDE DEF S
  <2> QED BY <2>1, PrefixGrows
<1> DEFINE y == <<x>>
<1>2. y \in Seq(S)
  <2> HIDE DEF S, x
  <2> QED BY <1>1
<1>3. Concat(y) = x
  <2>1. x \in Seq(T) BY <1>1
  <2> HIDE DEF x
  <2> QED BY <2>1, ConcatOne
<1>4. Concat(a \o y) = Concat(a) \o Concat(y)
  <2>1. a \in Seq(Seq(T)) /\ y \in Seq(Seq(T)) BY <1>1, <1>2
  <2> HIDE DEF a, y
  <2> QED BY <2>1, ConcatCat
<1> QED BY <1>1, <1>3, <1>4

(* What is closed under joining two is closed under joining a list.        *)
LEMMA ConcatClosed ==
  ASSUME NEW T, NEW S, Closed(S, T), NEW l \in Seq(S) PROVE Concat(l) \in S /\ l \in Seq(Seq(T))
<1> DEFINE n == Len(l)
           P(k) == SubSeq(l, 1, k)
           U == {k \in 0..n : Concat(P(k)) \in S}
<1>1. n \in Nat /\ P(0) = << >> /\ P(n) = l /\ \A j \in 1..n : l[j] \in S OBVIOUS
<1>2. << >> \in S /\ (\A a, b \in S : a \o b \in S) /\ S \subseteq Seq(T) BY DEF Closed
<1>3. l \in Seq(Seq(T))
  <2>1. \A j \in 1..n : l[j] \in Seq(T) BY <1>1, <1>2
  <2>2. l = [j \in 1..n |-> l[j]] OBVIOUS
  <2> DEFINE Z == Seq(T)
  <2> HIDE DEF Z
  <2>3. \A j \in 1..n : l[j] \in Z BY <2>1 DEF Z
  <2>4. l \in Seq(Z) BY <1>1, <2>2, <2>3
  <2> QED BY <2>4 DEF Z
<1>4. 0 \in U
  <2> HIDE DEF P, n
  <2> QED BY <1>1, <1>2, ConcatNone
<1>5. ASSUME NEW k \in 0..(n - 1), k \in U PROVE k + 1 \in U
  <2>1. Concat(P(k + 1)) = Concat(P(k)) \o l[k + 1] BY <1>3, ConcatGrows
  <2>2. l[k + 1] \in S /\ k + 1 \in 0..n
    <3>1. k + 1 \in 1..n /\ k + 1 \in 0..n BY <1>1
    <3> QED BY <1>1, <3>1
  <2> HIDE DEF P
  <2> QED BY <1>2, <1>5, <2>1, <2>2
<1>6. \A k \in 0..n : k \in U
  <2> HIDE DEF U, n
  <2> QED BY <1>1, <1>4, <1>5, Upward
<1>7. Concat(P(n)) \in S
  <2>1. n \in 0..n BY <1>1
  <2> HIDE DEF P
  <2> QED BY <1>6, <2>1
<1> QED BY <1>1, <1>3, <1>7

(* Whole strings decode one by one.                                        *)
DecodeOf == [x \in String |-> ByteLevelDecode(x)]

(* Decoding is a function on strings.                                      *)
LEMMA DecodeMap == Maps(DecodeOf, String, Nat)
<1>1. \A x \in String : ByteLevelDecode(x) \in Seq(Nat) BY DecodeType DEF String
<1> QED BY <1>1 DEF Maps, DecodeOf

(* A whole string is a string, ...                                         *)
LEMMA WholeString == \A x \in Whole : x \in String
BY ByteString DEF Whole

(* ... a list of whole strings a list of strings, ...                      *)
LEMMA WholeList == ASSUME NEW l \in Seq(Whole) PROVE l \in Seq(String)
<1>1. Len(l) \in Nat /\ \A j \in 1..Len(l) : l[j] \in Whole OBVIOUS
<1>2. \A j \in 1..Len(l) : l[j] \in String BY <1>1, WholeString
<1>3. l = [j \in 1..Len(l) |-> l[j]] OBVIOUS
<1> QED BY <1>1, <1>2, <1>3

(* ... and no symbol stands where a whole string ends.                     *)
LEMMA WholeApart == ASSUME NEW a \in Whole, NEW b PROVE ~Meeting(a, b)
<1>1. a # << >> => a[Len(a)] \notin Leading BY DEF Whole
<1>2. \A x, y : Spells(x, y) => x \in Leading BY SymbolsAre
<1> QED BY <1>1, <1>2 DEF Meeting

(* Whole strings joined decode one by one.                                 *)
LEMMA DecodeList ==
  ASSUME NEW l \in Seq(Whole)
  PROVE  ByteLevelDecode(Concat(l)) = Gather(DecodeOf, l)
<1> DEFINE n == Len(l)
           P(k) == SubSeq(l, 1, k)
           U == {k \in 0..n : /\ Concat(P(k)) \in Whole
                              /\ ByteLevelDecode(Concat(P(k))) = Gather(DecodeOf, P(k))}
<1>1. n \in Nat /\ P(0) = << >> /\ P(n) = l /\ \A j \in 1..n : l[j] \in Whole OBVIOUS
<1>2. << >> \in Whole /\ \A a, b \in Whole : a \o b \in Whole BY WholeClosed DEF Closed
<1>3. l \in Seq(Seq(Octet)) BY WholeClosed, ConcatClosed
<1>4. l \in Seq(String) BY WholeList
<1>5. 0 \in U
  <2> HIDE DEF P, n
  <2>1. Concat(P(0)) = << >> BY <1>1, ConcatNone
  <2>2. Gather(DecodeOf, P(0)) = << >> BY <1>1, GatherNone
  <2> QED BY <1>1, <1>2, <2>1, <2>2, DecodeNone
<1>6. ASSUME NEW k \in 0..(n - 1), k \in U PROVE k + 1 \in U
  <2> DEFINE a == P(k)
             x == l[k + 1]
             A == Concat(a)
             y == <<x>>
  <2>1. k + 1 \in 1..n /\ k + 1 \in 0..n BY <1>1
  <2>2. x \in Whole BY <1>1, <2>1
  <2>3. A \in Whole /\ ByteLevelDecode(A) = Gather(DecodeOf, a) BY <1>6
  <2>4. Concat(P(k + 1)) = A \o x BY <1>3, ConcatGrows
  <2>5. A \o x \in Whole BY <1>2, <2>2, <2>3
  <2>6. A \in String /\ x \in String BY <2>2, <2>3, WholeString
  <2>7. ByteLevelDecode(A \o x) = ByteLevelDecode(A) \o ByteLevelDecode(x)
    <3>1. ~Meeting(A, x) BY <2>3, WholeApart
    <3> HIDE DEF A, x
    <3> QED BY <2>6, <3>1, DecodeCat
  <2>8. a \in Seq(String) /\ P(k + 1) = a \o y BY <1>4, PrefixGrows
  <2>9. y \in Seq(String) BY <2>6
  <2>10. Gather(DecodeOf, y) = ByteLevelDecode(x)
    <3>1. Gather(DecodeOf, y) = DecodeOf[x] BY <2>6, DecodeMap, GatherOne
    <3> QED BY <2>6, <3>1 DEF DecodeOf
  <2> HIDE DEF a, y, x, A, P
  <2>11. Gather(DecodeOf, a \o y) = Gather(DecodeOf, a) \o Gather(DecodeOf, y)
    BY <2>8, <2>9, DecodeMap, GatherCat
  <2>12. Gather(DecodeOf, P(k + 1)) = ByteLevelDecode(A) \o ByteLevelDecode(x)
    BY <2>3, <2>8, <2>10, <2>11
  <2> QED BY <2>1, <2>4, <2>5, <2>7, <2>12
<1>7. \A k \in 0..n : k \in U
  <2> HIDE DEF U, n
  <2> QED BY <1>1, <1>5, <1>6, Upward
<1>8. ByteLevelDecode(Concat(P(n))) = Gather(DecodeOf, P(n))
  <2>1. n \in 0..n BY <1>1
  <2> HIDE DEF P
  <2> QED BY <1>7, <2>1
<1> QED BY <1>1, <1>8

-----------------------------------------------------------------------------
(* Byte-level encoding, and back.                                          *)
LEMMA SymbolPaired ==
  ASSUME NEW b \in Octet
  PROVE  Symbol[b] \in Paired /\ ByteLevelDecode(Symbol[b]) = <<b>>
<1>1. b \in 0..255 BY DEF Octet
<1>2. Symbol[b] \in DOMAIN SymbolByte /\ SymbolByte[Symbol[b]] = b BY <1>1, SymbolBack
<1>3. CASE b \in OneByte
  <2>1. Symbol[b] = <<b>> BY <1>1, <1>3, SymbolIs
  <2>2. b \notin Leading /\ b \in Nat BY <1>3 DEF OneByte, Leading
  <2>3. <<b>> \in Paired
    <3> HIDE DEF Octet
    <3>1. <<b>> \in Seq(Octet) /\ Len(<<b>>) = 1 /\ <<b>>[1] = b OBVIOUS
    <3>2. \A i \in 1..1 : i = 1 OBVIOUS
    <3> DEFINE x == <<b>>
    <3> HIDE DEF x
    <3>3. x \in Seq(Octet) /\ \A i \in 1..Len(x) : x[i] \notin Leading BY <2>2, <3>1, <3>2 DEF x
    <3>4. x \in Paired BY <3>3 DEF Paired
    <3> QED BY <3>4 DEF x
  <2> QED BY <2>1, <2>2, <2>3, DecodeOne
<1>4. CASE b \notin OneByte
  <2>1. PICK x \in Leading, y \in Trailing : Symbol[b] = <<x, y>> BY <1>1, <1>4, SymbolIs
  <2>2. Spells(x, y) /\ SymbolByte[<<x, y>>] = b BY <1>2, <2>1 DEF Spells
  <2>3. x \in Octet /\ y \in Octet /\ y \notin Leading
    <3>1. x \in 194..199 /\ y \in 128..191 BY DEF Leading, Trailing
    <3>2. x \in 0..255 /\ y \in 0..255 /\ y \notin 194..199 BY <3>1, SMT
    <3> QED BY <3>2 DEF Octet, Leading
  <2>4. <<x, y>> \in Paired
    <3> HIDE DEF Octet
    <3> DEFINE z == <<x, y>>
    <3>1. z \in Seq(Octet) /\ Len(z) = 2 /\ z[1] = x /\ z[2] = y BY <2>3
    <3>2. \A i \in 1..2 : i = 1 \/ i = 2 OBVIOUS
    <3> HIDE DEF z
    <3>3. ASSUME NEW i \in 1..Len(z), z[i] \in Leading PROVE i < Len(z) /\ Spells(z[i], z[i + 1])
      <4>1. i = 1 BY <2>3, <3>1, <3>2, <3>3
      <4>2. z[i] = x /\ z[i + 1] = y
        <5>1. 1 + 1 = 2 OBVIOUS
        <5> QED BY <3>1, <4>1, <5>1
      <4>3. i < Len(z) BY <3>1, <4>1
      <4> QED BY <2>2, <4>2, <4>3
    <3>4. z \in Paired BY <3>1, <3>3 DEF Paired
    <3> QED BY <3>4 DEF z
  <2>5. ByteLevelDecode(<<x, y>>) = <<SymbolByte[<<x, y>>]>> BY <2>2, DecodePair
  <2> QED BY <2>1, <2>2, <2>4, <2>5
<1> QED BY <1>3, <1>4

(* The elements of a list, one by one, joined are the list.                *)
LEMMA ConcatOnes ==
  ASSUME NEW S, NEW w \in Seq(S), NEW g, g = [j \in DOMAIN w |-> <<w[j]>>]
  PROVE  Concat(g) = w
<1> DEFINE n == Len(w)
           P(k) == SubSeq(w, 1, k)
           Q(k) == SubSeq(g, 1, k)
           U == {k \in 0..n : Concat(Q(k)) = P(k)}
<1>1. n \in Nat /\ DOMAIN w = 1..n /\ \A j \in 1..n : w[j] \in S OBVIOUS
<1>2. g = [j \in 1..n |-> <<w[j]>>] BY <1>1
<1>3. g \in Seq(Seq(S)) /\ Len(g) = n
  <2> DEFINE Z == Seq(S)
  <2>1. \A j \in 1..n : <<w[j]>> \in Z BY <1>1
  <2> HIDE DEF Z, n
  <2>2. g \in Seq(Z) /\ Len(g) = n BY <1>1, <1>2, <2>1
  <2> QED BY <2>2 DEF Z
<1>4. P(0) = << >> /\ P(n) = w OBVIOUS
<1>5. Q(0) = << >> /\ Q(n) = g
  <2> HIDE DEF n
  <2>1. SubSeq(g, 1, 0) = << >> /\ SubSeq(g, 1, Len(g)) = g BY <1>3
  <2> QED BY <1>3, <2>1
<1>6. \A j \in 1..n : g[j] = <<w[j]>> BY <1>2
<1>7. 0 \in U
  <2> HIDE DEF P, Q, n
  <2> QED BY <1>1, <1>4, <1>5, ConcatNone
<1>8. ASSUME NEW k \in 0..(n - 1), k \in U PROVE k + 1 \in U
  <2>1. k + 1 \in 1..n /\ k + 1 \in 0..n BY <1>1
  <2>2. Concat(Q(k + 1)) = Concat(Q(k)) \o g[k + 1]
    <3>1. k \in 0..(Len(g) - 1) BY <1>3
    <3> QED BY <1>3, <3>1, ConcatGrows
  <2>3. P(k + 1) = P(k) \o <<w[k + 1]>> BY PrefixGrows
  <2>4. g[k + 1] = <<w[k + 1]>> BY <1>6, <2>1
  <2> HIDE DEF P, Q
  <2> QED BY <1>8, <2>1, <2>2, <2>3, <2>4
<1>9. \A k \in 0..n : k \in U
  <2> HIDE DEF U, n
  <2> QED BY <1>1, <1>7, <1>8, Upward
<1>10. Concat(Q(n)) = P(n)
  <2>1. n \in 0..n BY <1>1
  <2> HIDE DEF P, Q
  <2> QED BY <1>9, <2>1
<1> QED BY <1>4, <1>5, <1>10

(* Bytes encoded are paired, and decode to the bytes.                      *)
LEMMA EncodedIs ==
  ASSUME NEW w \in Seq(Octet)
  PROVE  ByteLevelEncode(w) \in Paired /\ ByteLevelDecode(ByteLevelEncode(w)) = w
<1> DEFINE n == Len(w)
           l == [j \in DOMAIN w |-> Symbol[w[j]]]
<1>1. n \in Nat /\ DOMAIN w = 1..n /\ \A j \in 1..n : w[j] \in Octet
  <2> HIDE DEF Octet
  <2> QED OBVIOUS
<1>2. ByteLevelEncode(w) = Concat(l) BY DEF ByteLevelEncode
<1>3. \A j \in 1..n : l[j] = Symbol[w[j]] /\ l[j] \in Paired /\ l[j] \in Whole /\ ByteLevelDecode(l[j]) = <<w[j]>>
  <2>1. \A j \in 1..n : l[j] = Symbol[w[j]] BY <1>1
  <2>2. \A j \in 1..n : Symbol[w[j]] \in Paired /\ ByteLevelDecode(Symbol[w[j]]) = <<w[j]>>
    BY <1>1, SymbolPaired
  <2> HIDE DEF l
  <2> QED BY <2>1, <2>2, PairedIsWhole
<1>4. l = [j \in 1..n |-> l[j]] BY <1>1
<1> HIDE DEF l
<1>5. l \in Seq(Paired) /\ l \in Seq(Whole) /\ DOMAIN l = 1..n
  <2>1. n \in Nat BY <1>1
  <2>2. \A j \in 1..n : l[j] \in Paired BY <1>3
  <2>3. \A j \in 1..n : l[j] \in Whole BY <1>3
  <2> HIDE DEF n
  <2>4. l \in Seq(Paired) BY <1>4, <2>1, <2>2
  <2>5. l \in Seq(Whole) BY <1>4, <2>1, <2>3
  <2>6. DOMAIN l = 1..n BY <1>4
  <2> QED BY <2>4, <2>5, <2>6
<1>6. Concat(l) \in Paired BY <1>5, PairedClosed, ConcatClosed
<1>7. ByteLevelDecode(Concat(l)) = Gather(DecodeOf, l) BY <1>5, DecodeList
<1>8. Mapped(DecodeOf, l) = [j \in DOMAIN w |-> <<w[j]>>]
  <2>1. \A j \in 1..n : DecodeOf[l[j]] = <<w[j]>>
    <3>1. \A j \in 1..n : l[j] \in String BY <1>3, WholeString
    <3> QED BY <1>3, <3>1 DEF DecodeOf
  <2> QED BY <1>1, <1>5, <2>1 DEF Mapped
<1>9. Concat(Mapped(DecodeOf, l)) = w
  <2> DEFINE g == Mapped(DecodeOf, l)
  <2>1. g = [j \in DOMAIN w |-> <<w[j]>>] BY <1>8
  <2> HIDE DEF g
  <2>2. Concat(g) = w BY <2>1, ConcatOnes
  <2> QED BY <2>2 DEF g
<1> QED BY <1>2, <1>6, <1>7, <1>9 DEF Gather

(* The symbols of such a string are cut where a symbol may end.            *)
LEMMA SplitPaired == ASSUME NEW s \in Paired PROVE SplitSymbols(s) \in Seq(Whole)
<1> DEFINE n == Len(s)
           p == CutPiece(s)
           nx == CutNext(s)
           C == Onward(p, nx)
<1>0. s \in Seq(Octet) /\ s \in String BY ByteString DEF Paired
<1>1. n \in Nat /\ DOMAIN s = 1..n /\ \A j \in 1..n : s[j] \in Octet
  <2> HIDE DEF Octet
  <2> QED BY <1>0
<1>2. Onwards(n, nx) /\ SplitSymbols(s) = C[1] BY <1>0, SplitType
<1>3. ASSUME NEW i \in 1..n PROVE p[i] \in Seq(Whole)
  <2> DEFINE w == SymbolLen(s, i)
             c == SubSeq(s, i, i + w - 1)
  <2>1. p[i] = <<c>> BY <1>1 DEF CutPiece
  <2>2. /\ w \in 1..2
        /\ w = 1 => c = <<s[i]>>
        /\ w = 2 => c = <<s[i], s[i + 1]>> /\ i < n /\ Spells(s[i], s[i + 1])
    BY <1>0, SymbolLenIs DEF Spells
  <2>3. w = 2 <=> i < n /\ Spells(s[i], s[i + 1]) BY <1>0, DecAt
  <2>4. s[i] \in Leading => i < n /\ Spells(s[i], s[i + 1]) BY DEF Paired
  <2> HIDE DEF c, w, p
  <2>5. CASE w = 1
    <3> DEFINE x == s[i]
    <3>1. c = <<x>> /\ x \notin Leading /\ x \in Octet BY <1>1, <2>2, <2>3, <2>4, <2>5
    <3>2. c \in Seq(Octet) /\ Len(c) = 1 /\ c[1] = x
      <4> HIDE DEF Octet, x
      <4> QED BY <3>1
    <3>3. c \in Whole BY <3>1, <3>2 DEF Whole
    <3> QED BY <2>1, <3>3
  <2>6. CASE w = 2
    <3> DEFINE x == s[i]
               y == s[i + 1]
    <3>1. c = <<x, y>> /\ i < n /\ Spells(x, y) BY <2>2, <2>6
    <3>2. i + 1 \in 1..n BY <1>1, <3>1
    <3>3. x \in Octet /\ y \in Octet BY <1>1, <3>2
    <3>4. y \notin Leading
      <4>1. y \in Trailing BY <3>1, SymbolsAre
      <4> HIDE DEF y
      <4> QED BY <4>1 DEF Trailing, Leading
    <3>5. c \in Seq(Octet) /\ Len(c) = 2 /\ c[2] = y
      <4> HIDE DEF Octet, x, y
      <4> QED BY <3>1, <3>3
    <3>6. c \in Whole BY <3>4, <3>5 DEF Whole
    <3> QED BY <2>1, <3>6
  <2>7. w = 1 \/ w = 2 BY <2>2
  <2> QED BY <2>5, <2>6, <2>7
<1>4. p = [i \in 1..n |-> p[i]] BY <1>1 DEF CutPiece
<1> HIDE DEF p, nx
<1>5. Unfolds(Whole, p, nx) /\ Len(p) = n
  <2>1. \A i \in 1..n : nx[i] \in (i + 1)..(n + 1) BY <1>2 DEF Onwards
  <2> HIDE DEF n
  <2> QED BY <1>1, <1>3, <1>4, <2>1, LoopOf
<1>6. C \in [1..(n + 1) -> Seq(Whole)]
  <2> HIDE DEF n
  <2> QED BY <1>5 DEF Unfolds
<1>7. 1 \in 1..(n + 1) BY <1>1
<1> HIDE DEF C, n
<1> QED BY <1>2, <1>6, <1>7

-----------------------------------------------------------------------------
(* Merging changes where a string is cut, never the string.                *)
LEMMA RestConcat ==
  ASSUME NEW T, NEW l \in Seq(Seq(T)), NEW i \in 1..Len(l)
  PROVE  Concat(SubSeq(l, i, Len(l))) = l[i] \o Concat(SubSeq(l, i + 1, Len(l)))
<1> DEFINE S == Seq(T)
           a == SubSeq(l, i + 1, Len(l))
           x == l[i]
<1>1. a \in Seq(S) /\ x \in S /\ SubSeq(l, i, Len(l)) = <<x>> \o a
  <2>1. l \in Seq(S) /\ i \in 1..Len(l) OBVIOUS
  <2> HIDE DEF S
  <2> QED BY <2>1, RestIs
<1>2. Concat(<<x>> \o a) = x \o Concat(a)
  <2>1. x \in Seq(T) /\ a \in Seq(Seq(T)) BY <1>1
  <2> HIDE DEF x, a
  <2> QED BY <2>1, ConcatHead
<1> QED BY <1>1, <1>2

Keeps(l, m) == m \in Seq(Whole) /\ Concat(m) = Concat(l)

(* A round keeps the string, and its cuts where symbols may end.           *)
LEMMA RoundKeeps ==
  ASSUME NEW v, NEW l \in Seq(Whole), NEW r PROVE Keeps(l, MergeRound(v, l, r))
<1> DEFINE n == Len(l)
           F == RoundFrom(v, l, r)
           Q(i) == SubSeq(l, i, n)
           U == {i \in 1..(n + 1) : F[i] \in Seq(Whole) /\ Concat(F[i]) = Concat(Q(i))}
<1>1. n \in Nat /\ \A j \in 1..n : l[j] \in Whole OBVIOUS
<1>2. l \in Seq(Seq(Octet)) BY WholeClosed, ConcatClosed
<1>3. RoundUnfolds(v, l, r)
  <2>1. l \in Seq(String) BY WholeList
  <2> QED BY <2>1, RoundIs
<1>4. /\ F[n + 1] = << >> /\ MergeRound(v, l, r) = F[1]
      /\ \A i \in 1..n : PairAt(v, l, r, i) => i < n /\ F[i] = <<l[i] \o l[i + 1]>> \o F[i + 2]
      /\ \A i \in 1..n : ~PairAt(v, l, r, i) => F[i] = <<l[i]>> \o F[i + 1]
  BY <1>3 DEF RoundUnfolds, PairAt
<1>5. \A i \in 1..n : Concat(Q(i)) = l[i] \o Concat(Q(i + 1)) BY <1>2, RestConcat
<1>6. Whole \subseteq Seq(Octet) /\ \A a, b \in Whole : a \o b \in Whole BY WholeClosed DEF Closed
<1>7. ASSUME NEW x \in Whole, NEW q \in Seq(Whole)
      PROVE  <<x>> \o q \in Seq(Whole) /\ Concat(<<x>> \o q) = x \o Concat(q)
  <2>1. <<x>> \o q \in Seq(Whole)
    <3>1. <<x>> \in Seq(Whole) OBVIOUS
    <3> DEFINE y == <<x>>
    <3> HIDE DEF y
    <3>2. y \in Seq(Whole) BY <3>1 DEF y
    <3>3. y \o q \in Seq(Whole) BY <3>2, ConcatProperties
    <3> QED BY <3>3 DEF y
  <2>2. x \in Seq(Octet) /\ q \in Seq(Seq(Octet)) BY <1>6, WholeClosed, ConcatClosed
  <2> QED BY <2>1, <2>2, ConcatHead
<1>8. \A q \in Seq(Whole) : Concat(q) \in Seq(Octet)
  <2>1. \A q \in Seq(Whole) : Concat(q) \in Whole BY WholeClosed, ConcatClosed
  <2> QED BY <1>6, <2>1
<1>9. Q(n + 1) = << >> OBVIOUS
<1> HIDE DEF F, Q, n
<1>10. ASSUME NEW i \in 1..(n + 1), \A j \in (i + 1)..(n + 1) : j \in U PROVE i \in U
  <2>1. CASE i = n + 1
    <3>1. << >> \in Seq(Whole) OBVIOUS
    <3> QED BY <1>4, <1>9, <2>1, <3>1
  <2>2. CASE i # n + 1 /\ ~PairAt(v, l, r, i)
    <3> DEFINE x == l[i]
               q == F[i + 1]
    <3>1. i \in 1..n /\ i + 1 \in (i + 1)..(n + 1) BY <1>1, <2>2
    <3>2. q \in Seq(Whole) /\ Concat(q) = Concat(Q(i + 1)) BY <1>10, <3>1
    <3>3. x \in Whole /\ F[i] = <<x>> \o q BY <1>1, <1>4, <2>2, <3>1
    <3>4. Concat(Q(i)) = x \o Concat(Q(i + 1)) BY <1>5, <3>1
    <3> HIDE DEF x, q
    <3>5. F[i] \in Seq(Whole) /\ Concat(F[i]) = x \o Concat(q) BY <1>7, <3>2, <3>3
    <3> QED BY <3>2, <3>4, <3>5
  <2>3. CASE i # n + 1 /\ PairAt(v, l, r, i)
    <3> DEFINE x == l[i]
               y == l[i + 1]
               q == F[i + 2]
               z == x \o y
               C == Concat(q)
    <3>1. i \in 1..n BY <1>1, <2>3
    <3>2. i < n /\ F[i] = <<z>> \o q BY <1>4, <2>3, <3>1
    <3>3. i + 1 \in 1..n /\ i + 2 \in (i + 1)..(n + 1) /\ (i + 1) + 1 = i + 2 BY <1>1, <3>1, <3>2
    <3>4. x \in Whole /\ y \in Whole BY <1>1, <3>1, <3>3
    <3>5. z \in Whole BY <1>6, <3>4
    <3>6. q \in Seq(Whole) /\ C = Concat(Q(i + 2)) BY <1>10, <3>3
    <3>7. C \in Seq(Octet) BY <1>8, <3>6
    <3>8. Concat(Q(i)) = x \o (y \o C)
      <4>1. Concat(Q(i)) = x \o Concat(Q(i + 1)) BY <1>5, <3>1
      <4>2. Concat(Q(i + 1)) = y \o Concat(Q((i + 1) + 1)) BY <1>5, <3>3
      <4> QED BY <3>3, <3>6, <4>1, <4>2
    <3>9. x \in Seq(Octet) /\ y \in Seq(Octet) BY <1>6, <3>4
    <3> HIDE DEF C
    <3>10. F[i] \in Seq(Whole) /\ Concat(F[i]) = z \o C
      <4> HIDE DEF z, q
      <4> QED BY <1>7, <3>2, <3>5, <3>6 DEF C
    <3> HIDE DEF x, y, q
    <3>11. Cat(Cat(x, y), C) = Cat(x, Cat(y, C)) BY <3>7, <3>9, CatInAnyOrder
    <3>12. z \o C = x \o (y \o C) BY <3>11 DEF Cat
    <3> HIDE DEF z
    <3> QED BY <3>8, <3>10, <3>12
  <2> QED BY <2>1, <2>2, <2>3
<1>11. \A i \in 1..(n + 1) : i \in U
  <2>1. n + 1 \in Nat BY <1>1
  <2> HIDE DEF U
  <2> QED BY <1>10, <2>1, Downward
<1>12. F[1] \in Seq(Whole) /\ Concat(F[1]) = Concat(Q(1))
  <2>1. 1 \in 1..(n + 1) BY <1>1
  <2> QED BY <1>11, <2>1
<1>13. Q(1) = l BY DEF Q, n
<1> QED BY <1>4, <1>12, <1>13 DEF Keeps

(* So do all rounds.                                                       *)
LEMMA MergesKeep ==
  ASSUME NEW v \in Vocabulary, NEW l \in Seq(Whole) PROVE Keeps(l, ApplyMerges(v, l))
<1> DEFINE n == Len(l)
           F == Rounds(v, l)
           U == {k \in 0..n : Keeps(l, F[k])}
<1>1. n \in Nat OBVIOUS
<1>2. F[0] = l /\ \A k \in 1..n : F[k] = Merged(v, F[k - 1])
  <2>1. l \in Seq(String) /\ Learnt(v) BY WholeList, Fields
  <2> QED BY <2>1, RoundsIs
<1> HIDE DEF F
<1>3. 0 \in U
  <2> HIDE DEF n
  <2> QED BY <1>1, <1>2 DEF Keeps
<1>4. ASSUME NEW k \in 0..(n - 1), k \in U PROVE k + 1 \in U
  <2> DEFINE a == F[k]
  <2>1. k + 1 \in 1..n /\ k + 1 \in 0..n /\ (k + 1) - 1 = k BY <1>1
  <2>2. F[k + 1] = Merged(v, a) BY <1>2, <2>1
  <2>3. a \in Seq(Whole) /\ Concat(a) = Concat(l) BY <1>4 DEF Keeps
  <2> HIDE DEF a
  <2>4. Keeps(a, Merged(v, a))
    <3>1. CASE Mergeable(v, a) = {} BY <2>3, <3>1 DEF Keeps, Merged
    <3>2. CASE Mergeable(v, a) # {}
      <4>1. Merged(v, a) = MergeRound(v, a, BestRank(v, a)) BY <3>2 DEF Merged
      <4> QED BY <2>3, <4>1, RoundKeeps
    <3> QED BY <3>1, <3>2
  <2> QED BY <2>1, <2>2, <2>3, <2>4 DEF Keeps
<1>5. \A k \in 0..n : k \in U
  <2> HIDE DEF U, n
  <2> QED BY <1>1, <1>3, <1>4, Upward
<1>6. Keeps(l, F[n])
  <2>1. n \in 0..n BY <1>1
  <2> QED BY <1>5, <2>1
<1> QED BY <1>6 DEF ApplyMerges, F

-----------------------------------------------------------------------------
(* Looking up a token, and back.                                           *)
LEMMA TokenBack ==
  ASSUME NEW v \in Vocabulary, NEW tok, Id(v, tok) >= 0
  PROVE  Token(v, Id(v, tok)) = tok
<1> DEFINE c == v.tokens
           S == {i \in DOMAIN c : c[i] = tok}
           n == Len(c)
           x == Max(S)
<1>1. n \in Nat /\ DOMAIN c = 1..n BY Fields
<1>2. Id(v, tok) = IF S # {} THEN x - 1 ELSE -1 BY DEF Id
<1>3. S \in SUBSET (0..n) BY <1>1
<1>4. S # {}
  <2> SUFFICES ASSUME S = {} PROVE FALSE OBVIOUS
  <2>1. Id(v, tok) = -1 BY <1>2
  <2> QED BY <2>1
<1>5. x \in S
  <2> HIDE DEF S, n
  <2> QED BY <1>1, <1>3, <1>4, MaxIs
<1>6. x \in 1..n /\ c[x] = tok BY <1>1, <1>5
<1>7. Id(v, tok) = x - 1 BY <1>2, <1>4
<1> HIDE DEF x
<1>8. x - 1 \in 0..(n - 1) /\ (x - 1) + 1 = x
  <2> HIDE DEF n
  <2> QED BY <1>1, <1>6
<1>9. Token(v, x - 1) = c[(x - 1) + 1] BY <1>8 DEF Token
<1> QED BY <1>6, <1>7, <1>8, <1>9

(* Bytes are no byte token.                                                *)
LEMMA BytesRaw == ASSUME NEW x \in Seq(Octet) PROVE RawPiece(x) = x
<1>1. ~IsByteToken(x)
  <2> SUFFICES ASSUME IsByteToken(x) PROVE FALSE OBVIOUS
  <2>1. Len(x) = 1 /\ x[1] \in 1000..1255 BY DEF IsByteToken
  <2>2. x[1] \in Octet
    <3> HIDE DEF Octet
    <3> QED BY <2>1
  <2> DEFINE y == x[1]
  <2>3. y \in 1000..1255 /\ y \in 0..255 BY <2>1, <2>2 DEF Octet
  <2> HIDE DEF y
  <2>4. y \in 1000..1255 BY <2>3
  <2>5. y - 1000 \in Nat BY <2>4, SMT
  <2>6. y \in 0..255 BY <2>3
  <2>7. 255 - y \in Nat /\ y \in Int BY <2>6, SMT
  <2> QED BY <2>5, <2>7
<1> QED BY <1>1 DEF RawPiece

(* The id of a byte token says the byte.                                   *)
LEMMA ByteTokenSaid ==
  ASSUME NEW v \in Vocabulary, NEW b \in Octet, Id(v, ByteToken(b)) >= 0
  PROVE  Said(v, Id(v, ByteToken(b))) = <<b>> /\ ByteLevelDecode(<<b>>) = <<b>>
<1> DEFINE c == 1000 + b
           x == <<c>>
<1>1. ByteToken(b) = x BY DEF ByteToken
<1>2. Token(v, Id(v, ByteToken(b))) = x BY <1>1, TokenBack
<1>3. b \in Nat /\ c \in 1000..1255 /\ c - 1000 = b
  <2>1. b \in 0..255 BY DEF Octet
  <2> QED BY <2>1, SMT
<1> HIDE DEF c
<1>4. Len(x) = 1 /\ x[1] = c OBVIOUS
<1> HIDE DEF x
<1>5. RawPiece(x) = <<b>>
  <2>1. IsByteToken(x) BY <1>3, <1>4 DEF IsByteToken
  <2>2. RawPiece(x) = <<x[1] - 1000>> BY <2>1 DEF RawPiece
  <2> QED BY <1>3, <1>4, <2>2
<1>6. ByteLevelDecode(<<b>>) = <<b>> BY <1>3, DecodeOne
<1> QED BY <1>2, <1>5, <1>6 DEF Said

(* A symbol decodes to its byte.                                           *)
LEMMA SymbolDecode ==
  ASSUME NEW x \in DOMAIN SymbolByte
  PROVE  ByteLevelDecode(x) = <<SymbolByte[x]>> /\ SymbolByte[x] \in Octet
<1>1. PICK b \in 0..255 : x = Symbol[b] BY DEF SymbolByte
<1>2. b \in Octet BY DEF Octet
<1>3. SymbolByte[x] = b BY <1>1, SymbolBack
<1>4. ByteLevelDecode(x) = <<b>> BY <1>1, <1>2, SymbolPaired
<1> QED BY <1>2, <1>3, <1>4

-----------------------------------------------------------------------------
(* Ids that say what was encoded.                                          *)
Good(v, id) ==
  /\ id # UnknownId(v) /\ Token(v, id) # EscapedNewline
  /\ Token(v, id) \in Special(v) => ByteLevelDecode(Token(v, id)) = Token(v, id)
AllGood(v, seq) == \A i \in DOMAIN seq : Good(v, seq[i])
SaysBytes(v, seq, bytes) == AllGood(v, seq) => Gather(HeardOf(v), seq) = bytes

(* Of good ids, those of a part are good.                                  *)
LEMMA GoodCat ==
  ASSUME NEW v, NEW S, NEW a \in Seq(S), NEW b \in Seq(S), AllGood(v, a \o b)
  PROVE  AllGood(v, a) /\ AllGood(v, b)
<1> DEFINE c == a \o b
           m == Len(a)
           n == Len(b)
<1>1. c \in Seq(S) /\ Len(c) = m + n BY ConcatProperties
<1>2. /\ \A j \in 1..m : c[j] = a[j]
      /\ \A j \in 1..n : c[m + j] = b[j]
  BY CatElements
<1>3. m \in Nat /\ n \in Nat /\ DOMAIN a = 1..m /\ DOMAIN b = 1..n OBVIOUS
<1>4. AllGood(v, c) OBVIOUS
<1> HIDE DEF c, m, n
<1>5. DOMAIN c = 1..(m + n) BY <1>1, <1>3
<1>6. \A j \in 1..(m + n) : Good(v, c[j]) BY <1>4, <1>5 DEF AllGood
<1>7. \A j \in 1..m : Good(v, a[j])
  <2>1. \A j \in 1..m : j \in 1..(m + n) BY <1>3
  <2> QED BY <1>2, <1>6, <2>1
<1>8. \A j \in 1..n : Good(v, b[j])
  <2>1. \A j \in 1..n : m + j \in 1..(m + n) BY <1>3
  <2> QED BY <1>2, <1>6, <2>1
<1> QED BY <1>3, <1>7, <1>8 DEF AllGood

(* What ids say joined is what they say apart.                             *)
LEMMA SaysCat ==
  ASSUME NEW v \in Vocabulary, NEW a \in Seq(Ids), NEW b \in Seq(Ids), NEW x, NEW y,
         SaysBytes(v, a, x), SaysBytes(v, b, y)
  PROVE  SaysBytes(v, a \o b, x \o y)
<1> SUFFICES ASSUME AllGood(v, a \o b) PROVE Gather(HeardOf(v), a \o b) = x \o y BY DEF SaysBytes
<1>1. AllGood(v, a) /\ AllGood(v, b) BY GoodCat
<1>2. Gather(HeardOf(v), a) = x /\ Gather(HeardOf(v), b) = y BY <1>1 DEF SaysBytes
<1>3. Gather(HeardOf(v), a \o b) = Gather(HeardOf(v), a) \o Gather(HeardOf(v), b)
  BY SaidMaps, GatherCat
<1> QED BY <1>2, <1>3

(* A symbol's id says the symbol.                                          *)
SymbolId(v, x) ==
  IF Id(v, x) >= 0 THEN Id(v, x)
  ELSE IF x \in DOMAIN SymbolByte THEN ByteOrUnknown(v, SymbolByte[x])
  ELSE UnknownId(v)

(* What stands in for a byte, if it is not <unk>, says it.                 *)
LEMMA ByteSaid ==
  ASSUME NEW v \in Vocabulary, NEW b \in Octet, ByteOrUnknown(v, b) # UnknownId(v)
  PROVE  Said(v, ByteOrUnknown(v, b)) = <<b>> /\ ByteLevelDecode(<<b>>) = <<b>>
<1>1. Id(v, ByteToken(b)) >= 0 /\ ByteOrUnknown(v, b) = Id(v, ByteToken(b)) BY DEF ByteOrUnknown
<1> QED BY <1>1, ByteTokenSaid

(* The id of a merged symbol, if it is not <unk>, decodes as the symbol    *)
(* does.                                                                   *)
LEMMA SymbolSaid ==
  ASSUME NEW v \in Vocabulary, NEW x \in Whole, SymbolId(v, x) # UnknownId(v)
  PROVE  ByteLevelDecode(Said(v, SymbolId(v, x))) = ByteLevelDecode(x)
<1>1. CASE Id(v, x) >= 0
  <2>1. SymbolId(v, x) = Id(v, x) BY <1>1 DEF SymbolId
  <2>2. Token(v, Id(v, x)) = x BY <1>1, TokenBack
  <2>3. x \in Seq(Octet) BY DEF Whole
  <2>4. RawPiece(x) = x BY <2>3, BytesRaw
  <2> QED BY <2>1, <2>2, <2>4 DEF Said
<1>2. CASE ~(Id(v, x) >= 0)
  <2>1. x \in DOMAIN SymbolByte /\ SymbolId(v, x) = ByteOrUnknown(v, SymbolByte[x])
    BY <1>2 DEF SymbolId
  <2>2. ByteLevelDecode(x) = <<SymbolByte[x]>> /\ SymbolByte[x] \in Octet BY <2>1, SymbolDecode
  <2> DEFINE b == SymbolByte[x]
  <2>3. b \in Octet /\ ByteOrUnknown(v, b) # UnknownId(v) BY <2>1, <2>2
  <2> HIDE DEF b
  <2>4. Said(v, ByteOrUnknown(v, b)) = <<b>> /\ ByteLevelDecode(<<b>>) = <<b>> BY <2>3, ByteSaid
  <2> QED BY <2>1, <2>2, <2>4 DEF b
<1> QED BY <1>1, <1>2

(* A part's ids say the part.                                              *)
LEMMA PartSaid ==
  ASSUME NEW v \in Vocabulary, NEW part \in Seq(Char)
  PROVE  SaysBytes(v, EncodePart(v, part), TextBytes(part))
<1> DEFINE w == TextBytes(part)
           s == ByteLevelEncode(w)
           c == SplitSymbols(s)
           l == ApplyMerges(v, c)
           e == EncodePart(v, part)
<1> SUFFICES ASSUME AllGood(v, e) PROVE Gather(HeardOf(v), e) = w BY DEF SaysBytes
<1>1. w \in Seq(Octet) BY TextBytesType
<1>2. s \in Paired /\ ByteLevelDecode(s) = w
  <2> HIDE DEF w
  <2> QED BY <1>1, EncodedIs
<1>3. s \in String
  <2>1. s \in Whole BY <1>2, PairedIsWhole
  <2> QED BY <2>1, WholeString
<1>4. c \in Seq(Whole) /\ Concat(c) = s
  <2> HIDE DEF s
  <2> QED BY <1>2, <1>3, SplitPaired, SplitWhole
<1>5. Keeps(c, l)
  <2> HIDE DEF c
  <2> QED BY <1>4, MergesKeep
<1>6. e = [i \in DOMAIN l |-> SymbolId(v, l[i])] BY DEF EncodePart, SymbolId
<1>7. e \in Seq(Ids) BY EncodePartType DEF Ids
<1>8. Len(l) \in Nat /\ DOMAIN l = 1..Len(l) /\ l \in Seq(Whole) /\ Concat(l) = s
  <2>1. l \in Seq(Whole) /\ Concat(l) = s BY <1>4, <1>5 DEF Keeps
  <2> HIDE DEF l
  <2> QED BY <2>1
<1>9. \A i \in DOMAIN l : l[i] \in Whole /\ l[i] \in String
  <2> HIDE DEF l
  <2>1. \A i \in DOMAIN l : l[i] \in Whole BY <1>8
  <2> QED BY <2>1, WholeString
<1> HIDE DEF w, s, c, l, e
<1>10. DOMAIN e = DOMAIN l /\ \A i \in DOMAIN l : e[i] = SymbolId(v, l[i]) BY <1>6
<1>11. \A i \in DOMAIN l : HeardOf(v)[e[i]] = DecodeOf[l[i]]
  <2>1. TAKE i \in DOMAIN l
  <2>2. e[i] \in Ids BY <1>7, <1>10
  <2>3. HeardOf(v)[e[i]] = ByteLevelDecode(Said(v, e[i])) BY <2>2 DEF HeardOf
  <2>4. Good(v, e[i]) BY <1>10 DEF AllGood
  <2>5. SymbolId(v, l[i]) # UnknownId(v) BY <1>10, <2>4 DEF Good
  <2> DEFINE x == l[i]
  <2>6. x \in Whole /\ x \in String BY <1>9
  <2> HIDE DEF x
  <2>7. ByteLevelDecode(Said(v, SymbolId(v, x))) = ByteLevelDecode(x) BY <2>5, <2>6, SymbolSaid DEF x
  <2>8. DecodeOf[x] = ByteLevelDecode(x) BY <2>6 DEF DecodeOf
  <2> QED BY <1>10, <2>3, <2>7, <2>8 DEF x
<1>12. Mapped(HeardOf(v), e) = Mapped(DecodeOf, l) BY <1>10, <1>11 DEF Mapped
<1>13. Gather(HeardOf(v), e) = Gather(DecodeOf, l) BY <1>12 DEF Gather
<1>14. ByteLevelDecode(Concat(l)) = Gather(DecodeOf, l) BY <1>8, DecodeList
<1> QED BY <1>2, <1>8, <1>13, <1>14

-----------------------------------------------------------------------------
(* The ids of parts say the parts.                                         *)
PartIds(v) == [part \in Seq(Char) |-> EncodePart(v, part)]

(* PartIds is a function from parts to ids.                                *)
LEMMA PartMap == ASSUME NEW v \in Vocabulary PROVE Maps(PartIds(v), Seq(Char), Ids)
BY EncodePartType DEF Maps, PartIds, Ids

(* No ids say nothing.                                                     *)
LEMMA NoneSaid == \A v : SaysBytes(v, << >>, << >>)
BY GatherNone DEF SaysBytes

(* The ids of a list of parts say the bytes of the parts joined.           *)
LEMMA PartsSaid ==
  ASSUME NEW v \in Vocabulary, NEW l \in Seq(Seq(Char))
  PROVE  SaysBytes(v, Gather(PartIds(v), l), TextBytes(Concat(l))) /\ Concat(l) \in Seq(Char)
<1> DEFINE X == Seq(Char)
           n == Len(l)
           P(k) == SubSeq(l, 1, k)
           U == {k \in 0..n : /\ Concat(P(k)) \in X
                              /\ SaysBytes(v, Gather(PartIds(v), P(k)), TextBytes(Concat(P(k))))}
<1>1. n \in Nat /\ P(0) = << >> /\ P(n) = l /\ \A j \in 1..n : l[j] \in X OBVIOUS
<1>2. 0 \in U
  <2>1. Concat(P(0)) = << >> /\ Gather(PartIds(v), P(0)) = << >>
    <3> HIDE DEF P
    <3> QED BY <1>1, ConcatNone, GatherNone
  <2>2. << >> \in X OBVIOUS
  <2> HIDE DEF P, n, X
  <2> QED BY <1>1, <2>1, <2>2, NoneSaid, TextBytesNone
<1>3. ASSUME NEW k \in 0..(n - 1), k \in U PROVE k + 1 \in U
  <2> DEFINE a == P(k)
             x == l[k + 1]
             y == <<x>>
             G(q) == Gather(PartIds(v), q)
             A == Concat(a)
  <2>1. k + 1 \in 1..n /\ k + 1 \in 0..n BY <1>1
  <2>2. a \in Seq(X) /\ x \in X /\ P(k + 1) = a \o y
    <3>1. l \in Seq(X) OBVIOUS
    <3> HIDE DEF X
    <3> QED BY <3>1, PrefixGrows
  <2>3. Concat(P(k + 1)) = A \o x BY ConcatGrows
  <2>4. A \in X /\ SaysBytes(v, G(a), TextBytes(A)) BY <1>3
  <2>5. y \in Seq(X)
    <3> HIDE DEF X, x
    <3> QED BY <2>2
  <2> HIDE DEF a, y, A, x
  <2>6. G(a \o y) = G(a) \o G(y) BY <2>2, <2>5, PartMap, GatherCat
  <2>7. G(y) = EncodePart(v, x)
    <3>1. G(y) = PartIds(v)[x] BY <2>2, PartMap, GatherOne DEF y
    <3> QED BY <2>2, <3>1 DEF PartIds
  <2>8. G(a) \in Seq(Ids) /\ EncodePart(v, x) \in Seq(Ids)
    <3>1. IsMapped(PartIds(v), a, Ids) BY <2>2, PartMap, GatherType
    <3>2. EncodePart(v, x) \in Seq(Ids) BY <2>2, EncodePartType DEF Ids
    <3> QED BY <3>1, <3>2 DEF IsMapped
  <2>9. SaysBytes(v, EncodePart(v, x), TextBytes(x)) BY <2>2, PartSaid
  <2>10. TextBytes(A \o x) = TextBytes(A) \o TextBytes(x) BY <2>2, <2>4, TextBytesCat
  <2>11. A \o x \in X BY <2>2, <2>4, ConcatProperties
  <2> DEFINE g == G(a)
             h == EncodePart(v, x)
             b == TextBytes(A)
             d == TextBytes(x)
  <2>12. SaysBytes(v, g \o h, b \o d)
    <3>1. g \in Seq(Ids) /\ h \in Seq(Ids) /\ SaysBytes(v, g, b) /\ SaysBytes(v, h, d)
      BY <2>4, <2>8, <2>9
    <3> HIDE DEF g, h, b, d
    <3> QED BY <3>1, SaysCat
  <2>13. G(P(k + 1)) = g \o h BY <2>2, <2>6, <2>7
  <2>14. TextBytes(Concat(P(k + 1))) = b \o d BY <2>3, <2>10
  <2>15. Concat(P(k + 1)) \in X BY <2>3, <2>11
  <2> HIDE DEF g, h, b, d, P, X
  <2> QED BY <2>1, <2>12, <2>13, <2>14, <2>15
<1>4. \A k \in 0..n : k \in U
  <2> HIDE DEF U, n
  <2> QED BY <1>1, <1>2, <1>3, Upward
<1>5. Concat(P(n)) \in X /\ SaysBytes(v, Gather(PartIds(v), P(n)), TextBytes(Concat(P(n))))
  <2>1. n \in 0..n BY <1>1
  <2> HIDE DEF P, X
  <2> QED BY <1>4, <2>1
<1> HIDE DEF P
<1> QED BY <1>1, <1>5

(* The ids of a text without special tokens say its bytes.                 *)
LEMMA ChunkSaid ==
  ASSUME NEW v \in Vocabulary, NEW t \in Seq(Char)
  PROVE  SaysBytes(v, EncodeChunk(v, t), TextBytes(t))
<1> DEFINE l == Parts(t, v.mode)
<1>1. l \in Seq(Seq(Char)) /\ Concat(l) = t BY PartsWhole
<1>2. EncodeChunk(v, t) = Gather(PartIds(v), l)
  <2>1. EncodeChunk(v, t) = Concat([k \in DOMAIN l |-> EncodePart(v, l[k])]) BY DEF EncodeChunk
  <2> HIDE DEF l
  <2>2. \A k \in DOMAIN l : l[k] \in Seq(Char) BY <1>1
  <2>3. \A k \in DOMAIN l : PartIds(v)[l[k]] = EncodePart(v, l[k]) BY <2>2 DEF PartIds
  <2>4. Mapped(PartIds(v), l) = [k \in DOMAIN l |-> EncodePart(v, l[k])] BY <2>3 DEF Mapped
  <2> QED BY <2>1, <2>4 DEF Gather
<1> HIDE DEF l
<1>3. SaysBytes(v, Gather(PartIds(v), l), TextBytes(Concat(l))) BY <1>1, PartsSaid
<1> QED BY <1>1, <1>2, <1>3

(* A token that there is has an id.                                        *)
LEMMA IdFound ==
  ASSUME NEW v \in Vocabulary, NEW i \in DOMAIN v.tokens
  PROVE  Id(v, v.tokens[i]) >= 0
<1> DEFINE c == v.tokens
           tok == c[i]
           S == {j \in DOMAIN c : c[j] = tok}
           n == Len(c)
           x == Max(S)
<1>1. n \in Nat /\ DOMAIN c = 1..n BY Fields
<1>2. Id(v, tok) = IF S # {} THEN x - 1 ELSE -1 BY DEF Id
<1>3. S \in SUBSET (0..n) BY <1>1
<1>4. i \in S OBVIOUS
<1>5. x \in S
  <2> HIDE DEF S, n
  <2> QED BY <1>1, <1>3, <1>4, MaxIs
<1>6. x \in 1..n BY <1>1, <1>5
<1>7. Id(v, tok) = x - 1 BY <1>2, <1>4
<1> HIDE DEF x, n
<1>8. x - 1 >= 0 BY <1>1, <1>6
<1> QED BY <1>7, <1>8

(* A special token's id says the token.                                    *)
LEMMA SpecialSaid ==
  ASSUME NEW v \in Vocabulary, NEW tok \in Seq(Octet), tok \in Special(v)
  PROVE  SaysBytes(v, <<Id(v, tok)>>, tok) /\ <<Id(v, tok)>> \in Seq(Ids)
<1> DEFINE id == Id(v, tok)
           e == <<id>>
<1>1. id >= 0
  <2>1. PICK i \in DOMAIN v.tokens : tok = v.tokens[i] BY DEF Special, Entries
  <2> QED BY <2>1, IdFound
<1>2. Token(v, id) = tok BY <1>1, TokenBack
<1>3. id \in Ids BY IdIs DEF Ids
<1>4. Said(v, id) = tok BY <1>2, BytesRaw DEF Said
<1> HIDE DEF id
<1>5. e \in Seq(Ids) /\ Len(e) = 1 /\ e[1] = id /\ DOMAIN e = 1..1 BY <1>3
<1>6. Gather(HeardOf(v), e) = ByteLevelDecode(tok)
  <2>1. Gather(HeardOf(v), <<id>>) = HeardOf(v)[id] BY <1>3, SaidMaps, GatherOne
  <2> QED BY <1>3, <1>4, <2>1 DEF HeardOf
<1> HIDE DEF e
<1>7. AllGood(v, e) => ByteLevelDecode(tok) = tok
  <2>1. 1 \in DOMAIN e BY <1>5
  <2>2. AllGood(v, e) => Good(v, id) BY <1>5, <2>1 DEF AllGood
  <2> QED BY <1>2, <2>2 DEF Good
<1>8. SaysBytes(v, e, tok) BY <1>6, <1>7 DEF SaysBytes
<1> QED BY <1>5, <1>8 DEF e, id

(* Where there is a special token, its bytes are one.                      *)
LEMMA SpecialThere ==
  ASSUME NEW v, NEW t \in Seq(Char), NEW i \in 1..Len(t), SpecialLen(v, t, i) > 0
  PROVE  /\ SpecialLen(v, t, i) \in 1..(Len(t) - i + 1)
         /\ TextBytes(SubSeq(t, i, i + SpecialLen(v, t, i) - 1)) \in Special(v)
<1> DEFINE E == Ends(v, t, i)
           m == Len(t) - i + 1
           w == SpecialLen(v, t, i)
<1>1. m \in Nat OBVIOUS
<1>2. w = (IF E = {} THEN 0 ELSE Max(E)) /\ (w > 0 <=> E # {}) BY SpecialLenIs
<1>3. E \in SUBSET (0..m) /\ E \subseteq 1..m
  <2>1. E \subseteq 1..m BY DEF Ends
  <2> HIDE DEF E, m
  <2> QED BY <1>1, <2>1
<1>4. w \in E
  <2>1. E # {} BY <1>2
  <2> HIDE DEF E, m
  <2>2. Max(E) \in E BY <1>1, <1>3, <2>1, MaxIs
  <2> QED BY <1>2, <2>1, <2>2
<1> HIDE DEF w
<1>5. w \in 1..m BY <1>3, <1>4
<1>6. TextBytes(SubSeq(t, i, i + w - 1)) \in Special(v) BY <1>4 DEF Ends
<1> QED BY <1>5, <1>6 DEF w

(* A text cut in two has the bytes of both.                                *)
LEMMA TextBytesJoin ==
  ASSUME NEW t \in Seq(Char), NEW i \in 1..(Len(t) + 1), NEW k \in i..(Len(t) + 1)
  PROVE  /\ SubSeq(t, i, k - 1) \in Seq(Char)
         /\ TextBytes(SubSeq(t, i, Len(t))) = TextBytes(SubSeq(t, i, k - 1)) \o TextBytes(SubSeq(t, k, Len(t)))
<1> DEFINE a == SubSeq(t, i, k - 1)
           b == SubSeq(t, k, Len(t))
<1>1. a \o b = SubSeq(t, i, Len(t)) /\ a \in Seq(Char) /\ b \in Seq(Char) BY SubSeqJoin
<1> HIDE DEF a, b
<1>2. TextBytes(a \o b) = TextBytes(a) \o TextBytes(b) BY <1>1, TextBytesCat
<1> QED BY <1>1, <1>2 DEF a, b

(* What is encoded by merges says the text.                                *)
LEMMA BpeSaid ==
  ASSUME NEW v \in Vocabulary, NEW t \in Seq(Char)
  PROVE  SaysBytes(v, EncodeBpe(v, t), TextBytes(t)) /\ EncodeBpe(v, t) \in Seq(Ids)
<1> DEFINE n == Len(t)
           p == BpePiece(v, t)
           nx == BpeNext(v, t)
           F == BpeFrom(v, t)
           R(i) == TextBytes(SubSeq(t, i, n))
           U == {i \in 1..(n + 1) : SaysBytes(v, F[i], R(i))}
<1>1. n \in Nat /\ DOMAIN t = 1..n OBVIOUS
<1>2. EncodeBpe(v, t) = F[1] /\ BpeLoop(v, t) BY BpeLoopIs
<1>3. /\ F \in [1..(n + 1) -> Seq(Ids)] /\ F[n + 1] = << >>
      /\ \A i \in 1..n : F[i] = p[i] \o F[nx[i]]
  <2>1. Unfolds(Int, p, nx) /\ Len(p) = n /\ F = Onward(p, nx) BY <1>2 DEF BpeLoop, BpeFrom
  <2> HIDE DEF p, nx, F, n
  <2> QED BY <2>1 DEF Unfolds, Ids
<1>4. p \in Seq(Seq(Ids)) /\ Len(p) = n BY <1>2 DEF BpeLoop, Ids
<1>5. \A i \in 1..n : p[i] \in Seq(Ids)
  <2> HIDE DEF p, n
  <2> QED BY <1>4
<1>6. \A i \in 1..(n + 1) : F[i] \in Seq(Ids)
  <2> HIDE DEF F, n
  <2> QED BY <1>3
<1>7. ASSUME NEW i \in 1..n
      PROVE  /\ nx[i] \in (i + 1)..(n + 1)
             /\ SaysBytes(v, p[i], TextBytes(SubSeq(t, i, nx[i] - 1)))
             /\ R(i) = TextBytes(SubSeq(t, i, nx[i] - 1)) \o R(nx[i])
  <2> DEFINE w == SpecialLen(v, t, i)
             e == NextSpecial(v, t, i)
             k == nx[i]
             c == SubSeq(t, i, k - 1)
  <2>1. nx[i] = IF w > 0 THEN i + w ELSE e BY <1>1 DEF BpeNext
  <2>2. e \in (i + 1)..(n + 1) BY NextSpecialIs
  <2>3. w > 0 => w \in 1..(n - i + 1) /\ TextBytes(SubSeq(t, i, i + w - 1)) \in Special(v)
    BY SpecialThere
  <2>4. k \in (i + 1)..(n + 1)
    <3>1. CASE w > 0
      <4>1. w \in 1..(n - i + 1) BY <2>3, <3>1
      <4>2. k = i + w BY <2>1, <3>1
      <4> HIDE DEF w, k, n
      <4> QED BY <1>1, <4>1, <4>2
    <3>2. CASE ~(w > 0) BY <2>1, <2>2, <3>2
    <3> QED BY <3>1, <3>2
  <2>5. c \in Seq(Char) /\ R(i) = TextBytes(c) \o R(k)
    <3>1. i \in 1..(Len(t) + 1) /\ k \in i..(Len(t) + 1)
      <4> HIDE DEF k
      <4> QED BY <1>1, <2>4
    <3> HIDE DEF k
    <3> QED BY <3>1, TextBytesJoin
  <2>6. SaysBytes(v, p[i], TextBytes(c))
    <3>1. CASE w > 0
      <4>1. p[i] = <<Id(v, TextBytes(SubSeq(t, i, i + w - 1)))>> BY <1>1, <3>1 DEF BpePiece
      <4>2. k = i + w BY <2>1, <3>1
      <4>3. k - 1 = i + w - 1
        <5>1. w \in 1..(n - i + 1) BY <2>3, <3>1
        <5>2. w \in Int /\ i \in Int
          <6> HIDE DEF w
          <6> QED BY <1>1, <5>1
        <5> HIDE DEF w, k
        <5> QED BY <4>2, <5>2
      <4>4. c = SubSeq(t, i, i + w - 1) BY <4>3, Zenon
      <4> DEFINE tok == TextBytes(c)
      <4>5. tok \in Special(v) BY <2>3, <3>1, <4>4
      <4>6. tok \in Seq(Octet) BY <2>5, TextBytesType
      <4>7. p[i] = <<Id(v, tok)>> BY <4>1, <4>4
      <4> HIDE DEF tok, p
      <4> QED BY <4>5, <4>6, <4>7, SpecialSaid DEF tok
    <3>2. CASE ~(w > 0)
      <4>1. p[i] = EncodeChunk(v, SubSeq(t, i, e - 1)) BY <1>1, <3>2 DEF BpePiece
      <4>2. k = e BY <2>1, <3>2
      <4>3. p[i] = EncodeChunk(v, c) BY <4>1, <4>2
      <4> HIDE DEF c
      <4> QED BY <2>5, <4>3, ChunkSaid
    <3> QED BY <3>1, <3>2
  <2> QED BY <2>4, <2>5, <2>6
<1>8. R(n + 1) = << >>
  <2>1. SubSeq(t, n + 1, n) = << >> BY <1>1
  <2> QED BY <2>1, TextBytesNone
<1>9. R(1) = TextBytes(t)
  <2>1. SubSeq(t, 1, n) = t OBVIOUS
  <2> QED BY <2>1
<1> HIDE DEF n, p, nx, F, R
<1>10. ASSUME NEW i \in 1..(n + 1), \A j \in (i + 1)..(n + 1) : j \in U PROVE i \in U
  <2>1. CASE i = n + 1 BY <1>3, <1>8, <2>1, NoneSaid
  <2>2. CASE i # n + 1
    <3>1. i \in 1..n BY <1>1, <2>2
    <3> DEFINE k == nx[i]
               x == TextBytes(SubSeq(t, i, k - 1))
               a == p[i]
               b == F[k]
               y == R(k)
    <3>2. /\ k \in (i + 1)..(n + 1) /\ SaysBytes(v, a, x) /\ R(i) = x \o y /\ F[i] = a \o b
          /\ a \in Seq(Ids)
      BY <1>3, <1>5, <1>7, <3>1
    <3>3. SaysBytes(v, b, y) BY <1>10, <3>2
    <3>4. k \in 1..(n + 1)
      <4> HIDE DEF k
      <4> QED BY <1>1, <3>1, <3>2
    <3>5. b \in Seq(Ids) BY <1>6, <3>4
    <3> HIDE DEF k, x, a, b, y
    <3>6. SaysBytes(v, a \o b, x \o y) BY <3>2, <3>3, <3>5, SaysCat
    <3> QED BY <3>2, <3>6
  <2> QED BY <2>1, <2>2
<1>11. \A i \in 1..(n + 1) : i \in U
  <2>1. n + 1 \in Nat BY <1>1
  <2> HIDE DEF U
  <2> QED BY <1>10, <2>1, Downward
<1>12. 1 \in 1..(n + 1) BY <1>1
<1>13. SaysBytes(v, F[1], R(1)) BY <1>11, <1>12
<1> QED BY <1>2, <1>6, <1>9, <1>12, <1>13

-----------------------------------------------------------------------------
(* Where no symbol stands, a string may be decoded in two.                 *)
LEMMA DecodeInTwo ==
  ASSUME NEW s \in String, NEW i \in 1..Len(s), NEW j \in (i + 1)..(Len(s) + 1),
         j <= Len(s) => ~Spells(s[j - 1], s[j])
  PROVE  DecFrom(s)[i] = ByteLevelDecode(SubSeq(s, i, j - 1)) \o DecFrom(s)[j]
<1> DEFINE n == Len(s)
           a == SubSeq(s, i, j - 1)
           b == SubSeq(s, j, n)
           c == SubSeq(s, i, n)
           W == DecFrom(s)
<1>1. s \in Seq(Nat) /\ n \in Nat /\ i \in 1..(n + 1) /\ j \in i..(n + 1) /\ i \in Int /\ j \in Int
      /\ (i - 1) + 1 = i /\ (j - 1) + 1 = j /\ i - 1 \in 0..n /\ j - 1 \in 0..n
  <2>1. n \in Nat /\ s \in Seq(Nat) BY DEF String
  <2> HIDE DEF n
  <2> QED BY <2>1 DEF n
<1>2. /\ a \o b = c /\ a \in Seq(Nat) /\ b \in Seq(Nat) /\ Len(a) = j - i
      /\ \A k \in 1..(j - i) : a[k] = s[k + i - 1]
  BY <1>1, SubSeqJoin
<1>3. W[i] = ByteLevelDecode(c)
  <2> DEFINE k == i - 1
  <2>1. k \in 0..Len(s) /\ k + 1 = i BY <1>1
  <2> HIDE DEF k, W
  <2>2. W[k + 1] = ByteLevelDecode(SubSeq(s, k + 1, Len(s))) BY <2>1, DecodeRest DEF W
  <2> QED BY <2>1, <2>2
<1>4. /\ W[j] = ByteLevelDecode(b) /\ Len(b) = n - (j - 1)
      /\ \A h \in 1..(n - (j - 1)) : b[h] = s[h + (j - 1)]
  <2> DEFINE k == j - 1
  <2>1. k \in 0..Len(s) /\ k + 1 = j BY <1>1
  <2> HIDE DEF k, W
  <2>2. /\ W[k + 1] = ByteLevelDecode(SubSeq(s, k + 1, Len(s)))
        /\ Len(SubSeq(s, k + 1, Len(s))) = Len(s) - k
        /\ \A h \in 1..(Len(s) - k) : SubSeq(s, k + 1, Len(s))[h] = s[h + k]
    BY <2>1, DecodeRest DEF W
  <2>3. /\ W[j] = ByteLevelDecode(b) /\ Len(b) = n - k
        /\ \A h \in 1..(n - k) : b[h] = s[h + k]
    BY <2>1, <2>2
  <2> QED BY <2>3 DEF k
<1>5. ~Meeting(a, b)
  <2> SUFFICES ASSUME b # << >>, Spells(a[Len(a)], b[1]) PROVE FALSE BY DEF Meeting
  <2> HIDE DEF a, b, n
  <2>1. Len(b) # 0 BY <1>2
  <2>2. j <= n
    <3> DEFINE m == Len(b)
    <3>1. m = n - (j - 1) /\ m # 0 /\ m \in Nat BY <1>2, <1>4, <2>1
    <3> HIDE DEF m
    <3> QED BY <1>1, <3>1
  <2>3. 1 \in 1..(n - (j - 1)) /\ 1 + (j - 1) = j BY <1>1, <2>2
  <2>4. b[1] = s[j] BY <1>4, <2>3
  <2>5. j - i \in 1..(j - i) /\ (j - i) + i - 1 = j - 1 BY <1>1
  <2>6. a[j - i] = s[(j - i) + i - 1] BY <1>2, <2>5
  <2>7. a[Len(a)] = s[j - 1] BY <1>2, <2>5, <2>6
  <2>8. ~Spells(s[j - 1], s[j]) BY <2>2 DEF n
  <2> QED BY <2>4, <2>7, <2>8
<1>6. ByteLevelDecode(a \o b) = ByteLevelDecode(a) \o ByteLevelDecode(b)
  <2>1. a \in String /\ b \in String BY <1>2 DEF String
  <2> HIDE DEF a, b
  <2> QED BY <1>5, <2>1, DecodeCat
<1> HIDE DEF W
<1> QED BY <1>2, <1>3, <1>4, <1>6 DEF W, a

-----------------------------------------------------------------------------
(* The loop that encodes by longest match.                                 *)
CoveredAt(v, s, i) == Longest(Entries(v), s, i)
SymAt(s, i) == SubSeq(s, i, i + SymbolLen(s, i) - 1)
ByteAt(s, i) == IF SymAt(s, i) \in DOMAIN SymbolByte THEN SymbolByte[SymAt(s, i)] ELSE s[i]
GreedyId(v, s, i) ==
  IF CoveredAt(v, s, i) > 0 THEN Id(v, SubSeq(s, i, i + CoveredAt(v, s, i) - 1))
  ELSE ByteNewlineOrUnknown(v, ByteAt(s, i))
GreedyNext(v, s, i) == i + IF CoveredAt(v, s, i) > 0 THEN CoveredAt(v, s, i) ELSE SymbolLen(s, i)
GreedyPiece(v, s) == [i \in DOMAIN s |-> <<GreedyId(v, s, i)>>]
GreedyOn(v, s) == [i \in DOMAIN s |-> GreedyNext(v, s, i)]
GreedyFrom(v, s) == Onward(GreedyPiece(v, s), GreedyOn(v, s))
GreedyLoop(v, s) ==
  /\ GreedyFrom(v, s) \in [1..(Len(s) + 1) -> Seq(Ids)]
  /\ GreedyFrom(v, s)[Len(s) + 1] = << >>
  /\ \A i \in 1..Len(s) : /\ GreedyFrom(v, s)[i] = <<GreedyId(v, s, i)>> \o GreedyFrom(v, s)[GreedyNext(v, s, i)]
                          /\ GreedyNext(v, s, i) \in (i + 1)..(Len(s) + 1)
                          /\ GreedyId(v, s, i) \in Ids

(* Encoding by longest match is its loop, begun at position 1.             *)
LEMMA GreedyIs ==
  ASSUME NEW v \in Vocabulary, NEW s \in String
  PROVE  GreedyLoop(v, s) /\ EncodeGreedy(v, s) = GreedyFrom(v, s)[1]
<1> DEFINE n == Len(s)
           p == GreedyPiece(v, s)
           nx == GreedyOn(v, s)
           F == GreedyFrom(v, s)
<1>1. n \in Nat /\ DOMAIN s = 1..n BY DEF String
<1>2. \A i \in 1..n : GreedyId(v, s, i) \in Ids
  <2>1. \A tok : Id(v, tok) \in Int BY IdIs
  <2>2. \A b : ByteNewlineOrUnknown(v, b) \in Int BY OtherIdIs DEF ByteNewlineOrUnknown
  <2> QED BY <2>1, <2>2 DEF GreedyId, Ids
<1>3. \A i \in 1..n : GreedyNext(v, s, i) \in (i + 1)..(n + 1)
  <2>1. TAKE i \in 1..n
  <2> DEFINE c == CoveredAt(v, s, i)
             w == SymbolLen(s, i)
             k == GreedyNext(v, s, i)
  <2>2. c \in 0..(n - i + 1) BY LongestIs DEF CoveredAt
  <2>3. w \in 1..2 /\ i + w \in (i + 1)..(n + 1) BY SymbolLenIs
  <2>4. k = i + IF c > 0 THEN c ELSE w BY DEF GreedyNext
  <2> HIDE DEF c, w, k, n
  <2>5. CASE c > 0
    <3>1. k = i + c BY <2>4, <2>5
    <3>2. k \in (i + 1)..(n + 1) BY <1>1, <2>2, <2>5, <3>1
    <3> QED BY <3>2 DEF k
  <2>6. CASE ~(c > 0)
    <3>1. k = i + w BY <2>4, <2>6
    <3> QED BY <2>3, <3>1 DEF k
  <2> QED BY <2>5, <2>6
<1>4. \A i \in 1..n : p[i] = <<GreedyId(v, s, i)>> /\ nx[i] = GreedyNext(v, s, i)
  BY <1>1 DEF GreedyPiece, GreedyOn
<1>5. p = [i \in 1..n |-> p[i]] BY <1>1 DEF GreedyPiece
<1>6. EncodeGreedy(v, s) = F[1]
  BY DEF EncodeGreedy, GreedyFrom, GreedyPiece, GreedyOn, GreedyId, GreedyNext, CoveredAt, ByteAt, SymAt, Walk
<1>7. F = Onward(p, nx) BY DEF GreedyFrom
<1> HIDE DEF p, nx, n, F
<1>8. \A i \in 1..n : p[i] \in Seq(Ids)
  <2>1. TAKE i \in 1..n
  <2> DEFINE x == GreedyId(v, s, i)
  <2>2. x \in Ids /\ p[i] = <<x>> BY <1>2, <1>4
  <2> HIDE DEF x
  <2> QED BY <2>2
<1>9. \A i \in 1..n : nx[i] \in (i + 1)..(n + 1) BY <1>3, <1>4
<1>10. Unfolds(Ids, p, nx) /\ Len(p) = n BY <1>1, <1>5, <1>8, <1>9, LoopOf
<1>11. /\ F \in [1..(n + 1) -> Seq(Ids)] /\ F[n + 1] = << >>
       /\ \A i \in 1..n : F[i] = p[i] \o F[nx[i]]
  BY <1>7, <1>10 DEF Unfolds
<1>12. \A i \in 1..n : F[i] = <<GreedyId(v, s, i)>> \o F[GreedyNext(v, s, i)] BY <1>4, <1>11
<1> QED BY <1>2, <1>3, <1>6, <1>11, <1>12 DEF GreedyLoop, F, n

(* What stands in for a byte says the byte.                                *)
LEMMA StandSaid ==
  ASSUME NEW v \in Vocabulary, NEW b \in Octet, Good(v, ByteNewlineOrUnknown(v, b))
  PROVE  LET x == Said(v, ByteNewlineOrUnknown(v, b))
         IN ByteLevelDecode(x) = <<b>> /\ x # << >> /\ (b \in Trailing => x[1] = b)
<1>0. \A y : <<y>> # << >> /\ <<y>>[1] = y OBVIOUS
<1>1. CASE Id(v, ByteToken(b)) < 0 /\ b = 10 /\ NewlineId(v) >= 0
  <2> DEFINE mark == IF Id(v, Symbol[10]) >= 0 THEN Symbol[10] ELSE LineFeed
             id == NewlineId(v)
  <2>1. ByteNewlineOrUnknown(v, b) = id BY <1>1 DEF ByteNewlineOrUnknown
  <2>2. id = IF Id(v, mark) >= 0 THEN Id(v, mark) ELSE Id(v, EscapedNewline) BY DEF NewlineId
  <2>3. id >= 0 /\ Token(v, id) # EscapedNewline BY <1>1, <2>1 DEF Good
  <2>4. mark \in {Symbol[10], LineFeed} OBVIOUS
  <2> HIDE DEF mark, id
  <2>5. Token(v, id) = mark
    <3>1. Id(v, mark) >= 0
      <4> SUFFICES ASSUME ~(Id(v, mark) >= 0) PROVE FALSE OBVIOUS
      <4>1. id = Id(v, EscapedNewline) BY <2>2
      <4> QED BY <2>3, <4>1, TokenBack
    <3> QED BY <2>2, <3>1, TokenBack
  <2>6. mark \in Seq(Octet) /\ ByteLevelDecode(mark) = <<10>> /\ mark # << >>
    <3>1. 10 \in Octet BY DEF Octet
    <3>2. Symbol[10] \in Seq(Octet) /\ ByteLevelDecode(Symbol[10]) = <<10>> BY <3>1, SymbolPaired DEF Paired
    <3>3. Symbol[10] # << >>
      <4>1. Symbol[10] = <<196, 138>> BY BlankSymbols
      <4> QED BY <4>1
    <3>4. LineFeed \in Seq(Octet) /\ LineFeed # << >>
      <4> HIDE DEF Octet
      <4> QED BY <3>1 DEF LineFeed
    <3>5. ByteLevelDecode(LineFeed) = <<10>>
      <4>1. 10 \in Nat OBVIOUS
      <4> QED BY <4>1, DecodeOne DEF LineFeed
    <3> QED BY <2>4, <3>2, <3>3, <3>4, <3>5
  <2>7. Said(v, id) = mark BY <2>5, <2>6, BytesRaw DEF Said
  <2>8. b \notin Trailing
    <3>1. 10 \notin Trailing BY DEF Trailing
    <3> QED BY <1>1, <3>1
  <2> QED BY <1>1, <2>1, <2>6, <2>7, <2>8
<1>2. CASE ~(Id(v, ByteToken(b)) < 0 /\ b = 10 /\ NewlineId(v) >= 0)
  <2>1. ByteNewlineOrUnknown(v, b) = ByteOrUnknown(v, b) BY <1>2 DEF ByteNewlineOrUnknown
  <2>2. ByteOrUnknown(v, b) # UnknownId(v) BY <2>1 DEF Good
  <2>3. Said(v, ByteOrUnknown(v, b)) = <<b>> /\ ByteLevelDecode(<<b>>) = <<b>> BY <2>2, ByteSaid
  <2> QED BY <1>0, <2>1, <2>3
<1> QED BY <1>1, <1>2

(* The byte looked up at a position of encoded text is the one decoded     *)
(* there.                                                                  *)
LEMMA ByteAtIs ==
  ASSUME NEW s \in Paired, NEW i \in 1..Len(s)
  PROVE  /\ ByteAt(s, i) \in Octet /\ DecPiece(s)[i] = <<ByteAt(s, i)>>
         /\ s[i] \in Trailing => ByteAt(s, i) = s[i]
<1> DEFINE w == SymbolLen(s, i)
           c == SymAt(s, i)
           b == ByteAt(s, i)
<1>1. s \in Seq(Octet) /\ s \in String BY ByteString DEF Paired
<1>2. /\ w \in 1..2
      /\ w = 1 => c = <<s[i]>>
      /\ w = 2 => c = <<s[i], s[i + 1]>> /\ c \in DOMAIN SymbolByte
  BY <1>1, SymbolLenIs DEF SymAt
<1>3. /\ w = 2 <=> i < Len(s) /\ Spells(s[i], s[i + 1])
      /\ w = 1 => DecPiece(s)[i] = <<s[i]>>
      /\ w = 2 => DecPiece(s)[i] = <<SymbolByte[<<s[i], s[i + 1]>>]>>
  BY <1>1, DecAt
<1>4. b = IF c \in DOMAIN SymbolByte THEN SymbolByte[c] ELSE s[i] BY DEF ByteAt
<1>5. s[i] \in Octet
  <2> HIDE DEF Octet
  <2> QED BY <1>1
<1>6. w = 1 \/ w = 2
  <2> HIDE DEF w
  <2> QED BY <1>2
<1> HIDE DEF w, c, b
<1>7. CASE w = 1
  <2> DEFINE x == s[i]
  <2>1. c = <<x>> /\ DecPiece(s)[i] = <<x>> BY <1>2, <1>3, <1>7
  <2>2. c \in DOMAIN SymbolByte => SymbolByte[c] = x
    <3> HIDE DEF x
    <3> QED BY <2>1, SymbolsAre
  <2>3. b = x BY <1>4, <2>2
  <2> QED BY <1>5, <2>1, <2>3 DEF b
<1>8. CASE w = 2
  <2> DEFINE p == <<s[i], s[i + 1]>>
  <2>1. c = p /\ c \in DOMAIN SymbolByte /\ DecPiece(s)[i] = <<SymbolByte[p]>> BY <1>2, <1>3, <1>8
  <2>2. b = SymbolByte[p] BY <1>4, <2>1
  <2>3. b \in Octet BY <2>1, <2>2, SymbolDecode
  <2>4. s[i] \notin Trailing
    <3> DEFINE x == s[i]
    <3>1. Spells(x, s[i + 1]) BY <1>3, <1>8
    <3>2. x \in Leading BY <3>1, SymbolsAre
    <3> HIDE DEF x
    <3>3. x \notin Trailing BY <3>2 DEF Leading, Trailing
    <3> QED BY <3>3 DEF x
  <2> HIDE DEF p
  <2>5. DecPiece(s)[i] = <<b>> BY <2>1, <2>2
  <2> QED BY <2>3, <2>4, <2>5 DEF b
<1> QED BY <1>6, <1>7, <1>8

(* What a token that covers the text says.                                 *)
LEMMA CoveredSaid ==
  ASSUME NEW v \in Vocabulary, NEW s \in Seq(Octet), NEW i \in 1..Len(s), CoveredAt(v, s, i) > 0
  PROVE  /\ GreedyNext(v, s, i) \in (i + 1)..(Len(s) + 1)
         /\ Said(v, GreedyId(v, s, i)) = SubSeq(s, i, GreedyNext(v, s, i) - 1)
         /\ SubSeq(s, i, GreedyNext(v, s, i) - 1) # << >>
         /\ SubSeq(s, i, GreedyNext(v, s, i) - 1)[Len(SubSeq(s, i, GreedyNext(v, s, i) - 1))]
              = s[GreedyNext(v, s, i) - 1]
         /\ SubSeq(s, i, GreedyNext(v, s, i) - 1)[1] = s[i]
<1> DEFINE n == Len(s)
           L == CoveredAt(v, s, i)
           j == GreedyNext(v, s, i)
           tok == SubSeq(s, i, j - 1)
<1>1. n \in Nat /\ i \in 1..n /\ s \in String
  <2>1. s \in String BY ByteString
  <2> QED BY <2>1 DEF String
<1>2. L \in LongestAt(Entries(v), s, i) BY <1>1, LongestIs DEF CoveredAt
<1>3. L \in 1..(n - i + 1) /\ SubSeq(s, i, i + L - 1) \in Entries(v) BY <1>2 DEF LongestAt
<1>4. j = i + L /\ GreedyId(v, s, i) = Id(v, SubSeq(s, i, i + L - 1)) BY DEF GreedyNext, GreedyId
<1> HIDE DEF L, n, j
<1>5. /\ j - 1 = i + L - 1 /\ j \in (i + 1)..(n + 1) /\ j \in i..(n + 1) /\ i \in 1..(n + 1)
      /\ j - i \in 1..(j - i) /\ (j - i) + i - 1 = j - 1 /\ 1 \in 1..(j - i) /\ 1 + i - 1 = i /\ j - i # 0
  BY <1>1, <1>3, <1>4
<1>6. tok = SubSeq(s, i, i + L - 1) BY <1>5, Zenon
<1>7. tok \in Seq(Octet) /\ Len(tok) = j - i /\ \A k \in 1..(j - i) : tok[k] = s[k + i - 1]
  BY <1>5, SubSeqJoin DEF n
<1> HIDE DEF tok
<1>8. tok[1] = s[i] /\ tok[Len(tok)] = s[j - 1] /\ tok # << >>
  <2>1. tok[1] = s[1 + i - 1] BY <1>5, <1>7
  <2>2. tok[j - i] = s[(j - i) + i - 1] BY <1>5, <1>7
  <2>3. Len(tok) # 0 BY <1>5, <1>7
  <2>4. tok # << >> BY <2>3
  <2> QED BY <1>5, <1>7, <2>1, <2>2, <2>4
<1>9. Id(v, tok) >= 0
  <2>1. tok \in Entries(v) BY <1>3, <1>6
  <2>2. PICK k \in DOMAIN v.tokens : tok = v.tokens[k] BY <2>1 DEF Entries
  <2> QED BY <2>2, IdFound
<1>10. Said(v, Id(v, tok)) = tok
  <2>1. Token(v, Id(v, tok)) = tok BY <1>9, TokenBack
  <2> QED BY <1>7, <2>1, BytesRaw DEF Said
<1>11. GreedyId(v, s, i) = Id(v, tok) BY <1>4, <1>6
<1> QED BY <1>5, <1>8, <1>10, <1>11 DEF tok, j, n

(* What an id of the loop begins with.                                     *)
LEMMA GreedyFirst ==
  ASSUME NEW v \in Vocabulary, NEW s \in Paired, NEW i \in 1..Len(s), Good(v, GreedyId(v, s, i))
  PROVE  /\ Said(v, GreedyId(v, s, i)) # << >>
         /\ s[i] \in Trailing => Said(v, GreedyId(v, s, i))[1] = s[i]
         /\ ~(CoveredAt(v, s, i) > 0) => ByteLevelDecode(Said(v, GreedyId(v, s, i))) = DecPiece(s)[i]
<1>1. CASE CoveredAt(v, s, i) > 0
  <2>1. s \in Seq(Octet) BY DEF Paired
  <2> DEFINE tok == SubSeq(s, i, GreedyNext(v, s, i) - 1)
  <2>2. Said(v, GreedyId(v, s, i)) = tok /\ tok # << >> /\ tok[1] = s[i] BY <1>1, <2>1, CoveredSaid
  <2> HIDE DEF tok
  <2> QED BY <1>1, <2>2
<1>2. CASE ~(CoveredAt(v, s, i) > 0)
  <2> DEFINE b == ByteAt(s, i)
  <2>1. GreedyId(v, s, i) = ByteNewlineOrUnknown(v, b) BY <1>2 DEF GreedyId
  <2>2. b \in Octet /\ DecPiece(s)[i] = <<b>> /\ (s[i] \in Trailing => b = s[i]) BY ByteAtIs
  <2> DEFINE x == Said(v, ByteNewlineOrUnknown(v, b))
  <2>3. ByteLevelDecode(x) = <<b>> /\ x # << >> /\ (b \in Trailing => x[1] = b)
    <3> HIDE DEF b
    <3> QED BY <2>1, <2>2, StandSaid
  <2>4. Said(v, GreedyId(v, s, i)) = x BY <2>1
  <2> HIDE DEF x, b
  <2> QED BY <2>2, <2>3, <2>4
<1> QED BY <1>1, <1>2

(* Ids no two neighbours of which are taken for a symbol.                  *)
Apart(v, seq) == \A i \in 1..(Len(seq) - 1) : ~Meeting(Said(v, seq[i]), Said(v, seq[i + 1]))

(* Ids that are not confused are apart.                                    *)
LEMMA ApartIs ==
  ASSUME NEW v \in Vocabulary, NEW seq \in Seq(Ids), ~Confused(v, seq) PROVE Apart(v, seq)
<1> SUFFICES ASSUME NEW i \in 1..(Len(seq) - 1), Meeting(Said(v, seq[i]), Said(v, seq[i + 1])) PROVE FALSE
  BY DEF Apart
<1> DEFINE k == i - 1
           a == SubSeq(seq, 1, k)
           x == seq[i]
           w == Said(v, x)
           y == <<x>>
           A == Joined(v, a)
           B == Joined(v, SubSeq(seq, 1, i))
<1>1. k \in 0..(Len(seq) - 1) /\ k + 1 = i OBVIOUS
<1>2. a \in Seq(Ids) /\ x \in Ids /\ SubSeq(seq, 1, i) = a \o y
  <2> HIDE DEF k
  <2>1. a \in Seq(Ids) /\ seq[k + 1] \in Ids /\ SubSeq(seq, 1, k + 1) = a \o <<seq[k + 1]>>
    BY <1>1, PrefixGrows
  <2> QED BY <1>1, <2>1
<1>3. y \in Seq(Ids) BY <1>2
<1>4. A = Gather(SaidOf(v), a) /\ A \in String /\ w \in String BY <1>2, JoinedIs, SaidType
<1>5. B = A \o w
  <2> DEFINE z == a \o y
  <2>1. z \in Seq(Ids)
    <3> HIDE DEF a, y
    <3> QED BY <1>2, <1>3, ConcatProperties
  <2>2. B = Gather(SaidOf(v), z)
    <3>1. B = Joined(v, z) BY <1>2
    <3> HIDE DEF z
    <3> QED BY <2>1, <3>1, JoinedIs
  <2> HIDE DEF a, y
  <2>3. Gather(SaidOf(v), z) = Gather(SaidOf(v), a) \o Gather(SaidOf(v), y)
    <3> DEFINE G == SaidOf(v)
    <3> HIDE DEF G
    <3>1. a \in Seq(Ids) /\ y \in Seq(Ids) BY <1>2, <1>3
    <3>2. Maps(G, Ids, Nat) BY SaidMaps DEF G
    <3>3. Gather(G, a \o y) = Gather(G, a) \o Gather(G, y) BY <3>1, <3>2, GatherCat
    <3> QED BY <3>3 DEF G
  <2>4. Gather(SaidOf(v), y) = w
    <3>1. Gather(SaidOf(v), y) = SaidOf(v)[x] BY <1>2, SaidMaps, GatherOne DEF y
    <3> QED BY <1>2, <3>1 DEF SaidOf
  <2> HIDE DEF A, B, w, z
  <2> QED BY <2>2, <2>3, <2>4, <1>4
<1> DEFINE u == Said(v, seq[i + 1])
<1>6. w # << >> /\ u # << >> /\ Spells(w[Len(w)], u[1]) BY DEF Meeting
<1>7. ~(B # << >> /\ u # << >> /\ Spells(B[Len(B)], u[1])) BY DEF Confused, Spells, Said
<1> HIDE DEF A, w, B, u
<1>8. A \in Seq(Nat) /\ w \in Seq(Nat) BY <1>4 DEF String
<1>9. B[Len(B)] = w[Len(w)] /\ B # << >>
  <2>1. Len(A) \in Nat /\ Len(w) \in Nat /\ Len(w) \in 1..Len(w) /\ Len(w) # 0 BY <1>6, <1>8
  <2>2. B \in Seq(Nat) /\ Len(B) = Len(A) + Len(w) BY <1>5, <1>8, ConcatProperties
  <2>3. \A j \in 1..Len(w) : (A \o w)[Len(A) + j] = w[j] BY <1>8, CatElements
  <2>4. B[Len(A) + Len(w)] = w[Len(w)] BY <1>5, <2>1, <2>3
  <2>5. Len(B) # 0 BY <2>1, <2>2
  <2>6. B # << >> BY <2>5
  <2> QED BY <2>2, <2>4, <2>6
<1> QED BY <1>6, <1>7, <1>9

(* Of ids that are apart, the first and the next are, and the others are.  *)
LEMMA ApartRest ==
  ASSUME NEW v, NEW x \in Ids, NEW q \in Seq(Ids), Apart(v, <<x>> \o q)
  PROVE  Apart(v, q) /\ (q # << >> => ~Meeting(Said(v, x), Said(v, q[1])))
<1> DEFINE y == <<x>>
           c == y \o q
           n == Len(q)
<1>1. y \in Seq(Ids) /\ Len(y) = 1 /\ y[1] = x OBVIOUS
<1>2. n \in Nat OBVIOUS
<1>3. Apart(v, c) OBVIOUS
<1> HIDE DEF y
<1>4. Len(c) = Len(y) + n BY <1>1, ConcatProperties
<1>5. /\ \A j \in 1..Len(y) : c[j] = y[j]
      /\ \A j \in 1..n : c[Len(y) + j] = q[j]
  <2>1. y \in Seq(Ids) BY <1>1
  <2> QED BY <2>1, CatElements
<1>6. Len(c) = n + 1 /\ c[1] = x /\ \A j \in 1..n : c[1 + j] = q[j]
  <2> HIDE DEF c, n
  <2> QED BY <1>1, <1>2, <1>4, <1>5
<1> HIDE DEF c
<1>7. \A i \in 1..((n + 1) - 1) : ~Meeting(Said(v, c[i]), Said(v, c[i + 1])) BY <1>3, <1>6 DEF Apart
<1>8. (n + 1) - 1 = n BY <1>2
<1>9. \A i \in 1..(n - 1) : ~Meeting(Said(v, q[i]), Said(v, q[i + 1]))
  <2>1. TAKE i \in 1..(n - 1)
  <2>2. 1 + i \in 1..n /\ i \in 1..n /\ i + 1 \in 1..n /\ 1 + (i + 1) = (1 + i) + 1 BY <1>2
  <2>3. ~Meeting(Said(v, c[1 + i]), Said(v, c[(1 + i) + 1])) BY <1>7, <1>8, <2>2
  <2>4. c[1 + i] = q[i] /\ c[1 + (i + 1)] = q[i + 1] BY <1>6, <2>2
  <2> QED BY <2>2, <2>3, <2>4
<1>10. q # << >> => ~Meeting(Said(v, x), Said(v, q[1]))
  <2> SUFFICES ASSUME q # << >> PROVE ~Meeting(Said(v, x), Said(v, q[1])) OBVIOUS
  <2>1. 1 \in 1..n OBVIOUS
  <2>2. c[1 + 1] = q[1] BY <1>6, <2>1
  <2>3. ~Meeting(Said(v, c[1]), Said(v, c[1 + 1])) BY <1>7, <1>8, <2>1
  <2> QED BY <1>6, <2>2, <2>3
<1> QED BY <1>9, <1>10 DEF Apart

(* What is encoded by longest match says the text.                         *)
Hears(v, seq, bytes) == AllGood(v, seq) /\ Apart(v, seq) => Gather(HeardOf(v), seq) = bytes

(* The ids of the longest match say what the encoded text decodes to.      *)
LEMMA GreedySaid ==
  ASSUME NEW v \in Vocabulary, NEW s \in Paired
  PROVE  Hears(v, EncodeGreedy(v, s), ByteLevelDecode(s)) /\ EncodeGreedy(v, s) \in Seq(Ids)
<1> DEFINE n == Len(s)
           F == GreedyFrom(v, s)
           W == DecFrom(s)
           U == {i \in 1..(n + 1) : Hears(v, F[i], W[i])}
<1>1. s \in Seq(Octet) /\ s \in String BY ByteString DEF Paired
<1>2. n \in Nat BY <1>1 DEF String
<1>3. EncodeGreedy(v, s) = F[1] BY <1>1, GreedyIs
<1>4. /\ F \in [1..(n + 1) -> Seq(Ids)] /\ F[n + 1] = << >>
      /\ \A i \in 1..n : /\ F[i] = <<GreedyId(v, s, i)>> \o F[GreedyNext(v, s, i)]
                         /\ GreedyNext(v, s, i) \in (i + 1)..(n + 1)
                         /\ GreedyId(v, s, i) \in Ids
  BY <1>1, GreedyIs DEF GreedyLoop
<1>5. /\ W[n + 1] = << >> /\ ByteLevelDecode(s) = W[1]
      /\ \A i \in 1..n : W[i] = DecPiece(s)[i] \o W[i + SymbolLen(s, i)]
  BY <1>1, DecLoop, DecodeIs DEF DecUnfolds
<1>6. \A i \in 1..(n + 1) : F[i] \in Seq(Ids)
  <2> HIDE DEF F, n
  <2> QED BY <1>4
<1>7. \A i \in 1..n : \A q \in Seq(Ids) : F[i] = <<GreedyId(v, s, i)>> \o q => F[i][1] = GreedyId(v, s, i) /\ F[i] # << >>
  <2>1. \A x \in Ids : \A q \in Seq(Ids) : (<<x>> \o q)[1] = x /\ <<x>> \o q # << >> OBVIOUS
  <2> HIDE DEF F
  <2> QED BY <1>4, <2>1
<1> HIDE DEF F, W, n
<1>8. ASSUME NEW i \in 1..(n + 1), \A j \in (i + 1)..(n + 1) : j \in U PROVE i \in U
  <2>1. CASE i = n + 1
    <3>1. Gather(HeardOf(v), << >>) = << >> BY GatherNone
    <3> QED BY <1>4, <1>5, <2>1, <3>1 DEF Hears
  <2>2. CASE i # n + 1
    <3>1. i \in 1..n BY <1>2, <2>2
    <3> DEFINE j == GreedyNext(v, s, i)
               x == GreedyId(v, s, i)
               y == <<x>>
               q == F[j]
    <3>2. F[i] = y \o q /\ j \in (i + 1)..(n + 1) /\ x \in Ids BY <1>4, <3>1
    <3>3. j \in 1..(n + 1) /\ i \in 1..Len(s)
      <4> HIDE DEF j
      <4> QED BY <1>2, <3>1, <3>2 DEF n
    <3>4. q \in Seq(Ids) /\ y \in Seq(Ids) BY <1>6, <3>2, <3>3
    <3>5. Hears(v, q, W[j]) BY <1>8, <3>2
    <3> SUFFICES ASSUME AllGood(v, y \o q), Apart(v, y \o q)
                 PROVE  Gather(HeardOf(v), y \o q) = W[i]
      BY <3>2 DEF Hears
    <3>6. AllGood(v, y) /\ AllGood(v, q)
      <4> HIDE DEF y, q
      <4> QED BY <3>4, GoodCat
    <3>7. Apart(v, q) /\ (q # << >> => ~Meeting(Said(v, x), Said(v, q[1])))
      <4> HIDE DEF x, q
      <4> QED BY <3>2, <3>4, ApartRest
    <3>8. Gather(HeardOf(v), q) = W[j] BY <3>5, <3>6, <3>7 DEF Hears
    <3>9. Gather(HeardOf(v), y \o q) = ByteLevelDecode(Said(v, x)) \o W[j]
      <4>1. Gather(HeardOf(v), y) = HeardOf(v)[x]
        <5> HIDE DEF x
        <5> QED BY <3>2, SaidMaps, GatherOne
      <4>2. HeardOf(v)[x] = ByteLevelDecode(Said(v, x)) BY <3>2 DEF HeardOf
      <4> HIDE DEF y, q, x
      <4>3. Gather(HeardOf(v), y \o q) = Gather(HeardOf(v), y) \o Gather(HeardOf(v), q)
        BY <3>4, SaidMaps, GatherCat
      <4> QED BY <3>8, <4>1, <4>2, <4>3
    <3>10. Good(v, x)
      <4>1. 1 \in DOMAIN y /\ y[1] = x OBVIOUS
      <4> HIDE DEF y, x
      <4> QED BY <3>6, <4>1 DEF AllGood
    <3>11. W[i] = ByteLevelDecode(Said(v, x)) \o W[j]
      <4>1. CASE ~(CoveredAt(v, s, i) > 0)
        <5>1. ByteLevelDecode(Said(v, x)) = DecPiece(s)[i] BY <3>3, <3>10, <4>1, GreedyFirst
        <5>2. j = i + SymbolLen(s, i) BY <4>1 DEF GreedyNext
        <5>3. W[i] = DecPiece(s)[i] \o W[i + SymbolLen(s, i)] BY <1>5, <3>1
        <5> HIDE DEF x, j
        <5> QED BY <5>1, <5>2, <5>3
      <4>2. CASE CoveredAt(v, s, i) > 0
        <5> DEFINE tok == SubSeq(s, i, j - 1)
        <5>1. Said(v, x) = tok /\ tok # << >> /\ tok[Len(tok)] = s[j - 1] BY <1>1, <3>3, <4>2, CoveredSaid
        <5>2. j <= Len(s) => ~Spells(s[j - 1], s[j])
          <6> SUFFICES ASSUME j <= n, Spells(s[j - 1], s[j]) PROVE FALSE BY DEF n
          <6>1. j \in 1..n
            <7> HIDE DEF j
            <7> QED BY <1>2, <3>3
          <6> DEFINE z == GreedyId(v, s, j)
                     k == GreedyNext(v, s, j)
          <6>2. q = <<z>> \o F[k] /\ k \in (j + 1)..(n + 1) /\ z \in Ids BY <1>4, <6>1
          <6>3. F[k] \in Seq(Ids)
            <7>1. k \in 1..(n + 1)
              <8> HIDE DEF j, k
              <8> QED BY <1>2, <6>1, <6>2
            <7> QED BY <1>6, <7>1
          <6>4. q[1] = z /\ q # << >>
            <7> HIDE DEF j, k
            <7> QED BY <1>7, <6>1, <6>2, <6>3
          <6>5. Good(v, z)
            <7>1. 1 \in DOMAIN q
              <8> HIDE DEF q
              <8> QED BY <3>4, <6>4
            <7> HIDE DEF q, z
            <7> QED BY <3>6, <6>4, <7>1 DEF AllGood
          <6>6. j \in 1..Len(s) BY <6>1 DEF n
          <6>7. s[j] \in Trailing
            <7> DEFINE e == s[j]
                       f == s[j - 1]
            <7>1. Spells(f, e) OBVIOUS
            <7> HIDE DEF e, f
            <7>2. e \in Trailing BY <7>1, SymbolsAre
            <7> QED BY <7>2 DEF e
          <6>8. Said(v, z) # << >> /\ Said(v, z)[1] = s[j]
            <7> HIDE DEF j
            <7> QED BY <6>5, <6>6, <6>7, GreedyFirst
          <6>9. ~Meeting(Said(v, x), Said(v, z)) BY <3>7, <6>4
          <6> HIDE DEF x, z, tok, j
          <6> QED BY <5>1, <6>8, <6>9 DEF Meeting
        <5>3. W[i] = ByteLevelDecode(tok) \o W[j]
          <6>1. j \in (i + 1)..(Len(s) + 1) BY <3>2 DEF n
          <6> HIDE DEF j
          <6> QED BY <1>1, <3>3, <5>2, <6>1, DecodeInTwo DEF W
        <5> HIDE DEF x, tok, j
        <5> QED BY <5>1, <5>3
      <4> QED BY <4>1, <4>2
    <3> HIDE DEF x, y, q, j
    <3> QED BY <3>9, <3>11
  <2> QED BY <2>1, <2>2
<1>9. \A i \in 1..(n + 1) : i \in U
  <2>1. n + 1 \in Nat BY <1>2
  <2> HIDE DEF U
  <2> QED BY <1>8, <2>1, Downward
<1>10. 1 \in 1..(n + 1) BY <1>2
<1>11. Hears(v, F[1], W[1]) BY <1>9, <1>10
<1> QED BY <1>3, <1>5, <1>6, <1>10, <1>11

(* What the ids of a text say, however it is encoded.                      *)
LEMMA EncodedSaid ==
  ASSUME NEW v \in Vocabulary, NEW text \in Seq(Char),
         AllGood(v, Encoded(v, text)), ~Confused(v, Encoded(v, text))
  PROVE  Decoded(v, Encoded(v, text)) = TextBytes(Normalise(text))
<1> DEFINE t == Normalise(text)
           w == TextBytes(t)
           s == ByteLevelEncode(w)
           seq == Encoded(v, text)
<1>1. t \in Seq(Char) BY NormaliseType
<1>2. w \in Seq(Octet) BY <1>1, TextBytesType
<1>3. s \in Paired /\ ByteLevelDecode(s) = w BY <1>2, EncodedIs
<1>4. CASE UsesBpe(v)
  <2>1. seq = EncodeBpe(v, t) BY <1>4 DEF Encoded
  <2>2. SaysBytes(v, seq, w) /\ seq \in Seq(Ids) BY <1>1, <2>1, BpeSaid
  <2>3. Gather(HeardOf(v), seq) = w BY <2>2 DEF SaysBytes
  <2>4. Decoded(v, seq) = Gather(HeardOf(v), seq) BY <2>2, DecodedByPiece
  <2> QED BY <2>3, <2>4
<1>5. CASE ~UsesBpe(v)
  <2>1. seq = EncodeGreedy(v, s) BY <1>5 DEF Encoded
  <2>2. Hears(v, seq, w) /\ seq \in Seq(Ids) BY <1>3, <2>1, GreedySaid
  <2>3. Apart(v, seq) BY <2>2, ApartIs
  <2>4. Gather(HeardOf(v), seq) = w BY <2>2, <2>3 DEF Hears
  <2>5. Decoded(v, seq) = Gather(HeardOf(v), seq) BY <2>2, DecodedByPiece
  <2> QED BY <2>4, <2>5
<1> QED BY <1>4, <1>5

(* Text, tokens, text: the ids of a prompt decode to the prompt,           *)
(* normalised, for every vocabulary and every text (tokenizer_encode,      *)
(* tokenizer_decode).                                                      *)
THEOREM AlwaysRoundTrip == TextSpec => []RoundTrip
<1>1. TextInv => RoundTrip
  <2> SUFFICES ASSUME TextInv, source = "encoded", Faithful(vocab, ids)
               PROVE  Decoded(vocab, ids) = TextBytes(Normalise(prompt))
    BY DEF RoundTrip
  <2>1. vocab \in Vocabulary /\ prompt \in Seq(Char)
        /\ ids = Encoded(vocab, prompt)
    BY DEF TextInv
  <2>2. AllGood(vocab, ids) /\ ~Confused(vocab, ids) BY DEF Faithful, AllGood, Good
  <2> QED BY <2>1, <2>2, EncodedSaid
<1> QED BY <1>1, AlwaysTextInv, PTL
=============================================================================
