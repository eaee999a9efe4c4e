----------------------------- MODULE Tokenizer -----------------------------
(***************************************************************************)
(* The tokenizer, tokenizer.cpp: one vocabulary for the process, replaced  *)
(* whenever a model is opened; encoding by byte-pair merges or by longest  *)
(* match; decoding of all ids at once and, while text is streamed, of one  *)
(* piece at a time.                                                        *)
(*                                                                         *)
(* A string is a sequence of bytes.  Text is a sequence of characters, a   *)
(* record of the character's class and its UTF-8 bytes.  The six letters   *)
(* of a byte token, <0xNN>, are one code, ByteToken(NN), and <unk> is one: *)
(* no text spells them out.                                                *)
(***************************************************************************)
EXTENDS Integers, Sequences, FiniteSets, SequencesExt, FiniteSetsExt

CONSTANTS
  Vocabularies,  (* what model files hold: [tokens, merges, bpe, mode]     *)
  SpecialLike,   (* strings that look like a control token                 *)
  Added,         (* tokens the command line adds                           *)
  Texts,         (* prompts                                                *)
  GenMax         (* bound: ids generated                                   *)

Octet == 0..255
Class == {"letter", "digit", "mark", "space", "nbsp", "tab", "newline", "return",
          "apostrophe", "bom", "other"}
Char == [class : Class, bytes : Seq(Octet)]
String == Seq(Nat)
Mode == {"Generic", "Qwen2", "Qwen35"}
Vocabulary == [tokens : Seq(String), merges : Seq(String \X String), bpe : BOOLEAN, mode : Mode]

ASSUME Inputs ==
  /\ Texts \subseteq Seq(Char) /\ Added \in Seq(String) /\ GenMax \in Nat
  /\ \A v \in Vocabularies : v \in Vocabulary
  /\ \A tok \in SpecialLike : tok \in String /\ tok # << >>

VARIABLES
  vocab,         (* g_vocab and what is derived from it                    *)
  prompt,        (* the text last encoded, << >>: none                     *)
  ids,           (* its ids, or the ids generated                          *)
  source         (* where ids are from: "none", "encoded", "generated"     *)

textVars == <<vocab, prompt, ids, source>>

ByteToken(b) == <<1000 + b>>
Unknown == <<2000>>
IsByteToken(tok) == Len(tok) = 1 /\ tok[1] \in 1000..1255
Concat(strings) == FlattenSeq(strings)

(* A loop over the positions of a sequence: at position i it puts out      *)
(* piece[i] and goes on at next[i].  What it puts out from each position.  *)
Onward(piece, next) ==
  LET from[i \in 1..(Len(piece) + 1)] ==
        IF i > Len(piece) THEN << >> ELSE piece[i] \o from[next[i]]
  IN from
Walk(piece, next) == Onward(piece, next)[1]

-----------------------------------------------------------------------------
(* Byte-level symbols: a printable byte stands for itself, the others for  *)
(* the characters from U+0100 on; the symbol is the UTF-8 of that.         *)
Printable == (33..126) \cup (161..172) \cup (174..255)
CodePoint == [b \in 0..255 |-> IF b \in Printable THEN b
                               ELSE 256 + Cardinality((0..(b - 1)) \ Printable)]
Utf8(cp) == IF cp < 128 THEN <<cp>> ELSE <<192 + (cp \div 64), 128 + (cp % 64)>>
Symbol == [b \in 0..255 |-> Utf8(CodePoint[b])]

SymbolByte == [s \in {Symbol[b] : b \in 0..255} |-> CHOOSE b \in 0..255 : Symbol[b] = s]

ByteLevelEncode(string) == Concat([i \in DOMAIN string |-> Symbol[string[i]]])

(* The string cut into symbols, longest first; a byte that begins none is  *)
(* a piece of its own.                                                     *)
SymbolLen(s, i) == IF i < Len(s) /\ <<s[i], s[i + 1]>> \in DOMAIN SymbolByte THEN 2 ELSE 1

SplitSymbols(s) ==
  Walk([i \in DOMAIN s |-> <<SubSeq(s, i, i + SymbolLen(s, i) - 1)>>],
       [i \in DOMAIN s |-> i + SymbolLen(s, i)])

ByteLevelDecode(s) ==
  Concat([i \in DOMAIN SplitSymbols(s) |->
            LET sym == SplitSymbols(s)[i]
            IN IF sym \in DOMAIN SymbolByte THEN <<SymbolByte[sym]>> ELSE sym])

-----------------------------------------------------------------------------
(* The vocabulary.  The id of a token is its index less one; of equal      *)
(* tokens the last has the map entry and the trie node.                    *)
Id(v, tok) == IF \E i \in DOMAIN v.tokens : v.tokens[i] = tok
              THEN Max({i \in DOMAIN v.tokens : v.tokens[i] = tok}) - 1 ELSE -1
Token(v, id) == IF id \in 0..(Len(v.tokens) - 1) THEN v.tokens[id + 1] ELSE Unknown
UnknownId(v) == IF Id(v, Unknown) >= 0 THEN Id(v, Unknown)
                ELSE IF v.tokens # << >> THEN 0 ELSE -1

(* g_use_bpe: merges there are, and the file's model is a BPE.             *)
UsesBpe(v) == v.bpe /\ v.merges # << >>

(* Walking the trie from position i: the longest token of set S there.     *)
Longest(S, s, i) ==
  LET ends == {n \in 1..(Len(s) - i + 1) : SubSeq(s, i, i + n - 1) \in S}
  IN IF ends = {} THEN 0 ELSE Max(ends)

Entries(v) == {v.tokens[i] : i \in DOMAIN v.tokens} \ {<< >>}

(* A token is special by its text alone, whoever put it there.             *)
Special(v) == Entries(v) \cap SpecialLike

-----------------------------------------------------------------------------
(* normalize_text_for_tokenizer: carriage returns go, a no-break space is  *)
(* a space, a leading byte order mark goes.                                *)
Space == [class |-> "space", bytes |-> <<32>>]
Normalise(text) ==
  LET t == IF text # << >> /\ text[1].class = "bom" THEN Tail(text) ELSE text
  IN Concat([i \in DOMAIN t |-> CASE t[i].class = "return" -> << >>
                                  [] t[i].class = "nbsp" -> <<Space>>
                                  [] OTHER -> <<t[i]>>])

TextBytes(text) == Concat([i \in DOMAIN text |-> text[i].bytes])

(* Pretokenization.  A mark is part of a word for Qwen 3.5 only.           *)
IsWord(ch, mode) == ch.class \in {"letter", "digit"} \/ (ch.class = "mark" /\ mode = "Qwen35")
IsSpace(ch) == ch.class \in {"space", "tab"}
IsNewline(ch) == ch.class = "newline"

(* The first position from i on whose character is not one of P.           *)
Past(t, i, P(_)) == Min({j \in i..(Len(t) + 1) : j = Len(t) + 1 \/ ~P(t[j])})

Contraction(t, i) == /\ t[i].class = "apostrophe" /\ i < Len(t)
                     /\ t[i + 1].bytes \in {<<115>>, <<116>>, <<109>>, <<100>>}
LongContraction(t, i) ==
  /\ t[i].class = "apostrophe" /\ i + 1 < Len(t)
  /\ t[i + 1].bytes \o t[i + 2].bytes \in {<<114, 101>>, <<118, 101>>, <<108, 108>>}

(* pretokenize_bpe_text: where the part that starts at i ends.             *)
PartEnd(t, i, mode) ==
  LET Word(ch) == IsWord(ch, mode)
      Mark(ch) == ~IsSpace(ch) /\ ~IsNewline(ch) /\ ~Word(ch)
      \* the last run knows letters and digits only, not the marks of a mode
      Tail1(ch) == ~IsSpace(ch) /\ ~IsNewline(ch) /\ ch.class \notin {"letter", "digit"}
      spaces == Past(t, i + 1, IsSpace)
      lines == Past(t, spaces, IsNewline)
  IN CASE Contraction(t, i) -> i + 2
       [] ~Contraction(t, i) /\ LongContraction(t, i) -> i + 3
       [] OTHER ->
            IF t[i] = Space /\ i < Len(t) /\ Mark(t[i + 1])
            THEN Past(t, Past(t, i + 2, Mark), IsNewline)
            ELSE IF ~IsNewline(t[i]) /\ ~Word(t[i]) /\ i < Len(t) /\ Word(t[i + 1])
            THEN Past(t, i + 2, Word)
            ELSE IF Word(t[i]) THEN Past(t, i + 1, Word)
            ELSE IF IsSpace(t[i]) THEN lines
            ELSE IF IsNewline(t[i]) THEN Past(t, i + 1, IsNewline)
            ELSE Past(t, Past(t, i + 1, Tail1), IsNewline)

Parts(t, mode) ==
  Walk([i \in DOMAIN t |-> <<SubSeq(t, i, PartEnd(t, i, mode) - 1)>>],
       [i \in DOMAIN t |-> PartEnd(t, i, mode)])

-----------------------------------------------------------------------------
(* Byte-pair merges.                                                       *)
Rank(v, a, b) == IF \E r \in DOMAIN v.merges : v.merges[r] = <<a, b>>
                 THEN Max({r \in DOMAIN v.merges : v.merges[r] = <<a, b>>}) ELSE 0
Mergeable(v, syms) == {Rank(v, syms[i], syms[i + 1]) : i \in 1..(Len(syms) - 1)} \ {0}

(* One round: every pair of the best rank, from the left.                  *)
MergeRound(v, syms, rank) ==
  LET Pair(i) == i < Len(syms) /\ Rank(v, syms[i], syms[i + 1]) = rank
  IN Walk([i \in DOMAIN syms |-> IF Pair(i) THEN <<syms[i] \o syms[i + 1]>> ELSE <<syms[i]>>],
          [i \in DOMAIN syms |-> IF Pair(i) THEN i + 2 ELSE i + 1])

(* Mutant of BestRank: the pair merged is the one learnt last.             *)
BestRankLast(v, syms) == Max(Mergeable(v, syms))

BestRank(v, syms) == Min(Mergeable(v, syms))

Merged(v, syms) ==
  IF Mergeable(v, syms) = {} THEN syms ELSE MergeRound(v, syms, BestRank(v, syms))

(* Rounds until nothing is left to merge; each leaves fewer symbols.       *)
Rounds(v, syms) ==
  LET after[k \in 0..Len(syms)] == IF k = 0 THEN syms ELSE Merged(v, after[k - 1])
  IN after
ApplyMerges(v, syms) == Rounds(v, syms)[Len(syms)]

-----------------------------------------------------------------------------
(* tokenizer_encode.                                                       *)

(* What stands in for a byte no token covers: its byte token, for a        *)
(* newline that of the vocabulary, and else the unknown token.             *)
LineFeed == <<10>>
EscapedNewline == <<92, 110>>
NewlineId(v) ==
  LET mark == IF Id(v, Symbol[10]) >= 0 THEN Symbol[10] ELSE LineFeed
  IN IF Id(v, mark) >= 0 THEN Id(v, mark) ELSE Id(v, EscapedNewline)
ByteOrUnknown(v, b) == IF Id(v, ByteToken(b)) >= 0 THEN Id(v, ByteToken(b)) ELSE UnknownId(v)
ByteNewlineOrUnknown(v, b) ==
  IF Id(v, ByteToken(b)) < 0 /\ b = 10 /\ NewlineId(v) >= 0 THEN NewlineId(v)
  ELSE ByteOrUnknown(v, b)

(* A part of the text: its symbols merged and looked up.                   *)
EncodePart(v, part) ==
  LET syms == ApplyMerges(v, SplitSymbols(ByteLevelEncode(TextBytes(part))))
  IN [i \in DOMAIN syms |->
        IF Id(v, syms[i]) >= 0 THEN Id(v, syms[i])
        ELSE IF syms[i] \in DOMAIN SymbolByte THEN ByteOrUnknown(v, SymbolByte[syms[i]])
        ELSE UnknownId(v)]

(* Characters of t from i on that spell the longest special token there.   *)
SpecialLen(v, t, i) ==
  LET ends == {n \in 1..(Len(t) - i + 1) : TextBytes(SubSeq(t, i, i + n - 1)) \in Special(v)}
  IN IF ends = {} THEN 0 ELSE Max(ends)

(* Mutant of NextSpecial: the search starts one character late.            *)
NextSpecialLate(v, t, i) ==
  Min({j \in (i + 1)..(Len(t) + 1) : j = Len(t) + 1 \/ (j > i + 1 /\ SpecialLen(v, t, j) > 0)})

NextSpecial(v, t, i) ==
  Min({j \in (i + 1)..(Len(t) + 1) : j = Len(t) + 1 \/ SpecialLen(v, t, j) > 0})

(* Text without a special token in it.                                     *)
EncodeChunk(v, chunk) ==
  LET parts == Parts(chunk, v.mode)
  IN Concat([k \in DOMAIN parts |-> EncodePart(v, parts[k])])

EncodeBpe(v, t) ==
  Walk([i \in DOMAIN t |->
          LET n == SpecialLen(v, t, i)
          IN IF n > 0 THEN <<Id(v, TextBytes(SubSeq(t, i, i + n - 1)))>>
             ELSE EncodeChunk(v, SubSeq(t, i, NextSpecial(v, t, i) - 1))],
       [i \in DOMAIN t |->
          IF SpecialLen(v, t, i) > 0 THEN i + SpecialLen(v, t, i) ELSE NextSpecial(v, t, i)])

EncodeGreedy(v, s) ==
  LET Covered(i) == Longest(Entries(v), s, i)
      Sym(i) == SubSeq(s, i, i + SymbolLen(s, i) - 1)
  IN Walk([i \in DOMAIN s |->
             IF Covered(i) > 0 THEN <<Id(v, SubSeq(s, i, i + Covered(i) - 1))>>
             ELSE <<ByteNewlineOrUnknown(v, IF Sym(i) \in DOMAIN SymbolByte
                                            THEN SymbolByte[Sym(i)] ELSE s[i])>>],
          [i \in DOMAIN s |-> i + IF Covered(i) > 0 THEN Covered(i) ELSE SymbolLen(s, i)])

Encoded(v, text) ==
  LET t == Normalise(text)
  IN IF UsesBpe(v) THEN EncodeBpe(v, t) ELSE EncodeGreedy(v, ByteLevelEncode(TextBytes(t)))

-----------------------------------------------------------------------------
(* Mutant of RawPiece: a byte token is decoded like any other piece.       *)
RawPieceSpelled(tok) == tok

(* The piece of an id, byte tokens as their byte.                          *)
RawPiece(tok) == IF IsByteToken(tok) THEN <<tok[1] - 1000>> ELSE tok

(* tokenizer_decode: the pieces joined, then decoded as one string.        *)
Joined(v, seq) == Concat([i \in DOMAIN seq |-> RawPiece(Token(v, seq[i]))])
Decoded(v, seq) == ByteLevelDecode(Joined(v, seq))

(* tokenizer_render_piece: word and newline marks first, the doubly        *)
(* encoded ones too, then byte-level decoding.                             *)
WordMark == <<226, 150, 129>>
Blank == {WordMark, <<196, 160>>, <<195, 132, 194, 160>>}
LineBreak == {<<196, 138>>, <<195, 132, 194, 138>>}
ReplaceMarks(s) ==
  LET Mark(i) == Longest(Blank \cup LineBreak, s, i)
  IN Walk([i \in DOMAIN s |->
             CASE Mark(i) = 0 -> <<s[i]>>
               [] SubSeq(s, i, i + Mark(i) - 1) \in Blank -> <<32>>
               [] SubSeq(s, i, i + Mark(i) - 1) \in LineBreak -> <<10>>],
          [i \in DOMAIN s |-> i + IF Mark(i) = 0 THEN 1 ELSE Mark(i)])

(* Mutant of RenderPiece: only the marks are replaced.                     *)
RenderPieceMarksOnly(tok) == ReplaceMarks(tok)

RenderPiece(tok) == ByteLevelDecode(ReplaceMarks(tok))

(* The text streamed for ids: bytes of byte tokens as they are, a piece    *)
(* that renders to nothing as a space.                                     *)
StreamedPiece(tok) ==
  IF IsByteToken(tok) THEN RawPiece(tok)
  ELSE IF RenderPiece(tok) = << >> THEN <<32>> ELSE RenderPiece(tok)
Streamed(v, seq) == Concat([i \in DOMAIN seq |-> StreamedPiece(Token(v, seq[i]))])

-----------------------------------------------------------------------------
NoVocabulary == [tokens |-> << >>, merges |-> << >>, bpe |-> FALSE, mode |-> "Generic"]

TextInit ==
  /\ vocab = NoVocabulary
  /\ prompt = << >> /\ ids = << >> /\ source = "none"

(* Whoever still uses ids of the vocabulary before reads them wrongly, or  *)
(* as <unk>; they are given up here.                                       *)
Replace(v) ==
  /\ vocab' = v
  /\ prompt' = << >> /\ ids' = << >> /\ source' = "none"

(* A model is opened, tokenizer_load_from_gguf: everything is replaced.    *)
LoadFromGguf(v) == v.tokens # << >> /\ Replace(v)

(* tokenizer_load_from_list: no merges, no BPE.                            *)
LoadFromList(v) == Replace([v EXCEPT !.merges = << >>, !.bpe = FALSE, !.mode = "Generic"])

(* tokenizer_add_special_tokens: appended, unless they are there, and      *)
(* special only if they look like it.  The command line adds them between  *)
(* opening a model and its first prompt.                                   *)
AddSpecialTokens ==
  LET IsNew(i) == Id(vocab, Added[i]) < 0 /\ ~\E j \in 1..(i - 1) : Added[j] = Added[i]
      new == Concat([i \in DOMAIN Added |-> IF IsNew(i) THEN <<Added[i]>> ELSE << >>])
  IN /\ source = "none"
     /\ vocab' = [vocab EXCEPT !.tokens = @ \o new]
     /\ UNCHANGED <<prompt, ids, source>>

Encode(text) ==
  /\ source = "none"
  /\ prompt' = text /\ ids' = Encoded(vocab, text) /\ source' = "encoded"
  /\ UNCHANGED vocab

(* The model generates ids of its own; any of the vocabulary's.            *)
Generate ==
  /\ source = "none"
  /\ \E n \in 1..GenMax : \E seq \in [1..n -> 0..(Len(vocab.tokens) - 1)] : ids' = seq
  /\ source' = "generated"
  /\ UNCHANGED <<vocab, prompt>>

(* The ids are done with.                                                  *)
Finish ==
  /\ source # "none"
  /\ prompt' = << >> /\ ids' = << >> /\ source' = "none"
  /\ UNCHANGED vocab

TextNext ==
  \/ \E v \in Vocabularies : LoadFromGguf(v) \/ LoadFromList(v)
  \/ AddSpecialTokens
  \/ \E text \in Texts : Encode(text)
  \/ Generate
  \/ Finish

TextSpec == TextInit /\ [][TextNext]_textVars

-----------------------------------------------------------------------------
(* Properties.                                                             *)

(* Where one piece ends and the next begins, a byte-level symbol seems to  *)
(* stand: decoding takes it for the byte it stands for.                    *)
Confused(v, seq) ==
  \E i \in 1..(Len(seq) - 1) :
    LET before == Joined(v, SubSeq(seq, 1, i))
        after == RawPiece(Token(v, seq[i + 1]))
    IN /\ before # << >> /\ after # << >>
       /\ <<before[Len(before)], after[1]>> \in DOMAIN SymbolByte

(* Text, tokens, text: whatever the merges, the splits into parts and the  *)
(* special tokens, the ids of a prompt decode to the prompt, normalised.   *)
(* Except where a token is unknown, a newline is spelled with its escape,  *)
(* the text of a special token reads as byte-level symbols, or two pieces  *)
(* are taken for a symbol where they meet: the bytes C3 A9 of an accented  *)
(* letter, two byte tokens or a token each, come back as E9                *)
(* (tokenizer_encode, tokenizer_decode).                                   *)
Faithful(v, seq) ==
  /\ ~Confused(v, seq)
  /\ \A i \in DOMAIN seq :
       LET tok == Token(v, seq[i])
       IN /\ seq[i] # UnknownId(v) /\ tok # EscapedNewline
          /\ tok \in Special(v) => ByteLevelDecode(tok) = tok
RoundTrip ==
  (source = "encoded" /\ Faithful(vocab, ids)) => Decoded(vocab, ids) = TextBytes(Normalise(prompt))

(* The text streamed for generated ids is the text they decode to, except  *)
(* where two pieces are taken for a symbol, where a piece has a word mark, *)
(* which only streaming turns into a space, or a doubly encoded mark, and  *)
(* where it is empty (minxfmr.cpp emits pieces and reports                 *)
(* tokenizer_decode of the ids).                                           *)
OneMarkOnly(tok) ==
  \A m \in (Blank \cup LineBreak) \ {Symbol[32], Symbol[10]} :
    ~\E j \in DOMAIN tok : Longest({m}, tok, j) > 0
StreamedAsDecoded ==
  (source = "generated" /\ ~Confused(vocab, ids)
     /\ \A i \in DOMAIN ids : LET tok == Token(vocab, ids[i]) IN tok # << >> /\ OneMarkOnly(tok))
    => Streamed(vocab, ids) = Decoded(vocab, ids)

(* A special token in a prompt is one id, the longest there is, and the    *)
(* text around it is encoded as if it stood alone (the BPE path scans for  *)
(* special tokens before it splits and merges).                            *)
SpecialsWhole ==
  (source = "encoded" /\ UsesBpe(vocab)) =>
    LET t == Normalise(prompt)
        first == Min({i \in 1..(Len(t) + 1) : i = Len(t) + 1 \/ SpecialLen(vocab, t, i) > 0})
        n == SpecialLen(vocab, t, first)
    IN first <= Len(t) =>
         ids = EncodeBpe(vocab, SubSeq(t, 1, first - 1))
                 \o <<Id(vocab, TextBytes(SubSeq(t, first, first + n - 1)))>>
                 \o EncodeBpe(vocab, SubSeq(t, first + n, Len(t)))

(* The reference for merging: one pair at a time, the leftmost of the best *)
(* rank.  Merges are learnt in an order, so a pair never has a better rank *)
(* than the merges that made its two halves; then merging a whole round    *)
(* at once gives the same symbols (apply_bpe_merges).                      *)
LearntInOrder(v) ==
  \A r \in DOMAIN v.merges : \A half \in {v.merges[r][1], v.merges[r][2]} :
    \A q \in DOMAIN v.merges : v.merges[q][1] \o v.merges[q][2] = half => q < r
MergedLeftmost(v, syms) ==
  IF Mergeable(v, syms) = {} THEN syms
  ELSE LET i == Min({j \in 1..(Len(syms) - 1) :
                       Rank(v, syms[j], syms[j + 1]) = Min(Mergeable(v, syms))})
       IN SubSeq(syms, 1, i - 1) \o <<syms[i] \o syms[i + 1]>> \o SubSeq(syms, i + 2, Len(syms))
Turns(v, syms) ==
  LET after[k \in 0..Len(syms)] == IF k = 0 THEN syms ELSE MergedLeftmost(v, after[k - 1])
  IN after
MergeOneByOne(v, syms) == Turns(v, syms)[Len(syms)]
MergedInRankOrder ==
  (source = "encoded" /\ UsesBpe(vocab) /\ LearntInOrder(vocab)) =>
    LET syms == SplitSymbols(ByteLevelEncode(TextBytes(Normalise(prompt))))
    IN ApplyMerges(vocab, syms) = MergeOneByOne(vocab, syms)
=============================================================================
