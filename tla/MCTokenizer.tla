---------------------------- MODULE MCTokenizer ----------------------------
(* Tokenizer with three vocabularies: a byte-pair one, a greedy one with   *)
(* byte tokens, and one with word marks and neither <unk> nor all bytes;   *)
(* texts of up to three characters, and longer ones around special tokens  *)
(* and repeated pairs.  "<a" and "<ab" stand for control tokens, one of    *)
(* which begins the other; "b<" is added like one and looks like none.     *)
EXTENDS Tokenizer, TLC

Ch(class, bytes) == [class |-> class, bytes |-> bytes]
A == Ch("letter", <<97>>)
B == Ch("letter", <<98>>)
S == Ch("letter", <<115>>)
Acute == Ch("letter", <<195, 169>>)
Nl == Ch("newline", <<10>>)
Ap == Ch("apostrophe", <<39>>)
Lt == Ch("other", <<60>>)
Mk == Ch("mark", <<204, 129>>)
Nbsp == Ch("nbsp", <<194, 160>>)
Cr == Ch("return", <<13>>)

Alphabet == {A, B, Space, Nl, Acute, Lt, Mk}
MCTexts ==
  UNION {[1..n -> Alphabet] : n \in 0..3} \cup [1..5 -> {A, B}]
    \cup {<<A, Ap, S, Space, Lt>>, <<Ap, S, A, Nbsp, B>>, <<Cr, Nl, Space, Space, Nl, Nl, A>>,
          <<A, Space, Lt, Nl, Nl, A>>, <<A, Lt, A, B, Lt, A, A, B>>, <<B, Mk, Mk, Nl, Lt, Mk, A>>}

Bpe ==
  [tokens |-> <<Unknown, <<97>>, <<98>>, Symbol[32], Symbol[10], Symbol[195], Symbol[169],
                <<60>>, <<97, 98>>, <<97, 97>>, Symbol[32] \o <<97, 98>>, <<97, 97, 98>>,
                Symbol[195] \o Symbol[169], <<60, 97>>, <<60, 97, 98>>, ByteToken(204), ByteToken(129),
                ByteToken(115), <<39>>>>,
   bpe |-> TRUE, mode |-> "Qwen35",
   merges |-> <<<<<<97>>, <<97>>>>, <<<<97>>, <<98>>>>, <<Symbol[195], Symbol[169]>>,
                <<Symbol[32], <<97, 98>>>>, <<<<97, 97>>, <<98>>>>, <<Symbol[204], Symbol[129]>>>>]
Greedy ==
  [tokens |-> <<Unknown, <<97>>, <<97, 98>>, <<98, 97>>, <<60, 97>>, LineFeed, ByteToken(32),
                ByteToken(195), ByteToken(169), ByteToken(60), ByteToken(98), Symbol[195]>>,
   bpe |-> FALSE, mode |-> "Generic", merges |-> << >>]
Marked ==
  [tokens |-> <<WordMark \o <<97>>, <<97>>, <<98>>, EscapedNewline, <<97>>, WordMark, << >>,
                <<195, 132, 194, 160>>, ByteToken(196), ByteToken(160)>>,
   bpe |-> TRUE, mode |-> "Generic", merges |-> << >>]

MCVocabularies == {Bpe, Greedy, Marked}
MCSpecialLike == {Unknown, <<60, 97>>, <<60, 97, 98>>}
MCAdded == <<<<60, 97>>, <<98, 60>>, <<60, 97, 98>>>>
=============================================================================
