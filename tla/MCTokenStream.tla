--------------------------- MODULE MCTokenStream ---------------------------
(* TokenStream with one marker of three symbols that two tokens spell      *)
(* ("[" and "I]"), an ordinary word, a token of empty text, a byte, the    *)
(* zero byte, a role marker and an end-of-sequence token.                  *)
EXTENDS TokenStream

MCTok == {"open", "close", "word", "empty", "byte", "zero", "role", "eos"}
MCText == [tok \in MCTok |->
  CASE tok = "open"  -> <<"[">>
    [] tok = "close" -> <<"I", "]">>
    [] tok = "empty" -> <<>>
    [] OTHER -> << tok >>]
MCMarkers == { <<"[", "I", "]">>, <<"role">> }
MCEos == {"eos"}
MCRole == {"role"}
MCByte == {"byte", "zero"}
MCNul == {"zero"}
MCVisible == {"open", "close", "word", "eos", "role"}
=============================================================================
