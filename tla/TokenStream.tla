---------------------------- MODULE TokenStream ----------------------------
(***************************************************************************)
(* What minxfmr_generate (src/src/api/minxfmr.cpp) does with each token    *)
(* it has chosen: the first-token rule, the repetition stop, end-of-       *)
(* sequence, role markers, and the two buffers that hold text back from    *)
(* the callback -- raw bytes until the next piece of text, text pieces     *)
(* while they could still grow into a template marker.                     *)
(*                                                                         *)
(* The logits are not modelled: any token can be the best, any token among *)
(* the TopK best can be picked.  A token is held by the number of the step *)
(* that chose it, so that two steps with the same token stay apart.        *)
(***************************************************************************)
EXTENDS Integers, SequencesExt

CONSTANTS
  Tok,          (* the vocabulary, without the special tokens whose logits *)
                (* are set to minus infinity                               *)
  Eos,          (* is_eos_token                                            *)
  Role,         (* is_role_token                                           *)
  Byte,         (* is_byte_fallback, with two hex digits: "<0xHH>"         *)
  Nul,          (* the byte token "<0x00>"                                 *)
  Visible,      (* is_visible_piece of the rendered token                  *)
  Text,         (* the raw text of a token, as a sequence of symbols       *)
  Markers,      (* role_markers, the texts suppressed across tokens        *)
  TopK,         (* k_use                                                   *)
  RepeatLimit,  (* 16 in the code                                          *)
  MaxSteps      (* max_steps                                               *)

(* The predicates are functions of a token's text, and every text in       *)
(* role_markers is also a text is_role_token or is_eos_token accepts.      *)
ASSUME TokenAssumption ==
  /\ Eos \cup Role \cup Byte \cup Visible \subseteq Tok
  /\ Nul \subseteq Byte
  /\ Byte \cap (Eos \cup Role \cup Visible) = {}
  /\ \A tok \in Tok : Text[tok] \in Markers => tok \in Eos \cup Role
ASSUME LimitAssumption ==
  TopK \in Nat \ {0} /\ RepeatLimit \in Nat \ {0} /\ MaxSteps \in Nat \ {0}

VARIABLES
  phase,     (* "loop", "flush", "done"                                    *)
  reason,    (* gen_break_reason, or "error" for a return of -3            *)
  history,   (* token_history past the prompt: what the loop accepted      *)
  pendB,     (* pending_bytes: the steps whose byte is held back           *)
  pendF,     (* pending_token_buf: the steps whose text is held back       *)
  gen_ids,   (* gen_ids: the steps in the code's own record of the output  *)
  out,       (* what the callback received, one sequence of steps per call *)
  shown,     (* gen_tokens_emitted                                         *)
  lastRaw,   (* last_emitted_raw_tok                                       *)
  run,       (* repeat_run                                                 *)
  dropped    (* history: the steps suppressed as part of a marker          *)

vars == <<phase, reason, history, pendB, pendF, gen_ids, out, shown, lastRaw,
          run, dropped>>

Step == 1 .. MaxSteps

Init ==
  /\ phase = "loop" /\ reason = "none"
  /\ history = <<>> /\ pendB = <<>> /\ pendF = <<>> /\ gen_ids = <<>>
  /\ out = <<>> /\ shown = 0
  /\ lastRaw = <<>> /\ run = 0
  /\ dropped = {}

-----------------------------------------------------------------------------
(* Choosing the token.                                                     *)

Acceptable(tok) == tok \in Visible \ (Eos \cup Role)

(* K is the set of the k_use best tokens, top the best of them and pick    *)
(* the sampled one.  Nothing shown yet and pick not acceptable: another    *)
(* acceptable candidate is taken, `top' being skipped (the loop starts at  *)
(* order[1]).                                                              *)
Selected(K, top, pick) ==
  LET alts == {alt \in K \ {top} : Acceptable(alt)} IN
  IF shown = 0 /\ ~Acceptable(pick) /\ alts # {} THEN alts ELSE {pick}

(* Mutant of Chosen: the loop runs once too often.                         *)
ChosenOnceMore(next) ==
  /\ phase = "loop" /\ Len(history) <= MaxSteps
  /\ \E K \in kSubset(TopK, Tok) : \E top \in K, pick \in K :
       next \in Selected(K, top, pick)

Chosen(next) ==
  /\ phase = "loop" /\ Len(history) < MaxSteps
  /\ \E K \in kSubset(TopK, Tok) : \E top \in K, pick \in K :
       next \in Selected(K, top, pick)

RunAfter(next) ==
  IF Text[next] # <<>> /\ Text[next] = lastRaw THEN run + 1 ELSE 1

CountRepeat(next) == run' = RunAfter(next) /\ lastRaw' = Text[next]

(* Mutant of Repeats: one repetition late.                                 *)
RepeatsLate(next) == RunAfter(next) > RepeatLimit

(* The repetition stop comes first, then end-of-sequence.                  *)
Repeats(next) == RunAfter(next) >= RepeatLimit

Break(why) ==
  /\ phase' = "flush" /\ reason' = why
  /\ UNCHANGED <<history, pendB, pendF, gen_ids, out, shown, dropped>>

StopOnRepetition(next) ==
  Chosen(next) /\ CountRepeat(next) /\ Repeats(next) /\ Break("repeat")

StopOnEos(next) ==
  /\ Chosen(next) /\ CountRepeat(next) /\ ~Repeats(next) /\ next \in Eos
  /\ Break("eos")

-----------------------------------------------------------------------------
(* The buffers.                                                            *)

(* A callback argument is a C string: a batch of bytes ends at its first   *)
(* zero byte.                                                              *)
UpToNul(batch, hist) ==
  LET zeros == {i \in DOMAIN batch : hist[batch[i]] \in Nul}
  IN  IF zeros = {} THEN batch
      ELSE SubSeq(batch, 1, (CHOOSE i \in zeros : \A j \in zeros : i <= j) - 1)

ByteCall(bytes, hist) ==
  IF bytes = <<>> THEN <<>> ELSE << UpToNul(bytes, hist) >>

FragmentCalls(frags) == [i \in DOMAIN frags |-> << frags[i] >>]

TextOf(frags, hist) ==
  FlattenSeq([i \in DOMAIN frags |-> Text[hist[frags[i]]]])

IsMarker(text) == text \in Markers
CouldBeMarker(text) == \E m \in Markers : IsPrefix(text, m)

(* Mutant of Flush: the byte buffer is not cleared.                        *)
FlushKeepsBytes(frags, hist) ==
  /\ gen_ids' = gen_ids \o pendB \o frags
  /\ out' = out \o ByteCall(pendB, hist) \o FragmentCalls(frags)
  /\ shown' = shown + Len(frags)
  /\ UNCHANGED pendB /\ pendF' = <<>>

(* Held-back bytes go out first, in one call; then the held-back pieces,   *)
(* one call each, the new piece last.                                      *)
Flush(frags, hist) ==
  /\ gen_ids' = gen_ids \o pendB \o frags
  /\ out' = out \o ByteCall(pendB, hist) \o FragmentCalls(frags)
  /\ shown' = shown + Len(frags)
  /\ pendB' = <<>> /\ pendF' = <<>>

SkipRole(next) ==
  /\ next \in Role
  /\ UNCHANGED <<pendB, pendF, gen_ids, out, shown, dropped>>

(* Mutant of HoldByte: a byte does not wait while text is held back.       *)
HoldByteUnlessTextHeld(next, step) ==
  /\ next \in Byte
  /\ IF pendF = <<>>
     THEN pendB' = Append(pendB, step) /\ UNCHANGED gen_ids
     ELSE gen_ids' = Append(gen_ids, step) /\ UNCHANGED pendB
  /\ shown' = shown + 1
  /\ UNCHANGED <<pendF, out, dropped>>

HoldByte(next, step) ==
  /\ next \in Byte
  /\ pendB' = Append(pendB, step)
  /\ shown' = shown + 1
  /\ UNCHANGED <<pendF, gen_ids, out, dropped>>

(* Mutant of AddFragment: only the new piece is compared with the markers. *)
AddFragmentAlone(next, step) ==
  /\ next \notin Role \cup Byte
  /\ LET hist  == Append(history, next)
         frags == Append(pendF, step)
     IN \/ /\ CouldBeMarker(Text[next])
           /\ pendF' = frags
           /\ UNCHANGED <<pendB, gen_ids, out, shown, dropped>>
        \/ /\ ~CouldBeMarker(Text[next])
           /\ Flush(frags, hist)
           /\ UNCHANGED dropped

AddFragment(next, step) ==
  /\ next \notin Role \cup Byte
  /\ LET hist  == Append(history, next)
         frags == Append(pendF, step)
         text  == TextOf(frags, hist)
     IN \/ /\ IsMarker(text)
           /\ dropped' = dropped \cup ToSet(frags)
           /\ pendF' = <<>>
           /\ UNCHANGED <<pendB, gen_ids, out, shown>>
        \/ /\ ~IsMarker(text) /\ CouldBeMarker(text)
           /\ pendF' = frags
           /\ UNCHANGED <<pendB, gen_ids, out, shown, dropped>>
        \/ /\ ~CouldBeMarker(text)
           /\ Flush(frags, hist)
           /\ UNCHANGED dropped

(* One iteration of the loop that does not break.                          *)
Accept(next) ==
  /\ Chosen(next) /\ CountRepeat(next) /\ ~Repeats(next) /\ next \notin Eos
  /\ LET step == Len(history) + 1 IN
     SkipRole(next) \/ HoldByte(next, step) \/ AddFragment(next, step)
  /\ history' = Append(history, next)
  /\ UNCHANGED <<phase, reason>>

-----------------------------------------------------------------------------
(* Leaving the loop.                                                       *)

(* Mutant of StepsUsedUp: the loop has no bound.                           *)
StepsNeverUsedUp == FALSE

StepsUsedUp ==
  /\ phase = "loop" /\ Len(history) = MaxSteps
  /\ UNCHANGED <<lastRaw, run>>
  /\ Break("max_steps")

(* No embedding for the last token: a break like the others.               *)
NoEmbedding ==
  /\ phase = "loop" /\ Len(history) < MaxSteps
  /\ UNCHANGED <<lastRaw, run>>
  /\ Break("no_in")

(* A failed forward pass or output projection returns -3 on the spot.      *)
Fail ==
  /\ phase = "loop" /\ Len(history) < MaxSteps
  /\ phase' = "done" /\ reason' = "error"
  /\ UNCHANGED <<history, pendB, pendF, gen_ids, out, shown, lastRaw, run, dropped>>

FinalFlush ==
  /\ phase = "flush"
  /\ Flush(pendF, history)
  /\ phase' = "done"
  /\ UNCHANGED <<reason, history, lastRaw, run, dropped>>

Next ==
  \/ \E next \in Tok : StopOnRepetition(next) \/ StopOnEos(next) \/ Accept(next)
  \/ StepsUsedUp \/ NoEmbedding \/ Fail \/ FinalFlush

Spec == Init /\ [][Next]_vars

(* The loop runs on the calling thread and waits for nothing.              *)
FairSpec == Spec /\ WF_vars(Next)

-----------------------------------------------------------------------------
(* Properties.                                                             *)

(* The steps of a class keep their order in s.                             *)
InOrder(s, class) ==
  \A i, j \in DOMAIN s : i < j /\ s[i] \in class /\ s[j] \in class => s[i] < s[j]

Steps == 1 .. Len(history)
Bytes == {s \in Steps : history[s] \in Byte}
Pieces == {s \in Steps : history[s] \notin Byte \cup Role}

(* Every variable has its type; the held-back buffers hold what they are   *)
(* declared for.                                                           *)
TypeOK ==
  /\ phase \in {"loop", "flush", "done"}
  /\ reason \in {"none", "eos", "repeat", "max_steps", "no_in", "error"}
  /\ history \in Seq(Tok) /\ Len(history) <= MaxSteps
  /\ pendB \in Seq(Bytes) /\ pendF \in Seq(Pieces) /\ gen_ids \in Seq(Bytes \cup Pieces)
  /\ out \in Seq(Seq(Steps))
  /\ shown \in Nat /\ run \in 0 .. RepeatLimit
  /\ dropped \subseteq Steps

(* No accepted token is lost and none is delivered twice: each one that is *)
(* not a role marker is in exactly one of the record, the held-back bytes, *)
(* the held-back pieces and the suppressed markers, and there only once,   *)
(* through every interleaving of byte tokens with half-seen markers; and   *)
(* gen_tokens_emitted, which turns the first-token rule off, counts the    *)
(* recorded tokens and the held-back bytes, not the held-back pieces.      *)
EachTokenInOnePlace ==
  LET places == gen_ids \o pendB \o pendF IN
  /\ Len(places) = Cardinality(ToSet(places))
  /\ ToSet(places) \cap dropped = {}
  /\ ToSet(places) \cup dropped = {s \in Steps : history[s] \notin Role}
  /\ shown = Len(gen_ids) + Len(pendB)

(* Bytes leave in the order they were generated, and so do text pieces:    *)
(* what is held back is always younger than what was recorded.  Between    *)
(* the two classes the order is not kept: a byte overtakes text held back. *)
EachClassInOrder ==
  /\ InOrder(gen_ids \o pendB, Bytes)
  /\ InOrder(gen_ids \o pendF, Pieces)

(* Text is held back only while it can still become a marker: the pieces   *)
(* held back spell a beginning of a marker, never a whole one, and when a  *)
(* call returns 0 nothing, no byte either, is left behind in a buffer.     *)
HeldBackWhileUndecided ==
  /\ pendF # <<>> => /\ CouldBeMarker(TextOf(pendF, history))
                     /\ ~IsMarker(TextOf(pendF, history))
  /\ phase = "done" /\ reason # "error" => pendB = <<>> /\ pendF = <<>>

(* The accepted tokens never hold RepeatLimit times the same text in a     *)
(* row, empty text apart, whether or not the text was shown.               *)
NoLongRepetition ==
  \A i \in 1 .. Len(history) - RepeatLimit + 1 :
    Text[history[i]] # <<>> =>
      \E j \in i .. i + RepeatLimit - 1 : Text[history[j]] # Text[history[i]]

(* Every call ends.                                                        *)
Terminates == <>(phase = "done")

=============================================================================
