--------------------------- MODULE SlidingWindow ---------------------------
(***************************************************************************)
(* What the KV cache promises the attention code, with no ring in sight:   *)
(* per layer, the most recent Capacity rows appended since the last        *)
(* reset, oldest first, each row a (key, value) pair.                      *)
(*                                                                         *)
(* KVCache implements this specification; see KVCache!Implements.          *)
(***************************************************************************)
EXTENDS Integers, Sequences

CONSTANTS
  Layer,     (* the set of decoder layers                                  *)
  Capacity,  (* the number of rows a layer remembers                       *)
  Key,       (* the key rows                                               *)
  Value      (* the value rows                                             *)

VARIABLES
  open,      (* whether the cache exists                                   *)
  window     (* window[l]: the remembered rows of layer l, oldest first    *)

swVars == <<open, window>>

Empty == [l \in Layer |-> <<>>]

(* Slide(w, row): w with row at its end, at most Capacity rows long.       *)
Slide(w, row) ==
  IF Len(w) < Capacity THEN Append(w, row) ELSE Append(Tail(w), row)

Init == open = FALSE /\ window = Empty

Open == ~open /\ open' = TRUE /\ window' = Empty

Close == open /\ open' = FALSE /\ window' = Empty

Remember(l, k, v) ==
  /\ open
  /\ window' = [window EXCEPT ![l] = Slide(@, <<k, v>>)]
  /\ UNCHANGED open

Forget == open /\ window' = Empty /\ UNCHANGED open

Next ==
  \/ Open
  \/ Close
  \/ Forget
  \/ \E l \in Layer, k \in Key, v \in Value : Remember(l, k, v)

Spec == Init /\ [][Next]_swVars
=============================================================================
