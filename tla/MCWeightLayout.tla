--------------------------- MODULE MCWeightLayout ---------------------------
(* WeightLayout with two contexts and five models of one or two layers:    *)
(* squares quantized, F32 and mixed, a wide and a tall wk, F32 and         *)
(* quantized ffn weights both ways round, half a triple, no ffn weight.    *)
EXTENDS WeightLayout, TLC

CONSTANTS c1, c2

T(type, rows, cols) == [type |-> type, rows |-> rows, cols |-> cols]
Layer(q, k, v, o, ffn) ==
  [r \in Role |-> CASE r = "q" -> q [] r = "k" -> k [] r = "v" -> v [] r = "o" -> o [] OTHER -> ffn]
F == T("F32", 2, 2)
Q == T("Quant", 2, 2)
QWide == T("Quant", 1, 2)
FWide == T("F32", 1, 2)
FTall == T("F32", 3, 2)

MCContext == {c1, c2}
MCFiles ==
  {[arch |-> "llama", layers |-> <<Layer(F, QWide, FWide, Q, T("Quant", 3, 2)), Layer(Q, QWide, QWide, F, Q)>>],
   [arch |-> "llama", layers |-> <<Layer(Absent, QWide, QWide, Q, F), Layer(Q, QWide, FWide, Q, Q)>>],
   [arch |-> "qwen", layers |-> <<Layer(Q, FTall, QWide, F, T("Quant", 2, 3))>>],
   [arch |-> "phi", layers |-> <<Layer(F, FWide, QWide, Q, T("F32", 3, 2))>>],
   [arch |-> "phi", layers |-> <<Layer(Q, QWide, QWide, F, Absent)>>]}
MCOrders == {[a \in Attention |-> a \in {"q", "k"}], [a \in Attention |-> FALSE]}
Symmetry == Permutations(MCContext)
=============================================================================
