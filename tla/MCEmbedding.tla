---------------------------- MODULE MCEmbedding -----------------------------
(* Small instances of Embedding: one version of three passages, one of     *)
(* which the second chunker edition cuts differently.                      *)
EXTENDS Embedding, TLC

CONSTANTS w1, e1, e2, digital, p, q, r, s

OneVersion == {1}
OneRun == {w1}
TwoEmbedders == {e1, e2}
Daily == {"pending", "rechunk"}
Cuts == digital :> << {p, q, r}, {p, q, s} >>
ReadAll == [v \in Versions |-> {digital}]

EmbedderSymmetry == Permutations(TwoEmbedders)
=============================================================================
