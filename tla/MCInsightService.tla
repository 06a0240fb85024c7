-------------------------- MODULE MCInsightService --------------------------
(***************************************************************************)
(* Two requests over two inputs: hits on a copy the other request stored,  *)
(* misses, corrupt copies and every kind of model response.                *)
(***************************************************************************)
EXTENDS InsightService, TLC

CONSTANTS w1, w2, i1, i2

MCWorkers == {w1, w2}
MCInputs == {i1, i2}

(* Requests differ only in their progress, inputs not at all.              *)
Symmetry == Permutations(MCWorkers) \cup Permutations(MCInputs)
=============================================================================
