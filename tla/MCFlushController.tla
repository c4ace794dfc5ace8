-------------------------- MODULE MCFlushController --------------------------
(* Model checking of FlushController: callers and workers are model values. *)
EXTENDS FlushController, TLC

Symmetry == Permutations(Callers) \cup Permutations(Workers)
=============================================================================
