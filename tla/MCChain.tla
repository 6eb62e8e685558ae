------------------------------ MODULE MCChain ------------------------------
(* Instances of Chain for TLC: the constants are model values. *)
EXTENDS Chain, TLC

\* Keys and readers are interchangeable; only runs without liveness use it.
Symmetry == Permutations(Writers) \cup Permutations(Keys)
=============================================================================
