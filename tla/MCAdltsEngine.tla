--------------------------- MODULE MCAdltsEngine ---------------------------
(* Instances of AdltsEngine for TLC: few tests, loops, threads.            *)
EXTENDS AdltsEngine, TLC

Symmetry == Permutations(Tests) \cup Permutations(Runs) \cup Permutations(Threads)
=============================================================================
