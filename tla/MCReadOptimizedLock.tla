------------------------ MODULE MCReadOptimizedLock ------------------------
(* Instances of ReadOptimizedLock for TLC.                                  *)
EXTENDS ReadOptimizedLock, TLC

Symmetry == Permutations(Thread) \cup Permutations(Tok)
=============================================================================
