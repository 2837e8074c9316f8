-------------------------- MODULE MCConcurrentVec --------------------------
(* Instances of ConcurrentVec for TLC.                                      *)
EXTENDS ConcurrentVec, TLC

Symmetry == Permutations(Thread)
=============================================================================
