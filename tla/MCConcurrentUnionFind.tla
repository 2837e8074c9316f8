----------------------- MODULE MCConcurrentUnionFind -----------------------
(* Instances of ConcurrentUnionFind for TLC.                                *)
EXTENDS ConcurrentUnionFind, TLC

Symmetry == Permutations(Thread)
=============================================================================
