----------------------------- MODULE MCDatabase -----------------------------
(* Instances of Database for TLC.                                           *)
EXTENDS Database, TLC

CONSTANTS uf, f, g, h

(* Tables as egglog-bridge makes them: a union-find, and functions whose    *)
(* merges unite ids and look others up, in two strata.                      *)
Reads3 == uf :> {} @@ f :> {} @@ g :> {f}
Writes3 == uf :> {} @@ f :> {uf} @@ g :> {uf, f}

(* f and h are merged in one stratum, and h's merge writes to f.            *)
Reads4 == uf :> {} @@ f :> {} @@ h :> {} @@ g :> {f}
Writes4 == uf :> {} @@ f :> {uf} @@ h :> {f} @@ g :> {uf, h}

Symmetry == Permutations(Row) \cup Permutations(Worker)
=============================================================================
