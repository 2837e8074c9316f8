----------------------------- MODULE MCSynthesis -----------------------------
(***************************************************************************)
(* The calls of the runs, on three wires unless said otherwise.  The path  *)
(* sums are those of CX, X and RZ circuits: an invertible map, an X layer  *)
(* and angles on parities.                                                 *)
(***************************************************************************)
EXTENDS Synthesis

Three == Wires(3)
Parities(n_) == (SUBSET Wires(n_)) \ {{}}
Maps(n_) == {m \in [Wires(n_) -> Parities(n_)] : Invertible(m)}

\* An odd number of ticks stays a continuous phase, a quarter turn goes to the
\* discrete one.
Phases(n_, rows, xs, cont) ==
  Promote([n |-> n_, m |-> 0, over |-> FALSE, disc |-> Empty, cont |-> cont,
           rows |-> [q \in Wires(n_) |-> Linear(rows[q]) \cup (IF q \in xs THEN {One} ELSE {})]])
All(P, ticks) == [p \in P |-> ticks]

Call(kind, ps) ==
  [kind |-> kind, ps |-> ps, adj |-> kSubset(2, Wires(ps.n)), gates |-> 1000, hw |-> 1000,
   size |-> None, matrix |-> None]

Swapped == (0 :> {1} @@ 1 :> {0, 2} @@ 2 :> {2})
Cycle4 == (0 :> {1} @@ 1 :> {2} @@ 2 :> {0, 3} @@ 3 :> {0})

Wide4 == {p \in Parities(4) : Cardinality(p) > 1}
GrayJobs ==
  {Call("gray", Phases(3, m, {}, All(P, 1))) : m \in {IdentityMap(3), Swapped}, P \in SUBSET Parities(3)}
  \cup {Call("gray", Phases(3, IdentityMap(3), {1}, All(P, 5))) : P \in SUBSET Parities(3)}
  \cup {Call("gray", Phases(3, m, {0}, All({{0, 1}, {0, 1, 2}}, 13))) : m \in Maps(3)}
  \cup {Call("gray", Phases(4, Cycle4, {}, [p \in P |-> 1 + 2 * (Cardinality(p) % 2)])) :
          P \in {Parities(4), kSubset(2, Wires(4))} \cup UNION {kSubset(k, Wide4) : k \in 2..4}}

PmhJobs ==
  {[Call("pmh", Phases(3, m, xs, Empty)) EXCEPT !.gates = g] :
     m \in Maps(3), xs \in {{}, {0, 2}}, g \in {3, 20}}

\* Every matrix of three wires, the singular ones too; on four wires a unit
\* triangular matrix with its rows permuted.
Upper4 == {m \in [Wires(4) -> Parities(4)] : \A q \in Wires(4) : q \in m[q] /\ \A v \in m[q] : v >= q}
Permutations4 == {p \in [Wires(4) -> Wires(4)] : \A i, j \in Wires(4) : p[i] = p[j] => i = j}
MatrixJobs ==
  {[Call("matrix", Identity(3)) EXCEPT !.matrix = m, !.size = k] :
     m \in [Three -> SUBSET Three], k \in {None, 1, 3}}
  \cup {[Call("matrix", Identity(4)) EXCEPT !.matrix = [q \in Wires(4) |-> m[p[q]]]] :
          m \in Upper4, p \in Permutations4}

\* On the line the parities whose wires are next to each other.
Line == {{0, 1}, {1, 2}}
OnLine == Parities(3) \ {{0, 2}}
SteinerJobs ==
  {Call("steiner", Phases(3, IdentityMap(3), {}, All(P, 5))) :
     P \in {P \in SUBSET Parities(3) : Cardinality(P) <= 2}}
  \cup {[Call("steiner", Phases(3, Swapped, {2}, All(P, 1))) EXCEPT !.adj = Line] :
          P \in {P \in SUBSET OnLine : Cardinality(P) \in 1..2}}
  \cup {[Call("steiner", Phases(3, m, {}, All({{0, 1, 2}}, 3))) EXCEPT !.adj = Line] : m \in Maps(3)}

\* What the guards refuse: too few gates, too dear, a path variable.
Hadamard == ApplyH(Phases(3, IdentityMap(3), {}, All({{0, 1}}, 1)), 0)
GuardJobs ==
  LET ps == Phases(3, Swapped, {}, All({{0, 1}}, 1))
      kinds == {"gray", "steiner"}
  IN  {[Call(k, ps) EXCEPT !.gates = 2] : k \in kinds}
      \cup {[Call(k, ps) EXCEPT !.hw = 3] : k \in kinds}
      \cup {Call(k, s) : k \in kinds \cup {"pmh"}, s \in {Hadamard, ApplyCX(Hadamard, 0, 1), ApplyTicks(Hadamard, 0, 1)}}
      \cup {Call("pmh", ps), Call("pmh", Identity(3))}

MCJobs == GrayJobs \cup PmhJobs \cup MatrixJobs \cup SteinerJobs \cup GuardJobs

\* A parity whose route has a wire that is not in it.
TreeJobs == {[Call("steiner", Phases(3, IdentityMap(3), {}, All({{0, 2}}, 1))) EXCEPT !.adj = Line]}
=============================================================================
