------------------------------- MODULE DenseSim -------------------------------
(***************************************************************************)
(* The dense reference semantics the engine is tested against              *)
(* (src/src/engine/reference.rs): the matrix a path sum denotes, and a     *)
(* gate-by-gate simulator.  The code computes in floating point within a   *)
(* tolerance; here the entries are exact, integer combinations of the      *)
(* first Turn/2 powers of the root of unity of order Turn.                 *)
(*                                                                         *)
(* A matrix is the set of <<y, x, k, c>>, c # 0 the coefficient of power k *)
(* in the entry at output y and input x, each the set of the qubits at 1.  *)
(* Matrices are compared up to a global phase, and Normal picks the        *)
(* representative: no factor of the square root of 2 left, and the first   *)
(* entry in its greatest rotation.                                         *)
(***************************************************************************)
EXTENDS Integers, Sequences, FiniteSets, FiniteSetsExt, SequencesExt

CONSTANT Turn

Half == Turn \div 2

\* Adds up summands <<y, x, k, c, tag>>, of any power k >= 0; power Turn/2 is -1.
Total(S) ==
  LET reduced == {<<<<s[1], s[2], s[3] % Half>>,
                    IF (s[3] \div Half) % 2 = 0 THEN s[4] ELSE -s[4], s>> : s \in S}
      sum(e) == MapThenSumSet(LAMBDA r : r[2], {r \in reduced : r[1] = e})
      all == {<<e[1], e[2], e[3], sum(e)>> : e \in {r[1] : r \in reduced}}
  IN  {z \in all : z[4] # 0}

-----------------------------------------------------------------------------
(* Comparison up to a scale and a global phase.                             *)

Order(S) == MapThenSumSet(LAMBDA q : 2 ^ q, S)

Scaled(mat, d) == {<<z[1], z[2], z[3], z[4] \div d>> : z \in mat}
Divisible(mat, d) == \A z \in mat : z[4] % d = 0
TimesRoot2(mat) ==
  Total({<<z[1], z[2], z[3] + Turn \div 8, z[4], 0>> : z \in mat} \cup
        {<<z[1], z[2], z[3] + 3 * (Turn \div 8), -z[4], 1>> : z \in mat})

\* No square root of 2 left, in a matrix with at most 2 * tries of them.
Primitive(mat, tries) ==
  LET g == CHOOSE g \in 0..tries : /\ Divisible(mat, 2 ^ g)
                                   /\ g = tries \/ ~Divisible(mat, 2 ^ (g + 1))
      half == Scaled(mat, 2 ^ g)
      next == TimesRoot2(half)
  IN  IF Divisible(next, 2) THEN Scaled(next, 2) ELSE half

Normal(mat, tries) ==
  LET p == Primitive(mat, tries)
      first == CHOOSE e \in {<<z[1], z[2]>> : z \in p} :
                 \A f \in {<<z[1], z[2]>> : z \in p} :
                   \/ Order(e[2]) < Order(f[2])
                   \/ Order(e[2]) = Order(f[2]) /\ Order(e[1]) <= Order(f[1])
      entry == {z \in p : z[1] = first[1] /\ z[2] = first[2]}
      \* the coefficient of power k after t rotations
      coef(t, k) == LET from == (k - t) % Turn IN
        MapThenSumSet(LAMBDA z : IF from < Half THEN z[4] ELSE -z[4],
                      {z \in entry : z[3] = from % Half})
      greatest(T, k) == {t \in T : \A u \in T : coef(t, k) >= coef(u, k)}
      turns == FoldLeft(greatest, 0 .. Turn - 1, [k \in 1..Half |-> k - 1])
      turn == CHOOSE t \in turns : TRUE
  IN  Total({<<z[1], z[2], z[3] + turn, z[4], 0>> : z \in p})

-----------------------------------------------------------------------------
(* pathsum_to_matrix, over the variables `live` of the sum.                 *)

Matrix(ps, live) ==
  LET qubits == 0 .. ps.n - 1
      ticks(a) ==
        (MapThenSumSet(LAMBDA t : ps.disc[t] * (Turn \div 8), {t \in DOMAIN ps.disc : t \subseteq a})
         + MapThenSumSet(LAMBDA p : ps.cont[p],
                         {p \in DOMAIN ps.cont : Cardinality(p \cap a) % 2 = 1})) % Turn
      out(a) == {q \in qubits : Cardinality({t \in ps.rows[q] : t \subseteq a}) % 2 = 1}
  IN  Total({<<out(a), a \cap qubits, ticks(a), 1, a>> : a \in SUBSET (qubits \cup live)})

Denotes(ps, live) == Normal(Matrix(ps, live), Cardinality(live) + 1)

-----------------------------------------------------------------------------
(* The simulator: each gate multiplies from the left.                       *)

IdentityMatrix(n) == {<<y, y, 0, 1>> : y \in SUBSET (0..n-1)}

Other(y, q) == IF q \in y THEN y \ {q} ELSE y \cup {q}

SimX(mat, q) == {<<Other(z[1], q), z[2], z[3], z[4]>> : z \in mat}
SimCX(mat, c, t) ==
  {<<IF c \in z[1] THEN Other(z[1], t) ELSE z[1], z[2], z[3], z[4]>> : z \in mat}
SimPhase(mat, q, ticks) ==
  Total({<<z[1], z[2], IF q \in z[1] THEN z[3] + ticks ELSE z[3], z[4], 0>> : z \in mat})
SimH(mat, q) ==
  Total({<<z[1] \ {q}, z[2], z[3], z[4], z[1]>> : z \in mat} \cup
        {<<z[1] \cup {q}, z[2], z[3], IF q \in z[1] THEN -z[4] ELSE z[4], z[1]>> : z \in mat})
\* (I - iX) / sqrt 2
SimSX(mat, q) ==
  Total({<<z[1], z[2], z[3], z[4], 0>> : z \in mat} \cup
        {<<Other(z[1], q), z[2], z[3] + 3 * (Turn \div 4), z[4], 1>> : z \in mat})
=============================================================================
