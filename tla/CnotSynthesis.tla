---------------------------- MODULE CnotSynthesis ----------------------------
(***************************************************************************)
(* Linear maps over GF(2) and the networks of CNOTs that realise them:     *)
(* Patel-Markov-Hayes sectioned elimination with Gauss-Jordan as the       *)
(* fallback (src/src/engine/pmh.rs), the solver of the Gray residual       *)
(* (gray.rs) and the routing of a CNOT over a topology (steiner.rs).       *)
(*                                                                         *)
(* A map on n wires is a function from 0..n-1 to sets of inputs, the rows; *)
(* a CNOT is a pair <<control, target>> and adds row control to row target.*)
(***************************************************************************)
EXTENDS Integers, Sequences, FiniteSets, SequencesExt, StrictFunctions

Wires(n) == 0 .. n - 1

\* for i in a..b: what Body makes of start, one i after the other.
Loop(Body(_, _), start, a, b) ==
  LET after[i \in a .. b] == IF i = a THEN start ELSE Body(after[i - 1], i - 1) IN after[b]

IdentityMap(n) == Strict([q \in Wires(n) |-> {q}])
AddRow(m, c, t) == Strict([m EXCEPT ![t] = SymDiff(@, m[c])])
Apply(m, g) == AddRow(m, g[1], g[2])
ApplyCnots(m, cnots) ==
  LET step(acc, i) == Apply(acc, cnots[i]) IN Loop(step, m, 1, Len(cnots) + 1)

\* The sum of the rows in y.
Sum(m, y) == {v \in DOMAIN m : Cardinality({i \in y : v \in m[i]}) % 2 = 1}
Transpose(m) == Strict([i \in DOMAIN m |-> {j \in DOMAIN m : i \in m[j]}])
Invertible(m) == \A y \in (SUBSET DOMAIN m) \ {{}} : Sum(m, y) # {}

LeastOf(S) == CHOOSE x \in S : \A y \in S : x <= y

-----------------------------------------------------------------------------
(* lwr_cnot_synth.  acc is a matrix with the row operations made so far.    *)

RowOp(acc, c, t) == [m |-> AddRow(acc.m, c, t), ops |-> Append(acc.ops, <<c, t>>)]

SectionSize(n) == IF n < 4 THEN (IF n < 2 THEN 1 ELSE 2) ELSE IF n < 8 THEN 2 ELSE IF n < 16 THEN 3 ELSE 4

\* A row whose pattern within the section is that of an earlier row.
Same(m, start, end, r) ==
  LET pattern(f) == m[f] \cap start .. end - 1
  IN  IF pattern(r) = {} THEN {} ELSE {f \in start .. r - 1 : pattern(f) = pattern(r)}
DropPattern(a, start, end, r) ==
  IF Same(a.m, start, end, r) = {} THEN a ELSE RowOp(a, LeastOf(Same(a.m, start, end, r)), r)
DropPatterns(acc, n, start, end) ==
  LET step(a, r) == DropPattern(a, start, end, r) IN Loop(step, acc, start, n)

\* Ones below the diagonal; the first of them mends a zero on it.
Mend(a, col, r) == IF col \in a.m[col] THEN a ELSE RowOp(a, r, col)
ClearRow(a, col, r) == IF col \in a.m[r] THEN RowOp(Mend(a, col, r), col, r) ELSE a
ClearColumn(acc, n, col) ==
  LET step(a, r) == ClearRow(a, col, r) IN Loop(step, acc, col + 1, n)

\* Every size columns a section starts.
EndOf(start, n, size) == IF start + size < n THEN start + size ELSE n
Column(acc, n, size, col) ==
  ClearColumn(IF col % size = 0 THEN DropPatterns(acc, n, col, EndOf(col, n, size)) ELSE acc, n, col)
LowerPass(m, n, size) ==
  LET step(a, col) == Column(a, n, size, col) IN Loop(step, [m |-> m, ops |-> << >>], 0, n)

\* A diagonal 1 that cannot be placed ends the pass with None.
UnitDiagonal(m) == \A q \in DOMAIN m : q \in m[q]

-----------------------------------------------------------------------------
(* The stitch of the two passes, and the fallback.                          *)

Push(cnots, g) ==
  IF cnots # << >> /\ Last(cnots) = g THEN Front(cnots) ELSE Append(cnots, g)

Cancelled(cnots) ==
  LET step(acc, i) == Push(acc, cnots[i]) IN Loop(step, << >>, 1, Len(cnots) + 1)

Turned(cnots) == [i \in DOMAIN cnots |-> <<cnots[i][2], cnots[i][1]>>]
Stitch(lower, upper) == Cancelled(Turned(upper) \o Reverse(lower))

\* One column of synthesize_cnot_matrix_ge; a column without a pivot is skipped.
GeSwap(a, c, p) ==
  IF p = c THEN a
  ELSE [m |-> Strict([a.m EXCEPT ![c] = a.m[p], ![p] = a.m[c]]),
        ops |-> Push(Push(Push(a.ops, <<p, c>>), <<c, p>>), <<p, c>>)]
GeClear(a, c, r) ==
  IF r # c /\ c \in a.m[r] THEN [m |-> AddRow(a.m, c, r), ops |-> Push(a.ops, <<c, r>>)] ELSE a
GeRest(acc, n, c) ==
  LET step(a, r) == GeClear(a, c, r) IN Loop(step, acc, 0, n)
GeColumn(acc, n, c) ==
  LET below == {r \in c .. n - 1 : c \in acc.m[r]}
      above == {r \in 0 .. c - 1 : c \in acc.m[r]}
      p == LeastOf(IF below # {} THEN below ELSE above)
  IN  IF below \cup above = {} THEN acc ELSE GeRest(GeSwap(acc, c, p), n, c)

GeAll(m, n) ==
  LET step(a, c) == GeColumn(a, n, c) IN Loop(step, [m |-> m, ops |-> << >>], 0, n)
GaussJordan(m, n) == Reverse(GeAll(m, n).ops)

-----------------------------------------------------------------------------
(* gray_solve: the set of rows that add up to the parity.                   *)

SolveBit(acc, bit) ==
  LET free == {i \in DOMAIN acc.m : i \notin acc.used /\ bit \in acc.m[i]}
      p == LeastOf(free)
      hit == free \ {p}
      inRhs == bit \in acc.rhs
  IN  IF free = {} THEN acc
      ELSE [m |-> Strict([i \in DOMAIN acc.m |-> IF i \in hit THEN SymDiff(acc.m[i], acc.m[p]) ELSE acc.m[i]]),
            of |-> Strict([i \in DOMAIN acc.m |-> IF i \in hit THEN SymDiff(acc.of[i], acc.of[p]) ELSE acc.of[i]]),
            used |-> acc.used \cup {p},
            rhs |-> IF inRhs THEN SymDiff(acc.rhs, acc.m[p]) ELSE acc.rhs,
            combo |-> IF inRhs THEN SymDiff(acc.combo, acc.of[p]) ELSE acc.combo]

\* combo is the answer where rhs is {}.
Solve(m, n, parity) ==
  Loop(SolveBit,
    [m |-> m, of |-> IdentityMap(n), used |-> {}, rhs |-> parity, combo |-> {}], 0, n)

-----------------------------------------------------------------------------
(* Topology: the shortest routes, and a CNOT along one.                     *)

Infinite == 1000
Edges(n, adj) ==
  [dist |-> [i \in Wires(n) |-> [j \in Wires(n) |-> IF i = j THEN 0 ELSE IF {i, j} \in adj THEN 1 ELSE Infinite]],
   next |-> [i \in Wires(n) |-> [j \in Wires(n) |-> j]]]

\* Floyd-Warshall: a strictly shorter way through k.
Through(t, k, n) ==
  LET way(i, j) == t.dist[i][k] + t.dist[k][j]
      through(i, j) == way(i, j) < t.dist[i][j]
  IN  [dist |-> Strict([i \in Wires(n) |-> Strict([j \in Wires(n) |->
                   IF through(i, j) THEN way(i, j) ELSE t.dist[i][j]])]),
       next |-> Strict([i \in Wires(n) |-> Strict([j \in Wires(n) |->
                   IF through(i, j) THEN t.next[i][k] ELSE t.next[i][j]])])]
Topology(n, adj) ==
  LET step(t, k) == Through(t, k, n) IN Loop(step, Edges(n, adj), 0, n)

Hop(t, p, v) == IF Last(p) = v THEN p ELSE Append(p, t.next[Last(p)][v])
Route(t, u, v) ==
  LET step(p, i) == Hop(t, p, v) IN Loop(step, <<u>>, 0, t.dist[u][v])
Connected(t, u, v) == t.dist[u][v] < Infinite

\* Two neighbours of a route swapped, and all but the last of a route moved along it.
Swap(p, i) == << <<p[i], p[i + 1]>>, <<p[i + 1], p[i]>>, <<p[i], p[i + 1]>> >>
Swaps(p) == LET step(s, i) == s \o Swap(p, i) IN Loop(step, << >>, 1, Len(p) - 1)

\* Mutant: the qubits swapped along the route stay where they are.
RemoteCnotOneWay(t, g) ==
  LET p == Route(t, g[1], g[2])
      swaps == Swaps(p)
  IN  IF ~Connected(t, g[1], g[2]) THEN << >> ELSE swaps \o << <<p[Len(p)-1], p[Len(p)]>> >>

\* apply_remote_cnot: swaps along the route, the CNOT, and the swaps back.
RemoteCnot(t, g) ==
  LET p == Route(t, g[1], g[2])
      swaps == Swaps(p)
  IN  IF ~Connected(t, g[1], g[2]) THEN << >>
      ELSE swaps \o << <<p[Len(p)-1], p[Len(p)]>> >> \o Reverse(swaps)

\* Mutant: the CNOTs as they were synthesized.
RouteNone(t, cnots) == cnots

RouteAll(t, cnots) ==
  LET step(s, i) == s \o RemoteCnot(t, cnots[i]) IN Loop(step, << >>, 1, Len(cnots) + 1)
=============================================================================
