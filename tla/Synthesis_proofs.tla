--------------------------- MODULE Synthesis_proofs ---------------------------
(***************************************************************************)
(* What is proved of the synthesizers for every job: the types of their    *)
(* state; that a circuit made for a topology runs on it; that GraySynth    *)
(* places every phase of the call exactly once, on a wire that carries it; *)
(* that an admitted call is answered, for its frames never run out of      *)
(* wires to split on and the elimination inverts every invertible map; and *)
(* that what it returns has the map and the phases of the call.            *)
(***************************************************************************)
EXTENDS SynthesisInvariants, FiniteSetTheorems, FunctionTheorems, WellFoundedInduction, TLAPS

(* Strict is there for TLC: it changes nothing.                             *)
LEMMA StrictSame == ASSUME NEW f PROVE Strict(f) = f
  BY DEF Strict

(* Every set of naturals that is not empty has a least element.             *)
LEMMA LeastExists ==
    ASSUME NEW T \in SUBSET Nat, T # {}
    PROVE  \E m \in T : \A k \in T : m <= k
  <1> DEFINE R == OpToRel(<, Nat)
  <1>1. IsWellFoundedOn(R, Nat)
    BY NatLessThanWellFounded, Zenon
  <1>2. \A m, k \in Nat : m < k => <<m, k>> \in R
    BY DEF OpToRel
  <1> HIDE DEF R
  <1>3. PICK m \in T : \A k \in T : <<k, m>> \notin R
    BY <1>1, WFMin
  <1>4. ASSUME NEW k \in T PROVE m <= k
    <2>1. ~(k < m)
      BY <1>2, <1>3
    <2> QED
      BY <2>1
  <1> QED
    BY <1>4

(* LeastOf is the least element.                                            *)
LEMMA LeastOfIs ==
    ASSUME NEW T \in SUBSET Nat, T # {}
    PROVE  LeastOf(T) \in T /\ \A k \in T : LeastOf(T) <= k
  BY LeastExists DEF LeastOf

(* What holds at a and from each number to the next holds up to b.          *)
LEMMA Climbs ==
    ASSUME NEW a \in Nat, NEW b \in Nat, NEW P, a \in P,
           \A i \in a .. b - 1 : i \in P => i + 1 \in P
    PROVE  \A i \in a .. b : i \in P
  <1> DEFINE T == {i \in a .. b : i \notin P}
  <1> SUFFICES ASSUME T # {} PROVE FALSE
    OBVIOUS
  <1>0. T \in SUBSET Nat
    OBVIOUS
  <1>1. PICK m \in T : \A k \in T : m <= k
    <2> HIDE DEF T
    <2> QED
      BY <1>0, LeastExists
  <1>2. m - 1 \in a .. b - 1 /\ m - 1 \in P
    BY <1>1
  <1> QED
    BY <1>1, <1>2

(* What holds of a and passes from each number to the next holds of b.      *)
LEMMA ClimbsTo ==
    ASSUME NEW a \in Nat, NEW b \in Nat, a <= b, NEW P, a \in P,
           \A i \in a .. b - 1 : i \in P => i + 1 \in P
    PROVE  b \in P
  <1>1. b \in a .. b
    OBVIOUS
  <1>2. \A i \in a .. b : i \in P
    BY Climbs
  <1> QED
    BY <1>1, <1>2

(* What holds of the values of g at a, and from each number to the next, is *)
(* what g is a function to.                                                 *)
LEMMA Stays ==
    ASSUME NEW S, NEW a \in Nat, NEW b \in Nat, a <= b, NEW g,
           g = [i \in a .. b |-> g[i]],
           g[a] \in S, \A i \in a .. b - 1 : g[i] \in S => g[i + 1] \in S
    PROVE  g \in [a .. b -> S]
  <1> DEFINE P == {i \in a .. b : g[i] \in S}
  <1>1. a \in P /\ \A i \in a .. b - 1 : i \in P => i + 1 \in P
    OBVIOUS
  <1>2. \A i \in a .. b : i \in P
    <2> HIDE DEF P
    <2> QED
      BY <1>1, Climbs
  <1> QED
    BY <1>2

(* A loop whose steps stay in S can be followed from its start to its end.  *)
LEMMA Iterates ==
    ASSUME NEW S, NEW a \in Nat, NEW b \in Nat, a <= b, NEW x \in S,
           NEW F \in [a .. b - 1 -> [S -> S]]
    PROVE  \E g \in [a .. b -> S] : Follows(g, x, F, a, b)
  <1> DEFINE P == {k \in a .. b : \E g \in [a .. k -> S] : Follows(g, x, F, a, k)}
  <1>1. a \in P
    <2>1. a \in a .. b /\ [i \in a .. a |-> x] \in [a .. a -> S]
      OBVIOUS
    <2>2. Follows([i \in a .. a |-> x], x, F, a, a)
      BY DEF Follows
    <2>3. \E g \in [a .. a -> S] : Follows(g, x, F, a, a)
      BY <2>1, <2>2
    <2> QED
      BY <2>1, <2>3
  <1>2. ASSUME NEW k \in a .. b - 1, k \in P PROVE k + 1 \in P
    <2>1. PICK g \in [a .. k -> S] : Follows(g, x, F, a, k)
      BY <1>2
    <2> DEFINE h == [i \in a .. k + 1 |-> IF i = k + 1 THEN F[k][g[k]] ELSE g[i]]
    <2>2. h \in [a .. k + 1 -> S]
      <3>1. F[k] \in [S -> S] /\ g[k] \in S
        OBVIOUS
      <3> QED
        BY <3>1
    <2>3. Follows(h, x, F, a, k + 1)
      <3>1. h[a] = x
        BY <2>1 DEF Follows
      <3>2. ASSUME NEW i \in a .. k PROVE h[i + 1] = F[i][h[i]]
        <4>1. CASE i = k
          BY <4>1
        <4>2. CASE i # k
          BY <2>1, <4>2 DEF Follows
        <4> QED
          BY <4>1, <4>2
      <3> HIDE DEF h
      <3> QED
        BY <3>1, <3>2 DEF Follows
    <2> HIDE DEF h
    <2>4. \E f \in [a .. k + 1 -> S] : Follows(f, x, F, a, k + 1)
      BY <2>2, <2>3
    <2> QED
      BY <2>4
  <1>3. b \in a .. b
    OBVIOUS
  <1>4. b \in P
    <2> HIDE DEF P
    <2> QED
      BY <1>1, <1>2, <1>3, Climbs
  <1> QED
    BY <1>4

(* A gate of a circuit joins two wires.                                     *)
LEMMA GateOf ==
    ASSUME NEW N \in Nat, NEW cnots \in Seq(Gates(N)), NEW i \in 1 .. Len(cnots)
    PROVE  /\ cnots[i] \in Gates(N) /\ cnots[i] = <<cnots[i][1], cnots[i][2]>>
           /\ cnots[i][1] \in Wires(N) /\ cnots[i][2] \in Wires(N) /\ cnots[i][1] # cnots[i][2]
  <1>1. cnots[i] \in Gates(N)
    OBVIOUS
  <1> QED
    BY <1>1 DEF Gates

(* A CNOT adds one row to another and leaves the rest.                      *)
LEMMA AddRowTyped ==
    ASSUME NEW N \in Nat, NEW m \in Mat(N), NEW c \in Wires(N), NEW t \in Wires(N)
    PROVE  /\ AddRow(m, c, t) \in Mat(N)
           /\ \A q \in Wires(N) : AddRow(m, c, t)[q] = IF q = t THEN SymDiff(m[t], m[c]) ELSE m[q]
  <1>1. SymDiff(m[t], m[c]) \in SUBSET Wires(N)
    BY DEF Mat, SymDiff
  <1>2. AddRow(m, c, t) = [m EXCEPT ![t] = SymDiff(m[t], m[c])]
    BY StrictSame DEF AddRow
  <1> QED
    BY <1>1, <1>2 DEF Mat

(* A CNOT of two wires takes a matrix to a matrix.                          *)
LEMMA ApplyTyped ==
    ASSUME NEW N \in Nat, NEW m \in Mat(N), NEW g \in Gates(N)
    PROVE  Apply(m, g) \in Mat(N)
  <1>1. g[1] \in Wires(N) /\ g[2] \in Wires(N)
    BY DEF Gates
  <1> QED
    BY <1>1, AddRowTyped DEF Apply

(* A row operation adds one row to another and is noted last.               *)
LEMMA RowOpTyped ==
    ASSUME NEW N \in Nat, NEW acc \in Elim(N), NEW c \in Wires(N), NEW t \in Wires(N), c # t
    PROVE  /\ RowOp(acc, c, t) \in Elim(N)
           /\ RowOp(acc, c, t).m = AddRow(acc.m, c, t)
           /\ RowOp(acc, c, t).ops = Append(acc.ops, <<c, t>>)
  <1>1. acc.m \in Mat(N) /\ acc.ops \in Seq(Gates(N)) /\ <<c, t>> \in Gates(N)
    BY DEF Elim, Gates
  <1>2. AddRow(acc.m, c, t) \in Mat(N)
    BY <1>1, AddRowTyped
  <1>3. Append(acc.ops, <<c, t>>) \in Seq(Gates(N))
    BY <1>1
  <1> QED
    BY <1>2, <1>3 DEF RowOp, Elim

(* Dropping a repeated pattern is a row operation with an earlier row, or nothing. *)
LEMMA DropPatternTyped ==
    ASSUME NEW N \in Nat, NEW acc \in Elim(N), NEW start \in Wires(N), NEW end \in Int, NEW r \in start .. N - 1
    PROVE  DropPattern(acc, start, end, r) \in Elim(N)
  <1> DEFINE T == Same(acc.m, start, end, r)
  <1>1. CASE T = {}
    BY <1>1 DEF DropPattern
  <1>2. CASE T # {}
    <2>1. T \in SUBSET (start .. r - 1) /\ start .. r - 1 \in SUBSET Nat
      BY DEF Same, Wires
    <2>2. LeastOf(T) \in start .. r - 1
      <3> HIDE DEF T
      <3>1. T \in SUBSET Nat
        BY <2>1
      <3>2. LeastOf(T) \in T
        BY <1>2, <3>1, LeastOfIs
      <3> QED
        BY <2>1, <3>2
    <2>3. LeastOf(T) \in Wires(N) /\ r \in Wires(N) /\ LeastOf(T) # r
      BY <2>2 DEF Wires
    <2> QED
      BY <1>2, <2>3, RowOpTyped DEF DropPattern
  <1> QED
    BY <1>1, <1>2

(* Clearing one row below the diagonal, and mending the diagonal before it, are row operations. *)
LEMMA ClearRowTyped ==
    ASSUME NEW N \in Nat, NEW acc \in Elim(N), NEW col \in Wires(N), NEW r \in Wires(N), r # col
    PROVE  ClearRow(acc, col, r) \in Elim(N) /\ Mend(acc, col, r) \in Elim(N)
  <1>1. Mend(acc, col, r) \in Elim(N)
    BY RowOpTyped DEF Mend
  <1> QED
    BY <1>1, RowOpTyped DEF ClearRow

(* A CNOT pushed on a list of CNOTs leaves a list of CNOTs.                 *)
LEMMA PushTyped ==
    ASSUME NEW N \in Nat, NEW cnots \in Seq(Gates(N)), NEW g \in Gates(N)
    PROVE  Push(cnots, g) \in Seq(Gates(N))
  BY DEF Push, Front, Last

(* The maps between the CNOTs of ApplyCnots.                                *)
LEMMA ApplyCnotsRuns ==
    ASSUME NEW N \in Nat, NEW m \in Mat(N), NEW cnots \in Seq(Gates(N))
    PROVE  \E g \in [1 .. Len(cnots) + 1 -> Mat(N)] :
             /\ g[1] = m
             /\ \A i \in 1 .. Len(cnots) : g[i + 1] = Apply(g[i], cnots[i])
             /\ ApplyCnots(m, cnots) = g[Len(cnots) + 1]
  <1> DEFINE S == Mat(N)
             First == 1
             Final == Len(cnots) + 1
             Base == m
             Step(s, i) == Apply(s, cnots[i])
             F == [i \in First .. Final - 1 |-> [s \in S |-> Step(s, i)]]
  <1>1. First \in Nat /\ Final \in Nat /\ First <= Final /\ Base \in S
    OBVIOUS
  <1>2. \A i \in First .. Final - 1, s \in S : Step(s, i) \in S
    BY GateOf, ApplyTyped
  <1>3. First .. Final - 1 = 1 .. Len(cnots)
    BY <1>1
  <1> HIDE DEF S, Step, First, Final, Base
  <1>4. F \in [First .. Final - 1 -> [S -> S]] /\ \A i \in First .. Final - 1, s \in S : F[i][s] = Step(s, i)
    BY <1>2
  <1> HIDE DEF F
  <1>5. PICK f \in [First .. Final -> S] : Follows(f, Base, F, First, Final)
    BY <1>1, <1>4, Iterates
  <1>6. f = [i \in First .. Final |-> IF i = First THEN Base ELSE Step(f[i - 1], i - 1)]
    BY <1>1, <1>4, <1>5 DEF Follows
  <1>7. PICK g : /\ g = [i \in First .. Final |-> IF i = First THEN Base ELSE Step(g[i - 1], i - 1)]
                 /\ ApplyCnots(m, cnots) = g[Final]
    BY <1>6 DEF ApplyCnots, Loop, First, Final, Base, Step
  <1>8. g[First] = Base /\ \A i \in First .. Final - 1 : g[i + 1] = Step(g[i], i)
    BY <1>1, <1>7
  <1>9. g = [i \in First .. Final |-> g[i]] /\ g[First] \in S
    BY <1>1, <1>7, <1>8
  <1>10. \A i \in First .. Final - 1 : g[i] \in S => g[i + 1] \in S
    BY <1>2, <1>8
  <1>11. g \in [First .. Final -> S]
    BY <1>1, <1>9, <1>10, Stays
  <1>12. g[First] = Base /\ (\A i \in 1 .. Len(cnots) : g[i + 1] = Step(g[i], i)) /\ ApplyCnots(m, cnots) = g[Final]
    BY <1>3, <1>7, <1>8
  <1> QED
    BY <1>11, <1>12 DEF S, First, Final, Base, Step

(* The eliminations after each row of DropPatterns.                         *)
LEMMA DropPatternsRuns ==
    ASSUME NEW N \in Nat, NEW acc \in Elim(N), NEW start \in Wires(N), NEW end \in Int
    PROVE  \E g \in [start .. N -> Elim(N)] :
             /\ g[start] = acc
             /\ \A i \in start .. N - 1 : g[i + 1] = DropPattern(g[i], start, end, i)
             /\ DropPatterns(acc, N, start, end) = g[N]
  <1> DEFINE S == Elim(N)
             First == start
             Final == N
             Base == acc
             Step(s, i) == DropPattern(s, start, end, i)
             F == [i \in First .. Final - 1 |-> [s \in S |-> Step(s, i)]]
  <1>1. First \in Nat /\ Final \in Nat /\ First <= Final /\ Base \in S
    BY DEF Wires
  <1>2. \A i \in First .. Final - 1, s \in S : Step(s, i) \in S
    BY DropPatternTyped DEF Wires
  <1>3. First .. Final - 1 = start .. N - 1
    BY <1>1
  <1> HIDE DEF S, Step, First, Final, Base
  <1>4. F \in [First .. Final - 1 -> [S -> S]] /\ \A i \in First .. Final - 1, s \in S : F[i][s] = Step(s, i)
    BY <1>2
  <1> HIDE DEF F
  <1>5. PICK f \in [First .. Final -> S] : Follows(f, Base, F, First, Final)
    BY <1>1, <1>4, Iterates
  <1>6. f = [i \in First .. Final |-> IF i = First THEN Base ELSE Step(f[i - 1], i - 1)]
    BY <1>1, <1>4, <1>5 DEF Follows
  <1>7. PICK g : /\ g = [i \in First .. Final |-> IF i = First THEN Base ELSE Step(g[i - 1], i - 1)]
                 /\ DropPatterns(acc, N, start, end) = g[Final]
    BY <1>6 DEF DropPatterns, Loop, First, Final, Base, Step
  <1>8. g[First] = Base /\ \A i \in First .. Final - 1 : g[i + 1] = Step(g[i], i)
    BY <1>1, <1>7
  <1>9. g = [i \in First .. Final |-> g[i]] /\ g[First] \in S
    BY <1>1, <1>7, <1>8
  <1>10. \A i \in First .. Final - 1 : g[i] \in S => g[i + 1] \in S
    BY <1>2, <1>8
  <1>11. g \in [First .. Final -> S]
    BY <1>1, <1>9, <1>10, Stays
  <1>12. g[First] = Base /\ (\A i \in start .. N - 1 : g[i + 1] = Step(g[i], i)) /\ DropPatterns(acc, N, start, end) = g[Final]
    BY <1>3, <1>7, <1>8
  <1> QED
    BY <1>11, <1>12 DEF S, First, Final, Base, Step

(* The eliminations after each row of ClearColumn.                          *)
LEMMA ClearColumnRuns ==
    ASSUME NEW N \in Nat, NEW acc \in Elim(N), NEW col \in Wires(N)
    PROVE  \E g \in [(col + 1) .. N -> Elim(N)] :
             /\ g[(col + 1)] = acc
             /\ \A i \in (col + 1) .. N - 1 : g[i + 1] = ClearRow(g[i], col, i)
             /\ ClearColumn(acc, N, col) = g[N]
  <1> DEFINE S == Elim(N)
             First == (col + 1)
             Final == N
             Base == acc
             Step(s, i) == ClearRow(s, col, i)
             F == [i \in First .. Final - 1 |-> [s \in S |-> Step(s, i)]]
  <1>1. First \in Nat /\ Final \in Nat /\ First <= Final /\ Base \in S
    BY DEF Wires
  <1>2. \A i \in First .. Final - 1, s \in S : Step(s, i) \in S
    BY ClearRowTyped DEF Wires
  <1>3. First .. Final - 1 = (col + 1) .. N - 1
    BY <1>1
  <1> HIDE DEF S, Step, First, Final, Base
  <1>4. F \in [First .. Final - 1 -> [S -> S]] /\ \A i \in First .. Final - 1, s \in S : F[i][s] = Step(s, i)
    BY <1>2
  <1> HIDE DEF F
  <1>5. PICK f \in [First .. Final -> S] : Follows(f, Base, F, First, Final)
    BY <1>1, <1>4, Iterates
  <1>6. f = [i \in First .. Final |-> IF i = First THEN Base ELSE Step(f[i - 1], i - 1)]
    BY <1>1, <1>4, <1>5 DEF Follows
  <1>7. PICK g : /\ g = [i \in First .. Final |-> IF i = First THEN Base ELSE Step(g[i - 1], i - 1)]
                 /\ ClearColumn(acc, N, col) = g[Final]
    BY <1>6 DEF ClearColumn, Loop, First, Final, Base, Step
  <1>8. g[First] = Base /\ \A i \in First .. Final - 1 : g[i + 1] = Step(g[i], i)
    BY <1>1, <1>7
  <1>9. g = [i \in First .. Final |-> g[i]] /\ g[First] \in S
    BY <1>1, <1>7, <1>8
  <1>10. \A i \in First .. Final - 1 : g[i] \in S => g[i + 1] \in S
    BY <1>2, <1>8
  <1>11. g \in [First .. Final -> S]
    BY <1>1, <1>9, <1>10, Stays
  <1>12. g[First] = Base /\ (\A i \in (col + 1) .. N - 1 : g[i + 1] = Step(g[i], i)) /\ ClearColumn(acc, N, col) = g[Final]
    BY <1>3, <1>7, <1>8
  <1> QED
    BY <1>11, <1>12 DEF S, First, Final, Base, Step

(* One column of the lower pass: patterns at the start of a section, then the ones below. *)
LEMMA ColumnTyped ==
    ASSUME NEW N \in Nat, NEW acc \in Elim(N), NEW size \in Nat \ {0}, NEW col \in Wires(N)
    PROVE  Column(acc, N, size, col) \in Elim(N)
  <1>1. EndOf(col, N, size) \in Int
    BY DEF EndOf, Wires
  <1>2. DropPatterns(acc, N, col, EndOf(col, N, size)) \in Elim(N)
    BY <1>1, DropPatternsRuns DEF Wires
  <1>3. \A a \in Elim(N) : ClearColumn(a, N, col) \in Elim(N)
    BY ClearColumnRuns DEF Wires
  <1> QED
    BY <1>2, <1>3 DEF Column

(* The eliminations after each column of a pass.                            *)
LEMMA LowerPassRuns ==
    ASSUME NEW N \in Nat, NEW m \in Mat(N), NEW size \in Nat \ {0}
    PROVE  \E g \in [0 .. N -> Elim(N)] :
             /\ g[0] = [m |-> m, ops |-> << >>]
             /\ \A i \in 0 .. N - 1 : g[i + 1] = Column(g[i], N, size, i)
             /\ LowerPass(m, N, size) = g[N]
  <1> DEFINE S == Elim(N)
             First == 0
             Final == N
             Base == [m |-> m, ops |-> << >>]
             Step(s, i) == Column(s, N, size, i)
             F == [i \in First .. Final - 1 |-> [s \in S |-> Step(s, i)]]
  <1>1. First \in Nat /\ Final \in Nat /\ First <= Final /\ Base \in S
    BY DEF Elim
  <1>2. \A i \in First .. Final - 1, s \in S : Step(s, i) \in S
    BY ColumnTyped DEF Wires
  <1>3. First .. Final - 1 = 0 .. N - 1
    BY <1>1
  <1> HIDE DEF S, Step, First, Final, Base
  <1>4. F \in [First .. Final - 1 -> [S -> S]] /\ \A i \in First .. Final - 1, s \in S : F[i][s] = Step(s, i)
    BY <1>2
  <1> HIDE DEF F
  <1>5. PICK f \in [First .. Final -> S] : Follows(f, Base, F, First, Final)
    BY <1>1, <1>4, Iterates
  <1>6. f = [i \in First .. Final |-> IF i = First THEN Base ELSE Step(f[i - 1], i - 1)]
    BY <1>1, <1>4, <1>5 DEF Follows
  <1>7. PICK g : /\ g = [i \in First .. Final |-> IF i = First THEN Base ELSE Step(g[i - 1], i - 1)]
                 /\ LowerPass(m, N, size) = g[Final]
    BY <1>6 DEF LowerPass, Loop, First, Final, Base, Step
  <1>8. g[First] = Base /\ \A i \in First .. Final - 1 : g[i + 1] = Step(g[i], i)
    BY <1>1, <1>7
  <1>9. g = [i \in First .. Final |-> g[i]] /\ g[First] \in S
    BY <1>1, <1>7, <1>8
  <1>10. \A i \in First .. Final - 1 : g[i] \in S => g[i + 1] \in S
    BY <1>2, <1>8
  <1>11. g \in [First .. Final -> S]
    BY <1>1, <1>9, <1>10, Stays
  <1>12. g[First] = Base /\ (\A i \in 0 .. N - 1 : g[i + 1] = Step(g[i], i)) /\ LowerPass(m, N, size) = g[Final]
    BY <1>3, <1>7, <1>8
  <1> QED
    BY <1>11, <1>12 DEF S, First, Final, Base, Step

(* The circuits between the gates that are pushed.                          *)
LEMMA CancelledRuns ==
    ASSUME NEW N \in Nat, NEW cnots \in Seq(Gates(N))
    PROVE  \E g \in [1 .. Len(cnots) + 1 -> Seq(Gates(N))] :
             /\ g[1] = << >>
             /\ \A i \in 1 .. Len(cnots) : g[i + 1] = Push(g[i], cnots[i])
             /\ Cancelled(cnots) = g[Len(cnots) + 1]
  <1> DEFINE S == Seq(Gates(N))
             First == 1
             Final == Len(cnots) + 1
             Base == << >>
             Step(s, i) == Push(s, cnots[i])
             F == [i \in First .. Final - 1 |-> [s \in S |-> Step(s, i)]]
  <1>1. First \in Nat /\ Final \in Nat /\ First <= Final /\ Base \in S
    OBVIOUS
  <1>2. \A i \in First .. Final - 1, s \in S : Step(s, i) \in S
    <2>1. \A i \in First .. Final - 1 : cnots[i] \in Gates(N)
      BY GateOf
    <2> QED
      BY <2>1, PushTyped
  <1>3. First .. Final - 1 = 1 .. Len(cnots)
    BY <1>1
  <1> HIDE DEF S, Step, First, Final, Base
  <1>4. F \in [First .. Final - 1 -> [S -> S]] /\ \A i \in First .. Final - 1, s \in S : F[i][s] = Step(s, i)
    BY <1>2
  <1> HIDE DEF F
  <1>5. PICK f \in [First .. Final -> S] : Follows(f, Base, F, First, Final)
    BY <1>1, <1>4, Iterates
  <1>6. f = [i \in First .. Final |-> IF i = First THEN Base ELSE Step(f[i - 1], i - 1)]
    BY <1>1, <1>4, <1>5 DEF Follows
  <1>7. PICK g : /\ g = [i \in First .. Final |-> IF i = First THEN Base ELSE Step(g[i - 1], i - 1)]
                 /\ Cancelled(cnots) = g[Final]
    BY <1>6 DEF Cancelled, Loop, First, Final, Base, Step
  <1>8. g[First] = Base /\ \A i \in First .. Final - 1 : g[i + 1] = Step(g[i], i)
    BY <1>1, <1>7
  <1>9. g = [i \in First .. Final |-> g[i]] /\ g[First] \in S
    BY <1>1, <1>7, <1>8
  <1>10. \A i \in First .. Final - 1 : g[i] \in S => g[i + 1] \in S
    BY <1>2, <1>8
  <1>11. g \in [First .. Final -> S]
    BY <1>1, <1>9, <1>10, Stays
  <1>12. g[First] = Base /\ (\A i \in 1 .. Len(cnots) : g[i + 1] = Step(g[i], i)) /\ Cancelled(cnots) = g[Final]
    BY <1>3, <1>7, <1>8
  <1> QED
    BY <1>11, <1>12 DEF S, First, Final, Base, Step

(* Before Floyd-Warshall the next hop of a pair is its other end, and it is an edge where the pair is near. *)
LEMMA EdgesRoute ==
    ASSUME NEW N \in Nat, NEW adj
    PROVE  Edges(N, adj) \in Routes(N, adj)
  <1> DEFINE e == Edges(N, adj)
             W == Wires(N)
  <1>1. /\ e.dist = [i \in W |-> [j \in W |-> IF i = j THEN 0 ELSE IF {i, j} \in adj THEN 1 ELSE Infinite]]
        /\ e.next = [i \in W |-> [j \in W |-> j]]
        /\ e = [dist |-> e.dist, next |-> e.next]
    BY DEF Edges
  <1> HIDE DEF e
  <1>2. e.dist \in [W -> [W -> Nat]] /\ e.next \in [W -> [W -> W]]
    BY <1>1 DEF Infinite
  <1>3. \A i, j \in W : /\ e.dist[i][j] = IF i = j THEN 0 ELSE IF {i, j} \in adj THEN 1 ELSE Infinite
                        /\ e.next[i][j] = j
    BY <1>1
  <1>4. e \in Tables(N)
    BY <1>1, <1>2 DEF Tables
  <1>5. Routed(e, N, adj)
    <2>1. \A u \in W : e.dist[u][u] = 0
      BY <1>3
    <2>2. ASSUME NEW u \in W, NEW v \in W, u # v, e.dist[u][v] < Infinite
          PROVE  {u, e.next[u][v]} \in adj /\ e.dist[e.next[u][v]][v] + 1 <= e.dist[u][v]
      <3>1. e.next[u][v] = v /\ e.dist[v][v] = 0
        BY <1>3
      <3>2. {u, v} \in adj /\ e.dist[u][v] = 1
        BY <1>3, <2>2 DEF Infinite
      <3> QED
        BY <3>1, <3>2
    <2> QED
      BY <2>1, <2>2 DEF Routed
  <1>6. e \in Routes(N, adj)
    BY <1>4, <1>5 DEF Routes
  <1> QED
    BY <1>6 DEF e

(* What a way through k changes.                                            *)
LEMMA ThroughIs ==
    ASSUME NEW N \in Nat, NEW t \in Tables(N), NEW k \in Wires(N)
    PROVE  /\ Through(t, k, N) \in Tables(N)
           /\ \A i, j \in Wires(N) :
                LET way == t.dist[i][k] + t.dist[k][j] IN
                /\ Through(t, k, N).dist[i][j] = IF way < t.dist[i][j] THEN way ELSE t.dist[i][j]
                /\ Through(t, k, N).next[i][j] = IF way < t.dist[i][j] THEN t.next[i][k] ELSE t.next[i][j]
  <1> DEFINE W == Wires(N)
             way(i, j) == t.dist[i][k] + t.dist[k][j]
             d == [i \in W |-> [j \in W |-> IF way(i, j) < t.dist[i][j] THEN way(i, j) ELSE t.dist[i][j]]]
             x == [i \in W |-> [j \in W |-> IF way(i, j) < t.dist[i][j] THEN t.next[i][k] ELSE t.next[i][j]]]
  <1>1. Through(t, k, N) = [dist |-> d, next |-> x]
    BY StrictSame, Zenon DEF Through
  <1>2. \A i, j \in W : t.dist[i][j] \in Nat /\ t.next[i][j] \in W
    BY DEF Tables
  <1>3. d \in [W -> [W -> Nat]] /\ x \in [W -> [W -> W]]
    BY <1>2
  <1> QED
    BY <1>1, <1>3 DEF Tables

(* Letting routes pass k keeps every first hop an edge that brings the route nearer to its end. *)
LEMMA ThroughRoutes ==
    ASSUME NEW N \in Nat, NEW adj, NEW t \in Routes(N, adj), NEW k \in Wires(N)
    PROVE  Through(t, k, N) \in Routes(N, adj)
  <1>1. t \in Tables(N) /\ Routed(t, N, adj)
    BY DEF Routes
  <1>2. PICK r : r = Through(t, k, N)
    OBVIOUS
  <1>3. r \in Tables(N)
    BY <1>1, <1>2, ThroughIs
  <1>4. \A i, j \in Wires(N) : t.dist[i][j] \in Nat /\ r.dist[i][j] \in Nat /\ t.next[i][j] \in Wires(N)
    BY <1>1, <1>3 DEF Tables
  <1>5. \A i, j \in Wires(N) :
          /\ r.dist[i][j] = IF t.dist[i][k] + t.dist[k][j] < t.dist[i][j] THEN t.dist[i][k] + t.dist[k][j] ELSE t.dist[i][j]
          /\ r.next[i][j] = IF t.dist[i][k] + t.dist[k][j] < t.dist[i][j] THEN t.next[i][k] ELSE t.next[i][j]
    BY <1>1, <1>2, ThroughIs
  <1>6. \A i, j \in Wires(N) : r.dist[i][j] <= t.dist[i][j] /\ r.dist[i][j] <= t.dist[i][k] + t.dist[k][j]
    BY <1>4, <1>5
  <1>7. \A u \in Wires(N) : r.dist[u][u] = 0
    BY <1>1, <1>4, <1>5 DEF Routed
  <1>8. ASSUME NEW u \in Wires(N), NEW v \in Wires(N), u # v, r.dist[u][v] < Infinite
        PROVE  {u, r.next[u][v]} \in adj /\ r.dist[r.next[u][v]][v] + 1 <= r.dist[u][v]
    <2>1. CASE t.dist[u][k] + t.dist[k][v] < t.dist[u][v]
      <3>1. r.dist[u][v] = t.dist[u][k] + t.dist[k][v] /\ r.next[u][v] = t.next[u][k]
        BY <1>5, <2>1
      <3>2. u # k
        BY <1>1, <1>4, <2>1 DEF Routed
      <3>3. t.dist[u][k] < Infinite
        BY <1>4, <1>8, <3>1 DEF Infinite
      <3>4. PICK x \in Wires(N) : x = t.next[u][k] /\ {u, x} \in adj /\ t.dist[x][k] + 1 <= t.dist[u][k]
        BY <1>1, <1>4, <3>2, <3>3 DEF Routed
      <3>5. r.dist[x][v] <= t.dist[x][k] + t.dist[k][v]
        BY <1>6
      <3> QED
        BY <1>4, <3>1, <3>4, <3>5
    <2>2. CASE ~(t.dist[u][k] + t.dist[k][v] < t.dist[u][v])
      <3>1. r.dist[u][v] = t.dist[u][v] /\ r.next[u][v] = t.next[u][v]
        BY <1>5, <2>2
      <3>2. PICK x \in Wires(N) : x = t.next[u][v] /\ {u, x} \in adj /\ t.dist[x][v] + 1 <= t.dist[u][v]
        BY <1>1, <1>4, <1>8, <3>1 DEF Routed
      <3> QED
        BY <1>4, <1>6, <3>1, <3>2
    <2> QED
      BY <2>1, <2>2
  <1> QED
    BY <1>2, <1>3, <1>7, <1>8 DEF Routes, Routed

(* The routes after each intermediate wire of Floyd-Warshall.               *)
LEMMA TopologyRuns ==
    ASSUME NEW N \in Nat, NEW adj
    PROVE  \E g \in [0 .. N -> Routes(N, adj)] :
             /\ g[0] = Edges(N, adj)
             /\ \A i \in 0 .. N - 1 : g[i + 1] = Through(g[i], i, N)
             /\ Topology(N, adj) = g[N]
  <1> DEFINE S == Routes(N, adj)
             First == 0
             Final == N
             Base == Edges(N, adj)
             Step(s, i) == Through(s, i, N)
             F == [i \in First .. Final - 1 |-> [s \in S |-> Step(s, i)]]
  <1>1. First \in Nat /\ Final \in Nat /\ First <= Final /\ Base \in S
    BY EdgesRoute
  <1>2. \A i \in First .. Final - 1, s \in S : Step(s, i) \in S
    BY ThroughRoutes DEF Wires
  <1>3. First .. Final - 1 = 0 .. N - 1
    BY <1>1
  <1> HIDE DEF S, Step, First, Final, Base
  <1>4. F \in [First .. Final - 1 -> [S -> S]] /\ \A i \in First .. Final - 1, s \in S : F[i][s] = Step(s, i)
    BY <1>2
  <1> HIDE DEF F
  <1>5. PICK f \in [First .. Final -> S] : Follows(f, Base, F, First, Final)
    BY <1>1, <1>4, Iterates
  <1>6. f = [i \in First .. Final |-> IF i = First THEN Base ELSE Step(f[i - 1], i - 1)]
    BY <1>1, <1>4, <1>5 DEF Follows
  <1>7. PICK g : /\ g = [i \in First .. Final |-> IF i = First THEN Base ELSE Step(g[i - 1], i - 1)]
                 /\ Topology(N, adj) = g[Final]
    BY <1>6 DEF Topology, Loop, First, Final, Base, Step
  <1>8. g[First] = Base /\ \A i \in First .. Final - 1 : g[i + 1] = Step(g[i], i)
    BY <1>1, <1>7
  <1>9. g = [i \in First .. Final |-> g[i]] /\ g[First] \in S
    BY <1>1, <1>7, <1>8
  <1>10. \A i \in First .. Final - 1 : g[i] \in S => g[i + 1] \in S
    BY <1>2, <1>8
  <1>11. g \in [First .. Final -> S]
    BY <1>1, <1>9, <1>10, Stays
  <1>12. g[First] = Base /\ (\A i \in 0 .. N - 1 : g[i + 1] = Step(g[i], i)) /\ Topology(N, adj) = g[Final]
    BY <1>3, <1>7, <1>8
  <1> QED
    BY <1>11, <1>12 DEF S, First, Final, Base, Step

(* A route starts as the walk of its first wire alone.                      *)
LEMMA WalkStarts ==
    ASSUME NEW N \in Nat, NEW adj, NEW t \in Routes(N, adj), NEW u \in Wires(N), NEW v \in Wires(N), Connected(t, u, v)
    PROVE  t.dist[u][v] \in Nat /\ 0 <= t.dist[u][v] /\ 0 \in Nat /\ <<u>> \in WalksTo(t, N, adj, v)
  <1>1. t.dist[u][v] \in Nat
    BY DEF Routes, Tables
  <1>2. <<u>> \in Seq(Wires(N)) /\ Len(<<u>>) = 1 /\ (<<u>>)[1] = u
    OBVIOUS
  <1>3. <<u>> \in Walks(N, adj)
    BY <1>2 DEF Walks
  <1> QED
    BY <1>1, <1>2, <1>3 DEF WalksTo

(* A hop lengthens the walk along an edge until it is at its end, and keeps it from there on. *)
LEMMA HopWalks ==
    ASSUME NEW N \in Nat, NEW adj, NEW t \in Routes(N, adj), NEW v \in Wires(N), NEW p \in WalksTo(t, N, adj, v)
    PROVE  /\ Hop(t, p, v) \in WalksTo(t, N, adj, v)
           /\ p[Len(p)] = v => Hop(t, p, v) = p
           /\ p[Len(p)] # v => Len(Hop(t, p, v)) = Len(p) + 1
  <1> DEFINE x == p[Len(p)]
             y == t.next[x][v]
  <1>1. p \in Seq(Wires(N)) /\ Len(p) \in Nat /\ Len(p) >= 1 /\ Last(p) = x /\ x \in Wires(N)
    BY DEF WalksTo, Walks, Last
  <1>2. CASE x = v
    BY <1>1, <1>2 DEF Hop
  <1>3. CASE x # v
    <2>1. Connected(t, x, v)
      BY DEF WalksTo
    <2>2. t \in Tables(N) /\ Routed(t, N, adj)
      BY DEF Routes
    <2>3. y \in Wires(N) /\ t.dist[y][v] \in Nat /\ t.dist[x][v] \in Nat
      BY <1>1, <2>2 DEF Tables
    <2>4. {x, y} \in adj /\ t.dist[y][v] + 1 <= t.dist[x][v]
      BY <1>1, <1>3, <2>1, <2>2 DEF Routed, Connected
    <2>5. Hop(t, p, v) = Append(p, y)
      BY <1>1, <1>3 DEF Hop
    <2> HIDE DEF y
    <2>6. Append(p, y) \in Seq(Wires(N)) /\ Len(Append(p, y)) = Len(p) + 1 /\ Append(p, y)[Len(p) + 1] = y
          /\ \A i \in 1 .. Len(p) : Append(p, y)[i] = p[i]
      BY <1>1, <2>3
    <2>7. Connected(t, y, v)
      BY <2>1, <2>3, <2>4 DEF Connected, Infinite
    <2>8. Append(p, y) \in Walks(N, adj)
      <3>1. ASSUME NEW i \in 1 .. Len(p) PROVE {Append(p, y)[i], Append(p, y)[i + 1]} \in adj
        <4>1. CASE i = Len(p)
          BY <2>4, <2>6, <4>1
        <4>2. CASE i # Len(p)
          <5>1. i \in 1 .. Len(p) - 1 /\ i + 1 \in 1 .. Len(p)
            BY <1>1, <4>2
          <5>2. {p[i], p[i + 1]} \in adj
            BY <5>1 DEF WalksTo, Walks
          <5> QED
            BY <2>6, <5>1, <5>2
        <4> QED
          BY <4>1, <4>2
      <3>2. PICK q \in Seq(Wires(N)) : q = Append(p, y)
        BY <2>6
      <3>3. Len(q) = Len(p) + 1 /\ \A i \in 1 .. Len(p) : {q[i], q[i + 1]} \in adj
        BY <2>6, <3>1, <3>2
      <3>4. Len(q) >= 1 /\ Len(q) - 1 = Len(p)
        BY <1>1, <3>3
      <3>5. q \in Walks(N, adj)
        BY <3>3, <3>4 DEF Walks
      <3> QED
        BY <3>2, <3>5
    <2> QED
      BY <1>3, <2>5, <2>6, <2>7, <2>8 DEF WalksTo
  <1> QED
    BY <1>2, <1>3

(* The walks of a route that has not ended.                                 *)
LEMMA RouteRuns ==
    ASSUME NEW N \in Nat, NEW adj, NEW t \in Routes(N, adj), NEW u \in Wires(N), NEW v \in Wires(N), Connected(t, u, v)
    PROVE  \E g \in [0 .. t.dist[u][v] -> WalksTo(t, N, adj, v)] :
             /\ g[0] = <<u>>
             /\ \A i \in 0 .. t.dist[u][v] - 1 : g[i + 1] = Hop(t, g[i], v)
             /\ Route(t, u, v) = g[t.dist[u][v]]
  <1> DEFINE S == WalksTo(t, N, adj, v)
             First == 0
             Final == t.dist[u][v]
             Base == <<u>>
             Step(s, i) == Hop(t, s, v)
             F == [i \in First .. Final - 1 |-> [s \in S |-> Step(s, i)]]
  <1>1. First \in Nat /\ Final \in Nat /\ First <= Final /\ Base \in S
    BY WalkStarts
  <1>2. \A i \in First .. Final - 1, s \in S : Step(s, i) \in S
    BY HopWalks
  <1>3. First .. Final - 1 = 0 .. t.dist[u][v] - 1
    BY <1>1
  <1> HIDE DEF S, Step, First, Final, Base
  <1>4. F \in [First .. Final - 1 -> [S -> S]] /\ \A i \in First .. Final - 1, s \in S : F[i][s] = Step(s, i)
    BY <1>2
  <1> HIDE DEF F
  <1>5. PICK f \in [First .. Final -> S] : Follows(f, Base, F, First, Final)
    BY <1>1, <1>4, Iterates
  <1>6. f = [i \in First .. Final |-> IF i = First THEN Base ELSE Step(f[i - 1], i - 1)]
    BY <1>1, <1>4, <1>5 DEF Follows
  <1>7. PICK g : /\ g = [i \in First .. Final |-> IF i = First THEN Base ELSE Step(g[i - 1], i - 1)]
                 /\ Route(t, u, v) = g[Final]
    BY <1>6 DEF Route, Loop, First, Final, Base, Step
  <1>8. g[First] = Base /\ \A i \in First .. Final - 1 : g[i + 1] = Step(g[i], i)
    BY <1>1, <1>7
  <1>9. g = [i \in First .. Final |-> g[i]] /\ g[First] \in S
    BY <1>1, <1>7, <1>8
  <1>10. \A i \in First .. Final - 1 : g[i] \in S => g[i + 1] \in S
    BY <1>2, <1>8
  <1>11. g \in [First .. Final -> S]
    BY <1>1, <1>9, <1>10, Stays
  <1>12. g[First] = Base /\ (\A i \in 0 .. t.dist[u][v] - 1 : g[i + 1] = Step(g[i], i)) /\ Route(t, u, v) = g[Final]
    BY <1>3, <1>7, <1>8
  <1> QED
    BY <1>11, <1>12 DEF S, First, Final, Base, Step

(* Topology::path goes from neighbour to neighbour, and between different   *)
(* wires it takes at least one step.                                        *)
LEMMA RouteWalks ==
    ASSUME NEW N \in Nat, NEW adj, NEW t \in Routes(N, adj), NEW u \in Wires(N), NEW v \in Wires(N), Connected(t, u, v)
    PROVE  Route(t, u, v) \in Walks(N, adj) /\ (u # v => Len(Route(t, u, v)) >= 2)
  <1> DEFINE d == t.dist[u][v]
  <1>1. d \in Nat
    BY WalkStarts
  <1>2. PICK g \in [0 .. d -> WalksTo(t, N, adj, v)] :
          g[0] = <<u>> /\ (\A i \in 0 .. d - 1 : g[i + 1] = Hop(t, g[i], v)) /\ Route(t, u, v) = g[d]
    BY RouteRuns
  <1> HIDE DEF d
  <1>3. \A i \in 0 .. d : g[i] \in WalksTo(t, N, adj, v) /\ Len(g[i]) \in Nat
    BY <1>2 DEF WalksTo, Walks
  <1>4. ASSUME u # v PROVE Len(g[d]) >= 2
    <2>1. d >= 1
      <3>1. Routed(t, N, adj) /\ t \in Tables(N)
        BY DEF Routes
      <3>2. t.next[u][v] \in Wires(N) /\ t.dist[t.next[u][v]][v] \in Nat
        BY <3>1 DEF Tables
      <3>3. t.dist[t.next[u][v]][v] + 1 <= d
        BY <1>4, <3>1 DEF Routed, Connected, d
      <3> QED
        BY <1>1, <3>2, <3>3
    <2> DEFINE P == {i \in 1 .. d : Len(g[i]) >= 2}
    <2>2. 1 \in P
      <3>1. 0 \in 0 .. d - 1 /\ 0 \in 0 .. d
        BY <1>1, <2>1
      <3>2. g[0] \in WalksTo(t, N, adj, v) /\ g[0 + 1] = Hop(t, g[0], v) /\ 0 + 1 = 1
        BY <1>2, <1>3, <3>1
      <3>3. Len(g[0]) = 1 /\ g[0][1] = u
        BY <1>2
      <3>5. g[0][Len(g[0])] # v
        BY <1>4, <3>3
      <3>4. Len(g[1]) = Len(g[0]) + 1
        BY <3>2, <3>5, HopWalks
      <3>6. Len(g[1]) = 2
        BY <3>3, <3>4
      <3> QED
        BY <1>1, <2>1, <3>6
    <2>3. ASSUME NEW i \in 1 .. d - 1, i \in P PROVE i + 1 \in P
      <3>1. g[i + 1] = Hop(t, g[i], v) /\ i \in 0 .. d /\ Len(g[i]) >= 2
        BY <1>1, <1>2, <2>3
      <3>2. g[i + 1] = g[i] \/ Len(g[i + 1]) = Len(g[i]) + 1
        BY <1>3, <3>1, HopWalks
      <3>3. Len(g[i + 1]) >= 2
        BY <1>3, <3>1, <3>2
      <3> QED
        BY <1>1, <3>3
    <2> HIDE DEF P
    <2>4. \A i \in 1 .. d - 1 : i \in P => i + 1 \in P
      BY <2>3
    <2>5. d \in P
      BY <1>1, <2>1, <2>2, <2>4, ClimbsTo
    <2> QED
      BY <2>5 DEF P
  <1> QED
    BY <1>1, <1>2, <1>3, <1>4 DEF WalksTo

(* Two neighbours of a walk are joined, so their swap is CNOTs between joined wires. *)
LEMMA SwapJoined ==
    ASSUME NEW N \in Nat, NEW adj, NEW p \in Walks(N, adj), NEW i \in 1 .. Len(p) - 1
    PROVE  /\ <<p[i], p[i + 1]>> \in Joined(N, adj)
           /\ Swap(p, i) \in Seq(Joined(N, adj))
  <1>1. p \in Seq(Wires(N)) /\ i \in 1 .. Len(p) /\ i + 1 \in 1 .. Len(p) /\ {p[i], p[i + 1]} \in adj
    BY DEF Walks
  <1>2. p[i] \in Wires(N) /\ p[i + 1] \in Wires(N)
    BY <1>1
  <1>3. {p[i], p[i + 1]} = {p[i + 1], p[i]}
    OBVIOUS
  <1>4. <<p[i], p[i + 1]>> \in Joined(N, adj) /\ <<p[i + 1], p[i]>> \in Joined(N, adj)
    BY <1>1, <1>2, <1>3 DEF Joined
  <1>5. Swap(p, i) \in Seq(Joined(N, adj))
    BY <1>4 DEF Swap
  <1> QED
    BY <1>4, <1>5

(* The gates of the swaps along a walk.                                     *)
LEMMA SwapsRuns ==
    ASSUME NEW N \in Nat, NEW adj, NEW p \in Walks(N, adj), Len(p) >= 2
    PROVE  \E g \in [1 .. Len(p) - 1 -> Seq(Joined(N, adj))] :
             /\ g[1] = << >>
             /\ \A i \in 1 .. Len(p) - 1 - 1 : g[i + 1] = g[i] \o Swap(p, i)
             /\ Swaps(p) = g[Len(p) - 1]
  <1> DEFINE S == Seq(Joined(N, adj))
             First == 1
             Final == Len(p) - 1
             Base == << >>
             Step(s, i) == s \o Swap(p, i)
             F == [i \in First .. Final - 1 |-> [s \in S |-> Step(s, i)]]
  <1>1. First \in Nat /\ Final \in Nat /\ First <= Final /\ Base \in S
    BY DEF Walks
  <1>2. \A i \in First .. Final - 1, s \in S : Step(s, i) \in S
    <2>1. \A i \in First .. Final - 1 : Swap(p, i) \in S
      <3>1. Len(p) \in Nat
        BY DEF Walks
      <3>2. \A i \in First .. Final - 1 : i \in 1 .. Len(p) - 1
        BY <3>1
      <3> QED
        BY <3>2, SwapJoined
    <2>2. ASSUME NEW i \in First .. Final - 1, NEW s \in S PROVE s \o Swap(p, i) \in S
      BY <2>1
    <2> QED
      BY <2>2
  <1>3. First .. Final - 1 = 1 .. Len(p) - 1 - 1
    BY <1>1
  <1> HIDE DEF S, Step, First, Final, Base
  <1>4. F \in [First .. Final - 1 -> [S -> S]] /\ \A i \in First .. Final - 1, s \in S : F[i][s] = Step(s, i)
    BY <1>2
  <1> HIDE DEF F
  <1>5. PICK f \in [First .. Final -> S] : Follows(f, Base, F, First, Final)
    BY <1>1, <1>4, Iterates
  <1>6. f = [i \in First .. Final |-> IF i = First THEN Base ELSE Step(f[i - 1], i - 1)]
    BY <1>1, <1>4, <1>5 DEF Follows
  <1>7. PICK g : /\ g = [i \in First .. Final |-> IF i = First THEN Base ELSE Step(g[i - 1], i - 1)]
                 /\ Swaps(p) = g[Final]
    BY <1>6 DEF Swaps, Loop, First, Final, Base, Step
  <1>8. g[First] = Base /\ \A i \in First .. Final - 1 : g[i + 1] = Step(g[i], i)
    BY <1>1, <1>7
  <1>9. g = [i \in First .. Final |-> g[i]] /\ g[First] \in S
    BY <1>1, <1>7, <1>8
  <1>10. \A i \in First .. Final - 1 : g[i] \in S => g[i + 1] \in S
    BY <1>2, <1>8
  <1>11. g \in [First .. Final -> S]
    BY <1>1, <1>9, <1>10, Stays
  <1>12. g[First] = Base /\ (\A i \in 1 .. Len(p) - 1 - 1 : g[i + 1] = Step(g[i], i)) /\ Swaps(p) = g[Final]
    BY <1>3, <1>7, <1>8
  <1> QED
    BY <1>11, <1>12 DEF S, First, Final, Base, Step

(* apply_remote_cnot makes CNOTs of neighbours only.                        *)
LEMMA RemoteJoined ==
    ASSUME NEW N \in Nat, NEW adj, NEW t \in Routes(N, adj), NEW g \in Gates(N)
    PROVE  RemoteCnot(t, g) \in Seq(Joined(N, adj))
  <1>1. g[1] \in Wires(N) /\ g[2] \in Wires(N) /\ g[1] # g[2]
    BY DEF Gates
  <1>2. CASE ~Connected(t, g[1], g[2])
    BY <1>2 DEF RemoteCnot
  <1>3. CASE Connected(t, g[1], g[2])
    <2>1. PICK p \in Walks(N, adj) : p = Route(t, g[1], g[2]) /\ Len(p) >= 2
      BY <1>1, <1>3, RouteWalks
    <2>2. Swaps(p) \in Seq(Joined(N, adj))
      <3>1. PICK f \in [1 .. Len(p) - 1 -> Seq(Joined(N, adj))] : Swaps(p) = f[Len(p) - 1]
        BY <2>1, SwapsRuns
      <3>2. Len(p) \in Nat
        BY <2>1 DEF Walks
      <3>3. Len(p) - 1 \in 1 .. Len(p) - 1
        BY <2>1, <3>2
      <3> QED
        BY <3>1, <3>3
    <2>3. << <<p[Len(p) - 1], p[Len(p)]>> >> \in Seq(Joined(N, adj))
      <3>1. Len(p) \in Nat
        BY <2>1 DEF Walks
      <3>2. Len(p) - 1 \in 1 .. Len(p) - 1 /\ (Len(p) - 1) + 1 = Len(p)
        BY <2>1, <3>1
      <3>3. <<p[Len(p) - 1], p[Len(p)]>> \in Joined(N, adj)
        BY <3>2, SwapJoined
      <3> QED
        BY <3>3
    <2>4. Reverse(Swaps(p)) \in Seq(Joined(N, adj))
      BY <2>2 DEF Reverse
    <2>5. RemoteCnot(t, g) = Swaps(p) \o << <<p[Len(p) - 1], p[Len(p)]>> >> \o Reverse(Swaps(p))
      BY <1>3, <2>1 DEF RemoteCnot
    <2> QED
      BY <2>2, <2>3, <2>4, <2>5
  <1> QED
    BY <1>2, <1>3

(* The gates of the CNOTs that are routed.                                  *)
LEMMA RouteAllRuns ==
    ASSUME NEW N \in Nat, NEW adj, NEW t \in Routes(N, adj), NEW cnots \in Seq(Gates(N))
    PROVE  \E g \in [1 .. Len(cnots) + 1 -> Seq(Joined(N, adj))] :
             /\ g[1] = << >>
             /\ \A i \in 1 .. Len(cnots) : g[i + 1] = g[i] \o RemoteCnot(t, cnots[i])
             /\ RouteAll(t, cnots) = g[Len(cnots) + 1]
  <1> DEFINE S == Seq(Joined(N, adj))
             First == 1
             Final == Len(cnots) + 1
             Base == << >>
             Step(s, i) == s \o RemoteCnot(t, cnots[i])
             F == [i \in First .. Final - 1 |-> [s \in S |-> Step(s, i)]]
  <1>1. First \in Nat /\ Final \in Nat /\ First <= Final /\ Base \in S
    OBVIOUS
  <1>2. \A i \in First .. Final - 1, s \in S : Step(s, i) \in S
    BY GateOf, RemoteJoined
  <1>3. First .. Final - 1 = 1 .. Len(cnots)
    BY <1>1
  <1> HIDE DEF S, Step, First, Final, Base
  <1>4. F \in [First .. Final - 1 -> [S -> S]] /\ \A i \in First .. Final - 1, s \in S : F[i][s] = Step(s, i)
    BY <1>2
  <1> HIDE DEF F
  <1>5. PICK f \in [First .. Final -> S] : Follows(f, Base, F, First, Final)
    BY <1>1, <1>4, Iterates
  <1>6. f = [i \in First .. Final |-> IF i = First THEN Base ELSE Step(f[i - 1], i - 1)]
    BY <1>1, <1>4, <1>5 DEF Follows
  <1>7. PICK g : /\ g = [i \in First .. Final |-> IF i = First THEN Base ELSE Step(g[i - 1], i - 1)]
                 /\ RouteAll(t, cnots) = g[Final]
    BY <1>6 DEF RouteAll, Loop, First, Final, Base, Step
  <1>8. g[First] = Base /\ \A i \in First .. Final - 1 : g[i + 1] = Step(g[i], i)
    BY <1>1, <1>7
  <1>9. g = [i \in First .. Final |-> g[i]] /\ g[First] \in S
    BY <1>1, <1>7, <1>8
  <1>10. \A i \in First .. Final - 1 : g[i] \in S => g[i + 1] \in S
    BY <1>2, <1>8
  <1>11. g \in [First .. Final -> S]
    BY <1>1, <1>9, <1>10, Stays
  <1>12. g[First] = Base /\ (\A i \in 1 .. Len(cnots) : g[i + 1] = Step(g[i], i)) /\ RouteAll(t, cnots) = g[Final]
    BY <1>3, <1>7, <1>8
  <1> QED
    BY <1>11, <1>12 DEF S, First, Final, Base, Step

(* Routed CNOTs join neighbours of the topology, whatever the CNOTs were.   *)
LEMMA RouteAllJoined ==
    ASSUME NEW N \in Nat, NEW adj, NEW t \in Routes(N, adj), NEW cnots \in Seq(Gates(N))
    PROVE  RouteAll(t, cnots) \in Seq(Joined(N, adj))
  <1>1. \E g \in [1 .. Len(cnots) + 1 -> Seq(Joined(N, adj))] :
          /\ g[1] = << >>
          /\ \A i \in 1 .. Len(cnots) : g[i + 1] = g[i] \o RemoteCnot(t, cnots[i])
          /\ RouteAll(t, cnots) = g[Len(cnots) + 1]
    BY RouteAllRuns, ZenonT(30)
  <1>2. Len(cnots) + 1 \in 1 .. Len(cnots) + 1
    OBVIOUS
  <1> QED
    BY <1>1, <1>2

(* The wires and all sets of wires are finite.                              *)
LEMMA WiresFinite ==
    ASSUME NEW N \in Nat
    PROVE  /\ IsFiniteSet(Wires(N)) /\ Cardinality(Wires(N)) = N
           /\ \A T \in SUBSET Wires(N) : IsFiniteSet(T) /\ T \in SUBSET Nat
  <1>1. IsFiniteSet(0 .. N - 1) /\ Cardinality(0 .. N - 1) = N
    BY FS_Interval
  <1>2. \A T \in SUBSET Wires(N) : IsFiniteSet(T)
    BY <1>1, FS_Subset DEF Wires
  <1> QED
    BY <1>1, <1>2 DEF Wires

(* A set of wires that is not empty has a least one.                        *)
LEMMA LeastWire ==
    ASSUME NEW N \in Nat, NEW T \in SUBSET Wires(N), T # {}
    PROVE  LeastOf(T) \in T /\ LeastOf(T) \in Wires(N) /\ \A k \in T : LeastOf(T) <= k
  <1>1. T \in SUBSET Nat
    BY DEF Wires
  <1> QED
    BY <1>1, LeastOfIs

(* Gauss-Jordan clears a row by a row operation, or leaves it.              *)
LEMMA GeClearTyped ==
    ASSUME NEW N \in Nat, NEW acc \in Elim(N), NEW c \in Wires(N), NEW r \in Wires(N)
    PROVE  GeClear(acc, c, r) \in Elim(N)
  <1>1. acc.m \in Mat(N) /\ acc.ops \in Seq(Gates(N))
    BY DEF Elim
  <1>2. CASE r # c /\ c \in acc.m[r]
    <2>1. <<c, r>> \in Gates(N)
      BY <1>2 DEF Gates
    <2>2. AddRow(acc.m, c, r) \in Mat(N)
      BY <1>1, AddRowTyped
    <2>3. Push(acc.ops, <<c, r>>) \in Seq(Gates(N))
      BY <1>1, <2>1, PushTyped
    <2> QED
      BY <1>2, <2>2, <2>3 DEF GeClear, Elim
  <1>3. CASE ~(r # c /\ c \in acc.m[r])
    BY <1>3 DEF GeClear
  <1> QED
    BY <1>2, <1>3

(* The eliminations after each row that a pivot clears.                     *)
LEMMA GeRestRuns ==
    ASSUME NEW N \in Nat, NEW acc \in Elim(N), NEW c \in Wires(N)
    PROVE  \E g \in [0 .. N -> Elim(N)] :
             /\ g[0] = acc
             /\ \A i \in 0 .. N - 1 : g[i + 1] = GeClear(g[i], c, i)
             /\ GeRest(acc, N, c) = g[N]
  <1> DEFINE S == Elim(N)
             First == 0
             Final == N
             Base == acc
             Step(s, i) == GeClear(s, c, i)
             F == [i \in First .. Final - 1 |-> [s \in S |-> Step(s, i)]]
  <1>1. First \in Nat /\ Final \in Nat /\ First <= Final /\ Base \in S
    OBVIOUS
  <1>2. \A i \in First .. Final - 1, s \in S : Step(s, i) \in S
    BY GeClearTyped DEF Wires
  <1>3. First .. Final - 1 = 0 .. N - 1
    BY <1>1
  <1> HIDE DEF S, Step, First, Final, Base
  <1>4. F \in [First .. Final - 1 -> [S -> S]] /\ \A i \in First .. Final - 1, s \in S : F[i][s] = Step(s, i)
    BY <1>2
  <1> HIDE DEF F
  <1>5. PICK f \in [First .. Final -> S] : Follows(f, Base, F, First, Final)
    BY <1>1, <1>4, Iterates
  <1>6. f = [i \in First .. Final |-> IF i = First THEN Base ELSE Step(f[i - 1], i - 1)]
    BY <1>1, <1>4, <1>5 DEF Follows
  <1>7. PICK g : /\ g = [i \in First .. Final |-> IF i = First THEN Base ELSE Step(g[i - 1], i - 1)]
                 /\ GeRest(acc, N, c) = g[Final]
    BY <1>6 DEF GeRest, Loop, First, Final, Base, Step
  <1>8. g[First] = Base /\ \A i \in First .. Final - 1 : g[i + 1] = Step(g[i], i)
    BY <1>1, <1>7
  <1>9. g = [i \in First .. Final |-> g[i]] /\ g[First] \in S
    BY <1>1, <1>7, <1>8
  <1>10. \A i \in First .. Final - 1 : g[i] \in S => g[i + 1] \in S
    BY <1>2, <1>8
  <1>11. g \in [First .. Final -> S]
    BY <1>1, <1>9, <1>10, Stays
  <1>12. g[First] = Base /\ (\A i \in 0 .. N - 1 : g[i + 1] = Step(g[i], i)) /\ GeRest(acc, N, c) = g[Final]
    BY <1>3, <1>7, <1>8
  <1> QED
    BY <1>11, <1>12 DEF S, First, Final, Base, Step

(* Gauss-Jordan swaps two rows by CNOTs.                                    *)
LEMMA GeSwapTyped ==
    ASSUME NEW N \in Nat, NEW acc \in Elim(N), NEW c \in Wires(N), NEW p \in Wires(N)
    PROVE  GeSwap(acc, c, p) \in Elim(N)
  <1>1. acc.m \in Mat(N) /\ acc.ops \in Seq(Gates(N))
    BY DEF Elim
  <1>2. CASE p # c
    <2>1. <<p, c>> \in Gates(N) /\ <<c, p>> \in Gates(N)
      BY <1>2 DEF Gates
    <2>2. Push(Push(Push(acc.ops, <<p, c>>), <<c, p>>), <<p, c>>) \in Seq(Gates(N))
      BY <1>1, <2>1, PushTyped
    <2>3. [acc.m EXCEPT ![c] = acc.m[p], ![p] = acc.m[c]] \in Mat(N)
      BY <1>1 DEF Mat
    <2> QED
      BY <1>2, <2>2, <2>3, StrictSame DEF GeSwap, Elim
  <1>3. CASE p = c
    BY <1>3 DEF GeSwap
  <1> QED
    BY <1>2, <1>3

(* One column of Gauss-Jordan keeps a matrix and a list of CNOTs.           *)
LEMMA GeColumnTyped ==
    ASSUME NEW N \in Nat, NEW acc \in Elim(N), NEW c \in Wires(N)
    PROVE  GeColumn(acc, N, c) \in Elim(N)
  <1> DEFINE below == {r \in c .. N - 1 : c \in acc.m[r]}
             above == {r \in 0 .. c - 1 : c \in acc.m[r]}
             rows == IF below # {} THEN below ELSE above
  <1>1. below \in SUBSET Wires(N) /\ above \in SUBSET Wires(N)
    BY DEF Wires
  <1> HIDE DEF below, above
  <1>2. CASE below \cup above = {}
    BY <1>2 DEF GeColumn, below, above
  <1>3. CASE below \cup above # {}
    <2>1. LeastOf(rows) \in Wires(N)
      BY <1>1, <1>3, LeastWire
    <2>2. GeSwap(acc, c, LeastOf(rows)) \in Elim(N)
      BY <2>1, GeSwapTyped
    <2>3. \A a \in Elim(N) : GeRest(a, N, c) \in Elim(N)
      BY GeRestRuns
    <2>4. GeColumn(acc, N, c) = GeRest(GeSwap(acc, c, LeastOf(rows)), N, c)
      BY <1>3 DEF GeColumn, below, above
    <2> QED
      BY <2>2, <2>3, <2>4
  <1> QED
    BY <1>2, <1>3

(* The eliminations after each column of the fallback.                      *)
LEMMA GaussJordanRuns ==
    ASSUME NEW N \in Nat, NEW m \in Mat(N)
    PROVE  \E g \in [0 .. N -> Elim(N)] :
             /\ g[0] = [m |-> m, ops |-> << >>]
             /\ \A i \in 0 .. N - 1 : g[i + 1] = GeColumn(g[i], N, i)
             /\ GeAll(m, N) = g[N]
  <1> DEFINE S == Elim(N)
             First == 0
             Final == N
             Base == [m |-> m, ops |-> << >>]
             Step(s, i) == GeColumn(s, N, i)
             F == [i \in First .. Final - 1 |-> [s \in S |-> Step(s, i)]]
  <1>1. First \in Nat /\ Final \in Nat /\ First <= Final /\ Base \in S
    BY DEF Elim
  <1>2. \A i \in First .. Final - 1, s \in S : Step(s, i) \in S
    BY GeColumnTyped DEF Wires
  <1>3. First .. Final - 1 = 0 .. N - 1
    BY <1>1
  <1> HIDE DEF S, Step, First, Final, Base
  <1>4. F \in [First .. Final - 1 -> [S -> S]] /\ \A i \in First .. Final - 1, s \in S : F[i][s] = Step(s, i)
    BY <1>2
  <1> HIDE DEF F
  <1>5. PICK f \in [First .. Final -> S] : Follows(f, Base, F, First, Final)
    BY <1>1, <1>4, Iterates
  <1>6. f = [i \in First .. Final |-> IF i = First THEN Base ELSE Step(f[i - 1], i - 1)]
    BY <1>1, <1>4, <1>5 DEF Follows
  <1>7. PICK g : /\ g = [i \in First .. Final |-> IF i = First THEN Base ELSE Step(g[i - 1], i - 1)]
                 /\ GeAll(m, N) = g[Final]
    BY <1>6 DEF GeAll, Loop, First, Final, Base, Step
  <1>8. g[First] = Base /\ \A i \in First .. Final - 1 : g[i + 1] = Step(g[i], i)
    BY <1>1, <1>7
  <1>9. g = [i \in First .. Final |-> g[i]] /\ g[First] \in S
    BY <1>1, <1>7, <1>8
  <1>10. \A i \in First .. Final - 1 : g[i] \in S => g[i + 1] \in S
    BY <1>2, <1>8
  <1>11. g \in [First .. Final -> S]
    BY <1>1, <1>9, <1>10, Stays
  <1>12. g[First] = Base /\ (\A i \in 0 .. N - 1 : g[i + 1] = Step(g[i], i)) /\ GeAll(m, N) = g[Final]
    BY <1>3, <1>7, <1>8
  <1> QED
    BY <1>11, <1>12 DEF S, First, Final, Base, Step

(* The fallback returns CNOTs between two different wires.                  *)
LEMMA GaussJordanTyped ==
    ASSUME NEW N \in Nat, NEW m \in Mat(N)
    PROVE  GaussJordan(m, N) \in Seq(Gates(N))
  <1>1. GeAll(m, N) \in Elim(N)
    <2>1. PICK g \in [0 .. N -> Elim(N)] : GeAll(m, N) = g[N]
      <3> HIDE DEF Elim
      <3> QED
        BY GaussJordanRuns, Zenon
    <2>2. N \in 0 .. N
      OBVIOUS
    <2> QED
      BY <2>1, <2>2
  <1>2. GeAll(m, N).ops \in Seq(Gates(N))
    BY <1>1 DEF Elim
  <1> QED
    BY <1>2 DEF GaussJordan, Reverse

(* The transpose of a matrix, by its entries.                               *)
LEMMA TransposeTyped ==
    ASSUME NEW N \in Nat, NEW m \in Mat(N)
    PROVE  /\ Transpose(m) \in Mat(N)
           /\ \A i, j \in Wires(N) : i \in Transpose(m)[j] <=> j \in m[i]
  BY StrictSame DEF Transpose, Mat

(* Two lists of CNOTs are stitched to a list of CNOTs.                      *)
LEMMA StitchTyped ==
    ASSUME NEW N \in Nat, NEW lower \in Seq(Gates(N)), NEW upper \in Seq(Gates(N))
    PROVE  Stitch(lower, upper) \in Seq(Gates(N))
  <1>1. Turned(upper) \in Seq(Gates(N))
    <2>1. \A i \in 1 .. Len(upper) : <<upper[i][2], upper[i][1]>> \in Gates(N)
      <3>1. \A g \in Gates(N) : <<g[2], g[1]>> \in Gates(N)
        BY DEF Gates
      <3>2. \A i \in 1 .. Len(upper) : upper[i] \in Gates(N)
        OBVIOUS
      <3> QED
        BY <3>1, <3>2
    <2> QED
      BY <2>1 DEF Turned
  <1>2. Reverse(lower) \in Seq(Gates(N))
    BY DEF Reverse
  <1>3. Turned(upper) \o Reverse(lower) \in Seq(Gates(N))
    BY <1>1, <1>2
  <1>4. \A s \in Seq(Gates(N)) : Cancelled(s) \in Seq(Gates(N))
    <2> SUFFICES ASSUME NEW s \in Seq(Gates(N)) PROVE Cancelled(s) \in Seq(Gates(N))
      OBVIOUS
    <2>1. PICK g \in [1 .. Len(s) + 1 -> Seq(Gates(N))] : Cancelled(s) = g[Len(s) + 1]
      BY CancelledRuns
    <2> QED
      BY <2>1
  <1> QED
    BY <1>3, <1>4 DEF Stitch

(* The identity has one wire in each row.                                   *)
LEMMA IdentityTyped ==
    ASSUME NEW N \in Nat
    PROVE  IdentityMap(N) \in Mat(N) /\ \A q \in Wires(N) : IdentityMap(N)[q] = {q}
  BY StrictSame DEF IdentityMap, Mat

(* The solver of the residual starts with the rows themselves and nothing used. *)
LEMMA SolveStarts ==
    ASSUME NEW N \in Nat, NEW m \in Mat(N), NEW parity \in SUBSET Wires(N)
    PROVE  /\ [m |-> m, of |-> IdentityMap(N), used |-> {}, rhs |-> parity, combo |-> {}] \in Solver(N)
           /\ 0 \in Nat /\ 0 <= N
  BY IdentityTyped DEF Solver

(* What gray_solve makes of one bit.                                        *)
LEMMA SolveBitIs ==
    ASSUME NEW N \in Nat, NEW a \in Solver(N), NEW bit \in Wires(N), Free(a, bit) # {}
    PROVE  \E p \in Free(a, bit), z \in Solver(N) :
             /\ z = SolveBit(a, bit)
             /\ p \in Wires(N) /\ p \notin a.used /\ bit \in a.m[p]
             /\ \A i \in Wires(N) :
                  /\ z.m[i] = IF i \in Free(a, bit) \ {p} THEN SymDiff(a.m[i], a.m[p]) ELSE a.m[i]
                  /\ z.of[i] = IF i \in Free(a, bit) \ {p} THEN SymDiff(a.of[i], a.of[p]) ELSE a.of[i]
             /\ z.used = a.used \cup {p}
             /\ z.rhs = IF bit \in a.rhs THEN SymDiff(a.rhs, a.m[p]) ELSE a.rhs
             /\ z.combo = IF bit \in a.rhs THEN SymDiff(a.combo, a.of[p]) ELSE a.combo
  <1>1. /\ a.m \in Mat(N) /\ a.of \in Mat(N) /\ a.used \in SUBSET Wires(N)
        /\ a.rhs \in SUBSET Wires(N) /\ a.combo \in SUBSET Wires(N)
    BY DEF Solver
  <1>2. DOMAIN a.m = Wires(N)
    BY <1>1 DEF Mat
  <1>3. Free(a, bit) \in SUBSET Wires(N)
    BY <1>2 DEF Free
  <1>4. PICK p \in Free(a, bit) : p = LeastOf(Free(a, bit)) /\ p \in Wires(N)
    BY <1>3, LeastWire
  <1> DEFINE hit == Free(a, bit) \ {p}
             mm == [i \in Wires(N) |-> IF i \in hit THEN SymDiff(a.m[i], a.m[p]) ELSE a.m[i]]
             oo == [i \in Wires(N) |-> IF i \in hit THEN SymDiff(a.of[i], a.of[p]) ELSE a.of[i]]
             rr == IF bit \in a.rhs THEN SymDiff(a.rhs, a.m[p]) ELSE a.rhs
             cc == IF bit \in a.rhs THEN SymDiff(a.combo, a.of[p]) ELSE a.combo
             z == [m |-> mm, of |-> oo, used |-> a.used \cup {p}, rhs |-> rr, combo |-> cc]
  <1>5. SolveBit(a, bit) = z
    BY <1>2, <1>4, StrictSame DEF SolveBit, Free
  <1>6. \A S, T \in SUBSET Wires(N) : SymDiff(S, T) \in SUBSET Wires(N)
    BY DEF SymDiff
  <1>7. \A i \in Wires(N) : a.m[i] \in SUBSET Wires(N) /\ a.of[i] \in SUBSET Wires(N)
    BY <1>1 DEF Mat
  <1>8. mm \in Mat(N) /\ oo \in Mat(N)
    BY <1>4, <1>6, <1>7 DEF Mat
  <1>9. rr \in SUBSET Wires(N) /\ cc \in SUBSET Wires(N)
    BY <1>1, <1>4, <1>6, <1>7
  <1>10. \A i \in Wires(N) :
           /\ mm[i] = IF i \in hit THEN SymDiff(a.m[i], a.m[p]) ELSE a.m[i]
           /\ oo[i] = IF i \in hit THEN SymDiff(a.of[i], a.of[p]) ELSE a.of[i]
    OBVIOUS
  <1> HIDE DEF mm, oo, rr, cc
  <1>11. z \in Solver(N)
    BY <1>1, <1>4, <1>8, <1>9 DEF Solver
  <1>12. z.m = mm /\ z.of = oo /\ z.used = a.used \cup {p} /\ z.rhs = rr /\ z.combo = cc
    OBVIOUS
  <1>13. p \notin a.used /\ bit \in a.m[p]
    BY DEF Free
  <1> HIDE DEF z
  <1> QED
    BY <1>4, <1>5, <1>10, <1>11, <1>12, <1>13 DEF rr, cc

(* One bit of the solver keeps its types.                                   *)
LEMMA SolveBitTyped ==
    ASSUME NEW N \in Nat, NEW a \in Solver(N), NEW bit \in Wires(N)
    PROVE  SolveBit(a, bit) \in Solver(N)
  <1>1. CASE Free(a, bit) = {}
    BY <1>1 DEF SolveBit, Free
  <1>2. CASE Free(a, bit) # {}
    <2>1. PICK z \in Solver(N) : z = SolveBit(a, bit)
      BY <1>2, SolveBitIs
    <2> QED
      BY <2>1
  <1> QED
    BY <1>1, <1>2

(* The rows after each bit of the solver.                                   *)
LEMMA SolveRuns ==
    ASSUME NEW N \in Nat, NEW m \in Mat(N), NEW parity \in SUBSET Wires(N)
    PROVE  \E g \in [0 .. N -> Solver(N)] :
             /\ g[0] = [m |-> m, of |-> IdentityMap(N), used |-> {}, rhs |-> parity, combo |-> {}]
             /\ \A i \in 0 .. N - 1 : g[i + 1] = SolveBit(g[i], i)
             /\ Solve(m, N, parity) = g[N]
  <1> DEFINE S == Solver(N)
             First == 0
             Final == N
             Base == [m |-> m, of |-> IdentityMap(N), used |-> {}, rhs |-> parity, combo |-> {}]
             Step(s, i) == SolveBit(s, i)
             F == [i \in First .. Final - 1 |-> [s \in S |-> Step(s, i)]]
  <1>1. First \in Nat /\ Final \in Nat /\ First <= Final /\ Base \in S
    BY SolveStarts
  <1>2. \A i \in First .. Final - 1, s \in S : Step(s, i) \in S
    BY SolveBitTyped DEF Wires
  <1>3. First .. Final - 1 = 0 .. N - 1
    BY <1>1
  <1> HIDE DEF S, Step, First, Final, Base
  <1>4. F \in [First .. Final - 1 -> [S -> S]] /\ \A i \in First .. Final - 1, s \in S : F[i][s] = Step(s, i)
    BY <1>2
  <1> HIDE DEF F
  <1>5. PICK f \in [First .. Final -> S] : Follows(f, Base, F, First, Final)
    BY <1>1, <1>4, Iterates
  <1>6. f = [i \in First .. Final |-> IF i = First THEN Base ELSE Step(f[i - 1], i - 1)]
    BY <1>1, <1>4, <1>5 DEF Follows
  <1>7. PICK g : /\ g = [i \in First .. Final |-> IF i = First THEN Base ELSE Step(g[i - 1], i - 1)]
                 /\ Solve(m, N, parity) = g[Final]
    BY <1>6 DEF Solve, Loop, First, Final, Base, Step
  <1>8. g[First] = Base /\ \A i \in First .. Final - 1 : g[i + 1] = Step(g[i], i)
    BY <1>1, <1>7
  <1>9. g = [i \in First .. Final |-> g[i]] /\ g[First] \in S
    BY <1>1, <1>7, <1>8
  <1>10. \A i \in First .. Final - 1 : g[i] \in S => g[i + 1] \in S
    BY <1>2, <1>8
  <1>11. g \in [First .. Final -> S]
    BY <1>1, <1>9, <1>10, Stays
  <1>12. g[First] = Base /\ (\A i \in 0 .. N - 1 : g[i + 1] = Step(g[i], i)) /\ Solve(m, N, parity) = g[Final]
    BY <1>3, <1>7, <1>8
  <1> QED
    BY <1>11, <1>12 DEF S, First, Final, Base, Step

(* Prim's algorithm starts at the first terminal, without edges.            *)
LEMMA TreeStarts ==
    ASSUME n \in Nat, NEW adj, NEW terminals \in SUBSET Wires(n), terminals # {}
    PROVE  /\ 1 \in Nat /\ Cardinality(terminals) \in Nat /\ 1 <= Cardinality(terminals)
           /\ [in |-> {LeastOf(terminals)}, edges |-> {}] \in Trees(adj)
  <1>1. IsFiniteSet(terminals)
    BY WiresFinite
  <1>2. Cardinality(terminals) \in Nat /\ Cardinality(terminals) # 0
    BY <1>1, FS_CardinalityType, FS_EmptySet
  <1>3. LeastOf(terminals) \in Wires(n)
    BY LeastWire
  <1> QED
    BY <1>2, <1>3 DEF Trees

(* There are two that are nearest.                                          *)
LEMMA PrimLeast ==
    ASSUME n \in Nat, NEW adj, NEW t \in Routes(n, adj), NEW pairs \in SUBSET (Wires(n) \X Wires(n)), pairs # {}
    PROVE  Nearest(t, pairs) \in pairs
  <1> DEFINE key(e) == (t.dist[e[1]][e[2]] * n + e[1]) * n + e[2]
  <1>1. \A e \in pairs : e[1] \in Wires(n) /\ e[2] \in Wires(n)
    OBVIOUS
  <1>2. \A u, v \in Wires(n) : t.dist[u][v] \in Nat
    BY DEF Routes, Tables
  <1>3. Wires(n) \subseteq Nat
    BY DEF Wires
  <1>4. \A k, l \in Nat : k * l \in Nat
    OBVIOUS
  <1>5. ASSUME NEW e \in pairs PROVE key(e) \in Nat
    <2>1. PICK d \in Nat, x \in Nat, y \in Nat : d = t.dist[e[1]][e[2]] /\ x = e[1] /\ y = e[2]
      BY <1>1, <1>2, <1>3
    <2>2. d * n \in Nat
      BY <1>4
    <2>3. d * n + x \in Nat
      BY <2>2
    <2>4. (d * n + x) * n \in Nat
      BY <1>4, <2>3
    <2>5. (d * n + x) * n + y \in Nat
      BY <2>4
    <2> QED
      BY <2>1, <2>5
  <1> HIDE DEF key
  <1>6. \E e \in pairs : \A d \in pairs : key(e) <= key(d)
    <2> DEFINE K == {key(e) : e \in pairs}
    <2>1. K \in SUBSET Nat /\ K # {}
      BY <1>5
    <2>2. PICK k \in K : \A l \in K : k <= l
      <3> HIDE DEF K
      <3> QED
        BY <2>1, LeastExists
    <2> QED
      BY <2>2
  <1>7. (CHOOSE e \in pairs : \A d \in pairs : key(e) <= key(d)) \in pairs
    BY <1>6
  <1> QED
    BY <1>7 DEF key, Nearest

(* Each edge of the tree is a route on the topology.                        *)
LEMMA PrimStepTyped ==
    ASSUME n \in Nat, NEW adj, NEW t \in Routes(n, adj), NEW terminals \in SUBSET Wires(n), NEW acc \in Trees(adj)
    PROVE  PrimStep(acc, terminals, t) \in Trees(adj)
  <1> DEFINE pairs == (acc.in \X (terminals \ acc.in))
             key(e) == (t.dist[e[1]][e[2]] * n + e[1]) * n + e[2]
             least == CHOOSE e \in pairs : \A d \in pairs : key(e) <= key(d)
             p == Route(t, least[1], least[2])
             added == {{p[i], p[i+1]} : i \in 1 .. Len(p) - 1}
  <1>1. acc.in \in SUBSET Wires(n) /\ acc.edges \in SUBSET {e \in adj : e \subseteq Wires(n)}
    BY DEF Trees
  <1>2. CASE pairs = {} \/ ~Connected(t, least[1], least[2])
    BY <1>2, Zenon DEF PrimStep
  <1>3. CASE pairs # {} /\ Connected(t, least[1], least[2])
    <2>1. \A e \in pairs : e[1] \in Wires(n) /\ e[2] \in Wires(n)
      BY <1>1
    <2>4. least \in pairs
      <3>1. pairs \in SUBSET (Wires(n) \X Wires(n))
        BY <1>1
      <3>2. least = Nearest(t, pairs)
        BY DEF Nearest
      <3> HIDE DEF least, pairs
      <3> QED
        BY <1>3, <3>1, <3>2, PrimLeast
    <2> HIDE DEF least
    <2>5. p \in Walks(n, adj)
      BY <1>3, <2>1, <2>4, RouteWalks
    <2>6. added \in SUBSET {e \in adj : e \subseteq Wires(n)}
      <3> HIDE DEF p
      <3>1. \A i \in 1 .. Len(p) - 1 : {p[i], p[i + 1]} \in adj
        BY <2>5 DEF Walks
      <3>2. \A i \in 1 .. Len(p) - 1 : p[i] \in Wires(n) /\ p[i + 1] \in Wires(n)
        BY <2>5 DEF Walks
      <3> QED
        BY <3>1, <3>2
    <2>7. PrimStep(acc, terminals, t) = [in |-> acc.in \cup {least[2]}, edges |-> acc.edges \cup added]
      BY <1>3, Zenon DEF PrimStep, key, least
    <2> HIDE DEF added
    <2>8. least[2] \in Wires(n)
      BY <2>1, <2>4
    <2> QED
      BY <1>1, <2>6, <2>7, <2>8 DEF Trees
  <1> QED
    BY <1>2, <1>3

(* The trees of Prim's algorithm.                                           *)
LEMMA TreeEdgesRuns ==
    ASSUME n \in Nat, NEW adj, NEW t \in Routes(n, adj), NEW terminals \in SUBSET Wires(n), terminals # {}
    PROVE  \E g \in [1 .. Cardinality(terminals) -> Trees(adj)] :
             /\ g[1] = [in |-> {LeastOf(terminals)}, edges |-> {}]
             /\ \A i \in 1 .. Cardinality(terminals) - 1 : g[i + 1] = PrimStep(g[i], terminals, t)
             /\ TreeEdges(terminals, t) = g[Cardinality(terminals)].edges
  <1> DEFINE S == Trees(adj)
             First == 1
             Final == Cardinality(terminals)
             Base == [in |-> {LeastOf(terminals)}, edges |-> {}]
             Step(s, i) == PrimStep(s, terminals, t)
             F == [i \in First .. Final - 1 |-> [s \in S |-> Step(s, i)]]
  <1>1. First \in Nat /\ Final \in Nat /\ First <= Final /\ Base \in S
    BY TreeStarts
  <1>2. \A i \in First .. Final - 1, s \in S : Step(s, i) \in S
    BY PrimStepTyped
  <1>3. First .. Final - 1 = 1 .. Cardinality(terminals) - 1
    BY <1>1
  <1> HIDE DEF S, Step, First, Final, Base
  <1>4. F \in [First .. Final - 1 -> [S -> S]] /\ \A i \in First .. Final - 1, s \in S : F[i][s] = Step(s, i)
    BY <1>2
  <1> HIDE DEF F
  <1>5. PICK f \in [First .. Final -> S] : Follows(f, Base, F, First, Final)
    BY <1>1, <1>4, Iterates
  <1>6. f = [i \in First .. Final |-> IF i = First THEN Base ELSE Step(f[i - 1], i - 1)]
    BY <1>1, <1>4, <1>5 DEF Follows
  <1>7. PICK g : /\ g = [i \in First .. Final |-> IF i = First THEN Base ELSE Step(g[i - 1], i - 1)]
                 /\ TreeEdges(terminals, t) = g[Final].edges
    BY <1>6 DEF TreeEdges, Loop, First, Final, Base, Step
  <1>8. g[First] = Base /\ \A i \in First .. Final - 1 : g[i + 1] = Step(g[i], i)
    BY <1>1, <1>7
  <1>9. g = [i \in First .. Final |-> g[i]] /\ g[First] \in S
    BY <1>1, <1>7, <1>8
  <1>10. \A i \in First .. Final - 1 : g[i] \in S => g[i + 1] \in S
    BY <1>2, <1>8
  <1>11. g \in [First .. Final -> S]
    BY <1>1, <1>9, <1>10, Stays
  <1>12. g[First] = Base /\ (\A i \in 1 .. Cardinality(terminals) - 1 : g[i + 1] = Step(g[i], i)) /\ TreeEdges(terminals, t) = g[Final].edges
    BY <1>3, <1>7, <1>8
  <1> QED
    BY <1>11, <1>12 DEF S, First, Final, Base, Step

(* The wires a search has come to.                                          *)
LEMMA ReachedRuns ==
    ASSUME n \in Nat, NEW edges \in SUBSET SUBSET Wires(n), NEW root \in Wires(n)
    PROVE  \E g \in [0 .. n -> SUBSET Wires(n)] :
             /\ g[0] = {root}
             /\ \A i \in 0 .. n - 1 : g[i + 1] = Spread(g[i], edges)
             /\ Reached(edges, root) = g[n]
  <1> DEFINE S == SUBSET Wires(n)
             First == 0
             Final == n
             Base == {root}
             Step(s, i) == Spread(s, edges)
             F == [i \in First .. Final - 1 |-> [s \in S |-> Step(s, i)]]
  <1>1. First \in Nat /\ Final \in Nat /\ First <= Final /\ Base \in S
    OBVIOUS
  <1>2. \A i \in First .. Final - 1, s \in S : Step(s, i) \in S
    BY DEF Spread
  <1>3. First .. Final - 1 = 0 .. n - 1
    BY <1>1
  <1> HIDE DEF S, Step, First, Final, Base
  <1>4. F \in [First .. Final - 1 -> [S -> S]] /\ \A i \in First .. Final - 1, s \in S : F[i][s] = Step(s, i)
    BY <1>2
  <1> HIDE DEF F
  <1>5. PICK f \in [First .. Final -> S] : Follows(f, Base, F, First, Final)
    BY <1>1, <1>4, Iterates
  <1>6. f = [i \in First .. Final |-> IF i = First THEN Base ELSE Step(f[i - 1], i - 1)]
    BY <1>1, <1>4, <1>5 DEF Follows
  <1>7. PICK g : /\ g = [i \in First .. Final |-> IF i = First THEN Base ELSE Step(g[i - 1], i - 1)]
                 /\ Reached(edges, root) = g[Final]
    BY <1>6 DEF Reached, Loop, First, Final, Base, Step
  <1>8. g[First] = Base /\ \A i \in First .. Final - 1 : g[i + 1] = Step(g[i], i)
    BY <1>1, <1>7
  <1>9. g = [i \in First .. Final |-> g[i]] /\ g[First] \in S
    BY <1>1, <1>7, <1>8
  <1>10. \A i \in First .. Final - 1 : g[i] \in S => g[i + 1] \in S
    BY <1>2, <1>8
  <1>11. g \in [First .. Final -> S]
    BY <1>1, <1>9, <1>10, Stays
  <1>12. g[First] = Base /\ (\A i \in 0 .. n - 1 : g[i + 1] = Step(g[i], i)) /\ Reached(edges, root) = g[Final]
    BY <1>3, <1>7, <1>8
  <1> QED
    BY <1>11, <1>12 DEF S, First, Final, Base, Step

(* The parents a search leaves are neighbours on the topology.              *)
LEMMA ParentsNear ==
    ASSUME n \in Nat, NEW adj, NEW t \in Routes(n, adj), NEW p \in SUBSET Wires(n), p # {},
           NEW f \in Parents(TreeEdges(p, t), LeastOf(p))
    PROVE  /\ DOMAIN f \in SUBSET Wires(n)
           /\ \A u \in DOMAIN f : f[u] \in Wires(n) /\ {u, f[u]} \in adj
  <1> DEFINE edges == TreeEdges(p, t)
             root == LeastOf(p)
  <1>1. edges \in SUBSET {e \in adj : e \subseteq Wires(n)}
    <2>1. PICK g \in [1 .. Cardinality(p) -> Trees(adj)] :
            /\ g[1] = [in |-> {LeastOf(p)}, edges |-> {}]
            /\ \A i \in 1 .. Cardinality(p) - 1 : g[i + 1] = PrimStep(g[i], p, t)
            /\ TreeEdges(p, t) = g[Cardinality(p)].edges
      BY TreeEdgesRuns
    <2>2. Cardinality(p) \in 1 .. Cardinality(p)
      <3>1. Cardinality(p) \in Nat /\ 1 <= Cardinality(p)
        BY TreeStarts
      <3> QED
        BY <3>1
    <2>3. g[Cardinality(p)] \in Trees(adj)
      BY <2>1, <2>2
    <2> QED
      BY <2>1, <2>3 DEF Trees
  <1>2. root \in Wires(n)
    BY LeastWire
  <1> HIDE DEF edges, root
  <1>3. Reached(edges, root) \in SUBSET Wires(n)
    <2>1. edges \in SUBSET SUBSET Wires(n)
      BY <1>1
    <2>2. PICK g \in [0 .. n -> SUBSET Wires(n)] : Reached(edges, root) = g[n]
      BY <1>2, <2>1, ReachedRuns
    <2> QED
      BY <2>2
  <1>4. f \in Parents(edges, root)
    BY DEF edges, root
  <1>5. f \in [Reached(edges, root) \ {root} -> Reached(edges, root)] /\ \A u \in DOMAIN f : {u, f[u]} \in edges
    BY <1>4, Zenon DEF Parents
  <1> QED
    BY <1>1, <1>3, <1>5

(* SetToSeq lists a finite set, each element once.                          *)
LEMMA SetToSeqIs ==
    ASSUME NEW T, IsFiniteSet(T)
    PROVE  /\ SetToSeq(T) \in Seq(T) /\ Len(SetToSeq(T)) = Cardinality(T) /\ Cardinality(T) \in Nat
           /\ \A i, j \in 1 .. Len(SetToSeq(T)) : SetToSeq(T)[i] = SetToSeq(T)[j] => i = j
           /\ \A x \in T : \E i \in 1 .. Len(SetToSeq(T)) : SetToSeq(T)[i] = x
  <1> DEFINE k == Cardinality(T)
  <1>1. k \in Nat /\ ExistsBijection(1 .. k, T)
    BY FS_CardinalityType
  <1>2. \E f \in [1 .. k -> T] : IsInjective(f)
    BY <1>1 DEF ExistsBijection, Bijection, Injection, IsInjective
  <1>3. PICK f \in [1 .. k -> T] : f = SetToSeq(T) /\ IsInjective(f)
    BY <1>2 DEF SetToSeq
  <1>4. IsFiniteSet(1 .. k) /\ Cardinality(1 .. k) = k
    BY <1>1, FS_Interval
  <1>5. f \in Injection(1 .. k, T)
    BY <1>3 DEF Injection
  <1> HIDE DEF k
  <1>6. f \in Surjection(1 .. k, T)
    BY <1>4, <1>5, FS_Injection DEF k
  <1>7. \A x \in T : \E i \in 1 .. k : f[i] = x
    BY <1>6 DEF Surjection
  <1>8. f \in Seq(T) /\ Len(f) = k
    BY <1>1
  <1>9. \A i, j \in 1 .. k : f[i] = f[j] => i = j
    BY <1>3 DEF IsInjective
  <1> QED
    BY <1>1, <1>3, <1>7, <1>8, <1>9 DEF k

(* An instruction more: it is not a CNOT, or joins neighbours.              *)
LEMMA OnEdgesAppend ==
    ASSUME NEW adj, NEW s, OnEdges(s, adj), NEW g, g.op = "cx" => {g.q, g.arg} \in adj
    PROVE  OnEdges(Append(s, g), adj)
  <1>1. PICK A : s \in Seq(A) /\ \A h \in A : h.op = "cx" => {h.q, h.arg} \in adj
    BY DEF OnEdges
  <1>2. s \in Seq(A \cup {g})
    BY <1>1
  <1>3. Append(s, g) \in Seq(A \cup {g})
    BY <1>2
  <1>4. \A h \in A \cup {g} : h.op = "cx" => {h.q, h.arg} \in adj
    BY <1>1
  <1> QED
    BY <1>3, <1>4 DEF OnEdges

(* Two circuits on the topology, one after the other.                       *)
LEMMA OnEdgesConcat ==
    ASSUME NEW adj, NEW s, OnEdges(s, adj), NEW t, OnEdges(t, adj)
    PROVE  OnEdges(s \o t, adj)
  <1>1. PICK A : s \in Seq(A) /\ \A h \in A : h.op = "cx" => {h.q, h.arg} \in adj
    BY DEF OnEdges
  <1>2. PICK B : t \in Seq(B) /\ \A h \in B : h.op = "cx" => {h.q, h.arg} \in adj
    BY DEF OnEdges
  <1>3. s \in Seq(A \cup B) /\ t \in Seq(A \cup B)
    BY <1>1, <1>2
  <1>4. s \o t \in Seq(A \cup B)
    BY <1>3
  <1>5. \A h \in A \cup B : h.op = "cx" => {h.q, h.arg} \in adj
    BY <1>1, <1>2
  <1> QED
    BY <1>4, <1>5 DEF OnEdges

(* CNOTs of joined wires are a circuit on the topology.                     *)
LEMMA CxAllOnEdges ==
    ASSUME NEW N \in Nat, NEW adj, NEW cnots \in Seq(Joined(N, adj))
    PROVE  OnEdges(CxAll(cnots), adj)
  <1> DEFINE A == {Cx(g) : g \in Joined(N, adj)}
  <1>1. \A h \in A : {h.q, h.arg} \in adj
    <2>1. ASSUME NEW g \in Joined(N, adj) PROVE {Cx(g).q, Cx(g).arg} \in adj
      <3>1. {g[1], g[2]} \in adj /\ {g[1], g[2]} = {g[2], g[1]}
        BY DEF Joined
      <3> QED
        BY <3>1 DEF Cx
    <2> QED
      BY <2>1
  <1>2. CxAll(cnots) \in Seq(A)
    <2>1. \A i \in 1 .. Len(cnots) : Cx(cnots[i]) \in A
      OBVIOUS
    <2> QED
      BY <2>1 DEF CxAll
  <1> HIDE DEF A
  <1> QED
    BY <1>1, <1>2 DEF OnEdges

(* The X layer has no CNOT.                                                 *)
LEMMA XsOnEdges ==
    ASSUME NEW adj, NEW T, IsFiniteSet(T), NEW xs, xs = SetToSeq(T)
    PROVE  OnEdges([i \in DOMAIN xs |-> X(xs[i])], adj)
  <1>1. xs \in Seq(T)
    BY SetToSeqIs
  <1> DEFINE A == {X(q) : q \in T}
             s == [i \in DOMAIN xs |-> X(xs[i])]
  <1>2. s \in Seq(A)
    BY <1>1
  <1>3. \A g \in A : g.op # "cx"
    BY DEF X
  <1> HIDE DEF A, s
  <1>4. OnEdges(s, adj)
    BY <1>2, <1>3 DEF OnEdges
  <1> QED
    BY <1>4 DEF s

(* The empty circuit runs anywhere.                                         *)
LEMMA NothingOnEdges == \A adj : OnEdges(<< >>, adj)
  <1> SUFFICES ASSUME NEW adj PROVE OnEdges(<< >>, adj)
    OBVIOUS
  <1>0. << >> \in Seq({})
    OBVIOUS
  <1>1. PICK A : A = {}
    OBVIOUS
  <1>2. << >> \in Seq(A) /\ \A g \in A : g.op = "cx" => {g.q, g.arg} \in adj
    BY <1>0, <1>1
  <1> QED
    BY <1>2 DEF OnEdges

(* No entries.                                                              *)
LEMMA EmptyIs == IsFun(Empty) /\ DOMAIN Empty = {} /\ \A f : IsFun(f) /\ DOMAIN f = {} => f = Empty
  BY DEF Empty, IsFun

(* The lower pass returns a matrix and the CNOTs that made it.              *)
LEMMA LowerPassTyped ==
    ASSUME NEW N \in Nat, NEW m \in Mat(N), NEW size \in Nat \ {0}
    PROVE  LowerPass(m, N, size) \in Elim(N)
  <1>1. PICK g \in [0 .. N -> Elim(N)] :
          /\ g[0] = [m |-> m, ops |-> << >>]
          /\ \A i \in 0 .. N - 1 : g[i + 1] = Column(g[i], N, size, i)
          /\ LowerPass(m, N, size) = g[N]
    BY LowerPassRuns
  <1>2. N \in 0 .. N
    OBVIOUS
  <1> QED
    BY <1>1, <1>2

(* The solver returns a set of wires for every parity.                      *)
LEMMA SolveTyped ==
    ASSUME NEW N \in Nat, NEW m \in Mat(N), NEW parity \in SUBSET Wires(N)
    PROVE  Solve(m, N, parity) \in Solver(N)
  <1>1. PICK g \in [0 .. N -> Solver(N)] :
          /\ g[0] = [m |-> m, of |-> IdentityMap(N), used |-> {}, rhs |-> parity, combo |-> {}]
          /\ \A i \in 0 .. N - 1 : g[i + 1] = SolveBit(g[i], i)
          /\ Solve(m, N, parity) = g[N]
    BY SolveRuns
  <1>2. N \in 0 .. N
    OBVIOUS
  <1> QED
    BY <1>1, <1>2

(* The routes of Floyd-Warshall go along edges, nearer with every hop.      *)
LEMMA TopologyRoutes ==
    ASSUME NEW N \in Nat, NEW adj
    PROVE  Topology(N, adj) \in Routes(N, adj)
  <1>1. PICK g \in [0 .. N -> Routes(N, adj)] :
          /\ g[0] = Edges(N, adj)
          /\ \A i \in 0 .. N - 1 : g[i + 1] = Through(g[i], i, N)
          /\ Topology(N, adj) = g[N]
    BY TopologyRuns
  <1>2. N \in 0 .. N
    OBVIOUS
  <1> QED
    BY <1>1, <1>2

(* A section has at least one column.                                       *)
LEMMA SizeTyped ==
    ASSUME n \in Nat, job.size # None => job.size \in Nat
    PROVE  Size \in Nat \ {0}
  <1>1. SectionSize(n) \in Nat
    BY DEF SectionSize
  <1> QED
    BY <1>1 DEF Size

(* The linear part of a path sum that a guard admitted is a matrix.         *)
LEMMA TargetTyped ==
    ASSUME n \in Nat, \A q \in Wires(n) : OnInputs(Target[q])
    PROVE  Target \in Mat(n)
  <1>1. Target = [q \in Wires(n) |-> VarsOf(Ps.rows[q])]
    BY StrictSame DEF Target
  <1> QED
    BY <1>1 DEF OnInputs, Mat

(* What JobsAssumption says of the call at hand.                            *)
LEMMA JobTyped ==
    ASSUME job \in Jobs
    PROVE  /\ n \in Nat /\ None \notin Nat
           /\ job.kind \in {"gray", "steiner", "pmh", "matrix"}
           /\ {} \notin DOMAIN Ps.disc
           /\ job.kind = "matrix" => job.matrix \in Mat(n)
           /\ job.size # None => job.size \in Nat /\ job.kind = "matrix"
  BY JobsAssumption DEF n, Ps, Mat

(* A call begins well typed.                                                *)
LEMMA InitTypeInv == Init => TypeInv
  <1> SUFFICES ASSUME Init PROVE TypeInv
    OBVIOUS
  <1>1. n \in Nat /\ wires = IdentityMap(n)
    BY JobTyped DEF Init, n
  <1>2. wires \in Mat(n)
    BY <1>1, IdentityTyped
  <1>3. OnEdges(out, job.adj)
    BY NothingOnEdges DEF Init
  <1> QED
    BY <1>2, <1>3 DEF Init, TypeInv, KindsFit, TermsFit, PassFits, WiresFit, FramesFit, TreeFits, TopoFits, OutFits, Pcs

(* The guards: what passes them is over the inputs alone.                   *)
LEMMA StartTypeInv == ASSUME TypeInv, Start PROVE TypeInv'
  <1>1. job \in Jobs /\ n \in Nat /\ job' = job
    BY JobTyped DEF TypeInv, KindsFit, Start
  <1>2. n' = n
    BY <1>1 DEF n
  <1>3. KindsFit'
    <2>1. Admitted' <=> Admitted
      BY <1>1 DEF Admitted, Synthesizable, PureCnots, Ps, n, OnInputs, Target, RankMinusI, Offsets, Wires
    <2> QED
      BY <1>1, <2>1, JobTyped DEF TypeInv, KindsFit, Start, Admitted, Pcs
  <1>4. TermsFit'
    <2>1. ASSUME pc' = "lift"
          PROVE  /\ IsFun(coeff') /\ DOMAIN coeff' \subseteq Parity(n)
                 /\ terms' = terms /\ IsFun(terms) /\ DOMAIN terms \subseteq Parity(n)
      <3>1. job.kind \in {"gray", "steiner"} /\ Synthesizable
        BY <2>1 DEF Start
      <3>2. coeff' = [t \in DOMAIN Ps.disc |-> Ps.disc[t] * Eighth] /\ terms' = terms
        BY <3>1, StrictSame DEF Start
      <3>3. DOMAIN Ps.disc \subseteq Parity(n)
        BY <1>1, <3>1, JobTyped DEF Synthesizable, OnInputs, Parity, Ps
      <3>4. terms = Empty /\ DOMAIN terms = {} /\ IsFun(terms)
        BY EmptyIs DEF TypeInv, TermsFit, Start
      <3>5. IsFun(coeff')
        BY <3>2 DEF IsFun
      <3> QED
        BY <3>2, <3>3, <3>4, <3>5
    <2>2. pc' \notin {"start", "pop", "common", "terms", "tree"}
      BY DEF Start
    <2> QED
      BY <1>2, <2>1, <2>2 DEF TermsFit
  <1>5. PassFits'
    <2>1. pass' = [m |-> IF job.kind = "matrix" THEN job.matrix ELSE Target, want |-> pass.want, lower |-> pass.lower]
      BY DEF Start, TypeInv, PassFits
    <2>2. pc' \notin {"start", "upper", "fallback"}
      BY DEF Start
    <2>3. ASSUME pc' # "refused" PROVE pass'.m \in Mat(n)
      <3>1. CASE job.kind = "matrix"
        BY <1>1, <2>1, <3>1, JobTyped
      <3>2. CASE job.kind # "matrix"
        <4>1. \A q \in Wires(n) : OnInputs(Target[q])
          BY <2>3, <3>2 DEF Start, Synthesizable, PureCnots
        <4>2. Target \in Mat(n)
          BY <1>1, <4>1, TargetTyped
        <4> QED
          BY <2>1, <3>2, <4>2
      <3> QED
        BY <3>1, <3>2
    <2> QED
      BY <1>2, <2>1, <2>2, <2>3 DEF PassFits
  <1>6. WiresFit' /\ FramesFit' /\ TreeFits' /\ OutFits'
    <2>1. pc' \notin {"pop", "common", "tree"} /\ wires' = wires /\ out' = out
      BY DEF Start
    <2> QED
      BY <1>1, <1>2, <2>1 DEF TypeInv, WiresFit, FramesFit, TreeFits, OutFits
  <1>7. TopoFits'
    <2>1. job.kind = "steiner" => topo' = Topology(n, job.adj)
      BY DEF Start
    <2> QED
      BY <1>1, <1>2, <2>1, TopologyRoutes DEF TopoFits
  <1> QED
    BY <1>3, <1>4, <1>5, <1>6, <1>7 DEF TypeInv

(* The order of the masks, with the variable that decides it.               *)
LEMMA LargerMaskAt ==
    ASSUME NEW N \in Nat, NEW s \in SUBSET Wires(N), NEW t \in SUBSET Wires(N)
    PROVE  LargerMask(s, t) <=> \E v \in Wires(N) : Above(s, t, v, N)
  BY DEF LargerMask, Above, Wires

(* The order of the masks is transitive.                                    *)
LEMMA LargerMaskTransitive ==
    ASSUME NEW N \in Nat, NEW s \in SUBSET Wires(N), NEW t \in SUBSET Wires(N), NEW u \in SUBSET Wires(N),
           LargerMask(s, t), LargerMask(t, u)
    PROVE  LargerMask(s, u)
  <1>1. PICK v \in Wires(N) : Above(s, t, v, N)
    BY LargerMaskAt
  <1>2. PICK w \in Wires(N) : Above(t, u, w, N)
    BY LargerMaskAt
  <1>3. CASE v > w
    <2>1. Above(s, u, v, N)
      BY <1>1, <1>2, <1>3 DEF Above, Wires
    <2> QED
      BY <2>1, LargerMaskAt
  <1>4. CASE w > v
    <2>1. Above(s, u, w, N)
      BY <1>1, <1>2, <1>4 DEF Above, Wires
    <2> QED
      BY <2>1, LargerMaskAt
  <1>5. CASE v = w
    BY <1>1, <1>2, <1>5 DEF Above
  <1> QED
    BY <1>3, <1>4, <1>5 DEF Wires

(* The order of the masks tells any two sets of wires apart.                *)
LEMMA LargerMaskTotal ==
    ASSUME NEW N \in Nat, NEW s \in SUBSET Wires(N), NEW t \in SUBSET Wires(N), s # t
    PROVE  LargerMask(s, t) \/ LargerMask(t, s)
  <1> DEFINE D == {v \in Wires(N) : v \in s <=> v \notin t}
             K == {N - v : v \in D}
  <1>1. K \in SUBSET Nat /\ K # {}
    <2>1. D # {}
      BY DEF Wires
    <2> QED
      BY <2>1 DEF Wires
  <1>2. PICK k \in K : \A j \in K : k <= j
    <2> HIDE DEF K
    <2> QED
      BY <1>1, LeastExists
  <1>3. PICK v \in D : k = N - v
    BY <1>2
  <1>4. ASSUME NEW w \in D PROVE w <= v
    <2>1. N - w \in K /\ w \in Nat /\ v \in Nat
      BY DEF Wires
    <2>2. k <= N - w
      BY <1>2, <2>1
    <2> QED
      BY <1>3, <2>1, <2>2
  <1>5. v \in Wires(N) /\ \A w \in Wires(N) : w > v => (w \in s <=> w \in t)
    BY <1>3, <1>4 DEF Wires
  <1>6. CASE v \in s
    <2>1. Above(s, t, v, N)
      BY <1>3, <1>5, <1>6 DEF Above
    <2> QED
      BY <1>5, <2>1, LargerMaskAt
  <1>7. CASE v \notin s
    <2>1. Above(t, s, v, N)
      BY <1>3, <1>5, <1>7 DEF Above
    <2> QED
      BY <1>5, <2>1, LargerMaskAt
  <1> QED
    BY <1>6, <1>7

(* The order in which monomials are lifted is a strict total order.         *)
LEMMA HeavierOrders ==
    ASSUME NEW N \in Nat
    PROVE  /\ \A s, t, u \in SUBSET Wires(N) : Heavier(s, t) /\ Heavier(t, u) => Heavier(s, u)
           /\ \A s, t \in SUBSET Wires(N) : s # t => Heavier(s, t) \/ Heavier(t, s)
           /\ \A s \in SUBSET Wires(N) : ~Heavier(s, s)
  <1>1. \A s \in SUBSET Wires(N) : Cardinality(s) \in Nat
    BY WiresFinite, FS_CardinalityType
  <1>2. ASSUME NEW s \in SUBSET Wires(N), NEW t \in SUBSET Wires(N), NEW u \in SUBSET Wires(N),
               Heavier(s, t), Heavier(t, u)
        PROVE  Heavier(s, u)
    <2>1. LargerMask(s, t) /\ LargerMask(t, u) => LargerMask(s, u)
      BY LargerMaskTransitive
    <2>2. Cardinality(s) \in Nat /\ Cardinality(t) \in Nat /\ Cardinality(u) \in Nat
      BY <1>1
    <2> QED
      BY <1>2, <2>1, <2>2 DEF Heavier
  <1>3. ASSUME NEW s \in SUBSET Wires(N), NEW t \in SUBSET Wires(N), s # t
        PROVE  Heavier(s, t) \/ Heavier(t, s)
    <2>1. LargerMask(s, t) \/ LargerMask(t, s)
      BY <1>3, LargerMaskTotal
    <2>2. Cardinality(s) \in Nat /\ Cardinality(t) \in Nat
      BY <1>1
    <2> QED
      BY <2>1, <2>2 DEF Heavier
  <1>4. ASSUME NEW s \in SUBSET Wires(N) PROVE ~Heavier(s, s)
    <2>1. Cardinality(s) \in Nat
      BY <1>1
    <2> QED
      BY <2>1 DEF Heavier, LargerMask
  <1> QED
    BY <1>2, <1>3, <1>4

(* The lift picks the heaviest monomial there is.                           *)
LEMMA HeaviestIs ==
    ASSUME NEW N \in Nat, NEW T \in SUBSET SUBSET Wires(N), T # {}
    PROVE  Heaviest(T) \in T /\ \A s \in T \ {Heaviest(T)} : Heavier(Heaviest(T), s)
  <1> DEFINE Below(s) == {t \in T : Heavier(s, t)}
             K == {Cardinality(T) - Cardinality(Below(s)) : s \in T}
  <1>1. IsFiniteSet(T)
    <2>1. IsFiniteSet(SUBSET Wires(N))
      BY WiresFinite, FS_SUBSET
    <2> QED
      BY <2>1, FS_Subset
  <1>2. \A s \in T : Below(s) \in SUBSET T /\ IsFiniteSet(Below(s)) /\ Cardinality(Below(s)) \in Nat
                     /\ Cardinality(Below(s)) <= Cardinality(T)
    BY <1>1, FS_Subset, FS_CardinalityType
  <1>3. Cardinality(T) \in Nat
    BY <1>1, FS_CardinalityType
  <1>4. K \in SUBSET Nat /\ K # {}
    <2> HIDE DEF Below
    <2> QED
      BY <1>2, <1>3
  <1>5. PICK k \in K : \A j \in K : k <= j
    <2> HIDE DEF K
    <2> QED
      BY <1>4, LeastExists
  <1>6. PICK s \in T : k = Cardinality(T) - Cardinality(Below(s))
    BY <1>5
  <1>7. ASSUME NEW t \in T PROVE Cardinality(Below(t)) <= Cardinality(Below(s))
    <2> HIDE DEF Below
    <2>1. Cardinality(T) - Cardinality(Below(t)) \in K
      OBVIOUS
    <2>2. k <= Cardinality(T) - Cardinality(Below(t))
      BY <1>5, <2>1
    <2>3. Cardinality(Below(t)) \in Nat /\ Cardinality(Below(s)) \in Nat
      BY <1>2
    <2> QED
      BY <1>3, <1>6, <2>2, <2>3
  <1>8. ASSUME NEW t \in T \ {s}, ~Heavier(s, t) PROVE FALSE
    <2>1. Heavier(t, s)
      BY <1>6, <1>8, HeavierOrders
    <2>2. Below(s) \subseteq Below(t)
      BY <1>6, <2>1, HeavierOrders
    <2>3. s \in Below(t) /\ s \notin Below(s)
      BY <1>6, <2>1, HeavierOrders
    <2> HIDE DEF Below
    <2>4. Cardinality(Below(s)) <= Cardinality(Below(t)) /\ Cardinality(Below(s)) # Cardinality(Below(t))
      BY <1>2, <2>2, <2>3, FS_Subset
    <2> QED
      BY <1>2, <1>6, <1>7, <2>4
  <1>9. \E x \in T : \A t \in T \ {x} : Heavier(x, t)
    BY <1>6, <1>8
  <1> HIDE DEF Below, K
  <1> QED
    BY <1>9 DEF Heaviest

(* The guards are about the arguments of the call, which stay.              *)
LEMMA JobStays ==
    ASSUME TypeInv, job' = job
    PROVE  /\ job \in Jobs /\ n \in Nat /\ n' = n /\ Ps' = Ps
           /\ Admitted' <=> Admitted
           /\ Synthesizable' <=> Synthesizable
           /\ PureCnots' <=> PureCnots
  <1>1. job \in Jobs /\ n \in Nat
    BY JobTyped DEF TypeInv, KindsFit
  <1> QED
    BY <1>1 DEF Admitted, Synthesizable, PureCnots, Ps, n, OnInputs, Target, RankMinusI, Offsets, Wires

(* What a step leaves alone.                                                *)
LEMMA KindsStay ==
    ASSUME TypeInv, job' = job, pc # "start", pc' \in Pcs, pc' # "start", pc \notin {"refused"} \/ pc' = "refused",
           pc' = "lift" => pc = "lift",
           pc' \in {"pop", "common"} => job.kind = "gray",
           pc' \in {"terms", "tree"} => job.kind = "steiner"
    PROVE  KindsFit'
  <1>1. KindsFit
    BY DEF TypeInv
  <1>2. Admitted' <=> Admitted
    BY JobStays
  <1> HIDE DEF Admitted
  <1> QED
    BY <1>1, <1>2 DEF KindsFit

(* The monomials of the coefficients after a lift.                          *)
LEMMA SubtractDomain ==
    ASSUME NEW c, NEW m, NEW theta
    PROVE  /\ DOMAIN Subtract(c, m, theta) \subseteq DOMAIN c \cup ((SUBSET m) \ {{}})
           /\ IsFun(Subtract(c, m, theta))
  BY StrictSame DEF Subtract, IsFun

(* Lifting a monomial takes nothing outside the inputs.                     *)
LEMMA LiftTypeInv == ASSUME TypeInv, Lift PROVE TypeInv'
  <1>1. job' = job /\ job \in Jobs /\ n \in Nat /\ n' = n
    BY JobStays DEF Lift
  <1>2. pc = "lift" /\ pc' \in {"refused", "lift"}
    BY DEF Lift
  <1>3. KindsFit'
    BY <1>1, <1>2, KindsStay DEF TypeInv, KindsFit, Pcs
  <1>4. Heaviest(DOMAIN coeff) \in DOMAIN coeff /\ Heaviest(DOMAIN coeff) \in Parity(n)
    <2>1. DOMAIN coeff \subseteq Parity(n)
      BY <1>2 DEF TypeInv, TermsFit
    <2>2. DOMAIN coeff # {}
      BY <1>2, EmptyIs DEF Lift, TypeInv, TermsFit
    <2> QED
      BY <1>1, <2>1, <2>2, HeaviestIs DEF Parity
  <1>5. TermsFit'
    <2> DEFINE m == Heaviest(DOMAIN coeff)
    <2>1. DOMAIN coeff \subseteq Parity(n) /\ DOMAIN terms \subseteq Parity(n) /\ IsFun(coeff) /\ IsFun(terms)
      BY <1>2 DEF TypeInv, TermsFit
    <2>2. \A theta : IsFun(Subtract(coeff, m, theta)) /\ DOMAIN Subtract(coeff, m, theta) \subseteq Parity(n)
      <3>1. (SUBSET m) \ {{}} \subseteq Parity(n)
        BY <1>4 DEF Parity
      <3> QED
        BY <2>1, <3>1, SubtractDomain
    <2>3. IsFun(coeff') /\ DOMAIN coeff' \subseteq Parity(n)
      BY <2>1, <2>2 DEF Lift
    <2>4. IsFun(terms') /\ DOMAIN terms' \subseteq Parity(n)
      <3>1. \A theta : LET f == Strict([p \in DOMAIN terms \cup {m} |-> IF p = m THEN theta ELSE terms[p]])
                        IN  IsFun(f) /\ DOMAIN f = DOMAIN terms \cup {m}
        BY StrictSame DEF IsFun
      <3>2. IsFun(terms') /\ DOMAIN terms' \subseteq DOMAIN terms \cup {m}
        BY <2>1, <3>1 DEF Lift
      <3> QED
        BY <1>4, <2>1, <3>2
    <2> QED
      BY <1>1, <1>2, <2>3, <2>4 DEF TermsFit
  <1>6. PassFits' /\ WiresFit' /\ FramesFit' /\ TreeFits' /\ TopoFits' /\ OutFits'
    <2>1. UNCHANGED <<wires, pass, topo, out>>
      BY DEF Lift
    <2> QED
      BY <1>1, <1>2, <2>1 DEF TypeInv, PassFits, WiresFit, FramesFit, TreeFits, TopoFits, OutFits
  <1> QED
    BY <1>3, <1>5, <1>6 DEF TypeInv

(* A frame is made of phases, wires and a target.                           *)
LEMMA FrameTyped ==
    ASSUME NEW N, NEW s, IsPhases(s, N), NEW unused \in SUBSET Wires(N), NEW target \in Wires(N) \cup {None}
    PROVE  IsFrame(Frame(s, unused, target), N)
  BY DEF IsFrame, IsPhases, Frame

(* The phases of a frame can be replaced by others.                         *)
LEMMA FrameHolds ==
    ASSUME NEW N, NEW f, IsFrame(f, N), NEW s, IsPhases(s, N)
    PROVE  /\ IsPhases(f.s, N)
           /\ [f EXCEPT !.s = s] = Frame(s, f.unused, f.target)
           /\ IsFrame([f EXCEPT !.s = s], N)
  BY DEF IsFrame, IsPhases, Frame

(* What is not placed is phases, and some of those there were.              *)
LEMMA UnplacedTyped ==
    ASSUME NEW N, NEW s, IsPhases(s, N)
    PROVE  IsPhases(Unplaced(s), N) /\ DOMAIN Unplaced(s) \subseteq DOMAIN s
  BY StrictSame DEF IsPhases, IsFun, Unplaced, Without

(* A CNOT takes a dual to a dual that is not empty, and twice back to itself. *)
LEMMA DualTyped ==
    ASSUME NEW N \in Nat, NEW c \in Wires(N), NEW t \in Wires(N), c # t, NEW y \in Parity(N)
    PROVE  Dual(y, c, t) \in Parity(N) /\ Dual(Dual(y, c, t), c, t) = y
  <1>1. CASE t \in y
    <2>1. Dual(y, c, t) = SymDiff(y, {c}) /\ t \in SymDiff(y, {c})
      BY <1>1 DEF Dual, SymDiff
    <2>2. Dual(Dual(y, c, t), c, t) = SymDiff(SymDiff(y, {c}), {c})
      BY <2>1 DEF Dual
    <2>3. SymDiff(SymDiff(y, {c}), {c}) = y
      BY DEF SymDiff
    <2>4. SymDiff(y, {c}) \subseteq Wires(N)
      BY DEF SymDiff, Parity
    <2> QED
      BY <2>1, <2>2, <2>3, <2>4 DEF Parity
  <1>2. CASE t \notin y
    BY <1>2 DEF Dual
  <1> QED
    BY <1>1, <1>2

(* A CNOT moves each phase of a frame to the dual of its parity and loses none. *)
LEMMA DualCxTyped ==
    ASSUME NEW N \in Nat, NEW c \in Wires(N), NEW t \in Wires(N), c # t, NEW s, IsPhases(s, N)
    PROVE  /\ IsPhases(DualCx(s, c, t), N)
           /\ DOMAIN DualCx(s, c, t) = {Dual(y, c, t) : y \in DOMAIN s}
           /\ \A y \in DOMAIN s : DualCx(s, c, t)[Dual(y, c, t)] = s[y]
  <1>1. DualCx(s, c, t) = [z \in {Dual(y, c, t) : y \in DOMAIN s} |-> s[Dual(z, c, t)]]
    BY StrictSame DEF DualCx
  <1>2. \A y \in DOMAIN s : Dual(y, c, t) \in Parity(N) /\ Dual(Dual(y, c, t), c, t) = y
    BY DualTyped DEF IsPhases
  <1> QED
    BY <1>1, <1>2 DEF IsPhases, IsFun

(* The merged phases are on parities of the inputs.                         *)
LEMMA MergedTyped ==
    ASSUME n \in Nat, Synthesizable, DOMAIN terms \subseteq Parity(n)
    PROVE  IsPhases(Merged, n)
  <1>1. DOMAIN Ps.cont \subseteq Parity(n)
    BY DEF Synthesizable, OnInputs, Parity
  <1> QED
    BY <1>1, StrictSame DEF Merged, IsPhases, IsFun

(* The first placement and the first frame.                                 *)
LEMMA LiftedTypeInv == ASSUME TypeInv, Lifted PROVE TypeInv'
  <1>1. job' = job /\ job \in Jobs /\ n \in Nat /\ n' = n
    BY JobStays DEF Lifted
  <1>2. pc = "lift" /\ pc' \in {"terms", "pop"} /\ job.kind \in {"gray", "steiner"}
        /\ (pc' = "terms" <=> job.kind = "steiner")
    BY DEF Lifted, TypeInv, KindsFit
  <1>3. KindsFit'
    BY <1>1, <1>2, KindsStay DEF TypeInv, KindsFit, Pcs
  <1>4. IsPhases(Merged, n)
    <2>1. Synthesizable
      BY <1>2 DEF TypeInv, KindsFit, Admitted
    <2>2. DOMAIN terms \subseteq Parity(n)
      BY <1>2 DEF TypeInv, TermsFit
    <2> QED
      BY <1>1, <2>1, <2>2, MergedTyped
  <1>5. TermsFit'
    BY <1>1, <1>2, <1>4 DEF TermsFit, Lifted, IsPhases
  <1>6. FramesFit'
    <2>1. ASSUME job.kind = "gray" PROVE IsSeq(stack') /\ \A i \in DOMAIN stack' : IsFrame(stack'[i], n)
      <3>0. stack' = IF Unplaced(Merged) = Empty THEN << >> ELSE <<Frame(Unplaced(Merged), Wires(n), None)>>
        BY <2>1 DEF Lifted
      <3> DEFINE f == Frame(Unplaced(Merged), Wires(n), None)
      <3>1. IsFrame(f, n)
        BY <1>4, UnplacedTyped, FrameTyped
      <3> HIDE DEF f
      <3>2. << >> \in Seq({f}) /\ <<f>> \in Seq({f}) /\ DOMAIN << >> = {} /\ DOMAIN <<f>> = {1} /\ <<f>>[1] = f
        OBVIOUS
      <3>3. stack' = << >> \/ stack' = <<f>>
        BY <3>0 DEF f
      <3> QED
        BY <3>1, <3>2, <3>3 DEF IsSeq
    <2> QED
      BY <1>1, <1>2, <2>1 DEF FramesFit
  <1>7. OutFits'
    BY <1>1, <1>2 DEF OutFits, TypeInv, Lifted
  <1>8. PassFits' /\ WiresFit' /\ TreeFits' /\ TopoFits'
    <2>1. UNCHANGED <<wires, pass, topo, tree>>
      BY DEF Lifted
    <2> QED
      BY <1>1, <1>2, <2>1 DEF TypeInv, PassFits, WiresFit, TreeFits, TopoFits
  <1> QED
    BY <1>3, <1>5, <1>6, <1>7, <1>8 DEF TypeInv

(* The frames but the last.                                                 *)
LEMMA PopFrames ==
    ASSUME NEW s, IsSeq(s), s # << >>
    PROVE  /\ IsSeq(Front(s)) /\ Len(s) \in Nat \ {0} /\ DOMAIN s = 1 .. Len(s)
           /\ Len(Front(s)) = Len(s) - 1
           /\ DOMAIN Front(s) = 1 .. Len(s) - 1 /\ \A i \in 1 .. Len(s) - 1 : Front(s)[i] = s[i]
           /\ Last(s) = s[Len(s)] /\ Len(s) \in DOMAIN s
  <1>1. PICK A : s \in Seq(A)
    BY DEF IsSeq
  <1>2. Front(s) \in Seq(A) /\ Len(Front(s)) = Len(s) - 1 /\ \A i \in 1 .. Len(s) - 1 : Front(s)[i] = s[i]
    <2>1. Len(s) \in Nat /\ Len(s) # 0
      BY <1>1
    <2>2. Front(s) = SubSeq(s, 1, Len(s) - 1)
      BY DEF Front
    <2>3. SubSeq(s, 1, Len(s) - 1) \in Seq(A)
      BY <1>1, <2>1
    <2>4. Len(SubSeq(s, 1, Len(s) - 1)) = Len(s) - 1
      <3>1. PICK k \in Nat : k = Len(s) - 1
        BY <2>1
      <3>2. 1 <= 1 /\ 1 <= k + 1 /\ k <= Len(s)
        BY <2>1, <3>1
      <3>3. Len(SubSeq(s, 1, k)) = k
        BY <1>1, <3>1, <3>2
      <3> QED
        BY <3>1, <3>3
    <2>5. ASSUME NEW i \in 1 .. Len(s) - 1 PROVE SubSeq(s, 1, Len(s) - 1)[i] = s[i]
      BY <1>1, <2>1
    <2> QED
      BY <2>2, <2>3, <2>4, <2>5
  <1> QED
    BY <1>1, <1>2 DEF IsSeq, Last

(* The frame taken off the stack is a frame.                                *)
LEMMA PopTypeInv == ASSUME TypeInv, Pop PROVE TypeInv'
  <1>1. job' = job /\ job \in Jobs /\ n \in Nat /\ n' = n
    BY JobStays DEF Pop
  <1>2. pc = "pop" /\ pc' \in {"pop", "common"} /\ job.kind = "gray"
    BY DEF Pop, TypeInv, KindsFit
  <1>3. KindsFit'
    BY <1>1, <1>2, KindsStay DEF TypeInv, KindsFit, Pcs
  <1>4. IsSeq(stack) /\ stack # << >> /\ \A i \in DOMAIN stack : IsFrame(stack[i], n)
    BY <1>2 DEF Pop, TypeInv, FramesFit
  <1>5. FramesFit'
    <2>1. IsFrame(Last(stack), n)
      BY <1>4, PopFrames
    <2>2. IsFrame([Last(stack) EXCEPT !.s = Unplaced(Last(stack).s)], n)
      BY <2>1, UnplacedTyped, FrameHolds DEF IsFrame, IsPhases
    <2>3. IsFrame(frame', n)
      BY <2>2 DEF Pop
    <2>4. IsSeq(stack') /\ \A i \in DOMAIN stack' : i \in DOMAIN stack /\ stack'[i] = stack[i]
      <3>1. stack' = Front(stack)
        BY DEF Pop
      <3>2. PICK k \in Nat : k = Len(stack)
        BY <1>4, PopFrames
      <3>3. /\ IsSeq(stack') /\ DOMAIN stack = 1 .. k
            /\ DOMAIN stack' = 1 .. k - 1 /\ \A i \in 1 .. k - 1 : stack'[i] = stack[i]
        BY <1>4, <3>1, <3>2, PopFrames, Zenon
      <3> QED
        BY <3>3
    <2> QED
      BY <1>1, <1>4, <2>3, <2>4 DEF FramesFit
  <1>6. TermsFit'
    BY <1>1, <1>2 DEF TypeInv, TermsFit, Pop
  <1>7. PassFits' /\ WiresFit' /\ TreeFits' /\ TopoFits' /\ OutFits'
    <2>1. UNCHANGED <<wires, pass, topo, tree>>
      BY DEF Pop
    <2> QED
      BY <1>1, <1>2, <2>1 DEF TypeInv, PassFits, WiresFit, TreeFits, TopoFits, OutFits
  <1> QED
    BY <1>3, <1>5, <1>6, <1>7 DEF TypeInv

(* Two stacks of frames, one on the other.                                  *)
LEMMA FramesConcat ==
    ASSUME NEW N, NEW s, AllFrames(s, N), NEW t, AllFrames(t, N)
    PROVE  AllFrames(s \o t, N)
  <1>1. PICK A, B : s \in Seq(A) /\ t \in Seq(B)
    BY DEF AllFrames, IsSeq
  <1>2. s \in Seq(A \cup B) /\ t \in Seq(A \cup B)
    BY <1>1
  <1>3. s \o t \in Seq(A \cup B) /\ Len(s \o t) = Len(s) + Len(t)
    BY <1>2
  <1>4. ASSUME NEW i \in 1 .. Len(s) + Len(t) PROVE IsFrame((s \o t)[i], N)
    <2>0. Len(s) \in Nat /\ Len(t) \in Nat
      BY <1>1
    <2>1. CASE i <= Len(s)
      <3>1. (s \o t)[i] = s[i] /\ i \in DOMAIN s
        BY <1>2, <2>0, <2>1
      <3> QED
        BY <3>1 DEF AllFrames
    <2>2. CASE i > Len(s)
      <3>1. (s \o t)[i] = t[i - Len(s)] /\ i - Len(s) \in DOMAIN t
        BY <1>2, <2>0, <2>2
      <3> QED
        BY <3>1 DEF AllFrames
    <2> QED
      BY <2>0, <2>1, <2>2
  <1>5. DOMAIN (s \o t) = 1 .. Len(s) + Len(t)
    BY <1>3
  <1> HIDE DEF IsFrame
  <1> QED
    BY <1>3, <1>4, <1>5 DEF AllFrames, IsSeq

(* No frame, and one frame, are stacks.                                     *)
LEMMA OneFrame ==
    ASSUME NEW N, NEW f, IsFrame(f, N)
    PROVE  AllFrames(<< >>, N) /\ AllFrames(<<f>>, N)
  <1>1. << >> \in Seq({f}) /\ <<f>> \in Seq({f}) /\ DOMAIN << >> = {} /\ DOMAIN <<f>> = {1} /\ <<f>>[1] = f
    OBVIOUS
  <1> HIDE DEF IsFrame
  <1> QED
    BY <1>1 DEF AllFrames, IsSeq

(* The wire to split on is one that has not been split on.                  *)
LEMMA BestIs ==
    ASSUME NEW N \in Nat, NEW f, IsFrame(f, N), f.unused # {}
    PROVE  Best(f) \in f.unused
  <1> DEFINE C == Cardinality(DOMAIN f.s)
             U == f.unused
             K == {C - Score(f, j) : j \in U}
  <1>1. IsFiniteSet(DOMAIN f.s) /\ C \in Nat
    <2>1. IsFiniteSet(SUBSET Wires(N))
      BY WiresFinite, FS_SUBSET
    <2>2. DOMAIN f.s \in SUBSET SUBSET Wires(N)
      BY DEF IsFrame, Parity
    <2> QED
      BY <2>1, <2>2, FS_Subset, FS_CardinalityType
  <1>2. ASSUME NEW j \in U PROVE Score(f, j) \in Nat /\ C - Score(f, j) \in Nat
    <2>1. Cardinality({y \in DOMAIN f.s : j \in y}) \in Nat /\ Cardinality({y \in DOMAIN f.s : j \in y}) <= C
      BY <1>1, FS_Subset, FS_CardinalityType
    <2> QED
      BY <1>1, <2>1 DEF Score
  <1>3. U \in SUBSET Nat /\ U # {}
    BY DEF IsFrame, Wires
  <1> HIDE DEF C, U
  <1>4. K \in SUBSET Nat /\ K # {}
    BY <1>2, <1>3
  <1>5. PICK k \in K : \A j \in K : k <= j
    <2> HIDE DEF K
    <2> QED
      BY <1>4, LeastExists
  <1> DEFINE V == {j \in U : C - Score(f, j) = k}
  <1>6. V \in SUBSET Nat /\ V # {}
    BY <1>3, <1>5
  <1>7. PICK j \in V : \A i \in V : j <= i
    <2> HIDE DEF V
    <2> QED
      BY <1>6, LeastExists
  <1>8. ASSUME NEW i \in U \ {j} PROVE Score(f, j) > Score(f, i) \/ (Score(f, j) = Score(f, i) /\ j < i)
    <2>1. j \in U /\ C - Score(f, j) = k /\ k <= C - Score(f, i) /\ i \in Nat /\ j \in Nat
      BY <1>3, <1>5
    <2>2. Score(f, j) \in Nat /\ Score(f, i) \in Nat /\ C \in Nat
      BY <1>1, <1>2, <2>1
    <2>3. Score(f, j) = Score(f, i) => j <= i
      BY <1>7, <2>1
    <2> QED
      BY <2>1, <2>2, <2>3
  <1>9. \E x \in U : \A i \in U \ {x} : Score(f, x) > Score(f, i) \/ (Score(f, x) = Score(f, i) /\ x < i)
    BY <1>7, <1>8
  <1> QED
    BY <1>9 DEF Best, U

(* What Share works with: a wire of all duals, and the target.              *)
LEMMA ShareWires ==
    ASSUME n \in Nat, None \notin Nat, IsFrame(frame, n), Common(frame) # {}
    PROVE  /\ LeastOf(Common(frame)) \in Common(frame) /\ LeastOf(Common(frame)) \in Wires(n)
           /\ frame.target \in Wires(n) /\ LeastOf(Common(frame)) # frame.target
  <1>1. frame.target # None /\ Common(frame) \subseteq Wires(n) \ {frame.target}
    BY DEF Common
  <1>2. LeastOf(Common(frame)) \in Common(frame)
    BY <1>1, LeastWire
  <1> QED
    BY <1>1, <1>2 DEF IsFrame

(* A shared CNOT reaches every frame and leaves frames.                     *)
LEMMA ShareTypeInv == ASSUME TypeInv, Share PROVE TypeInv'
  <1>1. job' = job /\ job \in Jobs /\ n \in Nat /\ n' = n /\ None \notin Nat
    BY JobStays, JobTyped DEF Share
  <1>2. pc = "common" /\ pc' \in {"pop", "common"} /\ job.kind = "gray"
    BY DEF Share, TypeInv, KindsFit
  <1>3. KindsFit'
    BY <1>1, <1>2, KindsStay DEF TypeInv, KindsFit, Pcs
  <1>4. PICK j \in Wires(n), t \in Wires(n) : j = LeastOf(Common(frame)) /\ t = frame.target /\ j # t
    BY <1>1, <1>2, ShareWires DEF Share, TypeInv, FramesFit
  <1>5. FramesFit'
    <2>0. IsFrame(frame, n) /\ IsSeq(stack) /\ \A i \in DOMAIN stack : IsFrame(stack[i], n)
      BY <1>2 DEF TypeInv, FramesFit
    <2>1. ASSUME NEW f, IsFrame(f, n) PROVE IsFrame([f EXCEPT !.s = Unplaced(DualCx(f.s, j, t))], n)
      <3>1. IsPhases(f.s, n)
        BY <2>1 DEF IsFrame, IsPhases
      <3>2. IsPhases(Unplaced(DualCx(f.s, j, t)), n)
        BY <1>1, <1>4, <3>1, DualCxTyped, UnplacedTyped
      <3> QED
        BY <2>1, <3>2, FrameHolds
    <2>2. IsFrame(frame', n)
      <3>1. frame' = [frame EXCEPT !.s = Unplaced(DualCx(frame.s, j, t))]
        BY <1>4 DEF Share
      <3> QED
        BY <2>0, <2>1, <3>1
    <2>3. IsSeq(stack') /\ \A i \in DOMAIN stack' : IsFrame(stack'[i], n)
      <3>1. stack' = [i \in DOMAIN stack |-> [stack[i] EXCEPT !.s = Unplaced(DualCx(stack[i].s, j, t))]]
        BY <1>4 DEF Share
      <3>2. PICK A : stack \in Seq(A)
        BY <2>0 DEF IsSeq
      <3>3. DOMAIN stack = 1 .. Len(stack) /\ Len(stack) \in Nat
        BY <3>2
      <3> DEFINE at(i) == [stack[i] EXCEPT !.s = Unplaced(DualCx(stack[i].s, j, t))]
                 B == {at(i) : i \in 1 .. Len(stack)}
      <3>4. \A i \in 1 .. Len(stack) : at(i) \in B /\ IsFrame(at(i), n)
        BY <2>0, <2>1, <3>3
      <3>5. stack' = [i \in 1 .. Len(stack) |-> at(i)]
        BY <3>1, <3>3
      <3> HIDE DEF at, B
      <3>6. stack' \in Seq(B) /\ DOMAIN stack' = 1 .. Len(stack) /\ \A i \in 1 .. Len(stack) : stack'[i] = at(i)
        BY <3>3, <3>4, <3>5
      <3> QED
        BY <3>4, <3>6 DEF IsSeq
    <2> QED
      BY <1>1, <2>2, <2>3 DEF FramesFit
  <1>6. WiresFit'
    <2>1. wires \in Mat(n) /\ wires' = AddRow(wires, j, t)
      BY <1>2, <1>4 DEF TypeInv, WiresFit, Share
    <2> QED
      BY <1>1, <1>4, <2>1, AddRowTyped DEF WiresFit
  <1>7. TermsFit' /\ PassFits' /\ TreeFits' /\ TopoFits' /\ OutFits'
    <2>1. UNCHANGED <<terms, pass, topo, tree>>
      BY DEF Share
    <2> QED
      BY <1>1, <1>2, <2>1 DEF TypeInv, TermsFit, PassFits, TreeFits, TopoFits, OutFits
  <1> QED
    BY <1>3, <1>5, <1>6, <1>7 DEF TypeInv

(* The two halves of a frame are frames with a wire less.                   *)
LEMMA SplitTypeInv == ASSUME TypeInv, Split PROVE TypeInv'
  <1>1. job' = job /\ job \in Jobs /\ n \in Nat /\ n' = n
    BY JobStays DEF Split
  <1>2. pc = "common" /\ pc' \in {"pop", "refused"} /\ job.kind = "gray"
    BY DEF Split, TypeInv, KindsFit
  <1>3. KindsFit'
    BY <1>1, <1>2, KindsStay DEF TypeInv, KindsFit, Pcs
  <1>4. FramesFit'
    <2>1. CASE frame.unused = {}
      BY <1>1, <2>1 DEF FramesFit, Split
    <2>2. CASE frame.unused # {}
      <3>1. IsFrame(frame, n) /\ AllFrames(stack, n)
        BY <1>2 DEF TypeInv, FramesFit, AllFrames
      <3>2. PICK j \in Wires(n) : j = Best(frame)
        BY <1>1, <2>2, <3>1, BestIs DEF IsFrame
      <3> DEFINE ones == {y \in DOMAIN frame.s : j \in y}
                 part(S, target) ==
                   IF S = {} THEN << >>
                   ELSE <<Frame(Strict([y \in S |-> frame.s[y]]), frame.unused \ {j}, target)>>
                 up == IF frame.target = None THEN j ELSE frame.target
                 first == part(ones, up)
                 second == part(DOMAIN frame.s \ ones, frame.target)
      <3>3. stack' = stack \o first \o second
        BY <2>2, <3>2 DEF Split
      <3>4. ASSUME NEW S \in SUBSET DOMAIN frame.s, NEW target \in Wires(n) \cup {None}
            PROVE  AllFrames(part(S, target), n)
        <4>1. IsPhases(Strict([y \in S |-> frame.s[y]]), n)
          BY <3>1, StrictSame DEF IsPhases, IsFun, IsFrame
        <4>2. (frame.unused \ {j}) \in SUBSET Wires(n)
          BY <3>1 DEF IsFrame
        <4>3. IsFrame(Frame(Strict([y \in S |-> frame.s[y]]), frame.unused \ {j}, target), n)
          BY <4>1, <4>2, FrameTyped
        <4>4. part(S, target) = << >> \/ part(S, target) = <<Frame(Strict([y \in S |-> frame.s[y]]), frame.unused \ {j}, target)>>
          OBVIOUS
        <4> HIDE DEF part
        <4> QED
          BY <4>3, <4>4, OneFrame
      <3>5. frame.target \in Wires(n) \cup {None} /\ up \in Wires(n) \cup {None}
        BY <3>1 DEF IsFrame
      <3>6. AllFrames(first, n) /\ AllFrames(second, n)
        <4>1. ones \in SUBSET DOMAIN frame.s /\ (DOMAIN frame.s \ ones) \in SUBSET DOMAIN frame.s
          OBVIOUS
        <4> HIDE DEF part, ones, up
        <4> QED
          BY <3>4, <3>5, <4>1
      <3> HIDE DEF first, second
      <3>7. AllFrames(stack', n)
        BY <3>1, <3>3, <3>6, FramesConcat
      <3>8. pc' = "pop"
        BY <2>2 DEF Split
      <3> QED
        BY <1>1, <3>7, <3>8 DEF FramesFit, AllFrames
    <2> QED
      BY <2>1, <2>2
  <1>5. TermsFit' /\ PassFits' /\ WiresFit' /\ TreeFits' /\ TopoFits' /\ OutFits'
    <2>1. UNCHANGED <<terms, wires, pass, topo, tree>>
      BY DEF Split
    <2> QED
      BY <1>1, <1>2, <2>1 DEF TypeInv, TermsFit, PassFits, WiresFit, TreeFits, TopoFits, OutFits
  <1> QED
    BY <1>3, <1>4, <1>5 DEF TypeInv

(* The residual is a matrix over the wires.                                 *)
LEMMA ResidualTyped ==
    ASSUME n \in Nat, wires \in Mat(n), Target \in Mat(n)
    PROVE  Residual \in Mat(n)
  <1>1. Residual = [q \in Wires(n) |-> Solve(wires, n, Target[q]).combo]
    BY StrictSame DEF Residual
  <1>2. ASSUME NEW q \in Wires(n) PROVE Solve(wires, n, Target[q]).combo \in SUBSET Wires(n)
    <2>1. Target[q] \in SUBSET Wires(n)
      BY DEF Mat
    <2>2. Solve(wires, n, Target[q]) \in Solver(n)
      BY <2>1, SolveTyped
    <2> QED
      BY <2>2 DEF Solver
  <1> QED
    BY <1>1, <1>2 DEF Mat

(* The residual is a matrix, also where the call gives up.                  *)
LEMMA GrayRestTypeInv == ASSUME TypeInv, GrayRest PROVE TypeInv'
  <1>1. job' = job /\ job \in Jobs /\ n \in Nat /\ n' = n
    BY JobStays DEF GrayRest
  <1>2. pc = "pop" /\ pc' \in {"lower", "refused"} /\ job.kind = "gray"
    BY DEF GrayRest, TypeInv, KindsFit
  <1>3. KindsFit'
    BY <1>1, <1>2, KindsStay DEF TypeInv, KindsFit, Pcs
  <1>4. PassFits'
    <2>1. Synthesizable
      BY <1>2 DEF TypeInv, KindsFit, Admitted
    <2>2. Target \in Mat(n)
      BY <1>1, <2>1, TargetTyped DEF Synthesizable
    <2>3. wires \in Mat(n)
      BY <1>2 DEF TypeInv, WiresFit
    <2>4. Residual \in Mat(n)
      BY <1>1, <2>2, <2>3, ResidualTyped
    <2>5. pass' = [m |-> Residual, want |-> pass.want, lower |-> pass.lower]
      BY DEF GrayRest, TypeInv, PassFits
    <2> QED
      BY <1>1, <1>2, <2>4, <2>5 DEF PassFits
  <1>5. TermsFit' /\ WiresFit' /\ FramesFit' /\ TreeFits' /\ TopoFits' /\ OutFits'
    <2>1. UNCHANGED <<terms, wires, topo, tree>>
      BY DEF GrayRest
    <2> QED
      BY <1>1, <1>2, <2>1 DEF TypeInv, TermsFit, WiresFit, FramesFit, TreeFits, TopoFits, OutFits
  <1> QED
    BY <1>3, <1>4, <1>5 DEF TypeInv

(* The tree of a parity is rooted in a wire and has parents that are not their children. *)
LEMMA PickTermTypeInv == ASSUME TypeInv, PickTerm PROVE TypeInv'
  <1>1. job' = job /\ job \in Jobs /\ n \in Nat /\ n' = n
    BY JobStays DEF PickTerm
  <1>2. pc = "terms" /\ pc' = "tree" /\ job.kind = "steiner"
    BY DEF PickTerm, TypeInv, KindsFit
  <1>3. KindsFit'
    BY <1>1, <1>2, KindsStay DEF TypeInv, KindsFit, Pcs
  <1>4. PICK p \in DOMAIN terms :
          /\ \E f \in Parents(TreeEdges(p, topo), LeastOf(p)) :
               tree' = [root |-> LeastOf(p), parent |-> f, folded |-> << >>, ticks |-> terms[p]]
          /\ terms' = Without(terms, {p})
    BY DEF PickTerm
  <1>5. PICK f \in Parents(TreeEdges(p, topo), LeastOf(p)) :
          tree' = [root |-> LeastOf(p), parent |-> f, folded |-> << >>, ticks |-> terms[p]]
    BY <1>4
  <1>6. TermsFit'
    <2>1. IsFun(terms) /\ DOMAIN terms \subseteq Parity(n)
      BY <1>2 DEF TypeInv, TermsFit
    <2>2. IsFun(terms') /\ DOMAIN terms' \subseteq DOMAIN terms
      <3>1. terms' = [x \in DOMAIN terms \ {p} |-> terms[x]]
        BY <1>4, StrictSame DEF Without
      <3> QED
        BY <3>1 DEF IsFun
    <2> QED
      BY <1>1, <1>2, <2>1, <2>2 DEF TermsFit
  <1>7. TreeFits'
    <2>1. topo \in Routes(n, job.adj)
      BY <1>2 DEF TypeInv, TopoFits
    <2>2. p \in SUBSET Wires(n) /\ p # {}
      BY <1>2 DEF TypeInv, TermsFit, Parity
    <2>3. DOMAIN f \in SUBSET Wires(n) /\ \A u \in DOMAIN f : f[u] \in Wires(n) /\ {u, f[u]} \in job.adj
      BY <1>1, <2>1, <2>2, ParentsNear
    <2>4. << >> \in Seq(DOMAIN f)
      OBVIOUS
    <2> QED
      BY <1>1, <1>5, <2>3, <2>4 DEF TreeFits
  <1>8. PassFits' /\ WiresFit' /\ FramesFit' /\ TopoFits' /\ OutFits'
    <2>1. UNCHANGED <<wires, pass, topo, out>>
      BY DEF PickTerm
    <2> QED
      BY <1>1, <1>2, <2>1 DEF TypeInv, PassFits, WiresFit, FramesFit, TopoFits, OutFits
  <1> QED
    BY <1>3, <1>6, <1>7, <1>8 DEF TypeInv

(* A sequence and one element more.                                         *)
LEMMA AppendIn ==
    ASSUME NEW A, NEW s \in Seq(A), NEW x \in A
    PROVE  Append(s, x) \in Seq(A)
  OBVIOUS

(* A wire is folded into its parent by a CNOT along an edge.                *)
LEMMA FoldInTypeInv == ASSUME TypeInv, FoldIn PROVE TypeInv'
  <1>1. job' = job /\ job \in Jobs /\ n \in Nat /\ n' = n
    BY JobStays DEF FoldIn
  <1>2. pc = "tree" /\ pc' = "tree" /\ job.kind = "steiner"
    BY DEF FoldIn, TypeInv, KindsFit
  <1>3. KindsFit'
    BY <1>1, <1>2, KindsStay DEF TypeInv, KindsFit, Pcs
  <1>4. PICK u \in DOMAIN tree.parent :
          tree' = [tree EXCEPT !.folded = Append(@, u)] /\ out' = Append(out, Cx(<<u, tree.parent[u]>>))
    BY DEF FoldIn
  <1>5. tree = [root |-> tree.root, parent |-> tree.parent, folded |-> tree.folded, ticks |-> tree.ticks]
        /\ (\A v \in DOMAIN tree.parent : v \in Wires(n) /\ tree.parent[v] \in Wires(n) /\ {v, tree.parent[v]} \in job.adj)
        /\ tree.folded \in Seq(DOMAIN tree.parent)
    BY <1>2 DEF TypeInv, TreeFits
  <1>6. TreeFits'
    <2>0. Append(tree.folded, u) \in Seq(DOMAIN tree.parent)
      BY <1>5, AppendIn
    <2>1. PICK s \in Seq(DOMAIN tree.parent) : s = Append(tree.folded, u)
      BY <2>0, Zenon
    <2>2. tree' = [root |-> tree.root, parent |-> tree.parent, folded |-> s, ticks |-> tree.ticks]
      BY <1>4, <1>5, <2>1
    <2> QED
      BY <1>1, <1>5, <2>1, <2>2 DEF TreeFits
  <1>7. OutFits'
    <2>1. PICK g : g = Cx(<<u, tree.parent[u]>>)
      OBVIOUS
    <2>2. {g.q, g.arg} \in job.adj
      <3>1. g.q = tree.parent[u] /\ g.arg = u /\ {u, tree.parent[u]} = {tree.parent[u], u}
        BY <2>1 DEF Cx
      <3> QED
        BY <1>5, <3>1
    <2>3. OnEdges(out, job.adj)
      BY <1>2 DEF TypeInv, OutFits
    <2>4. OnEdges(Append(out, g), job.adj)
      BY <2>2, <2>3, OnEdgesAppend
    <2> QED
      BY <1>1, <1>4, <2>1, <2>4 DEF OutFits
  <1>8. TermsFit' /\ PassFits' /\ WiresFit' /\ FramesFit' /\ TopoFits'
    <2>1. UNCHANGED <<terms, pass, topo>>
      BY DEF FoldIn
    <2> QED
      BY <1>1, <1>2, <2>1 DEF TypeInv, TermsFit, PassFits, WiresFit, FramesFit, TopoFits
  <1> QED
    BY <1>3, <1>6, <1>7, <1>8 DEF TypeInv

(* The tree is undone along the same edges.                                 *)
LEMMA RotateTypeInv == ASSUME TypeInv, Rotate PROVE TypeInv'
  <1>1. job' = job /\ job \in Jobs /\ n \in Nat /\ n' = n
    BY JobStays DEF Rotate
  <1>2. pc = "tree" /\ pc' = "terms" /\ job.kind = "steiner"
    BY DEF Rotate, TypeInv, KindsFit
  <1>3. KindsFit'
    BY <1>1, <1>2, KindsStay DEF TypeInv, KindsFit, Pcs
  <1>4. OutFits'
    <2> DEFINE D == DOMAIN tree.parent
               rev == Reverse(tree.folded)
               back == [i \in DOMAIN tree.folded |-> <<rev[i], tree.parent[rev[i]]>>]
    <2>1. out' = Append(out, Rz(tree.root, tree.ticks)) \o CxAll(back)
      BY DEF Rotate
    <2>2. back \in Seq(Joined(n, job.adj))
      <3>1. tree.folded \in Seq(D) /\ \A v \in D : v \in Wires(n) /\ tree.parent[v] \in Wires(n) /\ {v, tree.parent[v]} \in job.adj
        BY <1>2 DEF TypeInv, TreeFits
      <3>2. rev = [i \in 1 .. Len(tree.folded) |-> tree.folded[(Len(tree.folded) - i) + 1]]
        BY DEF Reverse
      <3>3. Len(tree.folded) \in Nat /\ DOMAIN tree.folded = 1 .. Len(tree.folded)
            /\ \A i \in 1 .. Len(tree.folded) : tree.folded[i] \in D
        BY <3>1
      <3>4. ASSUME NEW i \in 1 .. Len(tree.folded) PROVE <<rev[i], tree.parent[rev[i]]>> \in Joined(n, job.adj)
        <4>1. rev[i] \in D
          <5>1. rev[i] = tree.folded[(Len(tree.folded) - i) + 1]
            BY <3>2
          <5>2. (Len(tree.folded) - i) + 1 \in 1 .. Len(tree.folded)
            BY <3>3
          <5> QED
            BY <3>3, <5>1, <5>2
        <4> HIDE DEF rev
        <4> QED
          BY <3>1, <4>1 DEF Joined
      <3>5. back = [i \in 1 .. Len(tree.folded) |-> <<rev[i], tree.parent[rev[i]]>>]
        BY <3>3
      <3> HIDE DEF back, rev
      <3> QED
        BY <3>3, <3>4, <3>5
    <2> HIDE DEF back
    <2>3. OnEdges(out, job.adj)
      BY <1>2 DEF TypeInv, OutFits
    <2>4. Rz(tree.root, tree.ticks).op # "cx"
      BY DEF Rz
    <2>5. OnEdges(Append(out, Rz(tree.root, tree.ticks)), job.adj)
      BY <2>3, <2>4, OnEdgesAppend
    <2>6. OnEdges(CxAll(back), job.adj)
      BY <1>1, <2>2, CxAllOnEdges
    <2>7. OnEdges(out', job.adj)
      BY <2>1, <2>5, <2>6, OnEdgesConcat
    <2> QED
      BY <1>1, <2>7 DEF OutFits
  <1>5. TermsFit' /\ PassFits' /\ WiresFit' /\ FramesFit' /\ TreeFits' /\ TopoFits'
    <2>1. UNCHANGED <<terms, pass, topo>>
      BY DEF Rotate
    <2> QED
      BY <1>1, <1>2, <2>1 DEF TypeInv, TermsFit, PassFits, WiresFit, FramesFit, TreeFits, TopoFits
  <1> QED
    BY <1>3, <1>4, <1>5 DEF TypeInv

(* The last parity is placed.                                               *)
LEMMA SteinerRestTypeInv == ASSUME TypeInv, SteinerRest PROVE TypeInv'
  <1>1. job' = job /\ job \in Jobs /\ n \in Nat /\ n' = n
    BY JobStays DEF SteinerRest
  <1>2. pc = "terms" /\ pc' = "lower" /\ job.kind = "steiner"
    BY DEF SteinerRest, TypeInv, KindsFit
  <1>3. KindsFit'
    BY <1>1, <1>2, KindsStay DEF TypeInv, KindsFit, Pcs
  <1>4. UNCHANGED <<pass, topo, out>>
    BY DEF SteinerRest
  <1>5. TermsFit' /\ PassFits' /\ WiresFit' /\ FramesFit' /\ TreeFits' /\ TopoFits' /\ OutFits'
    BY <1>1, <1>2, <1>4 DEF TypeInv, TermsFit, PassFits, WiresFit, FramesFit, TreeFits, TopoFits, OutFits
  <1> QED
    BY <1>3, <1>5 DEF TypeInv

(* The first pass keeps the matrix it was asked for.                        *)
LEMMA LowerTypeInv == ASSUME TypeInv, Lower PROVE TypeInv'
  <1>1. job' = job /\ job \in Jobs /\ n \in Nat /\ n' = n
    BY JobStays DEF Lower
  <1>2. pc = "lower" /\ pc' \in {"upper", "fallback", "refused"}
    BY DEF Lower, Failed
  <1>3. KindsFit'
    BY <1>1, <1>2, KindsStay DEF TypeInv, KindsFit, Pcs
  <1>4. PassFits'
    <2>1. Size \in Nat \ {0}
      BY <1>1, JobTyped, SizeTyped
    <2>2. pass.m \in Mat(n)
      BY <1>2 DEF TypeInv, PassFits
    <2>3. PICK d \in Elim(n) : d = LowerPass(pass.m, n, Size)
      BY <1>1, <2>1, <2>2, LowerPassTyped
    <2>4. d.m \in Mat(n) /\ d.ops \in Seq(Gates(n))
      BY DEF Elim
    <2>5. Transpose(d.m) \in Mat(n)
      BY <1>1, <2>4, TransposeTyped
    <2>6. pass' = [pass EXCEPT !.want = pass.m, !.m = Transpose(d.m), !.lower = d.ops]
      BY <2>3 DEF Lower
    <2>7. pass' = [m |-> Transpose(d.m), want |-> pass.m, lower |-> d.ops]
      BY <2>6 DEF TypeInv, PassFits
    <2> QED
      BY <1>1, <1>2, <2>2, <2>4, <2>5, <2>7 DEF PassFits
  <1>5. TermsFit' /\ WiresFit' /\ FramesFit' /\ TreeFits' /\ TopoFits' /\ OutFits'
    <2>1. UNCHANGED <<wires, topo, out>>
      BY DEF Lower
    <2> QED
      BY <1>1, <1>2, <2>1 DEF TypeInv, TermsFit, WiresFit, FramesFit, TreeFits, TopoFits, OutFits
  <1> QED
    BY <1>3, <1>4, <1>5 DEF TypeInv

(* What closes a circuit runs on the topology.                              *)
LEMMA EmitOnEdges ==
    ASSUME TypeInv, pc # "start", NEW cnots \in Seq(Gates(n)), Emit(cnots), job' = job
    PROVE  OutFits' /\ pc' \in {"done", "costly"}
  <1>1. job \in Jobs /\ n \in Nat
    BY JobTyped DEF TypeInv, KindsFit
  <1>2. pc' \in {"done", "costly"}
    BY DEF Emit
  <1>3. ASSUME job.kind = "steiner" PROVE OnEdges(out', job.adj)
    <2>1. PICK routed : routed = RouteAll(topo, cnots)
      OBVIOUS
    <2>2. PICK xs : xs = SetToSeq(Offsets)
      OBVIOUS
    <2>3. out' = out \o CxAll(routed) \o [i \in DOMAIN xs |-> X(xs[i])]
      BY <1>3, <2>1, <2>2 DEF Emit
    <2>4. topo \in Routes(n, job.adj) /\ OnEdges(out, job.adj)
      BY <1>3 DEF TypeInv, TopoFits, OutFits
    <2>5. routed \in Seq(Joined(n, job.adj))
      BY <1>1, <2>1, <2>4, RouteAllJoined
    <2>6. OnEdges(CxAll(routed), job.adj)
      BY <1>1, <2>5, CxAllOnEdges
    <2>7. IsFiniteSet(Offsets)
      BY <1>1, WiresFinite DEF Offsets
    <2>8. OnEdges([i \in DOMAIN xs |-> X(xs[i])], job.adj)
      BY <2>2, <2>7, XsOnEdges
    <2>9. OnEdges(out \o CxAll(routed), job.adj)
      BY <2>4, <2>6, OnEdgesConcat
    <2> QED
      BY <2>3, <2>8, <2>9, OnEdgesConcat
  <1> QED
    BY <1>2, <1>3 DEF OutFits

(* The stitched circuit is emitted along the routes.                        *)
LEMMA UpperTypeInv == ASSUME TypeInv, Upper PROVE TypeInv'
  <1>1. job' = job /\ job \in Jobs /\ n \in Nat /\ n' = n
    BY JobStays DEF Upper
  <1>2. PICK cnots : cnots = Stitch(pass.lower, LowerPass(pass.m, n, Size).ops)
    OBVIOUS
  <1>3. cnots \in Seq(Gates(n)) /\ pass.want \in Mat(n) /\ pass.lower \in Seq(Gates(n))
    <2>1. Size \in Nat \ {0}
      BY <1>1, JobTyped, SizeTyped
    <2>2. pass.m \in Mat(n) /\ pass.want \in Mat(n) /\ pass.lower \in Seq(Gates(n))
      BY DEF TypeInv, PassFits, Upper
    <2>3. LowerPass(pass.m, n, Size).ops \in Seq(Gates(n))
      BY <1>1, <2>1, <2>2, LowerPassTyped DEF Elim
    <2> QED
      BY <1>1, <1>2, <2>2, <2>3, StitchTyped
  <1>4. OutFits' /\ pc' \in {"done", "costly", "fallback", "refused"}
    <2>1. CASE Emit(cnots)
      BY <1>1, <1>3, <2>1, EmitOnEdges DEF Upper
    <2>2. CASE pc' = Failed /\ UNCHANGED out
      BY <1>1, <2>2 DEF OutFits, TypeInv, Failed
    <2> QED
      BY <1>2, <2>1, <2>2 DEF Upper
  <1>5. pc = "upper"
    BY DEF Upper
  <1>6. KindsFit'
    BY <1>1, <1>4, <1>5, KindsStay DEF TypeInv, KindsFit, Pcs
  <1>7. TermsFit' /\ PassFits' /\ WiresFit' /\ FramesFit' /\ TreeFits' /\ TopoFits'
    <2>1. UNCHANGED <<wires, topo, pass>>
      BY DEF Upper
    <2> QED
      BY <1>1, <1>3, <1>4, <1>5, <2>1 DEF TypeInv, TermsFit, PassFits, WiresFit, FramesFit, TreeFits, TopoFits
  <1> QED
    BY <1>4, <1>6, <1>7 DEF TypeInv

(* So is the circuit of Gauss-Jordan.                                       *)
LEMMA FallbackTypeInv == ASSUME TypeInv, Fallback PROVE TypeInv'
  <1>1. job' = job /\ job \in Jobs /\ n \in Nat /\ n' = n
    BY JobStays DEF Fallback
  <1>2. PICK cnots : cnots = GaussJordan(pass.want, n)
    OBVIOUS
  <1>3. cnots \in Seq(Gates(n))
    <2>1. pass.want \in Mat(n)
      BY DEF TypeInv, PassFits, Fallback
    <2> QED
      BY <1>1, <1>2, <2>1, GaussJordanTyped
  <1>4. pc = "fallback"
    BY DEF Fallback
  <1>5. OutFits' /\ pc' \in {"done", "costly"}
    BY <1>1, <1>2, <1>3, <1>4, EmitOnEdges DEF Fallback
  <1>6. KindsFit'
    BY <1>1, <1>4, <1>5, KindsStay DEF TypeInv, KindsFit, Pcs
  <1>7. TermsFit' /\ PassFits' /\ WiresFit' /\ FramesFit' /\ TreeFits' /\ TopoFits'
    <2>1. UNCHANGED <<wires, topo, pass>>
      BY DEF Fallback
    <2> QED
      BY <1>1, <1>4, <1>5, <2>1 DEF TypeInv, TermsFit, PassFits, WiresFit, FramesFit, TreeFits, TopoFits
  <1> QED
    BY <1>5, <1>6, <1>7 DEF TypeInv

(* The types do not depend on anything but the variables.                   *)
LEMMA StutterTypeInv == ASSUME TypeInv, UNCHANGED vars PROVE TypeInv'
  <1>1. job' = job /\ n' = n /\ (Admitted' <=> Admitted)
    BY JobStays DEF vars
  <1> HIDE DEF Admitted
  <1> QED
    BY <1>1 DEF vars, TypeInv, KindsFit, TermsFit, PassFits, WiresFit, FramesFit, TreeFits, TopoFits, OutFits

(* Every step keeps the types.                                              *)
LEMMA StepTypeInv == TypeInv /\ [Next]_vars => TypeInv'
  <1> SUFFICES ASSUME TypeInv, [Next]_vars PROVE TypeInv'
    OBVIOUS
  <1> HIDE DEF TypeInv
  <1> QED
    BY StartTypeInv, LiftTypeInv, LiftedTypeInv, PopTypeInv, ShareTypeInv, SplitTypeInv, GrayRestTypeInv,
       PickTermTypeInv, FoldInTypeInv, RotateTypeInv, SteinerRestTypeInv,
       LowerTypeInv, UpperTypeInv, FallbackTypeInv, StutterTypeInv DEF Next, Stop

(* Type correctness.                                                        *)
THEOREM SynthesisTypes == Spec => []TypeInv
  BY InitTypeInv, StepTypeInv, PTL DEF Spec

(* The circuits of synthesize_steiner_logic run on the topology they were   *)
(* made for, the CNOTs of the routed linear part included.                  *)
THEOREM SteinerOnTopology == Spec => []OnTopology
  <1>1. TypeInv => OnTopology
    <2> SUFFICES ASSUME TypeInv, job.kind = "steiner" PROVE \A i \in DOMAIN out : out[i].op = "cx" => {out[i].q, out[i].arg} \in job.adj
      BY DEF OnTopology
    <2>1. PICK A : out \in Seq(A) /\ \A g \in A : g.op = "cx" => {g.q, g.arg} \in job.adj
      BY DEF TypeInv, OutFits, OnEdges
    <2>2. \A i \in DOMAIN out : out[i] \in A
      BY <2>1
    <2> QED
      BY <2>1, <2>2
  <1> QED
    BY <1>1, SynthesisTypes, PTL

(* An element more or less changes the parity of a cardinality.             *)
LEMMA Flips ==
    ASSUME NEW Z, IsFiniteSet(Z), NEW x
    PROVE  /\ IsFiniteSet(SymDiff(Z, {x}))
           /\ Cardinality(SymDiff(Z, {x})) % 2 = 1 <=> ~(Cardinality(Z) % 2 = 1)
  <1>0. PICK k \in Nat : k = Cardinality(Z)
    BY FS_CardinalityType
  <1>a. \A j \in Int : (j + 1) % 2 = 1 <=> ~(j % 2 = 1)
    OBVIOUS
  <1>b. k - 1 \in Int /\ (k - 1) + 1 = k
    OBVIOUS
  <1>1. CASE x \in Z
    <2>1. SymDiff(Z, {x}) = Z \ {x}
      BY <1>1 DEF SymDiff
    <2>2. IsFiniteSet(Z \ {x}) /\ Cardinality(Z \ {x}) = Cardinality(Z) - 1
      BY <1>1, FS_RemoveElement
    <2>3. (k - 1) % 2 = 1 <=> ~(k % 2 = 1)
      BY <1>a, <1>b
    <2> QED
      BY <1>0, <2>1, <2>2, <2>3
  <1>2. CASE x \notin Z
    <2>1. SymDiff(Z, {x}) = Z \cup {x}
      BY <1>2 DEF SymDiff
    <2>2. IsFiniteSet(Z \cup {x}) /\ Cardinality(Z \cup {x}) = Cardinality(Z) + 1
      BY <1>2, FS_AddElement
    <2>3. (k + 1) % 2 = 1 <=> ~(k % 2 = 1)
      BY <1>a
    <2> QED
      BY <1>0, <2>1, <2>2, <2>3
  <1> QED
    BY <1>1, <1>2

(* There are finitely many wires of a parity that carry an input.           *)
LEMMA RowsFinite ==
    ASSUME NEW N \in Nat, NEW y \in SUBSET Wires(N), NEW m, NEW v
    PROVE  IsFiniteSet(Rows(m, y, v)) /\ IsFiniteSet(y)
  <1>1. IsFiniteSet(y)
    BY WiresFinite
  <1>2. Rows(m, y, v) \in SUBSET y
    BY DEF Rows
  <1> QED
    BY <1>1, <1>2, FS_Subset

(* What the wires of a parity add up to.                                    *)
LEMMA SumIs ==
    ASSUME NEW N \in Nat, NEW m \in Mat(N), NEW y
    PROVE  /\ Sum(m, y) \subseteq Wires(N)
           /\ \A v \in Wires(N) : v \in Sum(m, y) <=> Cardinality(Rows(m, y, v)) % 2 = 1
  BY DEF Sum, Rows, Mat

(* The dual of a CNOT: what the wires of a parity add up to stays the same. *)
LEMMA DualKeepsSum ==
    ASSUME NEW N \in Nat, NEW m \in Mat(N), NEW c \in Wires(N), NEW t \in Wires(N), c # t,
           NEW y \in SUBSET Wires(N)
    PROVE  Sum(AddRow(m, c, t), Dual(y, c, t)) = Sum(m, y)
  <1>1. PICK a \in Mat(N) : /\ a = AddRow(m, c, t)
                            /\ \A q \in Wires(N) : a[q] = IF q = t THEN SymDiff(m[t], m[c]) ELSE m[q]
    BY AddRowTyped
  <1>2. PICK z \in SUBSET Wires(N) : z = Dual(y, c, t)
    BY DEF Dual, SymDiff
  <1>3. ASSUME NEW v \in Wires(N)
        PROVE  Cardinality(Rows(a, z, v)) % 2 = 1 <=> Cardinality(Rows(m, y, v)) % 2 = 1
    <2>1. CASE t \notin y
      <3>1. z = y
        BY <1>2, <2>1 DEF Dual
      <3>2. Rows(a, z, v) = Rows(m, y, v)
        BY <1>1, <2>1, <3>1 DEF Rows
      <3> QED
        BY <3>2
    <2>2. CASE t \in y /\ v \notin m[c]
      <3>1. z = SymDiff(y, {c})
        BY <1>2, <2>2 DEF Dual
      <3>2. Rows(a, z, v) = Rows(m, y, v)
        BY <1>1, <2>2, <3>1 DEF Rows, SymDiff
      <3> QED
        BY <3>2
    <2>3. CASE t \in y /\ v \in m[c]
      <3>1. z = SymDiff(y, {c})
        BY <1>2, <2>3 DEF Dual
      <3>2. Rows(a, z, v) = SymDiff(SymDiff(Rows(m, y, v), {t}), {c})
        BY <1>1, <2>3, <3>1 DEF Rows, SymDiff
      <3>3. IsFiniteSet(Rows(m, y, v))
        BY RowsFinite
      <3>4. IsFiniteSet(SymDiff(Rows(m, y, v), {t}))
        BY <3>3, Flips
      <3>5. /\ Cardinality(SymDiff(Rows(m, y, v), {t})) % 2 = 1 <=> ~(Cardinality(Rows(m, y, v)) % 2 = 1)
            /\ Cardinality(SymDiff(SymDiff(Rows(m, y, v), {t}), {c})) % 2 = 1
                 <=> ~(Cardinality(SymDiff(Rows(m, y, v), {t})) % 2 = 1)
        BY <3>3, <3>4, Flips
      <3> QED
        BY <3>2, <3>5
    <2> QED
      BY <2>1, <2>2, <2>3
  <1>4. Sum(a, z) = Sum(m, y)
    <2>1. \A v \in Wires(N) : v \in Sum(a, z) <=> v \in Sum(m, y)
      BY <1>3, SumIs
    <2>2. Sum(a, z) \subseteq Wires(N) /\ Sum(m, y) \subseteq Wires(N)
      BY SumIs
    <2> QED
      BY <2>1, <2>2
  <1> QED
    BY <1>1, <1>2, <1>4

(* One wire carries its row.                                                *)
LEMMA SumOfOne ==
    ASSUME NEW N \in Nat, NEW m \in Mat(N), NEW q \in Wires(N)
    PROVE  Sum(m, {q}) = m[q]
  <1>1. ASSUME NEW v \in Wires(N) PROVE v \in Sum(m, {q}) <=> v \in m[q]
    <2>1. CASE v \in m[q]
      <3>0. Rows(m, {q}, v) = {q}
        BY <2>1 DEF Rows
      <3>1. Rows(m, {q}, v) = {q} /\ Cardinality({q}) = 1
        BY <3>0, FS_Singleton
      <3>2. 1 % 2 = 1
        OBVIOUS
      <3> QED
        BY <2>1, <3>1, <3>2, SumIs
    <2>2. CASE v \notin m[q]
      <3>1. Rows(m, {q}, v) = {} /\ Cardinality({}) = 0
        BY <2>2, FS_EmptySet DEF Rows
      <3>2. ~(0 % 2 = 1)
        OBVIOUS
      <3> QED
        BY <2>2, <3>1, <3>2, SumIs
    <2> QED
      BY <2>1, <2>2
  <1>2. Sum(m, {q}) \subseteq Wires(N) /\ m[q] \subseteq Wires(N)
    BY SumIs DEF Mat
  <1> QED
    BY <1>1, <1>2

(* The wires start with their own inputs.                                   *)
LEMMA SumOfInputs ==
    ASSUME NEW N \in Nat, NEW y \in SUBSET Wires(N)
    PROVE  Sum(IdentityMap(N), y) = y
  <1>1. PICK m \in Mat(N) : m = IdentityMap(N) /\ \A q \in Wires(N) : m[q] = {q}
    BY IdentityTyped
  <1>2. ASSUME NEW v \in Wires(N) PROVE v \in Sum(m, y) <=> v \in y
    <2>1. CASE v \in y
      <3>0. Rows(m, y, v) = {v}
        BY <1>1, <2>1 DEF Rows
      <3>1. Rows(m, y, v) = {v} /\ Cardinality({v}) = 1
        BY <3>0, FS_Singleton
      <3>2. 1 % 2 = 1
        OBVIOUS
      <3> QED
        BY <2>1, <3>1, <3>2, SumIs
    <2>2. CASE v \notin y
      <3>1. Rows(m, y, v) = {} /\ Cardinality({}) = 0
        BY <1>1, <2>2, FS_EmptySet DEF Rows
      <3>2. ~(0 % 2 = 1)
        OBVIOUS
      <3> QED
        BY <2>2, <3>1, <3>2, SumIs
    <2> QED
      BY <2>1, <2>2
  <1>3. Sum(m, y) \subseteq Wires(N)
    BY SumIs
  <1> QED
    BY <1>1, <1>2, <1>3

(* A gate more of a circuit, the wires and the phases so far.               *)
LEMMA TracedIs ==
    ASSUME n \in Nat, NEW A, NEW a \in Traces(A), NEW g \in Ops(A)
    PROVE  /\ Traced(a, g) \in Traces(A)
           /\ g.op = "cx" => Traced(a, g).m = AddRow(a.m, g.arg, g.q) /\ Traced(a, g).rz = a.rz
           /\ g.op # "cx" => Traced(a, g).m = a.m /\ Traced(a, g).rz = Append(a.rz, <<a.m[g.q], g.arg>>)
  <1>0. a = [m |-> a.m, rz |-> a.rz] /\ a.m \in Mat(n) /\ a.rz \in Seq((SUBSET Wires(n)) \X A)
    BY DEF Traces
  <1>1. CASE g.op = "cx"
    <2>1. g.q \in Wires(n) /\ g.arg \in Wires(n)
      BY <1>1 DEF Ops
    <2>2. PICK b \in Mat(n) : b = AddRow(a.m, g.arg, g.q)
      BY <1>0, <2>1, AddRowTyped
    <2>3. Traced(a, g) = [m |-> b, rz |-> a.rz]
      BY <1>0, <1>1, <2>2 DEF Traced
    <2> QED
      BY <1>0, <1>1, <2>2, <2>3 DEF Traces
  <1>2. CASE g.op # "cx"
    <2>1. g.q \in Wires(n) /\ g.arg \in A
      BY <1>2 DEF Ops
    <2>2. <<a.m[g.q], g.arg>> \in (SUBSET Wires(n)) \X A
      BY <1>0, <2>1 DEF Mat
    <2>2a. Append(a.rz, <<a.m[g.q], g.arg>>) \in Seq((SUBSET Wires(n)) \X A)
      BY <1>0, <2>2, AppendIn
    <2>3. PICK b \in Seq((SUBSET Wires(n)) \X A) : b = Append(a.rz, <<a.m[g.q], g.arg>>)
      BY <2>2a, Zenon
    <2>4. Traced(a, g) = [m |-> a.m, rz |-> b]
      BY <1>0, <1>2, <2>3 DEF Traced
    <2> QED
      BY <1>0, <1>2, <2>3, <2>4 DEF Traces
  <1> QED
    BY <1>1, <1>2 DEF Ops

(* The wires and the phases between the gates of a circuit.                 *)
LEMMA TraceRuns ==
    ASSUME n \in Nat, NEW A, NEW circuit \in Seq(Ops(A))
    PROVE  \E g \in [1 .. Len(circuit) + 1 -> Traces(A)] :
             /\ g[1] = [m |-> IdentityMap(n), rz |-> << >>]
             /\ \A i \in 1 .. Len(circuit) : g[i + 1] = Traced(g[i], circuit[i])
             /\ Trace(circuit) = g[Len(circuit) + 1]
  <1> DEFINE S == Traces(A)
             First == 1
             Final == Len(circuit) + 1
             Base == [m |-> IdentityMap(n), rz |-> << >>]
             Step(s, i) == Traced(s, circuit[i])
             F == [i \in First .. Final - 1 |-> [s \in S |-> Step(s, i)]]
  <1>1. First \in Nat /\ Final \in Nat /\ First <= Final /\ Base \in S
    <2>1. << >> \in Seq((SUBSET Wires(n)) \X A)
      OBVIOUS
    <2>2. IdentityMap(n) \in Mat(n)
      BY IdentityTyped
    <2>3. Base \in S
      BY <2>1, <2>2 DEF Traces
    <2>4. Len(circuit) \in Nat
      OBVIOUS
    <2> QED
      BY <2>3, <2>4
  <1>2. \A i \in First .. Final - 1, s \in S : Step(s, i) \in S
    <2>1. \A i \in First .. Final - 1 : circuit[i] \in Ops(A)
      OBVIOUS
    <2> QED
      BY <2>1, TracedIs
  <1>3. First .. Final - 1 = 1 .. Len(circuit)
    BY <1>1
  <1> HIDE DEF S, Step, First, Final, Base
  <1>4. F \in [First .. Final - 1 -> [S -> S]] /\ \A i \in First .. Final - 1, s \in S : F[i][s] = Step(s, i)
    BY <1>2
  <1> HIDE DEF F
  <1>5. PICK f \in [First .. Final -> S] : Follows(f, Base, F, First, Final)
    BY <1>1, <1>4, Iterates
  <1>6. f = [i \in First .. Final |-> IF i = First THEN Base ELSE Step(f[i - 1], i - 1)]
    BY <1>1, <1>4, <1>5 DEF Follows
  <1>7. PICK g : /\ g = [i \in First .. Final |-> IF i = First THEN Base ELSE Step(g[i - 1], i - 1)]
                 /\ Trace(circuit) = g[Final]
    BY <1>6 DEF Trace, Loop, First, Final, Base, Step
  <1>8. g[First] = Base /\ \A i \in First .. Final - 1 : g[i + 1] = Step(g[i], i)
    BY <1>1, <1>7
  <1>9. g = [i \in First .. Final |-> g[i]] /\ g[First] \in S
    BY <1>1, <1>7, <1>8
  <1>10. \A i \in First .. Final - 1 : g[i] \in S => g[i + 1] \in S
    BY <1>2, <1>8
  <1>11. g \in [First .. Final -> S]
    BY <1>1, <1>9, <1>10, Stays
  <1>12. g[First] = Base /\ (\A i \in 1 .. Len(circuit) : g[i + 1] = Step(g[i], i)) /\ Trace(circuit) = g[Final]
    BY <1>3, <1>7, <1>8
  <1> QED
    BY <1>11, <1>12 DEF S, First, Final, Base, Step

(* The run of a longer circuit goes through what a prefix of it traces.     *)
LEMMA TracePrefix ==
    ASSUME n \in Nat, NEW A, NEW s \in Seq(Ops(A)), NEW t \in Seq(Ops(A)), Begins(t, s)
    PROVE  \E g \in [1 .. Len(t) + 1 -> Traces(A)] :
             /\ g[Len(s) + 1] = Trace(s)
             /\ \A i \in 1 .. Len(t) : g[i + 1] = Traced(g[i], t[i])
             /\ Trace(t) = g[Len(t) + 1]
  <1>1. PICK f \in [1 .. Len(s) + 1 -> Traces(A)] :
          /\ f[1] = [m |-> IdentityMap(n), rz |-> << >>]
          /\ \A i \in 1 .. Len(s) : f[i + 1] = Traced(f[i], s[i])
          /\ Trace(s) = f[Len(s) + 1]
    BY TraceRuns
  <1>2. PICK g \in [1 .. Len(t) + 1 -> Traces(A)] :
          /\ g[1] = [m |-> IdentityMap(n), rz |-> << >>]
          /\ \A i \in 1 .. Len(t) : g[i + 1] = Traced(g[i], t[i])
          /\ Trace(t) = g[Len(t) + 1]
    BY TraceRuns
  <1>0. Len(s) <= Len(t) /\ \A i \in 1 .. Len(s) : t[i] = s[i]
    BY DEF Begins
  <1>3. PICK k \in Nat : k = Len(s)
    OBVIOUS
  <1>4. PICK l \in Nat : l = Len(t)
    OBVIOUS
  <1> DEFINE P == {i \in 1 .. k + 1 : f[i] = g[i]}
  <1>5. ASSUME NEW i \in 1 .. k + 1 - 1, i \in P PROVE i + 1 \in P
    <2>1. i \in 1 .. Len(s) /\ i \in 1 .. Len(t) /\ i + 1 \in 1 .. k + 1
      BY <1>0, <1>3, <1>4
    <2>2. f[i + 1] = Traced(f[i], s[i]) /\ g[i + 1] = Traced(g[i], t[i]) /\ t[i] = s[i]
      BY <1>0, <1>1, <1>2, <2>1
    <2> QED
      BY <1>5, <2>1, <2>2
  <1>6. 1 \in P
    BY <1>1, <1>2, <1>3
  <1>7. 1 \in Nat /\ k + 1 \in Nat /\ 1 <= k + 1
    BY <1>3
  <1> HIDE DEF P
  <1>8. k + 1 \in P
    BY <1>5, <1>6, <1>7, ClimbsTo
  <1>9. g[Len(s) + 1] = Trace(s)
    BY <1>1, <1>3, <1>8 DEF P
  <1> QED
    BY <1>2, <1>9

(* Nothing is traced before the first gate.                                 *)
LEMMA TraceEmpty ==
    ASSUME n \in Nat
    PROVE  Trace(<< >>) = [m |-> IdentityMap(n), rz |-> << >>]
  <1>1. << >> \in Seq(Ops({})) /\ Len(<< >>) = 0
    OBVIOUS
  <1>2. PICK c \in Seq(Ops({})) : c = << >> /\ Len(c) = 0
    BY <1>1
  <1>3. PICK g \in [1 .. Len(c) + 1 -> Traces({})] :
          /\ g[1] = [m |-> IdentityMap(n), rz |-> << >>]
          /\ \A i \in 1 .. Len(c) : g[i + 1] = Traced(g[i], c[i])
          /\ Trace(c) = g[Len(c) + 1]
    BY TraceRuns
  <1>4. 0 + 1 = 1
    OBVIOUS
  <1> QED
    BY <1>2, <1>3, <1>4

(* A circuit and a CNOT: the phases stay, the wires change.                 *)
LEMMA TraceCx ==
    ASSUME n \in Nat, NEW A, NEW s \in Seq(Ops(A)), NEW c \in Wires(n), NEW t \in Wires(n), c # t
    PROVE  /\ Append(s, Cx(<<c, t>>)) \in Seq(Ops(A))
           /\ Trace(s) \in Traces(A)
           /\ Trace(Append(s, Cx(<<c, t>>))).m = AddRow(Trace(s).m, c, t)
           /\ Trace(Append(s, Cx(<<c, t>>))).rz = Trace(s).rz
  <1>1. PICK x : x = Cx(<<c, t>>)
    OBVIOUS
  <1>2. x \in Ops(A) /\ x.op = "cx" /\ x.q = t /\ x.arg = c
    BY <1>1 DEF Cx, Ops
  <1>3. Append(s, x) \in Seq(Ops(A)) /\ Len(Append(s, x)) = Len(s) + 1 /\ Append(s, x)[Len(s) + 1] = x
        /\ \A i \in 1 .. Len(s) : Append(s, x)[i] = s[i]
    BY <1>2
  <1>4. PICK e \in Seq(Ops(A)) : e = Append(s, x)
    BY <1>3, Zenon
  <1>5. Len(e) = Len(s) + 1 /\ e[Len(s) + 1] = x /\ (\A i \in 1 .. Len(s) : e[i] = s[i]) /\ Len(s) \in Nat
    BY <1>3, <1>4
  <1>6. Len(s) <= Len(e)
    BY <1>5
  <1>6a. Begins(e, s)
    BY <1>5, <1>6 DEF Begins
  <1>7. PICK g \in [1 .. Len(e) + 1 -> Traces(A)] :
          /\ g[Len(s) + 1] = Trace(s)
          /\ \A i \in 1 .. Len(e) : g[i + 1] = Traced(g[i], e[i])
          /\ Trace(e) = g[Len(e) + 1]
    BY <1>6a, TracePrefix
  <1>8. Len(s) + 1 \in 1 .. Len(e) /\ Len(s) + 1 \in 1 .. Len(e) + 1
    BY <1>5
  <1>9. Trace(s) \in Traces(A) /\ Trace(e) = Traced(Trace(s), x)
    BY <1>5, <1>7, <1>8
  <1>10. Trace(e).m = AddRow(Trace(s).m, c, t) /\ Trace(e).rz = Trace(s).rz
    BY <1>2, <1>9, TracedIs
  <1> QED
    BY <1>1, <1>3, <1>4, <1>9, <1>10

(* The elements of a sequence, and one more.                                *)
LEMMA AppendSet ==
    ASSUME NEW A, NEW s \in Seq(A), NEW x
    PROVE  ToSet(Append(s, x)) = ToSet(s) \cup {x} /\ Len(Append(s, x)) = Len(s) + 1 /\ Len(s) \in Nat
  <1>0. s \in Seq(A \cup {x}) /\ x \in A \cup {x}
    OBVIOUS
  <1>1. PICK e : e = Append(s, x)
    OBVIOUS
  <1>2. Len(e) = Len(s) + 1 /\ DOMAIN e = 1 .. Len(s) + 1 /\ e[Len(s) + 1] = x
        /\ (\A i \in 1 .. Len(s) : e[i] = s[i]) /\ Len(s) \in Nat /\ DOMAIN s = 1 .. Len(s)
    BY <1>0, <1>1
  <1>3. PICK k \in Nat : k = Len(s)
    BY <1>2, Zenon
  <1>4. 1 .. k + 1 = (1 .. k) \cup {k + 1}
    BY <1>3
  <1>5. ToSet(e) = {e[i] : i \in 1 .. k + 1} /\ ToSet(s) = {s[i] : i \in 1 .. k}
    BY <1>2, <1>3 DEF ToSet
  <1>6. ToSet(e) = ToSet(s) \cup {x}
    BY <1>2, <1>3, <1>4, <1>5
  <1> QED
    BY <1>1, <1>2, <1>6

(* Two sequences.                                                           *)
LEMMA ConcatIn ==
    ASSUME NEW A, NEW s \in Seq(A), NEW t \in Seq(A)
    PROVE  s \o t \in Seq(A)
  OBVIOUS

(* Gates on one wire more: the wires stay, each turns what is on its wire.  *)
LEMMA TraceLocals ==
    ASSUME n \in Nat, NEW A, NEW s \in Seq(Ops(A)), NEW R \in Seq(Locals(A))
    PROVE  /\ s \o R \in Seq(Ops(A))
           /\ Trace(s) \in Traces(A) /\ Trace(s \o R) \in Traces(A)
           /\ Trace(s \o R).m = Trace(s).m
           /\ Len(Trace(s \o R).rz) = Len(Trace(s).rz) + Len(R)
           /\ ToSet(Trace(s \o R).rz) = ToSet(Trace(s).rz) \cup Seen(Trace(s).m, R)
  <1>0a. Locals(A) \subseteq Ops(A)
    BY DEF Ops, Locals
  <1>0. R \in Seq(Ops(A))
    BY <1>0a
  <1>0b. s \o R \in Seq(Ops(A))
    BY <1>0, ConcatIn
  <1>1. PICK e \in Seq(Ops(A)) : e = s \o R
    BY <1>0b, Zenon
  <1>2. PICK k \in Nat : k = Len(s)
    OBVIOUS
  <1>3. PICK l \in Nat : l = Len(R)
    BY <1>0
  <1>4. Len(e) = k + l /\ (\A i \in 1 .. k : e[i] = s[i]) /\ (\A i \in 1 .. l : e[k + i] = R[i])
    BY <1>0, <1>1, <1>2, <1>3
  <1>5. Begins(e, s)
    BY <1>2, <1>3, <1>4 DEF Begins
  <1>6. PICK g \in [1 .. Len(e) + 1 -> Traces(A)] :
          /\ g[Len(s) + 1] = Trace(s)
          /\ \A i \in 1 .. Len(e) : g[i + 1] = Traced(g[i], e[i])
          /\ Trace(e) = g[Len(e) + 1]
    BY <1>5, TracePrefix
  <1>7. PICK a \in Traces(A) : a = Trace(s) /\ a = g[k + 1]
    BY <1>2, <1>3, <1>4, <1>6
  <1>8. a.m \in Mat(n) /\ a.rz \in Seq((SUBSET Wires(n)) \X A)
    BY DEF Traces
  <1>9. PICK L \in Nat : L = Len(a.rz)
    BY <1>8
  <1> DEFINE Sees(i) == {<<a.m[R[x].q], R[x].arg>> : x \in 1 .. i}
             Good(b, i) == b.m = a.m /\ Len(b.rz) = L + i /\ ToSet(b.rz) = ToSet(a.rz) \cup Sees(i)
             P == {i \in 0 .. l : Good(g[(k + 1) + i], i)}
  <1>10. ASSUME NEW i \in 0 .. l - 1, i \in P PROVE i + 1 \in P
    <2>1. PICK b \in Traces(A) : b = g[(k + 1) + i] /\ Good(b, i)
      <3>1. (k + 1) + i \in 1 .. Len(e) + 1
        BY <1>4
      <3>2. Good(g[(k + 1) + i], i)
        BY <1>10
      <3> QED
        BY <1>6, <3>1, <3>2
    <2>2. PICK x \in Locals(A) : x = R[i + 1]
      <3>1. i + 1 \in 1 .. Len(R)
        BY <1>3
      <3> QED
        BY <3>1
    <2>3. x \in Ops(A) /\ x.op # "cx"
      BY DEF Ops, Locals
    <2>4. g[(k + 1) + (i + 1)] = Traced(b, x)
      <3>1. k + (i + 1) \in 1 .. Len(e) /\ (k + (i + 1)) + 1 = (k + 1) + (i + 1) /\ (k + 1) + i = k + (i + 1)
            /\ i + 1 \in 1 .. l
        BY <1>4
      <3>2. e[k + (i + 1)] = x
        BY <1>4, <2>2, <3>1
      <3>3. g[(k + (i + 1)) + 1] = Traced(g[k + (i + 1)], e[k + (i + 1)])
        BY <1>6, <3>1
      <3> QED
        BY <2>1, <3>1, <3>2, <3>3
    <2>5. Traced(b, x).m = b.m /\ Traced(b, x).rz = Append(b.rz, <<b.m[x.q], x.arg>>)
      BY <2>3, TracedIs
    <2>6. b.rz \in Seq((SUBSET Wires(n)) \X A)
      BY DEF Traces
    <2>7. /\ ToSet(Append(b.rz, <<b.m[x.q], x.arg>>)) = ToSet(b.rz) \cup {<<b.m[x.q], x.arg>>}
          /\ Len(Append(b.rz, <<b.m[x.q], x.arg>>)) = Len(b.rz) + 1
      BY <2>6, AppendSet
    <2>8. Sees(i + 1) = Sees(i) \cup {<<a.m[x.q], x.arg>>}
      <3>1. 1 .. i + 1 = (1 .. i) \cup {i + 1}
        OBVIOUS
      <3> QED
        BY <2>2, <3>1
    <2> HIDE DEF Sees
    <2>9. (L + i) + 1 = L + (i + 1) /\ i + 1 \in 0 .. l
      OBVIOUS
    <2>10. Good(Traced(b, x), i + 1)
      BY <2>1, <2>5, <2>7, <2>8, <2>9
    <2> HIDE DEF Good
    <2> QED
      BY <2>4, <2>9, <2>10
  <1>11. 0 \in P
    <2>1. Sees(0) = {}
      OBVIOUS
    <2>2. (k + 1) + 0 = k + 1 /\ L + 0 = L
      OBVIOUS
    <2> HIDE DEF Sees
    <2>3. Good(a, 0)
      BY <1>9, <2>1, <2>2
    <2> HIDE DEF Good
    <2> QED
      BY <1>7, <2>2, <2>3
  <1> HIDE DEF P
  <1>12. 0 \in Nat /\ l \in Nat /\ 0 <= l
    OBVIOUS
  <1>13. l \in P
    BY <1>10, <1>11, <1>12, ClimbsTo
  <1>14. Good(g[(k + 1) + l], l)
    BY <1>13 DEF P
  <1>15. (k + 1) + l = Len(e) + 1 /\ Len(e) + 1 \in 1 .. Len(e) + 1
    BY <1>4
  <1>16. Good(Trace(e), l) /\ Trace(e) \in Traces(A)
    BY <1>6, <1>14, <1>15
  <1>17. Sees(l) = Seen(a.m, R)
    BY <1>3 DEF Seen
  <1> HIDE DEF Sees
  <1> QED
    BY <1>1, <1>3, <1>7, <1>9, <1>16, <1>17

(* A list with these elements.                                              *)
LEMMA ListIs ==
    ASSUME NEW V, NEW k \in Nat, NEW R, R = [i \in 1 .. k |-> R[i]], \A i \in 1 .. k : R[i] \in V
    PROVE  R \in Seq(V) /\ Len(R) = k /\ DOMAIN R = 1 .. k
  OBVIOUS

(* One to one.                                                              *)
LEMMA SameSize ==
    ASSUME NEW U, IsFiniteSet(U), NEW V, NEW F \in [U -> V],
           \A a, b \in U : F[a] = F[b] => a = b,
           \A v \in V : \E a \in U : F[a] = v
    PROVE  IsFiniteSet(V) /\ Cardinality(V) = Cardinality(U) /\ Cardinality(U) \in Nat
  <1>1. F \in Bijection(U, V)
    BY Fun_IsBij
  <1>2. ExistsBijection(U, V)
    BY <1>1 DEF ExistsBijection
  <1> QED
    BY <1>2, FS_Bijection, FS_CardinalityType

(* Two parts without a common element.                                      *)
LEMMA SizeOfParts ==
    ASSUME NEW U, IsFiniteSet(U), NEW V, IsFiniteSet(V), U \cap V = {}
    PROVE  /\ IsFiniteSet(U \cup V) /\ Cardinality(U \cup V) = Cardinality(U) + Cardinality(V)
           /\ Cardinality(U) \in Nat /\ Cardinality(V) \in Nat
  <1>1. Cardinality(U) \in Nat /\ Cardinality(V) \in Nat
    BY FS_CardinalityType
  <1>2. Cardinality(U \cap V) = 0
    BY FS_EmptySet
  <1>3. IsFiniteSet(U \cup V) /\ Cardinality(U \cup V) = Cardinality(U) + Cardinality(V) - Cardinality(U \cap V)
    BY FS_Union
  <1> QED
    BY <1>1, <1>2, <1>3

(* There are finitely many parities.                                        *)
LEMMA PhasesFinite ==
    ASSUME NEW N \in Nat
    PROVE  IsFiniteSet(Parity(N)) /\ \A d : IsPhases(d, N) => IsFiniteSet(DOMAIN d)
  <1>1. IsFiniteSet(SUBSET Wires(N))
    BY WiresFinite, FS_SUBSET
  <1>2. Parity(N) \in SUBSET (SUBSET Wires(N))
    BY DEF Parity
  <1>3. IsFiniteSet(Parity(N))
    BY <1>1, <1>2, FS_Subset
  <1> QED
    BY <1>3, FS_Subset DEF IsPhases

(* gray_place_ready: each dual is placed or stays, and what is placed is    *)
(* what the dual stands for.                                                *)
LEMMA PlacesReady ==
    ASSUME n \in Nat, NEW m \in Mat(n), NEW d, IsPhases(d, n)
    PROVE  /\ PlaceReady(d) \in Seq(Locals(Ticks(d)))
           /\ Len(PlaceReady(d)) + Cardinality(DOMAIN Unplaced(d)) = Cardinality(DOMAIN d)
           /\ Seen(m, PlaceReady(d)) \cup OwedOf(m, Unplaced(d)) = OwedOf(m, d)
  <1> DEFINE W == UNION Ready(d)
  <1>1. Ready(d) \subseteq DOMAIN d /\ DOMAIN d \subseteq SUBSET Wires(n)
    BY DEF Ready, IsPhases, Parity
  <1>2. \A y \in Ready(d) : \E q \in Wires(n) : y = {q}
    <2> SUFFICES ASSUME NEW y \in Ready(d) PROVE \E q \in Wires(n) : y = {q}
      OBVIOUS
    <2>1. y \in SUBSET Wires(n) /\ IsFiniteSet(y) /\ Cardinality(y) = 1
      BY <1>1, WiresFinite DEF Ready
    <2>2. \E q : y = {q}
      BY <2>1, FS_Singleton
    <2> QED
      BY <2>1, <2>2
  <1>3. W \in SUBSET Wires(n) /\ \A q \in W : {q} \in Ready(d)
    <2>1. ASSUME NEW q \in W PROVE q \in Wires(n) /\ {q} \in Ready(d)
      <3>1. PICK y \in Ready(d) : q \in y
        OBVIOUS
      <3>2. PICK x \in Wires(n) : y = {x}
        BY <1>2
      <3> QED
        BY <3>1, <3>2
    <2> QED
      BY <2>1
  <1>4. \A y \in Ready(d) : \E q \in W : y = {q}
    BY <1>2
  <1> HIDE DEF W
  <1>5. IsFiniteSet(W)
    BY <1>3, WiresFinite
  <1>6. PICK at \in Seq(W) : /\ at = SetToSeq(W) /\ Len(at) = Cardinality(W)
                             /\ \A x \in W : \E i \in 1 .. Len(at) : at[i] = x
    BY <1>5, SetToSeqIs
  <1>7. DOMAIN at = 1 .. Len(at) /\ Len(at) \in Nat /\ \A i \in 1 .. Len(at) : at[i] \in W
    BY <1>6
  <1>8. PlaceReady(d) = [i \in 1 .. Len(at) |-> Rz(at[i], d[{at[i]}])]
    BY <1>6, <1>7 DEF PlaceReady, W
  <1>9. \A i \in 1 .. Len(at) : /\ Rz(at[i], d[{at[i]}]) \in Locals(Ticks(d))
                                /\ Rz(at[i], d[{at[i]}]).q = at[i] /\ Rz(at[i], d[{at[i]}]).arg = d[{at[i]}]
    BY <1>1, <1>3, <1>7 DEF Rz, Locals, Ticks
  <1>10. PICK R : R = PlaceReady(d)
    OBVIOUS
  <1>11. R \in Seq(Locals(Ticks(d))) /\ Len(R) = Len(at)
         /\ \A i \in 1 .. Len(R) : R[i].q = at[i] /\ R[i].arg = d[{at[i]}]
    <2>1. \A i \in 1 .. Len(at) : R[i] = Rz(at[i], d[{at[i]}])
      BY <1>8, <1>10
    <2>2. R = [i \in 1 .. Len(at) |-> R[i]]
      BY <1>8, <1>10
    <2>2a. PICK k \in Nat : k = Len(at)
      BY <1>7, Zenon
    <2>2b. R = [i \in 1 .. k |-> R[i]] /\ \A i \in 1 .. k : R[i] \in Locals(Ticks(d))
      BY <1>9, <2>1, <2>2, <2>2a
    <2>3. R \in Seq(Locals(Ticks(d))) /\ Len(R) = Len(at)
      BY <2>2a, <2>2b, ListIs
    <2> QED
      BY <1>9, <2>1, <2>3
  <1>12. Cardinality(Ready(d)) = Len(at) /\ IsFiniteSet(Ready(d))
    <2> DEFINE F == [q \in W |-> {q}]
    <2>1. F \in [W -> Ready(d)] /\ \A q \in W : F[q] = {q}
      BY <1>3
    <2> HIDE DEF F
    <2>2. \A a, b \in W : F[a] = F[b] => a = b
      BY <2>1
    <2>3. \A y \in Ready(d) : \E q \in W : F[q] = y
      BY <1>4, <2>1
    <2> QED
      BY <1>5, <1>6, <2>1, <2>2, <2>3, SameSize
  <1>13. DOMAIN Unplaced(d) = DOMAIN d \ Ready(d) /\ \A y \in DOMAIN d \ Ready(d) : Unplaced(d)[y] = d[y]
    BY StrictSame DEF Unplaced, Without
  <1>14. Len(R) + Cardinality(DOMAIN Unplaced(d)) = Cardinality(DOMAIN d)
    <2>1. IsFiniteSet(DOMAIN d)
      BY PhasesFinite
    <2>2. IsFiniteSet(DOMAIN d \ Ready(d))
      BY <2>1, FS_Subset
    <2>3. Ready(d) \cup (DOMAIN d \ Ready(d)) = DOMAIN d /\ Ready(d) \cap (DOMAIN d \ Ready(d)) = {}
      BY <1>1
    <2> QED
      BY <1>11, <1>12, <1>13, <2>2, <2>3, SizeOfParts
  <1>15. \A q \in W : Sum(m, {q}) = m[q]
    BY <1>3, SumOfOne
  <1>16. \A i \in 1 .. Len(R) : \E y \in Ready(d) : <<m[R[i].q], R[i].arg>> = <<Sum(m, y), d[y]>>
    <2> SUFFICES ASSUME NEW i \in 1 .. Len(R) PROVE \E y \in Ready(d) : <<m[R[i].q], R[i].arg>> = <<Sum(m, y), d[y]>>
      OBVIOUS
    <2>1. at[i] \in W /\ R[i].q = at[i] /\ R[i].arg = d[{at[i]}]
      BY <1>7, <1>11
    <2>2. {at[i]} \in Ready(d) /\ Sum(m, {at[i]}) = m[at[i]]
      BY <1>3, <1>15, <2>1
    <2> QED
      BY <2>1, <2>2
  <1>16a. \A y \in Ready(d) : \E i \in 1 .. Len(R) : <<Sum(m, y), d[y]>> = <<m[R[i].q], R[i].arg>>
    <2> SUFFICES ASSUME NEW y \in Ready(d) PROVE \E i \in 1 .. Len(R) : <<Sum(m, y), d[y]>> = <<m[R[i].q], R[i].arg>>
      OBVIOUS
    <2>1. PICK q \in W : y = {q}
      BY <1>4
    <2>2. PICK i \in 1 .. Len(at) : at[i] = q
      BY <1>6
    <2>3. i \in 1 .. Len(R) /\ R[i].q = q /\ R[i].arg = d[y]
      BY <1>11, <2>1, <2>2
    <2>4. Sum(m, y) = m[q]
      BY <1>15, <2>1
    <2> QED
      BY <2>3, <2>4
  <1>17. Seen(m, R) = {<<Sum(m, y), d[y]>> : y \in Ready(d)}
    <2> DEFINE a(i) == <<m[R[i].q], R[i].arg>>
               b(y) == <<Sum(m, y), d[y]>>
    <2>1. Seen(m, R) = {a(i) : i \in 1 .. Len(R)}
      BY DEF Seen
    <2>2. (\A i \in 1 .. Len(R) : \E y \in Ready(d) : a(i) = b(y)) /\ \A y \in Ready(d) : \E i \in 1 .. Len(R) : b(y) = a(i)
      BY <1>16, <1>16a
    <2> HIDE DEF a, b
    <2>3. Seen(m, R) = {b(y) : y \in Ready(d)}
      BY <2>1, <2>2
    <2> QED
      BY <2>3 DEF b
  <1>18. OwedOf(m, Unplaced(d)) = {<<Sum(m, y), d[y]>> : y \in DOMAIN d \ Ready(d)}
    BY <1>13 DEF OwedOf
  <1>19. Seen(m, R) \cup OwedOf(m, Unplaced(d)) = OwedOf(m, d)
    BY <1>1, <1>17, <1>18 DEF OwedOf
  <1> QED
    BY <1>10, <1>11, <1>14, <1>19

(* The duals of lists, and the phases they stand for.                       *)
LEMMA PairsIs ==
    ASSUME NEW L
    PROVE  /\ \A x : x \in Pairs(L) <=> \E i \in DOMAIN L : \E y \in DOMAIN L[i] : x = <<i, y>>
           /\ \A m, x : x \in Owed(m, L) <=> \E i \in DOMAIN L : \E y \in DOMAIN L[i] : x = <<Sum(m, y), L[i][y]>>
  <1>1. \A x : x \in Pairs(L) <=> \E i \in DOMAIN L : \E y \in DOMAIN L[i] : x = <<i, y>>
    BY DEF Pairs
  <1>2. \A m, x : x \in Owed(m, L) <=> \E i \in DOMAIN L : \E y \in DOMAIN L[i] : x = <<Sum(m, y), L[i][y]>>
    BY DEF Owed
  <1> QED
    BY <1>1, <1>2

(* There are finitely many duals.                                           *)
LEMMA PairsFinite ==
    ASSUME NEW N \in Nat, NEW L, AllPhases(L, N)
    PROVE  IsFiniteSet(Pairs(L)) /\ Cardinality(Pairs(L)) \in Nat
  <1>1. PICK k \in Nat : DOMAIN L = 1 .. k
    <2>1. PICK A : L \in Seq(A)
      BY DEF AllPhases, IsSeq
    <2> QED
      BY <2>1
  <1>2. IsFiniteSet(1 .. k) /\ IsFiniteSet(Parity(N))
    BY FS_Interval, PhasesFinite
  <1>3. IsFiniteSet((1 .. k) \X Parity(N))
    BY <1>2, FS_Product
  <1>4. \A x \in Pairs(L) : x \in (1 .. k) \X Parity(N)
    BY <1>1, PairsIs DEF AllPhases, IsPhases
  <1>5. Pairs(L) \in SUBSET ((1 .. k) \X Parity(N))
    BY <1>4
  <1> QED
    BY <1>3, <1>5, FS_Subset, FS_CardinalityType

(* A list more.                                                             *)
LEMMA PairsMore ==
    ASSUME NEW N \in Nat, NEW L, AllPhases(L, N), NEW d, IsPhases(d, N)
    PROVE  /\ AllPhases(Append(L, d), N)
           /\ Cardinality(Pairs(Append(L, d))) = Cardinality(Pairs(L)) + Cardinality(DOMAIN d)
           /\ \A m : Owed(m, Append(L, d)) = Owed(m, L) \cup OwedOf(m, d)
           /\ Cardinality(DOMAIN d) \in Nat
  <1>1. PICK A : L \in Seq(A)
    BY DEF AllPhases, IsSeq
  <1>2. L \in Seq(A \cup {d}) /\ d \in A \cup {d}
    BY <1>1
  <1>3. PICK k \in Nat : k = Len(L)
    BY <1>1
  <1>4. PICK e : e = Append(L, d)
    OBVIOUS
  <1>5. e \in Seq(A \cup {d}) /\ DOMAIN e = 1 .. k + 1 /\ e[k + 1] = d /\ DOMAIN L = 1 .. k /\ \A i \in 1 .. k : e[i] = L[i]
    BY <1>2, <1>3, <1>4
  <1>6. 1 .. k + 1 = (1 .. k) \cup {k + 1} /\ k + 1 \notin 1 .. k
    OBVIOUS
  <1>7. AllPhases(e, N)
    BY <1>5, <1>6 DEF AllPhases, IsSeq
  <1> DEFINE U == {<<k + 1, y>> : y \in DOMAIN d}
  <1>8. Pairs(e) = Pairs(L) \cup U
    <2>1. \A x : x \in Pairs(e) <=> (\E i \in 1 .. k : \E y \in DOMAIN L[i] : x = <<i, y>>) \/ (\E y \in DOMAIN d : x = <<k + 1, y>>)
      BY <1>5, <1>6, PairsIs
    <2> QED
      BY <1>5, <2>1, PairsIs
  <1>9. Pairs(L) \cap U = {}
    BY <1>5, <1>6, PairsIs
  <1>10. IsFiniteSet(DOMAIN d)
    BY PhasesFinite
  <1>11. IsFiniteSet(U) /\ Cardinality(U) = Cardinality(DOMAIN d) /\ Cardinality(DOMAIN d) \in Nat
    <2> DEFINE F == [y \in DOMAIN d |-> <<k + 1, y>>]
    <2>1. F \in [DOMAIN d -> U] /\ \A y \in DOMAIN d : F[y] = <<k + 1, y>>
      OBVIOUS
    <2>2. \A v \in U : \E y \in DOMAIN d : v = <<k + 1, y>>
      OBVIOUS
    <2> HIDE DEF F, U
    <2>3. \A a, b \in DOMAIN d : F[a] = F[b] => a = b
      BY <2>1
    <2>4. \A v \in U : \E a \in DOMAIN d : F[a] = v
      BY <2>1, <2>2
    <2> QED
      BY <1>10, <2>1, <2>3, <2>4, SameSize
  <1> HIDE DEF U
  <1>12. IsFiniteSet(Pairs(L))
    BY PairsFinite
  <1>13. Cardinality(Pairs(e)) = Cardinality(Pairs(L)) + Cardinality(DOMAIN d)
    BY <1>8, <1>9, <1>11, <1>12, SizeOfParts
  <1>14. ASSUME NEW m PROVE Owed(m, e) = Owed(m, L) \cup OwedOf(m, d)
    <2>1. \A x : x \in Owed(m, e) <=> (\E i \in 1 .. k : \E y \in DOMAIN L[i] : x = <<Sum(m, y), L[i][y]>>)
                                       \/ (\E y \in DOMAIN d : x = <<Sum(m, y), d[y]>>)
      BY <1>5, <1>6, PairsIs
    <2>2. \A x : x \in OwedOf(m, d) <=> \E y \in DOMAIN d : x = <<Sum(m, y), d[y]>>
      BY DEF OwedOf
    <2> QED
      BY <1>5, <2>1, <2>2, PairsIs
  <1> QED
    BY <1>4, <1>7, <1>11, <1>13, <1>14

(* The duals after a CNOT, one for one.                                     *)
LEMMA DualCxIs ==
    ASSUME NEW N \in Nat, NEW c \in Wires(N), NEW t \in Wires(N), c # t, NEW d, IsPhases(d, N)
    PROVE  /\ IsPhases(DualCx(d, c, t), N)
           /\ \A z \in DOMAIN DualCx(d, c, t) : \E y \in DOMAIN d : z = Dual(y, c, t)
           /\ \A y \in DOMAIN d : Dual(y, c, t) \in DOMAIN DualCx(d, c, t) /\ DualCx(d, c, t)[Dual(y, c, t)] = d[y]
  <1>1. DualCx(d, c, t) = [z \in {Dual(y, c, t) : y \in DOMAIN d} |-> d[Dual(z, c, t)]]
    BY StrictSame DEF DualCx
  <1>2. \A y \in DOMAIN d : Dual(y, c, t) \in Parity(N) /\ Dual(Dual(y, c, t), c, t) = y
    BY DualTyped DEF IsPhases
  <1> QED
    BY <1>1, <1>2 DEF IsPhases, IsFun

(* The CNOT made and every dual of every list with it.                      *)
LEMMA PairsDual ==
    ASSUME NEW N \in Nat, NEW m \in Mat(N), NEW c \in Wires(N), NEW t \in Wires(N), c # t,
           NEW L, AllPhases(L, N), NEW K, K = [i \in DOMAIN L |-> DualCx(L[i], c, t)]
    PROVE  /\ AllPhases(K, N)
           /\ Cardinality(Pairs(K)) = Cardinality(Pairs(L))
           /\ Owed(AddRow(m, c, t), K) = Owed(m, L)
  <1>0. DOMAIN K = DOMAIN L /\ \A i \in DOMAIN L : K[i] = DualCx(L[i], c, t)
    OBVIOUS
  <1>1. \A i \in DOMAIN L : /\ IsPhases(K[i], N)
                            /\ \A z \in DOMAIN K[i] : \E y \in DOMAIN L[i] : z = Dual(y, c, t)
                            /\ \A y \in DOMAIN L[i] : Dual(y, c, t) \in DOMAIN K[i] /\ K[i][Dual(y, c, t)] = L[i][y]
    <2> SUFFICES ASSUME NEW i \in DOMAIN L
                 PROVE  /\ IsPhases(K[i], N)
                        /\ \A z \in DOMAIN K[i] : \E y \in DOMAIN L[i] : z = Dual(y, c, t)
                        /\ \A y \in DOMAIN L[i] : Dual(y, c, t) \in DOMAIN K[i] /\ K[i][Dual(y, c, t)] = L[i][y]
      OBVIOUS
    <2>1. PICK s : s = L[i]
      OBVIOUS
    <2>2. IsPhases(s, N) /\ K[i] = DualCx(s, c, t)
      BY <1>0, <2>1 DEF AllPhases
    <2> QED
      BY <2>1, <2>2, DualCxIs
  <1>2. AllPhases(K, N)
    <2>1. PICK A : L \in Seq(A)
      BY DEF AllPhases, IsSeq
    <2>2. PICK k \in Nat : DOMAIN L = 1 .. k
      BY <2>1
    <2>3. K \in Seq({DualCx(L[i], c, t) : i \in DOMAIN L})
      <3>1. K = [i \in 1 .. k |-> K[i]] /\ \A i \in 1 .. k : K[i] \in {DualCx(L[x], c, t) : x \in DOMAIN L}
        BY <1>0, <2>2
      <3> QED
        BY <3>1, ListIs
    <2> QED
      BY <1>0, <1>1, <2>3 DEF AllPhases, IsSeq
  <1>3. \A i \in DOMAIN L : \A y \in DOMAIN L[i] :
          y \in Parity(N) /\ y \in SUBSET Wires(N) /\ Dual(Dual(y, c, t), c, t) = y /\ Dual(y, c, t) \in DOMAIN K[i]
          /\ Sum(AddRow(m, c, t), Dual(y, c, t)) = Sum(m, y)
    <2> SUFFICES ASSUME NEW i \in DOMAIN L, NEW y \in DOMAIN L[i]
                 PROVE  y \in Parity(N) /\ y \in SUBSET Wires(N) /\ Dual(Dual(y, c, t), c, t) = y /\ Dual(y, c, t) \in DOMAIN K[i]
                        /\ Sum(AddRow(m, c, t), Dual(y, c, t)) = Sum(m, y)
      OBVIOUS
    <2>1. y \in Parity(N)
      BY DEF AllPhases, IsPhases
    <2>2. y \in SUBSET Wires(N)
      BY <2>1 DEF Parity
    <2> QED
      BY <1>1, <2>1, <2>2, DualTyped, DualKeepsSum
  <1>4. \A i \in DOMAIN L : \A z \in DOMAIN K[i] : \E y \in DOMAIN L[i] : z = Dual(y, c, t)
    BY <1>1
  <1>5. Cardinality(Pairs(K)) = Cardinality(Pairs(L))
    <2> DEFINE F == [x \in Pairs(L) |-> <<x[1], Dual(x[2], c, t)>>]
    <2>1. \A i \in DOMAIN L : \A y \in DOMAIN L[i] : <<i, y>> \in Pairs(L) /\ F[<<i, y>>] = <<i, Dual(y, c, t)>>
      BY PairsIs
    <2>2. \A x \in Pairs(L) : \E i \in DOMAIN L : \E y \in DOMAIN L[i] : x = <<i, y>> /\ F[x] = <<i, Dual(y, c, t)>>
      BY PairsIs
    <2>3. F = [x \in Pairs(L) |-> F[x]]
      OBVIOUS
    <2> HIDE DEF F
    <2>4. \A x \in Pairs(L) : F[x] \in Pairs(K)
      BY <1>0, <1>3, <2>2, PairsIs
    <2>5. F \in [Pairs(L) -> Pairs(K)]
      BY <2>3, <2>4
    <2>6. \A a, b \in Pairs(L) : F[a] = F[b] => a = b
      <3> SUFFICES ASSUME NEW a \in Pairs(L), NEW b \in Pairs(L), F[a] = F[b] PROVE a = b
        OBVIOUS
      <3>1. PICK i \in DOMAIN L : \E y \in DOMAIN L[i] : a = <<i, y>> /\ F[a] = <<i, Dual(y, c, t)>>
        BY <2>2
      <3>2. PICK y \in DOMAIN L[i] : a = <<i, y>> /\ F[a] = <<i, Dual(y, c, t)>>
        BY <3>1
      <3>3. PICK j \in DOMAIN L : \E z \in DOMAIN L[j] : b = <<j, z>> /\ F[b] = <<j, Dual(z, c, t)>>
        BY <2>2
      <3>4. PICK z \in DOMAIN L[j] : b = <<j, z>> /\ F[b] = <<j, Dual(z, c, t)>>
        BY <3>3
      <3>5. i = j /\ Dual(y, c, t) = Dual(z, c, t)
        BY <3>2, <3>4
      <3> QED
        BY <1>3, <3>2, <3>4, <3>5
    <2>7. \A v \in Pairs(K) : \E x \in Pairs(L) : F[x] = v
      <3> SUFFICES ASSUME NEW v \in Pairs(K) PROVE \E x \in Pairs(L) : F[x] = v
        OBVIOUS
      <3>1. PICK i \in DOMAIN L : \E z \in DOMAIN K[i] : v = <<i, z>>
        BY <1>0, PairsIs
      <3>2. PICK z \in DOMAIN K[i] : v = <<i, z>>
        BY <3>1
      <3>3. PICK y \in DOMAIN L[i] : z = Dual(y, c, t)
        BY <1>4
      <3> QED
        BY <2>1, <3>2, <3>3
    <2> QED
      BY <2>5, <2>6, <2>7, PairsFinite, SameSize
  <1>6. Owed(AddRow(m, c, t), K) = Owed(m, L)
    <2> DEFINE a == AddRow(m, c, t)
    <2>1. ASSUME NEW x \in Owed(a, K) PROVE x \in Owed(m, L)
      <3>1. PICK i \in DOMAIN L : \E z \in DOMAIN K[i] : x = <<Sum(a, z), K[i][z]>>
        BY <1>0, <2>1, PairsIs
      <3>2. PICK z \in DOMAIN K[i] : x = <<Sum(a, z), K[i][z]>>
        BY <3>1
      <3>3. PICK y \in DOMAIN L[i] : z = Dual(y, c, t)
        BY <1>4
      <3>4. x = <<Sum(m, y), L[i][y]>>
        BY <1>1, <1>3, <3>2, <3>3
      <3> QED
        BY <3>4, PairsIs
    <2>2. ASSUME NEW x \in Owed(m, L) PROVE x \in Owed(a, K)
      <3>1. PICK i \in DOMAIN L : \E y \in DOMAIN L[i] : x = <<Sum(m, y), L[i][y]>>
        BY <2>2, PairsIs
      <3>2. PICK y \in DOMAIN L[i] : x = <<Sum(m, y), L[i][y]>>
        BY <3>1
      <3>3. PICK z \in DOMAIN K[i] : z = Dual(y, c, t)
        BY <1>3
      <3>4. x = <<Sum(a, z), K[i][z]>>
        BY <1>1, <1>3, <3>2, <3>3
      <3> HIDE DEF a
      <3> QED
        BY <1>0, <3>4, PairsIs
    <2> QED
      BY <2>1, <2>2
  <1> QED
    BY <1>2, <1>5, <1>6

(* The lists there are, by number.                                          *)
LEMMA ListsIs ==
    ASSUME NEW N \in Nat, NEW L, AllPhases(L, N)
    PROVE  /\ Len(L) \in Nat /\ DOMAIN L = 1 .. Len(L) /\ L = Firsts(L, Len(L))
           /\ \A i \in 1 .. Len(L) : IsPhases(L[i], N) /\ Ticks(L[i]) \subseteq AllTicks(L)
  <1>1. PICK A : L \in Seq(A)
    BY DEF AllPhases, IsSeq
  <1>2. Len(L) \in Nat /\ DOMAIN L = 1 .. Len(L) /\ L = [x \in 1 .. Len(L) |-> L[x]]
    BY <1>1
  <1> QED
    BY <1>2 DEF AllPhases, AllTicks, Firsts

(* The first lists, and one more.                                           *)
LEMMA FirstsMore ==
    ASSUME NEW N \in Nat, NEW L, AllPhases(L, N)
    PROVE  /\ Firsts(L, 0) = << >>
           /\ \A i \in 0 .. Len(L) : AllPhases(Firsts(L, i), N)
           /\ \A i \in 0 .. Len(L) - 1 : Append(Firsts(L, i), L[i + 1]) = Firsts(L, i + 1)
  <1>1. Len(L) \in Nat /\ DOMAIN L = 1 .. Len(L) /\ \A i \in 1 .. Len(L) : IsPhases(L[i], N)
    BY ListsIs
  <1>2. Firsts(L, 0) = << >>
    BY DEF Firsts
  <1>3. ASSUME NEW i \in 0 .. Len(L) PROVE AllPhases(Firsts(L, i), N) /\ Firsts(L, i) \in Seq({L[x] : x \in 1 .. Len(L)})
    <2>1. i \in Nat /\ \A x \in 1 .. i : x \in 1 .. Len(L)
      BY <1>1
    <2>2. PICK f : f = Firsts(L, i)
      OBVIOUS
    <2>3. f = [x \in 1 .. i |-> f[x]] /\ \A x \in 1 .. i : f[x] = L[x] /\ f[x] \in {L[z] : z \in 1 .. Len(L)}
      BY <2>1, <2>2 DEF Firsts
    <2>4. f \in Seq({L[x] : x \in 1 .. Len(L)}) /\ DOMAIN f = 1 .. i
      BY <2>1, <2>3, ListIs
    <2> QED
      BY <1>1, <2>1, <2>2, <2>3, <2>4 DEF AllPhases, IsSeq
  <1>4. ASSUME NEW i \in 0 .. Len(L) - 1 PROVE Append(Firsts(L, i), L[i + 1]) = Firsts(L, i + 1)
    <2>1. i \in 0 .. Len(L) /\ i \in Nat /\ i + 1 \in 1 .. Len(L)
      BY <1>1
    <2>2. PICK f : f = Firsts(L, i)
      OBVIOUS
    <2>3. f \in Seq({L[x] : x \in 1 .. Len(L)}) /\ L[i + 1] \in {L[x] : x \in 1 .. Len(L)}
      BY <1>3, <2>1, <2>2
    <2>4. f = [x \in 1 .. i |-> L[x]] /\ Len(f) = i
      BY <2>1, <2>2, <2>3 DEF Firsts
    <2>5. Append(f, L[i + 1]) = [x \in 1 .. i + 1 |-> IF x = i + 1 THEN L[i + 1] ELSE f[x]]
      BY <2>1, <2>3, <2>4
    <2>6. Append(f, L[i + 1]) = [x \in 1 .. i + 1 |-> L[x]]
      BY <2>1, <2>4, <2>5
    <2> QED
      BY <2>2, <2>6 DEF Firsts
  <1> QED
    BY <1>2, <1>3, <1>4

(* The RZs after each frame of PlaceAll.                                    *)
LEMMA PlaceAllRuns ==
    ASSUME n \in Nat, NEW L, AllPhases(L, n)
    PROVE  \E g \in [1 .. Len(L) + 1 -> Seq(Locals(AllTicks(L)))] :
             /\ g[1] = << >>
             /\ \A i \in 1 .. Len(L) : g[i + 1] = g[i] \o PlaceReady(L[i])
             /\ PlaceAll(L) = g[Len(L) + 1]
  <1> DEFINE S == Seq(Locals(AllTicks(L)))
             First == 1
             Final == Len(L) + 1
             Base == << >>
             Step(s, i) == s \o PlaceReady(L[i])
             F == [i \in First .. Final - 1 |-> [s \in S |-> Step(s, i)]]
  <1>1. First \in Nat /\ Final \in Nat /\ First <= Final /\ Base \in S
    <2>1. Len(L) \in Nat
      BY ListsIs
    <2>2. << >> \in Seq(Locals(AllTicks(L)))
      OBVIOUS
    <2> QED
      BY <2>1, <2>2
  <1>2. \A i \in First .. Final - 1, s \in S : Step(s, i) \in S
    <2>1. \A i \in First .. Final - 1, s \in S : PlaceReady(L[i]) \in Seq(Locals(AllTicks(L)))
      <3> SUFFICES ASSUME NEW i \in First .. Final - 1 PROVE PlaceReady(L[i]) \in Seq(Locals(AllTicks(L)))
        OBVIOUS
      <3>1. Len(L) \in Nat /\ i \in 1 .. Len(L)
        BY ListsIs
      <3>2. IsPhases(L[i], n) /\ Ticks(L[i]) \subseteq AllTicks(L)
        BY <3>1, ListsIs
      <3>3. PlaceReady(L[i]) \in Seq(Locals(Ticks(L[i])))
        <4>1. IdentityMap(n) \in Mat(n)
          BY IdentityTyped
        <4> QED
          BY <3>2, <4>1, PlacesReady
      <3>4. Locals(Ticks(L[i])) \subseteq Locals(AllTicks(L))
        BY <3>2 DEF Locals
      <3> QED
        BY <3>3, <3>4
    <2> QED
      BY <2>1, ConcatIn
  <1>3. First .. Final - 1 = 1 .. Len(L)
    BY <1>1
  <1> HIDE DEF S, Step, First, Final, Base
  <1>4. F \in [First .. Final - 1 -> [S -> S]] /\ \A i \in First .. Final - 1, s \in S : F[i][s] = Step(s, i)
    BY <1>2
  <1> HIDE DEF F
  <1>5. PICK f \in [First .. Final -> S] : Follows(f, Base, F, First, Final)
    BY <1>1, <1>4, Iterates
  <1>6. f = [i \in First .. Final |-> IF i = First THEN Base ELSE Step(f[i - 1], i - 1)]
    BY <1>1, <1>4, <1>5 DEF Follows
  <1>7. PICK g : /\ g = [i \in First .. Final |-> IF i = First THEN Base ELSE Step(g[i - 1], i - 1)]
                 /\ PlaceAll(L) = g[Final]
    BY <1>6 DEF PlaceAll, Loop, First, Final, Base, Step
  <1>8. g[First] = Base /\ \A i \in First .. Final - 1 : g[i + 1] = Step(g[i], i)
    BY <1>1, <1>7
  <1>9. g = [i \in First .. Final |-> g[i]] /\ g[First] \in S
    BY <1>1, <1>7, <1>8
  <1>10. \A i \in First .. Final - 1 : g[i] \in S => g[i + 1] \in S
    BY <1>2, <1>8
  <1>11. g \in [First .. Final -> S]
    BY <1>1, <1>9, <1>10, Stays
  <1>12. g[First] = Base /\ (\A i \in 1 .. Len(L) : g[i + 1] = Step(g[i], i)) /\ PlaceAll(L) = g[Final]
    BY <1>3, <1>7, <1>8
  <1> QED
    BY <1>11, <1>12 DEF S, First, Final, Base, Step

(* What two circuits of RZs turn.                                           *)
LEMMA SeenConcat ==
    ASSUME NEW A, NEW m, NEW s \in Seq(A), NEW t \in Seq(A)
    PROVE  Seen(m, s \o t) = Seen(m, s) \cup Seen(m, t) /\ Len(s \o t) = Len(s) + Len(t) /\ Seen(m, << >>) = {}
  <1>1. PICK e : e = s \o t
    OBVIOUS
  <1>2. PICK k \in Nat : k = Len(s)
    OBVIOUS
  <1>3. PICK l \in Nat : l = Len(t)
    OBVIOUS
  <1>4. Len(e) = k + l /\ (\A i \in 1 .. k : e[i] = s[i]) /\ (\A i \in 1 .. l : e[k + i] = t[i])
    BY <1>1, <1>2, <1>3
  <1> DEFINE a(x) == <<m[x.q], x.arg>>
  <1>5. /\ Seen(m, e) = {a(e[i]) : i \in 1 .. k + l}
        /\ Seen(m, s) = {a(s[i]) : i \in 1 .. k}
        /\ Seen(m, t) = {a(t[i]) : i \in 1 .. l}
    BY <1>2, <1>3, <1>4 DEF Seen
  <1>6. Seen(m, << >>) = {}
    BY DEF Seen
  <1> HIDE DEF a
  <1>7. \A i \in 1 .. k + l : i \in 1 .. k \/ (i - k \in 1 .. l /\ k + (i - k) = i)
    OBVIOUS
  <1>8. \A i \in 1 .. k : i \in 1 .. k + l
    OBVIOUS
  <1>9. \A i \in 1 .. l : k + i \in 1 .. k + l
    OBVIOUS
  <1>10. Seen(m, e) \subseteq Seen(m, s) \cup Seen(m, t)
    <2> SUFFICES ASSUME NEW i \in 1 .. k + l PROVE a(e[i]) \in Seen(m, s) \cup Seen(m, t)
      BY <1>5
    <2>1. CASE i \in 1 .. k
      BY <1>4, <1>5, <2>1
    <2>2. CASE i - k \in 1 .. l /\ k + (i - k) = i
      <3>1. e[k + (i - k)] = t[i - k]
        BY <1>4, <2>2
      <3> QED
        BY <1>5, <2>2, <3>1
    <2> QED
      BY <1>7, <2>1, <2>2
  <1>11. Seen(m, s) \subseteq Seen(m, e) /\ Seen(m, t) \subseteq Seen(m, e)
    BY <1>4, <1>5, <1>8, <1>9
  <1> QED
    BY <1>1, <1>2, <1>3, <1>4, <1>6, <1>10, <1>11

(* gray_place_ready of every frame.                                         *)
LEMMA PlacesAll ==
    ASSUME n \in Nat, NEW m \in Mat(n), NEW L, AllPhases(L, n), NEW K, K = [i \in DOMAIN L |-> Unplaced(L[i])]
    PROVE  /\ PlaceAll(L) \in Seq(Locals(AllTicks(L)))
           /\ AllPhases(K, n)
           /\ Len(PlaceAll(L)) + Cardinality(Pairs(K)) = Cardinality(Pairs(L))
           /\ Seen(m, PlaceAll(L)) \cup Owed(m, K) = Owed(m, L)
  <1>1. PICK l \in Nat : l = Len(L) /\ DOMAIN L = 1 .. l /\ \A i \in 1 .. l : IsPhases(L[i], n)
    BY ListsIs
  <1>2. DOMAIN K = 1 .. l /\ \A i \in 1 .. l : K[i] = Unplaced(L[i])
    BY <1>1
  <1>3. K \in Seq({Unplaced(L[i]) : i \in 1 .. l}) /\ Len(K) = l
    <2>1. PICK V : V = {Unplaced(L[i]) : i \in 1 .. l}
      OBVIOUS
    <2>2. K = [i \in 1 .. l |-> K[i]]
      BY <1>1, <1>2
    <2>3. \A i \in 1 .. l : K[i] \in V
      BY <1>2, <2>1
    <2>4. K \in Seq(V) /\ Len(K) = l
      BY <2>2, <2>3, ListIs
    <2> QED
      BY <2>1, <2>4
  <1>4. AllPhases(K, n)
    <2>1. \A i \in 1 .. l : IsPhases(Unplaced(L[i]), n)
      BY <1>1, UnplacedTyped
    <2> QED
      BY <1>2, <1>3, <2>1 DEF AllPhases, IsSeq
  <1>5. PICK A : A = AllTicks(L)
    OBVIOUS
  <1>6. PICK g \in [1 .. Len(L) + 1 -> Seq(Locals(A))] :
          /\ g[1] = << >>
          /\ \A i \in 1 .. Len(L) : g[i + 1] = g[i] \o PlaceReady(L[i])
          /\ PlaceAll(L) = g[Len(L) + 1]
    BY <1>5, PlaceAllRuns
  <1> DEFINE Good(b, f, h) == /\ Len(b) + Cardinality(Pairs(h)) = Cardinality(Pairs(f))
                              /\ Seen(m, b) \cup Owed(m, h) = Owed(m, f)
             P == {i \in 0 .. l : Good(g[i + 1], Firsts(L, i), Firsts(K, i))}
  <1>7. ASSUME NEW i \in 0 .. l - 1, i \in P PROVE i + 1 \in P
    <2>1. i \in 0 .. Len(L) /\ i \in 0 .. Len(L) - 1 /\ i + 1 \in 1 .. Len(L) /\ i + 1 \in 1 .. Len(L) + 1
          /\ i \in 0 .. Len(K) /\ i \in 0 .. Len(K) - 1 /\ i + 1 \in 1 .. l
      BY <1>1, <1>3
    <2>2. PICK b \in Seq(Locals(A)) : b = g[i + 1]
      BY <1>6, <2>1
    <2>3. PICK f : f = Firsts(L, i) /\ AllPhases(f, n) /\ Firsts(L, i + 1) = Append(f, L[i + 1])
      BY <2>1, FirstsMore
    <2>4. PICK h : h = Firsts(K, i) /\ AllPhases(h, n) /\ Firsts(K, i + 1) = Append(h, K[i + 1])
      BY <1>4, <2>1, FirstsMore
    <2>5. PICK d : d = L[i + 1] /\ IsPhases(d, n) /\ Unplaced(d) = K[i + 1] /\ IsPhases(Unplaced(d), n)
      BY <1>1, <1>2, <2>1, UnplacedTyped
    <2>6. PICK r : r = PlaceReady(d)
      OBVIOUS
    <2>7. /\ r \in Seq(Locals(Ticks(d)))
          /\ Len(r) + Cardinality(DOMAIN Unplaced(d)) = Cardinality(DOMAIN d)
          /\ Seen(m, r) \cup OwedOf(m, Unplaced(d)) = OwedOf(m, d)
      BY <2>5, <2>6, PlacesReady
    <2>8. r \in Seq(Locals(A))
      <3>1. Locals(Ticks(d)) \subseteq Locals(A)
        BY <1>1, <1>5, <2>1, <2>5, ListsIs DEF Locals
      <3> QED
        BY <2>7, <3>1
    <2>9. Seen(m, b \o r) = Seen(m, b) \cup Seen(m, r) /\ Len(b \o r) = Len(b) + Len(r)
      BY <2>8, SeenConcat
    <2>10. PICK e : e = b \o r
      OBVIOUS
    <2>11. g[(i + 1) + 1] = e
      BY <1>6, <2>1, <2>2, <2>5, <2>6, <2>10
    <2>12. /\ Cardinality(Pairs(Append(f, d))) = Cardinality(Pairs(f)) + Cardinality(DOMAIN d)
           /\ Owed(m, Append(f, d)) = Owed(m, f) \cup OwedOf(m, d)
           /\ Cardinality(DOMAIN d) \in Nat
      BY <2>3, <2>5, PairsMore
    <2>13. /\ Cardinality(Pairs(Append(h, Unplaced(d)))) = Cardinality(Pairs(h)) + Cardinality(DOMAIN Unplaced(d))
           /\ Owed(m, Append(h, Unplaced(d))) = Owed(m, h) \cup OwedOf(m, Unplaced(d))
           /\ Cardinality(DOMAIN Unplaced(d)) \in Nat
      BY <2>4, <2>5, PairsMore
    <2>14. Cardinality(Pairs(f)) \in Nat /\ Cardinality(Pairs(h)) \in Nat
      BY <2>3, <2>4, PairsFinite
    <2>15. Len(b) \in Nat /\ Len(r) \in Nat
      BY <2>7
    <2>16. Good(b, f, h)
      BY <1>7, <2>2, <2>3, <2>4
    <2>17. Len(e) + Cardinality(Pairs(Append(h, Unplaced(d)))) = Cardinality(Pairs(Append(f, d)))
      <3>1. Len(e) = Len(b) + Len(r)
        BY <2>9, <2>10
      <3>2. Len(b) + Cardinality(Pairs(h)) = Cardinality(Pairs(f))
        BY <2>16
      <3> QED
        BY <2>7, <2>12, <2>13, <2>14, <2>15, <3>1, <3>2
    <2>18. Seen(m, e) \cup Owed(m, Append(h, Unplaced(d))) = Owed(m, Append(f, d))
      <3>1. Seen(m, b) \cup Owed(m, h) = Owed(m, f)
        BY <2>16
      <3>2. Seen(m, e) = Seen(m, b) \cup Seen(m, r)
        BY <2>9, <2>10
      <3> QED
        BY <2>7, <2>12, <2>13, <3>1, <3>2
    <2>19. Good(g[(i + 1) + 1], Firsts(L, i + 1), Firsts(K, i + 1))
      BY <2>3, <2>4, <2>5, <2>11, <2>17, <2>18
    <2>20. i + 1 \in 0 .. l
      BY <2>1
    <2> HIDE DEF Good
    <2> QED
      BY <2>19, <2>20
  <1>8. 0 \in P
    <2>1. g[0 + 1] = << >>
      BY <1>6
    <2>2. Firsts(L, 0) = << >> /\ Firsts(K, 0) = << >>
      BY <1>4, FirstsMore
    <2>3. Len(<< >>) = 0 /\ Seen(m, << >>) = {}
      BY DEF Seen
    <2>4. AllPhases(<< >>, n)
      BY <1>1, <2>2, FirstsMore
    <2>5. Cardinality(Pairs(<< >>)) \in Nat
      BY <2>4, PairsFinite
    <2>6. Good(<< >>, << >>, << >>)
      BY <2>3, <2>5
    <2> HIDE DEF Good
    <2>7. Good(g[0 + 1], Firsts(L, 0), Firsts(K, 0))
      BY <2>1, <2>2, <2>6
    <2> QED
      BY <2>7
  <1> HIDE DEF P
  <1>9. 0 \in Nat /\ 0 <= l
    OBVIOUS
  <1>10. l \in P
    BY <1>7, <1>8, <1>9, ClimbsTo
  <1>11. Good(g[l + 1], Firsts(L, l), Firsts(K, l))
    BY <1>10 DEF P
  <1>12. Firsts(L, l) = L /\ Firsts(K, l) = K
    BY <1>1, <1>3, <1>4, ListsIs
  <1>13. g[l + 1] = PlaceAll(L) /\ PlaceAll(L) \in Seq(Locals(A))
    <2>1. Len(L) + 1 \in 1 .. Len(L) + 1
      BY <1>1
    <2> QED
      BY <1>1, <1>6, <2>1
  <1>14. Good(PlaceAll(L), L, K)
    BY <1>11, <1>12, <1>13
  <1> QED
    BY <1>4, <1>5, <1>13, <1>14

(* What a circuit has of its own.                                           *)
LEMMA TraceTyped ==
    ASSUME n \in Nat, NEW A, NEW s \in Seq(Ops(A))
    PROVE  /\ Trace(s) \in Traces(A) /\ Trace(s).m \in Mat(n) /\ Len(Trace(s).rz) \in Nat
  <1>1. << >> \in Seq(Locals(A))
    OBVIOUS
  <1>2. Trace(s) \in Traces(A)
    BY <1>1, TraceLocals
  <1>3. PICK a \in Traces(A) : a = Trace(s)
    BY <1>2
  <1>4. a.m \in Mat(n) /\ a.rz \in Seq((SUBSET Wires(n)) \X A)
    BY DEF Traces
  <1>5. Len(a.rz) \in Nat
    BY <1>4
  <1> QED
    BY <1>3, <1>4, <1>5

(* More angles.                                                             *)
LEMMA OpsGrow ==
    ASSUME NEW A, NEW B, A \subseteq B
    PROVE  Seq(Ops(A)) \subseteq Seq(Ops(B)) /\ Seq(Locals(A)) \subseteq Seq(Locals(B))
  <1>1. Ops(A) \subseteq Ops(B) /\ Locals(A) \subseteq Locals(B)
    BY DEF Ops, Locals
  <1> QED
    BY <1>1

(* RZs that take duals out of the lists keep the balance.                   *)
LEMMA PlaceBalanced ==
    ASSUME n \in Nat, NEW s, NEW L, NEW phases, Balanced(s, L, phases),
           NEW B, NEW R \in Seq(Locals(B)), NEW K, AllPhases(K, n),
           Len(R) + Cardinality(Pairs(K)) = Cardinality(Pairs(L)),
           Seen(Trace(s).m, R) \cup Owed(Trace(s).m, K) = Owed(Trace(s).m, L)
    PROVE  Balanced(s \o R, K, phases) /\ Trace(s \o R).m = Trace(s).m
  <1>1. PICK A : s \in Seq(Ops(A))
    BY DEF Balanced
  <1>2. s \in Seq(Ops(A \cup B)) /\ R \in Seq(Locals(A \cup B))
    BY <1>1, OpsGrow
  <1>3. PICK e : e = s \o R
    OBVIOUS
  <1>4. /\ e \in Seq(Ops(A \cup B))
        /\ Trace(e).m = Trace(s).m
        /\ Len(Trace(e).rz) = Len(Trace(s).rz) + Len(R)
        /\ ToSet(Trace(e).rz) = ToSet(Trace(s).rz) \cup Seen(Trace(s).m, R)
    <2>1. PICK C : C = A \cup B
      OBVIOUS
    <2>2. s \in Seq(Ops(C)) /\ R \in Seq(Locals(C))
      BY <1>2, <2>1
    <2>3. /\ s \o R \in Seq(Ops(C))
          /\ Trace(s \o R).m = Trace(s).m
          /\ Len(Trace(s \o R).rz) = Len(Trace(s).rz) + Len(R)
          /\ ToSet(Trace(s \o R).rz) = ToSet(Trace(s).rz) \cup Seen(Trace(s).m, R)
      BY <2>2, TraceLocals, Zenon
    <2> QED
      BY <1>3, <2>1, <2>3, Zenon
  <1>5. Len(Trace(s).rz) \in Nat /\ Len(R) \in Nat /\ Cardinality(Pairs(K)) \in Nat
    BY <1>1, TraceTyped, PairsFinite
  <1>6. Len(Trace(s).rz) + Cardinality(Pairs(L)) = Cardinality(DOMAIN phases)
        /\ ToSet(Trace(s).rz) \cup Owed(Trace(s).m, L) = Whole(phases)
    BY DEF Balanced
  <1>7. Len(Trace(e).rz) + Cardinality(Pairs(K)) = Cardinality(DOMAIN phases)
    BY <1>4, <1>5, <1>6
  <1>8. ToSet(Trace(e).rz) \cup Owed(Trace(e).m, K) = Whole(phases)
    BY <1>4, <1>6
  <1>9. Balanced(e, K, phases)
    BY <1>4, <1>7, <1>8 DEF Balanced
  <1> QED
    BY <1>3, <1>4, <1>9

(* gray_place_ready of the last list.                                       *)
LEMMA PlaceTop ==
    ASSUME n \in Nat, NEW s, NEW L, AllPhases(L, n), NEW d, IsPhases(d, n), NEW phases, Balanced(s, Append(L, d), phases)
    PROVE  /\ Balanced(s \o PlaceReady(d), Append(L, Unplaced(d)), phases)
           /\ Trace(s \o PlaceReady(d)).m = Trace(s).m
  <1>1. PICK m \in Mat(n) : m = Trace(s).m
    BY TraceTyped DEF Balanced
  <1>2. PICK R : R = PlaceReady(d)
    OBVIOUS
  <1>3. PICK u : u = Unplaced(d) /\ IsPhases(u, n)
    BY UnplacedTyped
  <1>4. /\ R \in Seq(Locals(Ticks(d)))
        /\ Len(R) + Cardinality(DOMAIN u) = Cardinality(DOMAIN d)
        /\ Seen(m, R) \cup OwedOf(m, u) = OwedOf(m, d)
    BY <1>2, <1>3, PlacesReady
  <1>5. /\ Cardinality(Pairs(Append(L, d))) = Cardinality(Pairs(L)) + Cardinality(DOMAIN d)
        /\ Owed(m, Append(L, d)) = Owed(m, L) \cup OwedOf(m, d)
        /\ Cardinality(DOMAIN d) \in Nat
    BY PairsMore
  <1>6. /\ AllPhases(Append(L, u), n)
        /\ Cardinality(Pairs(Append(L, u))) = Cardinality(Pairs(L)) + Cardinality(DOMAIN u)
        /\ Owed(m, Append(L, u)) = Owed(m, L) \cup OwedOf(m, u)
        /\ Cardinality(DOMAIN u) \in Nat
    BY <1>3, PairsMore
  <1>7. Cardinality(Pairs(L)) \in Nat /\ Len(R) \in Nat
    BY <1>4, PairsFinite
  <1>8. Len(R) + Cardinality(Pairs(Append(L, u))) = Cardinality(Pairs(Append(L, d)))
    BY <1>4, <1>5, <1>6, <1>7
  <1>9. Seen(m, R) \cup Owed(m, Append(L, u)) = Owed(m, Append(L, d))
    BY <1>4, <1>5, <1>6
  <1>10. Balanced(s \o R, Append(L, u), phases) /\ Trace(s \o R).m = Trace(s).m
    BY <1>1, <1>4, <1>6, <1>8, <1>9, PlaceBalanced
  <1> QED
    BY <1>2, <1>3, <1>10

(* gray_place_ready of every list but the last.                             *)
LEMMA PlaceBelow ==
    ASSUME n \in Nat, NEW s, NEW L, AllPhases(L, n), NEW d, IsPhases(d, n), NEW phases, Balanced(s, Append(L, d), phases),
           NEW K, K = [i \in DOMAIN L |-> Unplaced(L[i])]
    PROVE  /\ AllPhases(K, n)
           /\ Balanced(s \o PlaceAll(L), Append(K, d), phases)
           /\ Trace(s \o PlaceAll(L)).m = Trace(s).m
  <1>1. PICK m \in Mat(n) : m = Trace(s).m
    BY TraceTyped DEF Balanced
  <1>2. PICK R : R = PlaceAll(L)
    OBVIOUS
  <1>4. /\ R \in Seq(Locals(AllTicks(L))) /\ AllPhases(K, n)
        /\ Len(R) + Cardinality(Pairs(K)) = Cardinality(Pairs(L))
        /\ Seen(m, R) \cup Owed(m, K) = Owed(m, L)
    BY <1>2, PlacesAll
  <1>5. /\ Cardinality(Pairs(Append(L, d))) = Cardinality(Pairs(L)) + Cardinality(DOMAIN d)
        /\ Owed(m, Append(L, d)) = Owed(m, L) \cup OwedOf(m, d)
        /\ Cardinality(DOMAIN d) \in Nat
    BY PairsMore
  <1>6. /\ AllPhases(Append(K, d), n)
        /\ Cardinality(Pairs(Append(K, d))) = Cardinality(Pairs(K)) + Cardinality(DOMAIN d)
        /\ Owed(m, Append(K, d)) = Owed(m, K) \cup OwedOf(m, d)
    BY <1>4, PairsMore
  <1>7. Cardinality(Pairs(L)) \in Nat /\ Cardinality(Pairs(K)) \in Nat /\ Len(R) \in Nat
    BY <1>4, PairsFinite
  <1>8. Len(R) + Cardinality(Pairs(Append(K, d))) = Cardinality(Pairs(Append(L, d)))
    BY <1>4, <1>5, <1>6, <1>7
  <1>9. Seen(m, R) \cup Owed(m, Append(K, d)) = Owed(m, Append(L, d))
    BY <1>4, <1>5, <1>6
  <1>10. Balanced(s \o R, Append(K, d), phases) /\ Trace(s \o R).m = Trace(s).m
    BY <1>1, <1>4, <1>6, <1>8, <1>9, PlaceBalanced
  <1> QED
    BY <1>2, <1>4, <1>10

(* A list without duals.                                                    *)
LEMMA DropEmpty ==
    ASSUME n \in Nat, NEW s, NEW L, AllPhases(L, n), NEW d, IsPhases(d, n), DOMAIN d = {}, NEW phases,
           Balanced(s, Append(L, d), phases)
    PROVE  Balanced(s, L, phases)
  <1>1. /\ Cardinality(Pairs(Append(L, d))) = Cardinality(Pairs(L)) + Cardinality(DOMAIN d)
        /\ Owed(Trace(s).m, Append(L, d)) = Owed(Trace(s).m, L) \cup OwedOf(Trace(s).m, d)
    BY PairsMore
  <1>2. Cardinality(DOMAIN d) = 0 /\ OwedOf(Trace(s).m, d) = {}
    BY FS_EmptySet DEF OwedOf
  <1>3. Cardinality(Pairs(L)) \in Nat
    BY PairsFinite
  <1>4. Cardinality(Pairs(Append(L, d))) = Cardinality(Pairs(L)) /\ Owed(Trace(s).m, Append(L, d)) = Owed(Trace(s).m, L)
    BY <1>1, <1>2, <1>3
  <1> QED
    BY <1>4 DEF Balanced

(* A CNOT that every list follows.                                          *)
LEMMA CxBalanced ==
    ASSUME n \in Nat, NEW s, NEW L, NEW phases, Balanced(s, L, phases),
           NEW c \in Wires(n), NEW t \in Wires(n), c # t, NEW K, K = [i \in DOMAIN L |-> DualCx(L[i], c, t)]
    PROVE  /\ Balanced(Append(s, Cx(<<c, t>>)), K, phases)
           /\ Trace(Append(s, Cx(<<c, t>>))).m = AddRow(Trace(s).m, c, t)
  <1>1. PICK A : s \in Seq(Ops(A))
    BY DEF Balanced
  <1>2. PICK e : e = Append(s, Cx(<<c, t>>))
    OBVIOUS
  <1>3. e \in Seq(Ops(A)) /\ Trace(e).m = AddRow(Trace(s).m, c, t) /\ Trace(e).rz = Trace(s).rz
    BY <1>1, <1>2, TraceCx
  <1>4. PICK m \in Mat(n) : m = Trace(s).m
    BY <1>1, TraceTyped
  <1>5. AllPhases(L, n)
    BY DEF Balanced
  <1>6. AllPhases(K, n) /\ Cardinality(Pairs(K)) = Cardinality(Pairs(L)) /\ Owed(AddRow(m, c, t), K) = Owed(m, L)
    BY <1>5, PairsDual
  <1>7. Len(Trace(s).rz) + Cardinality(Pairs(L)) = Cardinality(DOMAIN phases)
        /\ ToSet(Trace(s).rz) \cup Owed(Trace(s).m, L) = Whole(phases)
    BY DEF Balanced
  <1>8. Balanced(e, K, phases)
    BY <1>3, <1>4, <1>6, <1>7 DEF Balanced
  <1> QED
    BY <1>2, <1>3, <1>8

(* The circuit of the next state.                                           *)
LEMMA TraceNext ==
    ASSUME n' = n
    PROVE  Trace(out)' = Trace(out')
  BY DEF Trace, Traced, Loop

(* The duals of the frames are those of their lists.                        *)
LEMMA FramePhases ==
    ASSUME NEW N \in Nat, NEW frames, AllFrames(frames, N)
    PROVE  /\ AllPhases(PhasesOf(frames), N) /\ DOMAIN PhasesOf(frames) = DOMAIN frames
           /\ \A i \in DOMAIN frames : PhasesOf(frames)[i] = frames[i].s
           /\ Duals(frames) = Pairs(PhasesOf(frames))
  <1>1. PICK A : frames \in Seq(A)
    BY DEF AllFrames, IsSeq
  <1>2. PICK k \in Nat : k = Len(frames) /\ DOMAIN frames = 1 .. k
    BY <1>1
  <1>3. PICK L : L = PhasesOf(frames)
    OBVIOUS
  <1>4. L = [i \in 1 .. k |-> L[i]] /\ \A i \in 1 .. k : L[i] = frames[i].s
    BY <1>2, <1>3 DEF PhasesOf
  <1>5. PICK V : V = {frames[i].s : i \in 1 .. k}
    OBVIOUS
  <1>6. \A i \in 1 .. k : L[i] \in V
    BY <1>4, <1>5
  <1>7. L \in Seq(V) /\ Len(L) = k /\ DOMAIN L = 1 .. k
    BY <1>4, <1>6, ListIs
  <1>8. \A i \in 1 .. k : IsPhases(L[i], N)
    BY <1>2, <1>4 DEF AllFrames, IsFrame, IsPhases
  <1>9. AllPhases(L, N)
    BY <1>7, <1>8 DEF AllPhases, IsSeq
  <1>10. Duals(frames) = Pairs(L)
    BY <1>2, <1>4, <1>7 DEF Duals, Pairs
  <1> QED
    BY <1>2, <1>3, <1>7, <1>4, <1>9, <1>10

(* A frame more.                                                            *)
LEMMA FramesMore ==
    ASSUME NEW N \in Nat, NEW frames, AllFrames(frames, N), NEW f, IsFrame(f, N)
    PROVE  AllFrames(Append(frames, f), N) /\ PhasesOf(Append(frames, f)) = Append(PhasesOf(frames), f.s)
  <1>1. PICK A : frames \in Seq(A)
    BY DEF AllFrames, IsSeq
  <1>2. PICK k \in Nat : k = Len(frames) /\ DOMAIN frames = 1 .. k
    BY <1>1
  <1>3. PICK L : L = PhasesOf(frames)
    OBVIOUS
  <1>4. L = [i \in 1 .. k |-> L[i]] /\ \A i \in 1 .. k : L[i] = frames[i].s
    BY <1>2, <1>3 DEF PhasesOf
  <1>5. PICK V : V = {frames[i].s : i \in 1 .. k}
    OBVIOUS
  <1>6. \A i \in 1 .. k : L[i] \in V
    BY <1>4, <1>5
  <1>7. L \in Seq(V) /\ Len(L) = k /\ DOMAIN L = 1 .. k
    BY <1>4, <1>6, ListIs
  <1>11. AllFrames(Append(frames, f), N) /\ PhasesOf(Append(frames, f)) = Append(PhasesOf(frames), f.s)
    <2>1. frames \in Seq(A \cup {f}) /\ f \in A \cup {f} /\ L \in Seq(V \cup {f.s}) /\ f.s \in V \cup {f.s}
      BY <1>1, <1>7
    <2>2. PICK e : e = Append(frames, f)
      OBVIOUS
    <2>3. e \in Seq(A \cup {f}) /\ DOMAIN e = 1 .. k + 1 /\ e[k + 1] = f /\ \A i \in 1 .. k : e[i] = frames[i]
      BY <1>2, <2>1, <2>2
    <2>4. \A i \in 1 .. k + 1 : i \in 1 .. k \/ i = k + 1
      OBVIOUS
    <2>5. AllFrames(e, N)
      <3>1. \A i \in 1 .. k : IsFrame(frames[i], N)
        BY <1>2 DEF AllFrames
      <3> HIDE DEF IsFrame
      <3> QED
        BY <2>3, <2>4, <3>1 DEF AllFrames, IsSeq
    <2>6. PICK h : h = Append(L, f.s)
      OBVIOUS
    <2>7. h = [i \in 1 .. k + 1 |-> h[i]] /\ h[k + 1] = f.s /\ \A i \in 1 .. k : h[i] = L[i]
      BY <1>7, <2>1, <2>6
    <2>8. PhasesOf(e) = [i \in 1 .. k + 1 |-> e[i].s]
      BY <2>3 DEF PhasesOf
    <2>9. \A i \in 1 .. k + 1 : h[i] = e[i].s
      BY <1>4, <2>3, <2>4, <2>7
    <2>10. PhasesOf(e) = h
      BY <2>7, <2>8, <2>9
    <2> QED
      BY <1>3, <2>2, <2>5, <2>6, <2>10
  <1> QED
    BY <1>11

(* What the frames stand for.                                               *)
LEMMA FramesOwe ==
    ASSUME NEW frames, NEW m
    PROVE  UNION {{<<Sum(m, y), frames[i].s[y]>> : y \in DOMAIN frames[i].s} : i \in DOMAIN frames} = Owed(m, PhasesOf(frames))
  <1>1. DOMAIN PhasesOf(frames) = DOMAIN frames /\ \A i \in DOMAIN frames : PhasesOf(frames)[i] = frames[i].s
    BY DEF PhasesOf
  <1> QED
    BY <1>1 DEF Owed

(* The books are what is asked for.                                         *)
LEMMA BooksAccount == TypeInv /\ Books => Accounted
  <1> SUFFICES ASSUME TypeInv, Books, job.kind = "gray", pc \in {"pop", "common"}
               PROVE  /\ Len(Placed) + Cardinality(Duals(Frames)) = Cardinality(DOMAIN terms)
                      /\ ToSet(Placed) \cup Pending(Frames) = {<<p, terms[p]>> : p \in DOMAIN terms}
    BY DEF Accounted
  <1>1. n \in Nat
    BY JobTyped DEF TypeInv, KindsFit
  <1>2. AllFrames(stack, n) /\ (pc = "common" => IsFrame(frame, n))
    BY DEF TypeInv, FramesFit, AllFrames
  <1>3. PICK frames : frames = Frames
    OBVIOUS
  <1>4. AllFrames(frames, n) /\ Balanced(out, PhasesOf(frames), terms)
    <2>1. CASE pc = "pop"
      BY <1>2, <1>3, <2>1 DEF Books, Frames
    <2>2. CASE pc = "common"
      <3>1. frames = Append(stack, frame)
        BY <1>3, <2>2 DEF Frames
      <3>2. AllFrames(frames, n) /\ PhasesOf(frames) = Append(PhasesOf(stack), frame.s)
        BY <1>1, <1>2, <2>2, <3>1, FramesMore
      <3> QED
        BY <2>2, <3>2 DEF Books
    <2> QED
      BY <2>1, <2>2
  <1>5. Duals(frames) = Pairs(PhasesOf(frames))
    BY <1>1, <1>4, FramePhases
  <1>6. Pending(frames) = Owed(wires, PhasesOf(frames))
    BY FramesOwe DEF Pending
  <1>7. Trace(out).m = wires
    BY DEF Books
  <1> QED
    BY <1>3, <1>4, <1>5, <1>6, <1>7 DEF Balanced, Placed, Whole

(* The books of the next state.                                             *)
LEMMA BooksNext ==
    ASSUME TypeInv, job' = job, NEW s, s = out',
           pc' \notin {"start", "lift"},
           pc' = "pop" => Balanced(s, PhasesOf(stack'), terms'),
           pc' = "common" => Balanced(s, Append(PhasesOf(stack'), frame'.s), terms'),
           pc' \in {"pop", "common"} => Trace(s).m = wires'
    PROVE  Books'
  <1>1. n' = n
    BY JobStays
  <1>2. Trace(out)' = Trace(s)
    BY <1>1, TraceNext
  <1>3. \A A : Ops(A)' = Ops(A)
    BY <1>1 DEF Ops
  <1>4. Balanced(out, PhasesOf(stack), terms)' <=> Balanced(s, PhasesOf(stack'), terms')
    BY <1>1, <1>2, <1>3 DEF Balanced
  <1>5. Balanced(out, Append(PhasesOf(stack), frame.s), terms)' <=> Balanced(s, Append(PhasesOf(stack'), frame'.s), terms')
    BY <1>1, <1>2, <1>3 DEF Balanced
  <1> QED
    BY <1>2, <1>4, <1>5 DEF Books

(* Nothing is placed before the call.                                       *)
LEMMA InitBooks == Init => Books
  BY DEF Init, Books, n

(* The check of the call places nothing.                                    *)
LEMMA StartBooks == ASSUME TypeInv, Books, Start PROVE Books'
  <1>1. job' = job /\ n' = n
    BY JobStays DEF Start
  <1>2. job.kind = "gray" => pc = "start" /\ pc' \in {"lift", "refused"}
    BY DEF Start
  <1>3. UNCHANGED <<out, wires>>
    BY DEF Start
  <1> QED
    BY <1>1, <1>2, <1>3 DEF Books

(* Collecting the terms places nothing.                                     *)
LEMMA LiftBooks == ASSUME TypeInv, Books, Lift PROVE Books'
  <1>1. job' = job /\ n' = n
    BY JobStays DEF Lift
  <1>2. pc = "lift" /\ pc' \in {"lift", "refused"}
    BY DEF Lift
  <1>3. UNCHANGED <<out, wires>>
    BY DEF Lift
  <1> QED
    BY <1>1, <1>2, <1>3 DEF Books

(* Before the first gate the phases are all to be placed, and each dual     *)
(* stands for itself.                                                       *)
LEMMA StartBalanced ==
    ASSUME n \in Nat, NEW d, IsPhases(d, n)
    PROVE  AllPhases(<< >>, n) /\ Balanced(<< >>, Append(<< >>, d), d) /\ Trace(<< >>).m = IdentityMap(n)
  <1>1. << >> \in Seq(Ops({})) /\ << >> \in Seq({}) /\ DOMAIN << >> = {} /\ Len(<< >>) = 0
    OBVIOUS
  <1>2. AllPhases(<< >>, n)
    BY <1>1 DEF AllPhases, IsSeq
  <1>3. PICK L : L = << >>
    OBVIOUS
  <1>4. PICK m \in Mat(n) : m = IdentityMap(n)
    BY IdentityTyped
  <1>5. Trace(L).m = m /\ Trace(L).rz = << >>
    BY <1>3, <1>4, TraceEmpty
  <1>6. Pairs(L) = {} /\ Owed(m, L) = {}
    BY <1>1, <1>3 DEF Pairs, Owed
  <1>7. /\ AllPhases(Append(L, d), n)
        /\ Cardinality(Pairs(Append(L, d))) = Cardinality(Pairs(L)) + Cardinality(DOMAIN d)
        /\ Owed(m, Append(L, d)) = Owed(m, L) \cup OwedOf(m, d)
        /\ Cardinality(DOMAIN d) \in Nat
    <2>1. AllPhases(L, n)
      BY <1>2, <1>3
    <2> QED
      BY <2>1, PairsMore
  <1>8. OwedOf(m, d) = Whole(d)
    <2>1. \A y \in DOMAIN d : Sum(m, y) = y
      <3> SUFFICES ASSUME NEW y \in DOMAIN d PROVE Sum(m, y) = y
        OBVIOUS
      <3>1. y \in SUBSET Wires(n)
        BY DEF IsPhases, Parity
      <3> QED
        BY <1>4, <3>1, SumOfInputs
    <2> QED
      BY <2>1 DEF OwedOf, Whole
  <1>9. Cardinality(Pairs(L)) = 0
    BY <1>6, FS_EmptySet
  <1>10. Len(Trace(L).rz) + Cardinality(Pairs(Append(L, d))) = Cardinality(DOMAIN d)
    BY <1>1, <1>5, <1>7, <1>9
  <1>11. ToSet(Trace(L).rz) = {}
    BY <1>1, <1>5 DEF ToSet
  <1>12. ToSet(Trace(L).rz) \cup Owed(Trace(L).m, Append(L, d)) = Whole(d)
    BY <1>5, <1>6, <1>7, <1>8, <1>11
  <1>13. Balanced(L, Append(L, d), d)
    BY <1>1, <1>3, <1>7, <1>10, <1>12 DEF Balanced
  <1> QED
    BY <1>2, <1>3, <1>4, <1>5, <1>13

(* The first frame owes every phase, on wires that carry their inputs.      *)
LEMMA LiftedBooks == ASSUME TypeInv, Books, Lifted PROVE Books'
  <1>1. job' = job /\ job \in Jobs /\ n \in Nat /\ n' = n
    BY JobStays DEF Lifted
  <1>2. pc = "lift" /\ pc' \in {"terms", "pop"} /\ (pc' = "pop" => job.kind = "gray")
    BY DEF Lifted, TypeInv, KindsFit
  <1>3. CASE job.kind # "gray"
    BY <1>1, <1>3 DEF Books
  <1>4. CASE job.kind = "gray"
    <2>1. PICK d : d = Merged /\ IsPhases(d, n)
      <3>1. Synthesizable
        BY <1>2, <1>4 DEF TypeInv, KindsFit, Admitted
      <3>2. DOMAIN terms \subseteq Parity(n)
        BY <1>2 DEF TypeInv, TermsFit
      <3> QED
        BY <1>1, <3>1, <3>2, MergedTyped
    <2>2. PICK u : u = Unplaced(d) /\ IsPhases(u, n)
      BY <2>1, UnplacedTyped
    <2>3. PICK R : R = PlaceReady(d)
      OBVIOUS
    <2>4. R \in Seq(Locals(Ticks(d)))
      <3>1. IdentityMap(n) \in Mat(n)
        BY <1>1, IdentityTyped
      <3> QED
        BY <1>1, <2>1, <2>3, <3>1, PlacesReady
    <2>5. << >> \o R = R
      BY <2>4
    <2>6. AllPhases(<< >>, n) /\ Balanced(<< >>, Append(<< >>, d), d) /\ Trace(<< >>).m = IdentityMap(n)
      BY <1>1, <2>1, StartBalanced
    <2>7. Balanced(R, Append(<< >>, u), d) /\ Trace(R).m = IdentityMap(n)
      <3>1. PICK s : s = << >>
        OBVIOUS
      <3>2. AllPhases(s, n) /\ Balanced(s, Append(s, d), d)
        BY <2>6, <3>1
      <3>3. Balanced(s \o R, Append(s, u), d) /\ Trace(s \o R).m = Trace(s).m
        BY <1>1, <2>1, <2>2, <2>3, <3>2, PlaceTop
      <3> QED
        BY <2>5, <2>6, <3>1, <3>3
    <2>8. out' = R /\ terms' = d /\ pc' = "pop" /\ wires' = IdentityMap(n)
      BY <1>2, <1>4, <2>1, <2>3 DEF Lifted, Books
    <2>9. stack' = IF u = Empty THEN << >> ELSE <<Frame(u, Wires(n), None)>>
      BY <1>4, <2>1, <2>2 DEF Lifted
    <2>10. Balanced(R, PhasesOf(stack'), d)
      <3>1. CASE u = Empty
        <4>1. PhasesOf(stack') = << >>
          <5>1. stack' = << >> /\ DOMAIN << >> = {}
            BY <2>9, <3>1
          <5>2. PhasesOf(stack') = [i \in {} |-> stack'[i].s]
            BY <5>1 DEF PhasesOf
          <5> QED
            BY <5>2
        <4>2. DOMAIN u = {}
          BY <3>1, EmptyIs
        <4>3. Balanced(R, << >>, d)
          BY <1>1, <2>2, <2>6, <2>7, <4>2, DropEmpty
        <4> QED
          BY <4>1, <4>3
      <3>2. CASE u # Empty
        <4>1. PICK f : f = Frame(u, Wires(n), None) /\ IsFrame(f, n) /\ f.s = u
          <5>1. Wires(n) \in SUBSET Wires(n) /\ None \in Wires(n) \cup {None}
            OBVIOUS
          <5>2. IsFrame(Frame(u, Wires(n), None), n)
            BY <2>2, <5>1, FrameTyped
          <5>3. Frame(u, Wires(n), None).s = u
            BY DEF Frame
          <5> QED
            BY <5>2, <5>3
        <4>2. stack' = Append(<< >>, f)
          BY <2>9, <3>2, <4>1
        <4>3. AllFrames(<< >>, n)
          BY <4>1, OneFrame
        <4>4. PhasesOf(stack') = Append(PhasesOf(<< >>), u)
          BY <1>1, <4>1, <4>2, <4>3, FramesMore
        <4>5. PhasesOf(<< >>) = << >>
          <5>1. PhasesOf(<< >>) = [i \in {} |-> << >>[i].s]
            BY DEF PhasesOf
          <5> QED
            BY <5>1
        <4> QED
          BY <2>7, <4>4, <4>5
      <3> QED
        BY <3>1, <3>2
    <2> QED
      BY <1>1, <2>7, <2>8, <2>10, BooksNext
  <1> QED
    BY <1>3, <1>4

(* A frame leaves the stack, and a dual of one wire is placed.              *)
LEMMA PopBooks == ASSUME TypeInv, Books, Pop PROVE Books'
  <1>1. job' = job /\ job \in Jobs /\ n \in Nat /\ n' = n
    BY JobStays DEF Pop
  <1>2. pc = "pop" /\ pc' \in {"pop", "common"} /\ job.kind = "gray"
    BY DEF Pop, TypeInv, KindsFit
  <1>3. IsSeq(stack) /\ stack # << >> /\ \A i \in DOMAIN stack : IsFrame(stack[i], n)
    BY <1>2 DEF Pop, TypeInv, FramesFit
  <1>4. PICK low : low = Front(stack) /\ AllFrames(low, n)
    <2>0. PICK low : low = Front(stack)
      OBVIOUS
    <2>1. IsSeq(low) /\ \A i \in DOMAIN low : i \in DOMAIN stack /\ low[i] = stack[i]
      BY <1>3, <2>0, PopFrames
    <2> HIDE DEF IsFrame
    <2> QED
      BY <1>3, <2>0, <2>1 DEF AllFrames
  <1>5. PICK f : f = Last(stack) /\ IsFrame(f, n) /\ IsPhases(f.s, n)
    <2>1. IsFrame(Last(stack), n)
      BY <1>3, PopFrames
    <2> QED
      BY <2>1 DEF IsFrame, IsPhases
  <1>6. stack = Append(low, f)
    <2>1. PICK A : stack \in Seq(A)
      BY <1>3 DEF IsSeq
    <2>2. PICK k \in Nat \ {0} : k = Len(stack)
      BY <1>3, PopFrames
    <2>3. stack = [i \in 1 .. k |-> stack[i]]
      BY <2>1, <2>2
    <2>4. PICK B : low \in Seq(B)
      BY <1>4 DEF AllFrames, IsSeq
    <2>5. low \in Seq(B \cup {f}) /\ f \in B \cup {f} /\ Len(low) = k - 1 /\ (\A i \in 1 .. k - 1 : low[i] = stack[i]) /\ f = stack[k]
      BY <1>3, <1>4, <1>5, <2>2, <2>4, PopFrames
    <2>6. PICK e : e = Append(low, f)
      OBVIOUS
    <2>7. e = [i \in 1 .. k |-> e[i]] /\ e[k] = f /\ \A i \in 1 .. k - 1 : e[i] = low[i]
      BY <2>5, <2>6
    <2>8. \A i \in 1 .. k : i \in 1 .. k - 1 \/ i = k
      OBVIOUS
    <2>9. \A i \in 1 .. k : e[i] = stack[i]
      BY <2>5, <2>7, <2>8
    <2> QED
      BY <2>3, <2>6, <2>7, <2>9
  <1>7. PICK L : L = PhasesOf(low) /\ AllPhases(L, n)
    BY <1>1, <1>4, FramePhases
  <1>8. PhasesOf(stack) = Append(L, f.s)
    BY <1>1, <1>4, <1>5, <1>6, <1>7, FramesMore
  <1>9. Balanced(out, Append(L, f.s), terms) /\ Trace(out).m = wires
    BY <1>2, <1>8 DEF Books
  <1>10. PICK u : u = Unplaced(f.s) /\ IsPhases(u, n)
    BY <1>5, UnplacedTyped
  <1>11. PICK s : s = out \o PlaceReady(f.s)
    OBVIOUS
  <1>12. Balanced(s, Append(L, u), terms) /\ Trace(s).m = wires
    BY <1>1, <1>5, <1>7, <1>9, <1>10, <1>11, PlaceTop
  <1>13. out' = s /\ stack' = low /\ terms' = terms /\ wires' = wires /\ frame'.s = u
         /\ pc' = IF u = Empty THEN "pop" ELSE "common"
    <2>1. frame' = [f EXCEPT !.s = Unplaced(@)]
      BY <1>5 DEF Pop
    <2>2. frame'.s = u
      BY <1>5, <1>10, <2>1 DEF IsFrame, Frame
    <2> QED
      BY <1>4, <1>5, <1>10, <1>11, <2>2 DEF Pop
  <1>14. pc' = "pop" => Balanced(s, L, terms)
    <2> SUFFICES ASSUME pc' = "pop" PROVE Balanced(s, L, terms)
      OBVIOUS
    <2>1. DOMAIN u = {}
      BY <1>13, EmptyIs
    <2> QED
      BY <1>1, <1>7, <1>10, <1>12, <2>1, DropEmpty
  <1>15. pc' \notin {"start", "lift"}
    BY <1>2
  <1>16. pc' = "pop" => Balanced(s, PhasesOf(stack'), terms')
    BY <1>7, <1>13, <1>14
  <1>17. pc' = "common" => Balanced(s, Append(PhasesOf(stack'), frame'.s), terms')
    BY <1>7, <1>12, <1>13
  <1> QED
    BY <1>1, <1>12, <1>13, <1>15, <1>16, <1>17, BooksNext

(* The duals of one list more after a CNOT.                                 *)
LEMMA DualsMore ==
    ASSUME NEW N \in Nat, NEW L, AllPhases(L, N), NEW d, IsPhases(d, N), NEW c, NEW t,
           NEW K, K = [i \in DOMAIN L |-> DualCx(L[i], c, t)],
           NEW e, e = Append(L, d), NEW M, M = [i \in DOMAIN e |-> DualCx(e[i], c, t)]
    PROVE  M = Append(K, DualCx(d, c, t))
  <1>1. PICK A : L \in Seq(A)
    BY DEF AllPhases, IsSeq
  <1>2. PICK k \in Nat : k = Len(L) /\ DOMAIN L = 1 .. k
    BY <1>1
  <1>3. L \in Seq(A \cup {d}) /\ d \in A \cup {d}
    BY <1>1
  <1>5. DOMAIN e = 1 .. k + 1 /\ e[k + 1] = d /\ \A i \in 1 .. k : e[i] = L[i]
    BY <1>2, <1>3
  <1>6. PICK x : x = DualCx(d, c, t)
    OBVIOUS
  <1>7. K = [i \in 1 .. k |-> K[i]] /\ \A i \in 1 .. k : K[i] = DualCx(L[i], c, t)
    BY <1>2
  <1>8. PICK V : V = {K[i] : i \in 1 .. k}
    OBVIOUS
  <1>9. \A i \in 1 .. k : K[i] \in V
    BY <1>8
  <1>10. K \in Seq(V) /\ Len(K) = k
    BY <1>7, <1>9, ListIs
  <1>11. K \in Seq(V \cup {x}) /\ x \in V \cup {x}
    BY <1>10
  <1>12. PICK h : h = Append(K, x)
    OBVIOUS
  <1>13. h = [i \in 1 .. k + 1 |-> h[i]] /\ h[k + 1] = x /\ \A i \in 1 .. k : h[i] = K[i]
    BY <1>10, <1>11, <1>12
  <1>14. M = [i \in 1 .. k + 1 |-> M[i]] /\ \A i \in 1 .. k + 1 : M[i] = DualCx(e[i], c, t)
    BY <1>5
  <1>15. \A i \in 1 .. k + 1 : i \in 1 .. k \/ i = k + 1
    OBVIOUS
  <1>16. \A i \in 1 .. k + 1 : M[i] = h[i]
    <2>1. ASSUME NEW i \in 1 .. k PROVE M[i] = h[i]
      <3>0. i \in 1 .. k + 1
        OBVIOUS
      <3>1. M[i] = DualCx(e[i], c, t)
        BY <1>14, <3>0, Zenon
      <3>2. e[i] = L[i]
        BY <1>5
      <3>3. h[i] = K[i]
        BY <1>13, Zenon
      <3>4. K[i] = DualCx(L[i], c, t)
        BY <1>7, Zenon
      <3> QED
        BY <3>1, <3>2, <3>3, <3>4, Zenon
    <2>2. M[k + 1] = h[k + 1]
      <3>1. M[k + 1] = DualCx(e[k + 1], c, t)
        BY <1>14
      <3> QED
        BY <1>5, <1>6, <1>13, <3>1
    <2> QED
      BY <1>15, <2>1, <2>2
  <1> QED
    BY <1>6, <1>12, <1>13, <1>14, <1>16

(* A CNOT of GraySynth: every list follows it, and ready duals are placed.  *)
LEMMA ShareBooks == ASSUME TypeInv, Books, Share PROVE Books'
  <1>1. job' = job /\ job \in Jobs /\ n \in Nat /\ n' = n /\ None \notin Nat
    BY JobStays, JobTyped DEF Share
  <1>2. pc = "common" /\ pc' \in {"pop", "common"} /\ job.kind = "gray"
    BY DEF Share, TypeInv, KindsFit
  <1>3. PICK j \in Wires(n), t \in Wires(n) : j = LeastOf(Common(frame)) /\ t = frame.target /\ j # t
    BY <1>1, <1>2, ShareWires DEF Share, TypeInv, FramesFit
  <1>4. IsFrame(frame, n) /\ IsPhases(frame.s, n) /\ AllFrames(stack, n)
    <2>1. IsFrame(frame, n) /\ AllFrames(stack, n)
      BY <1>2 DEF TypeInv, FramesFit, AllFrames
    <2> QED
      BY <2>1 DEF IsFrame, IsPhases
  <1>5. PICK L : L = PhasesOf(stack) /\ AllPhases(L, n) /\ DOMAIN L = DOMAIN stack /\ \A i \in DOMAIN stack : L[i] = stack[i].s
    BY <1>1, <1>4, FramePhases
  <1>6. Balanced(out, Append(L, frame.s), terms) /\ Trace(out).m = wires
    BY <1>2, <1>5 DEF Books
  <1>7. PICK now : now = DualCx(frame.s, j, t) /\ IsPhases(now, n)
    BY <1>1, <1>3, <1>4, DualCxIs
  <1>8. PICK below : below = [i \in DOMAIN L |-> DualCx(L[i], j, t)]
    OBVIOUS
  <1>9. AllPhases(below, n)
    <2>1. wires \in Mat(n)
      BY <1>2 DEF TypeInv, WiresFit
    <2> QED
      BY <1>1, <1>3, <1>5, <1>8, <2>1, PairsDual
  <1>10. PICK s1 : s1 = Append(out, Cx(<<j, t>>))
    OBVIOUS
  <1>11. Balanced(s1, Append(below, now), terms) /\ Trace(s1).m = AddRow(wires, j, t)
    <2>0. PICK e : e = Append(L, frame.s)
      OBVIOUS
    <2>1. PICK K : K = [i \in DOMAIN e |-> DualCx(e[i], j, t)]
      OBVIOUS
    <2>2. K = Append(below, now)
      BY <1>1, <1>4, <1>5, <1>7, <1>8, <2>0, <2>1, DualsMore
    <2>3. Balanced(s1, K, terms) /\ Trace(s1).m = AddRow(Trace(out).m, j, t)
      <3>1. PICK s0 : s0 = out /\ Balanced(s0, e, terms)
        BY <1>6, <2>0
      <3>2. PICK phases : phases = terms
        OBVIOUS
      <3>3. Balanced(Append(s0, Cx(<<j, t>>)), K, phases) /\ Trace(Append(s0, Cx(<<j, t>>))).m = AddRow(Trace(s0).m, j, t)
        BY <1>1, <1>3, <2>1, <3>1, <3>2, CxBalanced
      <3> QED
        BY <1>10, <3>1, <3>2, <3>3
    <2> QED
      BY <1>6, <2>2, <2>3
  <1>12. PICK u : u = Unplaced(now) /\ IsPhases(u, n)
    BY <1>7, UnplacedTyped
  <1>13. PICK s2 : s2 = s1 \o PlaceReady(now)
    OBVIOUS
  <1>14. Balanced(s2, Append(below, u), terms) /\ Trace(s2).m = AddRow(wires, j, t)
    BY <1>1, <1>7, <1>9, <1>11, <1>12, <1>13, PlaceTop
  <1>15. PICK K : K = [i \in DOMAIN below |-> Unplaced(below[i])]
    OBVIOUS
  <1>16. PICK s3 : s3 = s2 \o PlaceAll(below)
    OBVIOUS
  <1>17. AllPhases(K, n) /\ Balanced(s3, Append(K, u), terms) /\ Trace(s3).m = AddRow(wires, j, t)
    BY <1>1, <1>9, <1>12, <1>14, <1>15, <1>16, PlaceBelow
  <1>18. below = [i \in DOMAIN stack |-> DualCx(stack[i].s, j, t)]
    BY <1>5, <1>8
  <1>19. out' = s3
    BY <1>3, <1>7, <1>10, <1>13, <1>16, <1>18 DEF Share
  <1>20. wires' = AddRow(wires, j, t) /\ terms' = terms /\ pc' = IF u = Empty THEN "pop" ELSE "common"
    BY <1>3, <1>7, <1>12 DEF Share
  <1>21. frame'.s = u
    <2>1. frame' = [frame EXCEPT !.s = u]
      BY <1>3, <1>7, <1>12 DEF Share
    <2> QED
      BY <1>4, <2>1 DEF IsFrame, Frame
  <1>22. PhasesOf(stack') = K
    <2>1. stack' = [i \in DOMAIN stack |-> [stack[i] EXCEPT !.s = Unplaced(below[i])]]
      BY <1>3, <1>18 DEF Share
    <2>2. \A i \in DOMAIN stack : [stack[i] EXCEPT !.s = Unplaced(below[i])].s = Unplaced(below[i])
      <3> SUFFICES ASSUME NEW i \in DOMAIN stack PROVE [stack[i] EXCEPT !.s = Unplaced(below[i])].s = Unplaced(below[i])
        OBVIOUS
      <3>1. IsFrame(stack[i], n)
        BY <1>4 DEF AllFrames
      <3> QED
        BY <3>1 DEF IsFrame, Frame
    <2>3. \A i \in DOMAIN stack : stack'[i].s = Unplaced(below[i])
      BY <2>1, <2>2
    <2>4. DOMAIN stack' = DOMAIN stack /\ DOMAIN below = DOMAIN stack
      BY <1>18, <2>1
    <2> QED
      BY <1>15, <2>3, <2>4 DEF PhasesOf
  <1>23. pc' = "pop" => Balanced(s3, K, terms)
    <2> SUFFICES ASSUME pc' = "pop" PROVE Balanced(s3, K, terms)
      OBVIOUS
    <2>1. DOMAIN u = {}
      BY <1>20, EmptyIs
    <2> QED
      BY <1>1, <1>12, <1>17, <2>1, DropEmpty
  <1>24. pc' \notin {"start", "lift"}
    BY <1>2
  <1>25. pc' = "pop" => Balanced(s3, PhasesOf(stack'), terms')
    BY <1>20, <1>22, <1>23
  <1>26. pc' = "common" => Balanced(s3, Append(PhasesOf(stack'), frame'.s), terms')
    BY <1>17, <1>20, <1>21, <1>22
  <1> QED
    BY <1>1, <1>17, <1>19, <1>20, <1>24, <1>25, <1>26, BooksNext

(* One element more, or none.                                               *)
LEMMA ConcatOne ==
    ASSUME NEW s, IsSeq(s), NEW x
    PROVE  s \o <<x>> = Append(s, x) /\ s \o << >> = s
  <1>1. PICK A : s \in Seq(A)
    BY DEF IsSeq
  <1>2. s \in Seq(A \cup {x}) /\ <<x>> \in Seq(A \cup {x}) /\ << >> \in Seq(A)
    BY <1>1
  <1> QED
    BY <1>1, <1>2

(* A list in two parts.                                                     *)
LEMMA SplitBalanced ==
    ASSUME n \in Nat, NEW s, NEW L, AllPhases(L, n), NEW d, IsPhases(d, n), NEW phases, Balanced(s, Append(L, d), phases),
           NEW O \in SUBSET DOMAIN d, NEW d1, d1 = [y \in O |-> d[y]],
           NEW d2, d2 = [y \in DOMAIN d \ O |-> d[y]]
    PROVE  /\ IsPhases(d1, n) /\ IsPhases(d2, n) /\ AllPhases(Append(L, d1), n)
           /\ Balanced(s, Append(Append(L, d1), d2), phases)
  <1>1. IsPhases(d1, n) /\ IsPhases(d2, n)
    BY DEF IsPhases, IsFun
  <1>2. PICK m : m = Trace(s).m
    OBVIOUS
  <1>3. /\ Cardinality(Pairs(Append(L, d))) = Cardinality(Pairs(L)) + Cardinality(DOMAIN d)
        /\ Owed(m, Append(L, d)) = Owed(m, L) \cup OwedOf(m, d)
    BY PairsMore
  <1>4. PICK L1 : L1 = Append(L, d1)
    OBVIOUS
  <1>5. /\ AllPhases(L1, n)
        /\ Cardinality(Pairs(L1)) = Cardinality(Pairs(L)) + Cardinality(DOMAIN d1)
        /\ Owed(m, L1) = Owed(m, L) \cup OwedOf(m, d1)
        /\ Cardinality(DOMAIN d1) \in Nat
    BY <1>1, <1>4, PairsMore
  <1>6. /\ AllPhases(Append(L1, d2), n)
        /\ Cardinality(Pairs(Append(L1, d2))) = Cardinality(Pairs(L1)) + Cardinality(DOMAIN d2)
        /\ Owed(m, Append(L1, d2)) = Owed(m, L1) \cup OwedOf(m, d2)
        /\ Cardinality(DOMAIN d2) \in Nat
    BY <1>1, <1>5, PairsMore
  <1>7. Cardinality(DOMAIN d) = Cardinality(DOMAIN d1) + Cardinality(DOMAIN d2)
    <2>1. IsFiniteSet(DOMAIN d1) /\ IsFiniteSet(DOMAIN d2)
      BY <1>1, PhasesFinite
    <2>2. DOMAIN d = DOMAIN d1 \cup DOMAIN d2 /\ DOMAIN d1 \cap DOMAIN d2 = {}
      OBVIOUS
    <2> QED
      BY <2>1, <2>2, SizeOfParts
  <1>8. OwedOf(m, d) = OwedOf(m, d1) \cup OwedOf(m, d2)
    <2>1. /\ OwedOf(m, d1) = {<<Sum(m, y), d[y]>> : y \in O}
          /\ OwedOf(m, d2) = {<<Sum(m, y), d[y]>> : y \in DOMAIN d \ O}
      BY DEF OwedOf
    <2> QED
      BY <2>1 DEF OwedOf
  <1>9. Cardinality(Pairs(L)) \in Nat
    BY PairsFinite
  <1>10. Cardinality(Pairs(Append(L1, d2))) = Cardinality(Pairs(Append(L, d)))
    BY <1>3, <1>5, <1>6, <1>7, <1>9
  <1>11. Owed(m, Append(L1, d2)) = Owed(m, Append(L, d))
    BY <1>3, <1>5, <1>6, <1>8
  <1>12. Balanced(s, Append(L1, d2), phases)
    BY <1>2, <1>6, <1>10, <1>11 DEF Balanced
  <1> QED
    BY <1>1, <1>4, <1>5, <1>12

(* The two halves of a frame owe what the frame did.                        *)
LEMMA SplitBooks == ASSUME TypeInv, Books, Split PROVE Books'
  <1>1. job' = job /\ job \in Jobs /\ n \in Nat /\ n' = n
    BY JobStays DEF Split
  <1>2. pc = "common" /\ pc' \in {"pop", "refused"} /\ job.kind = "gray"
    BY DEF Split, TypeInv, KindsFit
  <1>3. CASE frame.unused = {}
    <2>1. pc' = "refused"
      BY <1>3 DEF Split
    <2> QED
      BY <1>1, <2>1, BooksNext
  <1>4. CASE frame.unused # {}
    <2>1. IsFrame(frame, n) /\ AllFrames(stack, n) /\ IsSeq(stack)
      BY <1>2 DEF TypeInv, FramesFit, AllFrames
    <2>2. PICK d : d = frame.s /\ IsPhases(d, n)
      BY <2>1 DEF IsFrame, IsPhases
    <2>3. PICK j \in Wires(n) : j = Best(frame)
      BY <1>1, <1>4, <2>1, BestIs DEF IsFrame
    <2>4. PICK rest \in SUBSET Wires(n) : rest = frame.unused \ {j}
      BY <2>1 DEF IsFrame
    <2>5. PICK low \in Wires(n) \cup {None} : low = frame.target
      BY <2>1 DEF IsFrame
    <2>6. PICK up \in Wires(n) \cup {None} : up = IF low = None THEN j ELSE low
      OBVIOUS
    <2>7. PICK O \in SUBSET DOMAIN d : O = {y \in DOMAIN d : j \in y}
      OBVIOUS
    <2>8. PICK d1 : d1 = [y \in O |-> d[y]]
      OBVIOUS
    <2>9. PICK d2 : d2 = [y \in DOMAIN d \ O |-> d[y]]
      OBVIOUS
    <2>10. PICK L : L = PhasesOf(stack) /\ AllPhases(L, n)
      BY <1>1, <2>1, FramePhases
    <2>11. PICK s : s = out
      OBVIOUS
    <2>12. PICK phases : phases = terms
      OBVIOUS
    <2>13. Balanced(s, Append(L, d), phases) /\ Trace(s).m = wires
      BY <1>2, <2>2, <2>10, <2>11, <2>12 DEF Books
    <2>14. /\ IsPhases(d1, n) /\ IsPhases(d2, n) /\ AllPhases(Append(L, d1), n)
           /\ Balanced(s, Append(Append(L, d1), d2), phases)
      <3>1. AllPhases(L, n) /\ IsPhases(d, n) /\ Balanced(s, Append(L, d), phases)
        BY <2>2, <2>10, <2>13
      <3> QED
        BY <1>1, <2>8, <2>9, <3>1, SplitBalanced, SMTT(30)
    <2>15. PICK f1 : f1 = Frame(d1, rest, up) /\ IsFrame(f1, n) /\ f1.s = d1
      <3>1. IsFrame(Frame(d1, rest, up), n)
        BY <2>14, FrameTyped
      <3>2. Frame(d1, rest, up).s = d1
        BY DEF Frame
      <3> QED
        BY <3>1, <3>2
    <2>16. PICK f2 : f2 = Frame(d2, rest, low) /\ IsFrame(f2, n) /\ f2.s = d2
      <3>1. IsFrame(Frame(d2, rest, low), n)
        BY <2>14, FrameTyped
      <3>2. Frame(d2, rest, low).s = d2
        BY DEF Frame
      <3> QED
        BY <3>1, <3>2
    <2>17. stack' = stack \o (IF O = {} THEN << >> ELSE <<f1>>) \o (IF DOMAIN d \ O = {} THEN << >> ELSE <<f2>>)
      <3>1. Strict([y \in O |-> frame.s[y]]) = d1 /\ Strict([y \in DOMAIN d \ O |-> frame.s[y]]) = d2
        BY <2>2, <2>8, <2>9, StrictSame
      <3> QED
        BY <1>4, <2>2, <2>3, <2>4, <2>5, <2>6, <2>7, <2>15, <2>16, <3>1 DEF Split
    <2>18. out' = s /\ terms' = phases /\ wires' = wires /\ pc' = "pop"
      BY <1>4, <2>11, <2>12 DEF Split
    <2>19. Balanced(s, PhasesOf(stack'), phases)
      <3>1. CASE O = {} /\ DOMAIN d \ O = {}
        <4>1. DOMAIN d = {}
          BY <3>1
        <4>2. Balanced(s, L, phases)
          BY <1>1, <2>2, <2>10, <2>13, <4>1, DropEmpty
        <4>3. stack' = stack
          BY <2>1, <2>17, <3>1, ConcatOne
        <4> QED
          BY <2>10, <4>2, <4>3
      <3>2. CASE O = {} /\ DOMAIN d \ O # {}
        <4>1. d2 = d
          BY <2>2, <2>9, <3>2 DEF IsPhases, IsFun
        <4>2. stack \o << >> = stack /\ stack \o <<f2>> = Append(stack, f2)
          BY <2>1, ConcatOne
        <4>3. stack' = Append(stack, f2)
          BY <2>17, <3>2, <4>2
        <4>4. PhasesOf(stack') = Append(L, d2)
          BY <1>1, <2>1, <2>10, <2>16, <4>3, FramesMore
        <4> QED
          BY <2>13, <4>1, <4>4
      <3>3. CASE O # {} /\ DOMAIN d \ O = {}
        <4>1. d1 = d
          <5>1. O = DOMAIN d
            BY <3>3
          <5> QED
            BY <2>2, <2>8, <5>1 DEF IsPhases, IsFun
        <4>2. stack \o <<f1>> = Append(stack, f1)
          BY <2>1, ConcatOne
        <4>3. AllFrames(Append(stack, f1), n) /\ PhasesOf(Append(stack, f1)) = Append(L, d1)
          BY <1>1, <2>1, <2>10, <2>15, FramesMore
        <4>4. Append(stack, f1) \o << >> = Append(stack, f1)
          BY <4>3, ConcatOne DEF AllFrames
        <4>5. stack' = Append(stack, f1)
          BY <2>17, <3>3, <4>2, <4>4
        <4> QED
          BY <2>13, <4>1, <4>3, <4>5
      <3>4. CASE O # {} /\ DOMAIN d \ O # {}
        <4>1. stack \o <<f1>> = Append(stack, f1)
          BY <2>1, ConcatOne
        <4>2. AllFrames(Append(stack, f1), n) /\ PhasesOf(Append(stack, f1)) = Append(L, d1)
          BY <1>1, <2>1, <2>10, <2>15, FramesMore
        <4>3. Append(stack, f1) \o <<f2>> = Append(Append(stack, f1), f2)
          BY <4>2, ConcatOne DEF AllFrames
        <4>4. stack' = Append(Append(stack, f1), f2)
          BY <2>17, <3>4, <4>1, <4>3
        <4>5. PhasesOf(stack') = Append(Append(L, d1), d2)
          BY <1>1, <2>16, <4>2, <4>4, FramesMore
        <4> QED
          BY <2>14, <4>5
      <3> QED
        BY <3>1, <3>2, <3>3, <3>4
    <2> QED
      BY <1>1, <2>13, <2>18, <2>19, BooksNext
  <1> QED
    BY <1>3, <1>4

(* The other steps do not place phases.                                     *)
LEMMA RestBooks ==
    ASSUME TypeInv, Books, GrayRest \/ PickTerm \/ FoldIn \/ Rotate \/ SteinerRest \/ Lower \/ Upper \/ Fallback
    PROVE  Books'
  <1>1. job' = job
    BY DEF GrayRest, PickTerm, FoldIn, Rotate, SteinerRest, Lower, Upper, Fallback
  <1>2. CASE GrayRest \/ Lower
    <2>1. pc' \in {"lower", "upper", "fallback", "refused"}
      BY <1>2 DEF GrayRest, Lower, Failed
    <2> QED
      BY <1>1, <2>1, BooksNext
  <1>3. CASE Upper \/ Fallback
    <2>1. pc' \in {"done", "costly", "fallback", "refused"}
      BY <1>3, Zenon DEF Upper, Fallback, Emit, Failed
    <2> QED
      BY <1>1, <2>1, BooksNext
  <1>4. CASE PickTerm \/ FoldIn \/ Rotate \/ SteinerRest
    <2>1. pc \in {"terms", "tree"}
      BY <1>4, Zenon DEF PickTerm, FoldIn, Rotate, SteinerRest
    <2>2. job.kind = "steiner"
      BY <2>1 DEF TypeInv, KindsFit
    <2> QED
      BY <1>1, <2>2 DEF Books
  <1> QED
    BY <1>2, <1>3, <1>4

(* The books do not depend on anything but the variables.                   *)
LEMMA StutterBooks == ASSUME TypeInv, Books, UNCHANGED vars PROVE Books'
  <1>1. job' = job /\ UNCHANGED <<out, pc, wires, stack, frame, terms>>
    BY DEF vars
  <1>2. n' = n
    BY <1>1, JobStays
  <1>3. CASE job.kind # "gray"
    BY <1>1, <1>3 DEF Books
  <1>4. CASE pc \in {"start", "lift"}
    BY <1>1, <1>2, <1>4 DEF Books
  <1>5. CASE job.kind = "gray" /\ pc \notin {"start", "lift"}
    <2>1. PICK s : s = out
      OBVIOUS
    <2>2. /\ pc = "pop" => Balanced(s, PhasesOf(stack), terms)
          /\ pc = "common" => Balanced(s, Append(PhasesOf(stack), frame.s), terms)
          /\ pc \in {"pop", "common"} => Trace(s).m = wires
      BY <1>5, <2>1 DEF Books
    <2> QED
      BY <1>1, <1>5, <2>1, <2>2, BooksNext
  <1> QED
    BY <1>3, <1>4, <1>5

(* Every step keeps the books.                                              *)
LEMMA StepBooks == TypeInv /\ Books /\ [Next]_vars => Books'
  <1> SUFFICES ASSUME TypeInv, Books, [Next]_vars PROVE Books'
    OBVIOUS
  <1> HIDE DEF TypeInv, Books
  <1> QED
    BY StartBooks, LiftBooks, LiftedBooks, PopBooks, ShareBooks, SplitBooks, RestBooks, StutterBooks DEF Next, Stop

(* GraySynth places every phase of the call once and on the right wire: at  *)
(* every point the RZs placed and the parities the duals stand for are the  *)
(* phases, however the CNOTs were chosen.                                   *)
THEOREM PhasesAccounted == Spec => []Accounted
  <1>1. TypeInv /\ Books /\ [Next]_vars => Books'
    BY StepBooks
  <1> QED
    BY <1>1, InitBooks, SynthesisTypes, BooksAccount, PTL DEF Spec

(* The parity of the number of elements of one of two sets.                 *)
LEMMA OddSum ==
    ASSUME NEW A, IsFiniteSet(A), NEW B, IsFiniteSet(B)
    PROVE  Cardinality(SymDiff(A, B)) % 2 = 1 <=> ~(Cardinality(A) % 2 = 1 <=> Cardinality(B) % 2 = 1)
  <1>1. IsFiniteSet(A \ B) /\ IsFiniteSet(B \ A) /\ IsFiniteSet(A \cap B)
    BY FS_Subset
  <1>2. PICK a \in Nat, b \in Nat, c \in Nat : a = Cardinality(A \ B) /\ b = Cardinality(B \ A) /\ c = Cardinality(A \cap B)
    BY <1>1, FS_CardinalityType
  <1>3. Cardinality(A) = a + c
    <2>1. A = (A \ B) \cup (A \cap B) /\ (A \ B) \cap (A \cap B) = {}
      OBVIOUS
    <2> QED
      BY <1>1, <1>2, <2>1, SizeOfParts
  <1>4. Cardinality(B) = b + c
    <2>1. B = (B \ A) \cup (A \cap B) /\ (B \ A) \cap (A \cap B) = {}
      OBVIOUS
    <2> QED
      BY <1>1, <1>2, <2>1, SizeOfParts
  <1>5. Cardinality(SymDiff(A, B)) = a + b
    <2>1. SymDiff(A, B) = (A \ B) \cup (B \ A) /\ (A \ B) \cap (B \ A) = {}
      BY DEF SymDiff
    <2> QED
      BY <1>1, <1>2, <2>1, SizeOfParts
  <1>6. (a + b) % 2 = 1 <=> ~((a + c) % 2 = 1 <=> (b + c) % 2 = 1)
    OBVIOUS
  <1> QED
    BY <1>3, <1>4, <1>5, <1>6

(* Sums of rows add up.                                                     *)
LEMMA SumAdds ==
    ASSUME NEW N \in Nat, NEW m \in Mat(N), NEW y \in SUBSET Wires(N), NEW z \in SUBSET Wires(N)
    PROVE  Sum(m, SymDiff(y, z)) = SymDiff(Sum(m, y), Sum(m, z))
  <1>1. PICK x \in SUBSET Wires(N) : x = SymDiff(y, z)
    BY DEF SymDiff
  <1>2. ASSUME NEW v \in Wires(N) PROVE v \in Sum(m, x) <=> ~(v \in Sum(m, y) <=> v \in Sum(m, z))
    <2>1. Rows(m, x, v) = SymDiff(Rows(m, y, v), Rows(m, z, v))
      BY <1>1 DEF Rows, SymDiff
    <2>2. IsFiniteSet(Rows(m, y, v)) /\ IsFiniteSet(Rows(m, z, v))
      BY RowsFinite
    <2>3. Cardinality(Rows(m, x, v)) % 2 = 1 <=> ~(Cardinality(Rows(m, y, v)) % 2 = 1 <=> Cardinality(Rows(m, z, v)) % 2 = 1)
      BY <2>1, <2>2, OddSum
    <2> QED
      BY <2>3, SumIs
  <1>3. Sum(m, x) \subseteq Wires(N) /\ Sum(m, y) \subseteq Wires(N) /\ Sum(m, z) \subseteq Wires(N)
    BY SumIs
  <1>4. \A v : v \in Sum(m, x) <=> v \in SymDiff(Sum(m, y), Sum(m, z))
    BY <1>2, <1>3 DEF SymDiff
  <1> QED
    BY <1>1, <1>4

(* What rows within some columns add up to is within them.                  *)
LEMMA SumWithin ==
    ASSUME NEW N \in Nat, NEW m \in Mat(N), NEW y \in SUBSET Wires(N), NEW C, \A i \in y : m[i] \subseteq C
    PROVE  Sum(m, y) \subseteq C
  <1> SUFFICES ASSUME NEW v \in Sum(m, y), v \notin C PROVE FALSE
    OBVIOUS
  <1>1. v \in Wires(N) /\ Cardinality(Rows(m, y, v)) % 2 = 1
    BY SumIs
  <1>2. Rows(m, y, v) = {}
    BY DEF Rows
  <1>3. Cardinality({}) = 0 /\ ~(0 % 2 = 1)
    BY FS_EmptySet
  <1> QED
    BY <1>1, <1>2, <1>3

(* No two sums of the rows of an invertible matrix are the same.            *)
LEMMA SumsDiffer ==
    ASSUME NEW N \in Nat, NEW m \in Mat(N), Invertible(m), NEW y \in SUBSET Wires(N), NEW z \in SUBSET Wires(N),
           Sum(m, y) = Sum(m, z)
    PROVE  y = z
  <1>1. Sum(m, SymDiff(y, z)) = {}
    BY SumAdds DEF SymDiff
  <1>2. SymDiff(y, z) \in SUBSET Wires(N) /\ DOMAIN m = Wires(N)
    BY DEF SymDiff, Mat
  <1>3. SymDiff(y, z) = {}
    BY <1>1, <1>2 DEF Invertible
  <1> QED
    BY <1>3 DEF SymDiff

(* Rows of an invertible matrix do not all fit in fewer columns.            *)
LEMMA RowsSpread ==
    ASSUME NEW N \in Nat, NEW m \in Mat(N), Invertible(m), NEW T \in SUBSET Wires(N), NEW C \in SUBSET Wires(N),
           Cardinality(T) = Cardinality(C) + 1
    PROVE  \E i \in T : ~(m[i] \subseteq C)
  <1> SUFFICES ASSUME \A i \in T : m[i] \subseteq C PROVE FALSE
    OBVIOUS
  <1>1. IsFiniteSet(T) /\ IsFiniteSet(C) /\ Cardinality(C) \in Nat
    BY WiresFinite, FS_CardinalityType
  <1>2. PICK x : x \in T
    BY <1>1, FS_EmptySet
  <1>3. IsFiniteSet(T \ {x}) /\ Cardinality(T \ {x}) = Cardinality(C)
    <2>1. PICK k \in Nat : k = Cardinality(C)
      BY <1>1
    <2>2. (k + 1) - 1 = k
      OBVIOUS
    <2> QED
      BY <1>1, <1>2, <2>1, <2>2, FS_RemoveElement
  <1>4. /\ IsFiniteSet(SUBSET T) /\ IsFiniteSet(SUBSET C) /\ IsFiniteSet(SUBSET (T \ {x}))
        /\ Cardinality(SUBSET C) = Cardinality(SUBSET (T \ {x}))
    BY <1>1, <1>3, FS_SUBSET
  <1>5. Cardinality(SUBSET C) < Cardinality(SUBSET T)
    <2>1. SUBSET (T \ {x}) \in SUBSET (SUBSET T) /\ SUBSET (T \ {x}) # SUBSET T
      BY <1>2
    <2>2. Cardinality(SUBSET (T \ {x})) <= Cardinality(SUBSET T) /\ Cardinality(SUBSET (T \ {x})) # Cardinality(SUBSET T)
      BY <1>4, <2>1, FS_Subset
    <2>3. Cardinality(SUBSET (T \ {x})) \in Nat /\ Cardinality(SUBSET T) \in Nat
      BY <1>4, FS_CardinalityType
    <2> QED
      BY <1>4, <2>2, <2>3
  <1>6. PICK F : F = [y \in SUBSET T |-> Sum(m, y)]
    OBVIOUS
  <1>7. F \in [SUBSET T -> SUBSET C]
    <2>1. \A y \in SUBSET T : Sum(m, y) \in SUBSET C
      BY SumWithin
    <2> QED
      BY <1>6, <2>1
  <1>8. PICK y \in SUBSET T, z \in SUBSET T : y # z /\ F[y] = F[z]
    BY <1>4, <1>5, <1>7, FS_PigeonHole
  <1>9. Sum(m, y) = Sum(m, z) /\ y \in SUBSET Wires(N) /\ z \in SUBSET Wires(N)
    BY <1>6, <1>8
  <1> QED
    BY <1>8, <1>9, SumsDiffer

(* The inputs are a basis.                                                  *)
LEMMA IdentityInvertible ==
    ASSUME NEW N \in Nat
    PROVE  Invertible(IdentityMap(N))
  <1>1. IdentityMap(N) \in Mat(N) /\ DOMAIN IdentityMap(N) = Wires(N)
    BY IdentityTyped DEF Mat
  <1> QED
    BY <1>1, SumOfInputs DEF Invertible

(* A CNOT keeps a basis a basis.                                            *)
LEMMA AddRowInvertible ==
    ASSUME NEW N \in Nat, NEW m \in Mat(N), Invertible(m), NEW c \in Wires(N), NEW t \in Wires(N), c # t
    PROVE  Invertible(AddRow(m, c, t))
  <1>1. PICK a \in Mat(N) : a = AddRow(m, c, t)
    BY AddRowTyped
  <1>2. DOMAIN a = Wires(N) /\ DOMAIN m = Wires(N)
    BY DEF Mat
  <1>3. ASSUME NEW y \in (SUBSET Wires(N)) \ {{}} PROVE Sum(a, y) # {}
    <2>1. PICK z \in Parity(N) : z = Dual(y, c, t) /\ Dual(z, c, t) = y
      BY DualTyped DEF Parity
    <2>2. z \in SUBSET Wires(N) /\ z # {}
      BY DEF Parity
    <2>3. Sum(a, y) = Sum(m, z)
      BY <1>1, <2>1, <2>2, DualKeepsSum
    <2> QED
      BY <1>2, <2>2, <2>3 DEF Invertible
  <1> QED
    BY <1>1, <1>2, <1>3 DEF Invertible

(* Added to other rows, a row keeps a basis a basis.                        *)
LEMMA AddedInvertible ==
    ASSUME NEW N \in Nat, NEW m \in Mat(N), Invertible(m), NEW p \in Wires(N), NEW H \in SUBSET Wires(N), p \notin H,
           NEW a \in Mat(N), \A i \in Wires(N) : a[i] = IF i \in H THEN SymDiff(m[i], m[p]) ELSE m[i]
    PROVE  Invertible(a)
  <1>1. DOMAIN a = Wires(N) /\ DOMAIN m = Wires(N)
    BY DEF Mat
  <1> SUFFICES ASSUME NEW y \in (SUBSET Wires(N)) \ {{}}, Sum(a, y) = {} PROVE FALSE
    BY <1>1 DEF Invertible
  <1>2. IsFiniteSet(y \cap H)
    BY WiresFinite
  <1>3. ASSUME NEW v \in Wires(N)
        PROVE  Cardinality(Rows(a, y, v)) % 2 = 1
                 <=> ~(Cardinality(Rows(m, y, v)) % 2 = 1 <=> (v \in m[p] /\ Cardinality(y \cap H) % 2 = 1))
    <2>1. CASE v \notin m[p]
      <3>1. Rows(a, y, v) = Rows(m, y, v)
        BY <2>1 DEF Rows, SymDiff
      <3> QED
        BY <2>1, <3>1
    <2>2. CASE v \in m[p]
      <3>1. Rows(a, y, v) = SymDiff(Rows(m, y, v), y \cap H)
        BY <2>2 DEF Rows, SymDiff
      <3>2. IsFiniteSet(Rows(m, y, v))
        BY RowsFinite
      <3>3. Cardinality(SymDiff(Rows(m, y, v), y \cap H)) % 2 = 1
              <=> ~(Cardinality(Rows(m, y, v)) % 2 = 1 <=> Cardinality(y \cap H) % 2 = 1)
        BY <1>2, <3>2, OddSum
      <3> QED
        BY <2>2, <3>1, <3>3
    <2> QED
      BY <2>1, <2>2
  <1>4. \A v \in Wires(N) : v \in Sum(m, y) <=> v \in m[p] /\ Cardinality(y \cap H) % 2 = 1
    <2> SUFFICES ASSUME NEW v \in Wires(N)
                 PROVE  v \in Sum(m, y) <=> v \in m[p] /\ Cardinality(y \cap H) % 2 = 1
      OBVIOUS
    <2>1. ~(Cardinality(Rows(a, y, v)) % 2 = 1)
      BY SumIs
    <2>2. v \in Sum(m, y) <=> Cardinality(Rows(m, y, v)) % 2 = 1
      BY SumIs
    <2> QED
      BY <1>3, <2>1, <2>2
  <1>5. Sum(m, y) \subseteq Wires(N) /\ m[p] \subseteq Wires(N)
    BY SumIs DEF Mat
  <1>6. CASE Cardinality(y \cap H) % 2 = 1
    <2>1. Sum(m, y) = m[p]
      BY <1>4, <1>5, <1>6
    <2>2. Sum(m, y) = Sum(m, {p})
      BY <2>1, SumOfOne
    <2>3. y = {p}
      BY <2>2, SumsDiffer
    <2>4. y \cap H = {} /\ Cardinality({}) = 0 /\ ~(0 % 2 = 1)
      BY <2>3, FS_EmptySet
    <2> QED
      BY <1>6, <2>4
  <1>7. CASE ~(Cardinality(y \cap H) % 2 = 1)
    <2>1. Sum(m, y) = {}
      BY <1>4, <1>5, <1>7
    <2> QED
      BY <1>1, <2>1 DEF Invertible
  <1> QED
    BY <1>6, <1>7

(* There is a row for every bit.                                            *)
LEMMA FreeExists ==
    ASSUME NEW N \in Nat, NEW b \in Wires(N), NEW a, Solved(a, b, N)
    PROVE  Free(a, b) # {}
  <1>1. a.m \in Mat(N) /\ a.used \in SUBSET Wires(N)
    BY DEF Solved, Solver
  <1>2. b \in Nat /\ b < N
    BY DEF Wires
  <1>3. Cardinality(Wires(N)) = N
    <2>1. Cardinality(0 .. N - 1) = IF 0 > N - 1 THEN 0 ELSE N - 1 - 0 + 1
      BY FS_Interval
    <2> QED
      BY <2>1 DEF Wires
  <1>4. Cardinality(Wires(N) \ a.used) = N - b
    <2>1. IsFiniteSet(Wires(N) \ a.used) /\ IsFiniteSet(a.used)
      BY <1>1, WiresFinite
    <2>2. Wires(N) = a.used \cup (Wires(N) \ a.used) /\ a.used \cap (Wires(N) \ a.used) = {}
      BY <1>1
    <2>3. N = b + Cardinality(Wires(N) \ a.used) /\ Cardinality(Wires(N) \ a.used) \in Nat
      BY <1>3, <2>1, <2>2, SizeOfParts DEF Solved
    <2>4. PICK k \in Nat : k = Cardinality(Wires(N) \ a.used)
      BY <2>3
    <2> QED
      BY <1>2, <2>3, <2>4
  <1>5. PICK C \in SUBSET Wires(N) : C = b + 1 .. N - 1
    BY <1>2 DEF Wires
  <1>6. Cardinality(C) = N - b - 1
    <2>1. Cardinality(b + 1 .. N - 1) = IF b + 1 > N - 1 THEN 0 ELSE N - 1 - (b + 1) + 1
      BY <1>2, FS_Interval
    <2> QED
      BY <1>2, <1>5, <2>1
  <1>7. Cardinality(Wires(N) \ a.used) = Cardinality(C) + 1
    BY <1>2, <1>4, <1>6
  <1>8. PICK i \in Wires(N) \ a.used : ~(a.m[i] \subseteq C)
    BY <1>1, <1>7, RowsSpread DEF Solved
  <1>9. a.m[i] \subseteq b .. N - 1
    BY DEF Solved
  <1>10. PICK v \in a.m[i] : v \notin C
    BY <1>8
  <1>11. v = b
    BY <1>2, <1>5, <1>9, <1>10
  <1>12. i \in DOMAIN a.m /\ i \notin a.used
    BY <1>1 DEF Mat
  <1> QED
    BY <1>10, <1>11, <1>12 DEF Free

(* One bit more.                                                            *)
LEMMA SolvesBit ==
    ASSUME NEW N \in Nat, NEW b \in Wires(N), NEW a, Solved(a, b, N)
    PROVE  Solved(SolveBit(a, b), b + 1, N)
  <1>1. /\ a \in Solver(N) /\ a.m \in Mat(N) /\ a.used \in SUBSET Wires(N) /\ Invertible(a.m)
        /\ a.rhs \in SUBSET Wires(N) /\ DOMAIN a.m = Wires(N)
    BY DEF Solved, Solver, Mat
  <1>2. b \in Nat /\ b < N
    BY DEF Wires
  <1>3. PICK p \in Free(a, b), z \in Solver(N) :
             /\ z = SolveBit(a, b)
             /\ p \in Wires(N) /\ p \notin a.used /\ b \in a.m[p]
             /\ \A i \in Wires(N) : z.m[i] = IF i \in Free(a, b) \ {p} THEN SymDiff(a.m[i], a.m[p]) ELSE a.m[i]
             /\ z.used = a.used \cup {p}
             /\ z.rhs = IF b \in a.rhs THEN SymDiff(a.rhs, a.m[p]) ELSE a.rhs
    BY <1>1, FreeExists, SolveBitIs
  <1>4. PICK H \in SUBSET Wires(N) : H = Free(a, b) \ {p}
    BY <1>1 DEF Free
  <1>5. z.m \in Mat(N)
    BY DEF Solver
  <1>6. Invertible(z.m)
    BY <1>1, <1>3, <1>4, <1>5, AddedInvertible
  <1>7. Cardinality(z.used) = b + 1
    <2>1. IsFiniteSet(a.used)
      BY <1>1, WiresFinite
    <2>2. p \notin a.used /\ z.used = a.used \cup {p} /\ Cardinality(a.used) = b
      BY <1>3 DEF Solved
    <2>3. Cardinality(a.used \cup {p}) = Cardinality(a.used) + 1
      BY <2>1, <2>2, FS_AddElement
    <2> QED
      BY <2>2, <2>3
  <1>8. \A v \in b .. N - 1 : v # b => v \in b + 1 .. N - 1
    BY <1>2
  <1>9. a.m[p] \subseteq b .. N - 1
    BY <1>3 DEF Solved
  <1>10. ASSUME NEW i \in Wires(N) \ z.used PROVE z.m[i] \subseteq b + 1 .. N - 1
    <2>1. i \in Wires(N) /\ i \notin a.used /\ i # p /\ a.m[i] \subseteq b .. N - 1
      BY <1>3 DEF Solved
    <2>2. CASE b \in a.m[i]
      <3>1. i \in Free(a, b) \ {p}
        BY <1>1, <2>1, <2>2 DEF Free
      <3>2. z.m[i] = SymDiff(a.m[i], a.m[p])
        BY <1>3, <2>1, <3>1
      <3> QED
        BY <1>3, <1>8, <1>9, <2>1, <2>2, <3>2 DEF SymDiff
    <2>3. CASE b \notin a.m[i]
      <3>1. i \notin Free(a, b)
        BY <2>3 DEF Free
      <3>2. z.m[i] = a.m[i]
        BY <1>3, <2>1, <3>1
      <3> QED
        BY <1>8, <2>1, <2>3, <3>2
    <2> QED
      BY <2>2, <2>3
  <1>11. z.rhs \subseteq b + 1 .. N - 1
    <2>1. a.rhs \subseteq b .. N - 1
      BY DEF Solved
    <2>2. CASE b \in a.rhs
      BY <1>3, <1>8, <1>9, <2>1, <2>2 DEF SymDiff
    <2>3. CASE b \notin a.rhs
      BY <1>3, <1>8, <2>1, <2>3
    <2> QED
      BY <2>2, <2>3
  <1> QED
    BY <1>3, <1>6, <1>7, <1>10, <1>11 DEF Solved

(* gray_solve finds the rows for every parity if the wires are a basis.     *)
LEMMA SolveSolves ==
    ASSUME NEW N \in Nat, NEW m \in Mat(N), Invertible(m), NEW parity \in SUBSET Wires(N)
    PROVE  Solve(m, N, parity).rhs = {}
  <1>1. PICK g \in [0 .. N -> Solver(N)] :
             /\ g[0] = [m |-> m, of |-> IdentityMap(N), used |-> {}, rhs |-> parity, combo |-> {}]
             /\ \A i \in 0 .. N - 1 : g[i + 1] = SolveBit(g[i], i)
             /\ Solve(m, N, parity) = g[N]
    BY SolveRuns
  <1> DEFINE P == {i \in 0 .. N : Solved(g[i], i, N)}
  <1>2. 0 \in P
    <2>1. 0 \in 0 .. N /\ g[0] \in Solver(N)
      OBVIOUS
    <2>2. g[0].m = m /\ g[0].used = {} /\ g[0].rhs = parity
      BY <1>1
    <2>3. Cardinality({}) = 0
      BY FS_EmptySet
    <2>4. \A i \in Wires(N) : m[i] \subseteq 0 .. N - 1
      BY DEF Mat, Wires
    <2>5. parity \subseteq 0 .. N - 1
      BY DEF Wires
    <2>6. Solved(g[0], 0, N)
      BY <2>1, <2>2, <2>3, <2>4, <2>5 DEF Solved
    <2> QED
      BY <2>1, <2>6
  <1>3. ASSUME NEW i \in 0 .. N - 1, i \in P PROVE i + 1 \in P
    <2>1. i \in Wires(N) /\ i + 1 \in 0 .. N
      BY DEF Wires
    <2>2. Solved(g[i + 1], i + 1, N)
      BY <1>1, <1>3, <2>1, SolvesBit
    <2> QED
      BY <2>1, <2>2
  <1> HIDE DEF P
  <1>4. 0 \in Nat /\ 0 <= N
    OBVIOUS
  <1>5. N \in P
    BY <1>2, <1>3, <1>4, ClimbsTo
  <1>6. Solved(g[N], N, N)
    BY <1>5 DEF P
  <1>7. g[N].rhs \subseteq N .. N - 1 /\ N .. N - 1 = {}
    BY <1>6 DEF Solved
  <1> QED
    BY <1>1, <1>7

(* A CNOT made twice changes nothing.                                       *)
LEMMA ApplyTwice ==
    ASSUME NEW N \in Nat, NEW m \in Mat(N), NEW g \in Gates(N)
    PROVE  Apply(m, g) \in Mat(N) /\ Apply(Apply(m, g), g) = m
  <1>1. PICK c \in Wires(N), t \in Wires(N) : g = <<c, t>> /\ c # t
    BY DEF Gates
  <1>2. PICK a \in Mat(N) : /\ a = AddRow(m, c, t)
                            /\ \A q \in Wires(N) : a[q] = IF q = t THEN SymDiff(m[t], m[c]) ELSE m[q]
    BY AddRowTyped
  <1>3. PICK b \in Mat(N) : /\ b = AddRow(a, c, t)
                            /\ \A q \in Wires(N) : b[q] = IF q = t THEN SymDiff(a[t], a[c]) ELSE a[q]
    BY AddRowTyped
  <1>4. \A q \in Wires(N) : b[q] = m[q]
    <2>1. b[t] = m[t]
      BY <1>1, <1>2, <1>3 DEF SymDiff
    <2> QED
      BY <1>2, <1>3, <2>1
  <1>5. b = m
    BY <1>4 DEF Mat
  <1> QED
    BY <1>1, <1>2, <1>3, <1>5 DEF Apply

(* There is but one way through a circuit.                                  *)
LEMMA StagesTo ==
    ASSUME NEW N \in Nat, NEW m \in Mat(N), NEW cnots \in Seq(Gates(N)), NEW f, Stages(f, m, cnots, N)
    PROVE  ApplyCnots(m, cnots) = f[Len(cnots) + 1]
  <1>1. PICK g \in [1 .. Len(cnots) + 1 -> Mat(N)] :
             /\ g[1] = m
             /\ \A i \in 1 .. Len(cnots) : g[i + 1] = Apply(g[i], cnots[i])
             /\ ApplyCnots(m, cnots) = g[Len(cnots) + 1]
    BY ApplyCnotsRuns
  <1>2. PICK k \in Nat : k = Len(cnots) + 1 /\ 1 \in Nat /\ 1 <= k /\ 1 .. k - 1 = 1 .. Len(cnots)
    OBVIOUS
  <1> DEFINE P == {i \in 1 .. k : f[i] = g[i]}
  <1>3. 1 \in P
    BY <1>1, <1>2 DEF Stages
  <1>4. ASSUME NEW i \in 1 .. k - 1, i \in P PROVE i + 1 \in P
    <2>1. i \in 1 .. Len(cnots) /\ i + 1 \in 1 .. k
      BY <1>2
    <2>2. f[i + 1] = Apply(f[i], cnots[i]) /\ g[i + 1] = Apply(g[i], cnots[i])
      BY <1>1, <2>1 DEF Stages
    <2> QED
      BY <1>4, <2>1, <2>2
  <1> HIDE DEF P
  <1>5. k \in P
    BY <1>2, <1>3, <1>4, ClimbsTo
  <1>6. f[k] = g[k]
    BY <1>5 DEF P
  <1> QED
    BY <1>1, <1>2, <1>6

(* The way through a circuit.                                               *)
LEMMA StagesExist ==
    ASSUME NEW N \in Nat, NEW m \in Mat(N), NEW cnots \in Seq(Gates(N))
    PROVE  \E f : Stages(f, m, cnots, N) /\ ApplyCnots(m, cnots) = f[Len(cnots) + 1]
  <1>1. PICK g \in [1 .. Len(cnots) + 1 -> Mat(N)] :
             /\ g[1] = m
             /\ \A i \in 1 .. Len(cnots) : g[i + 1] = Apply(g[i], cnots[i])
             /\ ApplyCnots(m, cnots) = g[Len(cnots) + 1]
    BY ApplyCnotsRuns
  <1> QED
    BY <1>1 DEF Stages

(* One CNOT more.                                                           *)
LEMMA ApplyMore ==
    ASSUME NEW N \in Nat, NEW m \in Mat(N), NEW cnots \in Seq(Gates(N)), NEW g \in Gates(N)
    PROVE  /\ ApplyCnots(m, cnots) \in Mat(N)
           /\ ApplyCnots(m, Append(cnots, g)) = Apply(ApplyCnots(m, cnots), g)
  <1>1. PICK f : Stages(f, m, cnots, N) /\ ApplyCnots(m, cnots) = f[Len(cnots) + 1]
    BY StagesExist
  <1>2. PICK k \in Nat : k = Len(cnots)
    OBVIOUS
  <1>3. f[k + 1] \in Mat(N)
    BY <1>1, <1>2 DEF Stages
  <1>a. PICK more : more = Append(cnots, g)
    OBVIOUS
  <1>4. more \in Seq(Gates(N)) /\ Len(more) = k + 1 /\ more[k + 1] = g /\ \A i \in 1 .. k : more[i] = cnots[i]
    BY <1>2, <1>a
  <1> DEFINE h == [i \in 1 .. k + 2 |-> IF i = k + 2 THEN Apply(f[k + 1], g) ELSE f[i]]
  <1>5. Apply(f[k + 1], g) \in Mat(N)
    BY <1>3, ApplyTwice
  <1>6. h \in [1 .. Len(more) + 1 -> Mat(N)] /\ h[1] = m
    BY <1>1, <1>2, <1>4, <1>5 DEF Stages
  <1>7. ASSUME NEW i \in 1 .. Len(more) PROVE h[i + 1] = Apply(h[i], more[i])
    <2>1. CASE i = k + 1
      BY <1>4, <2>1
    <2>2. CASE i # k + 1
      <3>1. i \in 1 .. k
        BY <1>4, <2>2
      <3>2. h[i + 1] = f[i + 1] /\ h[i] = f[i] /\ more[i] = cnots[i]
        BY <1>4, <3>1
      <3> QED
        BY <1>1, <1>2, <3>1, <3>2 DEF Stages
    <2> QED
      BY <2>1, <2>2
  <1>8. h[k + 2] = Apply(f[k + 1], g) /\ Len(more) + 1 = k + 2
    BY <1>4
  <1> HIDE DEF h
  <1>9. Stages(h, m, more, N)
    BY <1>6, <1>7 DEF Stages
  <1>10. ApplyCnots(m, more) = h[k + 2]
    BY <1>4, <1>8, <1>9, StagesTo
  <1> QED
    BY <1>1, <1>2, <1>3, <1>a, <1>8, <1>10

(* No CNOT.                                                                 *)
LEMMA ApplyNone ==
    ASSUME NEW N \in Nat, NEW m \in Mat(N)
    PROVE  ApplyCnots(m, << >>) = m
  <1>0. PICK s : s = << >>
    OBVIOUS
  <1>1. s \in Seq(Gates(N)) /\ Len(s) = 0
    BY <1>0
  <1>2. PICK f : Stages(f, m, s, N) /\ ApplyCnots(m, s) = f[Len(s) + 1]
    BY <1>1, StagesExist
  <1> QED
    BY <1>0, <1>1, <1>2 DEF Stages

(* A CNOT pushed is a CNOT more: it may cancel the last one.                *)
LEMMA PushApplies ==
    ASSUME NEW N \in Nat, NEW m \in Mat(N), NEW cnots \in Seq(Gates(N)), NEW g \in Gates(N)
    PROVE  ApplyCnots(m, Push(cnots, g)) = Apply(ApplyCnots(m, cnots), g)
  <1>1. CASE cnots # << >> /\ Last(cnots) = g
    <2>1. PICK k \in Nat : k + 1 = Len(cnots)
      <3>1. Len(cnots) \in Nat /\ Len(cnots) # 0
        BY <1>1
      <3> QED
        BY <3>1
    <2>2. PICK s : s = Front(cnots)
      OBVIOUS
    <2>3. s = [i \in 1 .. k |-> cnots[i]]
      BY <2>1, <2>2 DEF Front
    <2>4. \A i \in 1 .. k : cnots[i] \in Gates(N)
      BY <2>1
    <2>5. s \in Seq(Gates(N)) /\ Len(s) = k
      BY <2>3, <2>4
    <2>6. cnots[k + 1] = g
      BY <1>1, <2>1 DEF Last
    <2>7. cnots = Append(s, g)
      <3>1. PICK e : e = Append(s, g)
        OBVIOUS
      <3>2. e \in Seq(Gates(N)) /\ Len(e) = k + 1 /\ e[k + 1] = g /\ \A i \in 1 .. k : e[i] = s[i]
        BY <2>5, <3>1
      <3>3. \A i \in 1 .. k + 1 : e[i] = cnots[i]
        BY <2>3, <2>6, <3>2
      <3>4. e = [i \in 1 .. k + 1 |-> e[i]] /\ cnots = [i \in 1 .. k + 1 |-> cnots[i]]
        BY <2>1, <3>2
      <3> QED
        BY <3>1, <3>3, <3>4
    <2>8. ApplyCnots(m, s) \in Mat(N) /\ ApplyCnots(m, cnots) = Apply(ApplyCnots(m, s), g)
      BY <2>5, <2>7, ApplyMore
    <2>9. Apply(ApplyCnots(m, cnots), g) = ApplyCnots(m, s)
      BY <2>8, ApplyTwice
    <2> QED
      BY <1>1, <2>2, <2>9 DEF Push
  <1>2. CASE ~(cnots # << >> /\ Last(cnots) = g)
    BY <1>2, ApplyMore DEF Push
  <1> QED
    BY <1>1, <1>2

(* Cancelling leaves the map of a circuit as it was.                        *)
LEMMA CancelledApplies ==
    ASSUME NEW N \in Nat, NEW m \in Mat(N), NEW s \in Seq(Gates(N))
    PROVE  Cancelled(s) \in Seq(Gates(N)) /\ ApplyCnots(m, Cancelled(s)) = ApplyCnots(m, s)
  <1>1. PICK g \in [1 .. Len(s) + 1 -> Seq(Gates(N))] :
             /\ g[1] = << >>
             /\ \A i \in 1 .. Len(s) : g[i + 1] = Push(g[i], s[i])
             /\ Cancelled(s) = g[Len(s) + 1]
    BY CancelledRuns
  <1>2. PICK f : Stages(f, m, s, N) /\ ApplyCnots(m, s) = f[Len(s) + 1]
    BY StagesExist
  <1>3. PICK k \in Nat : k = Len(s) + 1 /\ 1 \in Nat /\ 1 <= k /\ 1 .. k - 1 = 1 .. Len(s)
    OBVIOUS
  <1> DEFINE P == {i \in 1 .. k : ApplyCnots(m, g[i]) = f[i]}
  <1>4. 1 \in P
    BY <1>1, <1>2, <1>3, ApplyNone DEF Stages
  <1>5. ASSUME NEW i \in 1 .. k - 1, i \in P PROVE i + 1 \in P
    <2>1. i \in 1 .. Len(s) /\ i + 1 \in 1 .. k /\ g[i] \in Seq(Gates(N)) /\ s[i] \in Gates(N)
      BY <1>3
    <2>2. ApplyCnots(m, g[i + 1]) = Apply(f[i], s[i])
      BY <1>1, <1>5, <2>1, PushApplies
    <2>3. f[i + 1] = Apply(f[i], s[i])
      BY <1>2, <2>1 DEF Stages
    <2> QED
      BY <2>1, <2>2, <2>3
  <1> HIDE DEF P
  <1>6. k \in P
    BY <1>3, <1>4, <1>5, ClimbsTo
  <1>7. ApplyCnots(m, g[k]) = f[k] /\ g[k] \in Seq(Gates(N))
    BY <1>3, <1>6 DEF P
  <1> QED
    BY <1>1, <1>2, <1>3, <1>7

(* A row operation among the rows that are left.                            *)
LEMMA RowOpKeeps ==
    ASSUME NEW N \in Nat, NEW m \in Mat(N), NEW low \in BOOLEAN, NEW k \in Nat, NEW a, Kept(a, m, low, k, N),
           NEW c \in Wires(N), NEW t \in Wires(N), c # t, c >= k, t >= k, low => c < t
    PROVE  /\ Kept(RowOp(a, c, t), m, low, k, N)
           /\ \A q \in Wires(N) : RowOp(a, c, t).m[q] = IF q = t THEN SymDiff(a.m[t], a.m[c]) ELSE a.m[q]
  <1>1. a \in Elim(N) /\ a.m \in Mat(N) /\ a.ops \in Seq(Gates(N)) /\ Invertible(a.m) /\ ApplyCnots(m, a.ops) = a.m
    BY DEF Kept, Elim
  <1>2. PICK z \in Elim(N) : z = RowOp(a, c, t) /\ z.m = AddRow(a.m, c, t) /\ z.ops = Append(a.ops, <<c, t>>)
    BY <1>1, RowOpTyped
  <1>3. \A q \in Wires(N) : z.m[q] = IF q = t THEN SymDiff(a.m[t], a.m[c]) ELSE a.m[q]
    <2>1. PICK b \in Mat(N) : b = a.m
      BY <1>1
    <2>2. \A q \in Wires(N) : AddRow(b, c, t)[q] = IF q = t THEN SymDiff(b[t], b[c]) ELSE b[q]
      BY AddRowTyped
    <2> QED
      BY <1>2, <2>1, <2>2
  <1>4. Invertible(z.m)
    BY <1>1, <1>2, AddRowInvertible
  <1>5. ApplyCnots(m, z.ops) = z.m
    <2>1. <<c, t>> \in Gates(N)
      BY DEF Gates
    <2>2. ApplyCnots(m, z.ops) = Apply(a.m, <<c, t>>)
      BY <1>1, <1>2, <2>1, ApplyMore
    <2> QED
      BY <1>2, <2>2 DEF Apply
  <1>6. Lowered(z.m, k, N)
    <2> SUFFICES ASSUME NEW q \in Wires(N), q < k
                 PROVE  q \in z.m[q] /\ \A r \in Wires(N) : r > q => q \notin z.m[r]
      BY DEF Lowered
    <2>1. q # t /\ c > q /\ t > q
      BY DEF Wires
    <2>2. q \in a.m[q] /\ \A r \in Wires(N) : r > q => q \notin a.m[r]
      BY DEF Kept, Lowered
    <2>3. q \notin a.m[c] /\ q \notin a.m[t]
      BY <2>1, <2>2
    <2> QED
      BY <1>3, <2>1, <2>2, <2>3 DEF SymDiff
  <1>7. ASSUME low PROVE UnitLow(z.m, N)
    <2> SUFFICES ASSUME NEW q \in Wires(N) PROVE q \in z.m[q] /\ \A v \in z.m[q] : v <= q
      BY DEF UnitLow
    <2>1. UnitLow(a.m, N) /\ c < t
      BY <1>7 DEF Kept
    <2>2. CASE q # t
      BY <1>3, <2>1, <2>2 DEF UnitLow
    <2>3. CASE q = t
      <3>1. t \in a.m[t] /\ (\A v \in a.m[t] : v <= t) /\ \A v \in a.m[c] : v <= c
        BY <2>1 DEF UnitLow
      <3>2. \A v \in a.m[c] : v \in Int
        BY <1>1 DEF Mat, Wires
      <3>3. t \notin a.m[c] /\ \A v \in a.m[c] : v <= t
        BY <2>1, <3>1, <3>2 DEF Wires
      <3> QED
        BY <1>3, <2>3, <3>1, <3>3 DEF SymDiff
    <2> QED
      BY <2>2, <2>3
  <1> QED
    BY <1>2, <1>3, <1>4, <1>5, <1>6, <1>7 DEF Kept

(* Dropping a pattern adds an earlier row of those left.                    *)
LEMMA DropPatternKeeps ==
    ASSUME NEW N \in Nat, NEW m \in Mat(N), NEW low \in BOOLEAN, NEW start \in Wires(N), NEW end \in Int,
           NEW a, Kept(a, m, low, start, N), NEW r \in start .. N - 1
    PROVE  Kept(DropPattern(a, start, end, r), m, low, start, N)
  <1>1. PICK T : T = Same(a.m, start, end, r)
    OBVIOUS
  <1>2. CASE T = {}
    BY <1>1, <1>2 DEF DropPattern
  <1>3. CASE T # {}
    <2>1. T \in SUBSET (start .. r - 1) /\ start .. r - 1 \in SUBSET Nat /\ start \in Nat
      BY <1>1 DEF Same, Wires
    <2>2. T \in SUBSET Nat
      BY <2>1
    <2>3. PICK c : c = LeastOf(T) /\ c \in start .. r - 1
      BY <1>3, <2>1, <2>2, LeastOfIs
    <2>4. c \in Wires(N) /\ r \in Wires(N) /\ c # r /\ c >= start /\ r >= start /\ c < r
      BY <2>1, <2>3 DEF Wires
    <2>5. DropPattern(a, start, end, r) = RowOp(a, c, r)
      BY <1>1, <1>3, <2>3 DEF DropPattern
    <2> QED
      BY <2>1, <2>4, <2>5, RowOpKeeps
  <1> QED
    BY <1>2, <1>3

(* So do all of a section.                                                  *)
LEMMA DropPatternsKeeps ==
    ASSUME NEW N \in Nat, NEW m \in Mat(N), NEW low \in BOOLEAN, NEW start \in Wires(N), NEW end \in Int,
           NEW a, Kept(a, m, low, start, N)
    PROVE  Kept(DropPatterns(a, N, start, end), m, low, start, N)
  <1>1. a \in Elim(N) /\ start \in Nat /\ N \in Nat /\ start <= N
    BY DEF Kept, Wires
  <1>2. PICK g \in [start .. N -> Elim(N)] :
             /\ g[start] = a
             /\ \A i \in start .. N - 1 : g[i + 1] = DropPattern(g[i], start, end, i)
             /\ DropPatterns(a, N, start, end) = g[N]
    <2>1. PICK b \in Elim(N) : b = a
      BY <1>1
    <2>2. \E g \in [start .. N -> Elim(N)] :
             /\ g[start] = b
             /\ \A i \in start .. N - 1 : g[i + 1] = DropPattern(g[i], start, end, i)
             /\ DropPatterns(b, N, start, end) = g[N]
      BY DropPatternsRuns
    <2> QED
      BY <2>1, <2>2
  <1> DEFINE P == {i \in start .. N : Kept(g[i], m, low, start, N)}
  <1>3. start \in P
    BY <1>1, <1>2
  <1>4. ASSUME NEW i \in start .. N - 1, i \in P PROVE i + 1 \in P
    <2>1. i + 1 \in start .. N
      BY <1>1
    <2>2. Kept(g[i + 1], m, low, start, N)
      BY <1>2, <1>4, DropPatternKeeps
    <2> QED
      BY <2>1, <2>2
  <1> HIDE DEF P
  <1>5. N \in P
    BY <1>1, <1>3, <1>4, ClimbsTo
  <1> QED
    BY <1>2, <1>5 DEF P

(* One row below the diagonal is cleared, and no other row below it changes. *)
LEMMA ClearRowKeeps ==
    ASSUME NEW N \in Nat, NEW m \in Mat(N), NEW low \in BOOLEAN, NEW col \in Wires(N),
           NEW a, Kept(a, m, low, col, N), NEW r \in col + 1 .. N - 1
    PROVE  /\ Kept(ClearRow(a, col, r), m, low, col, N)
           /\ col \notin ClearRow(a, col, r).m[r]
           /\ \A q \in Wires(N) : q # col /\ q # r => ClearRow(a, col, r).m[q] = a.m[q]
  <1>1. col \in Nat /\ r \in Wires(N) /\ r > col /\ r # col
    BY DEF Wires
  <1>2. CASE col \notin a.m[r]
    BY <1>2 DEF ClearRow
  <1>3. CASE col \in a.m[r]
    <2>1. PICK b : b = Mend(a, col, r)
      OBVIOUS
    <2>2. /\ Kept(b, m, low, col, N) /\ col \in b.m[col] /\ col \in b.m[r]
          /\ \A q \in Wires(N) : q # col /\ q # r => b.m[q] = a.m[q]
      <3>1. CASE col \in a.m[col]
        <4>1. b = a
          BY <2>1, <3>1 DEF Mend
        <4> QED
          BY <1>3, <3>1, <4>1
      <3>2. CASE col \notin a.m[col]
        <4>1. b = RowOp(a, r, col)
          BY <2>1, <3>2 DEF Mend
        <4>2. ~low
          BY <3>2 DEF Kept, UnitLow
        <4>3. /\ Kept(b, m, low, col, N)
              /\ \A q \in Wires(N) : b.m[q] = IF q = col THEN SymDiff(a.m[col], a.m[r]) ELSE a.m[q]
          BY <1>1, <4>1, <4>2, RowOpKeeps
        <4> QED
          BY <1>1, <1>3, <3>2, <4>3 DEF SymDiff
      <3> QED
        BY <3>1, <3>2
    <2>3. PICK z : z = RowOp(b, col, r)
      OBVIOUS
    <2>4. /\ Kept(z, m, low, col, N)
          /\ \A q \in Wires(N) : z.m[q] = IF q = r THEN SymDiff(b.m[r], b.m[col]) ELSE b.m[q]
      BY <1>1, <2>2, <2>3, RowOpKeeps
    <2>5. col \notin z.m[r]
      BY <1>1, <2>2, <2>4 DEF SymDiff
    <2>6. \A q \in Wires(N) : q # col /\ q # r => z.m[q] = a.m[q]
      BY <2>2, <2>4
    <2>7. ClearRow(a, col, r) = z
      BY <1>3, <2>1, <2>3 DEF ClearRow
    <2> QED
      BY <2>4, <2>5, <2>6, <2>7
  <1> QED
    BY <1>2, <1>3

(* A column is cleared, and its diagonal is not left without a one: there   *)
(* would be more rows than columns for them.                                *)
LEMMA ClearColumnKeeps ==
    ASSUME NEW N \in Nat, NEW m \in Mat(N), NEW low \in BOOLEAN, NEW col \in Wires(N),
           NEW a, Kept(a, m, low, col, N)
    PROVE  Kept(ClearColumn(a, N, col), m, low, col + 1, N)
  <1>1. a \in Elim(N) /\ col \in Nat /\ col + 1 \in Nat /\ N \in Nat /\ col + 1 <= N
    BY DEF Kept, Wires
  <1>2. PICK g \in [col + 1 .. N -> Elim(N)] :
             /\ g[col + 1] = a
             /\ \A i \in col + 1 .. N - 1 : g[i + 1] = ClearRow(g[i], col, i)
             /\ ClearColumn(a, N, col) = g[N]
    BY <1>1, ClearColumnRuns
  <1> DEFINE P == {i \in col + 1 .. N : Kept(g[i], m, low, col, N) /\ \A r \in col + 1 .. i - 1 : col \notin g[i].m[r]}
  <1>3. col + 1 \in P
    BY <1>1, <1>2
  <1>4. ASSUME NEW i \in col + 1 .. N - 1, i \in P PROVE i + 1 \in P
    <2>1. i + 1 \in col + 1 .. N
      BY <1>1
    <2>2. /\ Kept(g[i + 1], m, low, col, N) /\ col \notin g[i + 1].m[i]
          /\ \A q \in Wires(N) : q # col /\ q # i => g[i + 1].m[q] = g[i].m[q]
      BY <1>2, <1>4, ClearRowKeeps
    <2>3. ASSUME NEW r \in col + 1 .. i PROVE col \notin g[i + 1].m[r]
      <3>1. CASE r = i
        BY <2>2, <3>1
      <3>2. CASE r # i
        <4>1. r \in Wires(N) /\ r # col /\ r \in col + 1 .. i - 1
          BY <1>1, <3>2 DEF Wires
        <4> QED
          BY <1>4, <2>2, <3>2, <4>1
      <3> QED
        BY <3>1, <3>2
    <2>4. (i + 1) - 1 = i
      BY <1>1
    <2> QED
      BY <2>1, <2>2, <2>3, <2>4
  <1> HIDE DEF P
  <1>5. N \in P
    BY <1>1, <1>3, <1>4, ClimbsTo
  <1>6. PICK z : z = g[N] /\ Kept(z, m, low, col, N) /\ \A r \in col + 1 .. N - 1 : col \notin z.m[r]
    BY <1>5 DEF P
  <1>7. z.m \in Mat(N) /\ Invertible(z.m) /\ Lowered(z.m, col, N)
    BY <1>6 DEF Kept, Elim
  <1>8. \A r \in Wires(N) : r > col => col \notin z.m[r]
    BY <1>1, <1>6 DEF Wires
  <1>9. col \in z.m[col]
    <2> SUFFICES ASSUME col \notin z.m[col] PROVE FALSE
      OBVIOUS
    <2>1. PICK T \in SUBSET Wires(N) : T = col .. N - 1
      BY <1>1 DEF Wires
    <2>2. PICK C \in SUBSET Wires(N) : C = col + 1 .. N - 1
      BY <1>1 DEF Wires
    <2>3. Cardinality(T) = Cardinality(C) + 1
      <3>1. Cardinality(col .. N - 1) = IF col > N - 1 THEN 0 ELSE N - 1 - col + 1
        BY <1>1, FS_Interval
      <3>2. Cardinality(col + 1 .. N - 1) = IF col + 1 > N - 1 THEN 0 ELSE N - 1 - (col + 1) + 1
        BY <1>1, FS_Interval
      <3> QED
        BY <1>1, <2>1, <2>2, <3>1, <3>2
    <2>4. PICK i \in T : ~(z.m[i] \subseteq C)
      BY <1>7, <2>3, RowsSpread
    <2>5. PICK v \in z.m[i] : v \notin C
      BY <2>4
    <2>6. i \in Wires(N) /\ i >= col /\ v \in Wires(N)
      BY <1>1, <1>7, <2>1 DEF Mat, Wires
    <2>7. v <= col
      BY <1>1, <2>2, <2>5, <2>6 DEF Wires
    <2>8. CASE v = col
      <3>1. i # col
        BY <2>5, <2>8
      <3>2. i > col
        BY <1>1, <2>6, <3>1 DEF Wires
      <3> QED
        BY <1>8, <2>5, <2>6, <2>8, <3>2
    <2>9. CASE v # col
      <3>1. v < col /\ i > v
        BY <1>1, <2>6, <2>7, <2>9 DEF Wires
      <3> QED
        BY <1>7, <2>5, <2>6, <3>1 DEF Lowered
    <2> QED
      BY <2>8, <2>9
  <1>10. Lowered(z.m, col + 1, N)
    <2> SUFFICES ASSUME NEW q \in Wires(N), q < col + 1
                 PROVE  q \in z.m[q] /\ \A r \in Wires(N) : r > q => q \notin z.m[r]
      BY DEF Lowered
    <2>1. q < col \/ q = col
      BY <1>1 DEF Wires
    <2> QED
      BY <1>7, <1>8, <1>9, <2>1 DEF Lowered
  <1> QED
    BY <1>2, <1>6, <1>10 DEF Kept

(* A column of the pass.                                                    *)
LEMMA ColumnKeeps ==
    ASSUME NEW N \in Nat, NEW m \in Mat(N), NEW low \in BOOLEAN, NEW size \in Nat \ {0}, NEW col \in Wires(N),
           NEW a, Kept(a, m, low, col, N)
    PROVE  Kept(Column(a, N, size, col), m, low, col + 1, N)
  <1>1. EndOf(col, N, size) \in Int
    BY DEF EndOf, Wires
  <1>2. Kept(DropPatterns(a, N, col, EndOf(col, N, size)), m, low, col, N)
    BY <1>1, DropPatternsKeeps
  <1> QED
    BY <1>2, ClearColumnKeeps DEF Column

(* The lower pass on an invertible matrix, for every section size.          *)
LEMMA LowerPassLowers ==
    ASSUME NEW N \in Nat, NEW m \in Mat(N), Invertible(m), NEW low \in BOOLEAN, low => UnitLow(m, N),
           NEW size \in Nat \ {0}
    PROVE  Kept(LowerPass(m, N, size), m, low, N, N)
  <1>1. PICK g \in [0 .. N -> Elim(N)] :
             /\ g[0] = [m |-> m, ops |-> << >>]
             /\ \A i \in 0 .. N - 1 : g[i + 1] = Column(g[i], N, size, i)
             /\ LowerPass(m, N, size) = g[N]
    BY LowerPassRuns
  <1> DEFINE P == {i \in 0 .. N : Kept(g[i], m, low, i, N)}
  <1>2. 0 \in P
    <2>1. 0 \in 0 .. N /\ g[0] \in Elim(N) /\ g[0].m = m /\ g[0].ops = << >>
      BY <1>1
    <2>2. Lowered(m, 0, N)
      BY DEF Lowered, Wires
    <2>3. Kept(g[0], m, low, 0, N)
      BY <2>1, <2>2, ApplyNone DEF Kept
    <2> QED
      BY <2>1, <2>3
  <1>3. ASSUME NEW i \in 0 .. N - 1, i \in P PROVE i + 1 \in P
    <2>1. i \in Wires(N) /\ i + 1 \in 0 .. N
      BY DEF Wires
    <2>2. Kept(g[i + 1], m, low, i + 1, N)
      BY <1>1, <1>3, <2>1, ColumnKeeps
    <2> QED
      BY <2>1, <2>2
  <1> HIDE DEF P
  <1>4. 0 \in Nat /\ 0 <= N
    OBVIOUS
  <1>5. N \in P
    BY <1>2, <1>3, <1>4, ClimbsTo
  <1> QED
    BY <1>1, <1>5 DEF P

(* A circuit after another.                                                 *)
LEMMA ApplyBoth ==
    ASSUME NEW N \in Nat, NEW m \in Mat(N), NEW s \in Seq(Gates(N)), NEW t \in Seq(Gates(N))
    PROVE  ApplyCnots(m, s \o t) = ApplyCnots(ApplyCnots(m, s), t)
  <1>1. PICK f : Stages(f, m, s, N) /\ ApplyCnots(m, s) = f[Len(s) + 1]
    BY StagesExist
  <1>2. PICK j \in Nat, k \in Nat : j = Len(s) /\ k = Len(t)
    OBVIOUS
  <1>3. PICK b \in Mat(N) : b = f[j + 1]
    BY <1>1, <1>2 DEF Stages
  <1>4. PICK g : Stages(g, b, t, N) /\ ApplyCnots(b, t) = g[Len(t) + 1]
    BY StagesExist
  <1>5. PICK e : e = s \o t
    OBVIOUS
  <1>6. e \in Seq(Gates(N)) /\ Len(e) = j + k /\ (\A i \in 1 .. j : e[i] = s[i]) /\ \A i \in 1 .. k : e[j + i] = t[i]
    BY <1>2, <1>5
  <1> DEFINE h == [i \in 1 .. j + k + 1 |-> IF i <= j THEN f[i] ELSE g[i - j]]
  <1>7. \A i \in 1 .. j + 1 : h[i] = f[i]
    <2> SUFFICES ASSUME NEW i \in 1 .. j + 1 PROVE h[i] = f[i]
      OBVIOUS
    <2>1. CASE i = j + 1
      BY <1>2, <1>3, <1>4, <2>1 DEF Stages
    <2>2. CASE i # j + 1
      BY <2>2
    <2> QED
      BY <2>1, <2>2
  <1>8. \A i \in 1 .. k + 1 : h[j + i] = g[i]
    OBVIOUS
  <1>9. h = [i \in 1 .. j + k + 1 |-> h[i]]
    OBVIOUS
  <1> HIDE DEF h
  <1>10. \A i \in 1 .. j + k + 1 : i \in 1 .. j + 1 \/ \E x \in 1 .. k + 1 : i = j + x
    <2> SUFFICES ASSUME NEW i \in 1 .. j + k + 1, i \notin 1 .. j + 1 PROVE \E x \in 1 .. k + 1 : i = j + x
      OBVIOUS
    <2>1. i - j \in 1 .. k + 1 /\ i = j + (i - j)
      OBVIOUS
    <2> QED
      BY <2>1
  <1>11. \A i \in 1 .. j + k + 1 : h[i] \in Mat(N)
    <2> SUFFICES ASSUME NEW i \in 1 .. j + k + 1 PROVE h[i] \in Mat(N)
      OBVIOUS
    <2>1. CASE i \in 1 .. j + 1
      BY <1>1, <1>2, <1>7, <2>1 DEF Stages
    <2>2. CASE \E x \in 1 .. k + 1 : i = j + x
      <3>1. PICK x \in 1 .. k + 1 : i = j + x
        BY <2>2
      <3>2. h[i] = g[x]
        BY <1>8, <3>1
      <3>3. g[x] \in Mat(N)
        BY <1>2, <1>4 DEF Stages
      <3> QED
        BY <3>2, <3>3
    <2> QED
      BY <1>10, <2>1, <2>2
  <1>12. ASSUME NEW i \in 1 .. Len(e) PROVE h[i + 1] = Apply(h[i], e[i])
    <2>1. CASE i \in 1 .. j
      <3>1. i \in 1 .. j + 1 /\ i + 1 \in 1 .. j + 1
        BY <2>1
      <3>2. h[i + 1] = f[i + 1] /\ h[i] = f[i] /\ e[i] = s[i]
        BY <1>6, <1>7, <2>1, <3>1
      <3> QED
        BY <1>1, <1>2, <2>1, <3>2 DEF Stages
    <2>2. CASE i \notin 1 .. j
      <3>1. PICK x \in 1 .. k : i = j + x
        <4>1. i - j \in 1 .. k /\ i = j + (i - j)
          BY <1>6, <2>2
        <4> QED
          BY <4>1
      <3>2. x + 1 \in 1 .. k + 1 /\ x \in 1 .. k + 1 /\ i + 1 = j + (x + 1)
        BY <3>1
      <3>3. h[i + 1] = g[x + 1] /\ h[i] = g[x] /\ e[i] = t[x]
        BY <1>6, <1>8, <3>1, <3>2
      <3> QED
        BY <1>2, <1>4, <3>1, <3>3 DEF Stages
    <2> QED
      BY <2>1, <2>2
  <1>13. Stages(h, m, e, N)
    <2>1. h[1] = m
      BY <1>1, <1>2, <1>7 DEF Stages
    <2>2. h \in [1 .. Len(e) + 1 -> Mat(N)]
      BY <1>6, <1>9, <1>11
    <2> QED
      BY <1>12, <2>1, <2>2 DEF Stages
  <1>14. h[j + k + 1] = g[k + 1]
    <2>1. k + 1 \in 1 .. k + 1 /\ j + (k + 1) = j + k + 1
      OBVIOUS
    <2> QED
      BY <1>8, <2>1
  <1>15. ApplyCnots(m, e) = h[j + k + 1]
    BY <1>6, <1>13, StagesTo
  <1> QED
    BY <1>1, <1>2, <1>3, <1>4, <1>5, <1>14, <1>15

(* A circuit backwards undoes it.                                           *)
LEMMA ApplyBack ==
    ASSUME NEW N \in Nat, NEW m \in Mat(N), NEW s \in Seq(Gates(N))
    PROVE  Reverse(s) \in Seq(Gates(N)) /\ ApplyCnots(ApplyCnots(m, s), Reverse(s)) = m
  <1>1. PICK f : Stages(f, m, s, N) /\ ApplyCnots(m, s) = f[Len(s) + 1]
    BY StagesExist
  <1>2. PICK k \in Nat : k = Len(s)
    OBVIOUS
  <1>3. PICK r : r = Reverse(s)
    OBVIOUS
  <1>4. r = [i \in 1 .. k |-> s[k - i + 1]]
    BY <1>2, <1>3 DEF Reverse
  <1>5. \A i \in 1 .. k : k - i + 1 \in 1 .. k
    OBVIOUS
  <1>6. \A i \in 1 .. k : s[k - i + 1] \in Gates(N)
    BY <1>2, <1>5
  <1>7. r \in Seq(Gates(N)) /\ Len(r) = k
    BY <1>4, <1>6
  <1> DEFINE h == [i \in 1 .. k + 1 |-> f[k + 2 - i]]
  <1>8. \A i \in 1 .. k + 1 : k + 2 - i \in 1 .. k + 1
    OBVIOUS
  <1>9. PICK b \in Mat(N) : b = f[k + 1]
    BY <1>1, <1>2 DEF Stages
  <1>10. h \in [1 .. Len(r) + 1 -> Mat(N)] /\ h[1] = b
    <2>1. \A i \in 1 .. k + 1 : f[k + 2 - i] \in Mat(N)
      BY <1>1, <1>2, <1>8 DEF Stages
    <2>2. h[1] = f[k + 2 - 1] /\ k + 2 - 1 = k + 1
      OBVIOUS
    <2> QED
      BY <1>7, <1>9, <2>1, <2>2
  <1>11. ASSUME NEW i \in 1 .. Len(r) PROVE h[i + 1] = Apply(h[i], r[i])
    <2>1. PICK x \in 1 .. k : x = k - i + 1
      BY <1>5, <1>7
    <2>2. h[i] = f[x + 1] /\ h[i + 1] = f[x]
      <3>1. i \in 1 .. k + 1 /\ i + 1 \in 1 .. k + 1 /\ k + 2 - i = x + 1 /\ k + 2 - (i + 1) = x
        BY <1>7, <2>1
      <3> QED
        BY <3>1
    <2>3. r[i] = s[x]
      BY <1>4, <1>7, <2>1
    <2>4. f[x + 1] = Apply(f[x], s[x]) /\ f[x] \in Mat(N)
      <3>1. x \in 1 .. Len(s) /\ x \in 1 .. Len(s) + 1
        BY <1>2, <2>1
      <3>2. f[x + 1] = Apply(f[x], s[x])
        BY <1>1, <3>1 DEF Stages
      <3>3. f[x] \in Mat(N)
        BY <1>1, <3>1 DEF Stages
      <3> QED
        BY <3>2, <3>3
    <2>5. PICK g \in Gates(N), u \in Mat(N) : g = s[x] /\ u = f[x]
      BY <1>2, <2>1, <2>4
    <2>6. Apply(Apply(u, g), g) = u
      BY <2>5, ApplyTwice
    <2> QED
      BY <2>2, <2>3, <2>4, <2>5, <2>6
  <1>12. h[k + 1] = m
    <2>1. k + 1 \in 1 .. k + 1 /\ k + 2 - (k + 1) = 1
      OBVIOUS
    <2> QED
      BY <1>1, <2>1 DEF Stages
  <1> HIDE DEF h
  <1>13. Stages(h, b, r, N)
    BY <1>10, <1>11 DEF Stages
  <1>14. ApplyCnots(b, r) = h[k + 1]
    BY <1>7, <1>13, StagesTo
  <1> QED
    BY <1>1, <1>2, <1>3, <1>7, <1>9, <1>12, <1>14

(* Controls and targets exchanged, a circuit makes of the transposed map    *)
(* what backwards it makes of the map.                                      *)
LEMMA TurnedStep ==
    ASSUME NEW N \in Nat, NEW f \in Mat(N), NEW h \in Mat(N), NEW g \in Gates(N), NEW q \in Wires(N)
    PROVE  /\ <<g[2], g[1]>> \in Gates(N)
           /\ Sum(Apply(f, g), Transpose(Apply(h, <<g[2], g[1]>>))[q]) = Sum(f, Transpose(h)[q])
  <1>1. PICK c \in Wires(N), t \in Wires(N) : g = <<c, t>> /\ c # t
    BY DEF Gates
  <1>2. <<t, c>> \in Gates(N)
    BY <1>1 DEF Gates
  <1>3. PICK z \in Mat(N) : /\ z = AddRow(h, t, c)
                            /\ \A x \in Wires(N) : z[x] = IF x = c THEN SymDiff(h[c], h[t]) ELSE h[x]
    BY AddRowTyped
  <1>4. PICK y \in SUBSET Wires(N) : y = Transpose(h)[q]
    BY TransposeTyped DEF Mat
  <1>5. PICK x \in SUBSET Wires(N) : x = Transpose(z)[q]
    BY TransposeTyped DEF Mat
  <1>6. \A i \in Wires(N) : (i \in y <=> q \in h[i]) /\ (i \in x <=> q \in z[i])
    BY <1>4, <1>5, TransposeTyped
  <1>7. x = Dual(y, c, t)
    <2>1. \A i \in Wires(N) : i \in x <=> i \in Dual(y, c, t)
      BY <1>1, <1>3, <1>6 DEF Dual, SymDiff
    <2>2. Dual(y, c, t) \subseteq Wires(N)
      BY DEF Dual, SymDiff
    <2> QED
      BY <2>1, <2>2
  <1>8. Sum(AddRow(f, c, t), x) = Sum(f, y)
    BY <1>1, <1>7, DualKeepsSum
  <1> QED
    BY <1>1, <1>2, <1>3, <1>4, <1>5, <1>8 DEF Apply

(* So where a circuit clears the transposed map, it makes the map.          *)
LEMMA TurnedApplies ==
    ASSUME NEW N \in Nat, NEW m \in Mat(N), NEW s \in Seq(Gates(N)), ApplyCnots(Transpose(m), s) = IdentityMap(N)
    PROVE  Turned(s) \in Seq(Gates(N)) /\ ApplyCnots(IdentityMap(N), Turned(s)) = m
  <1>1. PICK T \in Mat(N) : T = Transpose(m) /\ \A i, j \in Wires(N) : i \in T[j] <=> j \in m[i]
    BY TransposeTyped
  <1>2. PICK I \in Mat(N) : I = IdentityMap(N) /\ \A q \in Wires(N) : I[q] = {q}
    BY IdentityTyped
  <1>3. PICK f : Stages(f, T, s, N) /\ ApplyCnots(T, s) = f[Len(s) + 1]
    BY StagesExist
  <1>4. PICK k \in Nat : k = Len(s) + 1 /\ 1 \in Nat /\ 1 <= k /\ 1 .. k - 1 = 1 .. Len(s)
    OBVIOUS
  <1>5. PICK u : u = Turned(s)
    OBVIOUS
  <1>6. u \in Seq(Gates(N)) /\ Len(u) = Len(s) /\ \A i \in 1 .. Len(s) : u[i] = <<s[i][2], s[i][1]>>
    <2>1. \A i \in 1 .. Len(s) : s[i] \in Gates(N)
      OBVIOUS
    <2>2. \A i \in 1 .. Len(s) : <<s[i][2], s[i][1]>> \in Gates(N)
      BY <2>1 DEF Gates
    <2>3. u = [i \in 1 .. Len(s) |-> <<s[i][2], s[i][1]>>]
      BY <1>5 DEF Turned
    <2> QED
      BY <2>2, <2>3
  <1>7. PICK h : Stages(h, I, u, N) /\ ApplyCnots(I, u) = h[Len(u) + 1]
    BY <1>6, StagesExist
  <1> DEFINE P == {i \in 1 .. k : \A q \in Wires(N) : Sum(f[i], Transpose(h[i])[q]) = T[q]}
  <1>8. 1 \in P
    <2>1. f[1] = T /\ h[1] = I
      BY <1>3, <1>7 DEF Stages
    <2>2. ASSUME NEW q \in Wires(N) PROVE Sum(T, Transpose(I)[q]) = T[q]
      <3>1. Transpose(I) \in Mat(N) /\ \A i \in Wires(N) : i \in Transpose(I)[q] <=> q \in I[i]
        BY TransposeTyped
      <3>2. Transpose(I)[q] = {q}
        BY <1>2, <3>1 DEF Mat
      <3> QED
        BY <3>2, SumOfOne
    <2> QED
      BY <1>4, <2>1, <2>2
  <1>9. ASSUME NEW i \in 1 .. k - 1, i \in P PROVE i + 1 \in P
    <2>1. i \in 1 .. Len(s) /\ i + 1 \in 1 .. k
      BY <1>4
    <2>2. f[i] \in Mat(N) /\ h[i] \in Mat(N)
      BY <1>3, <1>6, <1>7, <2>1 DEF Stages
    <2>5. s[i] \in Gates(N)
      BY <2>1
    <2>3. f[i + 1] = Apply(f[i], s[i]) /\ h[i + 1] = Apply(h[i], <<s[i][2], s[i][1]>>)
      BY <1>3, <1>6, <1>7, <2>1 DEF Stages
    <2>4. \A q \in Wires(N) : Sum(f[i + 1], Transpose(h[i + 1])[q]) = Sum(f[i], Transpose(h[i])[q])
      BY <2>2, <2>3, <2>5, TurnedStep
    <2> QED
      BY <1>9, <2>1, <2>4
  <1> HIDE DEF P
  <1>10. k \in P
    BY <1>4, <1>8, <1>9, ClimbsTo
  <1>11. PICK z \in Mat(N) : z = h[k]
    BY <1>4, <1>6, <1>7 DEF Stages
  <1>12. f[k] = I
    BY <1>1, <1>2, <1>3, <1>4
  <1>13. ASSUME NEW q \in Wires(N) PROVE Transpose(z)[q] = T[q]
    <2>1. Sum(I, Transpose(z)[q]) = T[q]
      BY <1>10, <1>11, <1>12 DEF P
    <2>2. Transpose(z)[q] \in SUBSET Wires(N)
      BY TransposeTyped DEF Mat
    <2> QED
      BY <1>2, <2>1, <2>2, SumOfInputs
  <1>14. z = m
    <2>1. ASSUME NEW i \in Wires(N) PROVE z[i] = m[i]
      <3>1. \A j \in Wires(N) : j \in z[i] <=> j \in m[i]
        BY <1>1, <1>13, TransposeTyped
      <3>2. z[i] \subseteq Wires(N) /\ m[i] \subseteq Wires(N)
        BY DEF Mat
      <3> QED
        BY <3>1, <3>2
    <2> QED
      BY <2>1 DEF Mat
  <1> QED
    BY <1>2, <1>4, <1>5, <1>6, <1>7, <1>11, <1>14

(* A unit lower triangular map is invertible: the sum of some rows has the  *)
(* last of them on its own.                                                 *)
LEMMA UnitLowInvertible ==
    ASSUME NEW N \in Nat, NEW m \in Mat(N), UnitLow(m, N)
    PROVE  Invertible(m)
  <1>1. DOMAIN m = Wires(N)
    BY DEF Mat
  <1>2. ASSUME NEW y \in (SUBSET Wires(N)) \ {{}} PROVE Sum(m, y) # {}
    <2> DEFINE T == {N - 1 - i : i \in y}
    <2>1. T \in SUBSET Nat /\ T # {}
      BY DEF Wires
    <2>2. PICK k \in T : \A j \in T : k <= j
      BY <2>1, LeastExists
    <2>3. PICK w \in y : k = N - 1 - w
      BY <2>2
    <2>4. w \in Wires(N)
      OBVIOUS
    <2>5. \A i \in y : i <= w
      <3> SUFFICES ASSUME NEW i \in y PROVE i <= w
        OBVIOUS
      <3>1. N - 1 - i \in T
        OBVIOUS
      <3>2. k <= N - 1 - i
        BY <2>2, <3>1
      <3> QED
        BY <2>3, <2>4, <3>2 DEF Wires
    <2>6. Rows(m, y, w) = {w}
      <3>1. \A i \in y : w \in m[i] => i = w
        <4> SUFFICES ASSUME NEW i \in y, w \in m[i] PROVE i = w
          OBVIOUS
        <4>1. i \in Wires(N) /\ w <= i /\ i <= w
          BY <2>5 DEF UnitLow
        <4> QED
          BY <2>4, <4>1 DEF Wires
      <3>2. w \in m[w]
        BY <2>4 DEF UnitLow
      <3> QED
        BY <3>1, <3>2 DEF Rows
    <2>7. Cardinality(Rows(m, y, w)) % 2 = 1
      <3>1. Cardinality({w}) = 1
        BY FS_Singleton
      <3> QED
        BY <2>6, <3>1
    <2> QED
      BY <2>4, <2>7, SumIs
  <1> QED
    BY <1>1, <1>2 DEF Invertible

(* Both passes over an invertible map place every diagonal one, and the     *)
(* circuit stitched of them makes the map of the identity.                  *)
LEMMA StitchRight ==
    ASSUME NEW N \in Nat, NEW m \in Mat(N), Invertible(m), NEW size \in Nat \ {0},
           NEW U, U = LowerPass(m, N, size), NEW D, D = LowerPass(Transpose(U.m), N, size)
    PROVE  /\ UnitDiagonal(U.m) /\ UnitDiagonal(D.m)
           /\ ApplyCnots(IdentityMap(N), Stitch(U.ops, D.ops)) = m
  <1>1. Kept(U, m, FALSE, N, N)
    BY LowerPassLowers
  <1>2. PICK u \in Mat(N) : u = U.m
    BY <1>1 DEF Kept, Elim
  <1>3. PICK s \in Seq(Gates(N)) : s = U.ops
    BY <1>1 DEF Kept, Elim
  <1>4. ApplyCnots(m, s) = u /\ Lowered(u, N, N)
    BY <1>1, <1>2, <1>3 DEF Kept
  <1>5. PICK T \in Mat(N) : T = Transpose(u) /\ \A i, j \in Wires(N) : i \in T[j] <=> j \in u[i]
    BY TransposeTyped
  <1>6. \A q \in Wires(N) : q < N /\ q \in Int
    BY DEF Wires
  <1>7. UnitLow(T, N)
    <2> SUFFICES ASSUME NEW q \in Wires(N) PROVE q \in T[q] /\ \A v \in T[q] : v <= q
      BY DEF UnitLow
    <2>1. q \in T[q]
      BY <1>4, <1>5, <1>6 DEF Lowered
    <2>2. ASSUME NEW v \in T[q] PROVE v <= q
      <3>1. v \in Wires(N)
        BY DEF Mat
      <3>2. q \in u[v]
        BY <1>5, <3>1
      <3>3. ~(v > q)
        BY <1>4, <1>6, <3>1, <3>2 DEF Lowered
      <3> QED
        BY <1>6, <3>1, <3>3
    <2> QED
      BY <2>1, <2>2
  <1>8. Invertible(T)
    BY <1>7, UnitLowInvertible
  <1>9. Kept(D, T, TRUE, N, N)
    BY <1>2, <1>5, <1>7, <1>8, LowerPassLowers
  <1>10. PICK d \in Mat(N) : d = D.m
    BY <1>9 DEF Kept, Elim
  <1>11. PICK t \in Seq(Gates(N)) : t = D.ops
    BY <1>9 DEF Kept, Elim
  <1>12. ApplyCnots(T, t) = d /\ Lowered(d, N, N) /\ UnitLow(d, N)
    BY <1>9, <1>10, <1>11 DEF Kept
  <1>13. PICK I \in Mat(N) : I = IdentityMap(N) /\ \A q \in Wires(N) : I[q] = {q}
    BY IdentityTyped
  <1>14. d = I
    <2>1. ASSUME NEW q \in Wires(N) PROVE d[q] = {q}
      <3>1. q \in d[q] /\ \A v \in d[q] : v <= q
        BY <1>12 DEF UnitLow
      <3>2. ASSUME NEW v \in d[q] PROVE v = q
        <4>1. v \in Wires(N)
          BY DEF Mat
        <4>2. ~(q > v)
          BY <1>6, <1>12, <4>1, <3>2 DEF Lowered
        <4> QED
          BY <1>6, <3>1, <4>1, <4>2
      <3> QED
        BY <3>1, <3>2
    <2>2. \A q \in Wires(N) : d[q] = I[q]
      BY <1>13, <2>1
    <2> QED
      BY <2>2 DEF Mat
  <1>15. UnitDiagonal(u) /\ UnitDiagonal(d)
    <2>1. DOMAIN u = Wires(N) /\ DOMAIN d = Wires(N)
      BY DEF Mat
    <2> QED
      BY <1>4, <1>6, <1>12, <2>1 DEF UnitDiagonal, Lowered
  <1>16. Turned(t) \in Seq(Gates(N)) /\ ApplyCnots(I, Turned(t)) = u
    BY <1>5, <1>12, <1>13, <1>14, TurnedApplies
  <1>17. Reverse(s) \in Seq(Gates(N)) /\ ApplyCnots(u, Reverse(s)) = m
    BY <1>4, ApplyBack
  <1>18. ApplyCnots(I, Turned(t) \o Reverse(s)) = m
    BY <1>16, <1>17, ApplyBoth
  <1>19. PICK z : z = Turned(t) \o Reverse(s)
    OBVIOUS
  <1>20. z \in Seq(Gates(N))
    BY <1>16, <1>17, <1>19, ConcatIn
  <1>21. ApplyCnots(I, Cancelled(z)) = m
    BY <1>18, <1>19, <1>20, CancelledApplies
  <1> QED
    BY <1>2, <1>3, <1>10, <1>11, <1>13, <1>15, <1>19, <1>21 DEF Stitch

(* Fewer frames, and fewer duals in them, are still stacked.                *)
LEMMA ThinnedStacked ==
    ASSUME NEW fs, Stacked(fs), NEW gs, DOMAIN gs \subseteq DOMAIN fs,
           \A i \in DOMAIN gs : Thinned(gs[i], fs[i])
    PROVE  Stacked(gs)
  <1>1. ASSUME NEW i \in DOMAIN gs PROVE Agreed(gs[i])
    <2>1. Agreed(fs[i]) /\ Thinned(gs[i], fs[i])
      BY DEF Stacked
    <2> QED
      BY <2>1 DEF Agreed, Thinned
  <1>2. ASSUME NEW i \in DOMAIN gs, NEW k \in DOMAIN gs, i < k PROVE Over(gs[i], gs[k])
    <2>1. Over(fs[i], fs[k]) /\ Thinned(gs[i], fs[i]) /\ Thinned(gs[k], fs[k])
      BY <1>2 DEF Stacked
    <2> QED
      BY <2>1 DEF Over, Thinned
  <1> QED
    BY <1>1, <1>2 DEF Stacked

(* A CNOT into the target of a frame, or from a wire it was not split on.   *)
LEMMA ToggledAgreed ==
    ASSUME NEW f, Agreed(f), NEW c, NEW t, t # None, c # t, f.target = t \/ c \in f.unused,
           NEW g, Toggled(g, f, c, t)
    PROVE  Agreed(g)
  <1>1. CASE f.target = None
    <2>1. ASSUME NEW z \in DOMAIN g.s PROVE z \subseteq g.unused
      <3>1. PICK y \in DOMAIN f.s : z = Dual(y, c, t)
        BY DEF Toggled
      <3>2. y \subseteq f.unused /\ c \in f.unused
        BY <1>1 DEF Agreed
      <3> QED
        BY <3>1, <3>2 DEF Toggled, Dual, SymDiff
    <2> QED
      BY <1>1, <2>1 DEF Agreed, Toggled
  <1>2. CASE f.target # None
    <2>1. f.target \notin f.unused /\ g.target = f.target /\ g.unused = f.unused /\ f.target # c
      BY <1>2 DEF Agreed, Toggled
    <2>2. ASSUME NEW z \in DOMAIN g.s PROVE f.target \in z
      <3>1. PICK y \in DOMAIN f.s : z = Dual(y, c, t)
        BY DEF Toggled
      <3>2. f.target \in y
        BY <1>2 DEF Agreed
      <3> QED
        BY <2>1, <3>1, <3>2 DEF Dual, SymDiff
    <2>3. ASSUME NEW z \in DOMAIN g.s, NEW x \in DOMAIN g.s PROVE z \ f.unused = x \ f.unused
      <3>1. PICK y \in DOMAIN f.s : z = Dual(y, c, t)
        BY DEF Toggled
      <3>2. PICK w \in DOMAIN f.s : x = Dual(w, c, t)
        BY DEF Toggled
      <3>3. y \ f.unused = w \ f.unused /\ f.target \in y /\ f.target \in w
        BY <1>2 DEF Agreed
      <3>4. CASE f.target = t
        <4>1. z = SymDiff(y, {c}) /\ x = SymDiff(w, {c})
          BY <3>1, <3>2, <3>3, <3>4 DEF Dual
        <4> QED
          BY <3>3, <4>1 DEF SymDiff
      <3>5. CASE c \in f.unused
        <4>1. z \ f.unused = y \ f.unused
          BY <3>1, <3>5 DEF Dual, SymDiff
        <4>2. x \ f.unused = w \ f.unused
          BY <3>2, <3>5 DEF Dual, SymDiff
        <4> QED
          BY <3>3, <4>1, <4>2
      <3> QED
        BY <3>4, <3>5
    <2> QED
      BY <1>2, <2>1, <2>2, <2>3 DEF Agreed
  <1> QED
    BY <1>1, <1>2

(* Of two frames, it leaves the upper one over the lower.                   *)
LEMMA ToggledOver ==
    ASSUME NEW f, Agreed(f), NEW h, Over(f, h), NEW c, NEW t, t # None, c # t, f.target = t \/ c \in f.unused,
           NEW g, Toggled(g, f, c, t), NEW k, Toggled(k, h, c, t)
    PROVE  Over(g, k)
  <1>1. g.target = f.target /\ g.unused = f.unused /\ k.target = h.target /\ k.unused = h.unused
    BY DEF Toggled
  <1>2. f.target # None /\ h.unused \subseteq f.unused
    BY DEF Over
  <1>3. CASE h.target = f.target
    BY <1>1, <1>2, <1>3 DEF Over
  <1>4. CASE h.target # f.target
    <2>1. (\A y \in DOMAIN h.s : y \subseteq f.unused) /\ (h.target = None \/ h.target \in f.unused)
      BY <1>4 DEF Over
    <2>2. ASSUME NEW z \in DOMAIN k.s PROVE z \subseteq f.unused
      <3>1. PICK y \in DOMAIN h.s : z = Dual(y, c, t)
        BY DEF Toggled
      <3>2. y \subseteq f.unused
        BY <2>1
      <3>3. CASE f.target = t
        <4>1. t \notin y
          BY <1>2, <3>2, <3>3 DEF Agreed
        <4> QED
          BY <3>1, <3>2, <4>1 DEF Dual
      <3>4. CASE c \in f.unused
        BY <3>1, <3>2, <3>4 DEF Dual, SymDiff
      <3> QED
        BY <3>3, <3>4
    <2> QED
      BY <1>1, <1>2, <2>1, <2>2 DEF Over
  <1> QED
    BY <1>3, <1>4

(* Such a CNOT leaves all the frames stacked.                               *)
LEMMA ToggledStacked ==
    ASSUME NEW fs, Stacked(fs), NEW c, NEW t, t # None, c # t,
           \A i \in DOMAIN fs : fs[i].target = t \/ c \in fs[i].unused,
           NEW gs, DOMAIN gs \subseteq DOMAIN fs, \A i \in DOMAIN gs : Toggled(gs[i], fs[i], c, t)
    PROVE  Stacked(gs)
  <1>1. ASSUME NEW i \in DOMAIN gs PROVE Agreed(gs[i])
    <2>1. Agreed(fs[i]) /\ Toggled(gs[i], fs[i], c, t) /\ (fs[i].target = t \/ c \in fs[i].unused)
      BY DEF Stacked
    <2> QED
      BY <2>1, ToggledAgreed
  <1>2. ASSUME NEW i \in DOMAIN gs, NEW k \in DOMAIN gs, i < k PROVE Over(gs[i], gs[k])
    <2>1. Agreed(fs[i]) /\ Over(fs[i], fs[k])
      BY <1>2 DEF Stacked
    <2>2. Toggled(gs[i], fs[i], c, t) /\ Toggled(gs[k], fs[k], c, t) /\ (fs[i].target = t \/ c \in fs[i].unused)
      OBVIOUS
    <2> QED
      BY <2>1, <2>2, ToggledOver
  <1> QED
    BY <1>1, <1>2 DEF Stacked

(* One more frame on the stack.                                             *)
LEMMA StackedMore ==
    ASSUME NEW s, IsSeq(s), Stacked(s), NEW f, Agreed(f), \A i \in DOMAIN s : Over(s[i], f)
    PROVE  Stacked(Append(s, f))
  <1>1. PICK k \in Nat : k = Len(s) /\ DOMAIN s = 1 .. k
    BY DEF IsSeq
  <1>2. PICK e : e = Append(s, f)
    OBVIOUS
  <1>3. DOMAIN e = 1 .. k + 1 /\ e[k + 1] = f /\ \A i \in 1 .. k : e[i] = s[i]
    BY <1>1, <1>2 DEF IsSeq
  <1>4. ASSUME NEW i \in DOMAIN e PROVE Agreed(e[i])
    <2>1. CASE i = k + 1
      BY <1>3, <2>1
    <2>2. CASE i # k + 1
      <3>1. i \in 1 .. k
        BY <1>3, <2>2
      <3> QED
        BY <1>1, <1>3, <3>1 DEF Stacked
    <2> QED
      BY <2>1, <2>2
  <1>5. ASSUME NEW i \in DOMAIN e, NEW j \in DOMAIN e, i < j PROVE Over(e[i], e[j])
    <2>1. i \in 1 .. k
      BY <1>3, <1>5
    <2>2. CASE j = k + 1
      BY <1>1, <1>3, <2>1, <2>2
    <2>3. CASE j # k + 1
      <3>1. j \in 1 .. k
        BY <1>3, <2>3
      <3> QED
        BY <1>1, <1>3, <1>5, <2>1, <3>1 DEF Stacked
    <2> QED
      BY <2>2, <2>3
  <1> QED
    BY <1>2, <1>4, <1>5 DEF Stacked

(* And the other way: what is below the top, and how it relates to it.      *)
LEMMA StackedLess ==
    ASSUME NEW s, IsSeq(s), NEW f, Stacked(Append(s, f))
    PROVE  Stacked(s) /\ Agreed(f) /\ \A i \in DOMAIN s : Over(s[i], f)
  <1>1. PICK k \in Nat : k = Len(s) /\ DOMAIN s = 1 .. k
    BY DEF IsSeq
  <1>2. PICK e : e = Append(s, f)
    OBVIOUS
  <1>3. DOMAIN e = 1 .. k + 1 /\ e[k + 1] = f /\ \A i \in 1 .. k : e[i] = s[i]
    BY <1>1, <1>2 DEF IsSeq
  <1>4. Stacked(e)
    BY <1>2
  <1>5. k + 1 \in DOMAIN e /\ \A i \in 1 .. k : i \in DOMAIN e /\ i < k + 1
    BY <1>3
  <1>6. Agreed(f)
    BY <1>3, <1>4, <1>5 DEF Stacked
  <1>7. \A i \in DOMAIN s : Over(s[i], f)
    <2> SUFFICES ASSUME NEW i \in 1 .. k PROVE Over(s[i], f)
      BY <1>1
    <2>1. i \in DOMAIN e /\ i < k + 1
      BY <1>5
    <2>2. Over(e[i], e[k + 1])
      BY <1>4, <1>5, <2>1 DEF Stacked
    <2> QED
      BY <1>3, <2>2
  <1>8. Stacked(s)
    <2>1. \A i \in DOMAIN s : i \in DOMAIN e /\ e[i] = s[i]
      BY <1>1, <1>3, <1>5
    <2> QED
      BY <1>4, <2>1 DEF Stacked
  <1> QED
    BY <1>6, <1>7, <1>8

(* What the invariant says is what the property asks.                       *)
LEMMA AnsweredAnswers == Liftable /\ TypeInv /\ Answered => AlwaysAnswers
  <1> SUFFICES ASSUME Liftable, TypeInv, Answered PROVE AlwaysAnswers
    OBVIOUS
  <1>1. job.kind \in {"gray", "steiner", "pmh", "matrix"}
    BY JobTyped DEF TypeInv, KindsFit
  <1> QED
    BY <1>1 DEF Answered, Refusals, Passes, Admitted, AlwaysAnswers

(* A step of the call, conjunct by conjunct.                                *)
LEMMA AnsweredNext ==
    ASSUME TypeInv, job' = job,
           pc' = "pop" => Stacked(stack'),
           pc' = "common" => Stacked(Append(stack', frame')) /\ DOMAIN frame'.s # {} /\ Ready(frame'.s) = {},
           job.kind = "gray" => Invertible(wires'),
           Liftable /\ pc' = "lift" => \A t \in DOMAIN coeff' : Cardinality(t) <= LiftCap,
           Liftable /\ pc' = "refused" /\ job.kind # "matrix" => ~Admitted,
           pc' = "upper" => /\ pass'.m = Transpose(LowerPass(pass'.want, n, Size).m)
                            /\ pass'.lower = LowerPass(pass'.want, n, Size).ops,
           pc' = "fallback" \/ (pc' = "refused" /\ job.kind = "matrix") => ~Invertible(pass'.want)
    PROVE  Answered'
  <1>1. n' = n /\ (Admitted' <=> Admitted)
    BY JobStays
  <1>2. Size' = Size
    BY <1>1 DEF Size
  <1>3. Splits'
    BY DEF Splits
  <1>4. Based' /\ Narrow'
    BY DEF Based, Narrow
  <1>5. Refusals'
    BY <1>1 DEF Refusals
  <1>6. Passes'
    BY <1>1, <1>2 DEF Passes
  <1> QED
    BY <1>3, <1>4, <1>5, <1>6 DEF Answered

(* The steps that neither refuse nor touch what the invariant is about.     *)
LEMMA RestAnswered ==
    ASSUME TypeInv, Answered, job' = job, job.kind = "gray" => wires' = wires,
           pc' \in {"terms", "tree", "lower", "done", "costly"}
    PROVE  Answered'
  <1>1. job.kind = "gray" => Invertible(wires')
    BY DEF Answered, Based
  <1> QED
    BY <1>1, AnsweredNext

(* The wires start as the inputs, which are a basis.                        *)
LEMMA InitAnswered == Init => Answered
  <1> SUFFICES ASSUME Init PROVE Answered
    OBVIOUS
  <1>1. n \in Nat /\ wires = IdentityMap(n)
    BY JobTyped DEF Init, n
  <1>2. Invertible(wires)
    BY <1>1, IdentityInvertible
  <1> QED
    BY <1>2 DEF Init, Answered, Splits, Based, Narrow, Refusals, Passes

(* A call that starts is admitted, and its monomials are those of the path sum. *)
LEMMA StartAnswered == ASSUME TypeInv, Answered, Start PROVE Answered'
  <1>1. job' = job /\ job \in Jobs /\ n \in Nat /\ job.kind \in {"gray", "steiner", "pmh", "matrix"}
    BY JobTyped DEF TypeInv, KindsFit, Start
  <1>2. job.kind = "gray" => Invertible(wires')
    BY DEF Answered, Based, Start
  <1>3. Liftable /\ pc' = "lift" => \A t \in DOMAIN coeff' : Cardinality(t) <= LiftCap
    <2> SUFFICES ASSUME Liftable, pc' = "lift" PROVE \A t \in DOMAIN coeff' : Cardinality(t) <= LiftCap
      OBVIOUS
    <2>1. job.kind \in {"gray", "steiner"}
      BY <1>1 DEF Start
    <2>2. coeff' = [t \in DOMAIN Ps.disc |-> Ps.disc[t] * Eighth]
      BY <2>1, StrictSame DEF Start
    <2> QED
      BY <1>1, <2>2 DEF Liftable, Ps
  <1>4. pc' \in {"lower", "lift", "refused"} /\ (pc' = "refused" => job.kind # "matrix" /\ ~Admitted)
    BY <1>1 DEF Start, Admitted
  <1> QED
    BY <1>1, <1>2, <1>3, <1>4, AnsweredNext

(* The monomials that a lifted one leaves are no wider than it.             *)
LEMMA LiftAnswered == ASSUME TypeInv, Answered, Lift PROVE Answered'
  <1>1. job' = job /\ job \in Jobs /\ n \in Nat /\ LiftCap \in Nat
    BY JobStays, JobsAssumption DEF Lift
  <1>2. pc = "lift"
    BY DEF Lift
  <1>3. DOMAIN coeff \subseteq Parity(n)
    BY <1>2 DEF TypeInv, TermsFit
  <1>4. PICK m \in DOMAIN coeff : m = Heaviest(DOMAIN coeff)
    <2>1. DOMAIN coeff # {}
      BY <1>2, EmptyIs DEF Lift, TypeInv, TermsFit
    <2> QED
      BY <1>1, <1>3, <2>1, HeaviestIs DEF Parity
  <1>5. IsFiniteSet(m) /\ Cardinality(m) \in Nat
    <2>1. m \in SUBSET Wires(n)
      BY <1>3 DEF Parity
    <2> QED
      BY <1>1, <2>1, WiresFinite, FS_CardinalityType
  <1>6. pc' \in {"lift", "refused"} /\ job.kind # "matrix"
    BY <1>2 DEF Lift, TypeInv, KindsFit
  <1>7. job.kind = "gray" => Invertible(wires')
    BY DEF Answered, Based, Lift
  <1>8. ASSUME Liftable
        PROVE  pc' = "lift" /\ \A t \in DOMAIN coeff' : Cardinality(t) <= LiftCap
    <2>1. Cardinality(m) <= LiftCap /\ \A t \in DOMAIN coeff : Cardinality(t) <= LiftCap
      BY <1>2, <1>8 DEF Answered, Narrow
    <2>2. ~(Cardinality(m) > LiftCap)
      BY <1>1, <1>5, <2>1
    <2>3. pc' = "lift" /\ \E theta : coeff' = Subtract(coeff, m, theta)
      BY <1>4, <2>2 DEF Lift
    <2>4. ASSUME NEW t \in DOMAIN coeff' PROVE Cardinality(t) <= LiftCap
      <3>1. t \in DOMAIN coeff \/ t \in SUBSET m
        BY <2>3, SubtractDomain
      <3>2. CASE t \in SUBSET m
        <4>1. Cardinality(t) <= Cardinality(m) /\ IsFiniteSet(t)
          BY <1>5, <3>2, FS_Subset
        <4>2. Cardinality(t) \in Nat
          BY <4>1, FS_CardinalityType
        <4> QED
          BY <1>1, <1>5, <2>1, <4>1, <4>2
      <3> QED
        BY <2>1, <3>1, <3>2
    <2> QED
      BY <2>3, <2>4
  <1> QED
    BY <1>1, <1>6, <1>7, <1>8, AnsweredNext

(* The first frame has no target and no wire it was split on.               *)
LEMMA LiftedAnswered == ASSUME TypeInv, Answered, Lifted PROVE Answered'
  <1>1. job' = job /\ job \in Jobs /\ n \in Nat /\ wires' = wires
    BY JobStays DEF Lifted
  <1>2. pc = "lift"
    BY DEF Lifted
  <1>3. CASE job.kind = "steiner"
    BY <1>1, <1>3, RestAnswered DEF Lifted
  <1>4. CASE job.kind # "steiner"
    <2>1. Synthesizable /\ DOMAIN terms \subseteq Parity(n)
      BY <1>2 DEF TypeInv, KindsFit, TermsFit, Admitted
    <2>2. IsPhases(Merged, n)
      BY <1>1, <2>1, MergedTyped
    <2>3. PICK d : d = Unplaced(Merged) /\ IsPhases(d, n)
      BY <2>2, UnplacedTyped
    <2>4. PICK f : f = Frame(d, Wires(n), None)
      OBVIOUS
    <2>5. Agreed(f)
      <3>1. f.target = None /\ f.s = d /\ f.unused = Wires(n)
        BY <2>4 DEF Frame
      <3> QED
        BY <2>3, <3>1 DEF Agreed, IsPhases, Parity
    <2>6. pc' = "pop" /\ (stack' = << >> \/ stack' = <<f>>)
      BY <1>4, <2>3, <2>4 DEF Lifted
    <2>7. Stacked(stack')
      <3>1. CASE stack' = << >>
        BY <3>1 DEF Stacked
      <3>2. CASE stack' = <<f>>
        <4>1. DOMAIN stack' = {1} /\ stack'[1] = f
          BY <3>2
        <4>2. \A i, k \in DOMAIN stack' : ~(i < k)
          BY <4>1
        <4> QED
          BY <2>5, <4>1, <4>2 DEF Stacked
      <3> QED
        BY <2>6, <3>1, <3>2
    <2>8. job.kind = "gray" => Invertible(wires')
      BY <1>1 DEF Answered, Based
    <2> QED
      BY <1>1, <2>6, <2>7, <2>8, AnsweredNext
  <1> QED
    BY <1>3, <1>4

(* What is left when the duals of one wire are placed has none of them.     *)
LEMMA UnplacedIs ==
    ASSUME NEW d
    PROVE  DOMAIN Unplaced(d) = DOMAIN d \ Ready(d) /\ Ready(Unplaced(d)) = {}
  <1>1. PICK u : u = Unplaced(d)
    OBVIOUS
  <1>2. DOMAIN u = DOMAIN d \ Ready(d)
    BY <1>1, StrictSame DEF Unplaced, Without
  <1>3. Ready(u) = {}
    BY <1>2 DEF Ready
  <1> QED
    BY <1>1, <1>2, <1>3

(* The top frame loses the duals that are placed.                           *)
LEMMA PopAnswered == ASSUME TypeInv, Answered, Pop PROVE Answered'
  <1>1. job' = job /\ job \in Jobs /\ n \in Nat
    BY JobStays DEF Pop
  <1>2. pc = "pop" /\ pc' \in {"pop", "common"}
    BY DEF Pop
  <1>3. IsSeq(stack) /\ stack # << >> /\ \A i \in DOMAIN stack : IsFrame(stack[i], n)
    BY <1>2 DEF Pop, TypeInv, FramesFit
  <1>4. PICK k \in Nat \ {0} : k = Len(stack) /\ DOMAIN stack = 1 .. k
    BY <1>3, PopFrames
  <1>5. PICK low : low = Front(stack) /\ IsSeq(low) /\ Len(low) = k - 1 /\ DOMAIN low = 1 .. k - 1 /\ \A i \in 1 .. k - 1 : low[i] = stack[i]
    BY <1>3, <1>4, PopFrames
  <1>6. PICK f : f = Last(stack) /\ f = stack[k] /\ IsFrame(f, n)
    BY <1>3, <1>4, PopFrames
  <1>7. PICK u : u = Unplaced(f.s)
    OBVIOUS
  <1>8. IsPhases(u, n) /\ DOMAIN u \subseteq DOMAIN f.s /\ Ready(u) = {}
    <2>1. IsPhases(f.s, n)
      BY <1>6 DEF IsFrame, IsPhases
    <2> QED
      BY <1>7, <2>1, UnplacedTyped, UnplacedIs
  <1>9. PICK g : g = [f EXCEPT !.s = u] /\ g = Frame(u, f.unused, f.target)
    BY <1>1, <1>6, <1>8, FrameHolds
  <1>10. frame' = g /\ stack' = low /\ pc' = IF u = Empty THEN "pop" ELSE "common"
    BY <1>5, <1>6, <1>7, <1>9 DEF Pop
  <1>11. g.s = u /\ Thinned(g, f)
    BY <1>8, <1>9 DEF Frame, Thinned
  <1>12. Stacked(stack)
    BY <1>2 DEF Answered, Splits
  <1>13. Stacked(low)
    <2>1. \A i \in DOMAIN low : i \in DOMAIN stack /\ Thinned(low[i], stack[i])
      BY <1>4, <1>5 DEF Thinned
    <2> QED
      BY <1>12, <2>1, ThinnedStacked
  <1>14. Stacked(Append(low, g))
    <2>1. PICK e : e = Append(low, g)
      OBVIOUS
    <2>2. DOMAIN e = 1 .. k /\ e[k] = g /\ \A i \in 1 .. k - 1 : e[i] = low[i]
      BY <1>5, <2>1 DEF IsSeq
    <2>3. ASSUME NEW i \in DOMAIN e PROVE Thinned(e[i], stack[i])
      <3>1. CASE i = k
        BY <1>6, <1>11, <2>2, <3>1
      <3>2. CASE i # k
        <4>1. i \in 1 .. k - 1
          BY <2>2, <3>2
        <4> QED
          BY <1>5, <2>2, <4>1 DEF Thinned
      <3> QED
        BY <3>1, <3>2
    <2>4. DOMAIN e \subseteq DOMAIN stack
      BY <1>4, <2>2
    <2> QED
      BY <1>12, <2>1, <2>3, <2>4, ThinnedStacked
  <1>15. pc' = "common" => Stacked(Append(stack', frame')) /\ DOMAIN frame'.s # {} /\ Ready(frame'.s) = {}
    <2>1. u # Empty => DOMAIN u # {}
      BY <1>8, EmptyIs DEF IsPhases
    <2> QED
      BY <1>8, <1>10, <1>11, <1>14, <2>1
  <1>16. pc' = "pop" => Stacked(stack')
    BY <1>10, <1>13
  <1>17. job.kind = "gray" => Invertible(wires')
    BY DEF Answered, Based, Pop
  <1> QED
    BY <1>1, <1>2, <1>15, <1>16, <1>17, AnsweredNext

(* A frame whose duals follow a CNOT.                                       *)
LEMMA FrameToggled ==
    ASSUME NEW N \in Nat, NEW c \in Wires(N), NEW t \in Wires(N), c # t, NEW f, IsFrame(f, N),
           NEW u, u = Unplaced(DualCx(f.s, c, t)), NEW g, g = [f EXCEPT !.s = u]
    PROVE  g.s = u /\ Toggled(g, f, c, t) /\ IsPhases(u, N) /\ Ready(u) = {}
  <1>1. IsPhases(f.s, N)
    BY DEF IsFrame, IsPhases
  <1>2. PICK d : d = DualCx(f.s, c, t) /\ IsPhases(d, N) /\ DOMAIN d = {Dual(y, c, t) : y \in DOMAIN f.s}
    BY <1>1, DualCxTyped
  <1>3. IsPhases(u, N) /\ DOMAIN u \subseteq DOMAIN d /\ Ready(u) = {}
    BY <1>2, UnplacedTyped, UnplacedIs
  <1>4. g = Frame(u, f.unused, f.target)
    BY <1>3, FrameHolds
  <1>5. g.s = u /\ g.unused = f.unused /\ g.target = f.target
    BY <1>4 DEF Frame
  <1> QED
    BY <1>2, <1>3, <1>5 DEF Toggled

(* The CNOT goes into the target of the frame.  A frame below has the same  *)
(* target, or it was not split on the other wire, which all duals have.     *)
LEMMA ShareAnswered == ASSUME TypeInv, Answered, Share PROVE Answered'
  <1>1. job' = job /\ job \in Jobs /\ n \in Nat /\ None \notin Nat
    BY JobStays, JobTyped DEF Share
  <1>2. pc = "common" /\ pc' \in {"pop", "common"} /\ job.kind = "gray"
    BY DEF Share, TypeInv, KindsFit
  <1>3. IsFrame(frame, n) /\ IsSeq(stack) /\ \A i \in DOMAIN stack : IsFrame(stack[i], n)
    BY <1>2 DEF TypeInv, FramesFit
  <1>4. PICK j \in Wires(n), t \in Wires(n) : j = LeastOf(Common(frame)) /\ t = frame.target /\ j # t /\ j \in Common(frame)
    BY <1>1, <1>2, <1>3, ShareWires DEF Share
  <1>5. t # None /\ \A y \in DOMAIN frame.s : j \in y
    BY <1>1, <1>4 DEF Common, Wires
  <1>6. PICK fs : fs = Append(stack, frame)
    OBVIOUS
  <1>7. PICK k \in Nat : k = Len(stack) /\ DOMAIN stack = 1 .. k /\ DOMAIN fs = 1 .. k + 1 /\ fs[k + 1] = frame /\ \A i \in 1 .. k : fs[i] = stack[i]
    <2>1. PICK k \in Nat : k = Len(stack)
      BY <1>3 DEF IsSeq
    <2> QED
      BY <1>3, <1>6, <2>1 DEF IsSeq
  <1>8. Stacked(fs) /\ DOMAIN frame.s # {}
    BY <1>2, <1>6 DEF Answered, Splits
  <1>9. \A i \in DOMAIN fs : IsFrame(fs[i], n)
    <2> SUFFICES ASSUME NEW i \in DOMAIN fs PROVE IsFrame(fs[i], n)
      OBVIOUS
    <2>1. CASE i = k + 1
      BY <1>3, <1>7, <2>1
    <2>2. CASE i # k + 1
      BY <1>3, <1>7, <2>2
    <2> QED
      BY <2>1, <2>2
  <1>10. ASSUME NEW i \in DOMAIN fs PROVE fs[i].target = t \/ j \in fs[i].unused
    <2>1. CASE i = k + 1
      BY <1>4, <1>7, <2>1
    <2>2. CASE i # k + 1
      <3>1. k + 1 \in DOMAIN fs /\ i < k + 1
        BY <1>7, <2>2
      <3>2. Over(fs[i], frame)
        BY <1>7, <1>8, <3>1 DEF Stacked
      <3>3. PICK y \in DOMAIN frame.s : TRUE
        BY <1>8
      <3> QED
        BY <1>4, <1>5, <3>2, <3>3 DEF Over
    <2> QED
      BY <2>1, <2>2
  <1>11. PICK gs : gs = [i \in DOMAIN fs |-> [fs[i] EXCEPT !.s = Unplaced(DualCx(fs[i].s, j, t))]]
    OBVIOUS
  <1>12. ASSUME NEW i \in DOMAIN fs
         PROVE  Toggled(gs[i], fs[i], j, t) /\ IsPhases(gs[i].s, n) /\ Ready(gs[i].s) = {}
    <2>1. IsFrame(fs[i], n)
      BY <1>9
    <2>2. PICK u : u = Unplaced(DualCx(fs[i].s, j, t))
      OBVIOUS
    <2>3. gs[i] = [fs[i] EXCEPT !.s = u]
      BY <1>11, <2>2
    <2> QED
      BY <1>1, <1>4, <2>1, <2>2, <2>3, FrameToggled
  <1>13. Stacked(gs)
    <2>1. DOMAIN gs = DOMAIN fs
      BY <1>11
    <2> QED
      BY <1>4, <1>5, <1>8, <1>10, <1>12, <2>1, ToggledStacked
  <1>14. stack' = [i \in 1 .. k |-> gs[i]] /\ frame' = gs[k + 1]
    <2>1. stack' = [i \in DOMAIN stack |-> [stack[i] EXCEPT !.s = Unplaced(DualCx(stack[i].s, j, t))]]
      BY <1>4 DEF Share
    <2>2. frame' = [frame EXCEPT !.s = Unplaced(DualCx(frame.s, j, t))]
      BY <1>4 DEF Share
    <2>3. k + 1 \in DOMAIN fs
      BY <1>7
    <2>4. gs[k + 1] = [fs[k + 1] EXCEPT !.s = Unplaced(DualCx(fs[k + 1].s, j, t))]
      BY <1>11, <2>3
    <2>5. \A i \in 1 .. k : gs[i] = [stack[i] EXCEPT !.s = Unplaced(DualCx(stack[i].s, j, t))]
      <3> SUFFICES ASSUME NEW i \in 1 .. k PROVE gs[i] = [stack[i] EXCEPT !.s = Unplaced(DualCx(stack[i].s, j, t))]
        OBVIOUS
      <3>1. i \in DOMAIN fs /\ fs[i] = stack[i]
        BY <1>7
      <3> QED
        BY <1>11, <3>1
    <2> QED
      BY <1>7, <2>1, <2>2, <2>4, <2>5
  <1>15. Append(stack', frame') = gs
    <2>1. PICK low : low = stack'
      OBVIOUS
    <2>2. PICK V : V = {gs[i] : i \in DOMAIN gs}
      OBVIOUS
    <2>3. DOMAIN gs = 1 .. k + 1 /\ gs = [i \in 1 .. k + 1 |-> gs[i]]
      BY <1>7, <1>11
    <2>4. \A i \in 1 .. k + 1 : gs[i] \in V
      BY <2>2, <2>3
    <2>5. low = [i \in 1 .. k |-> gs[i]] /\ \A i \in 1 .. k : low[i] \in V
      BY <1>14, <2>1, <2>4
    <2>6. low \in Seq(V) /\ Len(low) = k
      BY <2>5, ListIs
    <2>7. PICK x \in V : x = gs[k + 1] /\ x = frame'
      BY <1>14, <2>4
    <2>8. PICK e : e = Append(low, x)
      OBVIOUS
    <2>9. e = [i \in 1 .. k + 1 |-> e[i]] /\ e[k + 1] = x /\ \A i \in 1 .. k : e[i] = low[i]
      <3>1. e \in Seq(V) /\ Len(e) = k + 1
        BY <2>6, <2>8
      <3>2. e[k + 1] = x /\ \A i \in 1 .. k : e[i] = low[i]
        BY <2>6, <2>8
      <3>3. e = [i \in 1 .. k + 1 |-> e[i]]
        BY <3>1
      <3> QED
        BY <3>2, <3>3
    <2>10. \A i \in 1 .. k + 1 : e[i] = gs[i]
      <3> SUFFICES ASSUME NEW i \in 1 .. k + 1 PROVE e[i] = gs[i]
        OBVIOUS
      <3>1. CASE i = k + 1
        BY <2>7, <2>9, <3>1
      <3>2. CASE i # k + 1
        <4>1. i \in 1 .. k
          BY <3>2
        <4> QED
          BY <2>5, <2>9, <4>1
      <3> QED
        BY <3>1, <3>2
    <2>11. e = gs
      BY <2>3, <2>9, <2>10
    <2> QED
      BY <2>1, <2>7, <2>8, <2>11
  <1>16. pc' = "pop" => Stacked(stack')
    <2>1. \A i \in DOMAIN stack' : i \in DOMAIN gs /\ Thinned(stack'[i], gs[i])
      BY <1>7, <1>11, <1>14 DEF Thinned
    <2> QED
      BY <1>13, <2>1, ThinnedStacked
  <1>17. pc' = "common" => Stacked(Append(stack', frame')) /\ DOMAIN frame'.s # {} /\ Ready(frame'.s) = {}
    <2>1. k + 1 \in DOMAIN fs
      BY <1>7
    <2>2. IsPhases(frame'.s, n) /\ Ready(frame'.s) = {}
      BY <1>12, <1>14, <2>1
    <2>3. pc' = "common" => frame'.s # Empty
      <3>1. PICK u : u = Unplaced(DualCx(frame.s, j, t))
        OBVIOUS
      <3>2. frame' = [frame EXCEPT !.s = u] /\ (pc' = "common" => u # Empty)
        BY <1>4, <3>1 DEF Share
      <3>3. frame'.s = u
        BY <1>1, <1>3, <1>4, <3>1, <3>2, FrameToggled
      <3> QED
        BY <3>2, <3>3
    <2> QED
      BY <1>13, <1>15, <2>2, <2>3, EmptyIs DEF IsPhases
  <1>18. Invertible(wires')
    <2>1. wires \in Mat(n) /\ Invertible(wires) /\ wires' = AddRow(wires, j, t)
      BY <1>2, <1>4 DEF TypeInv, WiresFit, Answered, Based, Share
    <2> QED
      BY <1>1, <1>4, <2>1, AddRowInvertible
  <1> QED
    BY <1>1, <1>2, <1>16, <1>17, <1>18, AnsweredNext

(* A frame whose duals have no wire in common has a wire left to split on:  *)
(* with none left, they would all be one dual, of the target alone.         *)
LEMMA FrameSplits ==
    ASSUME NEW N \in Nat, N = n, None \notin Nat, NEW f, IsFrame(f, N), Agreed(f),
           DOMAIN f.s # {}, Ready(f.s) = {}, Common(f) = {}
    PROVE  f.unused # {}
  <1> SUFFICES ASSUME f.unused = {} PROVE FALSE
    OBVIOUS
  <1>1. PICK y \in DOMAIN f.s : y \in Parity(N)
    BY DEF IsFrame
  <1>2. f.target # None
    <2> SUFFICES ASSUME f.target = None PROVE FALSE
      OBVIOUS
    <2>1. y \subseteq {}
      BY DEF Agreed
    <2> QED
      BY <1>1, <2>1 DEF Parity
  <1>3. f.target \in y /\ \A z \in DOMAIN f.s : z = y
    BY <1>2 DEF Agreed
  <1>4. ASSUME NEW j \in y PROVE j = f.target
    <2>1. j \in Wires(n)
      BY <1>1 DEF Parity
    <2>2. j \notin Common(f)
      OBVIOUS
    <2> QED
      BY <1>1, <1>2, <1>3, <2>1, <2>2 DEF Common
  <1>5. y = {f.target}
    BY <1>3, <1>4
  <1>6. Cardinality(y) = 1
    BY <1>5, FS_Singleton
  <1> QED
    BY <1>1, <1>6 DEF Ready

(* The two halves of a frame split on j.                                    *)
LEMMA HalvesAgreed ==
    ASSUME NEW f, Agreed(f), NEW j \in f.unused, j # None,
           NEW one, one.unused = f.unused \ {j}, one.target = IF f.target = None THEN j ELSE f.target,
           DOMAIN one.s = {y \in DOMAIN f.s : j \in y},
           NEW nil, nil.unused = f.unused \ {j}, nil.target = f.target,
           DOMAIN nil.s = {y \in DOMAIN f.s : j \notin y}
    PROVE  /\ Agreed(one) /\ Agreed(nil) /\ Over(one, nil)
           /\ \A h : Over(h, f) => Over(h, one) /\ Over(h, nil)
  <1>1. CASE f.target = None
    <2>1. \A y \in DOMAIN f.s : y \subseteq f.unused
      BY <1>1 DEF Agreed
    <2>2. one.target = j /\ nil.target = None
      BY <1>1
    <2>3. Agreed(one)
      <3>1. \A y \in DOMAIN one.s : j \in y /\ y \ one.unused = {j}
        BY <2>1
      <3> QED
        BY <2>2, <3>1 DEF Agreed
    <2>4. (\A y \in DOMAIN nil.s : y \subseteq f.unused \ {j})
      BY <2>1
    <2>5. Agreed(nil) /\ Over(one, nil)
      BY <2>2, <2>4 DEF Agreed, Over
    <2>6. ASSUME NEW h, Over(h, f) PROVE Over(h, one) /\ Over(h, nil)
      <3>1. h.target # None /\ f.unused \subseteq h.unused /\ \A y \in DOMAIN f.s : y \subseteq h.unused
        BY <1>1, <2>6 DEF Over
      <3> QED
        BY <2>2, <3>1 DEF Over
    <2> QED
      BY <2>3, <2>5, <2>6
  <1>2. CASE f.target # None
    <2>1. one.target = f.target /\ nil.target = f.target
      BY <1>2
    <2>2. f.target \notin f.unused /\ \A y \in DOMAIN f.s : f.target \in y
      BY <1>2 DEF Agreed
    <2>3. ASSUME NEW y \in DOMAIN f.s, NEW z \in DOMAIN f.s, j \in y <=> j \in z
          PROVE  y \ (f.unused \ {j}) = z \ (f.unused \ {j})
      <3>1. y \ f.unused = z \ f.unused
        BY <1>2 DEF Agreed
      <3> QED
        BY <2>3, <3>1
    <2>4. Agreed(one) /\ Agreed(nil)
      BY <1>2, <2>1, <2>2, <2>3 DEF Agreed
    <2>5. Over(one, nil)
      BY <1>2, <2>1 DEF Over
    <2>6. ASSUME NEW h, Over(h, f) PROVE Over(h, one) /\ Over(h, nil)
      BY <2>1, <2>6 DEF Over
    <2> QED
      BY <2>4, <2>5, <2>6
  <1> QED
    BY <1>1, <1>2

(* Both halves go on the stack, or the one that has duals.                  *)
LEMMA SplitAnswered == ASSUME TypeInv, Answered, Split PROVE Answered'
  <1>1. job' = job /\ job \in Jobs /\ n \in Nat /\ None \notin Nat
    BY JobStays, JobTyped DEF Split
  <1>2. pc = "common" /\ Common(frame) = {}
    BY DEF Split
  <1>3. IsFrame(frame, n) /\ AllFrames(stack, n) /\ IsSeq(stack)
    BY <1>2 DEF TypeInv, FramesFit, AllFrames
  <1>4. Stacked(stack) /\ Agreed(frame) /\ \A i \in DOMAIN stack : Over(stack[i], frame)
    BY <1>2, <1>3, StackedLess DEF Answered, Splits
  <1>5. frame.unused # {}
    BY <1>1, <1>2, <1>3, <1>4, FrameSplits DEF Answered, Splits
  <1>6. PICK j \in Wires(n) : j = Best(frame) /\ j \in frame.unused /\ j # None
    BY <1>1, <1>3, <1>5, BestIs DEF IsFrame, Wires
  <1>7. PICK O : O = {y \in DOMAIN frame.s : j \in y}
    OBVIOUS
  <1>8. PICK up : up = IF frame.target = None THEN j ELSE frame.target
    OBVIOUS
  <1>9. PICK one : one = Frame([y \in O |-> frame.s[y]], frame.unused \ {j}, up)
    OBVIOUS
  <1>10. PICK nil : nil = Frame([y \in DOMAIN frame.s \ O |-> frame.s[y]], frame.unused \ {j}, frame.target)
    OBVIOUS
  <1>11. /\ Agreed(one) /\ Agreed(nil) /\ Over(one, nil)
         /\ \A h : Over(h, frame) => Over(h, one) /\ Over(h, nil)
    <2>1. one.unused = frame.unused \ {j} /\ one.target = up /\ DOMAIN one.s = O
      BY <1>9 DEF Frame
    <2>2. nil.unused = frame.unused \ {j} /\ nil.target = frame.target /\ DOMAIN nil.s = DOMAIN frame.s \ O
      BY <1>10 DEF Frame
    <2>3. DOMAIN frame.s \ O = {y \in DOMAIN frame.s : j \notin y}
      BY <1>7
    <2> QED
      BY <1>4, <1>6, <1>7, <1>8, <2>1, <2>2, <2>3, HalvesAgreed
  <1>12. PICK first : first = IF O = {} THEN << >> ELSE <<one>>
    OBVIOUS
  <1>13. PICK second : second = IF DOMAIN frame.s \ O = {} THEN << >> ELSE <<nil>>
    OBVIOUS
  <1>14. stack' = stack \o first \o second /\ pc' = "pop"
    BY <1>5, <1>6, <1>7, <1>8, <1>9, <1>10, <1>12, <1>13, StrictSame DEF Split
  <1>15. PICK s : s = stack \o first /\ IsSeq(s) /\ Stacked(s) /\ \A i \in DOMAIN s : Over(s[i], nil)
    <2>1. CASE O = {}
      BY <1>3, <1>4, <1>11, <1>12, <2>1, ConcatOne
    <2>2. CASE O # {}
      <3>1. stack \o first = Append(stack, one)
        BY <1>3, <1>12, <2>2, ConcatOne
      <3>2. PICK s : s = Append(stack, one)
        OBVIOUS
      <3>3. Stacked(s)
        BY <1>3, <1>4, <1>11, <3>2, StackedMore
      <3>4. PICK k \in Nat : k = Len(stack) /\ DOMAIN stack = 1 .. k
        BY <1>3 DEF IsSeq
      <3>5. DOMAIN s = 1 .. k + 1 /\ s[k + 1] = one /\ \A i \in 1 .. k : s[i] = stack[i]
        BY <1>3, <3>2, <3>4 DEF IsSeq
      <3>6. ASSUME NEW i \in DOMAIN s PROVE Over(s[i], nil)
        <4>1. CASE i = k + 1
          BY <1>11, <3>5, <4>1
        <4>2. CASE i # k + 1
          <5>1. i \in 1 .. k
            BY <3>5, <4>2
          <5> QED
            BY <1>4, <1>11, <3>4, <3>5, <5>1
        <4> QED
          BY <4>1, <4>2
      <3>7. IsSeq(s)
        <4>1. PICK A : stack \in Seq(A)
          BY <1>3 DEF IsSeq
        <4>2. stack \in Seq(A \cup {one}) /\ one \in A \cup {one}
          BY <4>1
        <4>3. s \in Seq(A \cup {one})
          BY <3>2, <4>2
        <4> QED
          BY <4>3 DEF IsSeq
      <3> QED
        BY <3>1, <3>2, <3>3, <3>6, <3>7
    <2> QED
      BY <2>1, <2>2
  <1>16. Stacked(stack')
    <2>1. stack' = s \o second
      BY <1>14, <1>15
    <2>2. CASE DOMAIN frame.s \ O = {}
      BY <1>13, <1>15, <2>1, <2>2, ConcatOne
    <2>3. CASE DOMAIN frame.s \ O # {}
      <3>1. stack' = Append(s, nil)
        BY <1>13, <1>15, <2>1, <2>3, ConcatOne
      <3> QED
        BY <1>11, <1>15, <3>1, StackedMore
    <2> QED
      BY <2>2, <2>3
  <1>17. job.kind = "gray" => Invertible(wires')
    BY DEF Answered, Based, Split
  <1> QED
    BY <1>1, <1>14, <1>16, <1>17, AnsweredNext

(* The wires are a basis, so what is left of the map is found.              *)
LEMMA GrayRestAnswered == ASSUME TypeInv, Answered, GrayRest PROVE Answered'
  <1>1. job' = job /\ job \in Jobs /\ n \in Nat /\ wires' = wires
    BY JobStays DEF GrayRest
  <1>2. pc = "pop" /\ job.kind = "gray"
    BY DEF GrayRest, TypeInv, KindsFit
  <1>3. wires \in Mat(n) /\ Invertible(wires)
    BY <1>2 DEF TypeInv, WiresFit, Answered, Based
  <1>4. Target \in Mat(n)
    <2>1. Synthesizable
      BY <1>2 DEF TypeInv, KindsFit, Admitted
    <2> QED
      BY <1>1, <2>1, TargetTyped DEF Synthesizable
  <1>5. ASSUME NEW q \in Wires(n) PROVE Solve(wires, n, Target[q]).rhs = {}
    <2>1. PICK parity \in SUBSET Wires(n) : parity = Target[q]
      BY <1>4 DEF Mat
    <2> QED
      BY <1>1, <1>3, <2>1, SolveSolves
  <1>6. pc' = "lower"
    BY <1>5 DEF GrayRest, Solvable
  <1> QED
    BY <1>1, <1>6, RestAnswered

(* The lower pass of an invertible map places every diagonal one.           *)
LEMMA LowerAnswered == ASSUME TypeInv, Answered, Lower PROVE Answered'
  <1>1. job' = job /\ job \in Jobs /\ n \in Nat /\ (job.size # None => job.size \in Nat /\ job.kind = "matrix")
    BY JobStays, JobTyped DEF Lower
  <1>2. PICK m \in Mat(n) : m = pass.m
    BY DEF Lower, TypeInv, PassFits
  <1>3. Size \in Nat \ {0}
    BY <1>1, SizeTyped
  <1>4. PICK done : done = LowerPass(m, n, Size)
    OBVIOUS
  <1>5. pass' = [m |-> Transpose(done.m), want |-> m, lower |-> done.ops]
    BY <1>2, <1>4 DEF Lower, TypeInv, PassFits
  <1>6. pc' = IF UnitDiagonal(done.m) THEN "upper" ELSE Failed
    BY <1>2, <1>4 DEF Lower
  <1>7. Invertible(m) => UnitDiagonal(done.m)
    <2>1. PICK D : D = LowerPass(Transpose(done.m), n, Size)
      OBVIOUS
    <2> QED
      BY <1>1, <1>3, <1>4, <2>1, StitchRight
  <1>8. Failed \in {"fallback", "refused"} /\ (Failed = "refused" => job.kind = "matrix")
    BY <1>1 DEF Failed
  <1>9. pc' = "upper" => /\ pass'.m = Transpose(LowerPass(pass'.want, n, Size).m)
                         /\ pass'.lower = LowerPass(pass'.want, n, Size).ops
    BY <1>4, <1>5
  <1>10. pc' = "fallback" \/ (pc' = "refused" /\ job.kind = "matrix") => ~Invertible(pass'.want)
    BY <1>5, <1>6, <1>7
  <1>11. pc' \in {"upper", "fallback", "refused"} /\ (pc' = "refused" => job.kind = "matrix")
    BY <1>6, <1>8
  <1>12. job.kind = "gray" => Invertible(wires')
    BY DEF Answered, Based, Lower
  <1> QED
    BY <1>1, <1>9, <1>10, <1>11, <1>12, AnsweredNext

(* The circuit of an invertible map passes the check.                       *)
LEMMA UpperAnswered == ASSUME TypeInv, Answered, Upper PROVE Answered'
  <1>1. job' = job /\ job \in Jobs /\ n \in Nat /\ (job.size # None => job.size \in Nat /\ job.kind = "matrix")
    BY JobStays, JobTyped DEF Upper
  <1>2. pc = "upper" /\ pass' = pass /\ wires' = wires
    BY DEF Upper
  <1>3. PICK want \in Mat(n) : want = pass.want
    BY <1>2 DEF TypeInv, PassFits
  <1>4. Size \in Nat \ {0}
    BY <1>1, SizeTyped
  <1>5. PICK low : low = LowerPass(want, n, Size)
    OBVIOUS
  <1>6. pass.m = Transpose(low.m) /\ pass.lower = low.ops
    BY <1>2, <1>3, <1>5 DEF Answered, Passes
  <1>7. PICK done : done = LowerPass(Transpose(low.m), n, Size)
    OBVIOUS
  <1>8. PICK cnots : cnots = Stitch(low.ops, done.ops)
    OBVIOUS
  <1>9. PICK right \in BOOLEAN : right <=> (UnitDiagonal(done.m) /\ ApplyCnots(IdentityMap(n), cnots) = want)
    OBVIOUS
  <1>10. Invertible(want) => right
    BY <1>1, <1>4, <1>5, <1>7, <1>8, <1>9, StitchRight
  <1>11. IF right THEN Emit(cnots) ELSE pc' = Failed
    BY <1>3, <1>6, <1>7, <1>8, <1>9 DEF Upper
  <1>12. CASE right
    <2>1. pc' \in {"done", "costly"}
      BY <1>11, <1>12 DEF Emit
    <2> QED
      BY <1>1, <1>2, <2>1, RestAnswered
  <1>13. CASE ~right
    <2>1. pc' \in {"fallback", "refused"} /\ (pc' = "refused" => job.kind = "matrix")
      BY <1>1, <1>11, <1>13 DEF Failed
    <2>2. ~Invertible(pass'.want)
      BY <1>2, <1>3, <1>10, <1>13
    <2>3. job.kind = "gray" => Invertible(wires')
      BY <1>2 DEF Answered, Based
    <2> QED
      BY <1>1, <2>1, <2>2, <2>3, AnsweredNext
  <1> QED
    BY <1>12, <1>13

(* The steps of the Steiner synthesizer refuse nothing.                     *)
LEMMA SteinerAnswered == ASSUME TypeInv, Answered, PickTerm \/ FoldIn \/ Rotate \/ SteinerRest PROVE Answered'
  <1>1. job' = job /\ pc \in {"terms", "tree"} /\ pc' \in {"terms", "tree", "lower"}
    BY DEF PickTerm, FoldIn, Rotate, SteinerRest
  <1>2. job.kind # "gray"
    BY <1>1 DEF TypeInv, KindsFit
  <1> QED
    BY <1>1, <1>2, RestAnswered

(* The fallback answers.                                                    *)
LEMMA FallbackAnswered == ASSUME TypeInv, Answered, Fallback PROVE Answered'
  <1>1. job' = job /\ wires' = wires /\ pc' \in {"done", "costly"}
    BY DEF Fallback, Emit
  <1> QED
    BY <1>1, RestAnswered

(* Nothing changes.                                                         *)
LEMMA StutterAnswered == ASSUME TypeInv, Answered, UNCHANGED vars PROVE Answered'
  <1>1. job' = job /\ pc' = pc /\ coeff' = coeff /\ wires' = wires /\ stack' = stack /\ frame' = frame /\ pass' = pass
    BY DEF vars
  <1> QED
    BY <1>1, AnsweredNext DEF Answered, Splits, Based, Narrow, Refusals, Passes

(* Each step of a call keeps it answered.                                   *)
LEMMA StepAnswered == TypeInv /\ Answered /\ [Next]_vars => Answered'
  <1> SUFFICES ASSUME TypeInv, Answered, [Next]_vars PROVE Answered'
    OBVIOUS
  <1>1. CASE Start
    BY <1>1, StartAnswered
  <1>2. CASE Lift
    BY <1>2, LiftAnswered
  <1>3. CASE Lifted
    BY <1>3, LiftedAnswered
  <1>4. CASE Pop
    BY <1>4, PopAnswered
  <1>5. CASE Share
    BY <1>5, ShareAnswered
  <1>6. CASE Split
    BY <1>6, SplitAnswered
  <1>7. CASE GrayRest
    BY <1>7, GrayRestAnswered
  <1>8. CASE PickTerm \/ FoldIn \/ Rotate \/ SteinerRest
    BY <1>8, SteinerAnswered
  <1>9. CASE Lower
    BY <1>9, LowerAnswered
  <1>10. CASE Upper
    BY <1>10, UpperAnswered
  <1>11. CASE Fallback
    BY <1>11, FallbackAnswered
  <1>12. CASE UNCHANGED vars
    BY <1>12, StutterAnswered
  <1>13. CASE Stop
    BY <1>13, StutterAnswered DEF Stop
  <1> QED
    BY <1>1, <1>2, <1>3, <1>4, <1>5, <1>6, <1>7, <1>8, <1>9, <1>10, <1>11, <1>12, <1>13 DEF Next

(* Where the lift expands the monomials of every call, an admitted call is  *)
(* answered, and Gauss-Jordan is for the maps that no circuit has.          *)
THEOREM AdmittedAnswered == Liftable => (Spec => []AlwaysAnswers)
  <1> SUFFICES ASSUME Liftable PROVE Spec => []AlwaysAnswers
    OBVIOUS
  <1>1. Init => TypeInv /\ Answered
    BY InitTypeInv, InitAnswered
  <1>2. (TypeInv /\ Answered) /\ [Next]_vars => (TypeInv /\ Answered)'
    BY StepTypeInv, StepAnswered
  <1>3. TypeInv /\ Answered => AlwaysAnswers
    BY AnsweredAnswers
  <1> QED
    BY <1>1, <1>2, <1>3, PTL DEF Spec

(* The rows gray_solve comes up with add up to the parity.                  *)
LEMMA SolveRight ==
    ASSUME NEW N \in Nat, NEW m \in Mat(N), NEW parity \in SUBSET Wires(N), Solve(m, N, parity).rhs = {}
    PROVE  Sum(m, Solve(m, N, parity).combo) = parity
  <1>1. PICK g \in [0 .. N -> Solver(N)] :
             /\ g[0] = [m |-> m, of |-> IdentityMap(N), used |-> {}, rhs |-> parity, combo |-> {}]
             /\ \A i \in 0 .. N - 1 : g[i + 1] = SolveBit(g[i], i)
             /\ Solve(m, N, parity) = g[N]
    BY SolveRuns
  <1> DEFINE Fits(a) == /\ \A i \in Wires(N) : Sum(m, a.of[i]) = a.m[i]
                        /\ SymDiff(Sum(m, a.combo), a.rhs) = parity
             P == {i \in 0 .. N : Fits(g[i])}
  <1>2. 0 \in P
    <2>1. g[0].m = m /\ g[0].of = IdentityMap(N) /\ g[0].rhs = parity /\ g[0].combo = {}
      BY <1>1
    <2>2. ASSUME NEW i \in Wires(N) PROVE Sum(m, IdentityMap(N)[i]) = m[i]
      <3>1. IdentityMap(N)[i] = {i}
        BY IdentityTyped
      <3>2. Sum(m, {i}) = m[i]
        BY SumOfOne
      <3> QED
        BY <3>1, <3>2
    <2>3. Sum(m, {}) = {}
      BY SumWithin
    <2>4. SymDiff({}, parity) = parity
      BY DEF SymDiff
    <2>5. Fits(g[0])
      BY <2>1, <2>2, <2>3, <2>4
    <2> QED
      BY <2>5
  <1>3. ASSUME NEW b \in 0 .. N - 1, b \in P PROVE b + 1 \in P
    <2>1. b \in Wires(N) /\ b + 1 \in 0 .. N
      BY DEF Wires
    <2>2. PICK a \in Solver(N) : a = g[b] /\ Fits(a)
      BY <1>3
    <2>3. /\ a.m \in Mat(N) /\ a.of \in Mat(N) /\ a.rhs \in SUBSET Wires(N) /\ a.combo \in SUBSET Wires(N)
          /\ DOMAIN a.m = Wires(N)
      BY DEF Solver, Mat
    <2>4. g[b + 1] = SolveBit(a, b)
      BY <1>1, <2>2
    <2>5. CASE Free(a, b) = {}
      <3>1. SolveBit(a, b) = a
        BY <2>5 DEF SolveBit, Free
      <3> QED
        BY <2>1, <2>2, <2>4, <3>1
    <2>6. CASE Free(a, b) # {}
      <3>0. \E p \in Free(a, b), z \in Solver(N) :
                 /\ z = SolveBit(a, b)
                 /\ p \in Wires(N) /\ p \notin a.used /\ b \in a.m[p]
                 /\ \A i \in Wires(N) :
                      /\ z.m[i] = IF i \in Free(a, b) \ {p} THEN SymDiff(a.m[i], a.m[p]) ELSE a.m[i]
                      /\ z.of[i] = IF i \in Free(a, b) \ {p} THEN SymDiff(a.of[i], a.of[p]) ELSE a.of[i]
                 /\ z.used = a.used \cup {p}
                 /\ z.rhs = IF b \in a.rhs THEN SymDiff(a.rhs, a.m[p]) ELSE a.rhs
                 /\ z.combo = IF b \in a.rhs THEN SymDiff(a.combo, a.of[p]) ELSE a.combo
        BY <2>1, <2>6, SolveBitIs
      <3>1. PICK p \in Free(a, b), z \in Solver(N) :
                 /\ z = SolveBit(a, b)
                 /\ p \in Wires(N)
                 /\ \A i \in Wires(N) :
                      /\ z.m[i] = IF i \in Free(a, b) \ {p} THEN SymDiff(a.m[i], a.m[p]) ELSE a.m[i]
                      /\ z.of[i] = IF i \in Free(a, b) \ {p} THEN SymDiff(a.of[i], a.of[p]) ELSE a.of[i]
                 /\ z.rhs = IF b \in a.rhs THEN SymDiff(a.rhs, a.m[p]) ELSE a.rhs
                 /\ z.combo = IF b \in a.rhs THEN SymDiff(a.combo, a.of[p]) ELSE a.combo
        BY <3>0
      <3>2. \A i \in Wires(N) : a.of[i] \in SUBSET Wires(N) /\ a.m[i] \in SUBSET Wires(N)
        BY <2>3 DEF Mat
      <3>3. ASSUME NEW i \in Wires(N) PROVE Sum(m, z.of[i]) = z.m[i]
        <4>1. Sum(m, SymDiff(a.of[i], a.of[p])) = SymDiff(Sum(m, a.of[i]), Sum(m, a.of[p]))
          BY <3>1, <3>2, SumAdds
        <4>2. Sum(m, a.of[i]) = a.m[i] /\ Sum(m, a.of[p]) = a.m[p]
          BY <2>2, <3>1
        <4> QED
          BY <3>1, <4>1, <4>2
      <3>4. SymDiff(Sum(m, z.combo), z.rhs) = parity
        <4>1. CASE b \in a.rhs
          <5>1. Sum(m, z.combo) = SymDiff(Sum(m, a.combo), a.m[p])
            <6>1. Sum(m, SymDiff(a.combo, a.of[p])) = SymDiff(Sum(m, a.combo), Sum(m, a.of[p]))
              BY <2>3, <3>1, <3>2, SumAdds
            <6> QED
              BY <2>2, <3>1, <4>1, <6>1
          <5>2. z.rhs = SymDiff(a.rhs, a.m[p])
            BY <3>1, <4>1
          <5>3. SymDiff(Sum(m, a.combo), a.rhs) = parity
            BY <2>2
          <5> QED
            BY <5>1, <5>2, <5>3 DEF SymDiff
        <4>2. CASE b \notin a.rhs
          BY <2>2, <3>1, <4>2
        <4> QED
          BY <4>1, <4>2
      <3>5. Fits(g[b + 1])
        BY <2>4, <3>1, <3>3, <3>4
      <3> QED
        BY <2>1, <3>5
    <2> QED
      BY <2>5, <2>6
  <1> HIDE DEF P
  <1>4. 0 \in Nat /\ 0 <= N
    OBVIOUS
  <1>5. N \in P
    BY <1>2, <1>3, <1>4, ClimbsTo
  <1>6. SymDiff(Sum(m, g[N].combo), {}) = parity
    BY <1>1, <1>5 DEF P
  <1> QED
    BY <1>1, <1>6 DEF SymDiff

(* A sum of rows that are themselves sums of the wires.                     *)
LEMMA SumOfSums ==
    ASSUME NEW N \in Nat, NEW w \in Mat(N), NEW r \in Mat(N), NEW t \in Mat(N),
           \A q \in Wires(N) : Sum(w, r[q]) = t[q], NEW y \in SUBSET Wires(N)
    PROVE  Sum(w, Sum(r, y)) = Sum(t, y)
  <1> DEFINE P == {i \in 0 .. N : \A z \in SUBSET (0 .. i - 1) : Sum(w, Sum(r, z)) = Sum(t, z)}
  <1>1. \A m \in Mat(N) : Sum(m, {}) = {}
    BY SumWithin
  <1>2. 0 \in P
    <2>1. \A z \in SUBSET (0 .. 0 - 1) : z = {}
      OBVIOUS
    <2>2. Sum(w, Sum(r, {})) = Sum(t, {})
      BY <1>1
    <2>3. 0 \in 0 .. N
      OBVIOUS
    <2> QED
      BY <2>1, <2>2, <2>3
  <1>3. ASSUME NEW i \in 0 .. N - 1, i \in P PROVE i + 1 \in P
    <2>1. i + 1 \in 0 .. N /\ i \in Wires(N) /\ 0 .. (i + 1) - 1 = (0 .. i - 1) \cup {i} /\ 0 .. i - 1 \subseteq Wires(N)
      BY DEF Wires
    <2>2. ASSUME NEW z \in SUBSET (0 .. (i + 1) - 1) PROVE Sum(w, Sum(r, z)) = Sum(t, z)
      <3>1. CASE i \notin z
        <4>1. z \in SUBSET (0 .. i - 1)
          BY <2>1, <3>1
        <4> QED
          BY <1>3, <4>1
      <3>2. CASE i \in z
        <4>1. PICK x \in SUBSET (0 .. i - 1) : x = z \ {i}
          BY <2>1
        <4>2. z = SymDiff(x, {i}) /\ x \in SUBSET Wires(N) /\ {i} \in SUBSET Wires(N)
          BY <2>1, <3>2, <4>1 DEF SymDiff
        <4>3. Sum(r, z) = SymDiff(Sum(r, x), r[i]) /\ Sum(t, z) = SymDiff(Sum(t, x), t[i])
          <5>1. Sum(r, SymDiff(x, {i})) = SymDiff(Sum(r, x), Sum(r, {i}))
            BY <4>2, SumAdds
          <5>2. Sum(t, SymDiff(x, {i})) = SymDiff(Sum(t, x), Sum(t, {i}))
            BY <4>2, SumAdds
          <5>3. Sum(r, {i}) = r[i] /\ Sum(t, {i}) = t[i]
            BY <2>1, SumOfOne
          <5> QED
            BY <4>2, <5>1, <5>2, <5>3
        <4>4. Sum(r, x) \in SUBSET Wires(N) /\ r[i] \in SUBSET Wires(N)
          BY <2>1, SumIs DEF Mat
        <4>5. Sum(w, SymDiff(Sum(r, x), r[i])) = SymDiff(Sum(w, Sum(r, x)), Sum(w, r[i]))
          BY <4>4, SumAdds
        <4>6. Sum(w, Sum(r, x)) = Sum(t, x) /\ Sum(w, r[i]) = t[i]
          BY <1>3, <2>1, <4>1
        <4> QED
          BY <4>3, <4>5, <4>6
      <3> QED
        BY <3>1, <3>2
    <2> QED
      BY <2>1, <2>2
  <1> HIDE DEF P
  <1>4. 0 \in Nat /\ 0 <= N
    OBVIOUS
  <1>5. N \in P
    BY <1>2, <1>3, <1>4, ClimbsTo
  <1> QED
    BY <1>5 DEF P, Wires

(* So the rows of an invertible map are an invertible map of the wires.     *)
LEMMA FactorInvertible ==
    ASSUME NEW N \in Nat, NEW w \in Mat(N), NEW r \in Mat(N), NEW t \in Mat(N),
           \A q \in Wires(N) : Sum(w, r[q]) = t[q], Invertible(t)
    PROVE  Invertible(r)
  <1>1. DOMAIN r = Wires(N) /\ DOMAIN t = Wires(N)
    BY DEF Mat
  <1>2. ASSUME NEW y \in (SUBSET Wires(N)) \ {{}} PROVE Sum(r, y) # {}
    <2>1. Sum(w, Sum(r, y)) = Sum(t, y) /\ Sum(t, y) # {}
      BY <1>1, SumOfSums DEF Invertible
    <2>2. Sum(w, {}) = {}
      BY SumWithin
    <2> QED
      BY <2>1, <2>2
  <1> QED
    BY <1>1, <1>2 DEF Invertible

(* What a circuit makes of the wires, by what it makes of the identity.     *)
LEMMA CircuitOfWires ==
    ASSUME NEW N \in Nat, NEW w \in Mat(N), NEW cnots \in Seq(Gates(N)), NEW q \in Wires(N)
    PROVE  ApplyCnots(w, cnots)[q] = Sum(w, ApplyCnots(IdentityMap(N), cnots)[q])
  <1>1. PICK I \in Mat(N) : I = IdentityMap(N) /\ \A x \in Wires(N) : I[x] = {x}
    BY IdentityTyped
  <1>2. PICK f : Stages(f, w, cnots, N) /\ ApplyCnots(w, cnots) = f[Len(cnots) + 1]
    BY StagesExist
  <1>3. PICK h : Stages(h, I, cnots, N) /\ ApplyCnots(I, cnots) = h[Len(cnots) + 1]
    BY StagesExist
  <1>4. PICK k \in Nat : k = Len(cnots) + 1 /\ 1 \in Nat /\ 1 <= k /\ 1 .. k - 1 = 1 .. Len(cnots)
    OBVIOUS
  <1> DEFINE P == {i \in 1 .. k : \A x \in Wires(N) : f[i][x] = Sum(w, h[i][x])}
  <1>5. 1 \in P
    <2>1. f[1] = w /\ h[1] = I
      BY <1>2, <1>3 DEF Stages
    <2>2. ASSUME NEW x \in Wires(N) PROVE w[x] = Sum(w, I[x])
      <3>1. I[x] = {x}
        BY <1>1
      <3>2. Sum(w, {x}) = w[x]
        BY SumOfOne
      <3> QED
        BY <3>1, <3>2
    <2> QED
      BY <1>4, <2>1, <2>2
  <1>6. ASSUME NEW i \in 1 .. k - 1, i \in P PROVE i + 1 \in P
    <2>1. i \in 1 .. Len(cnots) /\ i + 1 \in 1 .. k
      BY <1>4
    <2>2. PICK c \in Wires(N), t \in Wires(N) : cnots[i] = <<c, t>> /\ c # t
      <3>1. cnots[i] \in Gates(N)
        BY <2>1
      <3> QED
        BY <3>1 DEF Gates
    <2>3. PICK a \in Mat(N) : a = f[i]
      BY <1>2, <2>1 DEF Stages
    <2>4. PICK b \in Mat(N) : b = h[i]
      BY <1>3, <2>1 DEF Stages
    <2>5. f[i + 1] = AddRow(a, c, t) /\ h[i + 1] = AddRow(b, c, t)
      <3>1. f[i + 1] = Apply(a, <<c, t>>)
        BY <1>2, <2>1, <2>2, <2>3 DEF Stages
      <3>2. h[i + 1] = Apply(b, <<c, t>>)
        BY <1>3, <2>1, <2>2, <2>4 DEF Stages
      <3> QED
        BY <3>1, <3>2 DEF Apply
    <2>6. ASSUME NEW x \in Wires(N) PROVE f[i + 1][x] = Sum(w, h[i + 1][x])
      <3>1. a[x] = Sum(w, b[x]) /\ a[c] = Sum(w, b[c]) /\ a[t] = Sum(w, b[t])
        BY <1>6, <2>3, <2>4
      <3>2. b[c] \in SUBSET Wires(N) /\ b[t] \in SUBSET Wires(N)
        BY DEF Mat
      <3>3. Sum(w, SymDiff(b[t], b[c])) = SymDiff(Sum(w, b[t]), Sum(w, b[c]))
        BY <3>2, SumAdds
      <3>4. /\ AddRow(a, c, t)[x] = IF x = t THEN SymDiff(a[t], a[c]) ELSE a[x]
            /\ AddRow(b, c, t)[x] = IF x = t THEN SymDiff(b[t], b[c]) ELSE b[x]
        BY AddRowTyped
      <3> QED
        BY <2>5, <3>1, <3>3, <3>4
    <2> QED
      BY <2>1, <2>6
  <1> HIDE DEF P
  <1>7. k \in P
    BY <1>4, <1>5, <1>6, ClimbsTo
  <1> QED
    BY <1>1, <1>2, <1>3, <1>4, <1>7 DEF P

(* The CNOTs of a circuit as instructions.                                  *)
LEMMA CxAllIs ==
    ASSUME n \in Nat, NEW A, NEW cnots \in Seq(Gates(n))
    PROVE  /\ CxAll(cnots) \in Seq(Ops(A)) /\ Len(CxAll(cnots)) = Len(cnots)
           /\ \A i \in 1 .. Len(cnots) : CxAll(cnots)[i] = Cx(cnots[i])
  <1>1. PICK k \in Nat : k = Len(cnots) /\ DOMAIN cnots = 1 .. k
    OBVIOUS
  <1>2. PICK L : L = CxAll(cnots)
    OBVIOUS
  <1>3. L = [i \in 1 .. k |-> L[i]] /\ \A i \in 1 .. k : L[i] = Cx(cnots[i])
    BY <1>1, <1>2 DEF CxAll
  <1>4. ASSUME NEW i \in 1 .. k PROVE L[i] \in Ops(A)
    <2>1. PICK g \in Gates(n) : g = cnots[i]
      BY <1>1
    <2>2. g[1] \in Wires(n) /\ g[2] \in Wires(n) /\ g[1] # g[2]
      BY DEF Gates
    <2>3. Cx(g) \in Ops(A)
      BY <2>2 DEF Cx, Ops
    <2> QED
      BY <1>3, <2>1, <2>3
  <1>5. L \in Seq(Ops(A)) /\ Len(L) = k
    BY <1>3, <1>4, ListIs
  <1> QED
    BY <1>1, <1>2, <1>3, <1>5

(* CNOTs take a map to a map.                                               *)
LEMMA ApplyCnotsTyped ==
    ASSUME NEW N \in Nat, NEW m \in Mat(N), NEW cnots \in Seq(Gates(N))
    PROVE  ApplyCnots(m, cnots) \in Mat(N)
  <1>1. PICK g \in [1 .. Len(cnots) + 1 -> Mat(N)] : ApplyCnots(m, cnots) = g[Len(cnots) + 1]
    BY ApplyCnotsRuns
  <1>2. Len(cnots) + 1 \in 1 .. Len(cnots) + 1
    OBVIOUS
  <1> QED
    BY <1>1, <1>2

(* A circuit and CNOTs.                                                     *)
LEMMA TraceCnots ==
    ASSUME n \in Nat, NEW A, NEW s \in Seq(Ops(A)), NEW cnots \in Seq(Gates(n))
    PROVE  /\ s \o CxAll(cnots) \in Seq(Ops(A))
           /\ Trace(s \o CxAll(cnots)).m = ApplyCnots(Trace(s).m, cnots)
           /\ Trace(s \o CxAll(cnots)).rz = Trace(s).rz
  <1>1. PICK t \in Seq(Ops(A)) : t = CxAll(cnots)
    BY CxAllIs
  <1>1a. s \o t \in Seq(Ops(A))
    BY ConcatIn
  <1>1b. PICK e \in Seq(Ops(A)) : e = s \o t
    BY <1>1a, Zenon
  <1>2. PICK k \in Nat : k = Len(s)
    OBVIOUS
  <1>3. PICK l \in Nat : l = Len(t)
    OBVIOUS
  <1>3a. l = Len(cnots) /\ \A i \in 1 .. l : t[i] = Cx(cnots[i])
    BY <1>1, <1>3, CxAllIs
  <1>4. Len(e) = k + l /\ (\A i \in 1 .. k : e[i] = s[i]) /\ (\A i \in 1 .. l : e[k + i] = t[i])
    BY <1>1b, <1>2, <1>3
  <1>5. Begins(e, s)
    BY <1>2, <1>3, <1>4 DEF Begins
  <1>6. PICK g \in [1 .. Len(e) + 1 -> Traces(A)] :
          /\ g[Len(s) + 1] = Trace(s)
          /\ \A i \in 1 .. Len(e) : g[i + 1] = Traced(g[i], e[i])
          /\ Trace(e) = g[Len(e) + 1]
    BY <1>5, TracePrefix
  <1>7. PICK w \in Mat(n) : w = Trace(s).m
    BY TraceTyped
  <1>8. PICK f \in [1 .. Len(cnots) + 1 -> Mat(n)] :
             /\ f[1] = w
             /\ \A i \in 1 .. Len(cnots) : f[i + 1] = Apply(f[i], cnots[i])
             /\ ApplyCnots(w, cnots) = f[Len(cnots) + 1]
    BY ApplyCnotsRuns
  <1> DEFINE P == {i \in 0 .. l : g[k + 1 + i].m = f[i + 1] /\ g[k + 1 + i].rz = Trace(s).rz}
  <1>9. 0 \in P
    BY <1>2, <1>3, <1>6, <1>7, <1>8
  <1>10. ASSUME NEW i \in 0 .. l - 1, i \in P PROVE i + 1 \in P
    <2>1. i + 1 \in 0 .. l /\ i + 1 \in 1 .. l /\ k + 1 + i \in 1 .. k + l /\ k + 1 + i \in 1 .. (k + l) + 1
          /\ k + (i + 1) = k + 1 + i /\ (k + 1 + i) + 1 = k + 1 + (i + 1)
      BY <1>2, <1>3
    <2>2. PICK c \in Gates(n) : c = cnots[i + 1]
      BY <1>3a, <2>1
    <2>3. c[1] \in Wires(n) /\ c[2] \in Wires(n) /\ c[1] # c[2]
      BY DEF Gates
    <2>3a. PICK h : h = Cx(c)
      OBVIOUS
    <2>3b. h \in Ops(A) /\ h.op = "cx" /\ h.q = c[2] /\ h.arg = c[1]
      BY <2>3, <2>3a DEF Cx, Ops
    <2>4. e[k + 1 + i] = h
      BY <1>3a, <1>4, <2>1, <2>2, <2>3a
    <2>5. PICK a \in Traces(A) : a = g[k + 1 + i]
      BY <1>4, <1>6, <2>1
    <2>6. g[(k + 1 + i) + 1] = Traced(a, h)
      BY <1>4, <1>6, <2>1, <2>4, <2>5
    <2>7. Traced(a, h).m = AddRow(a.m, c[1], c[2]) /\ Traced(a, h).rz = a.rz
      BY <2>3b, TracedIs
    <2>8. f[(i + 1) + 1] = Apply(f[i + 1], c)
      BY <1>3a, <1>8, <2>1, <2>2
    <2>9. a.m = f[i + 1] /\ a.rz = Trace(s).rz
      BY <1>10, <2>5
    <2>10. g[k + 1 + (i + 1)].m = f[(i + 1) + 1] /\ g[k + 1 + (i + 1)].rz = Trace(s).rz
      BY <2>1, <2>6, <2>7, <2>8, <2>9 DEF Apply
    <2> QED
      BY <2>1, <2>10
  <1>11. 0 \in Nat /\ 0 <= l
    BY <1>3
  <1> HIDE DEF P
  <1>12. l \in P
    BY <1>3, <1>9, <1>10, <1>11, ClimbsTo
  <1>13. k + 1 + l = Len(e) + 1
    BY <1>2, <1>3, <1>4
  <1>14. Trace(e).m = f[l + 1] /\ Trace(e).rz = Trace(s).rz
    BY <1>6, <1>12, <1>13 DEF P
  <1>15. ApplyCnots(w, cnots) = f[l + 1]
    BY <1>3a, <1>8
  <1> QED
    BY <1>1, <1>1a, <1>1b, <1>7, <1>14, <1>15

(* The end of a call: the CNOTs after what the circuit has, then the Xs.    *)
LEMMA EmitRouted ==
    ASSUME n \in Nat, NEW A, out \in Seq(Ops(A)), Trace(out).m \in Mat(n), NEW cnots, Emit(cnots),
           NEW routed \in Seq(Gates(n)), routed = IF job.kind = "steiner" THEN RouteAll(topo, cnots) ELSE cnots
    PROVE  /\ Trace(out').m = ApplyCnots(Trace(out).m, routed)
           /\ \E B : \E L \in Seq(Locals(B)) :
                /\ Len(L) = IF job.kind = "matrix" THEN 0 ELSE Cardinality(Offsets)
                /\ \A i \in 1 .. Len(L) : L[i].arg = 0
                /\ Len(Trace(out').rz) = Len(Trace(out).rz) + Len(L)
                /\ ToSet(Trace(out').rz) = ToSet(Trace(out).rz) \cup Seen(ApplyCnots(Trace(out).m, routed), L)
  <1>1. PICK s \in Seq(Ops(A)) : s = out
    OBVIOUS
  <1>2. A \subseteq A \cup {0} /\ 0 \in A \cup {0}
    OBVIOUS
  <1>3. PICK B : B = A \cup {0}
    OBVIOUS
  <1>4. s \in Seq(Ops(B))
    BY <1>2, <1>3, OpsGrow
  <1>5. PICK xs : xs = IF job.kind = "matrix" THEN << >> ELSE SetToSeq(Offsets)
    OBVIOUS
  <1>6. xs \in Seq(Wires(n)) /\ Len(xs) = IF job.kind = "matrix" THEN 0 ELSE Cardinality(Offsets)
    <2>1. IsFiniteSet(Offsets) /\ Offsets \subseteq Wires(n)
      <3>1. Offsets \subseteq Wires(n)
        BY DEF Offsets
      <3> QED
        BY <3>1, WiresFinite, FS_Subset
    <2>2. SetToSeq(Offsets) \in Seq(Offsets) /\ Len(SetToSeq(Offsets)) = Cardinality(Offsets)
      BY <2>1, SetToSeqIs
    <2>3. SetToSeq(Offsets) \in Seq(Wires(n))
      BY <2>1, <2>2
    <2> QED
      BY <1>5, <2>2, <2>3
  <1>7. PICK k \in Nat : k = Len(xs) /\ DOMAIN xs = 1 .. k
    BY <1>6
  <1>8. PICK L : L = [i \in DOMAIN xs |-> X(xs[i])]
    OBVIOUS
  <1>9. L = [i \in 1 .. k |-> L[i]] /\ \A i \in 1 .. k : L[i] = X(xs[i])
    BY <1>7, <1>8
  <1>10. ASSUME NEW i \in 1 .. k PROVE L[i] \in Locals(B) /\ L[i].arg = 0
    <2>1. PICK q \in Wires(n) : q = xs[i]
      BY <1>6, <1>7
    <2>2. X(q) \in Locals(B) /\ X(q).arg = 0
      BY <1>2, <1>3 DEF X, Locals
    <2> QED
      BY <1>9, <2>1, <2>2
  <1>11. L \in Seq(Locals(B)) /\ Len(L) = k
    BY <1>9, <1>10, ListIs
  <1>12. out' = s \o CxAll(routed) \o L
    BY <1>1, <1>5, <1>8 DEF Emit
  <1>13. PICK e \in Seq(Ops(B)) : e = s \o CxAll(routed)
    BY <1>4, TraceCnots
  <1>14. Trace(e).m = ApplyCnots(Trace(s).m, routed) /\ Trace(e).rz = Trace(s).rz
    BY <1>4, <1>13, TraceCnots
  <1>15. PICK z : z = Trace(e \o L)
    OBVIOUS
  <1>16. /\ z.m = Trace(e).m
         /\ Len(z.rz) = Len(Trace(e).rz) + Len(L)
         /\ ToSet(z.rz) = ToSet(Trace(e).rz) \cup Seen(Trace(e).m, L)
    BY <1>11, <1>15, TraceLocals
  <1>17. Trace(out') = z
    BY <1>12, <1>13, <1>15
  <1>18. Len(L) = (IF job.kind = "matrix" THEN 0 ELSE Cardinality(Offsets)) /\ \A i \in 1 .. Len(L) : L[i].arg = 0
    BY <1>6, <1>7, <1>10, <1>11
  <1>19. /\ Len(z.rz) = Len(Trace(out).rz) + Len(L)
         /\ ToSet(z.rz) = ToSet(Trace(out).rz) \cup Seen(ApplyCnots(Trace(out).m, routed), L)
    BY <1>1, <1>14, <1>16
  <1>20. z.m = ApplyCnots(Trace(out).m, routed)
    BY <1>1, <1>14, <1>16
  <1> QED
    BY <1>11, <1>17, <1>18, <1>19, <1>20

(* A call that is not routed.                                               *)
LEMMA EmitTraced ==
    ASSUME n \in Nat, job.kind # "steiner", NEW A, out \in Seq(Ops(A)), Trace(out).m \in Mat(n),
           NEW cnots \in Seq(Gates(n)), Emit(cnots)
    PROVE  /\ Trace(out').m = ApplyCnots(Trace(out).m, cnots)
           /\ \E B : \E L \in Seq(Locals(B)) :
                /\ Len(L) = IF job.kind = "matrix" THEN 0 ELSE Cardinality(Offsets)
                /\ \A i \in 1 .. Len(L) : L[i].arg = 0
                /\ Len(Trace(out').rz) = Len(Trace(out).rz) + Len(L)
                /\ ToSet(Trace(out').rz) = ToSet(Trace(out).rz) \cup Seen(ApplyCnots(Trace(out).m, cnots), L)
  <1>1. cnots = IF job.kind = "steiner" THEN RouteAll(topo, cnots) ELSE cnots
    OBVIOUS
  <1> QED
    BY <1>1, EmitRouted, Zenon

(* What the call is to build is a map of its wires.                         *)
LEMMA WantedTyped == ASSUME TypeInv, pc \notin {"start", "refused"} PROVE Wanted \in Mat(n)
  <1>1. job \in Jobs /\ n \in Nat /\ (job.kind = "matrix" => job.matrix \in Mat(n))
    BY JobTyped DEF TypeInv, KindsFit
  <1>2. CASE job.kind # "matrix"
    <2>1. \A q \in Wires(n) : OnInputs(Target[q])
      BY <1>2 DEF TypeInv, KindsFit, Admitted, Synthesizable, PureCnots
    <2> QED
      BY <1>1, <1>2, <2>1, TargetTyped DEF Wanted
  <1> QED
    BY <1>1, <1>2 DEF Wanted

(* A step of the call, conjunct by conjunct.                                *)
LEMMA MappedNext ==
    ASSUME TypeInv, job' = job,
           job.kind \in {"pmh", "matrix"} /\ pc' \notin {"done", "costly"} => wires' = IdentityMap(n) /\ out' = << >>,
           job.kind # "steiner" /\ pc' \in {"lower", "upper", "fallback"} =>
             wires' \in Mat(n) /\ (\E A : out' \in Seq(Ops(A))) /\ Trace(out').m = wires',
           job.kind # "steiner" /\ pc' = "lower" => \A q \in Wires(n) : Sum(wires', pass'.m[q]) = Wanted[q],
           job.kind # "steiner" /\ pc' \in {"upper", "fallback"} =>
             \A q \in Wires(n) : Sum(wires', pass'.want[q]) = Wanted[q],
           pc' = "done" /\ job.kind # "steiner" /\ Invertible(Wanted) => Trace(out').m = Wanted,
           pc' = "done" /\ job.kind = "matrix" /\ Invertible(Wanted) =>
             ApplyCnots(IdentityMap(n), PairsOf(out')) = Wanted
    PROVE  Mapped'
  <1>1. n' = n
    BY JobStays
  <1>2. Wanted' = Wanted
    <2>1. Target' = Target
      BY <1>1 DEF Target, Ps
    <2> QED
      BY <2>1 DEF Wanted
  <1>3. Trace(out)' = Trace(out') /\ PairsOf(out)' = PairsOf(out')
    BY <1>1, TraceNext DEF PairsOf
  <1>4. Waits'
    BY <1>1 DEF Waits
  <1>5. Matches'
    <2> SUFFICES ASSUME job.kind # "steiner", pc' \in {"lower", "upper", "fallback"}
                 PROVE  (wires \in Mat(n) /\ (\E A : out \in Seq(Ops(A))) /\ Trace(out).m = wires)'
      BY DEF Matches
    <2>1. \A A : Ops(A)' = Ops(A)
      BY <1>1 DEF Ops
    <2>2. PICK A : out' \in Seq(Ops(A))
      OBVIOUS
    <2>3. (out \in Seq(Ops(A)))'
      BY <1>1, <2>2 DEF Ops
    <2> QED
      BY <1>1, <1>3, <2>3
  <1>6. Factored'
    BY <1>1, <1>2 DEF Factored
  <1>7. MapBuilt' /\ MatrixBuilt'
    BY <1>1, <1>2, <1>3 DEF MapBuilt, MatrixBuilt
  <1> QED
    BY <1>4, <1>5, <1>6, <1>7 DEF Mapped

(* The steps that place the phases.                                         *)
LEMMA RestMapped ==
    ASSUME TypeInv, job' = job, job.kind \in {"gray", "steiner"}, pc' # "done",
           pc' \in {"lower", "upper", "fallback"} => job.kind = "steiner"
    PROVE  Mapped'
  BY MappedNext

(* No gate has been made before the call.                                   *)
LEMMA InitMapped == Init => Mapped
  <1> SUFFICES ASSUME Init PROVE Mapped
    OBVIOUS
  <1>1. wires = IdentityMap(n) /\ out = << >> /\ pc = "start"
    BY DEF Init, n
  <1> QED
    BY <1>1 DEF Mapped, Waits, Matches, Factored, MapBuilt, MatrixBuilt

(* A linear map alone is the map that the CNOTs are made for.               *)
LEMMA StartMapped == ASSUME TypeInv, Mapped, Start PROVE Mapped'
  <1>1. job' = job /\ job \in Jobs /\ n \in Nat /\ job.kind \in {"gray", "steiner", "pmh", "matrix"}
    BY JobTyped DEF TypeInv, KindsFit, Start
  <1>2. CASE job.kind \in {"gray", "steiner"}
    <2>1. pc' \in {"lift", "refused"}
      BY <1>2 DEF Start
    <2> QED
      BY <1>1, <1>2, <2>1, RestMapped
  <1>3. CASE job.kind \in {"pmh", "matrix"}
    <2>1. pc' \in {"lower", "refused"} /\ pc = "start"
      BY <1>3 DEF Start
    <2>2. wires' = IdentityMap(n) /\ out' = << >>
      BY <1>3, <2>1 DEF Start, Mapped, Waits
    <2>3. IdentityMap(n) \in Mat(n)
      BY <1>1, IdentityTyped
    <2>4. << >> \in Seq(Ops({}))
      OBVIOUS
    <2>5. Trace(<< >>).m = IdentityMap(n)
      BY <1>1, TraceEmpty
    <2>6. ASSUME pc' = "lower", NEW q \in Wires(n) PROVE Sum(wires', pass'.m[q]) = Wanted[q]
      <3>1. pass' = [pass EXCEPT !.m = Wanted]
        BY DEF Start, Wanted
      <3>2. pass'.m = Wanted
        BY <3>1 DEF TypeInv, PassFits
      <3>3. Wanted \in Mat(n)
        <4>1. job.kind = "matrix" => job.matrix \in Mat(n)
          BY <1>1, JobTyped
        <4>2. CASE job.kind = "pmh"
          <5>1. PureCnots
            BY <2>6, <4>2 DEF Start
          <5> QED
            BY <1>1, <4>2, <5>1, TargetTyped DEF PureCnots, Wanted
        <4> QED
          BY <1>3, <4>1, <4>2 DEF Wanted
      <3>4. Wanted[q] \in SUBSET Wires(n)
        BY <3>3 DEF Mat
      <3> QED
        BY <1>1, <2>2, <3>2, <3>4, SumOfInputs
    <2>7. (\E A : out' \in Seq(Ops(A))) /\ Trace(out').m = wires' /\ wires' \in Mat(n)
      BY <2>2, <2>3, <2>4, <2>5
    <2> QED
      BY <1>1, <2>1, <2>2, <2>6, <2>7, MappedNext
  <1> QED
    BY <1>1, <1>2, <1>3

(* The residual, taken on the wires, is the rest of the map.                *)
LEMMA GrayRestMapped == ASSUME TypeInv, Books, Mapped, GrayRest PROVE Mapped'
  <1>1. job' = job /\ job \in Jobs /\ n \in Nat /\ wires' = wires /\ out' = out
    BY JobStays DEF GrayRest
  <1>2. pc = "pop" /\ job.kind = "gray"
    BY DEF GrayRest, TypeInv, KindsFit
  <1>3. wires \in Mat(n) /\ Trace(out).m = wires /\ \E A : out \in Seq(Ops(A))
    BY <1>2 DEF TypeInv, WiresFit, Books, Balanced
  <1>4. Target \in Mat(n) /\ Wanted = Target
    BY <1>2, WantedTyped DEF Wanted
  <1>5. pc' \in {"lower", "refused"}
    BY DEF GrayRest
  <1>6. ASSUME pc' = "lower", NEW q \in Wires(n) PROVE Sum(wires', pass'.m[q]) = Wanted[q]
    <2>1. PICK parity \in SUBSET Wires(n) : parity = Target[q]
      BY <1>4 DEF Mat
    <2>2. Solve(wires, n, parity).rhs = {}
      BY <1>6, <2>1 DEF GrayRest, Solvable
    <2>3. pass' = [pass EXCEPT !.m = Residual]
      BY DEF GrayRest
    <2>4. pass'.m = Residual
      BY <2>3 DEF TypeInv, PassFits
    <2>5. Residual[q] = Solve(wires, n, parity).combo
      BY <2>1, StrictSame DEF Residual
    <2>6. Sum(wires, Solve(wires, n, parity).combo) = parity
      BY <1>1, <1>3, <2>2, SolveRight
    <2> QED
      BY <1>1, <1>4, <2>1, <2>4, <2>5, <2>6
  <1> QED
    BY <1>1, <1>2, <1>3, <1>5, <1>6, MappedNext

(* The first pass remembers the matrix that the CNOTs are for.              *)
LEMMA LowerMapped == ASSUME TypeInv, Mapped, Lower PROVE Mapped'
  <1>1. job' = job /\ wires' = wires /\ out' = out /\ pc = "lower"
    BY DEF Lower
  <1>2. pc' \in {"upper", "fallback", "refused"}
    BY DEF Lower, Failed
  <1>3. pass'.want = pass.m
    BY DEF Lower, TypeInv, PassFits
  <1> QED
    BY <1>1, <1>2, <1>3, MappedNext DEF Mapped, Waits, Matches, Factored

(* The call for a map alone returns the CNOTs and nothing else.             *)
LEMMA EmitPairs ==
    ASSUME n \in Nat, job.kind = "matrix", out = << >>, NEW cnots \in Seq(Gates(n)), Emit(cnots)
    PROVE  PairsOf(out') = cnots
  <1>1. PICK xs : xs = << >>
    OBVIOUS
  <1>2. PICK L : L = [i \in DOMAIN xs |-> X(xs[i])]
    OBVIOUS
  <1>3. out' = out \o CxAll(cnots) \o L
    BY <1>1, <1>2 DEF Emit
  <1>4. DOMAIN xs = {} /\ xs \in Seq({}) /\ 1 .. 0 = {}
    BY <1>1
  <1>5. L = [i \in 1 .. 0 |-> L[i]] /\ \A i \in 1 .. 0 : L[i] \in Ops({})
    BY <1>2, <1>4
  <1>6. L \in Seq(Ops({})) /\ Len(L) = 0
    BY <1>5, ListIs
  <1>7. PICK c \in Seq(Ops({})) : c = CxAll(cnots) /\ Len(c) = Len(cnots) /\ \A i \in 1 .. Len(cnots) : c[i] = Cx(cnots[i])
    BY CxAllIs
  <1>8. L = << >>
    BY <1>6
  <1>9. out' = c
    BY <1>3, <1>7, <1>8
  <1>10. PICK k \in Nat : k = Len(cnots) /\ DOMAIN c = 1 .. k /\ cnots = [i \in 1 .. k |-> cnots[i]]
    BY <1>7
  <1>11. ASSUME NEW i \in 1 .. k PROVE <<c[i].arg, c[i].q>> = cnots[i]
    <2>1. PICK g \in Gates(n) : g = cnots[i]
      BY <1>10
    <2>1a. c[i] = Cx(g)
      BY <1>7, <1>10, <2>1
    <2>1b. Cx(g).arg = g[1] /\ Cx(g).q = g[2]
      BY DEF Cx
    <2>2. c[i].arg = g[1] /\ c[i].q = g[2]
      BY <2>1a, <2>1b
    <2>3. g = <<g[1], g[2]>>
      BY DEF Gates
    <2> QED
      BY <2>1, <2>2, <2>3
  <1>12. PairsOf(c) = [i \in 1 .. k |-> <<c[i].arg, c[i].q>>]
    BY <1>10 DEF PairsOf
  <1>13. PairsOf(c) = [i \in 1 .. k |-> cnots[i]]
    BY <1>11, <1>12
  <1> QED
    BY <1>9, <1>10, <1>13

(* The circuit that passes the check, on the wires there are.               *)
LEMMA UpperMapped == ASSUME TypeInv, Mapped, Upper PROVE Mapped'
  <1>1. job' = job /\ job \in Jobs /\ n \in Nat /\ wires' = wires /\ pass' = pass /\ pc = "upper"
    BY JobStays DEF Upper
  <1>2. PICK done : done = LowerPass(pass.m, n, Size)
    OBVIOUS
  <1>3. PICK cnots : cnots = Stitch(pass.lower, done.ops)
    OBVIOUS
  <1>4. cnots \in Seq(Gates(n)) /\ pass.want \in Mat(n)
    <2>1. Size \in Nat \ {0}
      BY <1>1, JobTyped, SizeTyped
    <2>2. pass.m \in Mat(n) /\ pass.want \in Mat(n) /\ pass.lower \in Seq(Gates(n))
      BY <1>1 DEF TypeInv, PassFits
    <2>3. done.ops \in Seq(Gates(n))
      BY <1>1, <1>2, <2>1, <2>2, LowerPassTyped DEF Elim
    <2> QED
      BY <1>1, <1>3, <2>2, <2>3, StitchTyped
  <1>5. PICK right \in BOOLEAN : right <=> (UnitDiagonal(done.m) /\ ApplyCnots(IdentityMap(n), cnots) = pass.want)
    OBVIOUS
  <1>6. IF right THEN Emit(cnots) ELSE pc' = Failed /\ out' = out
    BY <1>2, <1>3, <1>5 DEF Upper
  <1>7. CASE ~right
    <2>1. pc' \in {"fallback", "refused"} /\ out' = out
      BY <1>6, <1>7 DEF Failed
    <2> QED
      BY <1>1, <2>1, MappedNext DEF Mapped, Waits, Matches, Factored
  <1>8. CASE right
    <2>1. Emit(cnots) /\ pc' \in {"done", "costly"} /\ ApplyCnots(IdentityMap(n), cnots) = pass.want
      BY <1>5, <1>6, <1>8 DEF Emit
    <2>2. Wanted \in Mat(n)
      BY <1>1, WantedTyped
    <2>3. ASSUME job.kind # "steiner" PROVE Trace(out').m = Wanted
      <3>1. PICK A : out \in Seq(Ops(A))
        BY <1>1, <2>3 DEF Mapped, Matches
      <3>2. wires \in Mat(n) /\ Trace(out).m = wires
        BY <1>1, <2>3 DEF Mapped, Matches
      <3>3. Trace(out').m = ApplyCnots(wires, cnots)
        BY <1>1, <1>4, <2>1, <2>3, <3>1, <3>2, EmitTraced
      <3>4. ApplyCnots(wires, cnots) \in Mat(n)
        BY <1>1, <1>4, <3>2, ApplyCnotsTyped
      <3>5. ASSUME NEW q \in Wires(n) PROVE ApplyCnots(wires, cnots)[q] = Wanted[q]
        <4>1. ApplyCnots(wires, cnots)[q] = Sum(wires, ApplyCnots(IdentityMap(n), cnots)[q])
          BY <1>1, <1>4, <3>2, CircuitOfWires
        <4>2. Sum(wires, pass.want[q]) = Wanted[q]
          BY <1>1, <2>3 DEF Mapped, Factored
        <4> QED
          BY <2>1, <4>1, <4>2
      <3> QED
        BY <2>2, <3>3, <3>4, <3>5 DEF Mat
    <2>4. ASSUME job.kind = "matrix" PROVE ApplyCnots(IdentityMap(n), PairsOf(out')) = Wanted
      <3>1. out = << >> /\ wires = IdentityMap(n)
        BY <1>1, <2>4 DEF Mapped, Waits
      <3>2. PairsOf(out') = cnots
        BY <1>1, <1>4, <2>1, <2>4, <3>1, EmitPairs
      <3>3. ASSUME NEW q \in Wires(n) PROVE pass.want[q] = Wanted[q]
        <4>1. pass.want[q] \in SUBSET Wires(n)
          BY <1>4 DEF Mat
        <4>2. Sum(wires, pass.want[q]) = Wanted[q]
          BY <1>1, <2>4 DEF Mapped, Factored
        <4> QED
          BY <1>1, <3>1, <4>1, <4>2, SumOfInputs
      <3>4. pass.want = Wanted
        BY <1>4, <2>2, <3>3 DEF Mat
      <3> QED
        BY <2>1, <3>2, <3>4
    <2> QED
      BY <1>1, <2>1, <2>3, <2>4, MappedNext
  <1> QED
    BY <1>7, <1>8

(* Gauss-Jordan is for a map that is not invertible.                        *)
LEMMA FallbackMapped == ASSUME TypeInv, Answered, Mapped, Fallback PROVE Mapped'
  <1>1. job' = job /\ job \in Jobs /\ n \in Nat /\ pc = "fallback"
    BY JobStays DEF Fallback
  <1>2. pc' \in {"done", "costly"}
    BY DEF Fallback, Emit
  <1>3. pass.want \in Mat(n) /\ ~Invertible(pass.want) /\ Wanted \in Mat(n)
    BY <1>1, WantedTyped DEF TypeInv, PassFits, Answered, Passes
  <1>4. ASSUME job.kind # "steiner" PROVE ~Invertible(Wanted)
    <2>1. wires \in Mat(n) /\ \A q \in Wires(n) : Sum(wires, pass.want[q]) = Wanted[q]
      BY <1>1, <1>4 DEF Mapped, Matches, Factored
    <2> QED
      BY <1>1, <1>3, <2>1, FactorInvertible
  <1> QED
    BY <1>1, <1>2, <1>4, MappedNext

(* The maps do not depend on anything but the variables.                    *)
LEMMA StutterMapped == ASSUME TypeInv, Mapped, UNCHANGED vars PROVE Mapped'
  <1>1. job' = job /\ pc' = pc /\ wires' = wires /\ pass' = pass /\ out' = out
    BY DEF vars
  <1> QED
    BY <1>1, MappedNext DEF Mapped, Waits, Matches, Factored, MapBuilt, MatrixBuilt

(* Each step of a call keeps to the map.                                    *)
LEMMA StepMapped == TypeInv /\ Books /\ Answered /\ Mapped /\ [Next]_vars => Mapped'
  <1> SUFFICES ASSUME TypeInv, Books, Answered, Mapped, [Next]_vars PROVE Mapped'
    OBVIOUS
  <1>1. CASE Start
    BY <1>1, StartMapped
  <1>2. CASE Lift \/ Lifted \/ Pop \/ Share \/ Split
    <2>1. job' = job /\ pc \in {"lift", "pop", "common"}
      BY <1>2 DEF Lift, Lifted, Pop, Share, Split
    <2>2. pc' \in {"lift", "terms", "pop", "common", "refused"}
      BY <1>2 DEF Lift, Lifted, Pop, Share, Split
    <2>3. job.kind \in {"gray", "steiner"}
      BY <2>1 DEF TypeInv, KindsFit
    <2> QED
      BY <2>1, <2>2, <2>3, RestMapped
  <1>3. CASE PickTerm \/ FoldIn \/ Rotate \/ SteinerRest
    <2>1. job' = job /\ pc \in {"terms", "tree"} /\ pc' \in {"terms", "tree", "lower"}
      BY <1>3 DEF PickTerm, FoldIn, Rotate, SteinerRest
    <2>2. job.kind = "steiner"
      BY <2>1 DEF TypeInv, KindsFit
    <2> QED
      BY <2>1, <2>2, RestMapped
  <1>4. CASE GrayRest
    BY <1>4, GrayRestMapped
  <1>5. CASE Lower
    BY <1>5, LowerMapped
  <1>6. CASE Upper
    BY <1>6, UpperMapped
  <1>7. CASE Fallback
    BY <1>7, FallbackMapped
  <1>8. CASE UNCHANGED vars
    BY <1>8, StutterMapped
  <1>9. CASE Stop
    BY <1>9, StutterMapped DEF Stop
  <1> QED
    BY <1>1, <1>2, <1>3, <1>4, <1>5, <1>6, <1>7, <1>8, <1>9 DEF Next

(* The invariants of a call hold together.                                  *)
LEMMA SpecMapped == Spec => [](TypeInv /\ Books /\ Answered /\ Mapped)
  <1>1. Init => TypeInv /\ Books /\ Answered /\ Mapped
    BY InitTypeInv, InitBooks, InitAnswered, InitMapped
  <1>2. (TypeInv /\ Books /\ Answered /\ Mapped) /\ [Next]_vars => (TypeInv /\ Books /\ Answered /\ Mapped)'
    BY StepTypeInv, StepBooks, StepAnswered, StepMapped
  <1> QED
    BY <1>1, <1>2, PTL DEF Spec

(* The circuit of an invertible map, traced gate by gate, has that map on   *)
(* its wires: what a Gray or a linear call returns.                         *)
THEOREM LinearMapBuilt == Spec => []MapBuilt
  <1>1. TypeInv /\ Books /\ Answered /\ Mapped => MapBuilt
    BY DEF Mapped
  <1> QED
    BY <1>1, SpecMapped, PTL

(* The CNOTs returned for an invertible matrix multiply to it, whichever    *)
(* section size the call has.                                               *)
THEOREM MatricesRealised == Spec => [](job.kind = "matrix" => Realises)
  <1>1. TypeInv /\ Books /\ Answered /\ Mapped => (job.kind = "matrix" => Realises)
    BY DEF Mapped, MatrixBuilt, Realises, Wanted, PairsOf
  <1> QED
    BY <1>1, SpecMapped, PTL

(* A step of the call, conjunct by conjunct.                                *)
LEMMA KeptNext ==
    ASSUME TypeInv, job' = job,
           job.kind = "gray" /\ pc' \in {"pop", "common", "lower", "upper", "fallback"} => Nonzero(terms'),
           job.kind = "gray" /\ pc' \in {"lower", "upper", "fallback"} => AllPlaced(out', terms'),
           job.kind = "gray" /\ pc' = "done" =>
             /\ Len(Trace(out').rz) = Cardinality(DOMAIN terms') + Cardinality(Offsets)
             /\ {x \in ToSet(Trace(out').rz) : x[2] # 0} = Whole(terms')
    PROVE  PhasesKept'
  <1>1. n' = n /\ Ps' = Ps
    BY JobStays
  <1>2. Trace(out)' = Trace(out')
    BY <1>1, TraceNext
  <1>3. Offsets' = Offsets
    BY <1>1 DEF Offsets
  <1>4. AllPlaced(out, terms)' <=> AllPlaced(out', terms')
    BY <1>2 DEF AllPlaced
  <1>5. job.kind = "gray" => PhasesBuilt'
    BY <1>2, <1>3 DEF PhasesBuilt, Placed
  <1> QED
    BY <1>4, <1>5 DEF PhasesKept

(* The Xs turn nothing.                                                     *)
LEMMA XsTurnNothing ==
    ASSUME NEW m, NEW L, \A i \in 1 .. Len(L) : L[i].arg = 0, NEW phases, Nonzero(phases)
    PROVE  {x \in Whole(phases) \cup Seen(m, L) : x[2] # 0} = Whole(phases)
  <1>1. \A x \in Seen(m, L) : x[2] = 0
    BY DEF Seen
  <1>2. \A x \in Whole(phases) : x[2] # 0
    BY DEF Whole, Nonzero
  <1> QED
    BY <1>1, <1>2

(* The end of the call adds nothing but the Xs.                             *)
LEMMA EmitKept ==
    ASSUME TypeInv, Mapped, PhasesKept, job' = job, terms' = terms, pc \in {"upper", "fallback"},
           NEW cnots \in Seq(Gates(n)), Emit(cnots)
    PROVE  PhasesKept'
  <1>1. job \in Jobs /\ n \in Nat /\ pc' \in {"done", "costly"}
    BY JobStays DEF Emit
  <1>2. CASE job.kind # "gray"
    BY <1>1, <1>2, KeptNext
  <1>3. CASE job.kind = "gray"
    <2>1. PICK A : out \in Seq(Ops(A))
      BY <1>3 DEF Mapped, Matches
    <2>2. Trace(out).m \in Mat(n)
      BY <1>1, <2>1, TraceTyped
    <2>3. PICK B, L : /\ L \in Seq(Locals(B))
                      /\ Len(L) = Cardinality(Offsets) /\ \A i \in 1 .. Len(L) : L[i].arg = 0
                      /\ Len(Trace(out').rz) = Len(Trace(out).rz) + Len(L)
                      /\ ToSet(Trace(out').rz) = ToSet(Trace(out).rz) \cup Seen(ApplyCnots(Trace(out).m, cnots), L)
      BY <1>1, <1>3, <2>1, <2>2, EmitTraced
    <2>4. Len(Trace(out).rz) = Cardinality(DOMAIN terms) /\ ToSet(Trace(out).rz) = Whole(terms) /\ Nonzero(terms)
      BY <1>3 DEF PhasesKept, AllPlaced
    <2>5. {x \in ToSet(Trace(out').rz) : x[2] # 0} = Whole(terms)
      BY <2>3, <2>4, XsTurnNothing
    <2>6. Len(Trace(out').rz) = Cardinality(DOMAIN terms) + Cardinality(Offsets)
      BY <2>3, <2>4
    <2> QED
      BY <1>1, <2>5, <2>6, KeptNext
  <1> QED
    BY <1>2, <1>3

(* With no frame left, everything is placed.                                *)
LEMMA GrayRestKept == ASSUME TypeInv, Books, PhasesKept, GrayRest PROVE PhasesKept'
  <1>1. job' = job /\ terms' = terms /\ out' = out /\ stack = << >> /\ pc = "pop" /\ pc' \in {"lower", "refused"}
    BY DEF GrayRest
  <1>2. job.kind = "gray"
    BY <1>1 DEF TypeInv, KindsFit
  <1>3. Balanced(out, PhasesOf(stack), terms)
    BY <1>1, <1>2 DEF Books
  <1>4. PICK L : L = PhasesOf(stack)
    OBVIOUS
  <1>5. DOMAIN L = {}
    BY <1>1, <1>4 DEF PhasesOf
  <1>6. Pairs(L) = {} /\ Owed(Trace(out).m, L) = {} /\ Cardinality(Pairs(L)) = 0
    <2>1. Pairs(L) = {} /\ Owed(Trace(out).m, L) = {}
      BY <1>5 DEF Pairs, Owed
    <2> QED
      BY <2>1, FS_EmptySet
  <1>7. n \in Nat /\ Len(Trace(out).rz) \in Nat
    <2>1. n \in Nat
      BY JobTyped DEF TypeInv, KindsFit
    <2>2. PICK A : out \in Seq(Ops(A))
      BY <1>3 DEF Balanced
    <2> QED
      BY <2>1, <2>2, TraceTyped
  <1>8. AllPlaced(out, terms)
    BY <1>3, <1>4, <1>6, <1>7 DEF Balanced, AllPlaced
  <1>9. Nonzero(terms)
    BY <1>1, <1>2 DEF PhasesKept
  <1> QED
    BY <1>1, <1>8, <1>9, KeptNext

(* The merged phases are those that are not zero.                           *)
LEMMA LiftedKept == ASSUME TypeInv, Lifted PROVE PhasesKept'
  <1>1. job' = job /\ terms' = Merged /\ pc' \in {"terms", "pop"}
    BY DEF Lifted
  <1>2. Nonzero(Merged)
    BY StrictSame DEF Nonzero, Merged
  <1> QED
    BY <1>1, <1>2, KeptNext

(* A circuit that passes the check is emitted, or the call goes on.         *)
LEMMA UpperKept == ASSUME TypeInv, Mapped, PhasesKept, Upper PROVE PhasesKept'
  <1>1. job' = job /\ job \in Jobs /\ n \in Nat /\ terms' = terms /\ pc = "upper"
    BY JobStays DEF Upper
  <1>2. PICK done : done = LowerPass(pass.m, n, Size)
    OBVIOUS
  <1>3. PICK cnots : cnots = Stitch(pass.lower, done.ops)
    OBVIOUS
  <1>4. cnots \in Seq(Gates(n))
    <2>1. Size \in Nat \ {0}
      BY <1>1, JobTyped, SizeTyped
    <2>2. pass.m \in Mat(n) /\ pass.lower \in Seq(Gates(n))
      BY <1>1 DEF TypeInv, PassFits
    <2>3. done.ops \in Seq(Gates(n))
      BY <1>1, <1>2, <2>1, <2>2, LowerPassTyped DEF Elim
    <2> QED
      BY <1>1, <1>3, <2>2, <2>3, StitchTyped
  <1>5. Emit(cnots) \/ (pc' = Failed /\ out' = out)
    BY <1>2, <1>3 DEF Upper
  <1>6. CASE Emit(cnots)
    BY <1>1, <1>4, <1>6, EmitKept
  <1>7. CASE pc' = Failed /\ out' = out
    BY <1>1, <1>7, KeptNext DEF Failed, PhasesKept
  <1> QED
    BY <1>5, <1>6, <1>7

(* So is the circuit of Gauss-Jordan.                                       *)
LEMMA FallbackKept == ASSUME TypeInv, Mapped, PhasesKept, Fallback PROVE PhasesKept'
  <1>1. job' = job /\ job \in Jobs /\ n \in Nat /\ terms' = terms /\ pc = "fallback"
    BY JobStays DEF Fallback
  <1>2. PICK cnots : cnots = GaussJordan(pass.want, n)
    OBVIOUS
  <1>3. cnots \in Seq(Gates(n))
    BY <1>1, <1>2, GaussJordanTyped DEF TypeInv, PassFits
  <1>4. Emit(cnots)
    BY <1>2 DEF Fallback
  <1> QED
    BY <1>1, <1>3, <1>4, EmitKept

(* Nothing else is looked at.                                               *)
LEMMA StutterKept == ASSUME TypeInv, PhasesKept, UNCHANGED vars PROVE PhasesKept'
  <1>1. job' = job /\ pc' = pc /\ terms' = terms /\ out' = out
    BY DEF vars
  <1> QED
    BY <1>1, KeptNext DEF PhasesKept, PhasesBuilt, Placed

(* Each step keeps the phases.                                              *)
LEMMA StepKept == TypeInv /\ Books /\ Mapped /\ PhasesKept /\ [Next]_vars => PhasesKept'
  <1> SUFFICES ASSUME TypeInv, Books, Mapped, PhasesKept, [Next]_vars PROVE PhasesKept'
    OBVIOUS
  <1>1. CASE Start
    <2>1. job' = job /\ pc' \in {"lower", "lift", "refused"} /\ (job.kind = "gray" => pc' # "lower")
      BY <1>1 DEF Start
    <2> QED
      BY <2>1, KeptNext
  <1>2. CASE Lift
    <2>1. job' = job /\ pc' \in {"lift", "refused"}
      BY <1>2 DEF Lift
    <2> QED
      BY <2>1, KeptNext
  <1>3. CASE Lifted
    BY <1>3, LiftedKept
  <1>4. CASE Pop \/ Share \/ Split
    <2>1. job' = job /\ terms' = terms /\ pc \in {"pop", "common"} /\ pc' \in {"pop", "common", "refused"}
      BY <1>4 DEF Pop, Share, Split
    <2> QED
      BY <2>1, KeptNext DEF PhasesKept
  <1>5. CASE GrayRest
    BY <1>5, GrayRestKept
  <1>6. CASE PickTerm \/ FoldIn \/ Rotate \/ SteinerRest
    <2>1. job' = job /\ pc \in {"terms", "tree"}
      BY <1>6 DEF PickTerm, FoldIn, Rotate, SteinerRest
    <2>2. job.kind # "gray"
      BY <2>1 DEF TypeInv, KindsFit
    <2> QED
      BY <2>1, <2>2, KeptNext
  <1>7. CASE Lower
    <2>1. job' = job /\ terms' = terms /\ out' = out /\ pc = "lower" /\ pc' \in {"upper", "fallback", "refused"}
      BY <1>7 DEF Lower, Failed
    <2> QED
      BY <2>1, KeptNext DEF PhasesKept
  <1>8. CASE Upper
    BY <1>8, UpperKept
  <1>9. CASE Fallback
    BY <1>9, FallbackKept
  <1>10. CASE UNCHANGED vars
    BY <1>10, StutterKept
  <1>11. CASE Stop
    BY <1>11, StutterKept DEF Stop
  <1> QED
    BY <1>1, <1>2, <1>3, <1>4, <1>5, <1>6, <1>7, <1>8, <1>9, <1>10, <1>11 DEF Next

(* A Gray circuit that is returned turns every phase of the call by its     *)
(* angle, once each, and no other.                                          *)
THEOREM PhasesReturned == Spec => []PhasesBuilt
  <1> DEFINE I == TypeInv /\ Books /\ Answered /\ Mapped
  <1>1. Init => PhasesKept
    BY DEF Init, PhasesKept, PhasesBuilt
  <1>2. I /\ PhasesKept /\ [Next]_vars => PhasesKept'
    BY StepKept
  <1>3. TypeInv /\ PhasesKept => PhasesBuilt
    BY DEF PhasesKept, PhasesBuilt
  <1>4. Spec => []I
    BY SpecMapped
  <1> HIDE DEF I
  <1>5. I => TypeInv
    BY DEF I
  <1> QED
    BY <1>1, <1>2, <1>3, <1>4, <1>5, PTL DEF Spec

(* Two wires make an edge of the complete graph where they differ.          *)
LEMMA DistinctIs ==
    ASSUME NEW N \in Nat, NEW a \in Wires(N), NEW b \in Wires(N)
    PROVE  {a, b} \in Distinct(N) <=> a # b
  BY DEF Distinct

(* CNOTs that join wires of the complete graph are CNOTs of two wires.      *)
LEMMA JoinedDistinct == ASSUME NEW N \in Nat PROVE Joined(N, Distinct(N)) = Gates(N)
  BY DistinctIs DEF Joined, Gates

(* Whatever the topology, its next wire on a route is another wire.         *)
LEMMA RoutesDistinct ==
    ASSUME NEW N \in Nat, NEW adj, NEW t \in Routes(N, adj)
    PROVE  t \in Routes(N, Distinct(N))
  <1>1. t \in Tables(N) /\ Routed(t, N, adj)
    BY DEF Routes
  <1>2. ASSUME NEW u \in Wires(N), NEW v \in Wires(N), u # v, t.dist[u][v] < Infinite
        PROVE  {u, t.next[u][v]} \in Distinct(N)
    <2>1. t.next[u][v] \in Wires(N) /\ t.dist[u][v] \in Nat
      BY <1>1 DEF Tables
    <2>2. t.dist[t.next[u][v]][v] + 1 <= t.dist[u][v]
      BY <1>1, <1>2 DEF Routed
    <2>3. t.next[u][v] # u
      BY <2>1, <2>2
    <2> QED
      BY <2>1, <2>3, DistinctIs
  <1>3. Routed(t, N, Distinct(N))
    BY <1>1, <1>2 DEF Routed
  <1> QED
    BY <1>1, <1>3 DEF Routes

(* A hop that is not made at the end leaves less to go.                     *)
LEMMA HopNears ==
    ASSUME NEW N \in Nat, NEW adj, NEW t \in Routes(N, adj), NEW u \in Wires(N), NEW v \in Wires(N),
           NEW p \in WalksTo(t, N, adj, v), NEW i \in Nat, Nears(p, t, u, v, i)
    PROVE  Nears(Hop(t, p, v), t, u, v, i + 1)
  <1>1. p \in Seq(Wires(N)) /\ Len(p) \in Nat /\ Len(p) >= 1 /\ p[Len(p)] \in Wires(N) /\ Last(p) = p[Len(p)]
    BY DEF WalksTo, Walks, Last
  <1>2. CASE p[Len(p)] = v
    BY <1>1, <1>2 DEF Hop, Nears
  <1>3. CASE p[Len(p)] # v
    <2>1. PICK x \in Wires(N) : x = p[Len(p)]
      BY <1>1
    <2>2. PICK y \in Wires(N) : y = t.next[x][v]
      BY DEF Routes, Tables
    <2>3. PICK q : q = Append(p, y)
      OBVIOUS
    <2>4. Hop(t, p, v) = q
      BY <1>1, <1>3, <2>1, <2>2, <2>3 DEF Hop
    <2>5. PICK k \in Nat : k = Len(p) /\ k >= 1
      BY <1>1
    <2>6. Len(q) = k + 1 /\ q[k + 1] = y /\ \A j \in 1 .. k : q[j] = p[j]
      BY <1>1, <2>3, <2>5
    <2>7. t.dist[y][v] + 1 <= t.dist[x][v] /\ t.dist[y][v] \in Nat /\ t.dist[x][v] \in Nat /\ t.dist[u][v] \in Nat
      <3>1. x # v /\ t.dist[x][v] < Infinite
        BY <1>3, <2>1 DEF WalksTo, Connected
      <3> QED
        BY <2>2, <3>1 DEF Routes, Routed, Tables
    <2>8. t.dist[x][v] + i <= t.dist[u][v]
      BY <1>3, <2>1 DEF Nears
    <2>9. t.dist[y][v] + (i + 1) <= t.dist[u][v]
      BY <2>7, <2>8
    <2>10. q[1] = u
      BY <2>5, <2>6 DEF Nears
    <2>11. ASSUME NEW j \in 1 .. Len(q) - 1 PROVE q[j] # v
      <3>1. j \in 1 .. k
        BY <2>5, <2>6
      <3>2. q[j] = p[j]
        BY <2>6, <3>1
      <3>3. CASE j = k
        BY <1>3, <2>5, <3>2, <3>3
      <3>4. CASE j # k
        <4>1. j \in 1 .. Len(p) - 1
          BY <2>5, <3>1, <3>4
        <4> QED
          BY <3>2, <4>1 DEF Nears
      <3> QED
        BY <3>3, <3>4
    <2> QED
      BY <2>4, <2>6, <2>9, <2>10, <2>11 DEF Nears
  <1> QED
    BY <1>2, <1>3

(* Topology::path goes from the one wire to the other and is at the other   *)
(* only at its end.                                                         *)
LEMMA RouteReaches ==
    ASSUME NEW N \in Nat, NEW adj, NEW t \in Routes(N, adj), NEW u \in Wires(N), NEW v \in Wires(N), Connected(t, u, v),
           NEW p, p = Route(t, u, v)
    PROVE  p[1] = u /\ p[Len(p)] = v /\ \A k \in 1 .. Len(p) - 1 : p[k] # v
  <1> DEFINE d == t.dist[u][v]
  <1>1. d \in Nat
    BY WalkStarts
  <1>2. PICK g \in [0 .. d -> WalksTo(t, N, adj, v)] :
          g[0] = <<u>> /\ (\A i \in 0 .. d - 1 : g[i + 1] = Hop(t, g[i], v)) /\ Route(t, u, v) = g[d]
    BY RouteRuns
  <1>2a. d = t.dist[u][v]
    OBVIOUS
  <1> HIDE DEF d
  <1> DEFINE P == {i \in 0 .. d : Nears(g[i], t, u, v, i)}
  <1>3. 0 \in P
    <2>1. Len(<<u>>) = 1 /\ (<<u>>)[1] = u /\ 1 .. 1 - 1 = {} /\ d + 0 <= d
      BY <1>1
    <2>2. Nears(<<u>>, t, u, v, 0)
      BY <1>1, <1>2a, <2>1 DEF Nears
    <2> QED
      BY <1>1, <1>2, <2>2
  <1>4. ASSUME NEW i \in 0 .. d - 1, i \in P PROVE i + 1 \in P
    <2>1. PICK q \in WalksTo(t, N, adj, v) : q = g[i]
      BY <1>1, <1>2
    <2>2. Nears(Hop(t, q, v), t, u, v, i + 1)
      BY <1>1, <1>4, <2>1, HopNears
    <2> QED
      BY <1>1, <1>2, <2>1, <2>2
  <1>5. 0 \in Nat /\ 0 <= d
    BY <1>1
  <1> HIDE DEF P
  <1>6. d \in P
    BY <1>1, <1>3, <1>4, <1>5, ClimbsTo
  <1>7. p = g[d] /\ p \in WalksTo(t, N, adj, v) /\ Nears(p, t, u, v, d)
    BY <1>1, <1>2, <1>6 DEF P
  <1>8. p[Len(p)] = v
    <2>1. PICK x \in Wires(N) : x = p[Len(p)]
      BY <1>7 DEF WalksTo, Walks
    <2>2. SUFFICES ASSUME x # v PROVE FALSE
      BY <2>1
    <2>3. PICK a \in Nat : a = t.dist[x][v]
      BY DEF Routes, Tables
    <2>3a. PICK y \in Wires(N) : y = t.next[x][v]
      BY DEF Routes, Tables
    <2>3b. PICK b \in Nat : b = t.dist[y][v]
      BY DEF Routes, Tables
    <2>4. a + d <= d
      <3>1. p[Len(p)] = v \/ t.dist[p[Len(p)]][v] + d <= t.dist[u][v]
        BY <1>7, Zenon DEF Nears
      <3>2. x = v \/ a + d <= d
        BY <1>2a, <2>1, <2>3, <3>1, Zenon
      <3> QED
        BY <2>2, <3>2, Zenon
    <2>5. b + 1 <= a
      BY <1>7, <2>1, <2>2, <2>3, <2>3a, <2>3b, Zenon DEF Routes, Routed, WalksTo, Connected
    <2> QED
      BY <1>1, <2>4, <2>5
  <1> QED
    BY <1>7, <1>8 DEF Nears

(* Three CNOTs exchange the rows of two wires.                              *)
LEMMA SwapIs ==
    ASSUME NEW N \in Nat, NEW m \in Mat(N), NEW a \in Wires(N), NEW b \in Wires(N), a # b
    PROVE  /\ << <<a, b>>, <<b, a>>, <<a, b>> >> \in Seq(Gates(N))
           /\ ApplyCnots(m, << <<a, b>>, <<b, a>>, <<a, b>> >>) \in Mat(N)
           /\ \A q \in Wires(N) : ApplyCnots(m, << <<a, b>>, <<b, a>>, <<a, b>> >>)[q] =
                IF q = a THEN m[b] ELSE IF q = b THEN m[a] ELSE m[q]
  <1>1. PICK g \in Gates(N) : g = <<a, b>>
    BY DEF Gates
  <1>2. PICK h \in Gates(N) : h = <<b, a>>
    BY DEF Gates
  <1>3. PICK s \in Seq(Gates(N)) : s = <<g, h, g>> /\ Len(s) = 3 /\ s[1] = g /\ s[2] = h /\ s[3] = g
    <2>1. PICK G : G = Gates(N)
      OBVIOUS
    <2>2. g \in G /\ h \in G
      BY <2>1
    <2>3. <<g, h, g>> \in Seq(G)
      BY <2>2
    <2>4. Len(<<g, h, g>>) = 3 /\ <<g, h, g>>[1] = g /\ <<g, h, g>>[2] = h /\ <<g, h, g>>[3] = g
      OBVIOUS
    <2> QED
      BY <2>1, <2>3, <2>4
  <1>4. PICK f \in [1 .. Len(s) + 1 -> Mat(N)] :
             /\ f[1] = m
             /\ \A i \in 1 .. Len(s) : f[i + 1] = Apply(f[i], s[i])
             /\ ApplyCnots(m, s) = f[Len(s) + 1]
    BY ApplyCnotsRuns
  <1>5. f[2] = Apply(m, g) /\ f[3] = Apply(f[2], h) /\ f[4] = Apply(f[3], g) /\ ApplyCnots(m, s) = f[4]
    <2>1. 1 \in 1 .. 3 /\ 2 \in 1 .. 3 /\ 3 \in 1 .. 3 /\ 1 + 1 = 2 /\ 2 + 1 = 3 /\ 3 + 1 = 4
      OBVIOUS
    <2> QED
      BY <1>3, <1>4, <2>1
  <1>8. PICK m1 \in Mat(N) : m1 = AddRow(m, a, b) /\ \A q \in Wires(N) : m1[q] = IF q = b THEN SymDiff(m[b], m[a]) ELSE m[q]
    BY AddRowTyped
  <1>9. PICK m2 \in Mat(N) : m2 = AddRow(m1, b, a) /\ \A q \in Wires(N) : m2[q] = IF q = a THEN SymDiff(m1[a], m1[b]) ELSE m1[q]
    BY AddRowTyped
  <1>10. PICK m3 \in Mat(N) : m3 = AddRow(m2, a, b) /\ \A q \in Wires(N) : m3[q] = IF q = b THEN SymDiff(m2[b], m2[a]) ELSE m2[q]
    BY AddRowTyped
  <1>11. g[1] = a /\ g[2] = b /\ h[1] = b /\ h[2] = a
    BY <1>1, <1>2
  <1>13. ApplyCnots(m, s) = m3
    BY <1>5, <1>8, <1>9, <1>10, <1>11 DEF Apply
  <1>14. ASSUME NEW q \in Wires(N) PROVE m3[q] = IF q = a THEN m[b] ELSE IF q = b THEN m[a] ELSE m[q]
    <2>1. m2[a] = SymDiff(m[a], SymDiff(m[b], m[a])) /\ m2[b] = SymDiff(m[b], m[a])
      BY <1>8, <1>9
    <2>2. m2[a] = m[b]
      BY <2>1 DEF SymDiff
    <2>3. m3[b] = SymDiff(SymDiff(m[b], m[a]), m[b])
      BY <1>10, <2>1, <2>2
    <2>4. m3[b] = m[a]
      BY <2>3 DEF SymDiff
    <2>5. m3[a] = m[b] /\ (q # a /\ q # b => m3[q] = m[q])
      BY <1>8, <1>9, <1>10, <2>2
    <2> QED
      BY <2>4, <2>5
  <1> QED
    BY <1>1, <1>2, <1>3, <1>13, <1>14

(* The swaps of a route carry the row of its first wire to the last but     *)
(* one, and leave the row of the last, whatever it is.                      *)
LEMMA SwapsCarry ==
    ASSUME NEW N \in Nat, NEW p \in Walks(N, Distinct(N)), Len(p) >= 2, NEW v \in Wires(N),
           \A k \in 1 .. Len(p) - 1 : p[k] # v,
           NEW m \in Mat(N), NEW a \in Mat(N), SameBut(m, a, v, N)
    PROVE  /\ Swaps(p) \in Seq(Gates(N))
           /\ SameBut(ApplyCnots(m, Swaps(p)), ApplyCnots(a, Swaps(p)), v, N)
           /\ ApplyCnots(m, Swaps(p))[p[Len(p) - 1]] = m[p[1]]
           /\ ApplyCnots(m, Swaps(p))[v] = m[v] /\ ApplyCnots(a, Swaps(p))[v] = a[v]
  <1>1. PICK l \in Nat : l = Len(p) - 1 /\ l >= 1
    BY DEF Walks
  <1>1a. PICK g \in [1 .. Len(p) - 1 -> Seq(Joined(N, Distinct(N)))] :
             /\ g[1] = << >>
             /\ \A i \in 1 .. Len(p) - 1 - 1 : g[i + 1] = g[i] \o Swap(p, i)
             /\ Swaps(p) = g[Len(p) - 1]
    BY SwapsRuns
  <1>2. /\ g \in [1 .. l -> Seq(Gates(N))]
        /\ g[1] = << >>
        /\ \A i \in 1 .. l - 1 : g[i + 1] = g[i] \o Swap(p, i)
        /\ Swaps(p) = g[l]
    BY <1>1, <1>1a, JoinedDistinct
  <1> DEFINE P == {i \in 1 .. l : /\ SameBut(ApplyCnots(m, g[i]), ApplyCnots(a, g[i]), v, N)
                                  /\ ApplyCnots(m, g[i])[p[i]] = m[p[1]]
                                  /\ ApplyCnots(m, g[i])[v] = m[v] /\ ApplyCnots(a, g[i])[v] = a[v]}
  <1>3. 1 \in P
    <2>1. 1 \in 1 .. l
      BY <1>1
    <2> QED
      BY <1>2, <2>1, ApplyNone
  <1>4. ASSUME NEW i \in 1 .. l - 1, i \in P PROVE i + 1 \in P
    <2>1. i \in 1 .. l /\ i + 1 \in 1 .. l /\ i \in 1 .. Len(p) /\ i + 1 \in 1 .. Len(p)
          /\ i \in 1 .. Len(p) - 1 /\ i + 1 \in 1 .. Len(p) - 1
      BY <1>1
    <2>2. PICK x \in Wires(N) : x = p[i]
      BY <2>1 DEF Walks
    <2>3. PICK y \in Wires(N) : y = p[i + 1]
      BY <2>1 DEF Walks
    <2>4. x # y /\ x # v /\ y # v
      <3>1. {x, y} \in Distinct(N)
        BY <2>1, <2>2, <2>3 DEF Walks
      <3> QED
        BY <2>1, <2>2, <2>3, <3>1, DistinctIs
    <2>5. PICK s \in Seq(Gates(N)) : s = << <<x, y>>, <<y, x>>, <<x, y>> >>
      BY <2>4, SwapIs
    <2>6. PICK h \in Seq(Gates(N)) : h = g[i]
      BY <1>2, <2>1
    <2>7. g[i + 1] = h \o s
      BY <1>2, <2>2, <2>3, <2>5, <2>6 DEF Swap
    <2>8. PICK b \in Mat(N) : b = ApplyCnots(m, h)
      BY ApplyCnotsTyped
    <2>9. PICK c \in Mat(N) : c = ApplyCnots(a, h)
      BY ApplyCnotsTyped
    <2>10. SameBut(b, c, v, N) /\ b[x] = m[p[1]] /\ b[v] = m[v] /\ c[v] = a[v]
      BY <1>4, <2>2, <2>6, <2>8, <2>9
    <2>11. PICK d \in Mat(N) : /\ d = ApplyCnots(b, s)
                               /\ \A q \in Wires(N) : d[q] = IF q = x THEN b[y] ELSE IF q = y THEN b[x] ELSE b[q]
      BY <2>4, <2>5, SwapIs
    <2>12. PICK e \in Mat(N) : /\ e = ApplyCnots(c, s)
                               /\ \A q \in Wires(N) : e[q] = IF q = x THEN c[y] ELSE IF q = y THEN c[x] ELSE c[q]
      BY <2>4, <2>5, SwapIs
    <2>13. ApplyCnots(m, g[i + 1]) = d /\ ApplyCnots(a, g[i + 1]) = e
      BY <2>7, <2>8, <2>9, <2>11, <2>12, ApplyBoth
    <2>14. SameBut(d, e, v, N) /\ d[y] = m[p[1]] /\ d[v] = m[v] /\ e[v] = a[v]
      BY <2>4, <2>10, <2>11, <2>12 DEF SameBut
    <2> QED
      BY <2>1, <2>3, <2>13, <2>14
  <1> HIDE DEF P
  <1>5. l \in P
    BY <1>1, <1>3, <1>4, ClimbsTo
  <1>6. l \in 1 .. l
    BY <1>1
  <1> QED
    BY <1>1, <1>2, <1>5, <1>6 DEF P

(* apply_remote_cnot: what is done along the route is a CNOT of its ends.   *)
LEMMA RemoteApplies ==
    ASSUME NEW N \in Nat, NEW adj, NEW t \in Routes(N, adj), NEW g \in Gates(N), Connected(t, g[1], g[2]), NEW m \in Mat(N)
    PROVE  RemoteCnot(t, g) \in Seq(Gates(N)) /\ ApplyCnots(m, RemoteCnot(t, g)) = Apply(m, g)
  <1>1. PICK u, v \in Wires(N) : u = g[1] /\ v = g[2] /\ u # v
    BY DEF Gates
  <1>2. t \in Routes(N, Distinct(N)) /\ Connected(t, u, v)
    BY <1>1, RoutesDistinct
  <1>3. PICK p : p = Route(t, u, v)
    OBVIOUS
  <1>4. p \in Walks(N, Distinct(N)) /\ Len(p) >= 2
    BY <1>1, <1>2, <1>3, RouteWalks
  <1>5. p[1] = u /\ p[Len(p)] = v /\ \A k \in 1 .. Len(p) - 1 : p[k] # v
    BY <1>2, <1>3, RouteReaches
  <1>6. PICK z : z = p[Len(p) - 1]
    OBVIOUS
  <1>7. z \in Wires(N) /\ z # v
    BY <1>4, <1>5, <1>6 DEF Walks
  <1>8. PICK a \in Mat(N) : a = AddRow(m, u, v) /\ \A q \in Wires(N) : a[q] = IF q = v THEN SymDiff(m[v], m[u]) ELSE m[q]
    BY <1>1, AddRowTyped
  <1>9. SameBut(m, a, v, N)
    BY <1>8 DEF SameBut
  <1>10. PICK s : s = Swaps(p)
    OBVIOUS
  <1>11. /\ s \in Seq(Gates(N))
         /\ SameBut(ApplyCnots(m, s), ApplyCnots(a, s), v, N)
         /\ ApplyCnots(m, s)[z] = m[u] /\ ApplyCnots(m, s)[v] = m[v] /\ ApplyCnots(a, s)[v] = a[v]
    BY <1>4, <1>5, <1>6, <1>9, <1>10, SwapsCarry
  <1>12. PICK b \in Mat(N) : b = ApplyCnots(m, s)
    BY <1>11, ApplyCnotsTyped
  <1>13. PICK c \in Mat(N) : c = ApplyCnots(a, s)
    BY <1>11, ApplyCnotsTyped
  <1>14. PICK x \in Gates(N) : x = <<z, v>>
    BY <1>7 DEF Gates
  <1>15. Apply(b, x) = c
    <2>1. PICK d \in Mat(N) : d = AddRow(b, z, v) /\ \A q \in Wires(N) : d[q] = IF q = v THEN SymDiff(b[v], b[z]) ELSE b[q]
      BY <1>7, AddRowTyped
    <2>2. \A q \in Wires(N) : d[q] = c[q]
      BY <1>8, <1>11, <1>12, <1>13, <2>1 DEF SameBut
    <2>3. d = c
      BY <2>2 DEF Mat
    <2> QED
      BY <1>14, <2>1, <2>3 DEF Apply
  <1>16. PICK r \in Seq(Gates(N)) : r = Reverse(s) /\ ApplyCnots(c, r) = a
    BY <1>11, <1>13, ApplyBack
  <1>17. PICK y \in Seq(Gates(N)) : y = Append(s, x)
    BY <1>11, AppendIn, Zenon
  <1>18. ApplyCnots(m, y) = c
    BY <1>11, <1>12, <1>15, <1>17, ApplyMore
  <1>19. y \o r \in Seq(Gates(N)) /\ ApplyCnots(m, y \o r) = a
    BY <1>16, <1>18, ApplyBoth
  <1>20. RemoteCnot(t, g) = y \o r
    <2>1. <<p[Len(p) - 1], p[Len(p)]>> = x
      BY <1>5, <1>6, <1>14
    <2>2. s \o <<x>> = y
      BY <1>11, <1>17
    <2> QED
      BY <1>1, <1>2, <1>3, <1>10, <1>16, <2>1, <2>2 DEF RemoteCnot
  <1> QED
    BY <1>1, <1>8, <1>19, <1>20 DEF Apply

(* Routed one by one, the CNOTs are what they were.                         *)
LEMMA RouteAllApplies ==
    ASSUME NEW N \in Nat, NEW adj, NEW t \in Routes(N, adj), \A u, v \in Wires(N) : Connected(t, u, v),
           NEW cnots \in Seq(Gates(N)), NEW m \in Mat(N)
    PROVE  RouteAll(t, cnots) \in Seq(Gates(N)) /\ ApplyCnots(m, RouteAll(t, cnots)) = ApplyCnots(m, cnots)
  <1>1. PICK k \in Nat : k = Len(cnots)
    OBVIOUS
  <1>1a. t \in Routes(N, Distinct(N))
    BY RoutesDistinct
  <1>1b. PICK g \in [1 .. Len(cnots) + 1 -> Seq(Joined(N, Distinct(N)))] :
             /\ g[1] = << >>
             /\ \A i \in 1 .. Len(cnots) : g[i + 1] = g[i] \o RemoteCnot(t, cnots[i])
             /\ RouteAll(t, cnots) = g[Len(cnots) + 1]
    BY <1>1a, RouteAllRuns, ZenonT(30)
  <1>2. /\ g \in [1 .. k + 1 -> Seq(Gates(N))]
        /\ g[1] = << >>
        /\ \A i \in 1 .. k : g[i + 1] = g[i] \o RemoteCnot(t, cnots[i])
        /\ RouteAll(t, cnots) = g[k + 1]
    BY <1>1, <1>1b, JoinedDistinct
  <1>3. PICK f \in [1 .. k + 1 -> Mat(N)] :
             /\ f[1] = m
             /\ \A i \in 1 .. k : f[i + 1] = Apply(f[i], cnots[i])
             /\ ApplyCnots(m, cnots) = f[k + 1]
    BY <1>1, ApplyCnotsRuns
  <1> DEFINE P == {i \in 1 .. k + 1 : ApplyCnots(m, g[i]) = f[i]}
  <1>4. 1 \in P
    BY <1>2, <1>3, ApplyNone
  <1>5. ASSUME NEW i \in 1 .. k, i \in P PROVE i + 1 \in P
    <2>1. PICK c \in Gates(N) : c = cnots[i]
      BY <1>1
    <2>2. Connected(t, c[1], c[2])
      BY DEF Gates
    <2>2a. i \in 1 .. k + 1
      OBVIOUS
    <2>3. PICK s \in Seq(Gates(N)) : s = g[i]
      BY <1>2, <2>2a
    <2>4. PICK b \in Mat(N) : b = f[i]
      BY <1>3
    <2>5. PICK r \in Seq(Gates(N)) : r = RemoteCnot(t, c) /\ ApplyCnots(b, r) = Apply(b, c)
      BY <2>2, RemoteApplies
    <2>6. ApplyCnots(m, s) = b
      BY <1>5, <2>3, <2>4
    <2>7. ApplyCnots(m, s \o r) = Apply(b, c)
      BY <2>5, <2>6, ApplyBoth
    <2>8. g[i + 1] = s \o r /\ f[i + 1] = Apply(b, c)
      BY <1>2, <1>3, <2>1, <2>3, <2>4, <2>5
    <2>9. i + 1 \in 1 .. k + 1
      OBVIOUS
    <2> QED
      BY <2>7, <2>8, <2>9
  <1> HIDE DEF P
  <1>6. 1 \in Nat /\ k + 1 \in Nat /\ 1 <= k + 1 /\ k + 1 \in 1 .. k + 1 /\ k + 1 - 1 = k
    OBVIOUS
  <1>7. k + 1 \in P
    BY <1>4, <1>5, <1>6, ClimbsTo
  <1> QED
    BY <1>2, <1>3, <1>6, <1>7 DEF P

(* A step of the call, conjunct by conjunct.                                *)
LEMMA RootedNext ==
    ASSUME TypeInv, job' = job,
           job.kind = "steiner" =>
             /\ pc' \notin Ended => wires' \in Mat(n) /\ (\E A : out' \in Seq(Ops(A))) /\ Trace(out').m = wires'
             /\ pc' \notin Ended \cup {"tree"} => wires' = IdentityMap(n)
             /\ pc' = "tree" => Halfway(tree', wires')
             /\ pc' \in {"lift", "terms", "tree", "lower"} => pass'.m = Target
             /\ pc' \in {"upper", "fallback"} => pass'.want = Target
             /\ pc' \in {"lower", "upper", "fallback"} => terms' = Empty
             /\ pc' = "done" /\ (\A u, v \in Wires(n) : Connected(topo', u, v)) /\ Invertible(Target) => Trace(out').m = Target
    PROVE  Rooted'
  <1>1. n' = n /\ Ps' = Ps
    BY JobStays
  <1>2. Target' = Target
    BY <1>1 DEF Target
  <1>3. Trace(out)' = Trace(out')
    BY <1>1, TraceNext
  <1>4. \A A : Ops(A)' = Ops(A)
    BY <1>1 DEF Ops
  <1>5. Halfway(tree, wires)' <=> Halfway(tree', wires')
    BY <1>1 DEF Halfway, Shaped, Gathered
  <1>6. job.kind = "steiner" => SteinerMapBuilt'
    BY <1>1, <1>2, <1>3 DEF SteinerMapBuilt, Linked
  <1>7. job.kind = "steiner" /\ pc' \notin Ended => (\E A : out \in Seq(Ops(A)))'
    <2> SUFFICES ASSUME job.kind = "steiner", pc' \notin Ended PROVE (\E A : out \in Seq(Ops(A)))'
      OBVIOUS
    <2>1. PICK A : out' \in Seq(Ops(A))
      OBVIOUS
    <2>2. (out \in Seq(Ops(A)))'
      BY <1>1, <2>1 DEF Ops
    <2> QED
      BY <2>2
  <1> QED
    BY <1>1, <1>2, <1>3, <1>5, <1>6, <1>7 DEF Rooted, Ended

(* The call starts with the inputs on its wires and an empty circuit.       *)
LEMMA InitRooted == Init => Rooted
  <1> SUFFICES ASSUME Init PROVE Rooted
    OBVIOUS
  <1>1. wires = IdentityMap(n) /\ out = << >> /\ pc = "start" /\ n \in Nat
    BY JobsAssumption DEF Init, n
  <1>2. wires \in Mat(n) /\ Trace(out).m = wires
    BY <1>1, IdentityTyped, TraceEmpty
  <1>3. << >> \in Seq(Ops({}))
    OBVIOUS
  <1> QED
    BY <1>1, <1>2, <1>3 DEF Rooted, SteinerMapBuilt, Ended

(* The steps that leave the wires and the circuit as they are.              *)
LEMMA PlainRooted == ASSUME TypeInv, Rooted, Start \/ Lift \/ Lifted \/ SteinerRest \/ Lower PROVE Rooted'
  <1>1. job' = job /\ wires' = wires /\ pc \notin Ended \cup {"tree"} /\ pc' \notin {"done", "tree", "costly"}
    BY DEF Start, Lift, Lifted, SteinerRest, Lower, Failed, Ended
  <1>2. CASE job.kind # "steiner"
    BY <1>1, <1>2, RootedNext
  <1>3. CASE job.kind = "steiner"
    <2>1. out' = out
      BY <1>3 DEF Start, Lift, Lifted, SteinerRest, Lower
    <2>2. wires \in Mat(n) /\ (\E A : out \in Seq(Ops(A))) /\ Trace(out).m = wires /\ wires = IdentityMap(n)
      BY <1>1, <1>3 DEF Rooted
    <2>3. pc' \in {"lift", "terms", "lower"} => pass'.m = Target
      BY <1>3 DEF Start, Lift, Lifted, SteinerRest, Lower, Failed, Rooted, TypeInv, PassFits
    <2>4. pc' \in {"upper", "fallback"} => pass'.want = Target
      BY <1>3 DEF Start, Lift, Lifted, SteinerRest, Lower, Failed, Rooted, TypeInv, PassFits
    <2>5. pc' \in {"lower", "upper", "fallback"} => terms' = Empty
      BY <1>3 DEF Start, Lift, Lifted, SteinerRest, Lower, Failed, Rooted
    <2> QED
      BY <1>1, <1>3, <2>1, <2>2, <2>3, <2>4, <2>5, RootedNext
  <1> QED
    BY <1>2, <1>3

(* A tree is picked: its root and its parents are in it, no wire is folded. *)
LEMMA PickTermRooted == ASSUME TypeInv, Rooted, PickTerm PROVE Rooted'
  <1>1. job' = job /\ job \in Jobs /\ n \in Nat /\ pc = "terms" /\ pc' = "tree" /\ job.kind = "steiner"
    BY JobStays DEF PickTerm, TypeInv, KindsFit
  <1>2. UNCHANGED <<wires, out, pass>>
    BY DEF PickTerm
  <1>3. PICK p \in DOMAIN terms : \E f \in Parents(TreeEdges(p, topo), LeastOf(p)) :
               tree' = [root |-> LeastOf(p), parent |-> f, folded |-> << >>, ticks |-> terms[p]]
    BY DEF PickTerm
  <1>4. PICK f \in Parents(TreeEdges(p, topo), LeastOf(p)) :
          tree' = [root |-> LeastOf(p), parent |-> f, folded |-> << >>, ticks |-> terms[p]]
    BY <1>3
  <1>5. p \in SUBSET Wires(n) /\ p # {}
    BY <1>1 DEF TypeInv, TermsFit, Parity
  <1>6. LeastOf(p) \in Wires(n)
    <2>1. p \in SUBSET Nat
      BY <1>5 DEF Wires
    <2> QED
      BY <1>5, <2>1, LeastOfIs
  <1>7. topo \in Routes(n, Distinct(n))
    BY <1>1, RoutesDistinct DEF TypeInv, TopoFits
  <1>8. DOMAIN f \in SUBSET Wires(n) /\ \A u \in DOMAIN f : f[u] \in Wires(n) /\ {u, f[u]} \in Distinct(n)
    BY <1>1, <1>4, <1>5, <1>7, ParentsNear
  <1>9. f \in [Reached(TreeEdges(p, topo), LeastOf(p)) \ {LeastOf(p)} -> Reached(TreeEdges(p, topo), LeastOf(p))]
    BY Zenon DEF Parents
  <1>10. PICK tr : tr = tree'
    OBVIOUS
  <1>11. tr.root = LeastOf(p) /\ tr.parent = f /\ tr.folded = << >>
    BY <1>4, <1>10
  <1>12. Shaped(tr)
    <2>1. \A u \in DOMAIN f : f[u] \in Spans(tr) /\ f[u] # u
      <3>1. \A u \in DOMAIN f : f[u] \in {LeastOf(p)} \cup DOMAIN f
        BY <1>9
      <3>2. \A u \in DOMAIN f : f[u] # u
        BY <1>1, <1>8, DistinctIs
      <3> QED
        BY <1>11, <3>1, <3>2 DEF Spans
    <2>2. LeastOf(p) \notin DOMAIN f
      BY <1>9
    <2>3. << >> \in Seq(DOMAIN f) /\ Range(<< >>) = {}
      BY DEF Range
    <2> QED
      BY <1>6, <1>8, <1>11, <2>1, <2>2, <2>3 DEF Shaped
  <1>13. wires = IdentityMap(n)
    BY <1>1 DEF Rooted, Ended
  <1>14. Gathered(tr, wires)
    <2>1. Spans(tr) \subseteq Wires(n) /\ Range(tr.folded) = {}
      BY <1>6, <1>8, <1>11 DEF Spans, Range
    <2>2. \A q \in Wires(n) : wires[q] = {q}
      BY <1>1, <1>13, IdentityTyped
    <2> QED
      BY <2>1, <2>2 DEF Gathered
  <1>15. wires = ApplyCnots(IdentityMap(n), Folds(tr.folded, tr.parent))
    <2>1. Folds(<< >>, f) = << >>
      BY DEF Folds
    <2> QED
      BY <1>1, <1>11, <1>13, <2>1, IdentityTyped, ApplyNone
  <1>16. Halfway(tr, wires)
    BY <1>12, <1>14, <1>15 DEF Halfway
  <1> QED
    BY <1>1, <1>2, <1>10, <1>16, RootedNext DEF Rooted, Ended

(* One wire more on a list.                                                 *)
LEMMA AppendRange ==
    ASSUME NEW A, NEW s \in Seq(A), NEW x \in A
    PROVE  /\ Append(s, x) \in Seq(A) /\ Range(Append(s, x)) = Range(s) \cup {x}
           /\ \A f : Folds(Append(s, x), f) = Append(Folds(s, f), <<x, f[x]>>)
  <1>1. PICK k \in Nat : k = Len(s) /\ DOMAIN s = 1 .. k
    OBVIOUS
  <1>2. PICK e \in Seq(A) : e = Append(s, x)
    BY AppendIn, Zenon
  <1>3. Len(e) = k + 1 /\ e[k + 1] = x /\ (\A i \in 1 .. k : e[i] = s[i]) /\ DOMAIN e = 1 .. k + 1
    BY <1>1, <1>2
  <1>4. Range(e) = Range(s) \cup {x}
    <2>1. \A i \in 1 .. k + 1 : i \in 1 .. k \/ i = k + 1
      OBVIOUS
    <2>2. \A i \in 1 .. k : i \in 1 .. k + 1
      OBVIOUS
    <2>3. k + 1 \in 1 .. k + 1
      OBVIOUS
    <2> QED
      BY <1>1, <1>3, <2>1, <2>2, <2>3 DEF Range
  <1>5. ASSUME NEW f PROVE Folds(e, f) = Append(Folds(s, f), <<x, f[x]>>)
    <2>1. PICK F : F = Folds(s, f)
      OBVIOUS
    <2>2. F = [i \in 1 .. k |-> <<s[i], f[s[i]]>>]
      BY <1>1, <2>1 DEF Folds
    <2>3. F \in Seq({F[i] : i \in 1 .. k}) /\ Len(F) = k
      BY <2>2
    <2>4. Append(F, <<x, f[x]>>) = [i \in 1 .. k + 1 |-> IF i = k + 1 THEN <<x, f[x]>> ELSE F[i]]
      BY <2>3
    <2>5. Folds(e, f) = [i \in 1 .. k + 1 |-> <<e[i], f[e[i]]>>]
      BY <1>3 DEF Folds
    <2>6. \A i \in 1 .. k + 1 : i # k + 1 => i \in 1 .. k
      OBVIOUS
    <2>7. \A i \in 1 .. k + 1 : <<e[i], f[e[i]]>> = IF i = k + 1 THEN <<x, f[x]>> ELSE F[i]
      BY <1>3, <2>2, <2>6
    <2> QED
      BY <2>1, <2>4, <2>5, <2>7
  <1> QED
    BY <1>2, <1>4, <1>5

(* The CNOTs of the folds are CNOTs of two wires.                           *)
LEMMA FoldsTyped ==
    ASSUME NEW tr, Shaped(tr)
    PROVE  Folds(tr.folded, tr.parent) \in Seq(Gates(n))
  <1>1. PICK k \in Nat : k = Len(tr.folded) /\ DOMAIN tr.folded = 1 .. k
    BY DEF Shaped
  <1>2. PICK F : F = Folds(tr.folded, tr.parent)
    OBVIOUS
  <1>3. F = [i \in 1 .. k |-> F[i]]
    BY <1>1, <1>2 DEF Folds
  <1>4. ASSUME NEW i \in 1 .. k PROVE F[i] \in Gates(n)
    <2>1. PICK u \in DOMAIN tr.parent : u = tr.folded[i]
      BY <1>1 DEF Shaped
    <2>2. F[i] = <<u, tr.parent[u]>>
      BY <1>1, <1>2, <2>1 DEF Folds
    <2>3. u \in Wires(n) /\ tr.parent[u] \in Wires(n) /\ u # tr.parent[u]
      BY DEF Shaped, Spans
    <2> QED
      BY <2>2, <2>3 DEF Gates
  <1> QED
    BY <1>2, <1>3, <1>4, ListIs

(* A wire folded into its parent: the parent has what both had.             *)
LEMMA FoldGathers ==
    ASSUME n \in Nat, NEW tr, NEW w \in Mat(n), Shaped(tr), Gathered(tr, w),
           NEW u \in DOMAIN tr.parent, u \notin Range(tr.folded),
           \A v \in DOMAIN tr.parent : tr.parent[v] = u => v \in Range(tr.folded),
           NEW to, to.root = tr.root, to.parent = tr.parent, to.folded = Append(tr.folded, u),
           NEW a \in Mat(n), a = AddRow(w, u, tr.parent[u])
    PROVE  Shaped(to) /\ Gathered(to, a)
  <1>1. to.folded \in Seq(DOMAIN tr.parent) /\ Range(to.folded) = Range(tr.folded) \cup {u}
    <2>1. tr.folded \in Seq(DOMAIN tr.parent)
      BY DEF Shaped
    <2>2. PICK D : D = DOMAIN tr.parent
      OBVIOUS
    <2>3. PICK s \in Seq(D) : s = tr.folded
      BY <2>1, <2>2
    <2>4. Append(s, u) \in Seq(D) /\ Range(Append(s, u)) = Range(s) \cup {u}
      BY <2>2, AppendRange
    <2> QED
      BY <2>2, <2>3, <2>4
  <1>2. PICK S : S = Spans(tr) /\ S = Spans(to)
    BY DEF Spans
  <1>3. Shaped(to)
    <2>1. /\ to.root \in Wires(n) /\ to.root \notin DOMAIN to.parent /\ DOMAIN to.parent \subseteq Wires(n)
          /\ to.folded \in Seq(DOMAIN to.parent)
      BY <1>1, Zenon DEF Shaped
    <2>2. \A q \in DOMAIN to.parent : to.parent[q] \in Spans(to) /\ to.parent[q] # q
      BY <1>2, Zenon DEF Shaped
    <2>3. \A r \in Range(to.folded) : \A q \in DOMAIN to.parent : to.parent[q] = r => q \in Range(to.folded)
      <3>1. \A r \in Range(tr.folded) : \A q \in DOMAIN tr.parent : tr.parent[q] = r => q \in Range(tr.folded)
        BY Zenon DEF Shaped
      <3> QED
        BY <1>1, <3>1
    <2> QED
      BY <2>1, <2>2, <2>3, Zenon DEF Shaped
  <1>4. PICK O : O = Spans(tr) \ Range(tr.folded)
    OBVIOUS
  <1>5. Spans(to) \ Range(to.folded) = O \ {u}
    BY <1>1, <1>2, <1>4
  <1>6. PICK p : p = tr.parent[u]
    OBVIOUS
  <1>7. p \in O /\ u \in O /\ p # u /\ p \in Wires(n) /\ u \in Wires(n) /\ O \subseteq Wires(n)
    <2>1. p \in Spans(tr) /\ p # u /\ u \in Spans(tr) /\ u \in Wires(n) /\ Spans(tr) \subseteq Wires(n)
      BY <1>6 DEF Shaped, Spans
    <2>2. p \notin Range(tr.folded)
      BY <1>6 DEF Shaped
    <2> QED
      BY <1>4, <2>1, <2>2
  <1>8. \A q \in Wires(n) : a[q] = IF q = p THEN SymDiff(w[p], w[u]) ELSE w[q]
    BY <1>6, <1>7, AddRowTyped
  <1>9. w[p] \cap w[u] = {}
    BY <1>4, <1>7 DEF Gathered
  <1>10. a[p] = w[p] \cup w[u] /\ \A q \in O : q # p => a[q] = w[q]
    BY <1>7, <1>8, <1>9 DEF SymDiff
  <1>11. /\ \A q \in O : w[q] \subseteq S
         /\ \A x \in S : \E q \in O : x \in w[q]
         /\ \A q, r \in O : q # r => w[q] \cap w[r] = {}
    BY <1>2, <1>4 DEF Gathered
  <1>12. \A q \in O \ {u} : a[q] \subseteq S
    BY <1>7, <1>10, <1>11
  <1>13. ASSUME NEW x \in S PROVE \E q \in O \ {u} : x \in a[q]
    <2>1. PICK q \in O : x \in w[q]
      BY <1>11
    <2>2. CASE q = u
      BY <1>7, <1>10, <2>1, <2>2
    <2>3. CASE q # u
      BY <1>10, <2>1, <2>3
    <2> QED
      BY <2>2, <2>3
  <1>14. ASSUME NEW q \in O \ {u}, NEW r \in O \ {u}, q # r PROVE a[q] \cap a[r] = {}
    <2>1. CASE q = p
      <3>1. a[q] = w[p] \cup w[u] /\ a[r] = w[r]
        BY <1>10, <1>14, <2>1
      <3>2. w[p] \cap w[r] = {} /\ w[u] \cap w[r] = {}
        BY <1>7, <1>11, <1>14, <2>1
      <3> QED
        BY <3>1, <3>2
    <2>2. CASE r = p
      <3>1. a[r] = w[p] \cup w[u] /\ a[q] = w[q]
        BY <1>10, <1>14, <2>2
      <3>2. w[p] \cap w[q] = {} /\ w[u] \cap w[q] = {}
        BY <1>7, <1>11, <1>14, <2>2
      <3> QED
        BY <3>1, <3>2
    <2>3. CASE q # p /\ r # p
      BY <1>10, <1>11, <1>14, <2>3
    <2> QED
      BY <2>1, <2>2, <2>3
  <1>15. Gathered(to, a)
    BY <1>2, <1>5, <1>12, <1>13, <1>14 DEF Gathered
  <1> QED
    BY <1>3, <1>15

(* A fold is a CNOT of two wires of the tree, and leaves it half folded.    *)
LEMMA FoldInRooted == ASSUME TypeInv, Rooted, FoldIn PROVE Rooted'
  <1>1. job' = job /\ job \in Jobs /\ n \in Nat /\ pc = "tree" /\ pc' = "tree" /\ job.kind = "steiner"
    BY JobStays DEF FoldIn, TypeInv, KindsFit
  <1>2. pass' = pass
    BY DEF FoldIn
  <1>3. PICK u \in DOMAIN tree.parent \ Range(tree.folded) :
       /\ \A v \in DOMAIN tree.parent : tree.parent[v] = u => v \in Range(tree.folded)
       /\ tree' = [tree EXCEPT !.folded = Append(@, u)]
       /\ wires' = AddRow(wires, u, tree.parent[u])
       /\ out' = Append(out, Cx(<<u, tree.parent[u]>>))
    BY DEF FoldIn
  <1>4. PICK tr : tr = tree
    OBVIOUS
  <1>5. PICK to : to = tree'
    OBVIOUS
  <1>6. tr = [root |-> tr.root, parent |-> tr.parent, folded |-> tr.folded, ticks |-> tr.ticks]
    BY <1>1, <1>4 DEF TypeInv, TreeFits
  <1>7. to.root = tr.root /\ to.parent = tr.parent /\ to.folded = Append(tr.folded, u)
    BY <1>3, <1>4, <1>5, <1>6
  <1>8. PICK w \in Mat(n) : w = wires /\ Trace(out).m = w
    BY <1>1 DEF Rooted, Ended
  <1>9. PICK A : out \in Seq(Ops(A))
    BY <1>1 DEF Rooted, Ended
  <1>10. Shaped(tr) /\ Gathered(tr, w) /\ w = ApplyCnots(IdentityMap(n), Folds(tr.folded, tr.parent))
    BY <1>1, <1>4, <1>8 DEF Rooted, Halfway
  <1>11. PICK p \in Wires(n) : p = tr.parent[u]
    BY <1>3, <1>4, <1>10 DEF Shaped, Spans
  <1>12. u \in Wires(n) /\ u # p
    BY <1>3, <1>4, <1>10, <1>11 DEF Shaped
  <1>13. PICK a \in Mat(n) : a = AddRow(w, u, p)
    BY <1>1, <1>12, AddRowTyped
  <1>14. wires' = a /\ out' = Append(out, Cx(<<u, p>>))
    BY <1>3, <1>4, <1>8, <1>11, <1>13
  <1>15. Shaped(to) /\ Gathered(to, a)
    BY <1>1, <1>3, <1>4, <1>7, <1>10, <1>11, <1>13, FoldGathers
  <1>16. a = ApplyCnots(IdentityMap(n), Folds(to.folded, to.parent))
    <2>1. PICK F \in Seq(Gates(n)) : F = Folds(tr.folded, tr.parent)
      BY <1>10, FoldsTyped
    <2>2. PICK g : g = <<u, p>>
      OBVIOUS
    <2>2d. g[1] = u /\ g[2] = p
      BY <2>2
    <2>2a. g \in Gates(n)
      BY <1>12, <2>2 DEF Gates
    <2>2b. tr.folded \in Seq(DOMAIN tr.parent) /\ u \in DOMAIN tr.parent
      BY <1>3, <1>4, <1>10 DEF Shaped
    <2>2c. Folds(Append(tr.folded, u), tr.parent) = Append(Folds(tr.folded, tr.parent), <<u, tr.parent[u]>>)
      BY <2>2b, AppendRange
    <2>3. Folds(to.folded, to.parent) = Append(F, g)
      BY <1>7, <1>11, <2>1, <2>2, <2>2c
    <2>4. ApplyCnots(IdentityMap(n), Append(F, g)) = Apply(w, g)
      BY <1>1, <1>10, <2>1, <2>2a, IdentityTyped, ApplyMore
    <2> QED
      BY <1>13, <2>2d, <2>3, <2>4 DEF Apply
  <1>17. out' \in Seq(Ops(A)) /\ Trace(out').m = wires'
    BY <1>1, <1>8, <1>9, <1>12, <1>13, <1>14, TraceCx
  <1>18. Halfway(tree', wires')
    BY <1>5, <1>14, <1>15, <1>16 DEF Halfway
  <1>19. \E B : out' \in Seq(Ops(B))
    BY <1>17
  <1>20. wires' \in Mat(n) /\ pass'.m = Target
    BY <1>1, <1>2, <1>14 DEF Rooted
  <1> QED
    BY <1>1, <1>17, <1>18, <1>19, <1>20, RootedNext DEF Ended

(* The whole tree on its root; the folds undone, the inputs again.          *)
LEMMA RotateRooted ==
    ASSUME TypeInv, Rooted, Rotate
    PROVE  /\ Rooted'
           /\ Len(Trace(out').rz) = Len(Trace(out).rz) + 1
           /\ ToSet(Trace(out').rz) = ToSet(Trace(out).rz) \cup {<<Spans(tree), tree.ticks>>}
  <1>1. job' = job /\ job \in Jobs /\ n \in Nat /\ pc = "tree" /\ pc' = "terms" /\ job.kind = "steiner"
    BY JobStays DEF Rotate, TypeInv, KindsFit
  <1>2. pass' = pass /\ Range(tree.folded) = DOMAIN tree.parent
    BY DEF Rotate
  <1>3. PICK w \in Mat(n) : w = wires /\ Trace(out).m = w
    BY <1>1 DEF Rooted, Ended
  <1>4. PICK A : out \in Seq(Ops(A))
    BY <1>1 DEF Rooted, Ended
  <1>5. Shaped(tree) /\ Gathered(tree, w) /\ w = ApplyCnots(IdentityMap(n), Folds(tree.folded, tree.parent))
    BY <1>1, <1>3 DEF Rooted, Halfway
  <1>6. PICK F \in Seq(Gates(n)) : F = Folds(tree.folded, tree.parent)
    BY <1>5, FoldsTyped
  <1>7. PICK b : b = [i \in DOMAIN tree.folded |->
                 <<Reverse(tree.folded)[i], tree.parent[Reverse(tree.folded)[i]]>>]
    OBVIOUS
  <1>8. out' = Append(out, Rz(tree.root, tree.ticks)) \o CxAll(b) /\ wires' = ApplyCnots(wires, b)
    BY <1>7 DEF Rotate
  <1>9. b = Reverse(F)
    <2>1. PICK s : s = tree.folded /\ s \in Seq(DOMAIN tree.parent)
      BY <1>5 DEF Shaped
    <2>2. PICK k \in Nat : k = Len(s) /\ DOMAIN s = 1 .. k
      BY <2>1
    <2>3. Reverse(s) = [i \in 1 .. k |-> s[(k - i) + 1]]
      BY <2>2 DEF Reverse
    <2>4. F = [i \in 1 .. k |-> <<s[i], tree.parent[s[i]]>>]
      BY <1>6, <2>1, <2>2 DEF Folds
    <2>5. Len(F) = k
      BY <2>4
    <2>6. Reverse(F) = [i \in 1 .. k |-> F[(k - i) + 1]]
      BY <2>5 DEF Reverse
    <2>7. \A i \in 1 .. k : (k - i) + 1 \in 1 .. k
      OBVIOUS
    <2>8. Reverse(F) = [i \in 1 .. k |-> <<s[(k - i) + 1], tree.parent[s[(k - i) + 1]]>>]
      BY <2>4, <2>6, <2>7
    <2>9. PICK B : B = Reverse(s)
      OBVIOUS
    <2>10. \A i \in 1 .. k : B[i] = s[(k - i) + 1]
      BY <2>3, <2>9
    <2>11. b = [i \in 1 .. k |-> <<B[i], tree.parent[B[i]]>>]
      BY <1>7, <2>1, <2>2, <2>9, Zenon
    <2>12. \A i \in 1 .. k : <<B[i], tree.parent[B[i]]>> = <<s[(k - i) + 1], tree.parent[s[(k - i) + 1]]>>
      BY <2>10, Zenon
    <2> QED
      BY <2>8, <2>11, <2>12
  <1>10. IdentityMap(n) \in Mat(n)
    BY <1>1, IdentityTyped
  <1>11. b \in Seq(Gates(n)) /\ ApplyCnots(w, b) = IdentityMap(n)
    BY <1>1, <1>5, <1>6, <1>9, <1>10, ApplyBack
  <1>12. wires' = IdentityMap(n)
    BY <1>3, <1>8, <1>11
  <1>13. PICK q \in Wires(n) : q = tree.root
    BY <1>5 DEF Shaped
  <1>14. PICK B : B = A \cup {tree.ticks}
    OBVIOUS
  <1>15. out \in Seq(Ops(B))
    BY <1>4, <1>14, OpsGrow
  <1>16. PICK z : z = Rz(q, tree.ticks)
    OBVIOUS
  <1>17. z \in Locals(B) /\ z.q = q /\ z.arg = tree.ticks
    BY <1>14, <1>16 DEF Rz, Locals
  <1>18. <<z>> \in Seq(Locals(B)) /\ Len(<<z>>) = 1 /\ <<z>>[1] = z
    BY <1>17
  <1>19. Append(out, z) = out \o <<z>>
    BY <1>15
  <1>20. PICK e \in Seq(Ops(B)) : e = out \o <<z>>
    BY <1>1, <1>15, <1>18, TraceLocals
  <1>21. /\ Trace(e).m = w /\ Len(Trace(e).rz) = Len(Trace(out).rz) + 1
         /\ ToSet(Trace(e).rz) = ToSet(Trace(out).rz) \cup Seen(w, <<z>>)
    BY <1>1, <1>3, <1>15, <1>18, <1>20, TraceLocals
  <1>22. Seen(w, <<z>>) = {<<w[q], tree.ticks>>}
    BY <1>17, <1>18 DEF Seen
  <1>23. w[q] = Spans(tree)
    <2>1. Spans(tree) \ Range(tree.folded) = {q}
      BY <1>2, <1>5, <1>13 DEF Shaped, Spans
    <2> QED
      BY <1>5, <2>1 DEF Gathered
  <1>24. out' = e \o CxAll(b)
    BY <1>8, <1>13, <1>16, <1>19, <1>20
  <1>25. out' \in Seq(Ops(B)) /\ Trace(out').m = ApplyCnots(w, b) /\ Trace(out').rz = Trace(e).rz
    BY <1>1, <1>11, <1>20, <1>21, <1>24, TraceCnots
  <1>26. Trace(out').m = wires' /\ wires' \in Mat(n) /\ \E C : out' \in Seq(Ops(C))
    BY <1>10, <1>11, <1>12, <1>25
  <1>27. pass'.m = Target
    BY <1>1, <1>2 DEF Rooted
  <1>28. Rooted'
    BY <1>1, <1>12, <1>26, <1>27, RootedNext DEF Ended
  <1> QED
    BY <1>21, <1>22, <1>23, <1>25, <1>28

(* Routed, CNOTs are CNOTs of two wires, whether the wires are linked or    *)
(* not.                                                                     *)
LEMMA RoutedTyped ==
    ASSUME NEW N \in Nat, NEW adj, NEW t \in Routes(N, adj), NEW cnots \in Seq(Gates(N))
    PROVE  RouteAll(t, cnots) \in Seq(Gates(N))
  <1>1. t \in Routes(N, Distinct(N))
    BY RoutesDistinct
  <1>2. RouteAll(t, cnots) \in Seq(Joined(N, Distinct(N)))
    BY <1>1, RouteAllJoined
  <1> QED
    BY <1>2, JoinedDistinct

(* The CNOTs of the two passes are CNOTs of two wires.                      *)
LEMMA UpperCnots ==
    ASSUME TypeInv, pc = "upper"
    PROVE  Stitch(pass.lower, LowerPass(pass.m, n, Size).ops) \in Seq(Gates(n)) /\ pass.want \in Mat(n)
  <1>1. job \in Jobs /\ n \in Nat
    BY JobTyped DEF TypeInv, KindsFit
  <1>2. PICK done : done = LowerPass(pass.m, n, Size)
    OBVIOUS
  <1>3. Size \in Nat \ {0}
    BY <1>1, JobTyped, SizeTyped
  <1>4. pass.m \in Mat(n) /\ pass.want \in Mat(n) /\ pass.lower \in Seq(Gates(n))
    BY DEF TypeInv, PassFits
  <1>5. done.ops \in Seq(Gates(n))
    BY <1>1, <1>2, <1>3, <1>4, LowerPassTyped DEF Elim
  <1> QED
    BY <1>1, <1>2, <1>4, <1>5, StitchTyped

(* The end of a Steiner call: its CNOTs, routed, on the inputs.             *)
LEMMA EmitSteiner ==
    ASSUME TypeInv, Rooted, pc \in {"upper", "fallback"}, job.kind = "steiner", NEW cnots \in Seq(Gates(n)), Emit(cnots)
    PROVE  /\ Linked => Trace(out').m = ApplyCnots(IdentityMap(n), cnots)
           /\ \E B : \E L \in Seq(Locals(B)) :
                /\ Len(L) = Cardinality(Offsets)
                /\ \A i \in 1 .. Len(L) : L[i].arg = 0
                /\ Len(Trace(out').rz) = Len(Trace(out).rz) + Len(L)
                /\ \E m : ToSet(Trace(out').rz) = ToSet(Trace(out).rz) \cup Seen(m, L)
  <1>1. n \in Nat /\ topo \in Routes(n, job.adj)
    BY JobTyped DEF TypeInv, KindsFit, TopoFits
  <1>2. PICK A : out \in Seq(Ops(A))
    BY DEF Rooted, Ended
  <1>3. wires = IdentityMap(n) /\ wires \in Mat(n) /\ Trace(out).m = wires
    BY DEF Rooted, Ended
  <1>4. PICK routed \in Seq(Gates(n)) : routed = RouteAll(topo, cnots)
    BY <1>1, RoutedTyped
  <1>5. routed = IF job.kind = "steiner" THEN RouteAll(topo, cnots) ELSE cnots
    BY <1>4
  <1>6. /\ Trace(out').m = ApplyCnots(Trace(out).m, routed)
        /\ \E B : \E L \in Seq(Locals(B)) :
             /\ Len(L) = IF job.kind = "matrix" THEN 0 ELSE Cardinality(Offsets)
             /\ \A i \in 1 .. Len(L) : L[i].arg = 0
             /\ Len(Trace(out').rz) = Len(Trace(out).rz) + Len(L)
             /\ ToSet(Trace(out').rz) = ToSet(Trace(out).rz) \cup Seen(ApplyCnots(Trace(out).m, routed), L)
    BY <1>1, <1>2, <1>3, <1>5, EmitRouted
  <1>7. Linked => ApplyCnots(wires, routed) = ApplyCnots(wires, cnots)
    BY <1>1, <1>3, <1>4, RouteAllApplies DEF Linked
  <1> QED
    BY <1>3, <1>6, <1>7

(* The passes, checked and routed, end a circuit that has the map of the call. *)
LEMMA UpperRooted == ASSUME TypeInv, Rooted, Upper PROVE Rooted'
  <1>1. job' = job /\ job \in Jobs /\ n \in Nat /\ pc = "upper" /\ UNCHANGED <<wires, pass, topo, terms>>
    BY JobStays DEF Upper
  <1>2. PICK done : done = LowerPass(pass.m, n, Size)
    OBVIOUS
  <1>3. PICK cnots : cnots = Stitch(pass.lower, done.ops)
    OBVIOUS
  <1>4. cnots \in Seq(Gates(n)) /\ pass.want \in Mat(n)
    BY <1>1, <1>2, <1>3, UpperCnots
  <1>5. PICK right \in BOOLEAN : right <=> (UnitDiagonal(done.m) /\ ApplyCnots(IdentityMap(n), cnots) = pass.want)
    OBVIOUS
  <1>6. IF right THEN Emit(cnots) ELSE pc' = Failed /\ out' = out
    BY <1>2, <1>3, <1>5 DEF Upper
  <1>7. CASE ~right
    <2>1. pc' \in {"fallback", "refused"} /\ out' = out
      BY <1>6, <1>7 DEF Failed
    <2> QED
      BY <1>1, <2>1, RootedNext DEF Rooted, Ended
  <1>8. CASE right
    <2>1. Emit(cnots) /\ pc' \in {"done", "costly"} /\ ApplyCnots(IdentityMap(n), cnots) = pass.want
      BY <1>5, <1>6, <1>8 DEF Emit
    <2>2. ASSUME job.kind = "steiner", Linked PROVE Trace(out').m = Target
      <3>1. Trace(out').m = ApplyCnots(IdentityMap(n), cnots)
        BY <1>1, <1>4, <2>1, <2>2, EmitSteiner
      <3>2. pass.want = Target
        BY <1>1, <2>2 DEF Rooted
      <3> QED
        BY <2>1, <3>1, <3>2
    <2>3. (\A u, v \in Wires(n) : Connected(topo', u, v)) => Linked
      BY <1>1 DEF Linked
    <2> QED
      BY <1>1, <2>1, <2>2, <2>3, RootedNext DEF Ended
  <1> QED
    BY <1>7, <1>8

(* Gauss-Jordan is for maps that are not invertible.                        *)
LEMMA FallbackRooted == ASSUME TypeInv, Answered, Rooted, Fallback PROVE Rooted'
  <1>1. job' = job /\ pc = "fallback" /\ pc' \in {"done", "costly"}
    BY DEF Fallback, Emit
  <1>2. ~Invertible(pass.want)
    BY <1>1 DEF Answered, Passes
  <1>3. job.kind = "steiner" => ~Invertible(Target)
    BY <1>1, <1>2 DEF Rooted
  <1> QED
    BY <1>1, <1>3, RootedNext DEF Ended

(* Nothing changes.                                                         *)
LEMMA StutterRooted == ASSUME TypeInv, Rooted, UNCHANGED vars PROVE Rooted'
  <1>1. UNCHANGED <<job, pc, terms, wires, tree, pass, topo, out>>
    BY DEF vars
  <1> QED
    BY <1>1, RootedNext DEF Rooted, SteinerMapBuilt, Linked

(* Each step keeps the wires, the tree and the map to be synthesized as they should be. *)
LEMMA StepRooted == TypeInv /\ Answered /\ Rooted /\ [Next]_vars => Rooted'
  <1> SUFFICES ASSUME TypeInv, Answered, Rooted, [Next]_vars PROVE Rooted'
    OBVIOUS
  <1>1. CASE Start \/ Lift \/ Lifted \/ SteinerRest \/ Lower
    BY <1>1, PlainRooted
  <1>2. CASE Pop \/ Share \/ Split \/ GrayRest
    <2>1. job' = job /\ pc \in {"pop", "common"}
      BY <1>2 DEF Pop, Share, Split, GrayRest
    <2>2. job.kind # "steiner"
      BY <2>1 DEF TypeInv, KindsFit
    <2> QED
      BY <2>1, <2>2, RootedNext
  <1>3. CASE PickTerm
    BY <1>3, PickTermRooted
  <1>4. CASE FoldIn
    BY <1>4, FoldInRooted
  <1>5. CASE Rotate
    BY <1>5, RotateRooted
  <1>6. CASE Upper
    BY <1>6, UpperRooted
  <1>7. CASE Fallback
    BY <1>7, FallbackRooted
  <1>8. CASE UNCHANGED vars
    BY <1>8, StutterRooted
  <1>9. CASE Stop
    BY <1>9, StutterRooted DEF Stop
  <1> QED
    BY <1>1, <1>2, <1>3, <1>4, <1>5, <1>6, <1>7, <1>8, <1>9 DEF Next

(* They always are.                                                         *)
LEMMA SpecRooted == Spec => [](TypeInv /\ Answered /\ Rooted)
  <1>1. Init => TypeInv /\ Answered /\ Rooted
    BY InitTypeInv, InitAnswered, InitRooted
  <1>2. (TypeInv /\ Answered /\ Rooted) /\ [Next]_vars => (TypeInv /\ Answered /\ Rooted)'
    BY StepTypeInv, StepAnswered, StepRooted
  <1> QED
    BY <1>1, <1>2, PTL DEF Spec

(* The circuit of a Steiner call, routed over a topology whose wires are    *)
(* all linked, has the invertible map of the call on its wires: the trees   *)
(* are undone, and each routed CNOT is the CNOT it stands for.              *)
THEOREM RoutedMapBuilt == Spec => []SteinerMapBuilt
  <1>1. TypeInv /\ Answered /\ Rooted => SteinerMapBuilt
    BY DEF Rooted, SteinerMapBuilt
  <1> QED
    BY <1>1, SpecRooted, PTL

(* A step of Prim's algorithm links one wire more.                          *)
LEMMA PrimSpans ==
    ASSUME n \in Nat, NEW adj, NEW t \in Routes(n, adj), NEW terminals \in SUBSET Wires(n), WithinOf(t, terminals),
           NEW root, NEW acc \in Trees(adj), Spanning(acc, terminals, root), acc.in # {}, acc.in # terminals
    PROVE  /\ Spanning(PrimStep(acc, terminals, t), terminals, root)
           /\ \E b \in terminals \ acc.in : PrimStep(acc, terminals, t).in = acc.in \cup {b}
  <1>1. PICK I : I = acc.in
    OBVIOUS
  <1>2. I \subseteq terminals /\ I # {} /\ terminals \ I # {} /\ I \subseteq Wires(n)
    BY <1>1 DEF Spanning
  <1>3. PICK pairs \in SUBSET (Wires(n) \X Wires(n)) : pairs = I \X (terminals \ I) /\ pairs # {}
    <2>1. PICK pairs : pairs = I \X (terminals \ I)
      OBVIOUS
    <2>2. pairs \in SUBSET (Wires(n) \X Wires(n))
      BY <1>2, <2>1
    <2>3. PICK a0 \in I, b0 \in terminals \ I : TRUE
      BY <1>2
    <2>4. <<a0, b0>> \in pairs
      BY <2>1, <2>3
    <2> QED
      BY <2>1, <2>2, <2>4
  <1>4. PICK e \in pairs : e = Nearest(t, pairs)
    BY <1>3, PrimLeast
  <1>5. PICK a \in I, b \in terminals \ I : e = <<a, b>> /\ e[1] = a /\ e[2] = b
    BY <1>3
  <1>6. a \in Wires(n) /\ b \in Wires(n) /\ a \in terminals /\ b \in terminals
    BY <1>2, <1>5
  <1>7. Connected(t, a, b) /\ Range(Route(t, a, b)) \subseteq terminals
    BY <1>6 DEF WithinOf
  <1>8. PICK p : p = Route(t, a, b)
    OBVIOUS
  <1>9. p \in Walks(n, adj) /\ p[1] = a /\ p[Len(p)] = b
    BY <1>6, <1>7, <1>8, RouteWalks, RouteReaches
  <1>10. PICK l \in Nat : l = Len(p) /\ l >= 1 /\ DOMAIN p = 1 .. l /\ \A i \in 1 .. l : p[i] \in Wires(n)
    BY <1>9 DEF Walks
  <1>11. PICK added : added = {{p[i], p[i + 1]} : i \in 1 .. l - 1}
    OBVIOUS
  <1>12. PrimStep(acc, terminals, t) = [in |-> I \cup {b}, edges |-> acc.edges \cup added]
    <2> DEFINE prs == (acc.in \X (terminals \ acc.in))
               key(x) == (t.dist[x[1]][x[2]] * n + x[1]) * n + x[2]
               least == CHOOSE x \in prs : \A d \in prs : key(x) <= key(d)
               q == Route(t, least[1], least[2])
               adds == {{q[i], q[i+1]} : i \in 1 .. Len(q) - 1}
    <2>1. least = e
      BY <1>1, <1>3, <1>4 DEF Nearest
    <2>2. prs = pairs
      BY <1>1, <1>3
    <2> HIDE DEF least
    <2>3. prs # {} /\ Connected(t, least[1], least[2])
      BY <1>3, <1>5, <1>7, <2>1, <2>2
    <2>4. PrimStep(acc, terminals, t) = [in |-> acc.in \cup {least[2]}, edges |-> acc.edges \cup adds]
      BY <2>3, Zenon DEF PrimStep, key, least
    <2>5. q = p
      BY <1>5, <1>8, <2>1
    <2> HIDE DEF q
    <2>6. adds = added
      BY <1>10, <1>11, <2>5
    <2> QED
      BY <1>1, <1>5, <2>1, <2>4, <2>6
  <1>13. PICK to : to = PrimStep(acc, terminals, t) /\ to.in = I \cup {b} /\ to.edges = acc.edges \cup added
    BY <1>12
  <1>14. \A x \in to.edges : x \subseteq terminals
    <2>1. \A i \in 1 .. l : p[i] \in terminals
      BY <1>7, <1>8, <1>10 DEF Range
    <2>2. \A i \in 1 .. l - 1 : i \in 1 .. l /\ i + 1 \in 1 .. l
      BY <1>10
    <2>3. \A x \in added : x \subseteq terminals
      BY <1>11, <2>1, <2>2
    <2> QED
      BY <1>13, <2>3 DEF Spanning
  <1>15. ASSUME NEW R \in SUBSET Wires(n), root \in R, Closed(R, to.edges) PROVE to.in \subseteq R
    <2>1. Closed(R, acc.edges)
      BY <1>13, <1>15 DEF Closed
    <2>2. I \subseteq R
      BY <1>1, <1>15, <2>1 DEF Spanning
    <2> DEFINE P == {i \in 1 .. l : p[i] \in R}
    <2>3. 1 \in P
      BY <1>5, <1>9, <1>10, <2>2
    <2>4. ASSUME NEW i \in 1 .. l - 1, i \in P PROVE i + 1 \in P
      <3>1. i + 1 \in 1 .. l
        BY <1>10
      <3>2. {p[i], p[i + 1]} \in to.edges
        BY <1>11, <1>13
      <3>3. p[i] \in R /\ p[i + 1] \in Wires(n)
        BY <1>10, <2>4, <3>1
      <3>4. p[i + 1] \in R
        BY <1>15, <3>2, <3>3 DEF Closed
      <3> QED
        BY <3>1, <3>4
    <2> HIDE DEF P
    <2>5. l \in P
      BY <1>10, <2>3, <2>4, ClimbsTo
    <2>6. b \in R
      BY <1>9, <1>10, <2>5 DEF P
    <2> QED
      BY <1>13, <2>2, <2>6
  <1>16. Spanning(to, terminals, root)
    BY <1>2, <1>6, <1>13, <1>14, <1>15 DEF Spanning
  <1> QED
    BY <1>1, <1>5, <1>13, <1>16

(* Prim's algorithm links the wires of a parity that its routes do not      *)
(* leave.                                                                   *)
LEMMA TreeSpans ==
    ASSUME n \in Nat, NEW adj, NEW t \in Routes(n, adj), NEW terminals \in SUBSET Wires(n), terminals # {},
           WithinOf(t, terminals), NEW root, root = LeastOf(terminals), NEW edges, edges = TreeEdges(terminals, t)
    PROVE  /\ root \in terminals /\ \A e \in edges : e \subseteq terminals
           /\ \A R \in SUBSET Wires(n) : root \in R /\ Closed(R, edges) => terminals \subseteq R
  <1>1. PICK c \in Nat : c = Cardinality(terminals) /\ 1 <= c
    BY TreeStarts
  <1>2. IsFiniteSet(terminals)
    BY WiresFinite
  <1>3. root \in terminals
    <2>1. terminals \in SUBSET Nat
      BY DEF Wires
    <2> QED
      BY <2>1, LeastOfIs
  <1>4. PICK g \in [1 .. Cardinality(terminals) -> Trees(adj)] :
             /\ g[1] = [in |-> {LeastOf(terminals)}, edges |-> {}]
             /\ \A i \in 1 .. Cardinality(terminals) - 1 : g[i + 1] = PrimStep(g[i], terminals, t)
             /\ TreeEdges(terminals, t) = g[Cardinality(terminals)].edges
    BY TreeEdgesRuns
  <1>5. /\ g \in [1 .. c -> Trees(adj)] /\ g[1].in = {root} /\ g[1].edges = {}
        /\ \A i \in 1 .. c - 1 : g[i + 1] = PrimStep(g[i], terminals, t)
        /\ edges = g[c].edges
    BY <1>1, <1>4
  <1> DEFINE P == {i \in 1 .. c : Spanning(g[i], terminals, root) /\ IsFiniteSet(g[i].in) /\ Cardinality(g[i].in) = i}
  <1>6. 1 \in P
    <2>1. Spanning(g[1], terminals, root)
      BY <1>3, <1>5 DEF Spanning
    <2>2. IsFiniteSet(g[1].in) /\ Cardinality(g[1].in) = 1
      <3>1. IsFiniteSet({root}) /\ Cardinality({root}) = 1
        BY FS_Singleton
      <3> QED
        BY <1>5, <3>1
    <2> QED
      BY <1>1, <2>1, <2>2
  <1>7. ASSUME NEW i \in 1 .. c - 1, i \in P PROVE i + 1 \in P
    <2>1. i \in 1 .. c /\ i + 1 \in 1 .. c /\ i # c /\ i # 0
      BY <1>1
    <2>2. PICK acc \in Trees(adj) : acc = g[i]
      BY <1>5, <2>1
    <2>3. Spanning(acc, terminals, root) /\ IsFiniteSet(acc.in) /\ Cardinality(acc.in) = i
      BY <1>7, <2>2
    <2>4. acc.in # {} /\ acc.in # terminals
      BY <1>1, <2>1, <2>3, FS_EmptySet
    <2>5. PICK to : to = PrimStep(acc, terminals, t)
      OBVIOUS
    <2>6. Spanning(to, terminals, root) /\ \E b \in terminals \ acc.in : to.in = acc.in \cup {b}
      BY <2>3, <2>4, <2>5, PrimSpans
    <2>7. PICK b : b \notin acc.in /\ to.in = acc.in \cup {b}
      BY <2>6
    <2>8. IsFiniteSet(to.in) /\ Cardinality(to.in) = i + 1
      <3>1. PICK S : S = acc.in
        OBVIOUS
      <3>2. IsFiniteSet(S) /\ Cardinality(S) = i /\ b \notin S
        BY <2>3, <2>7, <3>1
      <3>3. IsFiniteSet(S \cup {b}) /\ Cardinality(S \cup {b}) = i + 1
        BY <3>2, FS_AddElement
      <3> QED
        BY <2>7, <3>1, <3>3
    <2>9. g[i + 1] = to
      BY <1>5, <2>2, <2>5
    <2> QED
      BY <2>1, <2>6, <2>8, <2>9
  <1> HIDE DEF P
  <1>8. c \in P
    BY <1>1, <1>6, <1>7, ClimbsTo
  <1>9. Spanning(g[c], terminals, root) /\ IsFiniteSet(g[c].in) /\ Cardinality(g[c].in) = c
    BY <1>8 DEF P
  <1>10. g[c].in = terminals
    <2>1. g[c].in \subseteq terminals
      BY <1>9 DEF Spanning
    <2> QED
      BY <1>1, <1>2, <1>9, <2>1, FS_Subset
  <1> QED
    BY <1>3, <1>5, <1>9, <1>10 DEF Spanning

(* A search of n rounds has come to whatever its edges lead to.             *)
LEMMA ReachedClosed ==
    ASSUME n \in Nat, NEW edges \in SUBSET SUBSET Wires(n), NEW root \in Wires(n)
    PROVE  root \in Reached(edges, root) /\ Closed(Reached(edges, root), edges) /\ Reached(edges, root) \in SUBSET Wires(n)
           /\ \A S \in SUBSET Wires(n) : root \in S /\ (\A e \in edges : e \subseteq S) => Reached(edges, root) \subseteq S
  <1>1. PICK g \in [0 .. n -> SUBSET Wires(n)] :
             /\ g[0] = {root}
             /\ \A i \in 0 .. n - 1 : g[i + 1] = Spread(g[i], edges)
             /\ Reached(edges, root) = g[n]
    BY ReachedRuns
  <1>2. \A R \in SUBSET Wires(n) : R \subseteq Spread(R, edges) /\ (Spread(R, edges) = R <=> Closed(R, edges))
    <2>1. ASSUME NEW R \in SUBSET Wires(n) PROVE R \subseteq Spread(R, edges)
      BY DEF Spread
    <2>2. ASSUME NEW R \in SUBSET Wires(n), Closed(R, edges) PROVE Spread(R, edges) = R
      <3>1. ASSUME NEW v \in UNION edges, NEW u \in R, {u, v} \in edges PROVE v \in R
        <4>1. v \in Wires(n)
          BY <3>1
        <4> QED
          BY <2>2, <3>1, <4>1 DEF Closed
      <3> QED
        BY <2>1, <3>1 DEF Spread
    <2>3. ASSUME NEW R \in SUBSET Wires(n), Spread(R, edges) = R PROVE Closed(R, edges)
      <3>1. ASSUME NEW u \in R, NEW v \in Wires(n), {u, v} \in edges PROVE v \in R
        <4>1. v \in UNION edges
          BY <3>1
        <4>2. v \in Spread(R, edges)
          BY <3>1, <4>1 DEF Spread
        <4> QED
          BY <2>3, <4>2
      <3> QED
        BY <3>1 DEF Closed
    <2> QED
      BY <2>1, <2>2, <2>3
  <1>3. IsFiniteSet(Wires(n)) /\ Cardinality(Wires(n)) = n
    BY WiresFinite, FS_Interval DEF Wires
  <1> DEFINE P == {i \in 0 .. n : /\ root \in g[i]
                                  /\ \A S \in SUBSET Wires(n) : root \in S /\ (\A e \in edges : e \subseteq S) => g[i] \subseteq S
                                  /\ Closed(g[i], edges) \/ Cardinality(g[i]) >= i + 1}
  <1>4. 0 \in P
    <2>1. Cardinality({root}) = 1
      BY FS_Singleton
    <2>2. root \in g[0] /\ (\A S \in SUBSET Wires(n) : root \in S => g[0] \subseteq S)
      BY <1>1
    <2>3. Cardinality(g[0]) >= 0 + 1
      BY <1>1, <2>1
    <2>4. 0 \in 0 .. n
      OBVIOUS
    <2> QED
      BY <2>2, <2>3, <2>4
  <1>5. ASSUME NEW i \in 0 .. n - 1, i \in P PROVE i + 1 \in P
    <2>1. i \in 0 .. n /\ i + 1 \in 0 .. n /\ i \in Nat
      OBVIOUS
    <2>2. PICK R \in SUBSET Wires(n) : R = g[i]
      BY <1>1, <2>1
    <2>3. PICK Q \in SUBSET Wires(n) : Q = g[i + 1]
      BY <1>1, <2>1
    <2>4. Q = Spread(R, edges) /\ R \subseteq Q
      BY <1>1, <1>2, <2>2, <2>3
    <2>5. root \in Q
      BY <1>5, <2>2, <2>4
    <2>6. ASSUME NEW S \in SUBSET Wires(n), root \in S, \A e \in edges : e \subseteq S PROVE Q \subseteq S
      <3>1. R \subseteq S /\ UNION edges \subseteq S
        BY <1>5, <2>2, <2>6
      <3> QED
        BY <2>4, <3>1 DEF Spread
    <2>7. Closed(Q, edges) \/ Cardinality(Q) >= i + 2
      <3>1. CASE Closed(R, edges)
        BY <1>2, <2>4, <3>1
      <3>2. CASE ~Closed(R, edges)
        <4>1. Q # R /\ Cardinality(R) >= i + 1
          BY <1>2, <1>5, <2>2, <2>4, <3>2
        <4>2. IsFiniteSet(Q) /\ IsFiniteSet(R)
          BY <1>3, FS_Subset
        <4>3. Cardinality(R) \in Nat /\ Cardinality(Q) \in Nat /\ Cardinality(R) < Cardinality(Q)
          BY <2>4, <4>1, <4>2, FS_Subset, FS_CardinalityType
        <4> QED
          BY <2>1, <4>1, <4>3
      <3> QED
        BY <3>1, <3>2
    <2> QED
      BY <2>1, <2>3, <2>5, <2>6, <2>7
  <1> HIDE DEF P
  <1>6. 0 \in Nat /\ 0 <= n /\ n \in 0 .. n
    OBVIOUS
  <1>7. n \in P
    BY <1>4, <1>5, <1>6, ClimbsTo
  <1>8. PICK R \in SUBSET Wires(n) : R = g[n]
    BY <1>1, <1>6
  <1>9. ~(Cardinality(R) >= n + 1)
    <2>1. Cardinality(R) <= n /\ Cardinality(R) \in Nat
      BY <1>3, FS_Subset, FS_CardinalityType
    <2> QED
      BY <2>1
  <1> QED
    BY <1>1, <1>7, <1>8, <1>9 DEF P

(* The tree of a parity that its routes do not leave spans the parity.      *)
LEMMA ReachedSpans ==
    ASSUME n \in Nat, NEW adj, NEW t \in Routes(n, adj), NEW p \in SUBSET Wires(n), p # {}, WithinOf(t, p)
    PROVE  Reached(TreeEdges(p, t), LeastOf(p)) = p /\ LeastOf(p) \in p
  <1>1. PICK edges : edges = TreeEdges(p, t)
    OBVIOUS
  <1>2. PICK root : root = LeastOf(p)
    OBVIOUS
  <1>3. /\ root \in p /\ \A e \in edges : e \subseteq p
        /\ \A R \in SUBSET Wires(n) : root \in R /\ Closed(R, edges) => p \subseteq R
    BY <1>1, <1>2, TreeSpans
  <1>4. edges \in SUBSET SUBSET Wires(n) /\ root \in Wires(n)
    BY <1>3
  <1>5. PICK R : R = Reached(edges, root)
    OBVIOUS
  <1>6. root \in R /\ Closed(R, edges) /\ R \in SUBSET Wires(n)
        /\ \A S \in SUBSET Wires(n) : root \in S /\ (\A e \in edges : e \subseteq S) => R \subseteq S
    BY <1>4, <1>5, ReachedClosed
  <1>7. R = p
    BY <1>3, <1>6
  <1> QED
    BY <1>1, <1>2, <1>3, <1>5, <1>7

(* The account after a step of the call, by what the step makes of the      *)
(* circuit.                                                                 *)
LEMMA AnglesNext ==
    ASSUME TypeInv, job' = job
    PROVE  /\ Angles' = AnglesOf(Trace(out').rz, terms', tree', pc')
           /\ Due' = DueOf(Trace(out').rz, terms', pc', Cardinality(Offsets))
  <1>1. n' = n /\ Ps' = Ps
    BY JobStays
  <1>2. Trace(out)' = Trace(out')
    BY <1>1, TraceNext
  <1>3. Offsets' = Offsets
    BY <1>1 DEF Offsets
  <1>4. Placed' = Trace(out').rz
    BY <1>2 DEF Placed
  <1> QED
    BY <1>3, <1>4 DEF Angles, Due

(* Whatever leaves the circuit, the phases and the tree leaves the account, *)
(* while the call goes on.                                                  *)
LEMMA PlainAngles ==
    ASSUME TypeInv, job' = job, UNCHANGED <<out, terms>>, pc \notin Ended \cup {"tree"}, pc' \notin {"done", "costly", "tree"}
    PROVE  Angles' = Angles /\ Due' = Due
  <1>1. /\ Angles' = AnglesOf(Trace(out').rz, terms', tree', pc')
        /\ Due' = DueOf(Trace(out').rz, terms', pc', Cardinality(Offsets))
    BY AnglesNext
  <1>2. Current(tree', pc') = {} /\ Current(tree, pc) = {}
    BY DEF Current
  <1> QED
    BY <1>1, <1>2 DEF Angles, Due, AnglesOf, DueOf, Placed, Ended

(* Picking a parity: the tree spans the parity, and has its angle.          *)
LEMMA PickTermAngles ==
    ASSUME TypeInv, Rooted, PickTerm, \A p \in DOMAIN terms : WithinOf(topo, p)
    PROVE  Angles' = Angles /\ Due' = Due
  <1>1. job' = job /\ job \in Jobs /\ n \in Nat /\ pc = "terms" /\ pc' = "tree" /\ job.kind = "steiner" /\ out' = out
    BY JobStays DEF PickTerm, TypeInv, KindsFit
  <1>2. PICK p \in DOMAIN terms :
          /\ \E f \in Parents(TreeEdges(p, topo), LeastOf(p)) :
               tree' = [root |-> LeastOf(p), parent |-> f, folded |-> << >>, ticks |-> terms[p]]
          /\ terms' = Without(terms, {p})
    BY DEF PickTerm
  <1>3. PICK f \in Parents(TreeEdges(p, topo), LeastOf(p)) :
          tree' = [root |-> LeastOf(p), parent |-> f, folded |-> << >>, ticks |-> terms[p]]
    BY <1>2
  <1>4. p \in SUBSET Wires(n) /\ p # {} /\ IsPhases(terms, n)
    BY <1>1 DEF TypeInv, TermsFit, Parity, IsPhases
  <1>5. topo \in Routes(n, job.adj)
    BY <1>1 DEF TypeInv, TopoFits
  <1>6. Reached(TreeEdges(p, topo), LeastOf(p)) = p /\ LeastOf(p) \in p
    BY <1>1, <1>2, <1>4, <1>5, ReachedSpans
  <1>7. DOMAIN f = Reached(TreeEdges(p, topo), LeastOf(p)) \ {LeastOf(p)}
    BY Zenon DEF Parents
  <1>8. tree'.root = LeastOf(p) /\ tree'.parent = f /\ tree'.ticks = terms[p]
    BY <1>3
  <1>9. Spans(tree') = p
    BY <1>6, <1>7, <1>8 DEF Spans
  <1>10. DOMAIN terms' = DOMAIN terms \ {p} /\ \A q \in DOMAIN terms \ {p} : terms'[q] = terms[q]
    BY <1>2, StrictSame DEF Without
  <1>11. Whole(terms') \cup Current(tree', pc') = Whole(terms)
    <2>1. Current(tree', pc') = {<<p, terms[p]>>}
      BY <1>1, <1>8, <1>9 DEF Current
    <2>2. Whole(terms') = {<<q, terms[q]>> : q \in DOMAIN terms \ {p}}
      BY <1>10 DEF Whole
    <2>3. Whole(terms) = {<<q, terms[q]>> : q \in DOMAIN terms \ {p}} \cup {<<p, terms[p]>>}
      BY <1>2 DEF Whole
    <2> QED
      BY <2>1, <2>2, <2>3
  <1>12. Cardinality(DOMAIN terms) \in Nat /\ Cardinality(DOMAIN terms') = Cardinality(DOMAIN terms) - 1
    <2>1. IsFiniteSet(DOMAIN terms)
      BY <1>1, <1>4, PhasesFinite
    <2> QED
      BY <1>2, <1>10, <2>1, FS_RemoveElement, FS_CardinalityType
  <1>13. /\ Angles' = AnglesOf(Trace(out').rz, terms', tree', pc')
         /\ Due' = DueOf(Trace(out').rz, terms', pc', Cardinality(Offsets))
    BY <1>1, AnglesNext
  <1>14. Angles' = Angles
    <2>1. PICK R : R = ToSet(Trace(out).rz)
      OBVIOUS
    <2>2. Current(tree, pc) = {}
      BY <1>1 DEF Current
    <2>3. Angles = {x \in R \cup Whole(terms) : x[2] # 0}
      BY <2>1, <2>2 DEF Angles, AnglesOf, Placed
    <2>4. Angles' = {x \in R \cup (Whole(terms') \cup Current(tree', pc')) : x[2] # 0}
      BY <1>1, <1>13, <2>1 DEF AnglesOf
    <2> QED
      BY <1>11, <2>3, <2>4
  <1>15. Due' = Due
    <2>1. PICK l \in Nat : l = Len(Trace(out).rz)
      <3>1. PICK A : out \in Seq(Ops(A))
        BY <1>1 DEF Rooted, Ended
      <3> QED
        BY <1>1, <3>1, TraceTyped DEF Traces
    <2>2. PICK c \in Nat : c = Cardinality(DOMAIN terms)
      BY <1>12
    <2>3. Due = l + c
      BY <1>1, <2>1, <2>2 DEF Due, DueOf, Placed
    <2>4. Due' = l + (c - 1) + 1
      BY <1>1, <1>12, <1>13, <2>1, <2>2 DEF DueOf
    <2> QED
      BY <2>3, <2>4
  <1> QED
    BY <1>14, <1>15

(* A fold leaves the tree its wires and its angle, and the circuit its      *)
(* rotations.                                                               *)
LEMMA FoldInAngles == ASSUME TypeInv, Rooted, FoldIn PROVE Angles' = Angles /\ Due' = Due
  <1>1. job' = job /\ job \in Jobs /\ n \in Nat /\ pc = "tree" /\ pc' = "tree" /\ job.kind = "steiner" /\ terms' = terms
    BY JobStays DEF FoldIn, TypeInv, KindsFit
  <1>2. PICK u \in DOMAIN tree.parent :
       /\ tree' = [tree EXCEPT !.folded = Append(@, u)]
       /\ out' = Append(out, Cx(<<u, tree.parent[u]>>))
    BY DEF FoldIn
  <1>3. tree = [root |-> tree.root, parent |-> tree.parent, folded |-> tree.folded, ticks |-> tree.ticks]
    BY <1>1 DEF TypeInv, TreeFits
  <1>4. tree'.root = tree.root /\ tree'.parent = tree.parent /\ tree'.ticks = tree.ticks
    BY <1>2, <1>3
  <1>5. Current(tree', pc') = Current(tree, pc)
    BY <1>1, <1>4 DEF Current, Spans
  <1>6. PICK A : out \in Seq(Ops(A))
    BY <1>1 DEF Rooted, Ended
  <1>7. PICK p \in Wires(n) : p = tree.parent[u] /\ u \in Wires(n) /\ u # p
    BY <1>1, <1>2 DEF Rooted, Halfway, Shaped, Spans
  <1>8. Trace(out').rz = Trace(out).rz
    BY <1>1, <1>2, <1>6, <1>7, TraceCx
  <1>9. /\ Angles' = AnglesOf(Trace(out').rz, terms', tree', pc')
        /\ Due' = DueOf(Trace(out').rz, terms', pc', Cardinality(Offsets))
    BY <1>1, AnglesNext
  <1> QED
    BY <1>1, <1>5, <1>8, <1>9 DEF Angles, Due, AnglesOf, DueOf, Placed

(* The tree is done: its angle is in the circuit, on the parity it spans.   *)
LEMMA RotateAngles == ASSUME TypeInv, Rooted, Rotate PROVE Angles' = Angles /\ Due' = Due
  <1>1. job' = job /\ job \in Jobs /\ n \in Nat /\ pc = "tree" /\ pc' = "terms" /\ job.kind = "steiner" /\ terms' = terms
    BY JobStays DEF Rotate, TypeInv, KindsFit
  <1>2. PICK x : x = <<Spans(tree), tree.ticks>>
    OBVIOUS
  <1>3. Len(Trace(out').rz) = Len(Trace(out).rz) + 1 /\ ToSet(Trace(out').rz) = ToSet(Trace(out).rz) \cup {x}
    BY <1>2, RotateRooted
  <1>4. Current(tree, pc) = {x} /\ Current(tree', pc') = {}
    BY <1>1, <1>2 DEF Current
  <1>5. /\ Angles' = AnglesOf(Trace(out').rz, terms', tree', pc')
        /\ Due' = DueOf(Trace(out').rz, terms', pc', Cardinality(Offsets))
    BY <1>1, AnglesNext
  <1>6. Angles' = Angles
    BY <1>1, <1>3, <1>4, <1>5 DEF Angles, AnglesOf, Placed
  <1>7. Due' = Due
    <2>1. PICK l \in Nat : l = Len(Trace(out).rz)
      <3>1. PICK A : out \in Seq(Ops(A))
        BY <1>1 DEF Rooted, Ended
      <3> QED
        BY <1>1, <3>1, TraceTyped
    <2>2. PICK c \in Nat : c = Cardinality(DOMAIN terms)
      <3>1. IsFiniteSet(DOMAIN terms)
        BY <1>1, PhasesFinite DEF TypeInv, TermsFit, IsPhases
      <3> QED
        BY <3>1, FS_CardinalityType
    <2>3. Due = l + c + 1
      BY <1>1, <2>1, <2>2 DEF Due, DueOf, Placed
    <2>4. Due' = (l + 1) + c
      BY <1>1, <1>3, <1>5, <2>1, <2>2 DEF DueOf
    <2> QED
      BY <2>3, <2>4
  <1> QED
    BY <1>6, <1>7

(* The end of the call: the X layer turns nothing, and is not due.          *)
LEMMA EmitAngles ==
    ASSUME TypeInv, Rooted, pc \in {"upper", "fallback"}, job.kind = "steiner", job' = job, terms' = terms,
           NEW cnots \in Seq(Gates(n)), Emit(cnots)
    PROVE  Angles' = Angles /\ Due' = Due
  <1>1. n \in Nat /\ terms = Empty /\ DOMAIN terms = {} /\ pc' \in {"done", "costly"}
    BY JobTyped, EmptyIs DEF TypeInv, KindsFit, Rooted, Emit
  <1>2a. PICK B : \E L \in Seq(Locals(B)) :
           /\ Len(L) = Cardinality(Offsets)
           /\ \A i \in 1 .. Len(L) : L[i].arg = 0
           /\ Len(Trace(out').rz) = Len(Trace(out).rz) + Len(L)
           /\ \E m : ToSet(Trace(out').rz) = ToSet(Trace(out).rz) \cup Seen(m, L)
    BY EmitSteiner
  <1>2b. PICK L \in Seq(Locals(B)) :
           /\ Len(L) = Cardinality(Offsets)
           /\ \A i \in 1 .. Len(L) : L[i].arg = 0
           /\ Len(Trace(out').rz) = Len(Trace(out).rz) + Len(L)
           /\ \E m : ToSet(Trace(out').rz) = ToSet(Trace(out).rz) \cup Seen(m, L)
    BY <1>2a
  <1>2. PICK m : ToSet(Trace(out').rz) = ToSet(Trace(out).rz) \cup Seen(m, L)
    BY <1>2b
  <1>3. \A x \in Seen(m, L) : x[2] = 0
    BY <1>2b DEF Seen
  <1>4. Current(tree, pc) = {} /\ Current(tree', pc') = {} /\ Whole(terms) = {}
    BY <1>1 DEF Current, Whole
  <1>5. /\ Angles' = AnglesOf(Trace(out').rz, terms', tree', pc')
        /\ Due' = DueOf(Trace(out').rz, terms', pc', Cardinality(Offsets))
    BY AnglesNext
  <1>6. Angles' = Angles
    <2>1. PICK R : R = ToSet(Trace(out).rz)
      OBVIOUS
    <2>2. Angles = {x \in R : x[2] # 0}
      BY <1>4, <2>1 DEF Angles, AnglesOf, Placed
    <2>3. Angles' = {x \in R \cup Seen(m, L) : x[2] # 0}
      BY <1>2, <1>4, <1>5, <2>1 DEF AnglesOf
    <2> QED
      BY <1>3, <2>2, <2>3
  <1>7. Due' = Due
    <2>1. PICK l \in Nat : l = Len(Trace(out).rz)
      <3>1. PICK A : out \in Seq(Ops(A))
        BY DEF Rooted, Ended
      <3> QED
        BY <1>1, <3>1, TraceTyped
    <2>2. PICK k \in Nat : k = Len(L) /\ k = Cardinality(Offsets)
      BY <1>2b
    <2>3. Cardinality(DOMAIN terms) = 0
      BY <1>1, FS_EmptySet
    <2>4. Due = l
      BY <2>1, <2>3 DEF Due, DueOf, Placed
    <2>5. Due' = ((l + k) + 0) + 0 - k
      BY <1>1, <1>2b, <1>5, <2>1, <2>2, <2>3 DEF DueOf
    <2> QED
      BY <2>4, <2>5
  <1> QED
    BY <1>6, <1>7

(* The second pass ends the circuit, or fails and leaves it.                *)
LEMMA UpperAngles == ASSUME TypeInv, Rooted, Upper, job.kind = "steiner" PROVE Angles' = Angles /\ Due' = Due
  <1>1. job' = job /\ pc = "upper" /\ terms' = terms
    BY DEF Upper
  <1>2. PICK done : done = LowerPass(pass.m, n, Size)
    OBVIOUS
  <1>3. PICK cnots : cnots = Stitch(pass.lower, done.ops)
    OBVIOUS
  <1>4. cnots \in Seq(Gates(n))
    BY <1>1, <1>2, <1>3, UpperCnots
  <1>5. PICK right \in BOOLEAN : right <=> (UnitDiagonal(done.m) /\ ApplyCnots(IdentityMap(n), cnots) = pass.want)
    OBVIOUS
  <1>6. IF right THEN Emit(cnots) ELSE pc' = Failed /\ out' = out
    BY <1>2, <1>3, <1>5 DEF Upper
  <1>7. CASE ~right
    <2>1. pc' \in {"fallback", "refused"} /\ out' = out
      BY <1>6, <1>7 DEF Failed
    <2> QED
      BY <1>1, <2>1, PlainAngles DEF Ended
  <1>8. CASE right
    BY <1>1, <1>4, <1>6, <1>8, EmitAngles
  <1> QED
    BY <1>7, <1>8

(* The fallback ends the circuit.                                           *)
LEMMA FallbackAngles == ASSUME TypeInv, Rooted, Fallback, job.kind = "steiner" PROVE Angles' = Angles /\ Due' = Due
  <1>1. job' = job /\ pc = "fallback" /\ terms' = terms /\ Emit(GaussJordan(pass.want, n))
    BY DEF Fallback
  <1>2. n \in Nat /\ pass.want \in Mat(n)
    BY <1>1, JobTyped DEF TypeInv, KindsFit, PassFits
  <1>3. GaussJordan(pass.want, n) \in Seq(Gates(n))
    BY <1>2, GaussJordanTyped
  <1> QED
    BY <1>1, <1>3, EmitAngles

(* Nothing changes.                                                         *)
LEMMA StutterAngles == ASSUME UNCHANGED vars PROVE Angles' = Angles /\ Due' = Due
  <1>1. UNCHANGED <<job, pc, terms, tree, out>>
    BY DEF vars
  <1>2. Ps' = Ps /\ n' = n
    BY <1>1 DEF Ps, n
  <1>3. Offsets' = Offsets
    BY <1>1, <1>2 DEF Offsets
  <1>4. Trace(out)' = Trace(out)
    BY <1>1, <1>2, TraceNext
  <1> QED
    BY <1>1, <1>3, <1>4 DEF Angles, Due, Placed

(* Each step keeps the account.                                             *)
LEMMA StepAngles ==
    ASSUME TypeInv, Rooted, [Next]_vars,
           job.kind = "steiner", pc \notin {"start", "lift"}, \A p \in DOMAIN terms : WithinOf(topo, p)
    PROVE  Angles' = Angles /\ Due' = Due
  <1>1. CASE Start \/ Lift \/ Lifted \/ Pop \/ Share \/ Split \/ GrayRest
    <2>1. pc \in {"start", "lift", "pop", "common"}
      BY <1>1 DEF Start, Lift, Lifted, Pop, Share, Split, GrayRest
    <2> QED
      BY <2>1 DEF TypeInv, KindsFit
  <1>2. CASE PickTerm
    BY <1>2, PickTermAngles
  <1>3. CASE FoldIn
    BY <1>3, FoldInAngles
  <1>4. CASE Rotate
    BY <1>4, RotateAngles
  <1>5. CASE SteinerRest \/ Lower
    <2>1. /\ job' = job /\ UNCHANGED <<out, terms>> /\ pc \notin Ended \cup {"tree"}
          /\ pc' \notin {"done", "costly", "tree"}
      BY <1>5 DEF SteinerRest, Lower, Failed, Ended
    <2> QED
      BY <2>1, PlainAngles
  <1>6. CASE Upper
    BY <1>6, UpperAngles
  <1>7. CASE Fallback
    BY <1>7, FallbackAngles
  <1>8. CASE Stop \/ UNCHANGED vars
    BY <1>8, StutterAngles DEF Stop
  <1> QED
    BY <1>1, <1>2, <1>3, <1>4, <1>5, <1>6, <1>7, <1>8 DEF Next

(* A Steiner call places every phase once, by its own angle and on its own  *)
(* parity: the tree of a parity that the routes between its wires do not    *)
(* leave spans the parity and no other wire, and the folds gather it.       *)
THEOREM RoutedPhasesKept == Spec => AnglesKept
  <1>1. TypeInv /\ Answered /\ Rooted /\ [Next]_vars
          => [job.kind = "steiner" /\ pc \notin {"start", "lift"} /\ (\A p \in DOMAIN terms : WithinOf(topo, p))
                => Angles' = Angles /\ Due' = Due]_vars
    BY StepAngles
  <1> QED
    BY <1>1, SpecRooted, PTL DEF Spec, AnglesKept
=============================================================================
