------------------------------- MODULE PathSum -------------------------------
(***************************************************************************)
(* The path-sum register of the FFI bridge (src/src/pathsum.rs): a gate is *)
(* applied to a path sum and the result is brought to its canonical form,  *)
(* by reduce() (src/src/engine/reduction.rs) or, after X and CX, by the    *)
(* gauge alone.  reduce() is a loop of passes, each an action here.        *)
(*                                                                         *)
(* Beside the register runs the dense simulator of reference.rs: mat is    *)
(* the operator the applied gates denote.  A Trial applies two circuits of *)
(* Rewrites to one path sum, one after the other: the rewrites an e-graph  *)
(* relies on to find the two results equal.                                *)
(***************************************************************************)
EXTENDS Gauge

Dense == INSTANCE DenseSim

CONSTANTS
  Widths,        \* numbers of qubits
  Gates(_),      \* the gates applied to n qubits
  Rewrites(_, _), \* pairs of circuits that denote one operator on n qubits, of
                 \* the trials made when so many gates are left
  Depth(_),      \* bound on the gates applied to n qubits
  None

VARIABLES
  ps,      \* the path sum in the register
  pc,      \* the pass to run: "gauge", "merge", "eliminate", "compact", "rowgauge", "idle"
  dead,    \* dead_vars of this round of reduce()
  cursor,  \* where the sweep over the path variables stands
  mat,     \* the operator the applied gates denote
  fuel,    \* gates left to apply
  trial    \* the two circuits being compared, or None

vars == <<ps, pc, dead, cursor, mat, fuel, trial>>

-----------------------------------------------------------------------------
(* Gates.                                                                   *)

Gate(op, q, arg) == [op |-> op, q |-> q, arg |-> arg]

Units == [z |-> 4, s |-> 2, sdg |-> 6]
RzTicks(g) == CASE g.op = "t" -> Eighth [] g.op = "tdg" -> 7 * Eighth [] g.op = "rz" -> g.arg

ApplyGate(s, g) ==
  IF s.over THEN s
  ELSE CASE g.op = "x"  -> ApplyX(s, g.q)
         [] g.op = "cx" -> ApplyCX(s, g.arg, g.q)
         [] g.op = "h"  -> ApplyH(s, g.q)
         [] g.op = "sx" -> ApplySX(s, g.q)
         [] g.op \in DOMAIN Units -> ApplyUnits(s, g.q, Units[g.op])
         [] OTHER -> ApplyTicks(s, g.q, RzTicks(g))

Simulate(M, g) ==
  CASE g.op = "x"  -> Dense!SimX(M, g.q)
    [] g.op = "cx" -> Dense!SimCX(M, g.arg, g.q)
    [] g.op = "h"  -> Dense!SimH(M, g.q)
    [] g.op = "sx" -> Dense!SimSX(M, g.q)
    [] g.op \in DOMAIN Units -> Dense!SimPhase(M, g.q, Units[g.op] * Eighth)
    [] OTHER -> Dense!SimPhase(M, g.q, RzTicks(g))

\* Mutant: every gate takes the short cut of X and CX.
PassAfterRowOp(s, g) ==
  IF s.over \/ s.m = 0 \/ RowsCanonical(s) THEN "idle" ELSE "rowgauge"

\* What the bridge runs after the gate.
PassAfter(s, g) ==
  CASE s.over -> "idle"
    [] g.op \in {"x", "cx"} -> IF s.m = 0 \/ RowsCanonical(s) THEN "idle" ELSE "rowgauge"
    [] OTHER -> "gauge"

Apply(g) ==
  /\ ps' = ApplyGate(ps, g)
  /\ pc' = PassAfter(ps', g)
  /\ mat' = Dense!Normal(Simulate(mat, g), 2)
  /\ dead' = {}
  /\ cursor' = ps.n

-----------------------------------------------------------------------------
(* reduce(), one action per pass.                                           *)

\* Variables that always occur together in rows and parities, as v1 XOR v2.
Occurrences(s, v) ==
  <<{q \in Qubits(s) : {v} \in s.rows[q]}, {p \in DOMAIN s.cont : v \in p}>>
MergePairs(s) ==
  {e \in PathVars(s) \X PathVars(s) :
     /\ e[1] < e[2]
     /\ Occurrences(s, e[1]) = Occurrences(s, e[2])
     /\ Occurrences(s, e[1]) # <<{}, {}>>
     /\ \A u \in e[1]+1 .. e[2]-1 : Occurrences(s, u) # Occurrences(s, e[1])}

\* v1 leaves the rows and parities; the terms of v2 become terms of v1 XOR v2.
MergePair(s, v1, v2) ==
  LET hit == {t \in DOMAIN s.disc : v2 \in t}
      image(t) ==
        IF v1 \in t THEN {<<t, {One}, t \ {v2}, s.disc[t]>>, <<t, {}, t, 8 - s.disc[t]>>}
        ELSE {<<t, {}, t, s.disc[t]>>, <<t, {One}, (t \ {v2}) \cup {v1}, s.disc[t]>>,
              <<t, {{v1}}, t \cup {v1}, (-2 * s.disc[t]) % 8>>}
  IN  [s EXCEPT
         !.rows = Strict([q \in DOMAIN @ |-> @[q] \ {{v1}}]),
         !.cont = MapParities(@, [p \in DOMAIN @ |-> p \ {v1}], {}),
         !.disc = Collect(Keep(@, DOMAIN @ \ hit) \cup UNION {image(t) : t \in hit})]

MergeAll(s) ==
  LET pairs == MergePairs(s)
      lower == Ascending({e[1] : e \in pairs})
      upper(v) == CHOOSE w \in PathVars(s) : <<v, w>> \in pairs
      step(acc, v) == MergePair(acc, v, upper(v))
  IN  [FoldLeft(step, s, lower) EXCEPT !.cont = Compact(@)]

\* Mutant: the continuous parities are not looked at.
RowVars(s) == UNION {VarsOf(s.rows[q]) : q \in Qubits(s)}

LiveVars(s) ==
  UNION {VarsOf(s.rows[q]) : q \in Qubits(s)} \cup UNION (DOMAIN s.cont)

\* build_pivot_index: the phase of v is units(v) * v + pi * v * Partner.
Terms(s, v) == {t \in DOMAIN s.disc : v \in t}
LinearUnits(s, v) == IF {v} \in DOMAIN s.disc THEN s.disc[{v}] ELSE 0
PivotShape(s, v) ==
  \A t \in Terms(s, v) : IF t = {v} THEN s.disc[t] \in {2, 4, 6}
                         ELSE Cardinality(t) = 2 /\ s.disc[t] = 4
Partner(s, v) ==
  {t \ {v} : t \in {t \in Terms(s, v) : s.disc[t] = 4}}

PivotVars(s, d, v) == (VarsOf(Partner(s, v)) \cap PathVars(s)) \ d
Candidates(s, d) ==
  {v \in (PathVars(s) \ d) \ LiveVars(s) :
     PivotShape(s, v) /\ (LinearUnits(s, v) \in {2, 6} \/ PivotVars(s, d, v) # {})}

Without(s, v) == [s EXCEPT !.disc = Strict([t \in DOMAIN @ \ Terms(s, v) |-> @[t]])]

\* Sum over v of i^v (-1)^(v P): a phase on P.
SumOut(s, v) ==
  [Without(s, v) EXCEPT
     !.disc = AddPhase(@, Partner(s, v), IF LinearUnits(s, v) = 2 THEN 6 ELSE 2)]

\* Sum over v of (-1)^(v (u XOR E)): u is E.
PivotOn(s, v, u) ==
  LET e == Partner(s, v) \ {{u}}
      w == Without(s, v)
      hit == Terms(w, u)
  IN  [w EXCEPT
         !.rows = Strict([q \in DOMAIN @ |-> IF {u} \in @[q] THEN Xor(@[q] \ {{u}}, e) ELSE @[q]]),
         !.cont = SubstituteParities(@, u, e, {}),
         !.disc = Collect(Keep(@, DOMAIN @ \ hit) \cup
                    UNION {Expand(t, t \ {u}, e, @[t]) : t \in hit})]

\* The surviving variables move down, in order.
Renumber(s, d) ==
  LET left == PathVars(s) \ d
      to == [v \in Var |-> IF v \in left THEN s.n + Cardinality({u \in left : u < v}) ELSE v]
  IN  IF d = {} THEN s ELSE [Rename(s, to) EXCEPT !.m = Cardinality(left)]

Gauge ==
  /\ pc \in {"gauge", "rowgauge"}
  /\ ps' = CanonicalizeGauge(ps)
  /\ pc' = IF pc = "rowgauge" THEN "idle" ELSE "merge"
  /\ UNCHANGED <<dead, cursor, mat, fuel, trial>>

\* Merged variables leave a new basis, and the round starts again.
Merge ==
  /\ pc = "merge"
  /\ ps' = IF MergePairs(ps) = {} THEN ps ELSE MergeAll(ps)
  /\ pc' = IF MergePairs(ps) # {} THEN "gauge"
           ELSE IF Candidates(ps, {}) # {} THEN "eliminate" ELSE "compact"
  /\ UNCHANGED <<dead, cursor, mat, fuel, trial>>

\* The sweep goes up from the cursor, and starts again while it finds one.
Eliminate ==
  LET open == Candidates(ps, dead)
      v == IF \E x \in open : x >= cursor
           THEN CHOOSE x \in open : x >= cursor /\ \A y \in open : y >= cursor => x <= y
           ELSE CHOOSE x \in open : \A y \in open : x <= y
      u == CHOOSE x \in PivotVars(ps, dead, v) : \A y \in PivotVars(ps, dead, v) : x <= y
      sum == LinearUnits(ps, v) \in {2, 6}
  IN  /\ pc = "eliminate"
      /\ ps' = IF sum THEN SumOut(ps, v) ELSE PivotOn(ps, v, u)
      /\ dead' = dead \cup (IF sum THEN {v} ELSE {v, u})
      /\ cursor' = v + 1
      /\ pc' = IF Candidates(ps', dead') = {} THEN "compact" ELSE "eliminate"
      /\ UNCHANGED <<mat, fuel, trial>>

\* Mutant: the rounds go on while there are path variables.
AgainPathVars(s, d) == s.m > 0

Again(s, d) == d # {} \/ Promotable(s) # {}

Finish ==
  LET s == [Renumber(ps, dead) EXCEPT !.cont = IF dead = {} THEN @ ELSE Compact(@)]
  IN  /\ pc = "compact"
      /\ ps' = Promote(s)
      /\ pc' = IF Again(s, dead) THEN "gauge" ELSE "idle"
      /\ dead' = {}
      /\ cursor' = ps.n
      /\ UNCHANGED <<mat, fuel, trial>>

Reduce == Gauge \/ Merge \/ Eliminate \/ Finish

-----------------------------------------------------------------------------
(* The caller: single gates, and trials.                                    *)

Init ==
  /\ \E n \in Widths : /\ ps = Identity(n)
                       /\ mat = Dense!Normal(Dense!IdentityMatrix(n), 2)
                       /\ fuel = Depth(n)
  /\ pc = "idle"
  /\ dead = {}
  /\ cursor = ps.n
  /\ trial = None

Call(g) ==
  /\ pc = "idle" /\ trial = None /\ fuel > 0
  /\ Apply(g)
  /\ fuel' = fuel - 1
  /\ UNCHANGED trial

\* trial.first is the result of the first circuit, once the second runs.
Try(r) ==
  /\ pc = "idle" /\ trial = None /\ fuel > 0
  /\ Apply(Head(r[1]))
  /\ fuel' = IF fuel > Len(r[1]) THEN fuel - Len(r[1]) ELSE 0
  /\ trial' = [todo |-> Tail(r[1]), second |-> r[2], ps |-> ps, mat |-> mat, first |-> None]

Continue ==
  /\ pc = "idle" /\ trial # None /\ trial.todo # << >>
  /\ Apply(Head(trial.todo))
  /\ trial' = [trial EXCEPT !.todo = Tail(@)]
  /\ UNCHANGED fuel

Second ==
  /\ pc = "idle" /\ trial # None /\ trial.todo = << >> /\ trial.first = None
  /\ ps' = trial.ps
  /\ mat' = trial.mat
  /\ trial' = [trial EXCEPT !.todo = trial.second, !.first = [ps |-> ps, mat |-> mat]]
  /\ UNCHANGED <<pc, dead, cursor, fuel>>

Compared == pc = "idle" /\ trial # None /\ trial.todo = << >> /\ trial.first # None

Forget ==
  /\ Compared
  /\ trial' = None
  /\ UNCHANGED <<ps, pc, dead, cursor, mat, fuel>>

Next ==
  \/ Reduce
  \/ \E g \in Gates(ps.n) : Call(g)
  \/ \E r \in Rewrites(ps.n, fuel) : Try(r)
  \/ Continue \/ Second \/ Forget

\* reduce() runs on once it is called.  Reduce is enabled wherever pc # "idle"
\* and each of its steps changes pc or dead, which is all that fairness needs.
Passes == {"gauge", "rowgauge", "merge", "eliminate", "compact", "idle"}
Running == pc # "idle" /\ pc' \in Passes /\ dead' \in SUBSET Var

Spec == Init /\ [][Next]_vars /\ WF_<<pc, dead>>(Running)

-----------------------------------------------------------------------------
(* Properties.                                                              *)

\* The phases are in range, rows and parities are affine (the gauge gives up
\* on path sums that are not), and no polynomial holds an eliminated variable.
TypeOK ==
  LET vars_(S) == S \subseteq (Qubits(ps) \cup PathVars(ps)) \ dead
  IN  /\ ps.n \in Widths /\ ps.m \in 0 .. Capacity - ps.n /\ ps.over \in BOOLEAN
      /\ \A q \in Qubits(ps) : \A t \in ps.rows[q] : Cardinality(t) <= 1 /\ vars_(t)
      /\ \A t \in DOMAIN ps.disc : t # One /\ vars_(t) /\ ps.disc[t] \in 1..7
      /\ \A p \in DOMAIN ps.cont : vars_(p) /\ ps.cont[p] \in 0 .. Turn - 1
      /\ pc = "idle" => \A p \in DOMAIN ps.cont : p # {} /\ ps.cont[p] \in 1 .. Quarter - 1
      /\ pc \in Passes
      /\ fuel \in Nat

\* Soundness: after every gate and every pass of reduce(), the path sum denotes
\* the operator of the gates applied, up to a global phase.
Represents ==
  ~ps.over => Dense!Denotes(ps, PathVars(ps) \ dead) = mat

\* "Canonical form at all times": nothing is left for reduce() to do, and what
\* the gauge has made is a fixed point of it.  And the gauge leaves no two
\* variables that always occur together: the merge pass, which runs after it,
\* never finds a pair.
Reduced ==
  /\ pc = "idle" /\ ~ps.over =>
       Candidates(ps, {}) = {} /\ MergePairs(ps) = {} /\ CanonicalizeGauge(ps) = ps
  /\ pc = "merge" => MergePairs(ps) = {}

\* Completeness on the rewrites: the two circuits of a trial end in equal path
\* sums, which is what the e-graph compares.
InternEqual ==
  Compared /\ ~ps.over /\ ~trial.first.ps.over =>
    trial.first.mat = mat /\ trial.first.ps = ps

\* reduce() ends.
ReduceEnds == pc # "idle" ~> pc = "idle"
=============================================================================
