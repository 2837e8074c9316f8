------------------------------ MODULE PhasePoly ------------------------------
(***************************************************************************)
(* Path sums: the value an EvaluatedPathSum holds and the exact arithmetic *)
(* its passes are built from (src/src/engine: evaluator.rs,                *)
(* canonical_phase_poly.rs, continuous_poly.rs, and gauge_substitute of    *)
(* reduction.rs).                                                          *)
(*                                                                         *)
(* A path sum is a record                                                  *)
(*   n     the number of qubits,                                           *)
(*   m     the number of path variables,                                   *)
(*   rows  one Boolean polynomial per qubit, the value on its wire,        *)
(*   disc  the discrete phase: units of pi/4, modulo 8, per monomial,      *)
(*   cont  the continuous phase: ticks, modulo Turn, per parity,           *)
(*   over  whether an H or SX found no variable left (overflow_id # 0).    *)
(* Variables are numbers, the qubits 0..n-1 and the path variables         *)
(* n..n+m-1; a monomial and a parity are sets of variables, {} being the   *)
(* constant 1, and a Boolean polynomial is a set of monomials under        *)
(* symmetric difference.  The code keeps them as bit masks in sorted       *)
(* vectors; Mask gives the order of the masks where a pass depends on it.  *)
(***************************************************************************)
EXTENDS Integers, Sequences, FiniteSets, FiniteSetsExt, SequencesExt, StrictFunctions

CONSTANTS
  Bits,   \* width of the integer a monomial is packed in
  Turn    \* ticks per full turn (TICKS_PER_TURN)

ASSUME PhasePolyAssumption == /\ Bits \in Nat /\ Bits >= 5
                              /\ Turn \in Nat /\ Turn > 0 /\ Turn % 8 = 0

Quarter == Turn \div 4          \* TICKS_PER_PI_2
Eighth  == Turn \div 8          \* TICKS_PER_PI_4

Capacity == Bits - 3            \* the top bits of a packed term are its units
Var == 0 .. Capacity - 1
Mask == [S \in SUBSET Var |-> MapThenSumSet(LAMBDA v : 2 ^ v, S)]

Qubits(ps) == 0 .. ps.n - 1
PathVars(ps) == ps.n .. ps.n + ps.m - 1

One == {}                                \* the constant monomial
Linear(V) == {{v} : v \in V}             \* a parity as a Boolean polynomial
Support(e) == {v \in Var : {v} \in e}    \* linear_mask_and_flip
Xor(e, f) == SymDiff(e, f)
VarsOf(e) == UNION e                     \* variable_mask
Negate(ticks) == (Turn - ticks) % Turn

-----------------------------------------------------------------------------
(* Discrete phases.  A contribution is <<source, choice, monomial, units>>: *)
(* the first two tell apart the contributions that fall on one monomial.    *)

\* Equal monomials add up modulo 8; zero sums and the global phase are dropped.
Collect(C) ==
  LET units(t) == MapThenSumSet(LAMBDA c : c[4], {c \in C : c[3] = t}) % 8
      kept == {t \in {c[3] : c \in C} \ {One} : units(t) # 0}
  IN  Strict([t \in kept |-> units(t)])

Keep(disc, T) == {<<t, {}, t, disc[t]>> : t \in T}

\* units * base * (t_1 XOR ... XOR t_k), exact modulo 8 with three factors.
Expand(source, base, terms, units) ==
  LET factor == <<1, -2, 4>>
  IN  {<<source, S, base \cup UNION S, (units * factor[Cardinality(S)]) % 8>> :
         S \in {S \in SUBSET terms : Cardinality(S) \in 1..3}}

AddPhase(disc, terms, units) ==
  Collect(Keep(disc, DOMAIN disc) \cup Expand(One, One, terms, units))

-----------------------------------------------------------------------------
(* Continuous phases.  Until Compact a parity may be {} or hold 0 ticks:    *)
(* its entries are still in the vectors, where liveness is read.            *)

\* Sends parity p to to(p), with the sign of the angle where flips(p).
MapParities(cont, to, flips) ==
  LET ticks(q) == MapThenSumSet(LAMBDA p : IF p \in flips THEN Negate(cont[p]) ELSE cont[p],
                                {p \in DOMAIN cont : to[p] = q}) % Turn
  IN  Strict([q \in {to[p] : p \in DOMAIN cont} |-> ticks(q)])

Compact(cont) ==
  Strict([p \in {p \in DOMAIN cont : p # {} /\ cont[p] # 0} |-> cont[p]])

\* v := e where inclusive is {}, and v := v XOR e where it is {v}.
SubstituteParities(cont, v, e, inclusive) ==
  LET hit == {p \in DOMAIN cont : v \in p}
  IN  MapParities(cont,
        [p \in DOMAIN cont |->
           IF p \in hit THEN SymDiff((p \ {v}) \cup inclusive, Support(e)) ELSE p],
        IF One \in e THEN hit ELSE {})

AddTicks(cont, e, ticks) ==
  LET p == Support(e)
      signed == IF One \in e THEN Negate(ticks) ELSE ticks
      sum == (signed + (IF p \in DOMAIN cont THEN cont[p] ELSE 0)) % Turn
  IN  Compact([q \in DOMAIN cont \cup {p} |-> IF q = p THEN sum ELSE cont[q]])

\* The even quotient of each angle by pi/4 moves to the discrete phase.
EvenUnits(ticks) == 2 * (ticks \div Quarter)
Promotable(ps) == {p \in DOMAIN ps.cont : EvenUnits(ps.cont[p]) # 0}
Promote(ps) ==
  LET left == {p \in DOMAIN ps.cont : ps.cont[p] % Quarter # 0}
  IN  [ps EXCEPT
         !.disc = Collect(Keep(@, DOMAIN @) \cup
                    UNION {Expand(p, One, Linear(p), EvenUnits(ps.cont[p])) : p \in Promotable(ps)}),
         !.cont = Strict([p \in left |-> @[p] % Quarter])]

Settle(ps) == Promote([ps EXCEPT !.cont = Compact(@)])

-----------------------------------------------------------------------------
(* Changes of variables, applied to the three parts of a path sum.          *)

\* gauge_substitute: v := v XOR e.
Substitute(ps, v, e) ==
  LET hit == {t \in DOMAIN ps.disc : v \in t}
  IN  [ps EXCEPT
         !.rows = Strict([q \in DOMAIN @ |-> IF {v} \in @[q] THEN Xor(@[q], e) ELSE @[q]]),
         !.cont = SubstituteParities(@, v, e, {v}),
         !.disc = Collect(Keep(@, DOMAIN @ \ hit) \cup
                    UNION {Expand(t, t \ {v}, {{v}} \cup e, @[t]) : t \in hit})]

\* Renames variable v to to[v] everywhere.
Rename(ps, to) ==
  LET image(t) == {to[v] : v \in t}
  IN  [ps EXCEPT
         !.rows = Strict([q \in DOMAIN @ |-> {image(t) : t \in @[q]}]),
         !.cont = MapParities(@, [p \in DOMAIN @ |-> image(p)], {}),
         !.disc = Collect({<<t, {}, image(t), @[t]>> : t \in DOMAIN @})]

-----------------------------------------------------------------------------
(* Gates (evaluator.rs).  A gate on a path sum that has overflowed changes  *)
(* nothing.                                                                 *)

Identity(n) == [n |-> n, m |-> 0, rows |-> Strict([q \in 0..n-1 |-> {{q}}]),
                disc |-> Empty, cont |-> Empty, over |-> FALSE]

\* alloc_path_var: the next variable, or the gate is not applied.
HasVar(ps) == ps.n + ps.m < Capacity
NextVar(ps) == ps.n + ps.m

ApplyX(ps, q) == [ps EXCEPT !.rows[q] = Xor(@, {One})]
ApplyCX(ps, c, t) == [ps EXCEPT !.rows[t] = Xor(@, ps.rows[c])]
ApplyUnits(ps, q, units) == [ps EXCEPT !.disc = AddPhase(@, ps.rows[q], units)]
ApplyTicks(ps, q, ticks) == Promote([ps EXCEPT !.cont = AddTicks(@, ps.rows[q], ticks)])

ApplySX(ps, q) ==
  IF ~HasVar(ps) THEN [ps EXCEPT !.over = TRUE]
  ELSE [ps EXCEPT !.m = @ + 1,
                  !.rows[q] = Xor(@, {{NextVar(ps)}}),
                  !.disc = AddPhase(@, {{NextVar(ps)}}, 6)]

ApplyH(ps, q) ==
  IF ~HasVar(ps) THEN [ps EXCEPT !.over = TRUE]
  ELSE [ps EXCEPT !.m = @ + 1,
                  !.rows[q] = {{NextVar(ps)}},
                  !.disc = Collect(Keep(@, DOMAIN @) \cup
                             {<<One, {t}, t \cup {NextVar(ps)}, 4>> : t \in ps.rows[q]})]
=============================================================================
