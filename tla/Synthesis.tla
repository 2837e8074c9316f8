------------------------------ MODULE Synthesis ------------------------------
(***************************************************************************)
(* Resynthesis of a path sum without path variables (src/src/pathsum.rs:   *)
(* synthesize_gray_logic, synthesize_steiner_logic, synthesize_pmh_logic)  *)
(* and of a linear map alone (engine/pmh.rs: synthesize_cnot_matrix, or    *)
(* synthesize_cnot_matrix_pmh with a section size): one call of one of     *)
(* them from Init to the end.                                              *)
(*                                                                         *)
(* The Gray and Steiner synthesizers lift the phase monomials to parities, *)
(* place one RZ per parity on a wire that carries it, and finish with the  *)
(* CNOTs of what is left of the linear map and the X layer.  Angles are    *)
(* ticks; where the code has floats, Turn is chosen so that the halvings   *)
(* of the lift are exact.                                                  *)
(***************************************************************************)
EXTENDS CnotSynthesis, PhasePoly

CONSTANTS
  Jobs,         \* the calls: records [kind, ps, adj, gates, hw, size, matrix]
  CnotWeight, RzWeight,
  LiftCap,      \* the widest monomial the lift expands
  None

\* Path sums are stored without a constant phase, matrices are square, and only
\* the matrix entry points take a section size.
ASSUME JobsAssumption ==
  /\ None \notin Nat /\ LiftCap \in Nat
  /\ \A j \in Jobs :
       /\ j.kind \in {"gray", "steiner", "pmh", "matrix"}
       /\ j.ps.n \in Nat
       /\ {} \notin DOMAIN j.ps.disc
       /\ j.kind = "matrix" => j.matrix \in [Wires(j.ps.n) -> SUBSET Wires(j.ps.n)]
       /\ j.size # None => j.size \in Nat /\ j.kind = "matrix"

VARIABLES
  job,      \* the arguments of the call
  pc,       \* "start", "lift", "pop", "common", "terms", "tree", "lower",
            \* "upper", "fallback", "done", "refused", "costly"
  coeff,    \* the monomials not lifted yet, with their ticks
  terms,    \* the parities to place, with their ticks
  wires,    \* the value on each wire, over the inputs
  stack,    \* GraySynth: the frames, the top last
  frame,    \* the frame being worked on
  tree,     \* Steiner: the tree of the parity being placed
  pass,     \* elimination: the matrix and the CNOTs of the lower pass
  topo,     \* Steiner: the routes of the topology
  out       \* the instructions

vars == <<job, pc, coeff, terms, wires, stack, frame, tree, pass, topo, out>>

n == job.ps.n
Ps == job.ps

-----------------------------------------------------------------------------
(* Instructions, and what they do to a path sum.                            *)

Cx(g) == [op |-> "cx", q |-> g[2], arg |-> g[1]]
Rz(q, ticks) == [op |-> "rz", q |-> q, arg |-> ticks]
X(q) == [op |-> "x", q |-> q, arg |-> 0]
CxAll(cnots) == [i \in DOMAIN cnots |-> Cx(cnots[i])]
Count(instructions, op) == Cardinality({i \in DOMAIN instructions : instructions[i].op = op})

Run(s, g) ==
  CASE g.op = "cx" -> ApplyCX(s, g.arg, g.q)
    [] g.op = "rz" -> ApplyTicks(s, g.q, g.arg)
    [] g.op = "x"  -> ApplyX(s, g.q)
Replay(instructions) == FoldLeft(Run, Identity(n), instructions)

-----------------------------------------------------------------------------
(* The guards of the three calls.                                           *)

Target == Strict([q \in Wires(n) |-> VarsOf(Ps.rows[q])])      \* variable_mask
Offsets == {q \in Wires(n) : One \in Ps.rows[q]}       \* affine_x_offsets
OnInputs(S) == S \subseteq Wires(n)

\* rank_m_minus_i: the rows of M - I span 2^rank sums.
RankMinusI ==
  LET diff == [q \in Wires(n) |-> SymDiff(Target[q], {q})]
  IN  CHOOSE r \in 0..n : Cardinality({Sum(diff, y) : y \in SUBSET Wires(n)}) = 2 ^ r

Synthesizable ==
  /\ job.gates > 2 /\ ~Ps.over
  /\ \A p \in DOMAIN Ps.cont : p # {} /\ OnInputs(p)
  /\ \A q \in Wires(n) : OnInputs(Target[q])
  /\ job.kind = "gray" => \A q \in Wires(n) : \A t \in Ps.rows[q] : Cardinality(t) <= 1
  /\ \A t \in DOMAIN Ps.disc : OnInputs(t)

PureCnots ==
  /\ job.gates > 2 /\ ~Ps.over
  /\ Ps.disc = Empty /\ Ps.cont = Empty
  /\ \A q \in Wires(n) : OnInputs(Target[q])
  /\ RankMinusI = 0 => Offsets # {}
  /\ RankMinusI > 0 => job.gates > RankMinusI

Start ==
  LET lifted == job.kind \in {"gray", "steiner"} IN
  /\ pc = "start"
  /\ pc' = IF job.kind = "matrix" THEN "lower"
           ELSE IF ~(IF lifted THEN Synthesizable ELSE PureCnots) THEN "refused"
           ELSE IF lifted THEN "lift" ELSE "lower"
  /\ coeff' = IF lifted THEN Strict([t \in DOMAIN Ps.disc |-> Ps.disc[t] * Eighth]) ELSE Empty
  /\ topo' = IF job.kind = "steiner" THEN Topology(n, job.adj) ELSE None
  /\ pass' = [pass EXCEPT !.m = IF job.kind = "matrix" THEN job.matrix ELSE Target]
  /\ UNCHANGED <<job, terms, wires, stack, frame, tree, out>>

-----------------------------------------------------------------------------
(* phase_monomials_to_parities: the heaviest monomial can only come from    *)
(* the parity of the same variables.                                        *)

LargerMask(s, t) == \E v \in s \ t : \A w \in s \cup t : w > v => w \in s \cap t
Heavier(s, t) ==
  Cardinality(s) > Cardinality(t) \/ (Cardinality(s) = Cardinality(t) /\ LargerMask(s, t))
Heaviest(S) == CHOOSE t \in S : \A s \in S \ {t} : Heavier(t, s)

Scale(S) == (IF Cardinality(S) % 2 = 1 THEN 1 ELSE -1) * 2 ^ (Cardinality(S) - 1)
Subtract(c, m, theta) ==
  LET left(S) == (IF S \in DOMAIN c THEN c[S] ELSE 0) - (IF S \subseteq m THEN theta * Scale(S) ELSE 0)
      kept == {S \in DOMAIN c \cup ((SUBSET m) \ {{}}) : left(S) # 0}
  IN  Strict([S \in kept |-> left(S)])

Lift ==
  LET m == Heaviest(DOMAIN coeff)
      theta == (coeff[m] * (IF Scale(m) > 0 THEN 1 ELSE -1)) \div 2 ^ (Cardinality(m) - 1)
      wide == Cardinality(m) > LiftCap
  IN  /\ pc = "lift" /\ coeff # Empty
      /\ pc' = IF wide THEN "refused" ELSE "lift"
      /\ coeff' = IF wide THEN coeff ELSE Subtract(coeff, m, theta)
      /\ terms' = IF wide THEN terms ELSE Strict([p \in DOMAIN terms \cup {m} |-> IF p = m THEN theta ELSE terms[p]])
      /\ UNCHANGED <<job, wires, stack, frame, tree, pass, topo, out>>

\* Both lists of parities, duplicates added up, and those of no angle dropped
\* (Steiner drops them as it comes to them).
Angle(f, p) == IF p \in DOMAIN f THEN f[p] ELSE 0
Merged ==
  LET ticks(p) == (Angle(terms, p) + Angle(Ps.cont, p)) % Turn
  IN  Strict([p \in {p \in DOMAIN terms \cup DOMAIN Ps.cont : ticks(p) # 0} |-> ticks(p)])

\* A frame: the duals left to place, the wires not split on, the target wire.
Frame(duals, unused, target) == [s |-> duals, unused |-> unused, target |-> target]
Without(f, S) == Strict([p \in DOMAIN f \ S |-> f[p]])

\* gray_place_ready: a dual of one wire is on that wire.  In which order they are
\* placed does not matter, the wires are distinct.
Ready(duals) == {y \in DOMAIN duals : Cardinality(y) = 1}
PlaceReady(duals) ==
  LET at == SetToSeq(UNION Ready(duals))
  IN  [i \in DOMAIN at |-> Rz(at[i], duals[{at[i]}])]
PlaceAll(lists) ==
  LET step(s, i) == s \o PlaceReady(lists[i]) IN Loop(step, << >>, 1, Len(lists) + 1)
Unplaced(duals) == Without(duals, Ready(duals))

Lifted ==
  /\ pc = "lift" /\ coeff = Empty
  /\ terms' = Merged
  /\ IF job.kind = "steiner"
     THEN pc' = "terms" /\ UNCHANGED <<stack, out>>
     ELSE /\ pc' = "pop"
          /\ out' = PlaceReady(Merged)
          /\ stack' = IF Unplaced(Merged) = Empty THEN << >>
                      ELSE <<Frame(Unplaced(Merged), Wires(n), None)>>
  /\ UNCHANGED <<job, coeff, wires, frame, tree, pass, topo>>

-----------------------------------------------------------------------------
(* synthesize_gray_network.  A dual y stands for the parity that is the sum *)
(* of the wires in y.                                                       *)

\* What is left of the linear map, in terms of the wires.
Residual == Strict([q \in Wires(n) |-> Solve(wires, n, Target[q]).combo])
Solvable == \A q \in Wires(n) : Solve(wires, n, Target[q]).rhs = {}

Pop ==
  /\ pc = "pop" /\ stack # << >>
  /\ stack' = Front(stack)
  /\ out' = out \o PlaceReady(Last(stack).s)
  /\ frame' = [Last(stack) EXCEPT !.s = Unplaced(@)]
  /\ pc' = IF Unplaced(Last(stack).s) = Empty THEN "pop" ELSE "common"
  /\ UNCHANGED <<job, coeff, terms, wires, tree, pass, topo>>

\* Mutant: only the wires not split on are looked at.
CommonUnused(f) ==
  IF f.target = None THEN {}
  ELSE {j \in f.unused \ {f.target} : /\ \A y \in DOMAIN f.s : j \in y
                                      /\ \E y \in DOMAIN f.s : f.target \in y}

\* A wire every dual of the frame has, while some dual has the target.
Common(f) ==
  IF f.target = None THEN {}
  ELSE {j \in Wires(n) \ {f.target} : /\ \A y \in DOMAIN f.s : j \in y
                                      /\ \E y \in DOMAIN f.s : f.target \in y}

\* gray_dual_cx: y_c := y_c + y_t.
Dual(y, c, t) == IF t \in y THEN SymDiff(y, {c}) ELSE y
DualCx(duals, c, t) ==
  Strict([z \in {Dual(y, c, t) : y \in DOMAIN duals} |-> duals[Dual(z, c, t)]])

\* Mutant: the frames on the stack keep their duals.
ShareTop ==
  LET j == LeastOf(Common(frame))
      t == frame.target
      now == DualCx(frame.s, j, t)
  IN  /\ pc = "common" /\ Common(frame) # {}
      /\ wires' = AddRow(wires, j, t)
      /\ out' = Append(out, Cx(<<j, t>>)) \o PlaceReady(now)
      /\ frame' = [frame EXCEPT !.s = Unplaced(now)]
      /\ pc' = IF Unplaced(now) = Empty THEN "pop" ELSE "common"
      /\ UNCHANGED <<job, coeff, terms, stack, tree, pass, topo>>

Share ==
  LET j == LeastOf(Common(frame))
      t == frame.target
      now == DualCx(frame.s, j, t)
      below == [i \in DOMAIN stack |-> DualCx(stack[i].s, j, t)]
  IN  /\ pc = "common" /\ Common(frame) # {}
      /\ wires' = AddRow(wires, j, t)
      /\ out' = Append(out, Cx(<<j, t>>)) \o PlaceReady(now) \o PlaceAll(below)
      /\ frame' = [frame EXCEPT !.s = Unplaced(now)]
      /\ stack' = [i \in DOMAIN stack |-> [stack[i] EXCEPT !.s = Unplaced(below[i])]]
      /\ pc' = IF Unplaced(now) = Empty THEN "pop" ELSE "common"
      /\ UNCHANGED <<job, coeff, terms, tree, pass, topo>>

\* The wire with the larger cofactor, ties to the lowest.
Score(f, j) ==
  LET ones == Cardinality({y \in DOMAIN f.s : j \in y})
      zeros == Cardinality(DOMAIN f.s) - ones
  IN  IF ones >= zeros THEN ones ELSE zeros
Best(f) ==
  CHOOSE j \in f.unused : \A i \in f.unused \ {j} :
    Score(f, j) > Score(f, i) \/ (Score(f, j) = Score(f, i) /\ j < i)

Split ==
  LET j == Best(frame)
      ones == {y \in DOMAIN frame.s : j \in y}
      part(S, target) ==
        IF S = {} THEN << >>
        ELSE <<Frame(Strict([y \in S |-> frame.s[y]]), frame.unused \ {j}, target)>>
  IN  /\ pc = "common" /\ Common(frame) = {}
      /\ IF frame.unused = {} THEN pc' = "refused" /\ UNCHANGED <<stack, frame>>
         ELSE /\ stack' = stack \o part(ones, IF frame.target = None THEN j ELSE frame.target)
                                \o part(DOMAIN frame.s \ ones, frame.target)
              /\ frame' = None
              /\ pc' = "pop"
      /\ UNCHANGED <<job, coeff, terms, wires, tree, pass, topo, out>>

GrayRest ==
  /\ pc = "pop" /\ stack = << >>
  /\ pc' = IF Solvable THEN "lower" ELSE "refused"
  /\ pass' = [pass EXCEPT !.m = Residual]
  /\ UNCHANGED <<job, coeff, terms, wires, stack, frame, tree, topo, out>>

-----------------------------------------------------------------------------
(* synthesize_steiner_logic: per parity a tree of CNOTs into its first      *)
(* wire, the RZ, and the tree again, backwards.                             *)

\* Prim's algorithm over the terminals, each edge a whole route.
PrimStep(acc, terminals, t) ==
  LET pairs == (acc.in \X (terminals \ acc.in))
      key(e) == (t.dist[e[1]][e[2]] * n + e[1]) * n + e[2]
      e == CHOOSE e \in pairs : \A d \in pairs : key(e) <= key(d)
      p == Route(t, e[1], e[2])
  IN  IF pairs = {} \/ ~Connected(t, e[1], e[2]) THEN acc
      ELSE [in |-> acc.in \cup {e[2]},
            edges |-> acc.edges \cup {{p[i], p[i+1]} : i \in 1 .. Len(p) - 1}]
TreeEdges(terminals, t) ==
  LET step(acc, i) == PrimStep(acc, terminals, t)
  IN  Loop(step, [in |-> {LeastOf(terminals)}, edges |-> {}], 1, Cardinality(terminals)).edges

\* The parents a search of the edges from the root can leave.  The edges are in
\* a hash set: their order, and that of the parities, is arbitrary.
Spread(R, edges) == R \cup {v \in UNION edges : \E u \in R : {u, v} \in edges}
Reached(edges, root) ==
  LET step(R, i) == Spread(R, edges) IN Loop(step, {root}, 0, n)
Parents(edges, root) ==
  LET reached == Reached(edges, root)
      rooted(f, u) == Loop(LAMBDA v, i : IF v = root THEN v ELSE f[v], u, 0, n) = root
  IN  {f \in [reached \ {root} -> reached] :
         \A u \in DOMAIN f : {u, f[u]} \in edges /\ rooted(f, u)}

PickTerm ==
  \E p \in DOMAIN terms :
    LET root == LeastOf(p) IN
    /\ pc = "terms"
    /\ \E f \in Parents(TreeEdges(p, topo), root) :
         tree' = [root |-> root, parent |-> f, folded |-> << >>, ticks |-> terms[p]]
    /\ terms' = Without(terms, {p})
    /\ pc' = "tree"
    /\ UNCHANGED <<job, coeff, wires, stack, frame, pass, topo, out>>

\* A wire is added to its parent after its children were added to it.
FoldIn ==
  /\ pc = "tree"
  /\ \E u \in DOMAIN tree.parent \ Range(tree.folded) :
       /\ \A v \in DOMAIN tree.parent : tree.parent[v] = u => v \in Range(tree.folded)
       /\ tree' = [tree EXCEPT !.folded = Append(@, u)]
       /\ wires' = AddRow(wires, u, tree.parent[u])
       /\ out' = Append(out, Cx(<<u, tree.parent[u]>>))
  /\ UNCHANGED <<job, pc, coeff, terms, stack, frame, pass, topo>>

Rotate ==
  LET back == [i \in DOMAIN tree.folded |->
                 <<Reverse(tree.folded)[i], tree.parent[Reverse(tree.folded)[i]]>>]
  IN  /\ pc = "tree" /\ Range(tree.folded) = DOMAIN tree.parent
      /\ out' = Append(out, Rz(tree.root, tree.ticks)) \o CxAll(back)
      /\ wires' = ApplyCnots(wires, back)
      /\ tree' = None
      /\ pc' = "terms"
      /\ UNCHANGED <<job, coeff, terms, stack, frame, pass, topo>>

SteinerRest ==
  /\ pc = "terms" /\ terms = Empty
  /\ pc' = "lower"
  /\ UNCHANGED <<job, coeff, terms, wires, stack, frame, tree, pass, topo, out>>

-----------------------------------------------------------------------------
(* synthesize_cnot_matrix, and the end of each call.                        *)

Size ==
  LET most == IF n < 8 THEN n ELSE 8
      asked == IF job.size = None THEN SectionSize(n) ELSE job.size
  IN  IF asked < 1 \/ most = 0 THEN 1 ELSE IF asked > most THEN most ELSE asked

\* With a section size the caller gets the error.
Failed == IF job.size = None THEN "fallback" ELSE "refused"

Lower ==
  LET done == LowerPass(pass.m, n, Size)
  IN  /\ pc = "lower"
      /\ pass' = [pass EXCEPT !.want = pass.m, !.m = Transpose(done.m), !.lower = done.ops]
      /\ pc' = IF UnitDiagonal(done.m) THEN "upper" ELSE Failed
      /\ UNCHANGED <<job, coeff, terms, wires, stack, frame, tree, topo, out>>

\* The X layer closes the circuit; it is returned if it costs less than before.
Cost(instructions) ==
  (Len(instructions) - Count(instructions, "cx")) * RzWeight + Count(instructions, "cx") * CnotWeight
Emit(cnots) ==
  LET routed == IF job.kind = "steiner" THEN RouteAll(topo, cnots) ELSE cnots
      xs == IF job.kind = "matrix" THEN << >> ELSE SetToSeq(Offsets)
      all == out \o CxAll(routed) \o [i \in DOMAIN xs |-> X(xs[i])]
      cheaper == CASE job.kind = "matrix" -> TRUE
                   [] job.kind = "pmh" -> Len(all) < job.gates
                   [] OTHER -> Cost(all) < job.hw
  IN  /\ out' = all
      /\ pc' = IF cheaper THEN "done" ELSE "costly"

\* The circuit is checked against the matrix before it is used.
Upper ==
  LET done == LowerPass(pass.m, n, Size)
      cnots == Stitch(pass.lower, done.ops)
      right == UnitDiagonal(done.m) /\ ApplyCnots(IdentityMap(n), cnots) = pass.want
  IN  /\ pc = "upper"
      /\ IF right THEN Emit(cnots) ELSE pc' = Failed /\ UNCHANGED out
      /\ UNCHANGED <<job, coeff, terms, wires, stack, frame, tree, pass, topo>>

Fallback ==
  /\ pc = "fallback"
  /\ Emit(GaussJordan(pass.want, n))
  /\ UNCHANGED <<job, coeff, terms, wires, stack, frame, tree, pass, topo>>

\* The call has returned.  Nothing else may stop it.
Stop == pc \in {"done", "refused", "costly"} /\ UNCHANGED vars

Init ==
  /\ job \in Jobs
  /\ pc = "start"
  /\ coeff = Empty /\ terms = Empty
  /\ wires = IdentityMap(job.ps.n)
  /\ stack = << >> /\ frame = None /\ tree = None /\ topo = None
  /\ pass = [m |-> IdentityMap(job.ps.n), want |-> None, lower |-> << >>]
  /\ out = << >>

Next ==
  \/ Start \/ Lift \/ Lifted
  \/ Pop \/ Share \/ Split \/ GrayRest
  \/ PickTerm \/ FoldIn \/ Rotate \/ SteinerRest
  \/ Lower \/ Upper \/ Fallback
  \/ Stop

Spec == Init /\ [][Next]_vars

-----------------------------------------------------------------------------
(* Properties.                                                              *)

(* What a call returns is the operator it was given: replayed gate by gate, *)
(* the circuit denotes the path sum of the call, global phase aside, and    *)
(* the CNOTs of an invertible matrix multiply to it.  The tests of          *)
(* pathsum.rs compare fingerprints of a dozen circuits.                     *)
Realises ==
  pc = "done" =>
    IF job.kind # "matrix" THEN Replay(out) = Ps
    ELSE Invertible(job.matrix) =>
           ApplyCnots(IdentityMap(n), [i \in DOMAIN out |-> <<out[i].arg, out[i].q>>]) = job.matrix

\* The parity each RZ of the circuit turns, as <<parity, ticks>>.
Traced(acc, g) ==
  IF g.op = "cx" THEN [acc EXCEPT !.m = AddRow(@, g.arg, g.q)]
  ELSE [acc EXCEPT !.rz = Append(@, <<acc.m[g.q], g.arg>>)]
Trace(instructions) ==
  LET step(acc, i) == Traced(acc, instructions[i])
  IN  Loop(step, [m |-> IdentityMap(n), rz |-> << >>], 1, Len(instructions) + 1)
Placed == Trace(out).rz

\* The parities the duals of the frames stand for, and how many duals there are.
Frames == IF pc = "pop" THEN stack ELSE Append(stack, frame)
Pending(frames) == UNION {{<<Sum(wires, y), frames[i].s[y]>> : y \in DOMAIN frames[i].s} : i \in DOMAIN frames}
Duals(frames) == UNION {{<<i, y>> : y \in DOMAIN frames[i].s} : i \in DOMAIN frames}

(* GraySynth places every phase once and on the right wire.  No CNOT is     *)
(* undone, so each dual in each frame must follow every CNOT made for any   *)
(* other: at every point the RZs placed and the parities the duals stand    *)
(* for are the phases of the call, none lost and none twice.                *)
Accounted ==
  job.kind = "gray" /\ pc \in {"pop", "common"} =>
    /\ Len(Placed) + Cardinality(Duals(Frames)) = Cardinality(DOMAIN terms)
    /\ ToSet(Placed) \cup Pending(Frames) = {<<p, terms[p]>> : p \in DOMAIN terms}

(* An admitted call is answered: the duals of a frame come down to one wire *)
(* before the frame runs out of wires to split on, the wires stay a basis,  *)
(* and no monomial is too wide, so `return None` is for what the guards     *)
(* refuse.  Gauss-Jordan is for the matrices no circuit has:                *)
(* Patel-Markov-Hayes inverts every invertible one, for every section size, *)
(* and its own check of the stitched circuit never fails.                   *)
AlwaysAnswers ==
  /\ pc = "refused" /\ job.kind # "matrix" =>
       ~(IF job.kind = "pmh" THEN PureCnots ELSE Synthesizable)
  /\ pc = "fallback" \/ (pc = "refused" /\ job.kind = "matrix") => ~Invertible(pass.want)

(* A Steiner circuit runs on the machine it was made for: its CNOTs, those  *)
(* of the routed linear part included, join neighbours of the topology.     *)
OnTopology ==
  pc = "done" /\ job.kind = "steiner" =>
    \A i \in DOMAIN out : out[i].op = "cx" => {out[i].q, out[i].arg} \in job.adj

=============================================================================
