------------------------ MODULE SynthesisInvariants ------------------------
(***************************************************************************)
(* What the proofs about the synthesizers say of their state and of the    *)
(* data they work on: the invariants, one part per idea, and what they     *)
(* make of circuits, frames, trees and routes.                             *)
(***************************************************************************)
EXTENDS Synthesis

\* The function g starts at x and goes on with F.
Follows(g, x, F, a, b) == g[a] = x /\ \A i \in a .. b - 1 : g[i + 1] = F[i][g[i]]

Mat(N) == [Wires(N) -> SUBSET Wires(N)]
Gates(N) == {g \in Wires(N) \X Wires(N) : g[1] # g[2]}
Elim(N) == [m : Mat(N), ops : Seq(Gates(N))]

\* Distances and first steps that agree: a step towards v leaves less to go.
Routed(t, N, adj) ==
  /\ \A u \in Wires(N) : t.dist[u][u] = 0
  /\ \A u, v \in Wires(N) : u # v /\ t.dist[u][v] < Infinite =>
       /\ {u, t.next[u][v]} \in adj
       /\ t.dist[t.next[u][v]][v] + 1 <= t.dist[u][v]
Tables(N) == [dist : [Wires(N) -> [Wires(N) -> Nat]], next : [Wires(N) -> [Wires(N) -> Wires(N)]]]
Routes(N, adj) == {t \in Tables(N) : Routed(t, N, adj)}

\* Walks from wire to neighbouring wire, and those that can still get to v.
Walks(N, adj) ==
  {p \in Seq(Wires(N)) : Len(p) >= 1 /\ \A i \in 1 .. Len(p) - 1 : {p[i], p[i + 1]} \in adj}
WalksTo(t, N, adj, v) == {p \in Walks(N, adj) : Connected(t, p[Len(p)], v)}
Joined(N, adj) == {g \in Wires(N) \X Wires(N) : {g[1], g[2]} \in adj}

Solver(N) == [m : Mat(N), of : Mat(N), used : SUBSET Wires(N), rhs : SUBSET Wires(N), combo : SUBSET Wires(N)]

\* The rows that may take a bit.
Free(a, bit) == {i \in DOMAIN a.m : i \notin a.used /\ bit \in a.m[i]}

\* What Prim's algorithm has so far.
Trees(adj) == [in : SUBSET Wires(n), edges : SUBSET {e \in adj : e \subseteq Wires(n)}]

\* Of the wires of the tree and those left, two that are nearest.
Nearest(t, pairs) ==
  CHOOSE e \in pairs : \A d \in pairs :
    (t.dist[e[1]][e[2]] * n + e[1]) * n + e[2] <= (t.dist[d[1]][d[2]] * n + d[1]) * n + d[2]

IsSeq(s) == \E A : s \in Seq(A)
OnEdges(s, adj) == \E A : s \in Seq(A) /\ \A g \in A : g.op = "cx" => {g.q, g.arg} \in adj

Parity(N) == (SUBSET Wires(N)) \ {{}}
IsFun(f) == f = [x \in DOMAIN f |-> f[x]]
IsFrame(f, N) ==
  /\ f = Frame(f.s, f.unused, f.target) /\ IsFun(f.s)
  /\ DOMAIN f.s \subseteq Parity(N) /\ f.unused \subseteq Wires(N) /\ f.target \in Wires(N) \cup {None}

Pcs == {"start", "lift", "pop", "common", "terms", "tree", "lower", "upper", "fallback", "done", "refused", "costly"}
Admitted == IF job.kind \in {"gray", "steiner"} THEN Synthesizable ELSE PureCnots

KindsFit ==
  /\ job \in Jobs /\ pc \in Pcs
  /\ pc \notin {"start", "refused"} /\ job.kind # "matrix" => Admitted
  /\ pc = "lift" => job.kind \in {"gray", "steiner"}
  /\ pc \in {"pop", "common"} => job.kind = "gray"
  /\ pc \in {"terms", "tree"} => job.kind = "steiner"
TermsFit ==
  /\ pc = "start" => terms = Empty
  /\ pc = "lift" => IsFun(coeff) /\ DOMAIN coeff \subseteq Parity(n)
  /\ pc \in {"lift", "pop", "common", "terms", "tree"} => IsFun(terms) /\ DOMAIN terms \subseteq Parity(n)
PassFits ==
  /\ pass = [m |-> pass.m, want |-> pass.want, lower |-> pass.lower]
  /\ pc \notin {"start", "refused"} => pass.m \in Mat(n)
  /\ pc \in {"upper", "fallback"} => pass.want \in Mat(n) /\ pass.lower \in Seq(Gates(n))
WiresFit == job.kind = "gray" => wires \in Mat(n)
FramesFit ==
  /\ pc \in {"pop", "common"} => IsSeq(stack) /\ \A i \in DOMAIN stack : IsFrame(stack[i], n)
  /\ pc = "common" => IsFrame(frame, n)
TreeFits ==
  pc = "tree" =>
    /\ tree = [root |-> tree.root, parent |-> tree.parent, folded |-> tree.folded, ticks |-> tree.ticks]
    /\ \A u \in DOMAIN tree.parent : u \in Wires(n) /\ tree.parent[u] \in Wires(n) /\ {u, tree.parent[u]} \in job.adj
    /\ tree.folded \in Seq(DOMAIN tree.parent)
TopoFits == job.kind = "steiner" /\ pc # "start" => topo \in Routes(n, job.adj)
OutFits == job.kind = "steiner" => OnEdges(out, job.adj)

TypeInv == KindsFit /\ TermsFit /\ PassFits /\ WiresFit /\ FramesFit /\ TreeFits /\ TopoFits /\ OutFits

\* v is the top variable of s that t has not, and above it they agree.
Above(s, t, v, N) ==
  v \in s \ t /\ \A w \in Wires(N) : w > v => (w \in s <=> w \in t)

\* Ticks of parities.
IsPhases(f, N) == IsFun(f) /\ DOMAIN f \subseteq Parity(N)

AllFrames(s, N) == IsSeq(s) /\ \A i \in DOMAIN s : IsFrame(s[i], N)

\* The rows in y that have v.
Rows(m, y, v) == {i \in y : v \in m[i]}

\* The CNOTs of a circuit, and its RZs and Xs; A has the angles.
Ops(A) == {g \in [op : {"cx"}, q : Wires(n), arg : Wires(n)] : g.q # g.arg} \cup [op : {"rz", "x"}, q : Wires(n), arg : A]
Traces(A) == [m : Mat(n), rz : Seq((SUBSET Wires(n)) \X A)]

\* The circuit t starts with s.
Begins(t, s) == Len(s) <= Len(t) /\ \A i \in 1 .. Len(s) : t[i] = s[i]

\* Gates on one wire.
Locals(A) == [op : {"rz", "x"}, q : Wires(n), arg : A]
\* What the gates of R turn with these wires.
Seen(m, R) == {<<m[R[i].q], R[i].arg>> : i \in 1 .. Len(R)}

\* The ticks of some phases, and what they turn with these wires.
Ticks(d) == {d[y] : y \in DOMAIN d}
OwedOf(m, d) == {<<Sum(m, y), d[y]>> : y \in DOMAIN d}

\* Lists of phases: the duals in them, and what the duals stand for.
AllPhases(L, N) == IsSeq(L) /\ \A i \in DOMAIN L : IsPhases(L[i], N)
Pairs(L) == UNION {{<<i, y>> : y \in DOMAIN L[i]} : i \in DOMAIN L}
Owed(m, L) == UNION {{<<Sum(m, y), L[i][y]>> : y \in DOMAIN L[i]} : i \in DOMAIN L}

AllTicks(L) == UNION {Ticks(L[i]) : i \in DOMAIN L}
Firsts(L, i) == [x \in 1 .. i |-> L[x]]

Whole(phases) == {<<p, phases[p]>> : p \in DOMAIN phases}

\* The RZs of a circuit and the duals in some lists are these phases, one for one.
Balanced(s, L, phases) ==
  /\ \E A : s \in Seq(Ops(A))
  /\ AllPhases(L, n)
  /\ Len(Trace(s).rz) + Cardinality(Pairs(L)) = Cardinality(DOMAIN phases)
  /\ ToSet(Trace(s).rz) \cup Owed(Trace(s).m, L) = Whole(phases)

PhasesOf(frames) == [i \in DOMAIN frames |-> frames[i].s]

\* While phases are placed, the wires are what the circuit so far makes of them,
\* and it and the frames have the phases of the call.
Books ==
  job.kind = "gray" =>
    /\ pc \in {"start", "lift"} => out = << >> /\ wires = IdentityMap(n)
    /\ pc = "pop" => Balanced(out, PhasesOf(stack), terms)
    /\ pc = "common" => Balanced(out, Append(PhasesOf(stack), frame.s), terms)
    /\ pc \in {"pop", "common"} => Trace(out).m = wires

\* The solver has done the bits below b.
Solved(a, b, N) ==
  /\ a \in Solver(N) /\ Invertible(a.m) /\ Cardinality(a.used) = b
  /\ \A i \in Wires(N) \ a.used : a.m[i] \subseteq b .. N - 1
  /\ a.rhs \subseteq b .. N - 1

\* f goes through the maps between the CNOTs.
Stages(f, m, cnots, N) ==
  /\ f \in [1 .. Len(cnots) + 1 -> Mat(N)] /\ f[1] = m
  /\ \A i \in 1 .. Len(cnots) : f[i + 1] = Apply(f[i], cnots[i])

\* The columns before k have their one on the diagonal and none below it.
Lowered(m, k, N) ==
  \A q \in Wires(N) : q < k => q \in m[q] /\ \A r \in Wires(N) : r > q => q \notin m[r]
\* All the ones are on the diagonal, without a gap, and below it.
UnitLow(m, N) == \A q \in Wires(N) : q \in m[q] /\ \A v \in m[q] : v <= q

\* What the lower pass has made of m up to column k.
Kept(a, m, low, k, N) ==
  /\ a \in Elim(N) /\ Invertible(a.m) /\ ApplyCnots(m, a.ops) = a.m
  /\ Lowered(a.m, k, N)
  /\ low => UnitLow(a.m, N)

(***************************************************************************)
(* No call is refused half way: the duals of a frame agree on the wires it *)
(* was split on, and the frames below one still have to be split on its    *)
(* wires.                                                                  *)
(***************************************************************************)
\* The duals of a frame without a target have no wire it was split on; those of a
\* frame with one have the target, and the same of the other wires.
Agreed(f) ==
  IF f.target = None THEN \A y \in DOMAIN f.s : y \subseteq f.unused
  ELSE /\ f.target \notin f.unused
       /\ \A y \in DOMAIN f.s : f.target \in y
       /\ \A y, z \in DOMAIN f.s : y \ f.unused = z \ f.unused

\* f below g on the stack: g is of the same target, or none of its duals has a wire
\* that f was split on.
Over(f, g) ==
  /\ f.target # None /\ g.unused \subseteq f.unused
  /\ \/ g.target = f.target
     \/ (\A y \in DOMAIN g.s : y \subseteq f.unused) /\ (g.target = None \/ g.target \in f.unused)

Stacked(frames) ==
  /\ \A i \in DOMAIN frames : Agreed(frames[i])
  /\ \A i, k \in DOMAIN frames : i < k => Over(frames[i], frames[k])

\* g is f with some of its duals left out, after a CNOT of c and t or without one.
Thinned(g, f) == g.unused = f.unused /\ g.target = f.target /\ DOMAIN g.s \subseteq DOMAIN f.s
Toggled(g, f, c, t) ==
  g.unused = f.unused /\ g.target = f.target /\ \A z \in DOMAIN g.s : \E y \in DOMAIN f.s : z = Dual(y, c, t)

\* The lift expands the monomials of every call.
Liftable == \A j \in Jobs : \A t \in DOMAIN j.ps.disc : Cardinality(t) <= LiftCap

\* The frames are stacked; the one being worked on has duals left, none of one wire.
Splits ==
  /\ pc = "pop" => Stacked(stack)
  /\ pc = "common" => Stacked(Append(stack, frame)) /\ DOMAIN frame.s # {} /\ Ready(frame.s) = {}
\* The wires are a basis, so no dual stands for nothing and the residual is found.
Based == job.kind = "gray" => Invertible(wires)
Narrow == Liftable /\ pc = "lift" => \A t \in DOMAIN coeff : Cardinality(t) <= LiftCap
Refusals == Liftable /\ pc = "refused" /\ job.kind # "matrix" => ~Admitted
\* The upper pass works on what the lower pass left, and only a map that is not
\* invertible falls back.
Passes ==
  /\ pc = "upper" => /\ pass.m = Transpose(LowerPass(pass.want, n, Size).m)
                     /\ pass.lower = LowerPass(pass.want, n, Size).ops
  /\ pc = "fallback" \/ (pc = "refused" /\ job.kind = "matrix") => ~Invertible(pass.want)

Answered == Splits /\ Based /\ Narrow /\ Refusals /\ Passes

\* The map that the call is to build, and the CNOTs of a circuit as pairs.
Wanted == IF job.kind = "matrix" THEN job.matrix ELSE Target
PairsOf(s) == [i \in DOMAIN s |-> <<s[i].arg, s[i].q>>]

\* The circuit of an invertible map has it on its wires.
MapBuilt == pc = "done" /\ job.kind # "steiner" /\ Invertible(Wanted) => Trace(out).m = Wanted
MatrixBuilt ==
  pc = "done" /\ job.kind = "matrix" /\ Invertible(Wanted) => ApplyCnots(IdentityMap(n), PairsOf(out)) = Wanted
\* Where no phase is placed, nothing is until the CNOTs are there.
Waits == job.kind \in {"pmh", "matrix"} /\ pc \notin {"done", "costly"} => wires = IdentityMap(n) /\ out = << >>
\* When the CNOTs are made, the circuit has the wires, and in terms of them the
\* map that they are made for is the one the call wants.
Matches ==
  job.kind # "steiner" /\ pc \in {"lower", "upper", "fallback"} =>
    wires \in Mat(n) /\ (\E A : out \in Seq(Ops(A))) /\ Trace(out).m = wires
Factored ==
  job.kind # "steiner" =>
    /\ pc = "lower" => \A q \in Wires(n) : Sum(wires, pass.m[q]) = Wanted[q]
    /\ pc \in {"upper", "fallback"} => \A q \in Wires(n) : Sum(wires, pass.want[q]) = Wanted[q]

Mapped == Waits /\ Matches /\ Factored /\ MapBuilt /\ MatrixBuilt

\* The phases that a Gray circuit turns are those of the call, one for one; the X
\* layer is the only other thing the trace has.
PhasesBuilt ==
  pc = "done" /\ job.kind = "gray" =>
    /\ Len(Placed) = Cardinality(DOMAIN terms) + Cardinality(Offsets)
    /\ {x \in ToSet(Placed) : x[2] # 0} = Whole(terms)

\* The merged phases are not zero, and while the CNOTs are made all are placed.
Nonzero(phases) == \A p \in DOMAIN phases : phases[p] # 0
AllPlaced(s, phases) == Len(Trace(s).rz) = Cardinality(DOMAIN phases) /\ ToSet(Trace(s).rz) = Whole(phases)
PhasesKept ==
  job.kind = "gray" =>
    /\ pc \in {"pop", "common", "lower", "upper", "fallback"} => Nonzero(terms)
    /\ pc \in {"lower", "upper", "fallback"} => AllPlaced(out, terms)
    /\ PhasesBuilt

(***************************************************************************)
(* A routed CNOT is the CNOT it stands for, so that a Steiner call builds  *)
(* its linear map on every topology whose wires are linked.                *)
(***************************************************************************)
\* The edges of the complete graph.
Distinct(N) == {e \in SUBSET Wires(N) : \E a, b \in Wires(N) : a # b /\ e = {a, b}}

\* A walk from u that has not been at v before its last wire, with i hops made.
Nears(p, t, u, v, i) ==
  /\ p[1] = u
  /\ \A k \in 1 .. Len(p) - 1 : p[k] # v
  /\ p[Len(p)] = v \/ t.dist[p[Len(p)]][v] + i <= t.dist[u][v]

\* Two maps that differ in one row at most.
SameBut(m, a, v, N) == \A q \in Wires(N) : q # v => a[q] = m[q]

\* The CNOTs of the wires folded into their parents, and what a tree spans.
Folds(s, f) == [i \in DOMAIN s |-> <<s[i], f[s[i]]>>]
Spans(tr) == {tr.root} \cup DOMAIN tr.parent

\* A tree half folded: a folded wire has its children folded, and each wire of the
\* tree is on exactly one of those not folded, with no other wire.
Shaped(tr) ==
  /\ tr.root \in Wires(n) /\ tr.root \notin DOMAIN tr.parent /\ DOMAIN tr.parent \subseteq Wires(n)
  /\ \A u \in DOMAIN tr.parent : tr.parent[u] \in Spans(tr) /\ tr.parent[u] # u
  /\ tr.folded \in Seq(DOMAIN tr.parent)
  /\ \A u \in Range(tr.folded) : \A v \in DOMAIN tr.parent : tr.parent[v] = u => v \in Range(tr.folded)
Gathered(tr, w) ==
  /\ \A a \in Spans(tr) \ Range(tr.folded) : w[a] \subseteq Spans(tr)
  /\ \A x \in Spans(tr) : \E a \in Spans(tr) \ Range(tr.folded) : x \in w[a]
  /\ \A a, b \in Spans(tr) \ Range(tr.folded) : a # b => w[a] \cap w[b] = {}
Halfway(tr, w) ==
  /\ Shaped(tr) /\ Gathered(tr, w)
  /\ w = ApplyCnots(IdentityMap(n), Folds(tr.folded, tr.parent))

\* The circuit of a Steiner call has the map of the call on its wires, where every
\* two wires are linked.
Linked == \A u, v \in Wires(n) : Connected(topo, u, v)
SteinerMapBuilt ==
  pc = "done" /\ job.kind = "steiner" /\ Linked /\ Invertible(Target) => Trace(out).m = Target

\* Between two trees the wires are the inputs again, and what is synthesized in the
\* end is the whole map.
Ended == {"done", "costly", "refused"}
Rooted ==
  job.kind = "steiner" =>
    /\ pc \notin Ended => wires \in Mat(n) /\ (\E A : out \in Seq(Ops(A))) /\ Trace(out).m = wires
    /\ pc \notin Ended \cup {"tree"} => wires = IdentityMap(n)
    /\ pc = "tree" => Halfway(tree, wires)
    /\ pc \in {"lift", "terms", "tree", "lower"} => pass.m = Target
    /\ pc \in {"upper", "fallback"} => pass.want = Target
    /\ pc \in {"lower", "upper", "fallback"} => terms = Empty
    /\ SteinerMapBuilt

\* The wires of a parity are linked, and no route between them leaves it.
WithinOf(t, p) == \A u, v \in p : Connected(t, u, v) /\ Range(Route(t, u, v)) \subseteq p
Closed(R, edges) == \A u \in R : \A v \in Wires(n) : {u, v} \in edges => v \in R

\* What Prim's algorithm has is within the terminals, and whoever follows its edges
\* from the root comes to all of it.
Spanning(acc, terminals, root) ==
  /\ acc.in \subseteq terminals /\ \A e \in acc.edges : e \subseteq terminals
  /\ \A R \in SUBSET Wires(n) : root \in R /\ Closed(R, acc.edges) => acc.in \subseteq R

\* The rotations of a Steiner call by other than 0: those in the circuit, the phases
\* left, and the one of the tree at hand; and how many are due, the empty ones of the
\* X layer aside.
Current(tr, at) == IF at = "tree" THEN {<<Spans(tr), tr.ticks>>} ELSE {}
AnglesOf(rz, phases, tr, at) == {x \in ToSet(rz) \cup Whole(phases) \cup Current(tr, at) : x[2] # 0}
DueOf(rz, phases, at, layer) ==
  Len(rz) + Cardinality(DOMAIN phases) + (IF at = "tree" THEN 1 ELSE 0) - (IF at \in {"done", "costly"} THEN layer ELSE 0)
Angles == AnglesOf(Placed, terms, tree, pc)
Due == DueOf(Placed, terms, pc, Cardinality(Offsets))

\* No step of a Steiner call loses a phase, turns one twice, or turns another parity by
\* its angle, as long as no parity that is left has a route out of it.
AnglesKept ==
  [][job.kind = "steiner" /\ pc \notin {"start", "lift"} /\ (\A p \in DOMAIN terms : WithinOf(topo, p))
       => Angles' = Angles /\ Due' = Due]_vars
=============================================================================
