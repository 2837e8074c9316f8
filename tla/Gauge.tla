-------------------------------- MODULE Gauge --------------------------------
(***************************************************************************)
(* The canonical gauge of a path sum (canonicalize_gauge and its helpers,  *)
(* src/src/engine/reduction.rs).  Path variables are defined up to an      *)
(* affine change and a renaming; the pass chooses one representative:      *)
(*   1. RowEchelon    every row with a fresh path variable becomes it,     *)
(*   2. ParityPivots  so does every parity with a fresh variable,          *)
(*   3. ConstantGauge chooses between v and 1 XOR v for the variables that *)
(*                    are no row's pivot,                                  *)
(*   4. Relabel       row pivots first, the rest by signature.             *)
(* `order` is the sequence of the row pivots, in row order.                *)
(*                                                                         *)
(* The signature of a variable is in the code a 64-bit sum of hashes of    *)
(* the terms and parities it occurs in.  Here it is the sorted sequence of *)
(* what is hashed: hashes that do not collide, compared in one fixed       *)
(* order.                                                                  *)
(***************************************************************************)
EXTENDS PhasePoly

CONSTANT JointCap       \* JOINT_CAP: largest component searched exhaustively

ASSUME JointCapAssumption == JointCap \in Nat

Smallest(S, keys) == LET key == Strict(keys) IN CHOOSE x \in S : \A y \in S : key[x] <= key[y]
Ascending(S) == Strict([i \in 1..Cardinality(S) |->
                   CHOOSE x \in S : Cardinality({y \in S : y < x}) = i - 1])

LexLess(s, t) ==
  \E i \in 1..Len(t) :
    /\ \A j \in 1..i-1 : j <= Len(s) /\ s[j] = t[j]
    /\ i > Len(s) \/ s[i] < t[i]

\* The multiset of the codes, in order: items[x] is the code of item x.
Sorted(items) ==
  LET code == Strict(items)
      value(i) == CHOOSE c \in {code[x] : x \in DOMAIN code} :
                    /\ Cardinality({x \in DOMAIN code : code[x] < c}) < i
                    /\ Cardinality({x \in DOMAIN code : code[x] <= c}) >= i
  IN  Strict([i \in 1..Cardinality(DOMAIN code) |-> value(i)])

-----------------------------------------------------------------------------
(* 1. Row echelon.                                                          *)

\* Of several fresh variables, the one in the fewest terms, ties to the lowest.
Pick(disc, fresh) ==
  Smallest(fresh, [v \in fresh |->
    Capacity * Cardinality({t \in DOMAIN disc : v \in t}) + v])

FreshIn(ps, V, pivots) == (V \cap PathVars(ps)) \ pivots

RowStep(acc, q) ==
  LET row == acc.ps.rows[q]
      fresh == FreshIn(acc.ps, VarsOf(row), Range(acc.order))
      v == Pick(acc.ps.disc, fresh)
  IN  IF fresh = {} THEN acc
      ELSE [ps |-> Substitute(acc.ps, v, row \ {{v}}),
            order |-> Append(acc.order, v),
            changed |-> acc.changed \/ row # {{v}}]

RowEchelon(ps) ==
  LET done == FoldLeft(RowStep, [ps |-> ps, order |-> << >>, changed |-> FALSE],
                       [i \in 1..ps.n |-> i - 1])
  IN  [done EXCEPT !.ps = IF done.changed THEN Settle(@) ELSE @]

-----------------------------------------------------------------------------
(* 2. Parity pivots.                                                        *)

\* canon_anchor: the qubits of a mask and its row pivots at their final places.
Anchor(ps, order, S) ==
  (S \cap Qubits(ps)) \cup {ps.n + k - 1 : k \in {k \in DOMAIN order : order[k] \in S}}

\* The angle up to a flip of sign, the anchor, the fresh variables, the place.
ParityKey(ps, order, p, fresh) ==
  LET r == ps.cont[p]
      angle == IF r <= Quarter - r THEN r ELSE Quarter - r
      wide == 2 ^ Capacity
  IN  ((angle * wide + Mask[Anchor(ps, order, p)]) * Bits + Cardinality(fresh)) * wide + Mask[p]

ParityStep(acc, order) ==
  LET ps == acc.ps
      fresh(p) == FreshIn(ps, p, acc.pivots)
      open == {p \in DOMAIN ps.cont : fresh(p) # {}}
      p == Smallest(open, [p \in open |-> ParityKey(ps, order, p, fresh(p))])
      v == Pick(ps.disc, fresh(p))
  IN  IF open = {} THEN acc
      ELSE [ps |-> IF p = {v} THEN ps ELSE Settle(Substitute(ps, v, Linear(p \ {v}))),
            pivots |-> acc.pivots \cup {v}]

ParityPivots(ps, order) ==
  LET step(acc, i) == ParityStep(acc, order)
  IN  FoldLeft(step, [ps |-> ps, pivots |-> Range(order)], [i \in 1..ps.m |-> i]).ps

-----------------------------------------------------------------------------
(* 3. Constant gauge, for the variables `rest` that are no row's pivot.     *)

Rest(ps, order) == PathVars(ps) \ Range(order)

Flip(ps, v) == Settle(Substitute(ps, v, {One}))
FlipAll(ps, V) == FoldLeft(Flip, ps, Ascending(V))

Bare(ps, v) == {v} \in DOMAIN ps.cont
ParityCount(ps, V) == Cardinality({p \in DOMAIN ps.cont : V \subseteq p})
Neighbours(ps, v, V) ==
  V \cap UNION {s \in DOMAIN ps.disc \cup DOMAIN ps.cont : v \in s}

SignatureCode(ps, order, rest, S, content) ==
  (Mask[Anchor(ps, order, S)] * (Bits + 1) + Cardinality(S \cap rest)) * (2 * Turn) + content
Signature(ps, order, v) ==
  LET rest == Rest(ps, order)
      terms == {t \in DOMAIN ps.disc : v \in t}
      parities == {p \in DOMAIN ps.cont : v \in p}
  IN  Sorted([x \in {<<t, "disc">> : t \in terms} \cup {<<p, "cont">> : p \in parities} |->
               SignatureCode(ps, order, rest, x[1],
                 IF x[2] = "disc" THEN ps.disc[x[1]] ELSE Turn + ps.cont[x[1]])])

\* Mutant: the order of the labels.
ByLabel(ps, order, V) == Ascending(V)

\* V in the order of the signatures, ties in the order of the labels.
BySignature(ps, order, V) ==
  LET sig == Strict([v \in V |-> Strict(Signature(ps, order, v))])
      before(u, v) == LexLess(sig[u], sig[v]) \/ (sig[u] = sig[v] /\ u < v)
  IN  Strict([i \in 1..Cardinality(V) |->
         CHOOSE v \in V : Cardinality({u \in V : before(u, v)}) = i - 1])

\* A variable alone in its component: smaller of c and F(c) at the first term
\* where they differ, with F(c) = 6P - c on the linear term and -c elsewhere.
SimpleWantsFlip(ps, v, P) ==
  LET linear == (6 * P) % 8
      c == ps.disc[{v}]
      others == {t \in DOMAIN ps.disc : v \in t /\ t # {v} /\ ps.disc[t] # 4}
      first == Smallest(others, [t \in others |-> Mask[t]])
  IN  IF {v} \in DOMAIN ps.disc /\ (linear + 8 - c) % 8 # c
      THEN (linear + 8 - c) % 8 < c
      ELSE linear = 0 /\ others # {} /\ 8 - ps.disc[first] < ps.disc[first]

\* constant_gauge_wants_flip, with the shift of the terms v shares a parity with.
WantsFlip(ps, v) ==
  LET shared(M) == ParityCount(ps, M \cup {v})
      items == {One} \cup {t \ {v} : t \in {t \in DOMAIN ps.disc : v \in t}}
                     \cup {{w} : w \in UNION {p \in DOMAIN ps.cont : v \in p} \ {v}}
      c(M) == IF M \cup {v} \in DOMAIN ps.disc THEN ps.disc[M \cup {v}] ELSE 0
      delta(M) == IF M = One THEN 6 * shared(M)
                  ELSE IF Cardinality(M) = 1 THEN 4 * shared(M) ELSE 0
      flipped(M) == (delta(M) + 8 - c(M)) % 8
      differ == {M \in items : flipped(M) # c(M)}
      first == Smallest(differ, [M \in differ |-> Mask[M]])
  IN  IF Bare(ps, v) /\ ps.cont[{v}] # Eighth THEN ps.cont[{v}] > Eighth
      ELSE differ # {} /\ flipped(first) < c(first)

\* component_key: what touches the component, its variables by signature rank.
ComponentKey(ps, order, comp) ==
  LET ranked == BySignature(ps, order, comp)
      view(S) == Mask[Anchor(ps, order, S) \cup
                      {ps.n + k - 1 : k \in {k \in DOMAIN ranked : ranked[k] \in S}}]
      others(S) == Cardinality((S \cap Rest(ps, order)) \ comp)
      touching(f) == {s \in DOMAIN f : s \cap comp # {}}
      key(f) == Sorted([s \in touching(f) |-> (view(s) * Turn + f[s]) * Bits + others(s)])
  IN  <<key(ps.disc), key(ps.cont)>>

KeyLess(a, b) == LexLess(a[1], b[1]) \/ (a[1] = b[1] /\ LexLess(a[2], b[2]))

\* A small component: the flip pattern of the smallest key, along a Gray code.
\* walk holds the last path sum and pattern, and the best key and pattern.
Visit(walk, now, pattern, key) ==
  IF KeyLess(key, walk.key) THEN [ps |-> now, pattern |-> pattern, key |-> key, best |-> pattern]
  ELSE [walk EXCEPT !.ps = now, !.pattern = pattern]

GrayStep(walk, now, v, order, comp) ==
  Visit(walk, now, SymDiff(walk.pattern, {v}), ComponentKey(now, order, comp))

GrayBit(step) == CHOOSE b \in 0..step : (step \div 2 ^ b) % 2 = 1 /\ step % 2 ^ b = 0

MoveToBest(walk) == FlipAll(walk.ps, SymDiff(walk.pattern, walk.best))

BestPattern(ps, order, comp) ==
  LET var(k) == Ascending(comp)[GrayBit(k) + 1]
      step(walk, k) == GrayStep(walk, Flip(walk.ps, var(k)), var(k), order, comp)
  IN  MoveToBest(FoldLeft(step,
        [ps |-> ps, pattern |-> {}, best |-> {}, key |-> ComponentKey(ps, order, comp)],
        [k \in 1 .. 2 ^ Cardinality(comp) - 1 |-> k]))

\* A variable of a larger component, or one that only shares parities.
Greedy(ps, order, comp) ==
  LET decide(s, v) == IF WantsFlip(s, v) THEN Flip(s, v) ELSE s
  IN  FoldLeft(decide, ps, BySignature(ps, order, comp))

Component(adj, V, v) ==
  LET grow(c, i) == c \cup UNION {adj[u] \cap V : u \in c}
  IN  FoldLeft(grow, {v}, [i \in 1..Cardinality(V) |-> i])

Decide(ps, order, comp) ==
  IF Cardinality(comp) \in 2..JointCap
  THEN BestPattern(ps, order, comp) ELSE Greedy(ps, order, comp)

\* (c) connected components of `left`, from the lowest variable of each
GaugeComponents(ps, order, left, adj) ==
  LET lowest == {v \in left : \A u \in Component(adj, left, v) : v <= u}
      step(s, v) == Decide(s, order, Component(adj, left, v))
  IN  FoldLeft(step, ps, Ascending(lowest))

\* (b) of the tied variables, those that nothing ties to another
FlipSimple(ps, simple) ==
  FlipAll(ps, {v \in simple : SimpleWantsFlip(ps, v, ParityCount(ps, {v}))})
Simple(ps, rest, adj) ==
  {v \in DOMAIN adj : /\ adj[v] \subseteq {v}
                     /\ \A p \in DOMAIN ps.cont : v \in p => Cardinality(p \cap rest) = 1}
GaugeTied(ps, order, adj) ==
  LET simple == Simple(ps, Rest(ps, order), adj)
  IN  GaugeComponents(FlipSimple(ps, simple), order, DOMAIN adj \ simple, adj)

\* (a) a remainder other than pi/4: keep the smaller of r and pi/2 - r.  No flip
\* changes the variables of a parity.
Decided(ps, rest) == {v \in rest : Bare(ps, v) /\ ps.cont[{v}] # Eighth}
FlipLarge(ps, rest) == FlipAll(ps, {v \in Decided(ps, rest) : ps.cont[{v}] > Eighth})
Adjacency(ps, V) == Strict([v \in V |-> Neighbours(ps, v, V)])
GaugeRest(ps, order, rest) ==
  GaugeTied(ps, order, Adjacency(ps, rest \ Decided(ps, rest)))

ConstantGauge(ps, order) ==
  GaugeRest(FlipLarge(ps, Rest(ps, order)), order, Rest(ps, order))

-----------------------------------------------------------------------------
(* 4. Relabel, and the whole pass.                                          *)

Relabel(ps, order) ==
  LET full == order \o BySignature(ps, order, Rest(ps, order))
      place(v) == ps.n + (CHOOSE k \in DOMAIN full : full[k] = v) - 1
      new == Rename(ps, Strict([v \in Var |-> IF v \in PathVars(ps) THEN place(v) ELSE v]))
  IN  [new EXCEPT !.cont = Compact(@)]

GaugeAfterRows(rows) ==
  Relabel(ConstantGauge(ParityPivots(rows.ps, rows.order), rows.order), rows.order)

CanonicalizeGauge(ps) == IF ps.m = 0 THEN ps ELSE GaugeAfterRows(RowEchelon(ps))

\* canonicalize_gauge_after_row_op: a row that introduces a path variable
\* holds it alone, and it is the next label.
RowsCanonical(ps) ==
  \A q \in Qubits(ps) :
    LET seen == UNION {VarsOf(ps.rows[r]) \cap PathVars(ps) : r \in 0..q-1}
        fresh == FreshIn(ps, VarsOf(ps.rows[q]), seen)
    IN  fresh # {} => ps.rows[q] = {{ps.n + Cardinality(seen)}}
=============================================================================
