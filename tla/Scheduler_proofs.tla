--------------------------- MODULE Scheduler_proofs --------------------------
(***************************************************************************)
(* Every match of a scheduled rule is held back once or was chosen, and    *)
(* can_stop is reported only when no rule has a match left: for any rules, *)
(* any choices of the scheduler that make progress and any orders in which *)
(* queries return their matches, while callers push before schedulers run. *)
(***************************************************************************)
EXTENDS Scheduler, FiniteSetTheorems, FunctionTheorems, SequenceTheorems,
        WellFoundedInduction, TLAPS

(* The vectors of the rules that the scheduler knows.                       *)
Distinct == \A r, s \in Built : eg.info[r].vec = eg.info[s].vec => r = s
Wired == \A r \in Built : eg.info[r].vec <= used /\ eg.sink[r] = eg.info[r].vec
FreeAreEmpty == \A c \in 1 .. Cells : c > used => cell[c] = <<>>

(* What a pop brings back has not met a scheduler.                          *)
SavedUnbuilt == \A i \in DOMAIN saved : \A r \in Rule : saved[i].info[r].vec = 0

Holding == Distinct /\ Wired /\ FreeAreEmpty /\ SavedUnbuilt /\ Conserved

(* How a step comes to know that nothing is left.                           *)
Sought == pc = "filter" => \A r \in Seekers : eg.facts \cap Body[r] \subseteq eg.seen[r]
AllChosen == pc = "act" /\ done => \A r \in eg.rules : eg.facts \cap Body[r] \subseteq eg.fired[r]
Settled == canStop => pc = "idle"

-----------------------------------------------------------------------------
(* Data: sets of naturals, sequences without repetition, choices of cells.  *)

LEMMA LeastOf ==
    ASSUME NEW T \in SUBSET Nat, T # {}
    PROVE  \E m \in T : \A n \in T : m <= n
  <1> DEFINE R == OpToRel(<, Nat)
  <1>1. IsWellFoundedOn(R, Nat)
    BY NatLessThanWellFounded, Zenon
  <1>2. \A m, n \in Nat : m < n => <<m, n>> \in R
    BY DEF OpToRel
  <1> HIDE DEF R
  <1>3. PICK m \in T : \A n \in T : <<n, m>> \notin R
    BY <1>1, WFMin
  <1>4. ASSUME NEW n \in T PROVE m <= n
    <2>1. ~(n < m)
      BY <1>2, <1>3
    <2> QED
      BY <2>1
  <1> QED
    BY <1>4

(* Taking a match out of a list leaves the others, once each.               *)
LEMMA SwapRemoved ==
    ASSUME NEW S, NEW q \in Seq(S), NEW c \in 1 .. Len(q)
    PROVE  /\ SwapRemove(q, c) \in Seq(S)
           /\ Len(SwapRemove(q, c)) = Len(q) - 1
           /\ \A j \in 1 .. Len(q) - 1 : SwapRemove(q, c)[j] = IF j = c THEN q[Len(q)] ELSE q[j]
           /\ IsInjective(q) =>
                 /\ IsInjective(SwapRemove(q, c))
                 /\ ToSet(SwapRemove(q, c)) = ToSet(q) \ {q[c]}
  <1> DEFINE n == Len(q)
             p == SwapRemove(q, c)
  <1>1. /\ n \in Nat /\ n > 0 /\ c \in 1 .. n /\ DOMAIN q = 1 .. n
        /\ \A j \in 1 .. n : q[j] \in S
    OBVIOUS
  <1>2. p = [j \in 1 .. n - 1 |-> IF j = c THEN q[n] ELSE q[j]]
    BY DEF SwapRemove
  <1> HIDE DEF n, p
  <1>3. p \in Seq(S) /\ Len(p) = n - 1 /\ DOMAIN p = 1 .. n - 1
    BY <1>1, <1>2
  <1>4. \A j \in 1 .. n - 1 : p[j] = IF j = c THEN q[n] ELSE q[j]
    BY <1>2
  <1>5. ASSUME IsInjective(q) PROVE IsInjective(p) /\ ToSet(p) = ToSet(q) \ {q[c]}
    <2>1. \A i, j \in 1 .. n : q[i] = q[j] => i = j
      BY <1>1, <1>5 DEF IsInjective
    <2>2. IsInjective(p)
      BY <1>1, <1>3, <1>4, <2>1 DEF IsInjective
    <2>3. ASSUME NEW x \in ToSet(p) PROVE x \in ToSet(q) \ {q[c]}
      <3>1. PICK j \in 1 .. n - 1 : x = p[j]
        BY <1>3, <2>3 DEF ToSet
      <3>2. \E i \in 1 .. n : x = q[i] /\ i # c
        BY <1>1, <1>4, <3>1
      <3> QED
        BY <1>1, <2>1, <3>2 DEF ToSet
    <2>4. ASSUME NEW x \in ToSet(q) \ {q[c]} PROVE x \in ToSet(p)
      <3>1. PICK i \in 1 .. n : x = q[i]
        BY <1>1, <2>4 DEF ToSet
      <3>2. i # c
        BY <2>4, <3>1
      <3>3. \E j \in 1 .. n - 1 : x = p[j]
        <4>1. CASE i = n
          BY <1>1, <1>4, <3>1, <3>2, <4>1
        <4>2. CASE i < n
          BY <1>1, <1>4, <3>1, <3>2, <4>2
        <4> QED
          BY <1>1, <4>1, <4>2
      <3> QED
        BY <1>3, <3>3 DEF ToSet
    <2> QED
      BY <2>2, <2>3, <2>4
  <1> QED
    BY <1>3, <1>4, <1>5 DEF n, p

(* Taking out all the chosen ones, from the last place to the first: the    *)
(* function that Residual defines exists.                                   *)
TakesOut(after, q, chosen) ==
    after = [i \in 0 .. Len(q) |->
               IF i = 0 THEN q
               ELSE IF Len(q) + 1 - i \in chosen THEN SwapRemove(after[i - 1], Len(q) + 1 - i)
               ELSE after[i - 1]]
TakesOutUpTo(k, f, q, chosen) ==
    f = [i \in 0 .. k |->
           IF i = 0 THEN q
           ELSE IF Len(q) + 1 - i \in chosen THEN SwapRemove(f[i - 1], Len(q) + 1 - i)
           ELSE f[i - 1]]

LEMMA TakesOutExists ==
    ASSUME NEW q, NEW chosen, Len(q) \in Nat
    PROVE  \E after : TakesOut(after, q, chosen)
  <1> DEFINE T == {k \in Nat : ~\E f : TakesOutUpTo(k, f, q, chosen)}
  <1>1. T = {}
    <2> SUFFICES ASSUME T # {} PROVE FALSE
      OBVIOUS
    <2>1. PICK k \in T : \A m \in T : k <= m
      BY LeastOf
    <2>2. k # 0
      <3> DEFINE f == [i \in 0 .. 0 |-> q]
      <3>1. TakesOutUpTo(0, f, q, chosen)
        BY DEF TakesOutUpTo
      <3> QED
        BY <3>1
    <2>3. k \in Nat /\ k - 1 \in Nat /\ k - 1 \notin T
      BY <2>1, <2>2
    <2>4. PICK f : TakesOutUpTo(k - 1, f, q, chosen)
      BY <2>3
    <2> DEFINE Taken(g, i) == IF i = 0 THEN q
                             ELSE IF Len(q) + 1 - i \in chosen THEN SwapRemove(g[i - 1], Len(q) + 1 - i)
                             ELSE g[i - 1]
               g == [i \in 0 .. k |-> IF i = k THEN Taken(f, k) ELSE f[i]]
    <2>5. \A i \in 0 .. k - 1 : f[i] = Taken(f, i)
      BY <2>4, Zenon DEF TakesOutUpTo
    <2>6. \A i \in 0 .. k : g[i] = IF i = k THEN Taken(f, k) ELSE f[i]
      BY Zenon
    <2>7. \A i \in 0 .. k : i # 0 => g[i - 1] = f[i - 1]
      <3> HIDE DEF g, Taken
      <3> QED
        BY <2>3, <2>6
    <2>8. \A i \in 0 .. k : Taken(g, i) = Taken(f, i)
      <3> HIDE DEF g
      <3> QED
        BY <2>7
    <2>9. \A i \in 0 .. k : g[i] = Taken(g, i)
      <3> HIDE DEF g, Taken
      <3> QED
        BY <2>3, <2>5, <2>6, <2>8
    <2>10. g = [i \in 0 .. k |-> g[i]]
      BY Zenon
    <2>11. g = [i \in 0 .. k |-> Taken(g, i)]
      <3> HIDE DEF g, Taken
      <3> QED
        BY <2>9, <2>10
    <2>12. TakesOutUpTo(k, g, q, chosen)
      BY <2>11, Zenon DEF TakesOutUpTo
    <2> QED
      BY <2>12, Zenon
  <1>2. PICK f : TakesOutUpTo(Len(q), f, q, chosen)
    BY <1>1
  <1> QED
    BY <1>2 DEF TakesOut, TakesOutUpTo

LEMMA ResidualTakesOut ==
    ASSUME NEW q, NEW chosen, Len(q) \in Nat
    PROVE  \E after : TakesOut(after, q, chosen) /\ Residual(q, chosen) = after[Len(q)]
  <1> DEFINE after == CHOOSE a : TakesOut(a, q, chosen)
  <1>1. TakesOut(after, q, chosen)
    BY TakesOutExists, Zenon
  <1>2. Residual(q, chosen) = after[Len(q)]
    BY DEF Residual, TakesOut
  <1> QED
    BY <1>1, <1>2

(* What stays in the vector are the matches that were not chosen.           *)
LEMMA ResidualIs ==
    ASSUME NEW S, NEW q \in Seq(S), NEW chosen, chosen \subseteq 1 .. Len(q)
    PROVE  /\ Residual(q, chosen) \in Seq(S)
           /\ IsInjective(q) =>
                 /\ IsInjective(Residual(q, chosen))
                 /\ ToSet(Residual(q, chosen)) = ToSet(q) \ {q[j] : j \in chosen}
  <1> DEFINE n == Len(q)
             Out(i) == {q[j] : j \in {j \in chosen : j > n - i}}
  <1>1. n \in Nat /\ DOMAIN q = 1 .. n /\ chosen \subseteq 1 .. n
    OBVIOUS
  <1>2. PICK after : TakesOut(after, q, chosen) /\ Residual(q, chosen) = after[n]
    BY <1>1, ResidualTakesOut
  <1> DEFINE Whole(i) ==
                /\ after[i] \in Seq(S) /\ Len(after[i]) >= n - i
                /\ \A j \in 1 .. n - i : after[i][j] = q[j]
                /\ IsInjective(q) => IsInjective(after[i]) /\ ToSet(after[i]) = ToSet(q) \ Out(i)
             T == {i \in 0 .. n : ~Whole(i)}
  <1>3. after[0] = q
    BY <1>1, <1>2 DEF TakesOut
  <1>4. \A i \in 1 .. n : after[i] = IF n + 1 - i \in chosen THEN SwapRemove(after[i - 1], n + 1 - i)
                                     ELSE after[i - 1]
    <2>1. \A i \in 0 .. n : after[i] = IF i = 0 THEN q
                                       ELSE IF n + 1 - i \in chosen
                                       THEN SwapRemove(after[i - 1], n + 1 - i) ELSE after[i - 1]
      BY <1>2, Zenon DEF TakesOut
    <2> HIDE DEF n
    <2> QED
      BY <1>1, <2>1
  <1>5. Whole(0)
    <2>1. \A j \in chosen : ~(j > n - 0)
      <3> HIDE DEF n
      <3> QED
        BY <1>1
    <2>2. Out(0) = {}
      BY <2>1
    <2> HIDE DEF Out, n
    <2> QED
      BY <1>1, <1>3, <2>2 DEF n
  <1>6. ASSUME NEW i \in 1 .. n, Whole(i - 1) PROVE Whole(i)
    <2> DEFINE c == n + 1 - i
               p == after[i - 1]
    <2>1. c \in 1 .. n /\ i \in Nat /\ n - (i - 1) = c /\ n - i = c - 1
      BY <1>1
    <2>2. /\ p \in Seq(S) /\ Len(p) >= c /\ Len(p) \in Nat
          /\ \A j \in 1 .. c : p[j] = q[j]
          /\ IsInjective(q) => IsInjective(p) /\ ToSet(p) = ToSet(q) \ Out(i - 1)
      <3>1. p \in Seq(S) /\ Len(p) >= n - (i - 1) /\ \A j \in 1 .. n - (i - 1) : p[j] = q[j]
        BY <1>6
      <3>2. IsInjective(q) => IsInjective(p) /\ ToSet(p) = ToSet(q) \ Out(i - 1)
        BY <1>6
      <3> HIDE DEF p, c, n, Out
      <3> QED
        BY <2>1, <3>1, <3>2
    <2>3. after[i] = IF c \in chosen THEN SwapRemove(p, c) ELSE p
      BY <1>4
    <2>4. CASE c \in chosen
      <3>1. Out(i) = Out(i - 1) \cup {q[c]}
        <4>1. \A j \in chosen : j > n - i <=> j > n - (i - 1) \/ j = c
          <5> HIDE DEF c, n
          <5> QED
            BY <1>1, <2>1, <2>4
        <4> HIDE DEF c
        <4> QED
          BY <2>4, <4>1
      <3> HIDE DEF Out
      <3>2. c \in 1 .. Len(p)
        BY <2>1, <2>2
      <3>3. /\ after[i] \in Seq(S) /\ Len(after[i]) = Len(p) - 1
            /\ \A j \in 1 .. Len(p) - 1 : after[i][j] = IF j = c THEN p[Len(p)] ELSE p[j]
            /\ IsInjective(p) => IsInjective(after[i]) /\ ToSet(after[i]) = ToSet(p) \ {p[c]}
        <4> HIDE DEF p, c, n
        <4> QED
          BY <2>2, <2>3, <2>4, <3>2, SwapRemoved
      <3> HIDE DEF p, c, n
      <3>4. /\ Len(after[i]) >= c - 1
            /\ \A j \in 1 .. c - 1 : after[i][j] = q[j]
        BY <1>1, <2>1, <2>2, <3>3
      <3>5. IsInjective(q) => IsInjective(after[i]) /\ ToSet(after[i]) = ToSet(q) \ Out(i)
        BY <2>1, <2>2, <3>1, <3>3
      <3> QED
        BY <2>1, <3>3, <3>4, <3>5
    <2>5. CASE c \notin chosen
      <3>1. Out(i) = Out(i - 1)
        <4>1. \A j \in chosen : j > n - i <=> j > n - (i - 1)
          <5> HIDE DEF c, n
          <5> QED
            BY <1>1, <2>1, <2>5
        <4> QED
          BY <4>1
      <3> HIDE DEF Out, p, c, n
      <3> QED
        BY <2>1, <2>2, <2>3, <2>5, <3>1
    <2> QED
      BY <2>4, <2>5
  <1>7. \A i \in 0 .. n : Whole(i)
    <2> SUFFICES ASSUME T # {} PROVE FALSE
      OBVIOUS
    <2> HIDE DEF Whole
    <2>1. T \in SUBSET Nat
      BY <1>1
    <2>2. PICK i \in T : \A m \in T : i <= m
      BY <2>1, LeastOf
    <2>3. i \in 1 .. n /\ i - 1 \in 0 .. n /\ i - 1 \notin T
      BY <1>1, <1>5, <2>1, <2>2
    <2> QED
      BY <1>6, <2>2, <2>3
  <1>8. Whole(n)
    <2> HIDE DEF Whole, n
    <2> QED
      BY <1>1, <1>7
  <1>9. Out(n) = {q[j] : j \in chosen}
    <2>1. \A j \in chosen : j > n - n
      <3> HIDE DEF n
      <3> QED
        BY <1>1
    <2> QED
      BY <2>1
  <1> HIDE DEF Out, n
  <1> QED
    BY <1>2, <1>8, <1>9

(* A query's matches in any order are a list of them, each once.            *)
LEMMA OrdersList ==
    ASSUME NEW S, IsFiniteSet(S), NEW o \in SetToSeqs(S)
    PROVE  o \in Seq(S) /\ IsInjective(o) /\ ToSet(o) = S
  <1> DEFINE n == Cardinality(S)
  <1>1. n \in Nat
    BY FS_CardinalityType
  <1>2. o \in [1 .. n -> S] /\ \A i, j \in 1 .. n : i # j => o[i] # o[j]
    BY DEF SetToSeqs
  <1>3. o \in Injection(1 .. n, S) /\ IsInjective(o)
    BY <1>2 DEF Injection, IsInjective
  <1>4. IsFiniteSet(1 .. n) /\ Cardinality(1 .. n) = n
    BY <1>1, FS_Interval
  <1>5. o \in Surjection(1 .. n, S)
    BY <1>3, <1>4, FS_Injection
  <1>6. \A x \in S : \E i \in 1 .. n : o[i] = x
    BY <1>5 DEF Surjection
  <1>7. DOMAIN o = 1 .. n /\ o \in Seq(S)
    BY <1>1, <1>2
  <1>8. ToSet(o) = S
    BY <1>2, <1>6, <1>7 DEF ToSet
  <1> QED
    BY <1>3, <1>7, <1>8

LEMMA ConcatLists ==
    ASSUME NEW S, NEW p \in Seq(S), NEW q \in Seq(S)
    PROVE  /\ p \o q \in Seq(S) /\ ToSet(p \o q) = ToSet(p) \cup ToSet(q)
           /\ IsInjective(p) /\ IsInjective(q) /\ ToSet(p) \cap ToSet(q) = {} => IsInjective(p \o q)
  <1> DEFINE m == Len(p)
             n == Len(q)
             s == p \o q
  <1>1. /\ m \in Nat /\ n \in Nat /\ DOMAIN p = 1 .. m /\ DOMAIN q = 1 .. n /\ DOMAIN s = 1 .. m + n
        /\ s \in Seq(S)
        /\ \A i \in 1 .. m : s[i] = p[i]
        /\ \A i \in m + 1 .. m + n : s[i] = q[i - m]
    OBVIOUS
  <1> HIDE DEF m, n, s
  <1>2. \A i \in 1 .. m + n : \/ i \in 1 .. m /\ s[i] = p[i]
                              \/ i - m \in 1 .. n /\ s[i] = q[i - m]
    BY <1>1
  <1>3. \A j \in 1 .. n : j + m \in m + 1 .. m + n /\ s[j + m] = q[j]
    BY <1>1
  <1>4. ToSet(s) = ToSet(p) \cup ToSet(q)
    <2>1. ToSet(s) \subseteq ToSet(p) \cup ToSet(q)
      BY <1>1, <1>2 DEF ToSet
    <2>2. ToSet(p) \subseteq ToSet(s)
      BY <1>1 DEF ToSet
    <2>3. ToSet(q) \subseteq ToSet(s)
      BY <1>1, <1>3 DEF ToSet
    <2> QED
      BY <2>1, <2>2, <2>3
  <1>5. ASSUME IsInjective(p), IsInjective(q), ToSet(p) \cap ToSet(q) = {}
        PROVE  IsInjective(s)
    <2>1. \A i \in 1 .. m, j \in 1 .. n : p[i] # q[j]
      BY <1>1, <1>5 DEF ToSet
    <2>2. \A i, j \in 1 .. m : p[i] = p[j] => i = j
      BY <1>1, <1>5 DEF IsInjective
    <2>3. \A i, j \in 1 .. n : q[i] = q[j] => i = j
      BY <1>1, <1>5 DEF IsInjective
    <2> SUFFICES ASSUME NEW i \in 1 .. m + n, NEW j \in 1 .. m + n, s[i] = s[j] PROVE i = j
      BY <1>1 DEF IsInjective
    <2> QED
      BY <1>1, <1>2, <2>1, <2>2, <2>3
  <1> QED
    BY <1>1, <1>4, <1>5 DEF s

(* New vectors are there for any rules, one each.                           *)
LEMMA FreshCellsDiffer ==
    ASSUME used \in Nat, NEW S \in SUBSET Rule
    PROVE  /\ Cardinality(S) \in Nat
           /\ FreshCells(S) \in [S -> used + 1 .. used + Cardinality(S)]
           /\ \A a, b \in S : FreshCells(S)[a] = FreshCells(S)[b] => a = b
  <1> DEFINE n == Cardinality(S)
             Differ(c) == \A a, b \in S : c[a] = c[b] => a = b
  <1>1. IsFiniteSet(S)
    BY RulesAssumption, FS_Subset
  <1>2. n \in Nat /\ ExistsBijection(1 .. n, S)
    BY <1>1, FS_CardinalityType
  <1>3. PICK f : f \in Bijection(1 .. n, S)
    BY <1>2 DEF ExistsBijection
  <1>4. f \in [1 .. n -> S] /\ \A a \in S : \E i \in 1 .. n : f[i] = a
    BY <1>3, Fun_IsBij DEF Bijection, Surjection, Injection
  <1> DEFINE at == [a \in S |-> CHOOSE i \in 1 .. n : f[i] = a]
             c == [a \in S |-> used + at[a]]
  <1>5. \A a \in S : at[a] \in 1 .. n /\ f[at[a]] = a
    BY <1>4
  <1> HIDE DEF at
  <1>6. c \in [S -> used + 1 .. used + n]
    BY <1>2, <1>5
  <1>7. \A a \in S : c[a] = used + at[a]
    OBVIOUS
  <1> HIDE DEF c, n
  <1>8. Differ(c)
    BY <1>2, <1>5, <1>7
  <1>9. \E d \in [S -> used + 1 .. used + n] : Differ(d)
    BY <1>6, <1>8
  <1>10. FreshCells(S) = CHOOSE d \in [S -> used + 1 .. used + n] : Differ(d)
    BY DEF FreshCells, n
  <1> HIDE DEF Differ
  <1>11. FreshCells(S) \in [S -> used + 1 .. used + n] /\ Differ(FreshCells(S))
    BY <1>9, <1>10, Zenon
  <1> QED
    BY <1>2, <1>11 DEF n, Differ

-----------------------------------------------------------------------------
(* Types.                                                                   *)

LEMMA InitTypes == Init => TypeOK
  <1> SUFFICES ASSUME Init PROVE TypeOK
    OBVIOUS
  <1>1. New \in Graph
    BY RulesAssumption DEF New, Unbuilt, Graph
  <1>2. cell \in [1 .. Cells -> Seq(Fact)]
    BY DEF Init
  <1>3. used \in 0 .. Cells /\ left \in 0 .. Budget
    BY RulesAssumption DEF Init
  <1>4. eg = New /\ saved = <<>> /\ pc = "idle" /\ done = FALSE /\ canStop = FALSE
    BY DEF Init
  <1>5. saved \in Seq(Graph)
    BY <1>4
  <1> QED
    BY <1>1, <1>2, <1>3, <1>4, <1>5 DEF TypeOK

LEMMA CallTypes ==
    ASSUME TypeOK, Call PROVE pc' = "idle" /\ done' \in BOOLEAN /\ canStop' \in BOOLEAN /\ left' \in 0 .. Budget
  <1>1. left \in 0 .. Budget /\ Budget \in Nat /\ left > 0 /\ left' = left - 1
    BY RulesAssumption DEF TypeOK, Call
  <1>2. left' \in 0 .. Budget
    BY <1>1
  <1> QED
    BY <1>2 DEF TypeOK, Call

LEMMA AddFactTypes == ASSUME TypeOK, NEW f \in Fact, AddFact(f) PROVE TypeOK'
  <1>1. eg' \in Graph
    BY DEF TypeOK, AddFact, Graph
  <1> QED
    BY <1>1, CallTypes DEF TypeOK, AddFact

LEMMA AddRuleTypes == ASSUME TypeOK, NEW r \in Rule, AddRule(r) PROVE TypeOK'
  <1>1. eg' \in Graph
    BY DEF TypeOK, AddRule, Graph
  <1> QED
    BY <1>1, CallTypes DEF TypeOK, AddRule

LEMMA AddSchedulerTypes == ASSUME TypeOK, AddScheduler PROVE TypeOK'
  <1>1. eg' \in Graph
    BY DEF TypeOK, AddScheduler, Graph
  <1> QED
    BY <1>1, CallTypes DEF TypeOK, AddScheduler

LEMMA NothingBuilt ==
    /\ New.info = [r \in Rule |-> Unbuilt]
    /\ Unbuilt.vec = 0 /\ Unbuilt \in [vec : 0 .. Cells, seek : BOOLEAN]
  BY RulesAssumption DEF New, Unbuilt

LEMMA RemoveSchedulerTypes == ASSUME TypeOK, RemoveScheduler PROVE TypeOK'
  <1>1. eg' \in Graph
    <2>1. eg' = [eg EXCEPT !.sched = FALSE, !.info = [r \in Rule |-> Unbuilt]]
      BY NothingBuilt DEF RemoveScheduler
    <2> QED
      BY <2>1, NothingBuilt DEF TypeOK, Graph
  <1> QED
    BY <1>1, CallTypes DEF TypeOK, RemoveScheduler

LEMMA PushTypes == ASSUME TypeOK, Push PROVE TypeOK'
  <1> DEFINE fresh == FreshCells(Built)
             n == Cardinality(Built)
             clone == [eg EXCEPT !.sink = [r \in Rule |-> IF r \in Built THEN fresh[r] ELSE @[r]]]
             Old(c) == CHOOSE r \in Built : fresh[r] = c
  <1>1. used \in Nat /\ used \in 0 .. Cells /\ Cells \in Nat /\ used + n <= Cells
    BY RulesAssumption DEF TypeOK, Push
  <1>2. n \in Nat /\ fresh \in [Built -> used + 1 .. used + n]
    <2>1. Built \in SUBSET Rule
      BY DEF Built
    <2> QED
      BY <1>1, <2>1, FreshCellsDiffer
  <1> HIDE DEF fresh, n
  <1>3. \A r \in Built : fresh[r] \in 1 .. Cells
    BY <1>1, <1>2
  <1>4. clone \in Graph
    <2> DEFINE sink == [r \in Rule |-> IF r \in Built THEN fresh[r] ELSE eg.sink[r]]
    <2>1. eg \in Graph /\ 0 \notin 1 .. Cells /\ 1 .. Cells \subseteq 0 .. Cells
      BY RulesAssumption DEF TypeOK
    <2>2. clone = [eg EXCEPT !.sink = sink]
      OBVIOUS
    <2>3. sink \in [Rule -> 0 .. Cells]
      BY <1>3, <2>1 DEF Graph
    <2>4. \A r \in Rule : eg.info[r].vec # 0 => sink[r] # 0
      BY <1>3, <2>1 DEF Built
    <2> HIDE DEF sink, clone
    <2> QED
      BY <2>1, <2>2, <2>3, <2>4 DEF Graph
  <1>5. saved' \in Seq(Graph)
    <2>1. saved' = Append(saved, clone)
      BY DEF Push, fresh
    <2> HIDE DEF clone
    <2> QED
      BY <1>4, <2>1 DEF TypeOK
  <1>6. cell' \in [1 .. Cells -> Seq(Fact)]
    <2>1. cell' = [c \in 1 .. Cells |-> IF \E r \in Built : fresh[r] = c THEN cell[eg.sink[Old(c)]] ELSE cell[c]]
      BY DEF Push, fresh
    <2>2. ASSUME NEW c \in 1 .. Cells, \E r \in Built : fresh[r] = c PROVE cell[eg.sink[Old(c)]] \in Seq(Fact)
      <3>1. Old(c) \in Built
        BY <2>2
      <3> HIDE DEF Old
      <3>2. eg.sink[Old(c)] \in 1 .. Cells
        BY <3>1, RulesAssumption DEF TypeOK, Graph, Built
      <3> QED
        BY <3>2 DEF TypeOK
    <2> HIDE DEF Old
    <2> QED
      BY <2>1, <2>2 DEF TypeOK
  <1>7. used' \in 0 .. Cells
    BY <1>1, <1>2 DEF Push, n
  <1> QED
    BY <1>5, <1>6, <1>7, CallTypes DEF TypeOK, Push

LEMMA PopTypes == ASSUME TypeOK, Pop PROVE TypeOK'
  <1>1. saved \in Seq(Graph) /\ saved # <<>>
    BY DEF TypeOK, Pop
  <1>2. Last(saved) \in Graph /\ Front(saved) \in Seq(Graph)
    BY <1>1 DEF Last, Front
  <1> QED
    BY <1>2, CallTypes DEF TypeOK, Pop

LEMMA BeginStepTypes == ASSUME TypeOK, BeginStep PROVE TypeOK'
  <1> DEFINE fresh == eg.rules \ Built
             c == FreshCells(fresh)
             n == Cardinality(fresh)
  <1>1. used \in Nat /\ used \in 0 .. Cells /\ Cells \in Nat /\ used + n <= Cells /\ used' = used + n
    BY RulesAssumption DEF TypeOK, BeginStep
  <1>2. fresh \in SUBSET Rule /\ n \in Nat /\ c \in [fresh -> used + 1 .. used + n]
    <2>1. fresh \in SUBSET Rule
      BY DEF TypeOK, Graph
    <2> QED
      BY <1>1, <2>1, FreshCellsDiffer
  <1>3. eg' = [eg EXCEPT
                !.info = [r \in Rule |-> IF r \in fresh THEN [vec |-> c[r], seek |-> TRUE] ELSE @[r]],
                !.sink = [r \in Rule |-> IF r \in fresh THEN c[r] ELSE @[r]],
                !.seen = [r \in Rule |-> IF r \in fresh THEN {} ELSE @[r]],
                !.decided = [r \in Rule |-> IF r \in fresh THEN {} ELSE @[r]],
                !.fired = [r \in Rule |-> IF r \in fresh THEN {} ELSE @[r]],
                !.applied = [r \in Rule |-> IF r \in fresh THEN {} ELSE @[r]]]
    BY DEF BeginStep
  <1> HIDE DEF c, n
  <1>4. \A r \in fresh : c[r] \in 1 .. Cells
    BY <1>1, <1>2
  <1>5. eg \in Graph
    BY DEF TypeOK
  <1>6. eg' \in Graph /\ eg'.rules \subseteq Built'
    <2> DEFINE I == [r \in Rule |-> IF r \in fresh THEN [vec |-> c[r], seek |-> TRUE] ELSE eg.info[r]]
               S == [r \in Rule |-> IF r \in fresh THEN c[r] ELSE eg.sink[r]]
               Clear(m) == [r \in Rule |-> IF r \in fresh THEN {} ELSE m[r]]
    <2>1. eg' = [eg EXCEPT !.info = I, !.sink = S, !.seen = Clear(@), !.decided = Clear(@),
                           !.fired = Clear(@), !.applied = Clear(@)]
      BY <1>3
    <2>2. 0 \notin 1 .. Cells /\ 1 .. Cells \subseteq 0 .. Cells
      BY <1>1
    <2>3. I \in [Rule -> [vec : 0 .. Cells, seek : BOOLEAN]] /\ \A r \in fresh : I[r].vec \in 1 .. Cells
      <3>1. eg.info \in [Rule -> [vec : 0 .. Cells, seek : BOOLEAN]]
        BY <1>5 DEF Graph
      <3>2. \A r \in fresh : [vec |-> c[r], seek |-> TRUE] \in [vec : 0 .. Cells, seek : BOOLEAN]
        BY <1>4, <2>2
      <3>3. \A r \in fresh : I[r].vec = c[r]
        BY <1>2
      <3> QED
        BY <1>4, <3>1, <3>2, <3>3
    <2>4. S \in [Rule -> 0 .. Cells] /\ \A r \in Rule : I[r].vec # 0 => S[r] # 0
      BY <1>4, <1>5, <2>2 DEF Graph
    <2>5. /\ Clear(eg.seen) \in [Rule -> SUBSET Fact] /\ Clear(eg.fired) \in [Rule -> SUBSET Fact]
          /\ Clear(eg.decided) \in [Rule -> SUBSET HeadValues]
          /\ Clear(eg.applied) \in [Rule -> SUBSET HeadValues]
          /\ \A r \in Rule : Clear(eg.decided)[r] \subseteq {HeadOf[r][f] : f \in Fact}
      BY <1>5 DEF Graph
    <2>6. \A r \in eg.rules : I[r].vec # 0
      BY <1>2, <1>5, <2>2, <2>3 DEF Built, Graph
    <2> HIDE DEF I, S, Clear
    <2>7. eg' \in Graph /\ eg'.rules = eg.rules /\ eg'.info = I
      BY <1>5, <2>1, <2>3, <2>4, <2>5 DEF Graph
    <2> QED
      BY <1>5, <2>6, <2>7 DEF Built, Graph
  <1>7. used' \in 0 .. Cells
    BY <1>1, <1>2
  <1> QED
    BY <1>6, <1>7 DEF TypeOK, BeginStep

LEMMA FactsFinite == ASSUME TypeOK PROVE \A S : S \subseteq eg.facts => IsFiniteSet(S)
  <1>1. eg.facts \subseteq Fact
    BY DEF TypeOK, Graph
  <1> QED
    BY <1>1, RulesAssumption, FS_Subset

(* What a query adds to a vector.                                           *)
LEMMA QueryCells ==
    ASSUME TypeOK, Query
    PROVE  \A c \in 1 .. Cells :
              \/ (\A r \in Seekers : eg.sink[r] # c) /\ cell'[c] = cell[c]
              \/ \E r \in Seekers, o \in Seq(Fact) :
                    /\ eg.sink[r] = c /\ cell'[c] = cell[c] \o o
                    /\ IsInjective(o) /\ ToSet(o) = Unseen(r)
  <1>1. PICK order : /\ \A r \in Seekers : order[r] \in SetToSeqs(Unseen(r))
                     /\ cell' = [c \in 1 .. Cells |->
                           IF \E r \in Seekers : eg.sink[r] = c
                           THEN cell[c] \o order[CHOOSE r \in Seekers : eg.sink[r] = c]
                           ELSE cell[c]]
    BY DEF Query
  <1> SUFFICES ASSUME NEW c \in 1 .. Cells, NEW s \in Seekers, eg.sink[s] = c
               PROVE  \E r \in Seekers, o \in Seq(Fact) :
                         /\ eg.sink[r] = c /\ cell'[c] = cell[c] \o o
                         /\ IsInjective(o) /\ ToSet(o) = Unseen(r)
    BY <1>1
  <1>2. PICK r : r = CHOOSE t \in Seekers : eg.sink[t] = c
    OBVIOUS
  <1>3. r \in Seekers /\ eg.sink[r] = c
    BY <1>2
  <1>4. cell'[c] = cell[c] \o order[r]
    BY <1>1, <1>2
  <1>5. Unseen(r) \subseteq eg.facts /\ IsFiniteSet(Unseen(r))
    BY FactsFinite DEF Unseen
  <1>6. order[r] \in Seq(Unseen(r)) /\ IsInjective(order[r]) /\ ToSet(order[r]) = Unseen(r)
    BY <1>1, <1>3, <1>5, OrdersList
  <1>7. order[r] \in Seq(Fact)
    <2>1. Unseen(r) \subseteq Fact
      BY <1>5 DEF TypeOK, Graph
    <2> QED
      BY <1>6, <2>1
  <1> QED
    BY <1>3, <1>4, <1>6, <1>7

LEMMA QueryTypes == ASSUME TypeOK, Query PROVE TypeOK'
  <1>1. eg' = [eg EXCEPT !.seen = [r \in Rule |-> @[r] \cup (IF r \in Seekers THEN Unseen(r) ELSE {})]]
    BY DEF Query
  <1>2. \A r \in Rule : (IF r \in Seekers THEN Unseen(r) ELSE {}) \subseteq Fact
    BY DEF TypeOK, Graph, Unseen
  <1>3. eg' \in Graph /\ eg'.rules = eg.rules /\ eg'.info = eg.info
    BY <1>1, <1>2 DEF TypeOK, Graph
  <1>4. eg'.rules \subseteq Built'
    BY <1>3 DEF TypeOK, Query, Built
  <1>5. cell' \in [1 .. Cells -> Seq(Fact)]
    <2>1. \A c \in 1 .. Cells : cell'[c] \in Seq(Fact)
      <3> SUFFICES ASSUME NEW c \in 1 .. Cells PROVE cell'[c] \in Seq(Fact)
        OBVIOUS
      <3>1. cell[c] \in Seq(Fact)
        BY DEF TypeOK
      <3>2. \A o \in Seq(Fact) : cell[c] \o o \in Seq(Fact)
        BY <3>1
      <3> QED
        BY <3>1, <3>2, QueryCells
    <2>2. cell' = [c \in 1 .. Cells |-> cell'[c]]
      BY DEF Query
    <2> QED
      BY <2>1, <2>2
  <1> QED
    BY <1>3, <1>4, <1>5 DEF TypeOK, Query

LEMMA LoseTypes == ASSUME TypeOK, NEW more \in SUBSET Fact, Lose(more) PROVE TypeOK'
  <1>1. eg' \in Graph
    <2>1. eg' = [eg EXCEPT !.lost = TRUE, !.sched = FALSE, !.info = [r \in Rule |-> Unbuilt],
                           !.rules = {}, !.facts = @ \cup more]
      BY NothingBuilt DEF Lose
    <2> QED
      BY <2>1, NothingBuilt DEF TypeOK, Graph
  <1> QED
    BY <1>1 DEF TypeOK, Lose

(* The vector of a rule, and what is left of it by a choice.                *)
Vec(r) == cell[eg.info[r].vec]
ChosenBy(d, r) == IF r \in eg.rules THEN {Vec(r)[i] : i \in d[r].chosen} ELSE {}

(* What a Filter does for the choice d.                                     *)
FiltersBy(d) ==
    /\ \A r \in eg.rules : /\ d[r].chosen \subseteq 1 .. Len(Vec(r)) /\ d[r].seek \in BOOLEAN
                           /\ d[r].chosen = 1 .. Len(Vec(r)) => d[r].seek
    /\ eg' = [eg EXCEPT
          !.info = [r \in Rule |-> IF r \in eg.rules THEN Told(@[r], d[r]) ELSE @[r]],
          !.decided = [r \in Rule |-> @[r] \cup {HeadOf[r][f] : f \in ChosenBy(d, r)}],
          !.fired = [r \in Rule |-> @[r] \cup ChosenBy(d, r)]]
    /\ DOMAIN cell' = 1 .. Cells
    /\ \A c \in 1 .. Cells :
          \/ (\A r \in eg.rules : eg.info[r].vec # c) /\ cell'[c] = cell[c]
          \/ \E r \in eg.rules : eg.info[r].vec = c /\ cell'[c] = Residual(cell[c], d[r].chosen)
    /\ done' = \A r \in eg.rules : eg.info[r].seek /\ d[r].chosen = 1 .. Len(Vec(r))

LEMMA FilterParts ==
    ASSUME TypeOK, Filter
    PROVE  \E d : FiltersBy(d)
  <1>1. PICK d \in [eg.rules -> [chosen : SUBSET (1 .. Cardinality(eg.facts)), seek : BOOLEAN]] :
          /\ \A r \in eg.rules : May(d[r], Len(Vec(r)))
          /\ eg' = [eg EXCEPT
                !.info = [r \in Rule |-> IF r \in eg.rules THEN Told(@[r], d[r]) ELSE @[r]],
                !.decided = [r \in Rule |-> @[r] \cup {HeadOf[r][f] : f \in ChosenBy(d, r)}],
                !.fired = [r \in Rule |-> @[r] \cup ChosenBy(d, r)]]
          /\ cell' = [c \in 1 .. Cells |->
                IF \E r \in eg.rules : eg.info[r].vec = c
                THEN LET owner == CHOOSE r \in eg.rules : eg.info[r].vec = c
                     IN  Residual(cell[c], d[owner].chosen)
                ELSE cell[c]]
          /\ done' = \A r \in eg.rules : eg.info[r].seek /\ d[r].chosen = 1 .. Len(Vec(r))
    BY DEF Filter, Vec, ChosenBy
  <1>2. ASSUME NEW r \in eg.rules
        PROVE  /\ d[r].chosen \subseteq 1 .. Len(Vec(r)) /\ d[r].seek \in BOOLEAN
               /\ d[r].chosen = 1 .. Len(Vec(r)) => d[r].seek
    BY <1>1 DEF May
  <1>3. ASSUME NEW c \in 1 .. Cells
        PROVE  \/ (\A r \in eg.rules : eg.info[r].vec # c) /\ cell'[c] = cell[c]
               \/ \E r \in eg.rules : eg.info[r].vec = c /\ cell'[c] = Residual(cell[c], d[r].chosen)
    BY <1>1
  <1> QED
    BY <1>1, <1>2, <1>3 DEF FiltersBy

LEMMA FilterTypes == ASSUME TypeOK, Filter PROVE TypeOK'
  <1>1. PICK d : FiltersBy(d)
    BY FilterParts
  <1>2. /\ eg \in Graph /\ pc = "filter" /\ eg.rules \subseteq Built /\ cell \in [1 .. Cells -> Seq(Fact)]
        /\ Cells \in Nat
    BY RulesAssumption DEF TypeOK, Filter
  <1>3. ASSUME NEW r \in eg.rules PROVE eg.info[r].vec \in 1 .. Cells /\ Vec(r) \in Seq(Fact)
    <2>1. eg.info[r].vec \in 1 .. Cells
      BY <1>2 DEF Graph, Built
    <2> QED
      BY <1>2, <2>1 DEF Vec
  <1>4. \A r \in Rule : ChosenBy(d, r) \subseteq Fact
    <2> SUFFICES ASSUME NEW r \in eg.rules, NEW i \in d[r].chosen PROVE Vec(r)[i] \in Fact
      BY DEF ChosenBy
    <2>1. i \in 1 .. Len(Vec(r))
      BY <1>1 DEF FiltersBy
    <2> QED
      BY <1>3, <2>1
  <1>5. eg' \in Graph
    <2> DEFINE I == [r \in Rule |-> IF r \in eg.rules THEN Told(eg.info[r], d[r]) ELSE eg.info[r]]
               D == [r \in Rule |-> eg.decided[r] \cup {HeadOf[r][f] : f \in ChosenBy(d, r)}]
               F == [r \in Rule |-> eg.fired[r] \cup ChosenBy(d, r)]
    <2>1. eg' = [eg EXCEPT !.info = I, !.decided = D, !.fired = F]
      BY <1>1 DEF FiltersBy
    <2>2. I \in [Rule -> [vec : 0 .. Cells, seek : BOOLEAN]] /\ \A r \in Rule : I[r].vec = eg.info[r].vec
      <3> SUFFICES ASSUME NEW r \in Rule
                   PROVE  I[r] \in [vec : 0 .. Cells, seek : BOOLEAN] /\ I[r].vec = eg.info[r].vec
        OBVIOUS
      <3>1. eg.info[r] \in [vec : 0 .. Cells, seek : BOOLEAN]
        BY <1>2 DEF Graph
      <3> QED
        BY <1>1, <3>1 DEF Told, FiltersBy
    <2>3. D \in [Rule -> SUBSET HeadValues] /\ \A r \in Rule : D[r] \subseteq {HeadOf[r][f] : f \in Fact}
      <3> SUFFICES ASSUME NEW r \in Rule
                   PROVE  D[r] \subseteq HeadValues /\ D[r] \subseteq {HeadOf[r][f] : f \in Fact}
        OBVIOUS
      <3>1. eg.decided[r] \subseteq {HeadOf[r][f] : f \in Fact}
        BY <1>2 DEF Graph
      <3>2. ASSUME NEW f \in ChosenBy(d, r)
            PROVE  HeadOf[r][f] \in HeadValues /\ HeadOf[r][f] \in {HeadOf[r][g] : g \in Fact}
        <4>1. f \in Fact
          BY <1>4
        <4> QED
          BY <4>1 DEF HeadValues
      <3>3. eg.decided[r] \subseteq HeadValues
        BY <1>2 DEF Graph
      <3>4. D[r] = eg.decided[r] \cup {HeadOf[r][f] : f \in ChosenBy(d, r)}
        OBVIOUS
      <3> HIDE DEF D
      <3> QED
        BY <3>1, <3>2, <3>3, <3>4
    <2>4. F \in [Rule -> SUBSET Fact]
      BY <1>2, <1>4 DEF Graph
    <2> HIDE DEF I, D, F
    <2> QED
      BY <1>2, <2>1, <2>2, <2>3, <2>4 DEF Graph
  <1>6. eg'.rules \subseteq Built'
    <2>1. \A r \in Rule : eg'.info[r].vec = eg.info[r].vec
      BY <1>1, <1>2 DEF Graph, Told, FiltersBy
    <2>2. eg'.rules = eg.rules
      BY <1>1, <1>2 DEF Graph, FiltersBy
    <2> QED
      BY <1>2, <2>1, <2>2 DEF Built
  <1>7. cell' \in [1 .. Cells -> Seq(Fact)]
    <2>1. \A c \in 1 .. Cells : cell'[c] \in Seq(Fact)
      <3> SUFFICES ASSUME NEW c \in 1 .. Cells, NEW r \in eg.rules, eg.info[r].vec = c
                   PROVE  Residual(cell[c], d[r].chosen) \in Seq(Fact)
        BY <1>1, <1>2 DEF FiltersBy
      <3>1. cell[c] \in Seq(Fact) /\ d[r].chosen \subseteq 1 .. Len(cell[c])
        BY <1>1, <1>2 DEF Vec, FiltersBy
      <3> QED
        BY <3>1, ResidualIs
    <2>2. cell' = [c \in 1 .. Cells |-> cell'[c]]
      BY DEF Filter
    <2> QED
      BY <2>1, <2>2
  <1>8. done' \in BOOLEAN
    BY <1>1 DEF FiltersBy
  <1> QED
    BY <1>5, <1>6, <1>7, <1>8 DEF TypeOK, Filter

LEMMA AdditionsAreFacts == ASSUME TypeOK PROVE Additions \subseteq Fact
  <1> SUFFICES ASSUME NEW r \in eg.rules, NEW h \in eg.decided[r] PROVE Adds[r][h] \subseteq Fact
    BY DEF Additions
  <1>1. r \in Rule /\ eg.decided[r] \subseteq {HeadOf[r][f] : f \in Fact}
    BY DEF TypeOK, Graph
  <1>2. PICK f \in Fact : h = HeadOf[r][f]
    BY <1>1
  <1> QED
    BY <1>1, <1>2, RulesAssumption

LEMMA ActTypes == ASSUME TypeOK, Act PROVE TypeOK'
  <1>1. eg' = [eg EXCEPT !.facts = @ \cup Additions,
                         !.applied = [r \in Rule |-> IF r \in eg.rules THEN @[r] \cup eg.decided[r] ELSE @[r]],
                         !.decided = [r \in Rule |-> IF r \in eg.rules THEN {} ELSE @[r]]]
    BY DEF Act
  <1>2. eg' \in Graph
    BY <1>1, AdditionsAreFacts DEF TypeOK, Graph
  <1>3. canStop' \in BOOLEAN
    BY DEF Act
  <1> QED
    BY <1>2, <1>3 DEF TypeOK, Act

LEMMA TypesKept == TypeOK /\ [Next]_vars => TypeOK'
  <1> SUFFICES ASSUME TypeOK, [Next]_vars PROVE TypeOK'
    OBVIOUS
  <1>1. CASE \E f \in Fact : AddFact(f)
    BY <1>1, AddFactTypes
  <1>2. CASE \E r \in Rule : AddRule(r)
    BY <1>2, AddRuleTypes
  <1>3. CASE AddScheduler \/ RemoveScheduler \/ Push \/ Pop
    BY <1>3, AddSchedulerTypes, RemoveSchedulerTypes, PushTypes, PopTypes
  <1>4. CASE Step
    BY <1>4, BeginStepTypes, QueryTypes, FilterTypes, ActTypes DEF Step
  <1>5. CASE QueryPanics
    BY <1>5, LoseTypes DEF QueryPanics
  <1>6. CASE ActPanics
    BY <1>6, LoseTypes, AdditionsAreFacts DEF ActPanics
  <1>7. CASE UNCHANGED vars
    BY <1>7 DEF TypeOK, Built, vars
  <1> QED
    BY <1>1, <1>2, <1>3, <1>4, <1>5, <1>6, <1>7 DEF Next

(* What a scheduler knows of its rules is consistent with the backend's tables: a rule  *)
(* being run has its vector, its query writes to some vector, and decided matches are   *)
(* matches of its query, whatever was pushed and popped in between.                     *)
THEOREM TypeCorrect == Spec => []TypeOK
  <1> QED
    BY InitTypes, TypesKept, PTL DEF Spec

-----------------------------------------------------------------------------
(* No match is lost or doubled.                                             *)

(* The matches of r held back, and those chosen, are those its query found. *)
HeldOnce(g, r, held) ==
    /\ g.seen[r] \subseteq g.facts
    /\ IsInjective(held)
    /\ ToSet(held) \cap g.fired[r] = {}
    /\ ToSet(held) \cup g.fired[r] = g.seen[r]
    /\ g.decided[r] \cup g.applied[r] = {HeadOf[r][f] : f \in g.fired[r]}

LEMMA ConservedIs == Conserved <=> \A r \in Built : HeldOnce(eg, r, Vec(r))
  BY DEF Conserved, HeldOnce, Vec

LEMMA InitHolding == Init => Holding
  <1> SUFFICES ASSUME Init PROVE Holding
    OBVIOUS
  <1>1. Built = {}
    BY NothingBuilt DEF Init, New, Built
  <1>2. Distinct /\ Wired /\ Conserved
    BY <1>1 DEF Distinct, Wired, Conserved
  <1>3. FreeAreEmpty /\ SavedUnbuilt
    BY DEF Init, FreeAreEmpty, SavedUnbuilt
  <1> QED
    BY <1>2, <1>3 DEF Holding

(* A scheduler that is gone holds nothing.                                  *)
LEMMA NoneBuiltHolding ==
    ASSUME Built' = {}, FreeAreEmpty', SavedUnbuilt' PROVE Holding'
  BY DEF Holding, Distinct, Wired, Conserved

LEMMA AddHolding ==
    ASSUME Holding, UNCHANGED <<saved, cell, used>>, eg.facts \subseteq eg'.facts,
           eg'.info = eg.info, eg'.sink = eg.sink, eg'.seen = eg.seen, eg'.fired = eg.fired,
           eg'.decided = eg.decided, eg'.applied = eg.applied
    PROVE  Holding'
  <1>1. Built' = Built
    BY DEF Built
  <1>2. Distinct' /\ Wired' /\ FreeAreEmpty' /\ SavedUnbuilt'
    BY <1>1 DEF Holding, Distinct, Wired, FreeAreEmpty, SavedUnbuilt
  <1>3. Conserved'
    <2>1. \A r \in Built : HeldOnce(eg, r, Vec(r))
      BY ConservedIs DEF Holding
    <2>2. \A r \in Built' : HeldOnce(eg', r, Vec(r)')
      BY <1>1, <2>1 DEF HeldOnce, Vec
    <2> QED
      BY <2>2 DEF Conserved, HeldOnce, Vec
  <1> QED
    BY <1>2, <1>3 DEF Holding

LEMMA GoneHolding ==
    ASSUME TypeOK, Holding, UNCHANGED <<saved, cell, used>>, eg'.info = New.info
    PROVE  Holding'
  <1>1. Built' = {}
    BY NothingBuilt DEF Built
  <1>2. FreeAreEmpty' /\ SavedUnbuilt'
    BY DEF Holding, FreeAreEmpty, SavedUnbuilt
  <1> QED
    BY <1>1, <1>2, NoneBuiltHolding

LEMMA PushHolding == ASSUME ~PushBuilt, TypeOK, Holding, Push PROVE Holding'
  <1>1. Built = {}
    BY DEF Push
  <1> DEFINE clone == [eg EXCEPT !.sink = [r \in Rule |-> IF r \in Built THEN FreshCells(Built)[r] ELSE @[r]]]
  <1>2. saved' = Append(saved, clone) /\ used' = used + Cardinality(Built) /\ eg' = eg
    BY DEF Push
  <1>3. cell' = cell
    BY <1>1 DEF Push, TypeOK
  <1>4. used' = used
    BY <1>1, <1>2, FS_EmptySet DEF TypeOK
  <1>5. SavedUnbuilt'
    <2>1. clone.info = eg.info
      BY DEF TypeOK, Graph
    <2> HIDE DEF clone
    <2>2. \A r \in Rule : clone.info[r].vec = 0
      BY <1>1, <2>1 DEF Built
    <2>3. /\ DOMAIN saved' = 1 .. Len(saved) + 1 /\ DOMAIN saved = 1 .. Len(saved) /\ Len(saved) \in Nat
          /\ \A i \in 1 .. Len(saved) : saved'[i] = saved[i]
          /\ saved'[Len(saved) + 1] = clone
      BY <1>2 DEF TypeOK
    <2> QED
      BY <2>2, <2>3 DEF Holding, SavedUnbuilt
  <1>6. FreeAreEmpty'
    BY <1>3, <1>4 DEF Holding, FreeAreEmpty
  <1>7. Built' = {}
    BY <1>1, <1>2 DEF Built
  <1> QED
    BY <1>5, <1>6, <1>7, NoneBuiltHolding

LEMMA PopHolding == ASSUME TypeOK, Holding, Pop PROVE Holding'
  <1> DEFINE n == Len(saved)
  <1>1. /\ n \in Nat /\ n # 0 /\ DOMAIN saved = 1 .. n
        /\ eg' = saved[n] /\ saved' = SubSeq(saved, 1, n - 1)
    BY DEF TypeOK, Pop, Last, Front
  <1>2. DOMAIN saved' = 1 .. n - 1 /\ \A i \in 1 .. n - 1 : saved'[i] = saved[i]
    BY <1>1 DEF TypeOK
  <1> HIDE DEF n
  <1>3. Built' = {}
    BY <1>1 DEF Holding, SavedUnbuilt, Built
  <1>4. SavedUnbuilt'
    BY <1>1, <1>2 DEF Holding, SavedUnbuilt
  <1>5. FreeAreEmpty'
    BY DEF Holding, FreeAreEmpty, Pop
  <1> QED
    BY <1>3, <1>4, <1>5, NoneBuiltHolding

LEMMA BeginStepHolding == ASSUME TypeOK, Holding, BeginStep PROVE Holding'
  <1> DEFINE fresh == eg.rules \ Built
             c == FreshCells(fresh)
             n == Cardinality(fresh)
             Clear(m) == [r \in Rule |-> IF r \in fresh THEN {} ELSE m[r]]
  <1>1. used \in Nat /\ Cells \in Nat /\ used + n <= Cells /\ used' = used + n /\ cell' = cell /\ saved' = saved
    BY RulesAssumption DEF TypeOK, BeginStep
  <1>2. /\ fresh \in SUBSET Rule /\ n \in Nat /\ c \in [fresh -> used + 1 .. used + n]
        /\ \A a, b \in fresh : c[a] = c[b] => a = b
    <2>1. fresh \in SUBSET Rule
      BY DEF TypeOK, Graph
    <2> QED
      BY <1>1, <2>1, FreshCellsDiffer
  <1>3. eg \in Graph
    BY DEF TypeOK
  <1>4. eg' = [eg EXCEPT
                !.info = [r \in Rule |-> IF r \in fresh THEN [vec |-> c[r], seek |-> TRUE] ELSE @[r]],
                !.sink = [r \in Rule |-> IF r \in fresh THEN c[r] ELSE @[r]],
                !.seen = Clear(@), !.decided = Clear(@), !.fired = Clear(@), !.applied = Clear(@)]
    BY DEF BeginStep
  <1>5. /\ eg'.facts = eg.facts /\ eg'.seen = Clear(eg.seen) /\ eg'.fired = Clear(eg.fired)
        /\ eg'.decided = Clear(eg.decided) /\ eg'.applied = Clear(eg.applied)
    <2> HIDE DEF Clear, c
    <2> QED
      BY <1>3, <1>4 DEF Graph
  <1>6. \A r \in Rule : /\ r \in fresh => eg'.info[r].vec = c[r] /\ eg'.sink[r] = c[r]
                        /\ r \notin fresh => eg'.info[r] = eg.info[r] /\ eg'.sink[r] = eg.sink[r]
    <2> HIDE DEF Clear, c
    <2> QED
      BY <1>3, <1>4 DEF Graph
  <1>7. \A r \in fresh : c[r] > used /\ c[r] <= used' /\ c[r] \in 1 .. Cells
    <2> HIDE DEF n, c
    <2> QED
      BY <1>1, <1>2
  <1>8. Built \subseteq Rule /\ Built' = Built \cup fresh /\ Built \cap fresh = {}
    <2> HIDE DEF n, c
    <2>1. \A r \in fresh : c[r] # 0
      BY <1>1, <1>7
    <2> QED
      BY <1>2, <1>6, <2>1 DEF Built
  <1>9. \A r \in Built : eg.info[r].vec <= used /\ eg.info[r].vec \in Nat /\ eg.sink[r] = eg.info[r].vec
    BY <1>1, <1>3 DEF Holding, Wired, Built, Graph
  <1> HIDE DEF c, n, fresh
  <1>10. Wired'
    BY <1>1, <1>2, <1>6, <1>7, <1>8, <1>9 DEF Wired
  <1>11. Distinct'
    <2> SUFFICES ASSUME NEW r \in Built', NEW s \in Built', eg'.info[r].vec = eg'.info[s].vec
                 PROVE  r = s
      BY DEF Distinct
    <2>1. CASE r \in fresh /\ s \in fresh
      BY <1>2, <1>6, <2>1
    <2>2. CASE r \in Built /\ s \in Built
      BY <1>6, <1>8, <2>2 DEF Holding, Distinct
    <2>3. CASE r \in fresh /\ s \in Built
      BY <1>1, <1>2, <1>6, <1>7, <1>8, <1>9, <2>3
    <2>4. CASE s \in fresh /\ r \in Built
      BY <1>1, <1>2, <1>6, <1>7, <1>8, <1>9, <2>4
    <2> QED
      BY <1>8, <2>1, <2>2, <2>3, <2>4
  <1>12. FreeAreEmpty'
    BY <1>1, <1>2 DEF Holding, FreeAreEmpty
  <1>13. \A r \in Built' : HeldOnce(eg', r, Vec(r)')
    <2>1. ASSUME NEW r \in Built PROVE HeldOnce(eg', r, Vec(r)')
      <3>1. HeldOnce(eg, r, Vec(r))
        BY ConservedIs DEF Holding
      <3>2. Vec(r)' = Vec(r) /\ r \in Rule /\ r \notin fresh
        BY <1>1, <1>6, <1>8 DEF Vec
      <3> QED
        BY <1>5, <3>1, <3>2 DEF HeldOnce
    <2>2. ASSUME NEW r \in fresh PROVE HeldOnce(eg', r, Vec(r)')
      <3>1. r \in Rule /\ Vec(r)' = <<>>
        BY <1>1, <1>2, <1>6, <1>7 DEF Holding, FreeAreEmpty, Vec
      <3>2. IsInjective(<<>>) /\ ToSet(<<>>) = {}
        BY DEF IsInjective, ToSet
      <3>3. eg'.seen[r] = {} /\ eg'.fired[r] = {} /\ eg'.decided[r] = {} /\ eg'.applied[r] = {}
        BY <1>5, <3>1
      <3> QED
        BY <3>1, <3>2, <3>3 DEF HeldOnce
    <2> QED
      BY <1>8, <2>1, <2>2
  <1>14. Conserved' /\ SavedUnbuilt'
    BY <1>1, <1>13 DEF Conserved, HeldOnce, Vec, Holding, SavedUnbuilt
  <1> QED
    BY <1>10, <1>11, <1>12, <1>14 DEF Holding

(* The vectors of the rules being run.                                      *)
LEMMA VectorsOfRules ==
    ASSUME TypeOK, Holding, pc # "idle"
    PROVE  /\ eg.rules \subseteq Built /\ Built \subseteq Rule
           /\ \A r \in Built : /\ eg.info[r].vec \in 1 .. Cells /\ eg.info[r].vec <= used
                               /\ eg.sink[r] = eg.info[r].vec /\ Vec(r) \in Seq(Fact)
           /\ \A r, s \in Built : eg.info[r].vec = eg.info[s].vec => r = s
  <1>1. eg.rules \subseteq Built /\ Built \subseteq Rule
    BY DEF TypeOK, Built
  <1>2. \A r \in Built : /\ eg.info[r].vec \in 1 .. Cells /\ eg.info[r].vec <= used
                         /\ eg.sink[r] = eg.info[r].vec
    <2>1. \A r \in Rule : eg.info[r].vec \in 0 .. Cells
      BY DEF TypeOK, Graph
    <2> QED
      BY <2>1, RulesAssumption DEF Holding, Wired, Built
  <1>3. \A r \in Built : Vec(r) \in Seq(Fact)
    BY <1>2 DEF Vec, TypeOK
  <1> QED
    BY <1>1, <1>2, <1>3 DEF Holding, Distinct

LEMMA QueryHolding == ASSUME TypeOK, Holding, Query PROVE Holding'
  <1>1. pc # "idle" /\ eg \in Graph /\ used' = used /\ saved' = saved
    BY DEF Query, TypeOK
  <1>2. /\ Seekers \subseteq eg.rules /\ eg.rules \subseteq Built /\ Built \subseteq Rule
        /\ \A r \in Built : /\ eg.info[r].vec \in 1 .. Cells /\ eg.info[r].vec <= used
                            /\ eg.sink[r] = eg.info[r].vec /\ Vec(r) \in Seq(Fact)
        /\ \A r, s \in Built : eg.info[r].vec = eg.info[s].vec => r = s
    BY <1>1, VectorsOfRules DEF Seekers
  <1>3. /\ eg'.info = eg.info /\ eg'.sink = eg.sink /\ eg'.facts = eg.facts /\ eg'.fired = eg.fired
        /\ eg'.decided = eg.decided /\ eg'.applied = eg.applied
        /\ \A r \in Rule : eg'.seen[r] = eg.seen[r] \cup (IF r \in Seekers THEN Unseen(r) ELSE {})
    BY <1>1 DEF Query, Graph
  <1>4. Built' = Built /\ Distinct' /\ Wired' /\ SavedUnbuilt'
    BY <1>1, <1>3 DEF Built, Holding, Distinct, Wired, SavedUnbuilt
  <1>5. FreeAreEmpty'
    <2> SUFFICES ASSUME NEW c \in 1 .. Cells, c > used PROVE cell'[c] = <<>>
      BY <1>1 DEF FreeAreEmpty
    <2>1. \A r \in Seekers : eg.sink[r] # c
      BY <1>2 DEF TypeOK
    <2>2. cell'[c] = cell[c]
      BY <2>1, QueryCells
    <2> QED
      BY <2>2 DEF Holding, FreeAreEmpty
  <1>6. ASSUME NEW r \in Built PROVE HeldOnce(eg', r, Vec(r)')
    <2>1. HeldOnce(eg, r, Vec(r)) /\ r \in Rule
      BY <1>2, ConservedIs DEF Holding
    <2>2. Vec(r)' = cell'[eg.info[r].vec] /\ Vec(r) = cell[eg.info[r].vec]
      BY <1>3 DEF Vec
    <2>3. CASE r \notin Seekers
      <3>1. \A s \in Seekers : eg.sink[s] # eg.info[r].vec
        BY <1>2, <2>3
      <3>2. Vec(r)' = Vec(r)
        BY <1>2, <2>2, <3>1, QueryCells
      <3> QED
        BY <1>3, <2>1, <2>3, <3>2 DEF HeldOnce
    <2>4. CASE r \in Seekers
      <3>1. PICK s \in Seekers, o \in Seq(Fact) :
               /\ eg.sink[s] = eg.info[r].vec /\ cell'[eg.info[r].vec] = cell[eg.info[r].vec] \o o
               /\ IsInjective(o) /\ ToSet(o) = Unseen(s)
        BY <1>2, <2>4, QueryCells
      <3>2. s = r
        BY <1>2, <3>1
      <3>3. Vec(r) \in Seq(Fact) /\ Vec(r)' = Vec(r) \o o /\ ToSet(o) = Unseen(r)
        BY <1>2, <2>2, <3>1, <3>2
      <3>4. ToSet(Vec(r)) \cap ToSet(o) = {}
        BY <2>1, <3>3 DEF HeldOnce, Unseen
      <3>5. IsInjective(Vec(r)')
        BY <2>1, <3>1, <3>3, <3>4, ConcatLists DEF HeldOnce
      <3>6. ToSet(Vec(r)') = ToSet(Vec(r)) \cup Unseen(r)
        BY <3>3, ConcatLists
      <3>7. eg'.seen[r] = eg.seen[r] \cup Unseen(r)
        BY <1>3, <2>1, <2>4
      <3> HIDE DEF Vec
      <3> QED
        BY <1>3, <2>1, <3>5, <3>6, <3>7 DEF HeldOnce, Unseen
    <2> QED
      BY <2>3, <2>4
  <1>7. Conserved'
    BY <1>4, <1>6 DEF Conserved, HeldOnce, Vec
  <1> QED
    BY <1>4, <1>5, <1>7 DEF Holding

LEMMA FilterHolding == ASSUME TypeOK, Holding, Filter PROVE Holding'
  <1>1. pc # "idle" /\ eg \in Graph /\ used' = used /\ saved' = saved
    BY DEF Filter, TypeOK
  <1>2. /\ eg.rules \subseteq Built /\ Built \subseteq Rule
        /\ \A r \in Built : /\ eg.info[r].vec \in 1 .. Cells /\ eg.info[r].vec <= used
                            /\ eg.sink[r] = eg.info[r].vec /\ Vec(r) \in Seq(Fact)
        /\ \A r, s \in Built : eg.info[r].vec = eg.info[s].vec => r = s
    BY <1>1, VectorsOfRules
  <1>3. PICK d : FiltersBy(d)
    BY FilterParts
  <1>4. /\ \A r \in Rule : eg'.info[r].vec = eg.info[r].vec
        /\ eg'.sink = eg.sink /\ eg'.facts = eg.facts /\ eg'.seen = eg.seen /\ eg'.applied = eg.applied
        /\ \A r \in Rule : eg'.fired[r] = eg.fired[r] \cup ChosenBy(d, r)
        /\ \A r \in Rule : eg'.decided[r] = eg.decided[r] \cup {HeadOf[r][f] : f \in ChosenBy(d, r)}
    BY <1>1, <1>3 DEF Graph, Told, FiltersBy
  <1>5. Built' = Built
    BY <1>4 DEF Built
  <1>6. Distinct' /\ Wired' /\ SavedUnbuilt'
    BY <1>1, <1>2, <1>4, <1>5 DEF Holding, Distinct, Wired, SavedUnbuilt
  <1>7. FreeAreEmpty'
    <2> SUFFICES ASSUME NEW c \in 1 .. Cells, c > used PROVE cell'[c] = <<>>
      BY <1>1 DEF FreeAreEmpty
    <2>1. \A r \in eg.rules : eg.info[r].vec # c
      BY <1>2 DEF TypeOK
    <2>2. cell'[c] = cell[c]
      BY <1>3, <2>1 DEF FiltersBy
    <2> QED
      BY <2>2 DEF Holding, FreeAreEmpty
  <1>8. ASSUME NEW r \in Built PROVE HeldOnce(eg', r, Vec(r)')
    <2>1. HeldOnce(eg, r, Vec(r)) /\ r \in Rule
      BY <1>2, ConservedIs DEF Holding
    <2>2. Vec(r)' = cell'[eg.info[r].vec] /\ Vec(r) = cell[eg.info[r].vec]
      BY <1>4, <2>1 DEF Vec
    <2>3. CASE r \notin eg.rules
      <3>1. \A s \in eg.rules : eg.info[s].vec # eg.info[r].vec
        BY <1>2, <2>3
      <3>2. Vec(r)' = Vec(r)
        BY <1>2, <1>3, <2>2, <3>1 DEF FiltersBy
      <3>3. ChosenBy(d, r) = {}
        BY <2>3 DEF ChosenBy
      <3> QED
        BY <1>4, <2>1, <3>2, <3>3 DEF HeldOnce
    <2>4. CASE r \in eg.rules
      <3>1. PICK s \in eg.rules : /\ eg.info[s].vec = eg.info[r].vec
                                  /\ cell'[eg.info[r].vec] = Residual(cell[eg.info[r].vec], d[s].chosen)
        BY <1>2, <1>3, <2>4 DEF FiltersBy
      <3>2. s = r
        BY <1>2, <3>1
      <3>3. /\ Vec(r) \in Seq(Fact) /\ d[r].chosen \subseteq 1 .. Len(Vec(r))
            /\ Vec(r)' = Residual(Vec(r), d[r].chosen)
        BY <1>2, <1>3, <2>2, <2>4, <3>1, <3>2 DEF FiltersBy
      <3>4. ChosenBy(d, r) = {Vec(r)[i] : i \in d[r].chosen}
        BY <2>4 DEF ChosenBy
      <3>5. IsInjective(Vec(r)') /\ ToSet(Vec(r)') = ToSet(Vec(r)) \ ChosenBy(d, r)
        BY <2>1, <3>3, <3>4, ResidualIs DEF HeldOnce
      <3>6. ChosenBy(d, r) \subseteq ToSet(Vec(r))
        BY <3>3, <3>4 DEF ToSet
      <3> HIDE DEF Vec, ChosenBy
      <3> QED
        BY <1>4, <2>1, <3>5, <3>6 DEF HeldOnce
    <2> QED
      BY <2>3, <2>4
  <1>9. Conserved'
    BY <1>5, <1>8 DEF Conserved, HeldOnce, Vec
  <1> QED
    BY <1>6, <1>7, <1>9 DEF Holding

LEMMA ActHolding == ASSUME TypeOK, Holding, Act PROVE Holding'
  <1>1. /\ eg \in Graph /\ UNCHANGED <<used, saved, cell>>
        /\ eg' = [eg EXCEPT !.facts = @ \cup Additions,
                    !.applied = [r \in Rule |-> IF r \in eg.rules THEN @[r] \cup eg.decided[r] ELSE @[r]],
                    !.decided = [r \in Rule |-> IF r \in eg.rules THEN {} ELSE @[r]]]
    BY DEF Act, TypeOK
  <1>2. /\ eg'.info = eg.info /\ eg'.sink = eg.sink /\ eg.facts \subseteq eg'.facts /\ eg'.fired = eg.fired
        /\ eg'.seen = eg.seen
        /\ \A r \in Rule : eg'.decided[r] \cup eg'.applied[r] = eg.decided[r] \cup eg.applied[r]
    BY <1>1 DEF Graph
  <1>3. Built' = Built /\ Built \subseteq Rule
    BY <1>2 DEF Built
  <1>4. Distinct' /\ Wired' /\ FreeAreEmpty' /\ SavedUnbuilt'
    BY <1>1, <1>2, <1>3 DEF Holding, Distinct, Wired, FreeAreEmpty, SavedUnbuilt
  <1>5. \A r \in Built : HeldOnce(eg, r, Vec(r))
    BY ConservedIs DEF Holding
  <1>6. \A r \in Built : HeldOnce(eg', r, Vec(r)')
    BY <1>1, <1>2, <1>3, <1>5 DEF HeldOnce, Vec
  <1>7. Conserved'
    BY <1>3, <1>6 DEF Conserved, HeldOnce, Vec
  <1> QED
    BY <1>4, <1>7 DEF Holding

LEMMA HoldingKept == ~PushBuilt /\ TypeOK /\ Holding /\ [Next]_vars => Holding'
  <1> SUFFICES ASSUME ~PushBuilt, TypeOK, Holding, [Next]_vars PROVE Holding'
    OBVIOUS
  <1>0. eg \in Graph
    BY DEF TypeOK
  <1>1. ASSUME NEW f \in Fact, AddFact(f) PROVE Holding'
    BY <1>0, <1>1, AddHolding DEF AddFact, Graph
  <1>2. ASSUME NEW r \in Rule, AddRule(r) PROVE Holding'
    BY <1>0, <1>2, AddHolding DEF AddRule, Graph
  <1>3. CASE AddScheduler
    BY <1>0, <1>3, AddHolding DEF AddScheduler, Graph
  <1>4. CASE RemoveScheduler
    BY <1>0, <1>4, GoneHolding DEF RemoveScheduler, Graph
  <1>5. CASE Push \/ Pop
    BY <1>5, PushHolding, PopHolding
  <1>6. CASE Step
    BY <1>6, BeginStepHolding, QueryHolding, FilterHolding, ActHolding DEF Step
  <1>7. ASSUME NEW more, Lose(more) PROVE Holding'
    BY <1>0, <1>7, GoneHolding DEF Lose, Graph
  <1>8. CASE QueryPanics \/ ActPanics
    BY <1>7, <1>8 DEF QueryPanics, ActPanics
  <1>9. CASE UNCHANGED vars
    BY <1>9, AddHolding DEF vars
  <1> QED
    BY <1>1, <1>2, <1>3, <1>4, <1>5, <1>6, <1>8, <1>9 DEF Next

(* Swapping the chosen matches out of the vectors and filtering what is left again, with *)
(* newer matches behind it, loses none and fires none twice: each match a query returned *)
(* is in its rule's vector once or was chosen, and what was chosen is decided or applied, *)
(* whatever the scheduler chooses; if callers push only before a scheduler has been used. *)
THEOREM NoMatchIsLost ==
    ASSUME ~PushBuilt
    PROVE  Spec => []Conserved
  <1>1. Init => TypeOK /\ Holding
    BY InitTypes, InitHolding
  <1>2. TypeOK /\ Holding /\ [Next]_vars => TypeOK' /\ Holding'
    BY TypesKept, HoldingKept
  <1>3. Holding => Conserved
    BY DEF Holding
  <1> QED
    BY <1>1, <1>2, <1>3, PTL DEF Spec

-----------------------------------------------------------------------------
(* can_stop.                                                                *)
LEMMA InitStopping == Init => Sought /\ AllChosen /\ Settled /\ StopsSaturated
  BY DEF Init, Sought, AllChosen, Settled, StopsSaturated

LEMMA SoughtKept == TypeOK /\ Holding /\ Sought /\ [Next]_vars => Sought'
  <1> SUFFICES ASSUME TypeOK, Holding, Sought, [Next]_vars, pc' = "filter" PROVE Sought'
    BY DEF Sought
  <1>1. CASE Query
    <2>1. eg \in Graph /\ Seekers \subseteq Rule
      BY DEF TypeOK, Graph, Seekers
    <2>2. /\ eg'.facts = eg.facts /\ Seekers' = Seekers
          /\ \A r \in Rule : eg'.seen[r] = eg.seen[r] \cup (IF r \in Seekers THEN Unseen(r) ELSE {})
      BY <1>1, <2>1 DEF Query, Graph, Seekers
    <2> QED
      BY <2>1, <2>2 DEF Sought, Unseen
  <1>2. CASE UNCHANGED vars
    BY <1>2 DEF vars, Sought, Seekers
  <1>3. Query \/ UNCHANGED vars
    BY DEF Next, Step, AddFact, AddRule, AddScheduler, RemoveScheduler, Push, Pop, Call, BeginStep, Filter,
           Act, QueryPanics, ActPanics, Lose
  <1> QED
    BY <1>1, <1>2, <1>3

(* When a step sought every match and chose all it held, no match is left.  *)
LEMMA AllChosenKept == TypeOK /\ Holding /\ Sought /\ AllChosen /\ [Next]_vars => AllChosen'
  <1> SUFFICES ASSUME TypeOK, Holding, Sought, AllChosen, [Next]_vars, pc' = "act", done' PROVE AllChosen'
    BY DEF AllChosen
  <1>1. CASE Filter
    <2>1. pc = "filter" /\ eg \in Graph /\ eg.rules \subseteq Built /\ Built \subseteq Rule
      BY <1>1, VectorsOfRules DEF Filter, TypeOK
    <2>2. PICK d : FiltersBy(d)
      BY <1>1, FilterParts
    <2>3. /\ eg'.facts = eg.facts /\ eg'.rules = eg.rules
          /\ \A r \in Rule : eg'.fired[r] = eg.fired[r] \cup ChosenBy(d, r)
      BY <2>1, <2>2 DEF Graph, FiltersBy
    <2>4. ASSUME NEW r \in eg.rules PROVE eg.facts \cap Body[r] \subseteq eg'.fired[r]
      <3>1. r \in Seekers /\ d[r].chosen = 1 .. Len(Vec(r))
        BY <2>2 DEF Seekers, FiltersBy
      <3>2. eg.facts \cap Body[r] \subseteq eg.seen[r]
        BY <2>1, <3>1 DEF Sought
      <3>3. HeldOnce(eg, r, Vec(r)) /\ Vec(r) \in Seq(Fact)
        BY <2>1, ConservedIs, VectorsOfRules DEF Holding
      <3>4. ToSet(Vec(r)) \subseteq ChosenBy(d, r)
        BY <3>1, <3>3 DEF ChosenBy, ToSet
      <3> QED
        BY <2>1, <2>3, <3>2, <3>3, <3>4 DEF HeldOnce
    <2> QED
      BY <2>3, <2>4 DEF AllChosen
  <1>2. CASE UNCHANGED vars
    BY <1>2 DEF vars, AllChosen
  <1>3. Filter \/ UNCHANGED vars
    BY DEF Next, Step, AddFact, AddRule, AddScheduler, RemoveScheduler, Push, Pop, Call, BeginStep, Query,
           Act, QueryPanics, ActPanics, Lose
  <1> QED
    BY <1>1, <1>2, <1>3

LEMMA SettledKept == TypeOK /\ Settled /\ [Next]_vars => Settled'
  <1> SUFFICES ASSUME TypeOK, Settled, [Next]_vars PROVE Settled'
    OBVIOUS
  <1> QED
    BY DEF Settled, Next, Step, AddFact, AddRule, AddScheduler, RemoveScheduler, Push, Pop, Call, BeginStep,
           Query, Filter, Act, QueryPanics, ActPanics, Lose, vars

LEMMA StopsSaturatedKept ==
    ~CanStop /\ TypeOK /\ AllChosen /\ Settled /\ StopsSaturated /\ [Next]_vars => StopsSaturated'
  <1> SUFFICES ASSUME ~CanStop, TypeOK, AllChosen, Settled, StopsSaturated, [Next]_vars, canStop'
               PROVE  StopsSaturated'
    BY DEF StopsSaturated
  <1>1. CASE Act
    <2>1. eg \in Graph /\ Additions \subseteq eg.facts /\ done /\ pc = "act"
      BY <1>1 DEF Act, TypeOK
    <2>2. eg'.facts = eg.facts /\ eg'.rules = eg.rules /\ eg'.fired = eg.fired
      BY <1>1, <2>1 DEF Act, Graph
    <2> QED
      BY <2>1, <2>2 DEF AllChosen, StopsSaturated
  <1>2. CASE UNCHANGED vars
    BY <1>2 DEF vars, StopsSaturated
  <1>3. CASE QueryPanics \/ ActPanics
    BY <1>3 DEF QueryPanics, ActPanics, Lose, Settled
  <1>4. Act \/ UNCHANGED vars \/ QueryPanics \/ ActPanics
    BY DEF Settled, Next, Step, AddFact, AddRule, AddScheduler, RemoveScheduler, Push, Pop, Call, BeginStep,
           Query, Filter
  <1> QED
    BY <1>1, <1>2, <1>3, <1>4

(* A scheduler that answers can_stop only when it left nothing to look for or to choose is *)
(* right about the whole ruleset: after a step that reports can_stop, every match of every *)
(* rule was chosen, though queries run only for the rules that seek, before the choice,    *)
(* and actions add facts after it.                                                         *)
THEOREM CanStopIsSaturated ==
    ASSUME ~PushBuilt, ~CanStop
    PROVE  Spec => []StopsSaturated
  <1>1. Init => TypeOK /\ Holding /\ Sought /\ AllChosen /\ Settled /\ StopsSaturated
    BY InitTypes, InitHolding, InitStopping
  <1>2. TypeOK /\ Holding /\ Sought /\ AllChosen /\ Settled /\ StopsSaturated /\ [Next]_vars
        => TypeOK' /\ Holding' /\ Sought' /\ AllChosen' /\ Settled' /\ StopsSaturated'
    BY TypesKept, HoldingKept, SoughtKept, AllChosenKept, SettledKept, StopsSaturatedKept
  <1> QED
    BY <1>1, <1>2, PTL DEF Spec

=============================================================================
