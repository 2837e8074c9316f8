------------------------------ MODULE EGraph_proofs ------------------------------
(* The types of the e-graph, the soundness of equality saturation, the closure of the *)
(* tables between operations, and that seminaive evaluation forgets no match, for any *)
(* rules, functions, schedules and interpretations.                                   *)
EXTENDS EGraph, WellFoundedInduction, TLAPS

(* What WellFormed says of the action a match has come to.                           *)
LEMMA RuleFacts ==
    ASSUME NEW r \in RuleName
    PROVE  /\ DOMAIN Acts(r) = 1 .. Len(Acts(r)) /\ Len(Acts(r)) \in Nat /\ 1 \in DOMAIN Acts(r)
           /\ DOMAIN Atoms(r) = 1 .. Len(Atoms(r)) /\ Len(Atoms(r)) \in Nat
           /\ \A i \in DOMAIN Atoms(r) : Fits(r, Atoms(r)[i])
           /\ \A i \in DOMAIN Atoms(r) : {Atoms(r)[i].arg, Atoms(r)[i].val} \subseteq Vars(r)
           /\ \A c \in DOMAIN Consts(r) : Type(r, c) = "lit" /\ Consts(r)[c] \in Lit
  <1>1. WellFormed(r)
    BY RulesAssumption
  <1>2. Len(Acts(r)) \in Nat /\ DOMAIN Acts(r) = 1 .. Len(Acts(r))
    BY <1>1 DEF WellFormed
  <1>3. Len(Acts(r)) # 0
    BY <1>1 DEF WellFormed
  <1>4. Len(Atoms(r)) \in Nat /\ DOMAIN Atoms(r) = 1 .. Len(Atoms(r))
    BY <1>1 DEF WellFormed
  <1> QED
    BY <1>1, <1>2, <1>3, <1>4 DEF WellFormed, Vars

LEMMA ScopeStarts == \A r \in RuleName : Scope(r, 1) = Vars(r) \cup DOMAIN Consts(r)
  <1> SUFFICES ASSUME NEW r \in RuleName PROVE Bound(r, 1) = {}
    BY DEF Scope
  <1> QED
    BY RuleFacts DEF Bound

LEMMA ScopeGrows ==
    ASSUME NEW r \in RuleName, NEW j \in DOMAIN Acts(r)
    PROVE  Scope(r, j + 1) = IF Acts(r)[j].op = "lookup" THEN Scope(r, j) \cup {Acts(r)[j].val}
                             ELSE Scope(r, j)
  <1>1. \A i \in DOMAIN Acts(r) : i < j + 1 <=> i < j \/ i = j
    BY RuleFacts
  <1> QED
    BY <1>1 DEF Scope, Bound

(* Known and GoodEnv with the number of ids spelt out, to speak of the next state.   *)
Below(v, n) == v \in Id => v < n
FactBelow(k, v, n) == k \in Key /\ v \in ValueOf(k[1]) /\ Below(k[2], n) /\ Below(v, n)
EnvBelow(r, e, scope, n) ==
    /\ DOMAIN e = scope /\ e \in [scope -> Value]
    /\ \A x \in scope : e[x] \in Of(Type(r, x)) /\ Below(e[x], n)

LEMMA Belows ==
    /\ \A v : Known(v) <=> Below(v, nextId)
    /\ \A k, v : GoodFact(k, v) <=> FactBelow(k, v, nextId)
    /\ \A r, e, scope : GoodEnv(r, e, scope) <=> EnvBelow(r, e, scope, nextId)
  BY DEF Known, Below, GoodEnv, EnvBelow, GoodFact, FactBelow

LEMMA BelowsNext ==
    /\ \A v : Known(v)' <=> Below(v, nextId')
    /\ \A k, v : GoodFact(k, v)' <=> FactBelow(k, v, nextId')
    /\ \A r, e, scope : GoodEnv(r, e, scope)' <=> EnvBelow(r, e, scope, nextId')
  BY DEF Known, Below, GoodEnv, EnvBelow, GoodFact, FactBelow

(* Ids handed out stay so, and the values keep their types.                          *)
LEMMA KnownGrows ==
    ASSUME nextId \in Nat, nextId' \in Nat, nextId <= nextId'
    PROVE  /\ \A v : Known(v) => Below(v, nextId')
           /\ \A k, v : GoodFact(k, v) => FactBelow(k, v, nextId')
           /\ \A r, e, scope : GoodEnv(r, e, scope) => EnvBelow(r, e, scope, nextId')
  <1>1. \A v : Known(v) => Below(v, nextId')
    BY ValuesAssumption DEF Known, Below, Id
  <1> QED
    BY <1>1 DEF GoodFact, FactBelow, GoodEnv, EnvBelow

LEMMA KnownFinds ==
    ASSUME LeadersOK, NEW v \in Value, Known(v)
    PROVE  Find(v) \in Value /\ Known(Find(v)) /\ (v \in Id => Find(v) \in Id) /\ (v \notin Id => Find(v) = v)
  BY ValuesAssumption DEF LeadersOK, Find, Known, Id, Value

(* The rows that a rule may write are rows of the tables.                            *)
LEMMA ActFacts ==
    ASSUME TypeOK, cur # None
    PROVE  /\ cur.rule \in RuleName /\ cur.at \in DOMAIN Acts(cur.rule) /\ cur.worker \in Worker
           /\ Instr.op \in {"lookup", "set", "remove", "subsume"} =>
                Instr.fn \in Fn /\ Arg \in Value /\ ActKey \in Key /\ Known(Arg) /\ ActKey[1] = Instr.fn
                /\ ActKey[2] = Arg
           /\ Instr.op \in {"set", "union"} => cur.env[Instr.val] \in Value /\ Known(cur.env[Instr.val])
           /\ Instr.op = "set" => cur.env[Instr.val] \in ValueOf(Instr.fn)
           /\ Instr.op = "union" => Arg \in Id /\ cur.env[Instr.val] \in Id /\ Known(Arg)
           /\ Instr.op = "lookup" => /\ Instr.val \notin Scope(cur.rule, cur.at)
                                     /\ Of(Type(cur.rule, Instr.val)) = ValueOf(Instr.fn)
           /\ Instr.op = "subsume" => Instr.fn \in Con
  <1> DEFINE r == cur.rule
             a == Acts(r)[cur.at]
  <1>1. r \in RuleName /\ cur.at \in DOMAIN Acts(r) /\ cur.worker \in Worker
    BY DEF TypeOK, MatchesOK
  <1>2. GoodEnv(r, cur.env, Scope(r, cur.at))
    BY DEF TypeOK, MatchesOK
  <1>3. \A n \in Scope(r, cur.at) : cur.env[n] \in Value /\ cur.env[n] \in Of(Type(r, n)) /\ Known(cur.env[n])
    BY <1>2 DEF GoodEnv
  <1>4. WellFormed(r)
    BY <1>1, RulesAssumption
  <1>5. a = Instr
    BY DEF Instr
  <1>6. CASE a.op \in {"lookup", "set", "remove", "subsume"}
    <2>1. a.arg \in Scope(r, cur.at) /\ Fits(r, a)
      BY <1>1, <1>4, <1>6 DEF WellFormed
    <2>2. a.fn \in Fn /\ Arg \in Value /\ Known(Arg) /\ Arg \in IF a.fn \in IdKey THEN Id ELSE Lit
      BY <1>3, <1>5, <2>1 DEF Fits, Arg, Of
    <2>3. ActKey = <<a.fn, Arg>> /\ ActKey \in Key
      BY <1>5, <2>2 DEF ActKey, Key
    <2>4. a.op = "set" => a.val \in Scope(r, cur.at) /\ cur.env[a.val] \in ValueOf(a.fn)
      BY <1>1, <1>3, <1>4, <2>1, ValuesAssumption DEF WellFormed, Fits, Of, ValueOf
    <2>5. a.op = "lookup" => a.val \notin Scope(r, cur.at) /\ Of(Type(r, a.val)) = ValueOf(a.fn)
      <3>1. a.op = "lookup" => a.val \notin Scope(r, cur.at)
        BY <1>1, <1>4 DEF WellFormed
      <3>2. a.op = "lookup" /\ a.fn \in NoMerge => Type(r, a.val) = "base"
        BY <1>1, <1>4 DEF WellFormed
      <3>3. a.fn \notin NoMerge => Type(r, a.val) = "id"
        BY <2>1 DEF Fits
      <3> QED
        BY <3>1, <3>2, <3>3 DEF Of, ValueOf
    <2>6. a.op = "subsume" => a.fn \in Con
      BY <1>1, <1>4 DEF WellFormed
    <2> QED
      BY <1>1, <1>3, <1>5, <1>6, <2>2, <2>3, <2>4, <2>5, <2>6
  <1>7. CASE a.op \in {"union", "panic"}
    BY <1>1, <1>3, <1>4, <1>5, <1>7 DEF WellFormed, Of, Arg
  <1>8. a.op \in {"lookup", "set", "union", "remove", "subsume", "panic"}
    BY <1>1, <1>4 DEF WellFormed
  <1> QED
    BY <1>1, <1>5, <1>6, <1>7, <1>8

-----------------------------------------------------------------------------
(* Type correctness.                                                             *)

LEMMA InitTypes == Init => TypeOK
  <1> SUFFICES ASSUME Init PROVE TypeOK
    OBVIOUS
  <1> USE ValuesAssumption DEF Init
  <1>1. LeadersOK /\ RowsOK /\ StagedOK /\ PredictedOK
    BY DEF LeadersOK, RowsOK, StagedOK, PredictedOK, Id
  <1>2. MatchesOK
    BY DEF MatchesOK
  <1>3. ControlOK
    BY DEF ControlOK
  <1> QED
    BY <1>1, <1>2, <1>3 DEF TypeOK

(* An environment extended by what a lookup found, or kept by another action.    *)
LEMMA ProceedOK ==
    ASSUME TypeOK, cur # None, NEW env, Proceed(env), nextId <= nextId', nextId' \in Nat,
           EnvBelow(cur.rule, env, Scope(cur.rule, cur.at + 1), nextId'), UNCHANGED todo
    PROVE  MatchesOK'
  <1> DEFINE r == cur.rule
  <1>1. cur \in [rule : RuleName, env : {cur.env}, worker : Worker, at : DOMAIN Acts(r)]
    BY DEF TypeOK, MatchesOK
  <1>2. \A m \in todo : /\ m \in [rule : RuleName, env : {m.env}]
                        /\ EnvBelow(m.rule, m.env, Scope(m.rule, 1), nextId')
    BY KnownGrows DEF TypeOK, MatchesOK, LeadersOK
  <1>3. \A m \in todo' : /\ m \in [rule : RuleName, env : {m.env}]
                         /\ GoodEnv(m.rule, m.env, Scope(m.rule, 1))'
    BY <1>2 DEF GoodEnv, EnvBelow, Known, Below
  <1>4. CASE cur.at = Len(Acts(r))
    BY <1>3, <1>4 DEF Proceed, MatchesOK
  <1>5. CASE cur.at # Len(Acts(r))
    <2>1. cur' = [cur EXCEPT !.at = cur.at + 1, !.env = env]
      BY <1>5 DEF Proceed
    <2>2. cur.at + 1 \in DOMAIN Acts(r)
      BY <1>1, <1>5, RuleFacts
    <2>3. cur' = [rule |-> r, env |-> env, worker |-> cur.worker, at |-> cur.at + 1]
      BY <1>1, <2>1
    <2>4. cur' \in [rule : RuleName, env : {cur'.env}, worker : Worker, at : DOMAIN Acts(cur'.rule)]
      BY <1>1, <2>2, <2>3
    <2>5. EnvBelow(cur'.rule, cur'.env, Scope(cur'.rule, cur'.at), nextId')
      BY <2>3
    <2> QED
      BY <1>3, <2>4, <2>5 DEF MatchesOK, GoodEnv, EnvBelow, Known, Below
  <1> QED
    BY <1>4, <1>5

LEMMA DoneOK ==
    ASSUME TypeOK, cur # None, Done, nextId <= nextId', nextId' \in Nat, Instr.op # "lookup",
           UNCHANGED todo
    PROVE  MatchesOK'
  <1>1. Scope(cur.rule, cur.at + 1) = Scope(cur.rule, cur.at)
    BY ActFacts, ScopeGrows DEF Instr
  <1>2. EnvBelow(cur.rule, cur.env, Scope(cur.rule, cur.at), nextId')
    BY KnownGrows DEF TypeOK, MatchesOK, LeadersOK
  <1> QED
    BY <1>1, <1>2, ProceedOK DEF Done

LEMMA BindOK ==
    ASSUME TypeOK, cur # None, Instr.op = "lookup", NEW v \in ValueOf(Instr.fn), Below(v, nextId'),
           Proceed(Bind(Instr.val, v)), nextId <= nextId', nextId' \in Nat, UNCHANGED todo
    PROVE  MatchesOK'
  <1> DEFINE r == cur.rule
             scope == Scope(r, cur.at)
             env == Bind(Instr.val, v)
  <1>1. Scope(r, cur.at + 1) = scope \cup {Instr.val}
    BY ActFacts, ScopeGrows DEF Instr
  <1>2. EnvBelow(r, cur.env, scope, nextId')
    BY KnownGrows DEF TypeOK, MatchesOK, LeadersOK
  <1>3. v \in Value /\ v \in Of(Type(r, Instr.val)) /\ Instr.val \notin scope
    BY ActFacts, ValuesAssumption DEF ValueOf, Value
  <1>4. /\ DOMAIN cur.env = scope
        /\ \A n \in scope : cur.env[n] \in Value /\ cur.env[n] \in Of(Type(r, n)) /\ Below(cur.env[n], nextId')
    BY <1>2 DEF EnvBelow
  <1>5. env = [n \in scope \cup {Instr.val} |-> IF n = Instr.val THEN v ELSE cur.env[n]]
    BY <1>4 DEF Bind
  <1>6. \A n \in scope \cup {Instr.val} : env[n] \in Value /\ env[n] \in Of(Type(r, n)) /\ Below(env[n], nextId')
    BY <1>3, <1>4, <1>5
  <1>7. EnvBelow(r, env, scope \cup {Instr.val}, nextId')
    BY <1>5, <1>6 DEF EnvBelow
  <1>8. Proceed(env)
    OBVIOUS
  <1> HIDE DEF env
  <1> QED
    BY <1>1, <1>7, <1>8, ProceedOK

(* What a lookup of a constructor inserts.                                       *)
LEMMA InsertOK ==
    ASSUME TypeOK, cur # None, NEW s \in BOOLEAN, InsertUnknown(ActKey, s), Instr.op \in {"lookup", "subsume"},
           Instr.fn \in Con, UNCHANGED <<dels, uns, meaning>>
    PROVE  /\ nextId' \in 0 .. MaxId /\ nextId <= nextId' /\ nextId \in Nat /\ nextId' \in Nat
           /\ PredictedOK' /\ StagedOK' /\ den' \in [Id -> Dom]
           /\ KnownVal(ActKey) \in Id /\ Below(KnownVal(ActKey), nextId')
  <1> DEFINE k == ActKey
             w == cur.worker
  <1> USE ValuesAssumption
  <1>1. k \in Key /\ Known(k[2]) /\ k[1] \in Con /\ w \in Worker /\ k[2] \in Value
    BY ActFacts
  <1>2. ValueOf(k[1]) = Id
    BY <1>1 DEF ValueOf, Con
  <1>3. nextId \in Nat /\ nextId \in 0 .. MaxId
    BY DEF TypeOK, LeadersOK
  <1>4. CASE rows[k] # None \/ predicted[w][k] # None
    <2>1. UNCHANGED <<nextId, ins, predicted, den>>
      BY <1>4 DEF InsertUnknown
    <2>2. PredictedOK' /\ StagedOK' /\ den' \in [Id -> Dom]
      BY <2>1 DEF TypeOK, PredictedOK, StagedOK, ControlOK, GoodFact, Known
    <2>3. KnownVal(k) \in Id /\ Known(KnownVal(k))
      BY <1>1, <1>2, <1>4 DEF KnownVal, TypeOK, RowsOK, PredictedOK, GoodFact
    <2> QED
      BY <1>3, <2>1, <2>2, <2>3, Belows
  <1>5. CASE rows[k] = None /\ predicted[w][k] = None
    <2>1. /\ nextId < MaxId /\ nextId' = nextId + 1
          /\ ins' = ins \cup {Stage(k, nextId, s)}
          /\ predicted' = [predicted EXCEPT ![w][k] = nextId]
          /\ den' = [den EXCEPT ![nextId] = meaning[<<k[1], Den(k[2])>>]]
      BY <1>5 DEF InsertUnknown
    <2>2. nextId \in Id /\ nextId' \in 0 .. MaxId /\ nextId <= nextId' /\ nextId' \in Nat
      BY <1>3, <2>1 DEF Id
    <2>3. FactBelow(k, nextId, nextId')
      BY <1>1, <1>2, <1>3, <2>1, <2>2, KnownGrows DEF FactBelow, Below
    <2>4. StagedOK'
      <3>1. \A x \in ins : x \in [key : Key, val : Value, sub : BOOLEAN] /\ FactBelow(x.key, x.val, nextId')
        BY <1>3, <2>2, KnownGrows DEF TypeOK, StagedOK
      <3>2. Stage(k, nextId, s) \in [key : Key, val : Value, sub : BOOLEAN]
        BY <1>1, <2>2 DEF Stage, Value
      <3>3. \A x \in ins' : x \in [key : Key, val : Value, sub : BOOLEAN] /\ FactBelow(x.key, x.val, nextId')
        BY <2>1, <2>3, <3>1, <3>2 DEF Stage
      <3>4. \A x \in uns' : x \in Id \X Id /\ Below(x[1], nextId') /\ Below(x[2], nextId')
        BY <1>3, <2>2, KnownGrows DEF TypeOK, StagedOK
      <3>5. dels' \subseteq Key
        BY DEF TypeOK, StagedOK
      <3> QED
        BY <3>3, <3>4, <3>5, BelowsNext DEF StagedOK
    <2>5. PredictedOK'
      <3>1. predicted' \in [Worker -> [Key -> {None} \cup Id]]
        BY <1>1, <2>1, <2>2 DEF TypeOK, PredictedOK
      <3>2. \A x \in Worker, y \in Key : predicted[x][y] # None => FactBelow(y, predicted[x][y], nextId')
        BY <1>3, <2>2, KnownGrows DEF TypeOK, PredictedOK
      <3>3. \A x \in Worker, y \in Key :
               predicted'[x][y] = IF x = w /\ y = k THEN nextId ELSE predicted[x][y]
        BY <1>1, <2>1 DEF TypeOK, PredictedOK
      <3>4. \A x \in Worker, y \in Key : predicted'[x][y] # None => FactBelow(y, predicted'[x][y], nextId')
        BY <2>3, <3>2, <3>3
      <3> QED
        BY <3>1, <3>4, BelowsNext DEF PredictedOK
    <2>6. den' \in [Id -> Dom]
      <3>1. <<k[1], Den(k[2])>> \in Term
        BY <1>1 DEF Term, Den, Value, TypeOK, ControlOK
      <3>2. meaning \in [Term -> Dom] /\ den \in [Id -> Dom]
        BY DEF TypeOK, ControlOK
      <3> QED
        BY <2>1, <3>1, <3>2
    <2> QED
      BY <1>3, <1>5, <2>1, <2>2, <2>4, <2>5, <2>6 DEF KnownVal, Below
  <1> QED
    BY <1>4, <1>5

(* What a step leaves alone keeps its types, also when ids are handed out.       *)
LEMMA Keep ==
    ASSUME TypeOK, nextId' \in 0 .. MaxId, nextId <= nextId'
    PROVE  /\ leader' = leader => LeadersOK'
           /\ rows' = rows => RowsOK'
           /\ UNCHANGED <<todo, cur>> => MatchesOK'
           /\ UNCHANGED staged => StagedOK'
           /\ predicted' = predicted => PredictedOK'
  <1>1. nextId \in Nat /\ nextId' \in Nat
    BY ValuesAssumption DEF TypeOK, LeadersOK
  <1>2. leader' = leader => LeadersOK'
    BY <1>1, ValuesAssumption DEF TypeOK, LeadersOK, Id
  <1>3. rows' = rows => RowsOK'
    BY <1>1, KnownGrows, BelowsNext DEF TypeOK, RowsOK
  <1>4. ASSUME UNCHANGED <<todo, cur>> PROVE MatchesOK'
    <2>1. \A m \in todo' : /\ m \in [rule : RuleName, env : {m.env}]
                           /\ EnvBelow(m.rule, m.env, Scope(m.rule, 1), nextId')
      BY <1>1, <1>4, KnownGrows DEF TypeOK, MatchesOK
    <2>2. cur' # None =>
             /\ cur' \in [rule : RuleName, env : {cur'.env}, worker : Worker, at : DOMAIN Acts(cur'.rule)]
             /\ EnvBelow(cur'.rule, cur'.env, Scope(cur'.rule, cur'.at), nextId')
      BY <1>1, <1>4, KnownGrows DEF TypeOK, MatchesOK
    <2> QED
      BY <2>1, <2>2 DEF MatchesOK, GoodEnv, EnvBelow, Known, Below
  <1>5. UNCHANGED staged => StagedOK'
    BY <1>1, KnownGrows, BelowsNext DEF TypeOK, StagedOK, staged
  <1>6. predicted' = predicted => PredictedOK'
    BY <1>1, KnownGrows, BelowsNext DEF TypeOK, PredictedOK
  <1> QED
    BY <1>2, <1>3, <1>4, <1>5, <1>6

LEMMA Same == TypeOK => nextId \in 0 .. MaxId /\ nextId \in Nat /\ nextId <= nextId
  BY ValuesAssumption DEF TypeOK, LeadersOK

LEMMA StageOK ==
    ASSUME TypeOK, nextId' \in 0 .. MaxId, nextId <= nextId', UNCHANGED <<dels, uns>>,
           \A s \in ins' \ ins : s \in [key : Key, val : Value, sub : BOOLEAN] /\ FactBelow(s.key, s.val, nextId')
    PROVE  StagedOK'
  <1>1. nextId \in Nat /\ nextId' \in Nat
    BY ValuesAssumption DEF TypeOK, LeadersOK
  <1>2. \A s \in ins' : s \in [key : Key, val : Value, sub : BOOLEAN] /\ FactBelow(s.key, s.val, nextId')
    BY <1>1, KnownGrows DEF TypeOK, StagedOK
  <1>3. \A p \in uns' : p \in Id \X Id /\ Below(p[1], nextId') /\ Below(p[2], nextId')
    BY <1>1, KnownGrows DEF TypeOK, StagedOK
  <1> QED
    BY <1>2, <1>3, BelowsNext DEF StagedOK, TypeOK

(* The rest of the state: what the control of a step must keep to be well-typed. *)
LEMMA ControlKept ==
    ASSUME TypeOK, UNCHANGED <<meaning, den>>, now' \in Nat, lastRun' \in [RuleName -> Nat],
           seen' \in [Fn -> SUBSET Id], pc' \in {"idle", "act", "merge", "rebuild", "pass"},
           caller' \in {"run", "flush"}, changed' \in BOOLEAN, grew' \in BOOLEAN,
           panicked' \in BOOLEAN, stop' \in BOOLEAN, unbuilt' \in BOOLEAN
    PROVE  ControlOK'
  <1>1. meaning' \in Meanings /\ den' \in [Id -> Dom]
    BY DEF TypeOK, ControlOK
  <1>2. {changed', grew', panicked', stop', unbuilt'} \subseteq BOOLEAN
    OBVIOUS
  <1> QED
    BY <1>1, <1>2 DEF ControlOK

LEMMA Controls ==
    ASSUME TypeOK
    PROVE  /\ now \in Nat /\ lastRun \in [RuleName -> Nat] /\ seen \in [Fn -> SUBSET Id]
           /\ pc \in {"idle", "act", "merge", "rebuild", "pass"} /\ caller \in {"run", "flush"}
           /\ changed \in BOOLEAN /\ grew \in BOOLEAN /\ panicked \in BOOLEAN
           /\ stop \in BOOLEAN /\ unbuilt \in BOOLEAN
  BY DEF TypeOK, ControlOK

LEMMA MatchesFound ==
    ASSUME TypeOK, NEW r \in RuleName, NEW e \in Matches(r)
    PROVE  GoodEnv(r, e, Scope(r, 1))
  <1>1. e \in Envs(r) /\ \A i \in DOMAIN Atoms(r) : \E t \in {0} :
           KeyOf(Atoms(r)[i], e) \in Key /\ rows[KeyOf(Atoms(r)[i], e)] # None
           /\ rows[KeyOf(Atoms(r)[i], e)].val = e[Atoms(r)[i].val]
    <2>1. CASE e \in Envs(r) /\ NaiveMatch(r, e)
      BY <2>1 DEF NaiveMatch, Holds
    <2>2. CASE e \in Envs(r) /\ \E f \in Focuses(r) : FocusMatch(r, f, e)
      <3>1. PICK f \in Focuses(r) : FocusMatch(r, f, e)
        BY <2>2
      <3>2. \A i \in DOMAIN Atoms(r) : \/ i = f
                                       \/ i # f /\ i < f
                                       \/ i # f /\ ~(i < f)
        OBVIOUS
      <3> QED
        BY <2>2, <3>1, <3>2 DEF FocusMatch, Holds
    <2> QED
      BY <2>1, <2>2 DEF Matches
  <1>2. Scope(r, 1) = Vars(r) \cup DOMAIN Consts(r)
    BY ScopeStarts
  <1>3. e \in [Scope(r, 1) -> Value] /\ DOMAIN e = Scope(r, 1)
    BY <1>1, <1>2 DEF Envs
  <1>4. \A n \in Scope(r, 1) : e[n] \in Of(Type(r, n))
    BY <1>1, <1>3 DEF Envs
  <1>5. \A i \in DOMAIN Atoms(r) : Known(e[Atoms(r)[i].arg]) /\ Known(e[Atoms(r)[i].val])
    BY <1>1 DEF KeyOf, TypeOK, RowsOK, GoodFact
  <1>6. \A n \in Vars(r) : Known(e[n])
    BY <1>5 DEF Vars
  <1>7. \A c \in DOMAIN Consts(r) : Known(e[c])
    <2> SUFFICES ASSUME NEW c \in DOMAIN Consts(r) PROVE Known(e[c])
      OBVIOUS
    <2>1. e[c] = Consts(r)[c] /\ Consts(r)[c] \in Lit
      BY <1>1, RuleFacts DEF Envs
    <2> QED
      BY <2>1, ValuesAssumption DEF Known
  <1> QED
    BY <1>2, <1>3, <1>4, <1>6, <1>7 DEF GoodEnv

LEMMA NewStage ==
    ASSUME NEW k \in Key, NEW v \in Value
    PROVE  [key |-> k, val |-> v, sub |-> FALSE] \in [key : Key, val : Value, sub : BOOLEAN]
  OBVIOUS

LEMMA TypesOfAddTerm ==
    ASSUME TypeOK, NEW k \in Key, AddTerm(k)
    PROVE  TypeOK'
  <1> USE ValuesAssumption
  <1>0. nextId \in 0 .. MaxId /\ nextId \in Nat
    BY Same
  <1>1. /\ k[1] \in Input \ NoMerge /\ Known(k[2]) /\ nextId < MaxId
        /\ nextId' = nextId + 1 /\ ins' = {Stage(k, nextId, FALSE)}
        /\ den' = [den EXCEPT ![nextId] = meaning[<<k[1], Den(k[2])>>]]
        /\ pc' = "merge" /\ caller' = "flush" /\ changed' = FALSE /\ grew' = FALSE
        /\ UNCHANGED <<leader, rows, seen, now, lastRun, dels, uns, todo, cur, predicted, stop,
                       meaning, unbuilt, panicked>>
    BY DEF AddTerm, running
  <1>2. nextId \in Id /\ nextId' \in 0 .. MaxId /\ nextId <= nextId' /\ nextId' \in Nat
    BY <1>0, <1>1 DEF Id
  <1>3. k[1] \in Con /\ k[2] \in Value
    BY <1>1 DEF Key, Con, Value
  <1>4. FactBelow(k, nextId, nextId')
    BY <1>0, <1>1, <1>2, <1>3, KnownGrows DEF FactBelow, ValueOf, Con, Below
  <1>5. nextId \in Value
    BY <1>2 DEF Value
  <1>6. \A s \in ins' : s \in [key : Key, val : Value, sub : BOOLEAN] /\ FactBelow(s.key, s.val, nextId')
    <2>1. ins' = {[key |-> k, val |-> nextId, sub |-> FALSE]}
      BY <1>1 DEF Stage
    <2>2. \A s \in ins' : s.key = k /\ s.val = nextId
      BY <2>1
    <2>3. \A s \in ins' : s \in [key : Key, val : Value, sub : BOOLEAN]
      BY <1>5, <2>1, NewStage
    <2> QED
      BY <1>4, <2>2, <2>3
  <1>7. StagedOK'
    BY <1>1, <1>2, <1>6, StageOK
  <1>8. <<k[1], Den(k[2])>> \in Term
    BY <1>3 DEF Term, Den, Value, TypeOK, ControlOK
  <1>9. meaning \in [Term -> Dom] /\ den \in [Id -> Dom] /\ meaning \in Meanings
    BY DEF TypeOK, ControlOK
  <1>10. den' \in [Id -> Dom]
    BY <1>1, <1>8, <1>9
  <1>11. {changed', grew', panicked', stop', unbuilt'} \subseteq BOOLEAN
    BY <1>1, Controls
  <1>12. ControlOK'
    BY <1>1, <1>9, <1>10, <1>11, Controls DEF ControlOK
  <1> QED
    BY <1>1, <1>2, <1>7, <1>12, Keep DEF TypeOK

LEMMA TypesOfAddValues ==
    ASSUME TypeOK, NEW new \in Batches, AddValues(new)
    PROVE  TypeOK'
  <1> USE ValuesAssumption
  <1>0. nextId \in 0 .. MaxId /\ nextId \in Nat
    BY Same
  <1>1. /\ \A f \in new : Known(f.key[2]) /\ Known(f.val)
        /\ ins' = {Stage(f.key, f.val, FALSE) : f \in new}
        /\ pc' = "merge" /\ caller' = "flush" /\ changed' = FALSE /\ grew' = FALSE
        /\ UNCHANGED <<leader, rows, seen, now, nextId, lastRun, dels, uns, todo, cur, predicted,
                       stop, meaning, den, unbuilt, panicked>>
    BY DEF AddValues, running, egraph
  <1>2. \A f \in new : f \in Rows
    BY DEF Batches
  <1>3. \A f \in new : f.key \in Key /\ f.val \in ValueOf(f.key[1]) /\ f.val \in Value
    BY <1>2 DEF Rows, Fact, ValueOf, Value
  <1>4. \A f \in new : FactBelow(f.key, f.val, nextId')
    BY <1>0, <1>1, <1>3, Belows DEF FactBelow
  <1>5. \A s \in ins' : s \in [key : Key, val : Value, sub : BOOLEAN] /\ FactBelow(s.key, s.val, nextId')
    <2>1. ins' = {[key |-> f.key, val |-> f.val, sub |-> FALSE] : f \in new}
      BY <1>1 DEF Stage
    <2>2. \A s \in ins' : \E f \in new : s.key = f.key /\ s.val = f.val
      BY <2>1
    <2>3. \A f \in new : [key |-> f.key, val |-> f.val, sub |-> FALSE] \in [key : Key, val : Value, sub : BOOLEAN]
      BY <1>3, NewStage
    <2>4. \A s \in ins' : s \in [key : Key, val : Value, sub : BOOLEAN]
      BY <2>1, <2>3
    <2> QED
      BY <1>4, <2>2, <2>4
  <1>6. StagedOK'
    <2>1. nextId' \in 0 .. MaxId /\ nextId <= nextId' /\ UNCHANGED <<dels, uns>>
      BY <1>0, <1>1
    <2> QED
      BY <1>5, <2>1, StageOK
  <1>7. ControlOK'
    BY <1>1, Controls, ControlKept
  <1> QED
    BY <1>0, <1>1, <1>6, <1>7, Keep DEF TypeOK

LEMMA TypesOfRunRules ==
    ASSUME TypeOK, NEW rs \in Schedules, RunRules(rs)
    PROVE  TypeOK'
  <1> USE ValuesAssumption
  <1>0. nextId \in 0 .. MaxId /\ nextId \in Nat
    BY Same
  <1>1. /\ todo' = UNION {{[rule |-> r, env |-> e] : e \in Matches(r)} : r \in rs}
        /\ lastRun' = [r \in RuleName |-> IF r \in rs THEN now ELSE lastRun[r]]
        /\ pc' = "act" /\ caller' = "run" /\ stop' = FALSE /\ changed' = FALSE /\ grew' = FALSE
        /\ UNCHANGED <<leader, rows, seen, now, nextId, ins, dels, uns, cur, predicted, meaning,
                       den, unbuilt, panicked>>
    BY DEF RunRules, staged, history
  <1>2. rs \subseteq RuleName
    OBVIOUS
  <1>3. \A r \in RuleName : \A e \in Matches(r) : EnvBelow(r, e, Scope(r, 1), nextId')
    BY <1>1, MatchesFound, Belows
  <1>4. \A m \in todo' : /\ m \in [rule : RuleName, env : {m.env}]
                         /\ EnvBelow(m.rule, m.env, Scope(m.rule, 1), nextId')
    BY <1>1, <1>2, <1>3
  <1>5. cur' # None =>
           /\ cur' \in [rule : RuleName, env : {cur'.env}, worker : Worker, at : DOMAIN Acts(cur'.rule)]
           /\ EnvBelow(cur'.rule, cur'.env, Scope(cur'.rule, cur'.at), nextId')
    BY <1>0, <1>1, KnownGrows DEF TypeOK, MatchesOK
  <1>6. MatchesOK'
    BY <1>4, <1>5 DEF MatchesOK, GoodEnv, EnvBelow, Known, Below
  <1>7. lastRun' \in [RuleName -> Nat]
    BY <1>1, Controls
  <1>8. ControlOK'
    BY <1>1, <1>7, Controls, ControlKept
  <1> QED
    BY <1>0, <1>1, <1>6, <1>8, Keep DEF TypeOK, staged

LEMMA TypesOfPick ==
    ASSUME TypeOK, NEW m \in todo, NEW w \in Worker, PickMatch(m, w)
    PROVE  TypeOK'
  <1>1. /\ todo' = todo \ {m} /\ cur' = [rule |-> m.rule, env |-> m.env, worker |-> w, at |-> 1]
        /\ UNCHANGED <<leader, rows, seen, now, nextId, lastRun, ins, dels, uns, predicted, stop,
                       meaning, den, unbuilt, pc, caller, changed, grew, panicked>>
    BY DEF PickMatch, egraph, staged, history
  <1>2. nextId' \in 0 .. MaxId /\ nextId <= nextId'
    BY <1>1, Same
  <1>3. \A x \in todo : /\ x \in [rule : RuleName, env : {x.env}]
                        /\ GoodEnv(x.rule, x.env, Scope(x.rule, 1))
    BY DEF TypeOK, MatchesOK
  <1>4. \A x \in todo' : /\ x \in [rule : RuleName, env : {x.env}]
                         /\ EnvBelow(x.rule, x.env, Scope(x.rule, 1), nextId')
    BY <1>1, <1>3, Belows
  <1>5. m.rule \in RuleName /\ 1 \in DOMAIN Acts(m.rule)
    BY <1>3, RuleFacts
  <1>6. cur' \in [rule : RuleName, env : {cur'.env}, worker : Worker, at : DOMAIN Acts(cur'.rule)]
    BY <1>1, <1>5
  <1>7. EnvBelow(cur'.rule, cur'.env, Scope(cur'.rule, cur'.at), nextId')
    BY <1>1, <1>3, Belows
  <1>8. MatchesOK'
    BY <1>4, <1>6, <1>7 DEF MatchesOK, GoodEnv, EnvBelow, Known, Below
  <1>9. ControlOK'
    BY <1>1, Controls, ControlKept
  <1> QED
    BY <1>1, <1>2, <1>8, <1>9, Keep DEF TypeOK, staged

(* A match that halts leaves none; the search ends with none as well.            *)
LEMMA HaltOK ==
    ASSUME TypeOK, nextId' \in Nat, nextId <= nextId', cur' = None, todo' \subseteq todo
    PROVE  MatchesOK'
  <1>1. \A x \in todo' : /\ x \in [rule : RuleName, env : {x.env}]
                         /\ EnvBelow(x.rule, x.env, Scope(x.rule, 1), nextId')
    BY KnownGrows, Same DEF TypeOK, MatchesOK
  <1> QED
    BY <1>1 DEF MatchesOK, GoodEnv, EnvBelow, Known, Below

LEMMA TypesOfStopEarly ==
    ASSUME TypeOK, StopEarly
    PROVE  TypeOK'
  <1>1. /\ todo' = {} /\ cur' = None /\ cur = None
        /\ UNCHANGED <<leader, rows, seen, now, nextId, lastRun, ins, dels, uns, predicted, stop,
                       meaning, den, unbuilt, pc, caller, changed, grew, panicked>>
    BY DEF StopEarly, egraph, staged
  <1>2. nextId' \in 0 .. MaxId /\ nextId <= nextId' /\ nextId' \in Nat
    BY <1>1, Same
  <1>3. MatchesOK'
    BY <1>1, <1>2, HaltOK
  <1>4. ControlOK'
    BY <1>1, Controls, ControlKept
  <1> QED
    BY <1>1, <1>2, <1>3, <1>4, Keep DEF TypeOK, staged

LEMMA TypesOfLookup ==
    ASSUME TypeOK, DoLookup
    PROVE  TypeOK'
  <1>1. /\ cur # None /\ Instr.op = "lookup" /\ Instr.fn \notin NoMerge
        /\ InsertUnknown(ActKey, FALSE) /\ Proceed(Bind(Instr.val, KnownVal(ActKey)))
        /\ UNCHANGED <<leader, rows, seen, now, lastRun, dels, uns, todo, stop, meaning, unbuilt,
                       pc, caller, changed, grew, panicked>>
    BY DEF DoLookup, Act
  <1>2. Instr.fn \in Con
    BY <1>1, ActFacts DEF Con
  <1>3. /\ nextId' \in 0 .. MaxId /\ nextId <= nextId' /\ nextId' \in Nat
        /\ PredictedOK' /\ StagedOK' /\ den' \in [Id -> Dom]
        /\ KnownVal(ActKey) \in Id /\ Below(KnownVal(ActKey), nextId')
    BY <1>1, <1>2, InsertOK
  <1>4. KnownVal(ActKey) \in ValueOf(Instr.fn)
    BY <1>1, <1>3 DEF ValueOf
  <1>5. MatchesOK'
    BY <1>1, <1>3, <1>4, BindOK
  <1>6. meaning' \in Meanings /\ {changed', grew', panicked', stop', unbuilt'} \subseteq BOOLEAN
    BY <1>1, Controls DEF TypeOK, ControlOK
  <1>7. ControlOK'
    BY <1>1, <1>3, <1>6, Controls DEF ControlOK
  <1> QED
    BY <1>1, <1>3, <1>5, <1>7, Keep DEF TypeOK

LEMMA TypesOfGet ==
    ASSUME TypeOK, DoGet
    PROVE  TypeOK'
  <1>1. /\ cur # None /\ Instr.op = "lookup"
        /\ \/ rows[ActKey] # None /\ Proceed(Bind(Instr.val, rows[ActKey].val)) /\ UNCHANGED <<stop, panicked>>
           \/ cur' = None /\ stop' = TRUE /\ panicked' = TRUE
        /\ UNCHANGED <<leader, rows, seen, now, nextId, lastRun, ins, dels, uns, todo, predicted,
                       meaning, den, unbuilt, pc, caller, changed, grew>>
    BY DEF DoGet, Act, Halt, egraph, staged
  <1>2. nextId' \in 0 .. MaxId /\ nextId <= nextId' /\ nextId' \in Nat /\ UNCHANGED todo
    BY <1>1, Same
  <1>3. ASSUME rows[ActKey] # None, Proceed(Bind(Instr.val, rows[ActKey].val)) PROVE MatchesOK'
    <2>1. ActKey \in Key /\ ActKey[1] = Instr.fn
      BY <1>1, ActFacts
    <2>2. GoodFact(ActKey, rows[ActKey].val)
      BY <1>3, <2>1 DEF TypeOK, RowsOK
    <2>3. rows[ActKey].val \in ValueOf(Instr.fn) /\ Below(rows[ActKey].val, nextId')
      BY <1>1, <2>1, <2>2, Belows DEF GoodFact
    <2> DEFINE v == rows[ActKey].val
    <2>4. cur # None /\ Instr.op = "lookup" /\ Proceed(Bind(Instr.val, v))
      BY <1>1, <1>3
    <2> HIDE DEF v
    <2> QED
      BY <1>2, <2>3, <2>4, BindOK DEF v
  <1>4. cur' = None => MatchesOK'
    BY <1>2, HaltOK
  <1>5. (rows[ActKey] # None /\ Proceed(Bind(Instr.val, rows[ActKey].val))) \/ cur' = None
    BY <1>1
  <1>6. MatchesOK'
    BY <1>3, <1>4, <1>5
  <1>7. ControlOK'
    BY <1>1, Controls, ControlKept
  <1> QED
    BY <1>1, <1>2, <1>6, <1>7, Keep DEF TypeOK, staged

LEMMA TypesOfSet ==
    ASSUME TypeOK, DoSet
    PROVE  TypeOK'
  <1> DEFINE v == cur.env[Instr.val]
  <1>1. /\ cur # None /\ Instr.op = "set" /\ Done /\ ins' = ins \cup {Stage(ActKey, v, FALSE)}
        /\ UNCHANGED <<leader, rows, seen, now, nextId, lastRun, dels, uns, todo, predicted, stop,
                       meaning, den, unbuilt, pc, caller, changed, grew, panicked>>
    BY DEF DoSet, Act, egraph
  <1>2. nextId' \in 0 .. MaxId /\ nextId <= nextId' /\ nextId' \in Nat
    BY <1>1, Same
  <1>3. MatchesOK'
    BY <1>1, <1>2, DoneOK
  <1>4. ActKey \in Key /\ Known(ActKey[2]) /\ v \in Value /\ Known(v) /\ v \in ValueOf(ActKey[1])
    BY <1>1, ActFacts
  <1>5. FactBelow(ActKey, v, nextId')
    BY <1>1, <1>4, Belows DEF FactBelow
  <1>6. \A s \in ins' \ ins : s = [key |-> ActKey, val |-> v, sub |-> FALSE]
    BY <1>1 DEF Stage
  <1>7. [key |-> ActKey, val |-> v, sub |-> FALSE] \in [key : Key, val : Value, sub : BOOLEAN]
    BY <1>4, NewStage
  <1>8. \A s \in ins' \ ins : s \in [key : Key, val : Value, sub : BOOLEAN] /\ s.key = ActKey /\ s.val = v
    <2>1. \A s \in ins' \ ins : s \in [key : Key, val : Value, sub : BOOLEAN]
      BY <1>6, <1>7
    <2>2. \A s \in ins' \ ins : s.key = ActKey /\ s.val = v
      BY <1>6
    <2> QED
      BY <2>1, <2>2
  <1>9. \A s \in ins' \ ins : s \in [key : Key, val : Value, sub : BOOLEAN] /\ FactBelow(s.key, s.val, nextId')
    BY <1>5, <1>8
  <1>10. StagedOK'
    <2>1. UNCHANGED <<dels, uns>>
      BY <1>1
    <2> QED
      BY <1>2, <1>9, <2>1, StageOK
  <1>11. ControlOK'
    BY <1>1, Controls, ControlKept
  <1> QED
    BY <1>1, <1>2, <1>3, <1>10, <1>11, Keep DEF TypeOK

LEMMA TypesOfUnion ==
    ASSUME TypeOK, DoUnion
    PROVE  TypeOK'
  <1> DEFINE v == cur.env[Instr.val]
  <1>1. /\ cur # None /\ Instr.op = "union" /\ Done /\ uns' = uns \cup {<<Arg, v>>}
        /\ UNCHANGED <<leader, rows, seen, now, nextId, lastRun, ins, dels, todo, predicted, stop,
                       meaning, den, unbuilt, pc, caller, changed, grew, panicked>>
    BY DEF DoUnion, Act, egraph
  <1>2. nextId' \in 0 .. MaxId /\ nextId <= nextId' /\ nextId' \in Nat
    BY <1>1, Same
  <1>3. MatchesOK'
    BY <1>1, <1>2, DoneOK
  <1>4. Arg \in Id /\ v \in Id /\ Below(Arg, nextId') /\ Below(v, nextId')
    BY <1>1, ActFacts, Belows
  <1>5. \A p \in uns' : p \in Id \X Id /\ Below(p[1], nextId') /\ Below(p[2], nextId')
    BY <1>1, <1>4, Belows DEF TypeOK, StagedOK
  <1>6. \A s \in ins' : s \in [key : Key, val : Value, sub : BOOLEAN] /\ FactBelow(s.key, s.val, nextId')
    BY <1>1, Belows DEF TypeOK, StagedOK
  <1>7. StagedOK'
    BY <1>1, <1>5, <1>6, BelowsNext DEF TypeOK, StagedOK
  <1>8. ControlOK'
    BY <1>1, Controls, ControlKept
  <1> QED
    BY <1>1, <1>2, <1>3, <1>7, <1>8, Keep DEF TypeOK

LEMMA TypesOfRemove ==
    ASSUME TypeOK, DoRemove
    PROVE  TypeOK'
  <1>1. /\ cur # None /\ Instr.op = "remove" /\ Done /\ dels' = dels \cup {ActKey}
        /\ UNCHANGED <<leader, rows, seen, now, nextId, lastRun, ins, uns, todo, predicted, stop,
                       meaning, den, unbuilt, pc, caller, changed, grew, panicked>>
    BY DEF DoRemove, Act, egraph
  <1>2. nextId' \in 0 .. MaxId /\ nextId <= nextId' /\ nextId' \in Nat
    BY <1>1, Same
  <1>3. MatchesOK'
    BY <1>1, <1>2, DoneOK
  <1>4. dels' \subseteq Key
    BY <1>1, ActFacts DEF TypeOK, StagedOK
  <1>5. StagedOK'
    BY <1>1, <1>4, Belows, BelowsNext DEF TypeOK, StagedOK
  <1>6. ControlOK'
    BY <1>1, Controls, ControlKept
  <1> QED
    BY <1>1, <1>2, <1>3, <1>5, <1>6, Keep DEF TypeOK

LEMMA TypesOfSubsume ==
    ASSUME TypeOK, DoSubsume
    PROVE  TypeOK'
  <1>1. /\ cur # None /\ Instr.op = "subsume"
        /\ UNCHANGED <<leader, rows, seen, now, lastRun, dels, uns, todo, stop, meaning, unbuilt,
                       pc, caller, changed, grew, panicked>>
    BY DEF DoSubsume, Act
  <1>2. Instr.fn \in Con /\ ActKey \in Key
    BY <1>1, ActFacts
  <1>3. /\ nextId' \in 0 .. MaxId /\ nextId <= nextId' /\ nextId' \in Nat /\ MatchesOK' /\ PredictedOK'
        /\ StagedOK' /\ den' \in [Id -> Dom]
    <2>1. CASE rows[ActKey] = None
      <3>1. InsertUnknown(ActKey, TRUE) /\ cur' = None
        BY <2>1 DEF DoSubsume, Halt
      <3>2. /\ nextId' \in 0 .. MaxId /\ nextId <= nextId' /\ nextId' \in Nat
            /\ PredictedOK' /\ StagedOK' /\ den' \in [Id -> Dom]
        BY <1>1, <1>2, <3>1, InsertOK
      <3> QED
        BY <1>1, <3>1, <3>2, HaltOK
    <2>2. CASE rows[ActKey] # None
      <3> DEFINE old == rows[ActKey]
      <3>1. /\ ins' = ins \/ ins' = ins \cup {Stage(ActKey, old.val, TRUE)}
            /\ Done /\ UNCHANGED <<nextId, predicted, den>>
        BY <2>2 DEF DoSubsume
      <3>2. nextId' \in 0 .. MaxId /\ nextId <= nextId' /\ nextId' \in Nat
        BY <3>1, Same
      <3>3. GoodFact(ActKey, old.val) /\ old.val \in Value
        BY <1>2, <2>2, ValuesAssumption DEF TypeOK, RowsOK, GoodFact, ValueOf, Value
      <3>4. FactBelow(ActKey, old.val, nextId')
        BY <3>1, <3>3, Belows
      <3>5. \A s \in ins' \ ins : s = [key |-> ActKey, val |-> old.val, sub |-> TRUE]
        BY <3>1 DEF Stage
      <3>6. [key |-> ActKey, val |-> old.val, sub |-> TRUE] \in [key : Key, val : Value, sub : BOOLEAN]
        BY <1>2, <3>3
      <3>7. \A s \in ins' \ ins : s \in [key : Key, val : Value, sub : BOOLEAN] /\ s.key = ActKey /\ s.val = old.val
        <4>1. \A s \in ins' \ ins : s \in [key : Key, val : Value, sub : BOOLEAN]
          BY <3>5, <3>6
        <4>2. \A s \in ins' \ ins : s.key = ActKey /\ s.val = old.val
          BY <3>5
        <4> QED
          BY <4>1, <4>2
      <3>8. \A s \in ins' \ ins : s \in [key : Key, val : Value, sub : BOOLEAN] /\ FactBelow(s.key, s.val, nextId')
        BY <3>4, <3>7
      <3>9. UNCHANGED <<dels, uns>>
        BY <1>1
      <3>10. StagedOK'
        BY <3>2, <3>8, <3>9, StageOK
      <3>11. MatchesOK' /\ PredictedOK' /\ den' \in [Id -> Dom]
        BY <1>1, <3>1, <3>2, DoneOK, Keep DEF TypeOK, ControlOK
      <3> QED
        BY <3>2, <3>10, <3>11
    <2> QED
      BY <2>1, <2>2
  <1>4. meaning' \in Meanings /\ {changed', grew', panicked', stop', unbuilt'} \subseteq BOOLEAN
    BY <1>1, Controls DEF TypeOK, ControlOK
  <1>5. ControlOK'
    BY <1>1, <1>3, <1>4, Controls DEF ControlOK
  <1> QED
    BY <1>1, <1>3, <1>5, Keep DEF TypeOK

LEMMA TypesOfPanic ==
    ASSUME TypeOK, DoPanic
    PROVE  TypeOK'
  <1>1. /\ cur' = None /\ stop' = TRUE /\ panicked' = TRUE
        /\ UNCHANGED <<leader, rows, seen, now, nextId, lastRun, ins, dels, uns, todo, predicted,
                       meaning, den, unbuilt, pc, caller, changed, grew>>
    BY DEF DoPanic, Halt, egraph, staged
  <1>2. nextId' \in 0 .. MaxId /\ nextId <= nextId' /\ nextId' \in Nat
    BY <1>1, Same
  <1>3. MatchesOK'
    BY <1>1, <1>2, HaltOK
  <1>4. ControlOK'
    BY <1>1, Controls, ControlKept
  <1> QED
    BY <1>1, <1>2, <1>3, <1>4, Keep DEF TypeOK, staged

LEMMA TypesOfEndSearch ==
    ASSUME TypeOK, EndSearch
    PROVE  TypeOK'
  <1>1. /\ pc' = "merge" /\ predicted' = [w \in Worker |-> [k \in Key |-> None]] /\ stop' = FALSE
        /\ UNCHANGED <<leader, rows, seen, now, nextId, lastRun, ins, dels, uns, todo, cur,
                       meaning, den, unbuilt, caller, changed, grew, panicked>>
    BY DEF EndSearch, egraph, staged, history
  <1>2. nextId' \in 0 .. MaxId /\ nextId <= nextId'
    BY <1>1, Same
  <1>3. PredictedOK'
    BY <1>1 DEF PredictedOK
  <1>4. ControlOK'
    BY <1>1, Controls, ControlKept
  <1> QED
    BY <1>1, <1>2, <1>3, <1>4, Keep DEF TypeOK, staged

LEMMA TypesOfRemovals ==
    ASSUME TypeOK, NEW f \in Fn, MergeRemovals(f)
    PROVE  TypeOK'
  <1> DEFINE gone == {k \in dels : k[1] = f}
  <1>1. /\ dels' = dels \ gone /\ rows' = [k \in Key |-> IF k \in gone THEN None ELSE rows[k]]
        /\ changed' \in BOOLEAN
        /\ UNCHANGED <<leader, seen, now, nextId, lastRun, ins, uns, todo, cur, predicted, stop,
                       meaning, den, unbuilt, pc, caller, grew, panicked>>
    BY Controls DEF MergeRemovals, running, history
  <1>2. nextId' \in 0 .. MaxId /\ nextId <= nextId'
    BY <1>1, Same
  <1>3. RowsOK'
    BY <1>1, Belows, BelowsNext DEF TypeOK, RowsOK
  <1>4. StagedOK'
    BY <1>1, Belows, BelowsNext DEF TypeOK, StagedOK
  <1>5. ControlOK'
    BY <1>1, Controls, ControlKept
  <1> QED
    BY <1>1, <1>2, <1>3, <1>4, <1>5, Keep DEF TypeOK

LEMMA NewRow ==
    ASSUME NEW v \in Value, NEW s \in BOOLEAN, NEW t \in Nat
    PROVE  /\ [val |-> v, sub |-> s, ts |-> t] \in [val : Value, sub : BOOLEAN, ts : Nat]
           /\ [val |-> v, sub |-> s, ts |-> t].val = v
  OBVIOUS

(* No row is None, so that a table's row tells that the key is there.            *)
LEMMA RowIsThere ==
    ASSUME TypeOK, NEW k \in Key, rows[k] # None
    PROVE  /\ rows[k] \in [val : Value, sub : BOOLEAN, ts : Nat]
           /\ FactBelow(k, rows[k].val, nextId) /\ rows[k].val \in ValueOf(k[1])
  BY Belows DEF TypeOK, RowsOK, GoodFact

LEMMA TypesOfRow ==
    ASSUME TypeOK, NEW s \in ins, MergeRow(s)
    PROVE  TypeOK'
  <1> DEFINE k == s.key
             old == rows[k]
             val == IF old = None THEN s.val ELSE MergedVal(k[1], old.val, s.val)
             sub == IF old = None THEN s.sub ELSE MergedSub(old.sub, s.sub)
  <1> USE ValuesAssumption
  <1>1. /\ ins' = ins \ {s}
        /\ rows' = rows \/ rows' = [rows EXCEPT ![k] = [val |-> val, sub |-> sub, ts |-> now]]
        /\ \/ uns' = uns
           \/ old # None /\ k[1] \notin NoMerge /\ uns' = uns \cup {<<old.val, s.val>>}
        /\ changed' \in BOOLEAN /\ panicked' \in BOOLEAN
        /\ UNCHANGED <<leader, seen, now, nextId, lastRun, dels, todo, cur, predicted, stop,
                       meaning, den, unbuilt, pc, caller, grew>>
    <2>1. /\ ins' = ins \ {s} /\ changed' \in BOOLEAN /\ panicked' \in BOOLEAN
          /\ UNCHANGED <<leader, seen, now, nextId, lastRun, dels, todo, cur, predicted, stop,
                         meaning, den, unbuilt, pc, caller, grew>>
      BY Controls DEF MergeRow, running, history
    <2>2. rows' = rows \/ rows' = [rows EXCEPT ![k] = [val |-> val, sub |-> sub, ts |-> now]]
      BY DEF MergeRow
    <2>3. \/ uns' = uns
          \/ old # None /\ k[1] \notin NoMerge /\ uns' = uns \cup {<<old.val, s.val>>}
      BY DEF MergeRow
    <2> QED
      BY <2>1, <2>2, <2>3
  <1>2. nextId' \in 0 .. MaxId /\ nextId <= nextId' /\ nextId' = nextId
    BY <1>1, Same
  <1>3. /\ k \in Key /\ s.val \in Value /\ s.sub \in BOOLEAN
        /\ s.val \in ValueOf(k[1]) /\ FactBelow(k, s.val, nextId')
    BY <1>2, Belows DEF TypeOK, StagedOK, GoodFact
  <1>4. old # None => /\ old.val \in Value /\ old.sub \in BOOLEAN
                      /\ old.val \in ValueOf(k[1]) /\ FactBelow(k, old.val, nextId')
    BY <1>2, <1>3, RowIsThere
  <1>5. val \in Value /\ sub \in BOOLEAN /\ val \in {s.val, old.val} /\ (old = None => val = s.val)
    BY <1>3, <1>4 DEF MergedVal, MergedSub
  <1>6. RowsOK'
    <2>1. CASE rows' = rows
      BY <1>1, <1>2, <2>1, Keep
    <2>2. CASE rows' = [rows EXCEPT ![k] = [val |-> val, sub |-> sub, ts |-> now]]
      <3> HIDE DEF val, sub
      <3>1. [val |-> val, sub |-> sub, ts |-> now] \in [val : Value, sub : BOOLEAN, ts : Nat]
        BY <1>5, Controls
      <3>2. rows' \in [Key -> {None} \cup [val : Value, sub : BOOLEAN, ts : Nat]]
        BY <2>2, <3>1 DEF TypeOK, RowsOK
      <3>3. FactBelow(k, val, nextId')
        BY <1>3, <1>4, <1>5
      <3>4. \A j \in Key : rows'[j] # None => FactBelow(j, rows'[j].val, nextId')
        <4> SUFFICES ASSUME NEW j \in Key, rows'[j] # None
                     PROVE  FactBelow(j, rows'[j].val, nextId')
          OBVIOUS
        <4>1. CASE j = k
          <5>1. rows'[j] = [val |-> val, sub |-> sub, ts |-> now]
            BY <2>2, <4>1 DEF TypeOK, RowsOK
          <5> QED
            BY <3>3, <4>1, <5>1
        <4>2. CASE j # k
          <5>1. rows'[j] = rows[j]
            BY <2>2, <4>2 DEF TypeOK, RowsOK
          <5> QED
            BY <1>2, <5>1, RowIsThere
        <4> QED
          BY <4>1, <4>2
      <3> QED
        BY <3>2, <3>4, BelowsNext DEF RowsOK
    <2> QED
      BY <1>1, <2>1, <2>2
  <1>7. StagedOK'
    <2>1. \A p \in uns' : p \in Id \X Id /\ Below(p[1], nextId') /\ Below(p[2], nextId')
      <3>1. \A p \in uns : p \in Id \X Id /\ Below(p[1], nextId') /\ Below(p[2], nextId')
        BY <1>2, Belows DEF TypeOK, StagedOK
      <3>2. old # None /\ k[1] \notin NoMerge =>
               old.val \in Id /\ s.val \in Id /\ Below(old.val, nextId') /\ Below(s.val, nextId')
        BY <1>3, <1>4 DEF ValueOf, FactBelow
      <3> QED
        BY <1>1, <3>1, <3>2
    <2>2. \A x \in ins' : x \in [key : Key, val : Value, sub : BOOLEAN] /\ FactBelow(x.key, x.val, nextId')
      BY <1>1, <1>2, Belows DEF TypeOK, StagedOK
    <2> QED
      BY <1>1, <2>1, <2>2, BelowsNext DEF TypeOK, StagedOK
  <1>8. ControlOK'
    BY <1>1, Controls, ControlKept
  <1> QED
    BY <1>1, <1>2, <1>6, <1>7, <1>8, Keep DEF TypeOK

(* The union of two classes, whose leader is the least of their ids.             *)
LEMMA UniteOK ==
    ASSUME LeadersOK, NEW x \in Id, NEW y \in Id, Known(x), Known(y), leader' = Unite(x, y), nextId' = nextId
    PROVE  LeadersOK'
  <1> DEFINE a == leader[x]
             b == leader[y]
             root == IF a < b THEN a ELSE b
  <1> USE ValuesAssumption DEF Id
  <1>1. a \in Id /\ b \in Id /\ a < nextId /\ b < nextId /\ leader[a] = a /\ leader[b] = b /\ nextId \in 0 .. MaxId
    BY DEF LeadersOK, Known
  <1>2. root \in {a, b} /\ root <= a /\ root <= b /\ root \in Id
    BY <1>1
  <1> HIDE DEF root
  <1>3. leader' = [i \in Id |-> IF leader[i] \in {a, b} THEN root ELSE leader[i]]
    BY DEF Unite, root
  <1>4. leader' \in [Id -> Id]
    BY <1>2, <1>3 DEF LeadersOK
  <1>5. \A i \in Id : leader'[i] <= i
    BY <1>1, <1>2, <1>3 DEF LeadersOK
  <1>6. \A i \in Id : leader'[leader'[i]] = leader'[i]
    BY <1>1, <1>2, <1>3 DEF LeadersOK
  <1>7. \A i \in Id : i >= nextId => leader'[i] = i
    BY <1>1, <1>2, <1>3 DEF LeadersOK
  <1> QED
    BY <1>1, <1>4, <1>5, <1>6, <1>7 DEF LeadersOK

LEMMA TypesOfMergeUnion ==
    ASSUME TypeOK, NEW p \in uns, MergeUnion(p)
    PROVE  TypeOK'
  <1>1. /\ uns' = uns \ {p}
        /\ leader' = leader \/ leader' = Unite(p[1], p[2])
        /\ changed' \in BOOLEAN /\ grew' \in BOOLEAN
        /\ UNCHANGED <<rows, seen, now, nextId, lastRun, ins, dels, todo, cur, predicted, stop,
                       meaning, den, unbuilt, pc, caller, panicked>>
    BY Controls DEF MergeUnion, running, history
  <1>2. nextId' \in 0 .. MaxId /\ nextId <= nextId' /\ nextId' = nextId
    BY <1>1, Same
  <1>3. LeadersOK'
    <2>1. p[1] \in Id /\ p[2] \in Id /\ Known(p[1]) /\ Known(p[2]) /\ LeadersOK
      BY DEF TypeOK, StagedOK
    <2>2. CASE leader' = leader
      BY <1>1, <1>2, <2>2, Keep
    <2>3. CASE leader' = Unite(p[1], p[2])
      BY <1>2, <2>1, <2>3, UniteOK
    <2> QED
      BY <1>1, <2>2, <2>3
  <1>4. StagedOK'
    BY <1>1, Belows, BelowsNext DEF TypeOK, StagedOK
  <1>5. ControlOK'
    BY <1>1, Controls, ControlKept
  <1> QED
    BY <1>1, <1>2, <1>3, <1>4, <1>5, Keep DEF TypeOK

LEMMA TypesOfEndMerge ==
    ASSUME TypeOK, EndMerge
    PROVE  TypeOK'
  <1>1. /\ pc' \in {"idle", "rebuild"} /\ now' \in Nat /\ changed' = FALSE /\ grew' = FALSE
        /\ panicked' \in BOOLEAN /\ unbuilt' \in BOOLEAN
        /\ UNCHANGED <<leader, rows, seen, nextId, lastRun, ins, dels, uns, todo, cur, predicted,
                       stop, meaning, den, caller>>
    <2>1. /\ changed' = FALSE /\ grew' = FALSE
          /\ UNCHANGED <<leader, rows, seen, nextId, lastRun, ins, dels, uns, todo, cur, predicted,
                         stop, meaning, den, caller>>
      BY DEF EndMerge, staged, running
    <2>2. pc' \in {"idle", "rebuild"} /\ now' \in Nat
      BY Controls DEF EndMerge
    <2>3. panicked' \in BOOLEAN /\ unbuilt' \in BOOLEAN
      <3>1. CASE caller = "run" /\ panicked
        BY <3>1, Controls DEF EndMerge
      <3>2. CASE ~(caller = "run" /\ panicked)
        BY <3>2, Controls DEF EndMerge
      <3> QED
        BY <3>1, <3>2
    <2> QED
      BY <2>1, <2>2, <2>3
  <1>2. nextId' \in 0 .. MaxId /\ nextId <= nextId'
    BY <1>1, Same
  <1>3. ControlOK'
    BY <1>1, Controls, ControlKept
  <1> QED
    BY <1>1, <1>2, <1>3, Keep DEF TypeOK, staged

LEMMA TypesOfEndPass ==
    ASSUME TypeOK, EndPass
    PROVE  TypeOK'
  <1>1. /\ pc' \in {"idle", "rebuild"} /\ now' \in Nat /\ changed' = FALSE /\ grew' = FALSE
        /\ panicked' \in BOOLEAN /\ unbuilt' \in BOOLEAN
        /\ UNCHANGED <<leader, rows, seen, nextId, lastRun, ins, dels, uns, todo, cur, predicted,
                       stop, meaning, den, caller>>
    BY Controls DEF EndPass, staged, running
  <1>2. nextId' \in 0 .. MaxId /\ nextId <= nextId'
    BY <1>1, Same
  <1>3. ControlOK'
    BY <1>1, Controls, ControlKept
  <1> QED
    BY <1>1, <1>2, <1>3, Keep DEF TypeOK, staged

(* The canonical form of a row is a row of the same table.                       *)
LEMMA FindsKey ==
    ASSUME TypeOK, NEW k \in Key, NEW v \in Value, GoodFact(k, v)
    PROVE  GoodFact(<<k[1], Find(k[2])>>, Find(v)) /\ Find(v) \in Value
  <1> DEFINE j == <<k[1], Find(k[2])>>
  <1>1. k = <<k[1], k[2]>> /\ k[2] \in Value /\ Known(k[2]) /\ Known(v) /\ LeadersOK
    <2>1. Known(k[2]) /\ Known(v) /\ LeadersOK
      BY DEF GoodFact, TypeOK
    <2>2. k = <<k[1], k[2]>> /\ k[2] \in Id \cup Lit
      BY DEF Key
    <2> QED
      BY <2>1, <2>2, ValuesAssumption DEF Value
  <1>2. /\ Known(Find(k[2])) /\ (k[2] \in Id => Find(k[2]) \in Id) /\ (k[2] \notin Id => Find(k[2]) = k[2])
        /\ Find(v) \in Value /\ Known(Find(v)) /\ (v \in Id => Find(v) \in Id) /\ (v \notin Id => Find(v) = v)
    BY <1>1, KnownFinds
  <1>3. j \in Key
    <2>1. Lit \cap Id = {}
      BY ValuesAssumption
    <2> QED
      BY <1>1, <1>2, <2>1 DEF Key
  <1>4. Find(v) \in ValueOf(k[1])
    <2>1. Base \cap Id = {}
      BY ValuesAssumption
    <2> QED
      BY <1>2, <2>1 DEF ValueOf, GoodFact
  <1> QED
    BY <1>2, <1>3, <1>4 DEF GoodFact

LEMMA TypesOfRebuild ==
    ASSUME TypeOK, NEW incremental \in SUBSET Fn, RebuildPass(incremental)
    PROVE  TypeOK'
  <1>1. /\ dels' = RebuiltKeys(incremental)
        /\ ins' = {Stage(<<k[1], Find(k[2])>>, Find(rows[k].val), rows[k].sub) : k \in dels'}
        /\ seen' = [f \in Fn |-> Displaced] /\ pc' = "pass"
        /\ UNCHANGED <<leader, rows, now, nextId, lastRun, uns, todo, cur, predicted, stop,
                       meaning, den, unbuilt, caller, changed, grew, panicked>>
    BY DEF RebuildPass, running, history
  <1>2. nextId' \in 0 .. MaxId /\ nextId <= nextId' /\ nextId' = nextId
    BY <1>1, Same
  <1>3. \A k \in dels' : k \in Key /\ rows[k] # None
    BY <1>1 DEF RebuiltKeys, Stale
  <1>4. \A k \in dels' : /\ GoodFact(<<k[1], Find(k[2])>>, Find(rows[k].val)) /\ Find(rows[k].val) \in Value
                         /\ rows[k].sub \in BOOLEAN
    BY <1>3, RowIsThere, FindsKey, Belows
  <1>5. \A k \in dels' : Stage(<<k[1], Find(k[2])>>, Find(rows[k].val), rows[k].sub)
                            \in [key : Key, val : Value, sub : BOOLEAN]
    BY <1>4 DEF Stage, GoodFact
  <1>6. \A s \in ins' : s \in [key : Key, val : Value, sub : BOOLEAN]
    BY <1>1, <1>5
  <1>7. \A s \in ins' : FactBelow(s.key, s.val, nextId')
    <2>1. \A k \in dels' : FactBelow(<<k[1], Find(k[2])>>, Find(rows[k].val), nextId')
      BY <1>2, <1>4, Belows
    <2>2. \A s \in ins' : \E k \in dels' : s.key = <<k[1], Find(k[2])>> /\ s.val = Find(rows[k].val)
      BY <1>1 DEF Stage
    <2> QED
      BY <2>1, <2>2
  <1>8. \A p \in uns' : p \in Id \X Id /\ Below(p[1], nextId') /\ Below(p[2], nextId')
    BY <1>1, <1>2, Belows DEF TypeOK, StagedOK
  <1>9. StagedOK'
    BY <1>3, <1>6, <1>7, <1>8, BelowsNext DEF StagedOK
  <1>10. seen' \in [Fn -> SUBSET Id]
    BY <1>1 DEF Displaced
  <1>11. ControlOK'
    BY <1>1, <1>10, Controls, ControlKept
  <1> QED
    BY <1>1, <1>2, <1>9, <1>11, Keep DEF TypeOK

LEMMA TypesKept == TypeOK /\ [Next]_vars => TypeOK'
  <1> SUFFICES ASSUME TypeOK, [Next]_vars PROVE TypeOK'
    OBVIOUS
  <1>1. CASE \/ \E k \in Key : AddTerm(k)
             \/ \E new \in Batches : AddValues(new)
             \/ \E rs \in Schedules : RunRules(rs)
    BY <1>1, TypesOfAddTerm, TypesOfAddValues, TypesOfRunRules
  <1>2. CASE Step
    <2>1. CASE \E m \in todo, w \in Worker : PickMatch(m, w)
      BY <2>1, TypesOfPick
    <2>2. CASE StopEarly \/ DoLookup \/ DoGet \/ DoSet \/ DoUnion
      BY <2>2, TypesOfStopEarly, TypesOfLookup, TypesOfGet, TypesOfSet, TypesOfUnion
    <2>3. CASE DoRemove \/ DoSubsume \/ DoPanic \/ EndSearch \/ EndMerge \/ EndPass
      BY <2>3, TypesOfRemove, TypesOfSubsume, TypesOfPanic, TypesOfEndSearch, TypesOfEndMerge,
         TypesOfEndPass
    <2>4. CASE \E f \in Fn : MergeRemovals(f)
      BY <2>4, TypesOfRemovals
    <2>5. CASE \E s \in ins : MergeRow(s)
      BY <2>5, TypesOfRow
    <2>6. CASE \E p \in uns : MergeUnion(p)
      BY <2>6, TypesOfMergeUnion
    <2>7. CASE \E incremental \in SUBSET Fn : RebuildPass(incremental)
      BY <2>7, TypesOfRebuild
    <2> QED
      BY <1>2, <2>1, <2>2, <2>3, <2>4, <2>5, <2>6, <2>7 DEF Step
  <1>3. CASE UNCHANGED vars
    <2>1. /\ UNCHANGED <<leader, rows, seen, now, nextId, lastRun, ins, dels, uns, todo, cur,
                         predicted, stop, meaning, den, unbuilt, pc, caller, changed, grew, panicked>>
      BY <1>3 DEF vars, egraph, staged, running, history
    <2>2. nextId' \in 0 .. MaxId /\ nextId <= nextId'
      BY <2>1, Same
    <2>3. ControlOK'
      BY <2>1, Controls, ControlKept
    <2> QED
      BY <2>1, <2>2, <2>3, Keep DEF TypeOK, staged
  <1> QED
    BY <1>1, <1>2, <1>3 DEF Next

(* The leader of a class is its least id; every id in a table, staged, predicted or   *)
(* bound by a match was handed out by id_counter; and a match has exactly the names   *)
(* bound, with values of their types, that the action it has come to may use.         *)
THEOREM TypeCorrect == Spec => []TypeOK
  <1> QED
    BY InitTypes, TypesKept, PTL DEF Spec

-----------------------------------------------------------------------------
(* Soundness.  The tables and the union-find are sound because all that is on    *)
(* its way to them is: staged rows and unions, the ids that an ExecutionState    *)
(* predicted, and the matches, of which the atoms and the lookups made so far    *)
(* hold in the interpretation.  m is an interpretation, d what ids stand for.    *)

DenBy(d, v) == IF v \in Id THEN d[v] ELSE v
TrueBy(m, d, k, v) == k[1] \in Con => m[<<k[1], DenBy(d, k[2])>>] = DenBy(d, v)
EnvDen(d, e) == [n \in DOMAIN e |-> DenBy(d, e[n])]
WitnessedBy(m, d, r, e, j) ==
    /\ \A i \in DOMAIN Atoms(r) : Says(m, Atoms(r)[i], EnvDen(d, e))
    /\ \A i \in 1 .. (j - 1) : Acts(r)[i].op = "lookup" => Says(m, Acts(r)[i], EnvDen(d, e))

LeadersTrue == \A i \in Id : den[leader[i]] = den[i]
RowsTrue == \A k \in Key : rows[k] # None => TrueBy(meaning, den, k, rows[k].val)
StagedTrue ==
    /\ \A s \in ins : TrueBy(meaning, den, s.key, s.val)
    /\ \A p \in uns : den[p[1]] = den[p[2]]
PredictedTrue ==
    \A w \in Worker, k \in Key : predicted[w][k] # None => TrueBy(meaning, den, k, predicted[w][k])
MatchesTrue ==
    /\ \A x \in todo : WitnessedBy(meaning, den, x.rule, x.env, 1)
    /\ cur # None => WitnessedBy(meaning, den, cur.rule, cur.env, cur.at)
Truth == LeadersTrue /\ RowsTrue /\ StagedTrue /\ PredictedTrue /\ MatchesTrue

LEMMA TruthIsSound == Truth => Sound
  BY DEF Truth, Sound, LeadersTrue, RowsTrue, TrueBy, DenBy, True, Den, Fact

LEMMA InitTruth == Init => Truth
  <1> SUFFICES ASSUME Init PROVE Truth
    OBVIOUS
  <1>1. LeadersTrue
    BY DEF Init, LeadersTrue
  <1>2. RowsTrue /\ PredictedTrue
    BY DEF Init, RowsTrue, PredictedTrue
  <1>3. StagedTrue /\ MatchesTrue
    BY DEF Init, StagedTrue, MatchesTrue
  <1> QED
    BY <1>1, <1>2, <1>3 DEF Truth

(* What the ids handed out stand for does not change when others are.            *)
LEMMA FreshDen ==
    ASSUME TypeOK, NEW d, \A i \in Id : i < nextId => d[i] = den[i]
    PROVE  /\ \A v : Known(v) => DenBy(d, v) = DenBy(den, v)
           /\ \A k, v : GoodFact(k, v) /\ TrueBy(meaning, den, k, v) => TrueBy(meaning, d, k, v)
           /\ \A r, e, scope : GoodEnv(r, e, scope) => EnvDen(d, e) = EnvDen(den, e)
  <1>1. \A v : Known(v) => DenBy(d, v) = DenBy(den, v)
    BY DEF Known, DenBy
  <1>2. \A k, v : GoodFact(k, v) /\ TrueBy(meaning, den, k, v) => TrueBy(meaning, d, k, v)
    BY <1>1 DEF GoodFact, TrueBy
  <1>3. ASSUME NEW r, NEW e, NEW scope, GoodEnv(r, e, scope) PROVE EnvDen(d, e) = EnvDen(den, e)
    <2>1. \A n \in DOMAIN e : Known(e[n])
      BY <1>3 DEF GoodEnv
    <2> QED
      BY <1>1, <2>1 DEF EnvDen
  <1> QED
    BY <1>1, <1>2, <1>3

LEMMA KeepTruth ==
    ASSUME TypeOK, Truth, meaning' = meaning, \A i \in Id : i < nextId => den'[i] = den[i]
    PROVE  /\ leader' = leader => LeadersTrue'
           /\ rows' = rows => RowsTrue'
           /\ \A s \in ins : TrueBy(meaning', den', s.key, s.val)
           /\ \A p \in uns : den'[p[1]] = den'[p[2]]
           /\ predicted' = predicted => PredictedTrue'
           /\ \A x \in todo : WitnessedBy(meaning', den', x.rule, x.env, 1)
           /\ UNCHANGED <<todo, cur>> => MatchesTrue'
           /\ UNCHANGED <<ins, uns>> => StagedTrue'
  <1>1. leader' = leader => LeadersTrue'
    <2>1. \A i \in Id : i < nextId => leader[i] \in Id /\ leader[i] < nextId
      BY ValuesAssumption DEF TypeOK, LeadersOK, Id
    <2>2. \A i \in Id : ~(i < nextId) => leader[i] = i
      BY ValuesAssumption DEF TypeOK, LeadersOK, Id
    <2> QED
      BY <2>1, <2>2 DEF Truth, LeadersTrue
  <1>2. rows' = rows => RowsTrue'
    BY FreshDen DEF TypeOK, RowsOK, Truth, RowsTrue
  <1>3. \A s \in ins : TrueBy(meaning', den', s.key, s.val)
    BY FreshDen DEF TypeOK, StagedOK, Truth, StagedTrue
  <1>4. \A p \in uns : den'[p[1]] = den'[p[2]]
    BY DEF TypeOK, StagedOK, Truth, StagedTrue, Known
  <1>5. predicted' = predicted => PredictedTrue'
    BY FreshDen DEF TypeOK, PredictedOK, Truth, PredictedTrue
  <1>6. \A x \in todo : WitnessedBy(meaning', den', x.rule, x.env, 1)
    <2>1. \A x \in todo : EnvDen(den', x.env) = EnvDen(den, x.env)
      BY FreshDen DEF TypeOK, MatchesOK
    <2> QED
      BY <2>1 DEF Truth, MatchesTrue, WitnessedBy
  <1>7. cur # None => WitnessedBy(meaning', den', cur.rule, cur.env, cur.at)
    <2>1. cur # None => EnvDen(den', cur.env) = EnvDen(den, cur.env)
      BY FreshDen DEF TypeOK, MatchesOK
    <2> QED
      BY <2>1 DEF Truth, MatchesTrue, WitnessedBy
  <1>8. UNCHANGED <<todo, cur>> => MatchesTrue'
    BY <1>6, <1>7 DEF MatchesTrue
  <1>9. UNCHANGED <<ins, uns>> => StagedTrue'
    BY <1>3, <1>4 DEF StagedTrue
  <1> QED
    BY <1>1, <1>2, <1>3, <1>4, <1>5, <1>6, <1>8, <1>9

(* The names that the atoms and the lookups made so far speak of are in scope.   *)
LEMMA NamesInScope ==
    ASSUME NEW r \in RuleName, NEW j \in DOMAIN Acts(r)
    PROVE  /\ \A i \in DOMAIN Atoms(r) : {Atoms(r)[i].arg, Atoms(r)[i].val} \subseteq Scope(r, j)
           /\ \A i \in 1 .. (j - 1) : Acts(r)[i].op = "lookup" =>
                 {Acts(r)[i].arg, Acts(r)[i].val} \subseteq Scope(r, j)
  <1>1. \A i \in DOMAIN Atoms(r) : {Atoms(r)[i].arg, Atoms(r)[i].val} \subseteq Scope(r, j)
    BY RuleFacts DEF Scope
  <1>2. ASSUME NEW i \in 1 .. (j - 1), Acts(r)[i].op = "lookup"
        PROVE  {Acts(r)[i].arg, Acts(r)[i].val} \subseteq Scope(r, j)
    <2>1. i \in DOMAIN Acts(r) /\ i < j
      BY RuleFacts
    <2>2. Acts(r)[i].arg \in Scope(r, i)
      BY <1>2, <2>1, RulesAssumption DEF WellFormed
    <2>3. \A x \in DOMAIN Acts(r) : x < i => x < j
      BY <2>1, RuleFacts
    <2>4. Scope(r, i) \subseteq Scope(r, j)
      BY <2>3 DEF Scope, Bound
    <2>5. Acts(r)[i].val \in Bound(r, j)
      BY <1>2, <2>1 DEF Bound
    <2> QED
      BY <2>2, <2>4, <2>5 DEF Scope
  <1> QED
    BY <1>1, <1>2

(* The meanings of the names of a match.                                         *)
LEMMA MeaningsOfNames ==
    ASSUME TypeOK, cur # None
    PROVE  LET scope == Scope(cur.rule, cur.at)
               d == EnvDen(den, cur.env)
           IN  /\ d \in [scope -> Dom \cup Base]
               /\ \A n \in scope : /\ d[n] \in IF Type(cur.rule, n) = "id" THEN Dom ELSE Base
                                   /\ d[n] = DenBy(den, cur.env[n])
  <1> DEFINE scope == Scope(cur.rule, cur.at)
             e == cur.env
             d == EnvDen(den, e)
  <1>1. /\ DOMAIN e = scope
        /\ \A n \in scope : e[n] \in Value /\ e[n] \in Of(Type(cur.rule, n))
    BY DEF TypeOK, MatchesOK, GoodEnv
  <1>2. d = [n \in scope |-> DenBy(den, e[n])]
    BY <1>1 DEF EnvDen
  <1>3. \A n \in scope : DenBy(den, e[n]) \in IF Type(cur.rule, n) = "id" THEN Dom ELSE Base
    <2> SUFFICES ASSUME NEW n \in scope
                 PROVE  DenBy(den, e[n]) \in IF Type(cur.rule, n) = "id" THEN Dom ELSE Base
      OBVIOUS
    <2>1. den \in [Id -> Dom] /\ Base \cap Id = {} /\ Lit \subseteq Base
      BY ValuesAssumption DEF TypeOK, ControlOK
    <2>2. CASE Type(cur.rule, n) = "id"
      BY <1>1, <2>1, <2>2 DEF Of, DenBy
    <2>3. CASE Type(cur.rule, n) # "id"
      BY <1>1, <2>1, <2>3 DEF Of, DenBy
    <2> QED
      BY <2>2, <2>3
  <1>4. \A n \in scope : d[n] = DenBy(den, e[n])
    BY <1>2
  <1>5. d \in [scope -> Dom \cup Base]
    BY <1>2, <1>3
  <1> QED
    BY <1>3, <1>4, <1>5

(* What the match of a true rule sets or unites is true.                         *)
LEMMA HeadIsTrue ==
    ASSUME TypeOK, Truth, cur # None
    PROVE  /\ Instr.op = "set" => TrueBy(meaning, den, ActKey, cur.env[Instr.val])
           /\ Instr.op = "union" => den[Arg] = den[cur.env[Instr.val]]
  <1> DEFINE r == cur.rule
             j == cur.at
             a == Acts(r)[j]
             scope == Scope(r, j)
             d == EnvDen(den, cur.env)
  <1>1. r \in RuleName /\ j \in DOMAIN Acts(r) /\ a = Instr
    BY ActFacts DEF Instr
  <1>2. meaning \in Meanings /\ RuleIsTrue(meaning, r)
    BY <1>1, RulesAssumption DEF TypeOK, ControlOK
  <1>3. /\ d \in [scope -> Dom \cup Base]
        /\ \A n \in scope : /\ d[n] \in IF Type(r, n) = "id" THEN Dom ELSE Base
                            /\ d[n] = DenBy(den, cur.env[n])
    BY MeaningsOfNames
  <1>4. /\ \A i \in DOMAIN Atoms(r) : Says(meaning, Atoms(r)[i], d)
        /\ \A i \in 1 .. (j - 1) : Acts(r)[i].op = "lookup" => Says(meaning, Acts(r)[i], d)
    BY DEF Truth, MatchesTrue, WitnessedBy
  <1> HIDE DEF d
  <1>5. (a.op = "set" => Says(meaning, a, d)) /\ (a.op = "union" => d[a.arg] = d[a.val])
    BY <1>1, <1>2, <1>3, <1>4 DEF RuleIsTrue
  <1>6. WellFormed(r)
    BY <1>1, RulesAssumption
  <1>7. a.op \in {"set", "union"} => a.arg \in scope /\ a.val \in scope
    BY <1>1, <1>6 DEF WellFormed
  <1>8. a.op = "set" => TrueBy(meaning, den, ActKey, cur.env[a.val])
    BY <1>1, <1>3, <1>5, <1>7 DEF Says, TrueBy, ActKey, Arg
  <1>9. a.op = "union" => den[Arg] = den[cur.env[a.val]]
    <2>1. a.op = "union" => Arg \in Id /\ cur.env[a.val] \in Id
      BY <1>1, ActFacts
    <2> QED
      BY <1>1, <1>3, <1>5, <1>7, <2>1 DEF DenBy, Arg
  <1> QED
    BY <1>1, <1>8, <1>9

(* A match goes on: with the same names, or with the one that a lookup bound.    *)
LEMMA ProceedTrue ==
    ASSUME TypeOK, Truth, cur # None, NEW env, Proceed(env), UNCHANGED <<todo, meaning>>,
           \A i \in Id : i < nextId => den'[i] = den[i],
           WitnessedBy(meaning, den', cur.rule, env, cur.at + 1)
    PROVE  MatchesTrue'
  <1>1. cur \in [rule : RuleName, env : {cur.env}, worker : Worker, at : DOMAIN Acts(cur.rule)]
    BY DEF TypeOK, MatchesOK
  <1>2. \A x \in todo' : WitnessedBy(meaning', den', x.rule, x.env, 1)
    BY KeepTruth
  <1>3. CASE cur' = None
    BY <1>2, <1>3 DEF MatchesTrue
  <1>4. CASE cur' = [cur EXCEPT !.at = cur.at + 1, !.env = env]
    <2>1. cur' = [rule |-> cur.rule, env |-> env, worker |-> cur.worker, at |-> cur.at + 1]
      BY <1>1, <1>4
    <2>2. WitnessedBy(meaning', den', cur'.rule, cur'.env, cur'.at)
      BY <2>1
    <2> QED
      BY <1>2, <2>2 DEF MatchesTrue
  <1> QED
    BY <1>3, <1>4 DEF Proceed

LEMMA DoneTrue ==
    ASSUME TypeOK, Truth, cur # None, Instr.op # "lookup", Done, UNCHANGED <<todo, meaning>>,
           \A i \in Id : i < nextId => den'[i] = den[i]
    PROVE  MatchesTrue'
  <1> DEFINE r == cur.rule
             j == cur.at
  <1>1. EnvDen(den', cur.env) = EnvDen(den, cur.env)
    BY FreshDen DEF TypeOK, MatchesOK
  <1>2. WitnessedBy(meaning, den, r, cur.env, j)
    BY DEF Truth, MatchesTrue
  <1>3. j \in Nat /\ Acts(r)[j].op # "lookup"
    BY ActFacts, RuleFacts DEF Instr
  <1>4. \A i \in 1 .. (j + 1 - 1) : i \in 1 .. (j - 1) \/ i = j
    BY <1>3
  <1>5. WitnessedBy(meaning, den', r, cur.env, j + 1)
    BY <1>1, <1>2, <1>3, <1>4 DEF WitnessedBy
  <1> QED
    BY <1>5, ProceedTrue DEF Done

LEMMA BindTrue ==
    ASSUME TypeOK, Truth, cur # None, Instr.op = "lookup", NEW v, Proceed(Bind(Instr.val, v)),
           UNCHANGED <<todo, meaning>>, \A i \in Id : i < nextId => den'[i] = den[i],
           TrueBy(meaning, den', ActKey, v)
    PROVE  MatchesTrue'
  <1> DEFINE r == cur.rule
             j == cur.at
             a == Acts(r)[j]
             scope == Scope(r, j)
             env == Bind(Instr.val, v)
             d == EnvDen(den', cur.env)
             d2 == EnvDen(den', env)
  <1>1. r \in RuleName /\ j \in DOMAIN Acts(r) /\ j \in Nat /\ a = Instr
    BY ActFacts, RuleFacts DEF Instr
  <1>2. DOMAIN cur.env = scope /\ a.val \notin scope /\ a.arg \in scope
    <2>1. DOMAIN cur.env = scope
      BY DEF TypeOK, MatchesOK, GoodEnv
    <2>2. a.val \notin scope /\ a.arg \in scope
      BY <1>1, RulesAssumption DEF WellFormed
    <2> QED
      BY <2>1, <2>2
  <1>3. env = [n \in scope \cup {a.val} |-> IF n = a.val THEN v ELSE cur.env[n]]
    BY <1>1, <1>2 DEF Bind
  <1>4. d2 = [n \in scope \cup {a.val} |-> DenBy(den', env[n])]
    BY <1>3 DEF EnvDen
  <1>5. d = [n \in scope |-> DenBy(den', cur.env[n])]
    BY <1>2 DEF EnvDen
  <1>6. \A n \in scope : d2[n] = d[n] /\ n # a.val
    BY <1>2, <1>3, <1>4, <1>5
  <1>7. d2[a.val] = DenBy(den', v) /\ d2[a.arg] = DenBy(den', cur.env[a.arg])
    <2>1. env[a.val] = v /\ env[a.arg] = cur.env[a.arg]
      BY <1>2, <1>3
    <2>2. a.val \in scope \cup {a.val} /\ a.arg \in scope \cup {a.val}
      BY <1>2
    <2> HIDE DEF env
    <2> QED
      BY <1>4, <2>1, <2>2
  <1>8. d = EnvDen(den, cur.env) /\ WitnessedBy(meaning, den, r, cur.env, j)
    BY FreshDen DEF TypeOK, MatchesOK, Truth, MatchesTrue
  <1>9. Says(meaning, a, d2)
    BY <1>1, <1>7 DEF Says, TrueBy, ActKey, Arg
  <1> HIDE DEF d, d2, env
  <1>10. \A i \in DOMAIN Atoms(r) : Says(meaning, Atoms(r)[i], d2)
    <2>1. \A i \in DOMAIN Atoms(r) : d2[Atoms(r)[i].arg] = d[Atoms(r)[i].arg] /\ d2[Atoms(r)[i].val] = d[Atoms(r)[i].val]
      BY <1>1, <1>6, NamesInScope
    <2> QED
      BY <1>8, <2>1 DEF WitnessedBy, Says
  <1>11. \A i \in 1 .. (j - 1) : Acts(r)[i].op = "lookup" => Says(meaning, Acts(r)[i], d2)
    <2>1. \A i \in 1 .. (j - 1) : Acts(r)[i].op = "lookup" =>
             d2[Acts(r)[i].arg] = d[Acts(r)[i].arg] /\ d2[Acts(r)[i].val] = d[Acts(r)[i].val]
      BY <1>1, <1>6, NamesInScope
    <2> QED
      BY <1>8, <2>1 DEF WitnessedBy, Says
  <1>12. \A i \in 1 .. (j + 1 - 1) : i \in 1 .. (j - 1) \/ i = j
    BY <1>1
  <1>13. d2 = EnvDen(den', env)
    BY DEF d2
  <1>14. \A i \in 1 .. (j + 1 - 1) : Acts(r)[i].op = "lookup" => Says(meaning, Acts(r)[i], d2)
    BY <1>9, <1>11, <1>12
  <1> HIDE DEF r, j
  <1>15. WitnessedBy(meaning, den', r, env, j + 1)
    <2>1. \A i \in DOMAIN Atoms(r) : Says(meaning, Atoms(r)[i], EnvDen(den', env))
      BY <1>10, <1>13
    <2>2. \A i \in 1 .. (j + 1 - 1) : Acts(r)[i].op = "lookup" => Says(meaning, Acts(r)[i], EnvDen(den', env))
      BY <1>13, <1>14
    <2> QED
      BY <1>1, <2>1, <2>2 DEF WitnessedBy
  <1>16. Proceed(env)
    BY DEF env
  <1> QED
    BY <1>15, <1>16, ProceedTrue DEF r, j

(* A match that halts says no more.                                              *)
LEMMA HaltTrue ==
    ASSUME TypeOK, Truth, cur' = None, todo' \subseteq todo, UNCHANGED meaning,
           \A i \in Id : i < nextId => den'[i] = den[i]
    PROVE  MatchesTrue'
  <1>1. \A x \in todo : WitnessedBy(meaning', den', x.rule, x.env, 1)
    BY KeepTruth
  <1> QED
    BY <1>1 DEF MatchesTrue

(* A row with a new id is true, for the id stands for what its term means.       *)
LEMMA FreshRow ==
    ASSUME TypeOK, NEW k \in Key, k[1] \in Con, Known(k[2]), nextId < MaxId,
           den' = [den EXCEPT ![nextId] = meaning[<<k[1], Den(k[2])>>]]
    PROVE  /\ \A i \in Id : i < nextId => den'[i] = den[i]
           /\ TrueBy(meaning, den', k, nextId)
  <1>1. nextId \in Id /\ den \in [Id -> Dom]
    BY Same, ValuesAssumption DEF Id, TypeOK, ControlOK
  <1>2. \A i \in Id : i < nextId => den'[i] = den[i]
    BY <1>1, Same DEF Id
  <1>3. DenBy(den', k[2]) = Den(k[2])
    BY <1>2 DEF DenBy, Den, Known
  <1>4. DenBy(den', nextId) = meaning[<<k[1], Den(k[2])>>]
    BY <1>1 DEF DenBy
  <1> QED
    BY <1>2, <1>3, <1>4 DEF TrueBy

LEMMA InsertTrue ==
    ASSUME TypeOK, Truth, cur # None, NEW s \in BOOLEAN, InsertUnknown(ActKey, s),
           Instr.op \in {"lookup", "subsume"}, Instr.fn \in Con, UNCHANGED <<dels, uns, meaning>>
    PROVE  /\ \A i \in Id : i < nextId => den'[i] = den[i]
           /\ PredictedTrue' /\ StagedTrue'
           /\ TrueBy(meaning, den', ActKey, KnownVal(ActKey))
  <1> DEFINE k == ActKey
             w == cur.worker
  <1>1. k \in Key /\ Known(k[2]) /\ k[1] \in Con /\ w \in Worker
    BY ActFacts
  <1>2. CASE rows[k] # None \/ predicted[w][k] # None
    <2>1. UNCHANGED <<nextId, ins, predicted, den>>
      BY <1>2 DEF InsertUnknown
    <2>2. \A i \in Id : i < nextId => den'[i] = den[i]
      BY <2>1
    <2>3. TrueBy(meaning, den, k, KnownVal(k))
      BY <1>1, <1>2 DEF KnownVal, Truth, RowsTrue, PredictedTrue
    <2> QED
      BY <2>1, <2>2, <2>3, KeepTruth
  <1>3. CASE rows[k] = None /\ predicted[w][k] = None
    <2>1. /\ nextId < MaxId /\ ins' = ins \cup {Stage(k, nextId, s)}
          /\ predicted' = [predicted EXCEPT ![w][k] = nextId]
          /\ den' = [den EXCEPT ![nextId] = meaning[<<k[1], Den(k[2])>>]]
      BY <1>3 DEF InsertUnknown
    <2>2. (\A i \in Id : i < nextId => den'[i] = den[i]) /\ TrueBy(meaning, den', k, nextId)
      BY <1>1, <2>1, FreshRow
    <2>3. StagedTrue'
      <3>1. \A x \in ins : TrueBy(meaning', den', x.key, x.val)
        BY <2>2, KeepTruth
      <3>2. \A p \in uns' : den'[p[1]] = den'[p[2]]
        BY <2>2, KeepTruth
      <3>3. \A x \in ins' : x \in ins \/ (x.key = k /\ x.val = nextId)
        BY <2>1 DEF Stage
      <3>4. \A x \in ins' : TrueBy(meaning', den', x.key, x.val)
        BY <2>2, <3>1, <3>3
      <3> QED
        BY <3>2, <3>4 DEF StagedTrue
    <2>4. PredictedTrue'
      <3>1. \A x \in Worker, y \in Key :
               predicted'[x][y] = IF x = w /\ y = k THEN nextId ELSE predicted[x][y]
        BY <1>1, <2>1 DEF TypeOK, PredictedOK
      <3>2. \A x \in Worker, y \in Key :
               predicted[x][y] # None => TrueBy(meaning, den', y, predicted[x][y])
        BY <2>2, FreshDen DEF TypeOK, PredictedOK, Truth, PredictedTrue
      <3>3. \A x \in Worker, y \in Key :
               predicted'[x][y] # None => TrueBy(meaning, den', y, predicted'[x][y])
        BY <2>2, <3>1, <3>2
      <3> QED
        BY <3>3 DEF PredictedTrue
    <2> QED
      BY <1>3, <2>2, <2>3, <2>4 DEF KnownVal
  <1> QED
    BY <1>2, <1>3

LEMMA TruthOfAddTerm ==
    ASSUME TypeOK, Truth, NEW k \in Key, AddTerm(k)
    PROVE  Truth'
  <1>1. /\ k[1] \in Input \ NoMerge /\ Known(k[2]) /\ nextId < MaxId
        /\ ins' = {Stage(k, nextId, FALSE)}
        /\ den' = [den EXCEPT ![nextId] = meaning[<<k[1], Den(k[2])>>]]
        /\ UNCHANGED <<leader, rows, uns, todo, cur, predicted, meaning>>
    BY DEF AddTerm, running
  <1>2. k[1] \in Con
    BY <1>1, ValuesAssumption DEF Key, Con
  <1>3. (\A i \in Id : i < nextId => den'[i] = den[i]) /\ TrueBy(meaning, den', k, nextId)
    BY <1>1, <1>2, FreshRow
  <1>4. StagedTrue'
    <2>1. \A x \in ins' : x.key = k /\ x.val = nextId
      BY <1>1 DEF Stage
    <2>2. \A x \in ins' : TrueBy(meaning', den', x.key, x.val)
      BY <1>1, <1>3, <2>1
    <2>3. \A p \in uns' : den'[p[1]] = den'[p[2]]
      BY <1>1, <1>3, KeepTruth
    <2> QED
      BY <2>2, <2>3 DEF StagedTrue
  <1> QED
    BY <1>1, <1>3, <1>4, KeepTruth DEF Truth

LEMMA TruthOfAddValues ==
    ASSUME TypeOK, Truth, NEW new \in Batches, AddValues(new)
    PROVE  Truth'
  <1>1. /\ \A f \in new : True(f)
        /\ ins' = {Stage(f.key, f.val, FALSE) : f \in new}
        /\ UNCHANGED <<leader, rows, uns, todo, cur, predicted, meaning, den>>
    BY DEF AddValues, running, egraph
  <1>2. \A f \in new : TrueBy(meaning, den, f.key, f.val)
    BY <1>1 DEF True, TrueBy, Den, DenBy
  <1>3. \A i \in Id : i < nextId => den'[i] = den[i]
    BY <1>1
  <1>4. StagedTrue'
    <2>1. \A x \in ins' : \E f \in new : x.key = f.key /\ x.val = f.val
      BY <1>1 DEF Stage
    <2>2. \A x \in ins' : TrueBy(meaning', den', x.key, x.val)
      BY <1>1, <1>2, <2>1
    <2>3. \A p \in uns' : den'[p[1]] = den'[p[2]]
      BY <1>1, <1>3, KeepTruth
    <2> QED
      BY <2>2, <2>3 DEF StagedTrue
  <1> QED
    BY <1>1, <1>3, <1>4, KeepTruth DEF Truth

(* The atoms of a match are rows of the tables.                                  *)
LEMMA RowsOfMatch ==
    ASSUME NEW r \in RuleName, NEW e \in Matches(r), NEW i \in DOMAIN Atoms(r)
    PROVE  LET k == KeyOf(Atoms(r)[i], e)
           IN  k \in Key /\ rows[k] # None /\ rows[k].val = e[Atoms(r)[i].val]
  <1>1. CASE NaiveMatch(r, e)
    BY <1>1 DEF NaiveMatch, Holds
  <1>2. CASE \E f \in Focuses(r) : FocusMatch(r, f, e)
    <2>1. PICK f \in Focuses(r) : FocusMatch(r, f, e)
      BY <1>2
    <2>2. \/ i = f
          \/ i # f /\ i < f
          \/ i # f /\ ~(i < f)
      OBVIOUS
    <2> QED
      BY <2>1, <2>2 DEF FocusMatch, Holds
  <1> QED
    BY <1>1, <1>2 DEF Matches

LEMMA MatchIsTrue ==
    ASSUME TypeOK, Truth, NEW r \in RuleName, NEW e \in Matches(r)
    PROVE  WitnessedBy(meaning, den, r, e, 1)
  <1>1. DOMAIN e = Scope(r, 1)
    BY MatchesFound DEF GoodEnv
  <1>2. ASSUME NEW i \in DOMAIN Atoms(r) PROVE Says(meaning, Atoms(r)[i], EnvDen(den, e))
    <2> DEFINE a == Atoms(r)[i]
               k == KeyOf(a, e)
    <2>1. k = <<a.fn, e[a.arg]>>
      BY DEF KeyOf
    <2>2. k \in Key /\ rows[k] # None /\ rows[k].val = e[a.val]
      BY RowsOfMatch
    <2>3. TrueBy(meaning, den, k, e[a.val])
      BY <2>2 DEF Truth, RowsTrue
    <2>4. a.arg \in DOMAIN e /\ a.val \in DOMAIN e
      BY <1>1, ScopeStarts, RuleFacts
    <2>5. EnvDen(den, e)[a.arg] = DenBy(den, e[a.arg]) /\ EnvDen(den, e)[a.val] = DenBy(den, e[a.val])
      BY <2>4 DEF EnvDen
    <2> QED
      BY <2>1, <2>3, <2>5 DEF Says, TrueBy
  <1>3. \A i \in 1 .. (1 - 1) : FALSE
    OBVIOUS
  <1> QED
    BY <1>2, <1>3 DEF WitnessedBy

LEMMA TruthOfRunRules ==
    ASSUME TypeOK, Truth, NEW rs \in Schedules, RunRules(rs)
    PROVE  Truth'
  <1>1. /\ todo' = UNION {{[rule |-> r, env |-> e] : e \in Matches(r)} : r \in rs}
        /\ UNCHANGED <<leader, rows, ins, uns, cur, predicted, meaning, den>>
    BY DEF RunRules, staged, history
  <1>2. rs \subseteq RuleName
    BY ValuesAssumption
  <1>3. \A r \in RuleName : \A e \in Matches(r) : WitnessedBy(meaning, den, r, e, 1)
    BY MatchIsTrue
  <1>4. \A x \in todo' : WitnessedBy(meaning', den', x.rule, x.env, 1)
    BY <1>1, <1>2, <1>3
  <1>5. MatchesTrue'
    BY <1>1, <1>4 DEF Truth, MatchesTrue
  <1>6. \A i \in Id : i < nextId => den'[i] = den[i]
    BY <1>1
  <1> QED
    BY <1>1, <1>5, <1>6, KeepTruth DEF Truth

LEMMA TruthOfMatching ==
    ASSUME TypeOK, Truth, \/ \E m \in todo, w \in Worker : PickMatch(m, w)
                          \/ StopEarly \/ DoPanic \/ EndSearch
    PROVE  Truth'
  <1>1. \A i \in Id : i < nextId => den'[i] = den[i]
    BY DEF PickMatch, StopEarly, DoPanic, EndSearch, history
  <1>2. ASSUME NEW m \in todo, NEW w \in Worker, PickMatch(m, w) PROVE Truth'
    <2>1. /\ todo' = todo \ {m} /\ cur' = [rule |-> m.rule, env |-> m.env, worker |-> w, at |-> 1]
          /\ UNCHANGED <<leader, rows, ins, uns, predicted, meaning, den>>
      BY <1>2 DEF PickMatch, egraph, staged, history
    <2>2. \A x \in todo : WitnessedBy(meaning', den', x.rule, x.env, 1)
      BY <1>1, <2>1, KeepTruth
    <2>3. MatchesTrue'
      BY <2>1, <2>2 DEF MatchesTrue
    <2> QED
      BY <1>1, <2>1, <2>3, KeepTruth DEF Truth
  <1>3. ASSUME StopEarly \/ DoPanic PROVE Truth'
    <2>1. cur' = None /\ todo' \subseteq todo /\ UNCHANGED <<leader, rows, ins, uns, predicted, meaning, den>>
      BY <1>3 DEF StopEarly, DoPanic, Halt, egraph, staged
    <2>2. MatchesTrue'
      BY <1>1, <2>1, HaltTrue
    <2> QED
      BY <1>1, <2>1, <2>2, KeepTruth DEF Truth
  <1>4. ASSUME EndSearch PROVE Truth'
    <2>1. /\ predicted' = [w \in Worker |-> [k \in Key |-> None]]
          /\ UNCHANGED <<leader, rows, ins, uns, todo, cur, meaning, den>>
      BY <1>4 DEF EndSearch, egraph, staged, history
    <2>2. PredictedTrue'
      BY <2>1 DEF PredictedTrue
    <2> QED
      BY <1>1, <2>1, <2>2, KeepTruth DEF Truth
  <1> QED
    BY <1>2, <1>3, <1>4

LEMMA TruthOfLookup ==
    ASSUME TypeOK, Truth, DoLookup
    PROVE  Truth'
  <1>1. /\ cur # None /\ Instr.op = "lookup" /\ Instr.fn \notin NoMerge
        /\ InsertUnknown(ActKey, FALSE) /\ Proceed(Bind(Instr.val, KnownVal(ActKey)))
        /\ UNCHANGED <<leader, rows, dels, uns, todo, meaning>>
    BY DEF DoLookup, Act
  <1>2. Instr.fn \in Con
    BY <1>1, ActFacts DEF Con
  <1>3. /\ \A i \in Id : i < nextId => den'[i] = den[i]
        /\ PredictedTrue' /\ StagedTrue' /\ TrueBy(meaning, den', ActKey, KnownVal(ActKey))
    BY <1>1, <1>2, InsertTrue
  <1>4. MatchesTrue'
    BY <1>1, <1>3, BindTrue
  <1> QED
    BY <1>1, <1>3, <1>4, KeepTruth DEF Truth

LEMMA TruthOfGet ==
    ASSUME TypeOK, Truth, DoGet
    PROVE  Truth'
  <1> DEFINE v == rows[ActKey].val
  <1>1. /\ cur # None /\ Instr.op = "lookup"
        /\ (rows[ActKey] # None /\ Proceed(Bind(Instr.val, v))) \/ cur' = None
        /\ UNCHANGED <<leader, rows, ins, uns, todo, predicted, meaning, den>>
    BY DEF DoGet, Act, Halt, egraph, staged
  <1>2. \A i \in Id : i < nextId => den'[i] = den[i]
    BY <1>1
  <1>3. UNCHANGED <<todo, meaning>>
    BY <1>1
  <1>4. ASSUME rows[ActKey] # None, Proceed(Bind(Instr.val, v)) PROVE MatchesTrue'
    <2>1. TrueBy(meaning, den', ActKey, v)
      BY <1>1, <1>4, ActFacts DEF Truth, RowsTrue
    <2>2. cur # None /\ Instr.op = "lookup"
      BY <1>1
    <2> HIDE DEF v
    <2> QED
      BY <1>2, <1>3, <1>4, <2>1, <2>2, BindTrue
  <1>5. cur' = None => MatchesTrue'
    BY <1>2, <1>3, HaltTrue
  <1>6. MatchesTrue'
    BY <1>1, <1>4, <1>5
  <1> QED
    BY <1>1, <1>2, <1>6, KeepTruth DEF Truth

LEMMA TruthOfSet ==
    ASSUME TypeOK, Truth, DoSet
    PROVE  Truth'
  <1> DEFINE v == cur.env[Instr.val]
  <1>1. /\ cur # None /\ Instr.op = "set" /\ Done /\ ins' = ins \cup {Stage(ActKey, v, FALSE)}
        /\ UNCHANGED <<leader, rows, uns, todo, predicted, meaning, den>>
    BY DEF DoSet, Act, egraph
  <1>2. \A i \in Id : i < nextId => den'[i] = den[i]
    BY <1>1
  <1>3. MatchesTrue'
    BY <1>1, <1>2, DoneTrue
  <1>4. TrueBy(meaning, den, ActKey, v)
    BY <1>1, HeadIsTrue
  <1>5. StagedTrue'
    <2>1. \A x \in ins' : x \in ins \/ (x.key = ActKey /\ x.val = v)
      BY <1>1 DEF Stage
    <2>2. \A x \in ins' : TrueBy(meaning', den', x.key, x.val)
      BY <1>1, <1>4, <2>1 DEF Truth, StagedTrue
    <2> QED
      BY <1>1, <2>2 DEF Truth, StagedTrue
  <1> QED
    BY <1>1, <1>2, <1>3, <1>5, KeepTruth DEF Truth

LEMMA TruthOfUnion ==
    ASSUME TypeOK, Truth, DoUnion
    PROVE  Truth'
  <1> DEFINE v == cur.env[Instr.val]
  <1>1. /\ cur # None /\ Instr.op = "union" /\ Done /\ uns' = uns \cup {<<Arg, v>>}
        /\ UNCHANGED <<leader, rows, ins, todo, predicted, meaning, den>>
    BY DEF DoUnion, Act, egraph
  <1>2. \A i \in Id : i < nextId => den'[i] = den[i]
    BY <1>1
  <1>3. MatchesTrue'
    BY <1>1, <1>2, DoneTrue
  <1>4. den[Arg] = den[v]
    BY <1>1, HeadIsTrue
  <1>5. StagedTrue'
    BY <1>1, <1>4 DEF Truth, StagedTrue
  <1> QED
    BY <1>1, <1>2, <1>3, <1>5, KeepTruth DEF Truth

LEMMA TruthOfRemove ==
    ASSUME TypeOK, Truth, DoRemove
    PROVE  Truth'
  <1>1. /\ cur # None /\ Instr.op = "remove" /\ Done
        /\ UNCHANGED <<leader, rows, ins, uns, todo, predicted, meaning, den>>
    BY DEF DoRemove, Act, egraph
  <1>2. \A i \in Id : i < nextId => den'[i] = den[i]
    BY <1>1
  <1>3. MatchesTrue'
    BY <1>1, <1>2, DoneTrue
  <1> QED
    BY <1>1, <1>2, <1>3, KeepTruth DEF Truth

LEMMA TruthOfSubsume ==
    ASSUME TypeOK, Truth, DoSubsume
    PROVE  Truth'
  <1>1. /\ cur # None /\ Instr.op = "subsume"
        /\ UNCHANGED <<leader, rows, dels, uns, todo, meaning>>
    BY DEF DoSubsume, Act
  <1>2. Instr.fn \in Con /\ ActKey \in Key
    BY <1>1, ActFacts
  <1>3. /\ \A i \in Id : i < nextId => den'[i] = den[i]
        /\ MatchesTrue' /\ PredictedTrue' /\ StagedTrue'
    <2>1. CASE rows[ActKey] = None
      <3>1. InsertUnknown(ActKey, TRUE) /\ cur' = None
        BY <2>1 DEF DoSubsume, Halt
      <3>2. (\A i \in Id : i < nextId => den'[i] = den[i]) /\ PredictedTrue' /\ StagedTrue'
        BY <1>1, <1>2, <3>1, InsertTrue
      <3> QED
        BY <1>1, <3>1, <3>2, HaltTrue
    <2>2. CASE rows[ActKey] # None
      <3> DEFINE old == rows[ActKey]
      <3>1. /\ ins' = ins \/ ins' = ins \cup {Stage(ActKey, old.val, TRUE)}
            /\ Done /\ UNCHANGED <<predicted, den>>
        BY <2>2 DEF DoSubsume
      <3>2. \A i \in Id : i < nextId => den'[i] = den[i]
        BY <3>1
      <3>3. MatchesTrue' /\ PredictedTrue'
        BY <1>1, <3>1, <3>2, DoneTrue, KeepTruth
      <3>4. TrueBy(meaning, den, ActKey, old.val)
        BY <1>2, <2>2 DEF Truth, RowsTrue
      <3>5. \A x \in ins' : x \in ins \/ (x.key = ActKey /\ x.val = old.val)
        BY <3>1 DEF Stage
      <3>6. \A x \in ins' : TrueBy(meaning', den', x.key, x.val)
        BY <1>1, <3>1, <3>4, <3>5 DEF Truth, StagedTrue
      <3>7. StagedTrue'
        BY <1>1, <3>1, <3>6 DEF Truth, StagedTrue
      <3> QED
        BY <3>2, <3>3, <3>7
    <2> QED
      BY <2>1, <2>2
  <1> QED
    BY <1>1, <1>3, KeepTruth DEF Truth

LEMMA TruthOfRemovals ==
    ASSUME TypeOK, Truth, NEW f \in Fn, MergeRemovals(f)
    PROVE  Truth'
  <1>1. /\ \A k \in Key : rows'[k] # None => rows'[k] = rows[k]
        /\ UNCHANGED <<leader, ins, uns, todo, cur, predicted, meaning, den>>
    BY DEF MergeRemovals, running, history
  <1>2. RowsTrue'
    BY <1>1 DEF Truth, RowsTrue
  <1>3. \A i \in Id : i < nextId => den'[i] = den[i]
    BY <1>1
  <1> QED
    BY <1>1, <1>2, <1>3, KeepTruth DEF Truth

(* Two rows of a key that are both true have values that stand for the same.     *)
LEMMA TruthOfRow ==
    ASSUME TypeOK, Truth, NEW s \in ins, MergeRow(s)
    PROVE  Truth'
  <1> DEFINE k == s.key
             old == rows[k]
             val == IF old = None THEN s.val ELSE MergedVal(k[1], old.val, s.val)
             sub == IF old = None THEN s.sub ELSE MergedSub(old.sub, s.sub)
  <1>1. /\ ins' = ins \ {s}
        /\ UNCHANGED <<leader, todo, cur, predicted, meaning, den>>
    BY DEF MergeRow, running, history
  <1>2. rows' = rows \/ rows' = [rows EXCEPT ![k] = [val |-> val, sub |-> sub, ts |-> now]]
    BY DEF MergeRow
  <1>3. \/ uns' = uns
        \/ old # None /\ k[1] \notin NoMerge /\ uns' = uns \cup {<<old.val, s.val>>}
    BY DEF MergeRow
  <1>4. k \in Key /\ k[1] \in Fn /\ TrueBy(meaning, den, k, s.val) /\ s.val \in ValueOf(k[1])
    BY ValuesAssumption DEF TypeOK, StagedOK, GoodFact, Key, Truth, StagedTrue
  <1>5. old # None => TrueBy(meaning, den, k, old.val) /\ old.val \in ValueOf(k[1])
    BY <1>4, RowIsThere DEF Truth, RowsTrue
  <1>6. TrueBy(meaning, den, k, val)
    BY <1>4, <1>5 DEF MergedVal
  <1>7. RowsTrue'
    <2>1. CASE rows' = rows
      BY <1>1, <2>1 DEF Truth, RowsTrue
    <2>2. CASE rows' = [rows EXCEPT ![k] = [val |-> val, sub |-> sub, ts |-> now]]
      <3> HIDE DEF val, sub
      <3> SUFFICES ASSUME NEW j \in Key, rows'[j] # None
                   PROVE  TrueBy(meaning, den, j, rows'[j].val)
        BY <1>1 DEF RowsTrue
      <3>1. CASE j = k
        <4>1. rows'[j] = [val |-> val, sub |-> sub, ts |-> now]
          BY <2>2, <3>1 DEF TypeOK, RowsOK
        <4> QED
          BY <1>6, <3>1, <4>1
      <3>2. CASE j # k
        <4>1. rows'[j] = rows[j]
          BY <2>2, <3>2 DEF TypeOK, RowsOK
        <4> QED
          BY <4>1 DEF Truth, RowsTrue
      <3> QED
        BY <3>1, <3>2
    <2> QED
      BY <1>2, <2>1, <2>2
  <1>8. StagedTrue'
    <2>1. old # None /\ k[1] \notin NoMerge => den[old.val] = den[s.val]
      BY <1>4, <1>5 DEF TrueBy, DenBy, ValueOf, Con
    <2>2. \A p \in uns' : den[p[1]] = den[p[2]]
      BY <1>3, <2>1 DEF Truth, StagedTrue
    <2>3. \A x \in ins' : TrueBy(meaning', den', x.key, x.val)
      BY <1>1 DEF Truth, StagedTrue
    <2> QED
      BY <1>1, <2>2, <2>3 DEF StagedTrue
  <1>9. \A i \in Id : i < nextId => den'[i] = den[i]
    BY <1>1
  <1> QED
    BY <1>1, <1>7, <1>8, <1>9, KeepTruth DEF Truth

LEMMA TruthOfMergeUnion ==
    ASSUME TypeOK, Truth, NEW p \in uns, MergeUnion(p)
    PROVE  Truth'
  <1>1. /\ uns' = uns \ {p}
        /\ leader' = leader \/ leader' = Unite(p[1], p[2])
        /\ UNCHANGED <<rows, ins, todo, cur, predicted, meaning, den>>
    BY DEF MergeUnion, running, history
  <1>2. p[1] \in Id /\ p[2] \in Id /\ den[p[1]] = den[p[2]]
    BY DEF TypeOK, StagedOK, Truth, StagedTrue
  <1>3. den[leader[p[1]]] = den[p[1]] /\ den[leader[p[2]]] = den[p[1]]
    BY <1>2 DEF Truth, LeadersTrue
  <1>4. LeadersTrue'
    <2>1. CASE leader' = leader
      BY <1>1, <2>1 DEF Truth, LeadersTrue
    <2>2. CASE leader' = Unite(p[1], p[2])
      BY <1>1, <1>3, <2>2 DEF Unite, Truth, LeadersTrue
    <2> QED
      BY <1>1, <2>1, <2>2
  <1>5. StagedTrue'
    BY <1>1 DEF Truth, StagedTrue
  <1>6. \A i \in Id : i < nextId => den'[i] = den[i]
    BY <1>1
  <1> QED
    BY <1>1, <1>4, <1>5, <1>6, KeepTruth DEF Truth

(* The canonical form of a true row is true.                                     *)
LEMMA TruthOfRebuild ==
    ASSUME TypeOK, Truth, NEW incremental \in SUBSET Fn, RebuildPass(incremental)
    PROVE  Truth'
  <1>1. /\ dels' = RebuiltKeys(incremental)
        /\ ins' = {Stage(<<k[1], Find(k[2])>>, Find(rows[k].val), rows[k].sub) : k \in dels'}
        /\ UNCHANGED <<leader, rows, uns, todo, cur, predicted, meaning, den>>
    BY DEF RebuildPass, running, history
  <1>2. \A v : DenBy(den, Find(v)) = DenBy(den, v)
    BY DEF Find, DenBy, Truth, LeadersTrue, TypeOK, LeadersOK
  <1>3. \A k \in dels' : k \in Key /\ rows[k] # None
    BY <1>1 DEF RebuiltKeys, Stale
  <1>4. \A k \in dels' : TrueBy(meaning, den, k, rows[k].val)
    BY <1>3 DEF Truth, RowsTrue
  <1>5. \A k \in dels' : TrueBy(meaning, den, <<k[1], Find(k[2])>>, Find(rows[k].val))
    BY <1>2, <1>4 DEF TrueBy
  <1>6. \A s \in ins' : \E k \in dels' : s.key = <<k[1], Find(k[2])>> /\ s.val = Find(rows[k].val)
    BY <1>1 DEF Stage
  <1>7. StagedTrue'
    <2>1. \A s \in ins' : TrueBy(meaning', den', s.key, s.val)
      BY <1>1, <1>5, <1>6
    <2>2. \A p \in uns' : den'[p[1]] = den'[p[2]]
      BY <1>1 DEF Truth, StagedTrue
    <2> QED
      BY <2>1, <2>2 DEF StagedTrue
  <1>8. \A i \in Id : i < nextId => den'[i] = den[i]
    BY <1>1
  <1> QED
    BY <1>1, <1>7, <1>8, KeepTruth DEF Truth

LEMMA TruthKept == TypeOK /\ Truth /\ [Next]_vars => Truth'
  <1> SUFFICES ASSUME TypeOK, Truth, [Next]_vars PROVE Truth'
    OBVIOUS
  <1>1. CASE \/ \E k \in Key : AddTerm(k)
             \/ \E new \in Batches : AddValues(new)
             \/ \E rs \in Schedules : RunRules(rs)
    BY <1>1, TruthOfAddTerm, TruthOfAddValues, TruthOfRunRules
  <1>2. CASE Step
    <2>1. CASE (\E m \in todo, w \in Worker : PickMatch(m, w)) \/ StopEarly \/ DoPanic \/ EndSearch
      BY <2>1, TruthOfMatching
    <2>2. CASE DoLookup \/ DoGet \/ DoSet \/ DoUnion \/ DoRemove \/ DoSubsume
      BY <2>2, TruthOfLookup, TruthOfGet, TruthOfSet, TruthOfUnion, TruthOfRemove, TruthOfSubsume
    <2>3. CASE EndMerge \/ EndPass
      <3>1. UNCHANGED <<leader, rows, ins, uns, todo, cur, predicted, meaning, den>>
        BY <2>3 DEF EndMerge, EndPass, staged, running
      <3> QED
        BY <3>1, KeepTruth DEF Truth
    <2>4. CASE \E f \in Fn : MergeRemovals(f)
      BY <2>4, TruthOfRemovals
    <2>5. CASE \E s \in ins : MergeRow(s)
      BY <2>5, TruthOfRow
    <2>6. CASE \E p \in uns : MergeUnion(p)
      BY <2>6, TruthOfMergeUnion
    <2>7. CASE \E incremental \in SUBSET Fn : RebuildPass(incremental)
      BY <2>7, TruthOfRebuild
    <2> QED
      BY <1>2, <2>1, <2>2, <2>3, <2>4, <2>5, <2>6, <2>7 DEF Step
  <1>3. CASE UNCHANGED vars
    <2>1. UNCHANGED <<leader, rows, ins, uns, todo, cur, predicted, meaning, den>>
      BY <1>3 DEF vars, egraph, staged, running, history
    <2> QED
      BY <2>1, KeepTruth DEF Truth
  <1> QED
    BY <1>1, <1>2, <1>3 DEF Next

(* Whatever the rules and the interpretation in which they and the callers' rows are *)
(* true, the e-graph equates only ids that stand for the same and keeps only true    *)
(* rows: congruence by merge and rebuild, predicted ids, early stops, panics and     *)
(* failed runs included, in every interleaving of matches, merges and passes.        *)
THEOREM SaturationIsSound == Spec => []Sound
  <1>1. Init => TypeOK /\ Truth
    BY InitTypes, InitTruth
  <1>2. TypeOK /\ Truth /\ [Next]_vars => TypeOK' /\ Truth'
    BY TypesKept, TruthKept
  <1>3. TypeOK /\ Truth => Sound
    BY TruthIsSound
  <1> QED
    BY <1>1, <1>2, <1>3, PTL DEF Spec

-----------------------------------------------------------------------------
(* Equality to come: what every map that respects the union-find and the staged     *)
(* unions takes for equal.  It only ever grows, whatever order unions are merged in. *)
Respecting ==
    {g \in [Id -> Id] : (\A i \in Id : g[i] = g[leader[i]]) /\ \A p \in uns : g[p[1]] = g[p[2]]}
At(g, v) == IF v \in Id THEN g[v] ELSE v
EqualBy(R, a, b) == \A g \in R : At(g, a) = At(g, b)
Equal(a, b) == EqualBy(Respecting, a, b)

(* A row that stands for f(x) = v, and is subsumed if b says so.                     *)
ServesBy(R, k, u, s, f, x, v, b) ==
    k[1] = f /\ EqualBy(R, k[2], x) /\ (f \notin NoMerge => EqualBy(R, u, v)) /\ (b => s)
Serves(k, u, s, f, x, v, b) == ServesBy(Respecting, k, u, s, f, x, v, b)

(* f(x) = v was asserted: it was removed since, or its row is staged or in the table. *)
Kept(f, x, v, b) ==
    \/ \E k \in dropped : k[1] = f /\ Equal(k[2], x)
    \/ \E s \in ins : Serves(s.key, s.val, s.sub, f, x, v, b)
    \/ \E k \in Key : rows[k] # None /\ Serves(k, rows[k].val, rows[k].sub, f, x, v, b)

(* A staged removal is one that a rule asked for, or of a row that a pass has staged  *)
(* again in its canonical form.                                                       *)
Removals ==
    /\ pc \in {"act", "merge"} => dels \subseteq dropped
    /\ pc = "pass" => \A k \in dels : rows[k] # None =>
          \E s \in ins : Serves(s.key, s.val, s.sub, k[1], k[2], rows[k].val, rows[k].sub)

Phases ==
    /\ pc \in {"idle", "rebuild"} => ins = {} /\ dels = {} /\ uns = {} /\ ~changed
    /\ pc \in {"idle", "act"} => ~grew
    /\ pc # "act" => todo = {} /\ cur = None /\ \A w \in Worker, k \in Key : predicted[w][k] = None

Asserted ==
    /\ \A f \in facts : Kept(f.key[1], f.key[2], f.val, FALSE)
    /\ \A e \in eqs : Equal(e[1], e[2])

(* The values of the rows, of what is staged, bound by matches and predicted are in T; *)
(* not those of a row that a pass is about to replace.                                 *)
UsesOnly(T) ==
    /\ \A k \in Key : rows[k] # None /\ (pc = "pass" => k \notin dels) => {k[2], rows[k].val} \subseteq T
    /\ \A s \in ins : {s.key[2], s.val} \subseteq T
    /\ \A m \in todo : \A n \in DOMAIN m.env : m.env[n] \in T
    /\ cur # None => \A n \in DOMAIN cur.env : cur.env[n] \in T
    /\ \A w \in Worker, k \in Key : predicted[w][k] # None => predicted[w][k] \in T

(* No id is in use that a table's incremental rebuilds no longer look for.             *)
CaughtUp == \A f \in Fn : seen[f] \subseteq Displaced /\ UsesOnly(Value \ seen[f])

(* As long as nothing is displaced after a rebuild, all that is in use is canonical.   *)
Canonicals == {v \in Value : Canonical(v)}
Undisturbed == pc \in {"idle", "act", "merge"} /\ ~unbuilt /\ ~grew => UsesOnly(Canonicals)

(* A pass that has changed nothing so far has only staged what it had to.              *)
PassComplete ==
    pc = "pass" /\ ~changed =>
       /\ uns = {}
       /\ \A k \in Key : Stale(k) => k \in dels
       /\ \A k \in dels : rows[k] # None
       /\ \A s \in ins : \E k \in dels : k[1] = s.key[1]

Closing == Removals /\ Phases /\ Asserted /\ CaughtUp /\ Undisturbed /\ PassComplete
LEMMA EqualLaws ==
    /\ \A R, a : EqualBy(R, a, a)
    /\ \A R, a, b : EqualBy(R, a, b) => EqualBy(R, b, a)
    /\ \A R, a, b, c : EqualBy(R, a, b) /\ EqualBy(R, b, c) => EqualBy(R, a, c)
  BY DEF EqualBy

LEMMA EqualToLeader ==
    ASSUME LeadersOK, NEW v
    PROVE  Equal(v, Find(v))
  <1>1. v \in Id => leader[v] \in Id
    BY DEF LeadersOK
  <1> QED
    BY <1>1 DEF Equal, EqualBy, Respecting, At, Find

(* Without unions left to merge the union-find has the last word.                     *)
LEMMA EqualIsFound ==
    ASSUME LeadersOK, uns = {}, NEW a, NEW b, Equal(a, b)
    PROVE  Find(a) = Find(b)
  <1>1. leader \in Respecting
    BY DEF LeadersOK, Respecting
  <1> QED
    BY <1>1 DEF Equal, EqualBy, At, Find

(* Uniting two classes respects no map that did not respect the union.                *)
LEMMA UniteRespects ==
    ASSUME TypeOK, NEW p \in uns, MergeUnion(p)
    PROVE  Respecting' \subseteq Respecting
  <1>1. p[1] \in Id /\ p[2] \in Id /\ LeadersOK
    BY DEF TypeOK, StagedOK
  <1>2. uns' = uns \ {p}
    BY DEF MergeUnion
  <1> SUFFICES ASSUME NEW g \in Respecting' PROVE g \in Respecting
    OBVIOUS
  <1>3. /\ g \in [Id -> Id]
        /\ \A i \in Id : g[i] = g[leader'[i]]
        /\ \A q \in uns \ {p} : g[q[1]] = g[q[2]]
    BY <1>2 DEF Respecting
  <1>4. CASE leader[p[1]] = leader[p[2]]
    <2>1. leader' = leader
      BY <1>4 DEF MergeUnion
    <2>2. g[p[1]] = g[p[2]]
      BY <1>1, <1>3, <1>4, <2>1
    <2> QED
      BY <1>3, <2>1, <2>2 DEF Respecting
  <1>5. CASE leader[p[1]] # leader[p[2]]
    <2> DEFINE a == leader[p[1]]
               b == leader[p[2]]
               root == IF a < b THEN a ELSE b
    <2>1. leader' = [i \in Id |-> IF leader[i] \in {a, b} THEN root ELSE leader[i]]
      BY <1>5 DEF MergeUnion, Unite
    <2> HIDE DEF root
    <2>2. \A i \in Id : leader[i] \in {a, b} => g[i] = g[root]
      BY <1>3, <2>1
    <2>3. \A i \in Id : leader[i] \in Id /\ leader[leader[i]] = leader[i]
      BY <1>1 DEF LeadersOK
    <2>4. \A i \in Id : g[i] = g[leader[i]]
      BY <1>3, <2>1, <2>2, <2>3
    <2>5. g[p[1]] = g[p[2]]
      BY <1>1, <2>2
    <2> QED
      BY <1>3, <2>4, <2>5 DEF Respecting
  <1> QED
    BY <1>4, <1>5

LEMMA LeaderSteps ==
    ASSUME [Next]_vars
    PROVE  (leader' = leader /\ uns \subseteq uns') \/ \E p \in uns : MergeUnion(p)
  <1>1. CASE UNCHANGED vars
    BY <1>1 DEF vars, egraph, staged
  <1>2. CASE (\E k \in Key : AddTerm(k)) \/ (\E new \in Batches : AddValues(new))
               \/ (\E rs \in Schedules : RunRules(rs))
    BY <1>2 DEF AddTerm, AddValues, RunRules, egraph, staged
  <1>3. CASE \/ \E m \in todo, w \in Worker : PickMatch(m, w)
             \/ StopEarly \/ DoLookup \/ DoGet \/ DoSet \/ DoUnion
    BY <1>3 DEF PickMatch, StopEarly, DoLookup, DoGet, DoSet, DoUnion, egraph, staged
  <1>4. CASE DoRemove \/ DoSubsume \/ DoPanic \/ EndSearch \/ EndMerge \/ EndPass
    BY <1>4 DEF DoRemove, DoSubsume, DoPanic, EndSearch, EndMerge, EndPass, egraph, staged
  <1>5. CASE \/ \E f \in Fn : MergeRemovals(f)
             \/ \E s \in ins : MergeRow(s)
             \/ \E incremental \in SUBSET Fn : RebuildPass(incremental)
    BY <1>5 DEF MergeRemovals, MergeRow, RebuildPass
  <1> QED
    BY <1>1, <1>2, <1>3, <1>4, <1>5 DEF Next, Step

(* No step takes back an equality.                                                    *)
LEMMA EqualsGrow ==
    ASSUME TypeOK, [Next]_vars
    PROVE  /\ \A a, b : Equal(a, b) => EqualBy(Respecting', a, b)
           /\ \A a, b : Equal(a, b)' <=> EqualBy(Respecting', a, b)
  <1>1. leader' = leader /\ uns \subseteq uns' => Respecting' \subseteq Respecting
    BY DEF Respecting
  <1>2. Respecting' \subseteq Respecting
    BY <1>1, LeaderSteps, UniteRespects
  <1> QED
    BY <1>2 DEF Equal, EqualBy

LEMMA ServesGrows ==
    ASSUME TypeOK, [Next]_vars
    PROVE  /\ \A k, u, s, f, x, v, b :
                 Serves(k, u, s, f, x, v, b) => ServesBy(Respecting', k, u, s, f, x, v, b)
           /\ \A k, u, s, f, x, v, b :
                 Serves(k, u, s, f, x, v, b)' <=> ServesBy(Respecting', k, u, s, f, x, v, b)
  <1>1. \A a, b : EqualBy(Respecting, a, b) => EqualBy(Respecting', a, b)
    BY EqualsGrow DEF Equal
  <1> QED
    BY <1>1 DEF Serves, ServesBy

(* A row as good as one that serves serves as well.                                   *)
LEMMA ServesAlike ==
    ASSUME NEW R, NEW k, NEW u, NEW s, NEW j, NEW w, NEW t, NEW f, NEW x, NEW v, NEW b,
           ServesBy(R, j, w, t, f, x, v, b), ServesBy(R, k, u, s, j[1], j[2], w, t)
    PROVE  ServesBy(R, k, u, s, f, x, v, b)
  <1>1. k[1] = f /\ EqualBy(R, k[2], x)
    BY EqualLaws DEF ServesBy
  <1>2. f \notin NoMerge => EqualBy(R, u, v)
    BY EqualLaws DEF ServesBy
  <1> QED
    BY <1>1, <1>2 DEF ServesBy

(* What the steps do to the tables and to what is staged, but for the merges of rows. *)
LEMMA StepKinds ==
    ASSUME TypeOK, Phases, [Next]_vars
    PROVE  \/ rows' = rows /\ ins \subseteq ins' /\ dropped \subseteq dropped'
           \/ \E f \in Fn : MergeRemovals(f)
           \/ \E s \in ins : MergeRow(s)
  <1> USE DEF egraph, staged, history
  <1>1. CASE UNCHANGED vars
    BY <1>1 DEF vars
  <1>2. CASE (\E k \in Key : AddTerm(k)) \/ (\E new \in Batches : AddValues(new))
    BY <1>2 DEF AddTerm, AddValues, Begin, Phases
  <1>3. CASE \E rs \in Schedules : RunRules(rs)
    BY <1>3 DEF RunRules
  <1>4. CASE (\E m \in todo, w \in Worker : PickMatch(m, w)) \/ StopEarly \/ DoGet \/ DoSet \/ DoUnion
    BY <1>4 DEF PickMatch, StopEarly, DoGet, DoSet, DoUnion
  <1>5. CASE DoLookup \/ DoSubsume
    BY <1>5 DEF DoLookup, DoSubsume, InsertUnknown
  <1>6. CASE DoRemove \/ DoPanic \/ EndSearch \/ EndMerge \/ EndPass
    BY <1>6 DEF DoRemove, DoPanic, EndSearch, EndMerge, EndPass
  <1>7. CASE \E p \in uns : MergeUnion(p)
    BY <1>7 DEF MergeUnion
  <1>8. CASE \E incremental \in SUBSET Fn : RebuildPass(incremental)
    BY <1>8 DEF RebuildPass, Phases
  <1> QED
    BY <1>1, <1>2, <1>3, <1>4, <1>5, <1>6, <1>7, <1>8 DEF Next, Step

(* The row that a merge leaves at the key of a staged row.                            *)
LEMMA MergedRow ==
    ASSUME TypeOK, NEW s \in ins, MergeRow(s)
    PROVE  LET k == s.key
           IN  /\ k \in Key /\ k[1] \in Fn /\ rows'[k] # None /\ k \notin dels
               /\ \A j \in Key : j # k => rows'[j] = rows[j]
               /\ rows[k] = None => rows'[k] = [val |-> s.val, sub |-> s.sub, ts |-> now]
               /\ rows[k] # None =>
                     /\ rows'[k].val = MergedVal(k[1], rows[k].val, s.val)
                     /\ rows'[k].sub = MergedSub(rows[k].sub, s.sub)
                     /\ rows'[k] = rows[k] \/ rows'[k].ts = now
                     /\ k[1] \notin NoMerge => rows[k].val = s.val \/ <<rows[k].val, s.val>> \in uns'
  <1> DEFINE k == s.key
             old == rows[k]
             val == MergedVal(k[1], old.val, s.val)
             sub == MergedSub(old.sub, s.sub)
             same == old # None /\ val = old.val /\ sub = old.sub
             new == [val |-> IF old = None THEN s.val ELSE val,
                     sub |-> IF old = None THEN s.sub ELSE sub, ts |-> now]
  <1>1. k \in Key /\ k[1] \in Fn /\ s.val \in Value /\ s.sub \in BOOLEAN
    BY ValuesAssumption DEF TypeOK, StagedOK, Key
  <1>2. rows' = IF same THEN rows ELSE [rows EXCEPT ![k] = new]
    BY DEF MergeRow
  <1>3. uns' = IF old = None \/ old.val = s.val \/ k[1] \in NoMerge THEN uns
               ELSE uns \cup {<<old.val, s.val>>}
    BY DEF MergeRow
  <1>4. k \notin dels
    BY DEF MergeRow
  <1>5. rows \in [Key -> {None} \cup [val : Value, sub : BOOLEAN, ts : Nat]]
    BY DEF TypeOK, RowsOK
  <1>6. rows'[k] = IF same THEN old ELSE new
    BY <1>1, <1>2, <1>5
  <1>7. \A j \in Key : j # k => rows'[j] = rows[j]
    BY <1>1, <1>2, <1>5
  <1>8. new # None
    <2>1. new \in [val : Value, sub : BOOLEAN, ts : Nat]
      <3>1. old # None => old.val \in Value /\ old.sub \in BOOLEAN
        BY <1>1, RowIsThere
      <3>2. val \in {old.val, s.val} /\ (old # None => sub \in BOOLEAN)
        BY <1>1, <3>1 DEF MergedVal, MergedSub
      <3> QED
        BY <1>1, <3>1, <3>2, Controls
    <2> QED
      BY <2>1, NoneAssumption
  <1> HIDE DEF new, same
  <1>9. rows'[k] # None
    BY <1>6, <1>8 DEF same
  <1>10. old = None => rows'[k] = [val |-> s.val, sub |-> s.sub, ts |-> now]
    BY <1>6 DEF new, same
  <1>11. old # None => rows'[k].val = val /\ rows'[k].sub = sub /\ (rows'[k] = old \/ rows'[k].ts = now)
    BY <1>6 DEF new, same
  <1>12. old # None /\ k[1] \notin NoMerge => old.val = s.val \/ <<old.val, s.val>> \in uns'
    BY <1>3
  <1> QED
    BY <1>1, <1>4, <1>7, <1>9, <1>10, <1>11, <1>12

(* The merged row serves for the one staged and for the one that was there.           *)
LEMMA MergedServes ==
    ASSUME TypeOK, NEW s \in ins, MergeRow(s)
    PROVE  LET k == s.key
               old == rows[k]
               new == rows'[k]
               R == Respecting'
           IN  /\ ServesBy(R, k, new.val, new.sub, k[1], k[2], s.val, s.sub)
               /\ old # None => ServesBy(R, k, new.val, new.sub, k[1], k[2], old.val, old.sub)
  <1> DEFINE k == s.key
             old == rows[k]
             new == rows'[k]
             R == Respecting'
  <1>1. s.sub \in BOOLEAN /\ k \in Key /\ s.val \in ValueOf(k[1])
    BY DEF TypeOK, StagedOK, GoodFact
  <1>2. CASE old = None
    <2>1. new = [val |-> s.val, sub |-> s.sub, ts |-> now]
      BY <1>2, MergedRow
    <2> HIDE DEF new
    <2>2. new.val = s.val /\ new.sub = s.sub
      BY <2>1
    <2> QED
      BY <1>2, <2>2, EqualLaws DEF ServesBy, new
  <1>3. CASE old # None
    <2>1. old.val \in ValueOf(k[1]) /\ old.sub \in BOOLEAN
      BY <1>1, <1>3, RowIsThere
    <2>2. new.val = MergedVal(k[1], old.val, s.val) /\ new.sub = (old.sub \/ s.sub)
      BY <1>3, MergedRow DEF MergedSub
    <2>3. new.val \in {old.val, s.val}
      BY <2>2 DEF MergedVal
    <2>4. k[1] \notin NoMerge => EqualBy(R, old.val, s.val)
      <3> SUFFICES ASSUME k[1] \notin NoMerge PROVE EqualBy(R, old.val, s.val)
        OBVIOUS
      <3>1. old.val \in Id /\ s.val \in Id
        BY <1>1, <2>1 DEF ValueOf
      <3>2. old.val = s.val \/ <<old.val, s.val>> \in uns'
        BY <1>3, MergedRow
      <3>3. \A g \in R : g[old.val] = g[s.val]
        BY <3>2 DEF Respecting
      <3> HIDE DEF old, R
      <3> QED
        BY <3>1, <3>3 DEF EqualBy, At
    <2> HIDE DEF old, new, R
    <2>5. k[1] \notin NoMerge => EqualBy(R, new.val, s.val) /\ EqualBy(R, new.val, old.val)
      BY <2>3, <2>4, EqualLaws
    <2>6. (s.sub => new.sub) /\ (old.sub => new.sub)
      BY <2>2
    <2>7. ServesBy(R, k, new.val, new.sub, k[1], k[2], s.val, s.sub)
      BY <2>5, <2>6, EqualLaws DEF ServesBy
    <2>8. ServesBy(R, k, new.val, new.sub, k[1], k[2], old.val, old.sub)
      BY <2>5, <2>6, EqualLaws DEF ServesBy
    <2> QED
      BY <2>7, <2>8 DEF old, new, R
  <1> QED
    BY <1>2, <1>3

LEMMA KeptNext ==
    \A f, x, v, b : Kept(f, x, v, b)' <=>
       \/ \E k \in dropped' : k[1] = f /\ EqualBy(Respecting', k[2], x)
       \/ \E s \in ins' : ServesBy(Respecting', s.key, s.val, s.sub, f, x, v, b)
       \/ \E k \in Key : rows'[k] # None /\ ServesBy(Respecting', k, rows'[k].val, rows'[k].sub, f, x, v, b)
  BY DEF Kept, Serves, Equal

(* What was asserted is kept by every step: by merges, in which rows collide and      *)
(* unite their values, by the removals, and by the passes of a rebuild.               *)
LEMMA KeptStays ==
    ASSUME TypeOK, Phases, Removals, [Next]_vars
    PROVE  \A f, x, v, b : Kept(f, x, v, b) => Kept(f, x, v, b)'
  <1> SUFFICES ASSUME NEW f, NEW x, NEW v, NEW b, Kept(f, x, v, b) PROVE Kept(f, x, v, b)'
    OBVIOUS
  <1> DEFINE R == Respecting'
             Good(k, u, s) == ServesBy(R, k, u, s, f, x, v, b)
  <1>1. \A k, u, s : Serves(k, u, s, f, x, v, b) => Good(k, u, s)
    BY ServesGrows
  <1>2. \A k : Equal(k[2], x) => EqualBy(R, k[2], x)
    BY EqualsGrow
  <1>3. ASSUME \/ \E k \in dropped' : k[1] = f /\ EqualBy(R, k[2], x)
               \/ \E s \in ins' : Good(s.key, s.val, s.sub)
               \/ \E k \in Key : rows'[k] # None /\ Good(k, rows'[k].val, rows'[k].sub)
        PROVE  Kept(f, x, v, b)'
    BY <1>3, KeptNext
  <1>4. \/ \E k \in dropped : k[1] = f /\ Equal(k[2], x)
        \/ \E s \in ins : Serves(s.key, s.val, s.sub, f, x, v, b)
        \/ \E k \in Key : rows[k] # None /\ Serves(k, rows[k].val, rows[k].sub, f, x, v, b)
    BY DEF Kept
  <1>5. \/ \E k \in dropped : k[1] = f /\ EqualBy(R, k[2], x)
        \/ \E s \in ins : Good(s.key, s.val, s.sub)
        \/ \E k \in Key : rows[k] # None /\ Good(k, rows[k].val, rows[k].sub)
                          /\ Serves(k, rows[k].val, rows[k].sub, f, x, v, b)
    BY <1>1, <1>2, <1>4
  <1> HIDE DEF Good
  <1>6. CASE rows' = rows /\ ins \subseteq ins' /\ dropped \subseteq dropped'
    BY <1>3, <1>5, <1>6
  <1>7. ASSUME NEW g \in Fn, MergeRemovals(g) PROVE Kept(f, x, v, b)'
    <2>1. /\ ins' = ins /\ dropped' = dropped
          /\ \A k \in Key : rows'[k] = IF k \in dels /\ k[1] = g THEN None ELSE rows[k]
          /\ pc \in {"merge", "pass"}
      BY <1>7 DEF MergeRemovals, Merging, history
    <2>2. CASE \/ \E k \in dropped : k[1] = f /\ EqualBy(R, k[2], x)
               \/ \E s \in ins : Good(s.key, s.val, s.sub)
      BY <1>3, <2>1, <2>2
    <2>3. ASSUME NEW k \in Key, rows[k] # None, Good(k, rows[k].val, rows[k].sub),
                 Serves(k, rows[k].val, rows[k].sub, f, x, v, b)
          PROVE  Kept(f, x, v, b)'
      <3>1. CASE k \notin dels
        <4>1. rows'[k] = rows[k]
          BY <2>1, <3>1
        <4> QED
          BY <1>3, <2>3, <4>1
      <3>2. CASE k \in dels /\ pc = "merge"
        <4>1. k \in dropped /\ k[1] = f /\ EqualBy(R, k[2], x)
          BY <1>2, <2>3, <3>2 DEF Removals, Serves, ServesBy, Equal
        <4> QED
          BY <1>3, <2>1, <4>1
      <3>3. CASE k \in dels /\ pc = "pass"
        <4>1. PICK s \in ins : Serves(s.key, s.val, s.sub, k[1], k[2], rows[k].val, rows[k].sub)
          BY <2>3, <3>3 DEF Removals
        <4>2. Serves(s.key, s.val, s.sub, f, x, v, b)
          BY <2>3, <4>1, ServesAlike DEF Serves
        <4> QED
          BY <1>1, <1>3, <2>1, <4>2
      <3> QED
        BY <2>1, <3>1, <3>2, <3>3
    <2> QED
      BY <1>5, <2>2, <2>3
  <1>8. ASSUME NEW t \in ins, MergeRow(t) PROVE Kept(f, x, v, b)'
    <2> DEFINE j == t.key
               old == rows[j]
               new == rows'[j]
    <2>1. ins' = ins \ {t} /\ dropped' = dropped
      BY <1>8 DEF MergeRow, history
    <2>2. j \in Key /\ new # None /\ \A k \in Key : k # j => rows'[k] = rows[k]
      BY <1>8, MergedRow
    <2>3. ServesBy(R, j, new.val, new.sub, j[1], j[2], t.val, t.sub)
      BY <1>8, MergedServes
    <2>4. old # None => ServesBy(R, j, new.val, new.sub, j[1], j[2], old.val, old.sub)
      BY <1>8, MergedServes
    <2>5. Good(j, new.val, new.sub) => Kept(f, x, v, b)'
      BY <1>3, <2>2
    <2>6. CASE \E k \in dropped : k[1] = f /\ EqualBy(R, k[2], x)
      BY <1>3, <2>1, <2>6
    <2>7. ASSUME NEW s \in ins, Good(s.key, s.val, s.sub) PROVE Kept(f, x, v, b)'
      <3>1. CASE s # t
        BY <1>3, <2>1, <2>7, <3>1
      <3>2. CASE s = t
        <4> HIDE DEF new, R
        <4>1. Good(j, new.val, new.sub)
          BY <2>3, <2>7, <3>2, ServesAlike DEF Good
        <4> QED
          BY <2>5, <4>1
      <3> QED
        BY <3>1, <3>2
    <2>8. ASSUME NEW k \in Key, rows[k] # None, Good(k, rows[k].val, rows[k].sub) PROVE Kept(f, x, v, b)'
      <3>1. CASE k # j
        BY <1>3, <2>2, <2>8, <3>1
      <3>2. CASE k = j
        <4>1. old # None /\ Good(j, old.val, old.sub)
          BY <2>8, <3>2
        <4> HIDE DEF new, old, R
        <4>2. Good(j, new.val, new.sub)
          BY <2>4, <4>1, ServesAlike DEF Good
        <4> QED
          BY <2>5, <4>2
      <3> QED
        BY <3>1, <3>2
    <2> QED
      BY <1>5, <2>6, <2>7, <2>8
  <1> QED
    BY <1>6, <1>7, <1>8, StepKinds

LEMMA PhasesKept ==
    ASSUME TypeOK, Phases, [Next]_vars
    PROVE  Phases'
  <1> USE DEF egraph, staged, running, Phases
  <1>1. CASE UNCHANGED vars
    BY <1>1 DEF vars
  <1>2. CASE (\E k \in Key : AddTerm(k)) \/ (\E new \in Batches : AddValues(new))
    BY <1>2 DEF AddTerm, AddValues, Begin
  <1>3. CASE \E rs \in Schedules : RunRules(rs)
    BY <1>3 DEF RunRules
  <1>4. CASE (\E m \in todo, w \in Worker : PickMatch(m, w)) \/ StopEarly
    BY <1>4 DEF PickMatch, StopEarly
  <1>5. CASE DoLookup \/ DoGet \/ DoSet \/ DoUnion \/ DoRemove \/ DoSubsume \/ DoPanic
    <2>1. pc = "act" /\ pc' = "act" /\ grew' = grew
      BY <1>5 DEF DoLookup, DoGet, DoSet, DoUnion, DoRemove, DoSubsume, DoPanic, Act
    <2> QED
      BY <2>1
  <1>6. CASE EndSearch
    BY <1>6 DEF EndSearch
  <1>7. CASE \/ \E f \in Fn : MergeRemovals(f)
             \/ \E s \in ins : MergeRow(s)
             \/ \E p \in uns : MergeUnion(p)
    <2>1. pc \in {"merge", "pass"} /\ pc' = pc /\ UNCHANGED <<todo, cur, predicted>>
      BY <1>7 DEF MergeRemovals, MergeRow, MergeUnion, Merging
    <2> QED
      BY <2>1
  <1>8. CASE EndMerge \/ EndPass
    <2>1. /\ pc \in {"merge", "pass"} /\ pc' \in {"idle", "rebuild"}
          /\ UNCHANGED <<ins, dels, uns, todo, cur, predicted>>
          /\ ins = {} /\ dels = {} /\ uns = {} /\ changed' = FALSE /\ grew' = FALSE
      BY <1>8 DEF EndMerge, EndPass, Merged
    <2> QED
      BY <2>1
  <1>9. CASE \E incremental \in SUBSET Fn : RebuildPass(incremental)
    BY <1>9 DEF RebuildPass
  <1> QED
    BY <1>1, <1>2, <1>3, <1>4, <1>5, <1>6, <1>7, <1>8, <1>9 DEF Next, Step

(* The steps of a rebuild's merge.                                                    *)
LEMMA PassSteps ==
    ASSUME Phases, [Next]_vars, pc' = "pass"
    PROVE  \/ \E incremental \in SUBSET Fn : RebuildPass(incremental)
           \/ /\ pc = "pass"
              /\ \/ \E f \in Fn : MergeRemovals(f)
                 \/ \E s \in ins : MergeRow(s)
                 \/ \E p \in uns : MergeUnion(p)
                 \/ UNCHANGED vars
  <1>1. ~(\/ \E k \in Key : AddTerm(k)
          \/ \E new \in Batches : AddValues(new)
          \/ \E rs \in Schedules : RunRules(rs))
    BY DEF AddTerm, AddValues, RunRules
  <1>2. ~(\/ \E m \in todo, w \in Worker : PickMatch(m, w)
          \/ StopEarly \/ DoLookup \/ DoGet \/ DoSet \/ DoUnion)
    BY DEF PickMatch, StopEarly, DoLookup, DoGet, DoSet, DoUnion, Act
  <1>3. ~(DoRemove \/ DoSubsume \/ DoPanic \/ EndSearch \/ EndMerge \/ EndPass)
    BY DEF DoRemove, DoSubsume, DoPanic, EndSearch, EndMerge, EndPass, Act
  <1>4. (\/ \E f \in Fn : MergeRemovals(f)
         \/ \E s \in ins : MergeRow(s)
         \/ \E p \in uns : MergeUnion(p)
         \/ UNCHANGED vars) => pc = "pass"
    BY DEF MergeRemovals, MergeRow, MergeUnion, vars
  <1> QED
    BY <1>1, <1>2, <1>3, <1>4 DEF Next, Step

LEMMA RemovalsKept ==
    ASSUME TypeOK, Phases, Removals, [Next]_vars
    PROVE  Removals'
  <1> USE DEF egraph, staged, running, history
  <1>1. ASSUME pc' \in {"act", "merge"} PROVE dels' \subseteq dropped'
    <2>1. CASE UNCHANGED vars
      BY <1>1, <2>1 DEF vars, Removals
    <2>2. CASE (\E k \in Key : AddTerm(k)) \/ (\E new \in Batches : AddValues(new))
                 \/ (\E rs \in Schedules : RunRules(rs))
      <3>1. pc = "idle" /\ dels' = dels
        BY <2>2 DEF AddTerm, AddValues, RunRules, Begin
      <3> QED
        BY <3>1 DEF Phases
    <2>3. CASE \/ \E m \in todo, w \in Worker : PickMatch(m, w)
               \/ StopEarly \/ DoLookup \/ DoGet \/ DoSet \/ DoUnion \/ DoSubsume \/ DoPanic \/ EndSearch
      <3>1. pc = "act" /\ dels' = dels /\ dropped' = dropped
        BY <2>3 DEF PickMatch, StopEarly, DoLookup, DoGet, DoSet, DoUnion, DoSubsume, DoPanic, EndSearch, Act
      <3> QED
        BY <3>1 DEF Removals
    <2>4. CASE DoRemove
      BY <2>4 DEF DoRemove, Act, Removals
    <2>5. CASE \/ \E f \in Fn : MergeRemovals(f)
               \/ \E s \in ins : MergeRow(s)
               \/ \E p \in uns : MergeUnion(p)
      <3>1. pc = pc' /\ dels' \subseteq dels /\ dropped' = dropped
        BY <2>5 DEF MergeRemovals, MergeRow, MergeUnion
      <3> QED
        BY <1>1, <3>1 DEF Removals
    <2>6. ~(EndMerge \/ EndPass \/ \E incremental \in SUBSET Fn : RebuildPass(incremental))
      BY <1>1 DEF EndMerge, EndPass, RebuildPass
    <2> QED
      BY <2>1, <2>2, <2>3, <2>4, <2>5, <2>6 DEF Next, Step
  <1>2. ASSUME pc' = "pass"
        PROVE  \A k \in dels' : rows'[k] # None =>
                  \E s \in ins' : ServesBy(Respecting', s.key, s.val, s.sub, k[1], k[2], rows'[k].val, rows'[k].sub)
    <2>1. CASE \E incremental \in SUBSET Fn : RebuildPass(incremental)
      <3>1. /\ UNCHANGED <<leader, rows, uns>> /\ \A k \in dels' : k \in Key
            /\ ins' = {Stage(<<k[1], Find(k[2])>>, Find(rows[k].val), rows[k].sub) : k \in dels'}
        BY <2>1 DEF RebuildPass, RebuiltKeys
      <3>2. Respecting' = Respecting
        BY <3>1 DEF Respecting
      <3>3. ASSUME NEW k \in dels' 
            PROVE  \E s \in ins' : ServesBy(Respecting', s.key, s.val, s.sub, k[1], k[2], rows'[k].val, rows'[k].sub)
        <4> DEFINE s == Stage(<<k[1], Find(k[2])>>, Find(rows[k].val), rows[k].sub)
        <4>1. s \in ins' /\ rows'[k] = rows[k]
          BY <3>1
        <4>2. s.key[1] = k[1] /\ s.key[2] = Find(k[2]) /\ s.val = Find(rows[k].val) /\ s.sub = rows[k].sub
          BY DEF Stage
        <4>3. EqualBy(Respecting, Find(k[2]), k[2]) /\ EqualBy(Respecting, Find(rows[k].val), rows[k].val)
          BY EqualLaws, EqualToLeader DEF TypeOK, Equal
        <4> HIDE DEF s
        <4> QED
          BY <3>2, <4>1, <4>2, <4>3 DEF ServesBy
      <3> QED
        BY <3>3
    <2>2. ASSUME pc = "pass", NEW k \in dels, rows[k] # None
          PROVE  \E s \in ins : /\ s.key[1] = k[1]
                                /\ ServesBy(Respecting', s.key, s.val, s.sub, k[1], k[2], rows[k].val, rows[k].sub)
      <3>1. PICK s \in ins : Serves(s.key, s.val, s.sub, k[1], k[2], rows[k].val, rows[k].sub)
        BY <2>2 DEF Removals
      <3>2. s.key[1] = k[1]
        BY <3>1 DEF Serves, ServesBy
      <3> QED
        BY <3>1, <3>2, ServesGrows
    <2>3. ASSUME pc = "pass", NEW f \in Fn, MergeRemovals(f)
          PROVE  /\ ins' = ins
                 /\ \A k \in dels' : k \in dels /\ rows'[k] = rows[k]
      BY <2>3 DEF MergeRemovals, TypeOK, StagedOK
    <2>4. ASSUME pc = "pass", NEW t \in ins, MergeRow(t)
          PROVE  /\ ins' = ins \ {t}
                 /\ \A k \in dels' : k \in dels /\ rows'[k] = rows[k] /\ k[1] # t.key[1]
      <3>1. ins' = ins \ {t} /\ dels' = dels /\ \A k \in dels : k[1] # t.key[1]
        BY <2>4 DEF MergeRow
      <3>2. \A k \in Key : k # t.key => rows'[k] = rows[k]
        BY <2>4, MergedRow
      <3> QED
        BY <3>1, <3>2 DEF TypeOK, StagedOK
    <2>5. CASE pc = "pass" /\ ((\E p \in uns : MergeUnion(p)) \/ UNCHANGED vars)
      <3>1. UNCHANGED <<ins, dels, rows>>
        BY <2>5 DEF MergeUnion, vars
      <3> QED
        BY <2>2, <2>5, <3>1
    <2>6. CASE pc = "pass" /\ \E f \in Fn : MergeRemovals(f)
      BY <2>2, <2>3, <2>6
    <2>7. CASE pc = "pass" /\ \E t \in ins : MergeRow(t)
      <3>1. PICK t \in ins : MergeRow(t)
        BY <2>7
      <3>2. /\ ins' = ins \ {t}
            /\ \A k \in dels' : k \in dels /\ rows'[k] = rows[k] /\ k[1] # t.key[1]
        BY <2>4, <2>7, <3>1
      <3> QED
        BY <2>2, <2>7, <3>2
    <2> QED
      BY <1>2, <2>1, <2>5, <2>6, <2>7, PassSteps
  <1> QED
    BY <1>1, <1>2 DEF Removals, Serves

(* A displaced id stays displaced: it never becomes a leader again.                   *)
LEMMA DisplacedStay ==
    ASSUME TypeOK, [Next]_vars
    PROVE  Displaced \subseteq Displaced'
  <1>1. CASE leader' = leader
    BY <1>1 DEF Displaced
  <1>2. ASSUME NEW p \in uns, MergeUnion(p), leader' # leader PROVE Displaced \subseteq Displaced'
    <2> DEFINE a == leader[p[1]]
               b == leader[p[2]]
               root == IF a < b THEN a ELSE b
    <2>1. leader' = [i \in Id |-> IF leader[i] \in {a, b} THEN root ELSE leader[i]]
      BY <1>2 DEF MergeUnion, Unite
    <2>2. p[1] \in Id /\ p[2] \in Id /\ \A i \in Id : leader[i] \in Id /\ leader[i] <= i
      BY DEF TypeOK, StagedOK, LeadersOK
    <2>3. root <= a /\ root <= b /\ root \in Id /\ a \in Id /\ b \in Id
      BY <2>2, ValuesAssumption DEF Id
    <2> HIDE DEF root, a, b
    <2>4. \A i \in Id : leader'[i] <= leader[i]
      BY <2>1, <2>2, <2>3, ValuesAssumption DEF Id
    <2>5. \A i \in Id : leader'[i] \in Id
      BY <2>1, <2>2, <2>3
    <2> QED
      BY <2>2, <2>4, <2>5, ValuesAssumption DEF Displaced, Id
  <1> QED
    BY <1>1, <1>2, LeaderSteps

(* An incremental rebuild finds all rows that a full one would.                       *)
LEMMA NothingSkipped ==
    ASSUME TypeOK, CaughtUp, pc # "pass", NEW k \in Key, Stale(k), NEW incremental
    PROVE  k \in RebuiltKeys(incremental)
  <1>1. k[1] \in Fn /\ rows[k] # None
    BY ValuesAssumption DEF Key, Stale
  <1>2. UsesOnly(Value \ seen[k[1]])
    BY <1>1 DEF CaughtUp
  <1>3. {k[2], rows[k].val} \cap seen[k[1]] = {}
    BY <1>1, <1>2 DEF UsesOnly
  <1>4. PICK v \in {k[2], rows[k].val} : Find(v) # v
    BY DEF Stale, Canonical
  <1>5. v \in Displaced
    BY <1>4 DEF Find, Displaced
  <1> QED
    BY <1>3, <1>4, <1>5 DEF RebuiltKeys

LEMMA PassCompleteKept ==
    ASSUME TypeOK, Phases, CaughtUp, PassComplete, [Next]_vars
    PROVE  PassComplete'
  <1> SUFFICES ASSUME pc' = "pass", ~changed' PROVE PassComplete'
    BY DEF PassComplete
  <1>1. CASE \E incremental \in SUBSET Fn : RebuildPass(incremental)
    <2>1. PICK incremental \in SUBSET Fn : RebuildPass(incremental)
      BY <1>1
    <2>2. /\ pc = "rebuild" /\ UNCHANGED <<leader, rows, uns>> /\ dels' = RebuiltKeys(incremental)
          /\ ins' = {Stage(<<k[1], Find(k[2])>>, Find(rows[k].val), rows[k].sub) : k \in dels'}
      BY <2>1 DEF RebuildPass
    <2>3. uns' = {}
      BY <2>2 DEF Phases
    <2>4. \A k \in Key : Stale(k) => k \in dels'
      BY <2>2, NothingSkipped
    <2>5. \A k \in Key : Stale(k)' => Stale(k)
      BY <2>2 DEF Stale, Canonical, Find
    <2>6. \A k \in dels' : rows'[k] # None
      BY <2>2 DEF RebuiltKeys, Stale
    <2>7. \A s \in ins' : \E k \in dels' : k[1] = s.key[1]
      BY <2>2 DEF Stage
    <2> QED
      BY <2>3, <2>4, <2>5, <2>6, <2>7 DEF PassComplete
  <1>2. ASSUME pc = "pass", NEW f \in Fn, MergeRemovals(f) PROVE FALSE
    <2>1. /\ changed' = (changed \/ \E k \in {k \in dels : k[1] = f} : rows[k] # None)
          /\ {k \in dels : k[1] = f} # {}
      BY <1>2 DEF MergeRemovals
    <2>2. ~changed
      BY <2>1
    <2>3. \A k \in dels : rows[k] # None
      BY <1>2, <2>2 DEF PassComplete
    <2> QED
      BY <2>1, <2>3
  <1>3. ASSUME pc = "pass", NEW s \in ins, MergeRow(s) PROVE FALSE
    <2>1. (changed => changed') /\ \A k \in dels : k[1] # s.key[1]
      BY <1>3 DEF MergeRow
    <2> QED
      BY <1>3, <2>1 DEF PassComplete
  <1>4. ASSUME pc = "pass", NEW p \in uns, MergeUnion(p) PROVE FALSE
    <2>1. changed => changed'
      BY <1>4 DEF MergeUnion
    <2> QED
      BY <1>4, <2>1 DEF PassComplete
  <1>5. CASE UNCHANGED vars
    <2>1. UNCHANGED <<leader, rows, ins, dels, uns, pc, changed>>
      BY <1>5 DEF vars, egraph, staged
    <2>2. \A k \in Key : Stale(k)' <=> Stale(k)
      BY <2>1 DEF Stale, Canonical, Find
    <2> QED
      BY <2>1, <2>2 DEF PassComplete
  <1> QED
    BY <1>1, <1>2, <1>3, <1>4, <1>5, PassSteps

(* The values that a step takes up are the callers', which are canonical, constants,  *)
(* new ids, and values in use already.                                                *)
LEMMA UsedInRules ==
    ASSUME TypeOK, NEW T, UsesOnly(T), Canonicals \subseteq T, pc # "pass",
           NEW r \in RuleName, NEW e \in Matches(r)
    PROVE  \A n \in DOMAIN e : e[n] \in T
  <1>1. DOMAIN e = Vars(r) \cup DOMAIN Consts(r)
    BY MatchesFound, ScopeStarts DEF GoodEnv
  <1>2. \A i \in DOMAIN Atoms(r) : e[Atoms(r)[i].arg] \in T /\ e[Atoms(r)[i].val] \in T
    <2> SUFFICES ASSUME NEW i \in DOMAIN Atoms(r)
                 PROVE  e[Atoms(r)[i].arg] \in T /\ e[Atoms(r)[i].val] \in T
      OBVIOUS
    <2> DEFINE a == Atoms(r)[i]
               k == KeyOf(a, e)
    <2>1. k \in Key /\ rows[k] # None /\ rows[k].val = e[a.val]
      BY RowsOfMatch
    <2>2. k[2] = e[a.arg]
      BY DEF KeyOf
    <2> HIDE DEF k
    <2> QED
      BY <2>1, <2>2 DEF UsesOnly
  <1>3. \A c \in DOMAIN Consts(r) : e[c] \in T
    <2> SUFFICES ASSUME NEW c \in DOMAIN Consts(r) PROVE e[c] \in T
      OBVIOUS
    <2>1. e \in Envs(r)
      BY DEF Matches
    <2>2. e[c] = Consts(r)[c] /\ Consts(r)[c] \in Lit
      BY <2>1, RuleFacts DEF Envs
    <2>3. e[c] \in Canonicals
      BY <2>2, ValuesAssumption DEF Canonicals, Canonical, Find, Value
    <2> QED
      BY <2>3
  <1> QED
    BY <1>1, <1>2, <1>3 DEF Vars

LEMMA UsedInActions ==
    ASSUME TypeOK, NEW T, UsesOnly(T), Canonicals \subseteq T, pc = "act", cur # None
    PROVE  /\ Instr.op \in {"lookup", "set", "remove", "subsume"} => ActKey[2] \in T
           /\ Instr.op \in {"set", "union"} => cur.env[Instr.val] \in T
           /\ Instr.op \in {"lookup", "subsume"} /\ rows[ActKey] # None => rows[ActKey].val \in T
           /\ Instr.op \in {"lookup", "subsume"} /\ nextId < MaxId => KnownVal(ActKey) \in T
           /\ nextId < MaxId => nextId \in T
  <1>1. cur.rule \in RuleName /\ cur.at \in DOMAIN Acts(cur.rule) /\ cur.worker \in Worker
        /\ DOMAIN cur.env = Scope(cur.rule, cur.at)
    BY ActFacts DEF TypeOK, MatchesOK, GoodEnv
  <1>2. \A n \in DOMAIN cur.env : cur.env[n] \in T
    BY DEF UsesOnly
  <1>3. Instr.op \in {"lookup", "set", "remove", "subsume"} => Instr.arg \in DOMAIN cur.env
    BY <1>1, RulesAssumption DEF WellFormed, Instr
  <1>4. Instr.op \in {"set", "union"} => Instr.val \in DOMAIN cur.env
    BY <1>1, RulesAssumption DEF WellFormed, Instr
  <1>5. Instr.op \in {"lookup", "set", "remove", "subsume"} => ActKey[2] \in T
    BY <1>2, <1>3 DEF ActKey, Arg
  <1>6. Instr.op \in {"lookup", "subsume"} => ActKey \in Key
    BY ActFacts
  <1>7. Instr.op \in {"lookup", "subsume"} /\ rows[ActKey] # None => rows[ActKey].val \in T
    BY <1>6 DEF UsesOnly
  <1>8. nextId < MaxId => nextId \in T
    <2>1. nextId < MaxId => nextId \in Id /\ leader[nextId] = nextId
      BY Same, ValuesAssumption DEF TypeOK, LeadersOK, Id
    <2>2. nextId < MaxId => nextId \in Canonicals
      BY <2>1 DEF Canonicals, Canonical, Find, Value
    <2> QED
      BY <2>2
  <1>9. Instr.op \in {"lookup", "subsume"} /\ nextId < MaxId => KnownVal(ActKey) \in T
    BY <1>1, <1>6, <1>7, <1>8 DEF KnownVal, UsesOnly
  <1> QED
    BY <1>2, <1>4, <1>5, <1>7, <1>8, <1>9

(* The four parts of UsesOnly that a step may leave alone.                            *)
LEMMA UsesKept ==
    ASSUME NEW T, UsesOnly(T)
    PROVE  /\ UNCHANGED rows /\ (pc = "pass" <=> pc' = "pass") /\ UNCHANGED dels =>
                 \A k \in Key : rows'[k] # None /\ (pc' = "pass" => k \notin dels') => {k[2], rows'[k].val} \subseteq T
           /\ ins' \subseteq ins => \A s \in ins' : {s.key[2], s.val} \subseteq T
           /\ todo' \subseteq todo => \A m \in todo' : \A n \in DOMAIN m.env : m.env[n] \in T
           /\ cur' \in {cur, None} /\ cur' # None => \A n \in DOMAIN cur'.env : cur'.env[n] \in T
           /\ predicted' = predicted => \A w \in Worker, k \in Key : predicted'[w][k] # None => predicted'[w][k] \in T
  BY DEF UsesOnly

(* The values in use after a match went on with the environment env.                  *)
LEMMA UsedByProceed ==
    ASSUME TypeOK, cur # None, NEW T, NEW env, Proceed(env), \A n \in DOMAIN env : env[n] \in T
    PROVE  cur' # None => \A n \in DOMAIN cur'.env : cur'.env[n] \in T
  <1>1. cur \in [rule : RuleName, env : {cur.env}, worker : Worker, at : DOMAIN Acts(cur.rule)]
    BY DEF TypeOK, MatchesOK
  <1>2. cur' = None \/ cur'.env = env
    BY <1>1 DEF Proceed
  <1> QED
    BY <1>2

LEMMA UsedByInsert ==
    ASSUME TypeOK, cur # None, NEW T, UsesOnly(T), Instr.op \in {"lookup", "subsume"}, NEW sub,
           nextId < MaxId => nextId \in T, ActKey[2] \in T, InsertUnknown(ActKey, sub)
    PROVE  /\ \A s \in ins' : {s.key[2], s.val} \subseteq T
           /\ \A w \in Worker, k \in Key : predicted'[w][k] # None => predicted'[w][k] \in T
  <1>1. CASE rows[ActKey] # None \/ predicted[cur.worker][ActKey] # None
    <2>1. UNCHANGED <<ins, predicted>>
      BY <1>1 DEF InsertUnknown
    <2> QED
      BY <2>1, UsesKept
  <1>2. CASE ~(rows[ActKey] # None \/ predicted[cur.worker][ActKey] # None)
    <2>1. /\ nextId \in T /\ ins' = ins \cup {Stage(ActKey, nextId, sub)}
          /\ predicted' = [predicted EXCEPT ![cur.worker][ActKey] = nextId]
      BY <1>2 DEF InsertUnknown
    <2>2. \A s \in ins' : {s.key[2], s.val} \subseteq T
      BY <2>1 DEF UsesOnly, Stage
    <2>3. \A w \in Worker, k \in Key : predicted'[w][k] \in {predicted[w][k], nextId}
      BY <2>1 DEF TypeOK, PredictedOK
    <2> QED
      BY <2>1, <2>2, <2>3 DEF UsesOnly
  <1> QED
    BY <1>1, <1>2

LEMMA UsesOnlyKept ==
    ASSUME TypeOK, Phases, NEW T, UsesOnly(T), Canonicals \subseteq T, [Next]_vars,
           ~ \E incremental \in SUBSET Fn : RebuildPass(incremental)
    PROVE  UsesOnly(T)'
  <1> DEFINE Row == \A k \in Key : rows'[k] # None /\ (pc' = "pass" => k \notin dels') => {k[2], rows'[k].val} \subseteq T
             Ins == \A s \in ins' : {s.key[2], s.val} \subseteq T
             Todo == \A m \in todo' : \A n \in DOMAIN m.env : m.env[n] \in T
             Cur == cur' # None => \A n \in DOMAIN cur'.env : cur'.env[n] \in T
             Pre == \A w \in Worker, k \in Key : predicted'[w][k] # None => predicted'[w][k] \in T
  <1> SUFFICES Row /\ Ins /\ Todo /\ Cur /\ Pre
    BY DEF UsesOnly
  <1>1. /\ UNCHANGED rows /\ (pc = "pass" <=> pc' = "pass") /\ UNCHANGED dels => Row
        /\ ins' \subseteq ins => Ins
        /\ todo' \subseteq todo => Todo
        /\ cur' \in {cur, None} => Cur
        /\ predicted' = predicted => Pre
    BY UsesKept
  <1>2. \A v \in Value : Canonical(v) => v \in T
    BY DEF Canonicals
  <1>3. nextId < MaxId => nextId \in T
    <2>1. nextId < MaxId => nextId \in Id /\ leader[nextId] = nextId
      BY Same, ValuesAssumption DEF TypeOK, LeadersOK, Id
    <2> QED
      BY <1>2, <2>1 DEF Canonical, Find, Value
  <1> HIDE DEF Row, Ins, Todo, Cur, Pre
  <1> USE DEF egraph, staged, running
  <1>4. CASE UNCHANGED vars
    BY <1>1, <1>4 DEF vars
  <1>5. ASSUME NEW k \in Key, AddTerm(k) PROVE Row /\ Ins /\ Todo /\ Cur /\ Pre
    <2>1. /\ pc = "idle" /\ pc' = "merge" /\ Canonical(k[2]) /\ nextId < MaxId
          /\ ins' = {Stage(k, nextId, FALSE)} /\ UNCHANGED <<rows, dels, todo, cur, predicted>>
      BY <1>5 DEF AddTerm, Begin
    <2>2. k[2] \in Value
      BY ValuesAssumption DEF Key, Value
    <2>3. Ins
      BY <1>2, <1>3, <2>1, <2>2 DEF Ins, Stage
    <2> QED
      BY <1>1, <2>1, <2>3
  <1>6. ASSUME NEW new \in Batches, AddValues(new) PROVE Row /\ Ins /\ Todo /\ Cur /\ Pre
    <2>1. /\ pc = "idle" /\ pc' = "merge" /\ \A f \in new : Canonical(f.key[2]) /\ Canonical(f.val)
          /\ ins' = {Stage(f.key, f.val, FALSE) : f \in new} /\ UNCHANGED <<rows, dels, todo, cur, predicted>>
      BY <1>6 DEF AddValues, Begin
    <2>2. \A f \in new : f.key[2] \in Value /\ f.val \in Value
      <3>1. \A f \in new : f \in Rows
        BY DEF Batches
      <3>2. \A f \in new : f.key \in Key /\ f.val \in Value
        BY <3>1 DEF Rows, Fact, ValueOf, Value
      <3> QED
        BY <3>2, ValuesAssumption DEF Key, Value
    <2>3. Ins
      BY <1>2, <2>1, <2>2 DEF Ins, Stage
    <2> QED
      BY <1>1, <2>1, <2>3
  <1>7. ASSUME NEW rs \in Schedules, RunRules(rs) PROVE Row /\ Ins /\ Todo /\ Cur /\ Pre
    <2>1. /\ pc = "idle" /\ pc' = "act" /\ UNCHANGED <<rows, ins, dels, cur, predicted>>
          /\ todo' = UNION {{[rule |-> r, env |-> e] : e \in Matches(r)} : r \in rs}
      BY <1>7 DEF RunRules, Begin
    <2>2. rs \subseteq RuleName
      BY ValuesAssumption
    <2>3. \A r \in RuleName : \A e \in Matches(r) : \A n \in DOMAIN e : e[n] \in T
      BY <2>1, UsedInRules
    <2>4. Todo
      BY <2>1, <2>2, <2>3 DEF Todo
    <2> QED
      BY <1>1, <2>1, <2>4
  <1>8. ASSUME NEW m \in todo, NEW w \in Worker, PickMatch(m, w) PROVE Row /\ Ins /\ Todo /\ Cur /\ Pre
    <2>1. /\ pc' = pc /\ UNCHANGED <<rows, ins, dels, predicted>> /\ todo' \subseteq todo
          /\ cur' = [rule |-> m.rule, env |-> m.env, worker |-> w, at |-> 1]
      BY <1>8 DEF PickMatch
    <2>2. Cur
      BY <2>1 DEF Cur, UsesOnly
    <2> QED
      BY <1>1, <2>1, <2>2
  <1>9. CASE StopEarly \/ DoPanic
    BY <1>1, <1>9 DEF StopEarly, DoPanic, Halt
  <1>10. CASE EndSearch
    <2>1. /\ pc = "act" /\ pc' = "merge" /\ UNCHANGED <<rows, ins, dels, todo, cur>>
          /\ predicted' = [w \in Worker |-> [k \in Key |-> None]]
      BY <1>10 DEF EndSearch
    <2>2. Pre
      BY <2>1 DEF Pre
    <2> QED
      BY <1>1, <2>1, <2>2
  <1>11. ASSUME cur # None, Done PROVE Cur
    <2>1. \A n \in DOMAIN cur.env : cur.env[n] \in T
      BY <1>11 DEF UsesOnly
    <2>2. Proceed(cur.env)
      BY <1>11 DEF Done
    <2> QED
      BY <1>11, <2>1, <2>2, UsedByProceed DEF Cur
  <1>12. ASSUME cur # None, NEW v \in T, Proceed(Bind(Instr.val, v)) PROVE Cur
    <2> DEFINE env == Bind(Instr.val, v)
    <2>1. \A n \in DOMAIN cur.env : cur.env[n] \in T
      BY <1>12 DEF UsesOnly
    <2>2. \A n \in DOMAIN env : env[n] \in T
      BY <1>12, <2>1 DEF Bind
    <2>3. Proceed(env)
      BY <1>12
    <2> HIDE DEF env
    <2> QED
      BY <1>12, <2>2, <2>3, UsedByProceed DEF Cur
  <1>13. CASE DoLookup
    <2>1. /\ pc = "act" /\ cur # None /\ Instr.op = "lookup" /\ InsertUnknown(ActKey, FALSE)
          /\ Proceed(Bind(Instr.val, KnownVal(ActKey))) /\ UNCHANGED <<rows, dels, todo, pc>>
      BY <1>13 DEF DoLookup, Act
    <2>2. ActKey[2] \in T
      BY <2>1, UsedInActions
    <2>3. Ins /\ Pre
      BY <1>3, <2>1, <2>2, UsedByInsert DEF Ins, Pre
    <2>4. KnownVal(ActKey) \in T
      <3>1. CASE rows[ActKey] = None /\ predicted[cur.worker][ActKey] = None
        <4>1. nextId < MaxId
          BY <2>1, <3>1 DEF InsertUnknown
        <4> QED
          BY <2>1, <4>1, UsedInActions
      <3>2. CASE rows[ActKey] # None
        BY <2>1, <3>2, UsedInActions DEF KnownVal
      <3>3. CASE rows[ActKey] = None /\ predicted[cur.worker][ActKey] # None
        <4>1. ActKey \in Key /\ cur.worker \in Worker
          BY <2>1, ActFacts
        <4> QED
          BY <3>3, <4>1 DEF KnownVal, UsesOnly
      <3> QED
        BY <3>1, <3>2, <3>3
    <2> QED
      BY <1>1, <1>12, <2>1, <2>3, <2>4
  <1>14. CASE DoGet
    <2>1. /\ pc = "act" /\ cur # None /\ Instr.op = "lookup" /\ UNCHANGED <<rows, ins, dels, todo, pc, predicted>>
          /\ \/ rows[ActKey] # None /\ Proceed(Bind(Instr.val, rows[ActKey].val))
             \/ cur' = None
      BY <1>14 DEF DoGet, Act, Halt
    <2>2. rows[ActKey] # None => rows[ActKey].val \in T
      BY <2>1, UsedInActions
    <2> QED
      BY <1>1, <1>12, <2>1, <2>2
  <1>15. CASE DoSet
    <2>1. /\ pc = "act" /\ cur # None /\ Instr.op = "set" /\ Done /\ UNCHANGED <<rows, dels, todo, pc, predicted>>
          /\ ins' = ins \cup {Stage(ActKey, cur.env[Instr.val], FALSE)}
      BY <1>15 DEF DoSet, Act
    <2>2. ActKey[2] \in T /\ cur.env[Instr.val] \in T
      BY <2>1, UsedInActions
    <2>3. Ins
      BY <2>1, <2>2 DEF Ins, Stage, UsesOnly
    <2> QED
      BY <1>1, <1>11, <2>1, <2>3
  <1>16. CASE DoUnion
    BY <1>1, <1>11, <1>16 DEF DoUnion, Act
  <1>17. CASE DoRemove
    <2>1. /\ pc = "act" /\ pc' = "act" /\ cur # None /\ Done /\ UNCHANGED <<rows, ins, todo, predicted>>
      BY <1>17 DEF DoRemove, Act
    <2>2. Row
      BY <2>1 DEF Row, UsesOnly
    <2> QED
      BY <1>1, <1>11, <2>1, <2>2
  <1>18. CASE DoSubsume
    <2>1. pc = "act" /\ cur # None /\ Instr.op = "subsume" /\ UNCHANGED <<rows, dels, todo, pc>>
      BY <1>18 DEF DoSubsume, Act
    <2>2. ActKey[2] \in T
      BY <2>1, UsedInActions
    <2>3. CASE rows[ActKey] = None
      <3>1. InsertUnknown(ActKey, TRUE) /\ cur' = None
        BY <1>18, <2>3 DEF DoSubsume, Halt
      <3>2. Ins /\ Pre
        BY <1>3, <2>1, <2>2, <3>1, UsedByInsert DEF Ins, Pre
      <3> QED
        BY <1>1, <2>1, <3>1, <3>2
    <2>4. CASE rows[ActKey] # None
      <3>1. /\ Done /\ UNCHANGED predicted
            /\ ins' \subseteq ins \cup {Stage(ActKey, rows[ActKey].val, TRUE)}
        BY <1>18, <2>4 DEF DoSubsume
      <3>2. rows[ActKey].val \in T
        BY <2>1, <2>4, UsedInActions
      <3>3. Ins
        BY <2>2, <3>1, <3>2 DEF Ins, Stage, UsesOnly
      <3> QED
        BY <1>1, <1>11, <2>1, <3>1, <3>3
    <2> QED
      BY <2>3, <2>4
  <1>19. ASSUME NEW f \in Fn, MergeRemovals(f) PROVE Row /\ Ins /\ Todo /\ Cur /\ Pre
    <2>1. /\ pc' = pc /\ UNCHANGED <<ins, todo, cur, predicted>> /\ dels' = dels \ {k \in dels : k[1] = f}
          /\ \A k \in Key : rows'[k] = IF k \in dels /\ k[1] = f THEN None ELSE rows[k]
      BY <1>19 DEF MergeRemovals
    <2>2. Row
      BY <2>1 DEF Row, UsesOnly
    <2> QED
      BY <1>1, <2>1, <2>2
  <1>20. ASSUME NEW s \in ins, MergeRow(s) PROVE Row /\ Ins /\ Todo /\ Cur /\ Pre
    <2>1. pc' = pc /\ UNCHANGED <<dels, todo, cur, predicted>> /\ ins' \subseteq ins
      BY <1>20 DEF MergeRow
    <2> DEFINE k == s.key
               new == rows'[k]
    <2>2. k \in Key /\ k \notin dels /\ \A j \in Key : j # k => rows'[j] = rows[j]
      BY <1>20, MergedRow
    <2>3. s.val \in T /\ k[2] \in T
      BY DEF UsesOnly
    <2>4. new.val \in T
      <3>1. CASE rows[k] = None
        <4>1. new = [val |-> s.val, sub |-> s.sub, ts |-> now]
          BY <1>20, <3>1, MergedRow
        <4> HIDE DEF new
        <4> QED
          BY <2>3, <4>1
      <3>2. CASE rows[k] # None
        <4>1. new.val \in {rows[k].val, s.val}
          BY <1>20, <3>2, MergedRow DEF MergedVal
        <4>2. rows[k].val \in T
          BY <2>2, <3>2 DEF UsesOnly
        <4> HIDE DEF new, k
        <4> QED
          BY <2>3, <4>1, <4>2
      <3> QED
        BY <3>1, <3>2
    <2>5. Row
      <3> SUFFICES ASSUME NEW j \in Key, rows'[j] # None, pc' = "pass" => j \notin dels'
                   PROVE  {j[2], rows'[j].val} \subseteq T
        BY DEF Row
      <3>1. CASE j = k
        BY <2>3, <2>4, <3>1
      <3>2. CASE j # k
        BY <2>1, <2>2, <3>2 DEF UsesOnly
      <3> QED
        BY <3>1, <3>2
    <2> QED
      BY <1>1, <2>1, <2>5
  <1>21. CASE \E p \in uns : MergeUnion(p)
    BY <1>1, <1>21 DEF MergeUnion
  <1>22. CASE EndMerge \/ EndPass
    <2>1. /\ dels = {} /\ UNCHANGED <<rows, ins, dels, todo, cur, predicted>>
      BY <1>22 DEF EndMerge, EndPass, Merged
    <2>2. Row
      BY <2>1 DEF Row, UsesOnly
    <2> QED
      BY <1>1, <2>1, <2>2
  <1> QED
    BY <1>4, <1>5, <1>6, <1>7, <1>8, <1>9, <1>10, <1>13, <1>14, <1>15, <1>16, <1>17, <1>18, <1>19, <1>20,
       <1>21, <1>22 DEF Next, Step

LEMMA SeenSteps ==
    ASSUME [Next]_vars, ~ \E incremental \in SUBSET Fn : RebuildPass(incremental)
    PROVE  seen' = seen
  <1>1. CASE UNCHANGED vars
    BY <1>1 DEF vars, egraph
  <1>2. CASE (\E k \in Key : AddTerm(k)) \/ (\E new \in Batches : AddValues(new))
               \/ (\E rs \in Schedules : RunRules(rs))
    BY <1>2 DEF AddTerm, AddValues, RunRules, egraph
  <1>3. CASE \/ \E m \in todo, w \in Worker : PickMatch(m, w)
             \/ StopEarly \/ DoLookup \/ DoGet \/ DoSet \/ DoUnion
    BY <1>3 DEF PickMatch, StopEarly, DoLookup, DoGet, DoSet, DoUnion, egraph
  <1>4. CASE DoRemove \/ DoSubsume \/ DoPanic \/ EndSearch \/ EndMerge \/ EndPass
    BY <1>4 DEF DoRemove, DoSubsume, DoPanic, EndSearch, EndMerge, EndPass, egraph
  <1>5. CASE \/ \E f \in Fn : MergeRemovals(f)
             \/ \E s \in ins : MergeRow(s)
             \/ \E p \in uns : MergeUnion(p)
    BY <1>5 DEF MergeRemovals, MergeRow, MergeUnion
  <1> QED
    BY <1>1, <1>2, <1>3, <1>4, <1>5 DEF Next, Step

(* A pass leaves only canonical values in use besides the rows it replaces.            *)
LEMMA PassIsCanonical ==
    ASSUME TypeOK, Phases, CaughtUp, NEW incremental \in SUBSET Fn, RebuildPass(incremental)
    PROVE  /\ \A k \in Key : rows'[k] # None /\ k \notin dels' => {k[2], rows'[k].val} \subseteq Canonicals
           /\ \A s \in ins' : {s.key[2], s.val} \subseteq Canonicals
           /\ todo' = {} /\ cur' = None /\ \A w \in Worker, k \in Key : predicted'[w][k] = None
           /\ leader' = leader /\ pc' = "pass" /\ seen' = [f \in Fn |-> Displaced]
  <1>1. /\ pc = "rebuild" /\ pc' = "pass" /\ UNCHANGED <<leader, rows, todo, cur, predicted>>
        /\ dels' = RebuiltKeys(incremental) /\ seen' = [f \in Fn |-> Displaced]
        /\ ins' = {Stage(<<k[1], Find(k[2])>>, Find(rows[k].val), rows[k].sub) : k \in dels'}
    BY DEF RebuildPass, running
  <1>2. \A k \in Key : Stale(k) => k \in dels'
    BY <1>1, NothingSkipped
  <1>3. \A k \in Key : rows[k] # None => k[2] \in Value /\ rows[k].val \in Value
    <2>1. \A k \in Key : k[2] \in Value
      BY ValuesAssumption DEF Key, Value
    <2> QED
      BY <2>1, RowIsThere
  <1>4. \A k \in Key : rows'[k] # None /\ k \notin dels' => {k[2], rows'[k].val} \subseteq Canonicals
    BY <1>1, <1>2, <1>3 DEF Stale, Canonicals
  <1>5. \A v \in Value : Find(v) \in Canonicals
    BY ValuesAssumption DEF TypeOK, LeadersOK, Canonicals, Canonical, Find, Value
  <1>6. \A k \in dels' : k[2] \in Value /\ rows[k].val \in Value
    BY <1>1, <1>3 DEF RebuiltKeys, Stale
  <1>7. \A s \in ins' : {s.key[2], s.val} \subseteq Canonicals
    <2>1. \A s \in ins' : \E k \in dels' : s.key[2] = Find(k[2]) /\ s.val = Find(rows[k].val)
      BY <1>1 DEF Stage
    <2> QED
      BY <1>5, <1>6, <2>1
  <1> QED
    BY <1>1, <1>4, <1>7 DEF Phases

LEMMA CaughtUpKept ==
    ASSUME TypeOK, Phases, CaughtUp, [Next]_vars
    PROVE  CaughtUp'
  <1>1. CASE \E incremental \in SUBSET Fn : RebuildPass(incremental)
    <2>1. /\ \A k \in Key : rows'[k] # None /\ k \notin dels' => {k[2], rows'[k].val} \subseteq Canonicals
          /\ \A s \in ins' : {s.key[2], s.val} \subseteq Canonicals
          /\ todo' = {} /\ cur' = None /\ \A w \in Worker, k \in Key : predicted'[w][k] = None
          /\ leader' = leader /\ pc' = "pass" /\ seen' = [f \in Fn |-> Displaced]
      BY <1>1, PassIsCanonical
    <2>2. Displaced' = Displaced
      BY <2>1 DEF Displaced
    <2>3. Canonicals \subseteq Value \ Displaced
      BY DEF Canonicals, Canonical, Find, Displaced
    <2> SUFFICES ASSUME NEW f \in Fn PROVE seen'[f] \subseteq Displaced' /\ UsesOnly(Value \ seen[f])'
      BY DEF CaughtUp
    <2>4. seen'[f] = Displaced
      BY <2>1
    <2>5. UsesOnly(Value \ seen[f])'
      BY <2>1, <2>3, <2>4 DEF UsesOnly
    <2> QED
      BY <2>2, <2>4, <2>5
  <1>2. CASE ~ \E incremental \in SUBSET Fn : RebuildPass(incremental)
    <2>1. seen' = seen
      BY <1>2, SeenSteps
    <2> SUFFICES ASSUME NEW f \in Fn PROVE seen'[f] \subseteq Displaced' /\ UsesOnly(Value \ seen[f])'
      BY DEF CaughtUp
    <2> DEFINE T == Value \ seen[f]
    <2>2. seen[f] \subseteq Displaced /\ UsesOnly(T)
      BY DEF CaughtUp
    <2>3. Canonicals \subseteq T
      BY <2>2 DEF Canonicals, Canonical, Find, Displaced
    <2>4. PICK S : S = T
      OBVIOUS
    <2>5. UsesOnly(S) /\ Canonicals \subseteq S
      BY <2>2, <2>3, <2>4
    <2>6. UsesOnly(S)'
      BY <1>2, <2>5, UsesOnlyKept
    <2>7. S = Value \ seen'[f]
      BY <2>1, <2>4
    <2> HIDE DEF T
    <2>8. UsesOnly(Value \ seen[f])'
      BY <2>6, <2>7 DEF UsesOnly
    <2> QED
      BY <2>1, <2>2, <2>8, DisplacedStay
  <1> QED
    BY <1>1, <1>2

LEMMA UndisturbedKept ==
    ASSUME TypeOK, Phases, CaughtUp, Undisturbed, PassComplete, [Next]_vars
    PROVE  Undisturbed'
  <1> SUFFICES ASSUME pc' \in {"idle", "act", "merge"}, ~unbuilt', ~grew' PROVE UsesOnly(Canonicals)'
    BY DEF Undisturbed
  <1> USE DEF egraph, staged, running, history
  <1>1. ~ \E incremental \in SUBSET Fn : RebuildPass(incremental)
    BY DEF RebuildPass
  <1>2. ASSUME leader' = leader, UsesOnly(Canonicals) PROVE UsesOnly(Canonicals)'
    <2>1. PICK S : S = Canonicals
      OBVIOUS
    <2>2. S = Canonicals'
      BY <1>2, <2>1 DEF Canonicals, Canonical, Find
    <2>3. UsesOnly(S) /\ Canonicals \subseteq S
      BY <1>2, <2>1
    <2>4. UsesOnly(S)'
      BY <1>1, <2>3, UsesOnlyKept
    <2> QED
      BY <2>2, <2>4
  <1>3. CASE EndPass
    <2>1. /\ pc = "pass" /\ ins = {} /\ dels = {} /\ ~changed /\ pc' = "idle"
          /\ UNCHANGED <<leader, rows, ins, todo, cur, predicted>>
      <3>1. changed => pc' = "rebuild"
        BY <1>3 DEF EndPass
      <3> QED
        BY <1>3, <3>1, Controls DEF EndPass, Merged
    <2>2. \A k \in Key : ~Stale(k)
      BY <2>1 DEF PassComplete
    <2>3. todo = {} /\ cur = None /\ \A w \in Worker, k \in Key : predicted[w][k] = None
      BY <2>1 DEF Phases
    <2>4. \A k \in Key : rows[k] # None => k[2] \in Value /\ rows[k].val \in Value
      <3>1. \A k \in Key : k[2] \in Value
        BY ValuesAssumption DEF Key, Value
      <3> QED
        BY <3>1, RowIsThere
    <2>5. \A k \in Key : rows'[k] # None => {k[2], rows'[k].val} \subseteq Canonicals
      BY <2>1, <2>2, <2>4 DEF Stale, Canonicals
    <2>6. Canonicals' = Canonicals
      BY <2>1 DEF Canonicals, Canonical, Find
    <2> QED
      BY <2>1, <2>3, <2>5, <2>6 DEF UsesOnly
  <1>4. CASE EndMerge
    <2>1. leader' = leader /\ pc = "merge"
      BY <1>4 DEF EndMerge
    <2>2. ~unbuilt /\ ~grew
      <3>1. CASE caller = "run" /\ panicked
        BY <1>4, <3>1 DEF EndMerge
      <3>2. CASE ~(caller = "run" /\ panicked)
        BY <1>4, <3>2 DEF EndMerge
      <3> QED
        BY <3>1, <3>2
    <2> QED
      BY <1>2, <2>1, <2>2 DEF Undisturbed
  <1>5. ASSUME NEW p \in uns, MergeUnion(p) PROVE UsesOnly(Canonicals)'
    <2>1. leader' = leader /\ grew' = grew /\ pc' = pc /\ unbuilt' = unbuilt
      <3>1. leader[p[1]] = leader[p[2]]
        BY <1>5 DEF MergeUnion
      <3> QED
        BY <1>5, <3>1 DEF MergeUnion
    <2> QED
      BY <1>2, <2>1 DEF Undisturbed
  <1>6. ASSUME leader' = leader, unbuilt' = unbuilt, pc \in {"idle", "act", "merge"}, grew = grew' \/ pc = "idle"
        PROVE  UsesOnly(Canonicals)'
    <2>1. ~grew
      BY <1>6 DEF Phases
    <2> QED
      BY <1>2, <1>6, <2>1 DEF Undisturbed
  <1>7. CASE (\E k \in Key : AddTerm(k)) \/ (\E new \in Batches : AddValues(new))
               \/ (\E rs \in Schedules : RunRules(rs))
    BY <1>6, <1>7 DEF AddTerm, AddValues, RunRules, Begin
  <1>8. CASE \/ \E m \in todo, w \in Worker : PickMatch(m, w)
             \/ StopEarly \/ DoLookup \/ DoGet \/ DoSet \/ DoUnion
    BY <1>6, <1>8 DEF PickMatch, StopEarly, DoLookup, DoGet, DoSet, DoUnion, Act
  <1>9. CASE DoRemove \/ DoSubsume \/ DoPanic \/ EndSearch
    BY <1>6, <1>9 DEF DoRemove, DoSubsume, DoPanic, EndSearch, Act
  <1>10. CASE (\E f \in Fn : MergeRemovals(f)) \/ (\E s \in ins : MergeRow(s))
    BY <1>6, <1>10 DEF MergeRemovals, MergeRow
  <1>11. CASE UNCHANGED vars
    BY <1>6, <1>11 DEF vars
  <1> QED
    BY <1>1, <1>3, <1>4, <1>5, <1>7, <1>8, <1>9, <1>10, <1>11 DEF Next, Step

(* What is staged is kept, and what is staged to be united is equal.                   *)
LEMMA StagedIsKept ==
    ASSUME NEW s \in ins'
    PROVE  Kept(s.key[1], s.key[2], s.val, s.sub)' /\ Kept(s.key[1], s.key[2], s.val, FALSE)'
  <1>1. /\ ServesBy(Respecting', s.key, s.val, s.sub, s.key[1], s.key[2], s.val, s.sub)
        /\ ServesBy(Respecting', s.key, s.val, s.sub, s.key[1], s.key[2], s.val, FALSE)
    BY EqualLaws DEF ServesBy
  <1> QED
    BY <1>1, KeptNext

LEMMA StagedIsEqual ==
    ASSUME TypeOK', NEW p \in uns'
    PROVE  Equal(p[1], p[2])'
  <1>1. p[1] \in Id /\ p[2] \in Id
    BY DEF TypeOK, StagedOK
  <1>2. \A g \in Respecting' : g[p[1]] = g[p[2]]
    BY DEF Respecting
  <1> QED
    BY <1>1, <1>2 DEF Equal, EqualBy, At

LEMMA StagesFact ==
    ASSUME NEW k, NEW v, NEW b, NEW S, Stage(k, v, b) \in S
    PROVE  \E s \in S : s.key = Fact(k, v).key /\ s.val = Fact(k, v).val
  <1> DEFINE s == Stage(k, v, b)
             f == Fact(k, v)
  <1>1. s.key = k /\ s.val = v
    BY DEF Stage
  <1>2. f.key = k /\ f.val = v
    BY DEF Fact
  <1>3. s \in S
    OBVIOUS
  <1> HIDE DEF s, f
  <1>4. \E x \in S : x.key = f.key /\ x.val = f.val
    BY <1>1, <1>2, <1>3
  <1> QED
    BY <1>4 DEF f

LEMMA StagesFacts ==
    ASSUME NEW new, NEW S, \A f \in new : Stage(f.key, f.val, FALSE) \in S
    PROVE  \A f \in new : \E s \in S : s.key = f.key /\ s.val = f.val
  <1> SUFFICES ASSUME NEW f \in new PROVE \E s \in S : s.key = f.key /\ s.val = f.val
    OBVIOUS
  <1> DEFINE s == Stage(f.key, f.val, FALSE)
  <1>1. s.key = f.key /\ s.val = f.val
    BY DEF Stage
  <1>2. s \in S
    OBVIOUS
  <1> HIDE DEF s
  <1> QED
    BY <1>1, <1>2

(* What is asserted is staged by the same step.                                        *)
LEMMA NewFactsAreStaged ==
    ASSUME [Next]_vars
    PROVE  /\ \A f \in facts' \ facts : \E s \in ins' : s.key = f.key /\ s.val = f.val
           /\ \A e \in eqs' \ eqs : e \in uns'
  <1> USE DEF history
  <1>1. CASE UNCHANGED vars
    BY <1>1 DEF vars
  <1>2. CASE \E k \in Key : AddTerm(k)
    <2>1. PICK k \in Key : AddTerm(k)
      BY <1>2
    <2>2. /\ facts' = facts \cup {Fact(k, nextId)} /\ ins' = {Stage(k, nextId, FALSE)} /\ eqs' = eqs
      BY <2>1 DEF AddTerm
    <2>3. Stage(k, nextId, FALSE) \in ins'
      BY <2>2
    <2>4. \E b : Stage(k, nextId, b) \in ins' /\ \A f \in facts' \ facts : f = Fact(k, nextId)
      BY <2>2, <2>3
    <2>5. eqs' = eqs
      BY <2>2
    <2> QED
      BY <2>4, <2>5, StagesFact
  <1>3. CASE \E new \in Batches : AddValues(new)
    <2>1. PICK new \in Batches : AddValues(new)
      BY <1>3
    <2>2. /\ facts' = facts \cup new /\ ins' = {Stage(f.key, f.val, FALSE) : f \in new} /\ eqs' = eqs
      BY <2>1 DEF AddValues
    <2>3. \A f \in facts' \ facts : Stage(f.key, f.val, FALSE) \in ins'
      BY <2>2
    <2> QED
      BY <2>2, <2>3, StagesFacts
  <1>4. CASE DoSet
    <2> DEFINE v == cur.env[Instr.val]
    <2>1. facts' = facts \cup {Fact(ActKey, v)} /\ ins' = ins \cup {Stage(ActKey, v, FALSE)} /\ eqs' = eqs
      BY <1>4 DEF DoSet
    <2>2. Stage(ActKey, v, FALSE) \in ins'
      BY <2>1
    <2> HIDE DEF v
    <2>3. \E b : Stage(ActKey, v, b) \in ins' /\ \A f \in facts' \ facts : f = Fact(ActKey, v)
      BY <2>1, <2>2
    <2>4. eqs' = eqs
      BY <2>1
    <2> QED
      BY <2>3, <2>4, StagesFact
  <1>5. CASE DoUnion
    BY <1>5 DEF DoUnion
  <1>6. CASE DoLookup \/ DoSubsume
    <2>1. eqs' = eqs
      BY <1>6 DEF DoLookup, DoSubsume
    <2>2. \A s : InsertUnknown(ActKey, s) =>
             facts' = facts \/ (facts' = facts \cup {Fact(ActKey, nextId)} /\ Stage(ActKey, nextId, s) \in ins')
      BY DEF InsertUnknown
    <2>3. facts' = facts \/ \E s : facts' = facts \cup {Fact(ActKey, nextId)} /\ Stage(ActKey, nextId, s) \in ins'
      BY <1>6, <2>2 DEF DoLookup, DoSubsume
    <2>4. facts' = facts \/ \E s : Stage(ActKey, nextId, s) \in ins' /\ \A f \in facts' \ facts : f = Fact(ActKey, nextId)
      BY <2>3
    <2> QED
      BY <2>1, <2>4, StagesFact
  <1>7. CASE (\E rs \in Schedules : RunRules(rs)) \/ (\E m \in todo, w \in Worker : PickMatch(m, w))
    BY <1>7 DEF RunRules, PickMatch
  <1>8. CASE StopEarly \/ DoGet \/ DoRemove \/ DoPanic \/ EndSearch \/ EndMerge \/ EndPass
    BY <1>8 DEF StopEarly, DoGet, DoRemove, DoPanic, EndSearch, EndMerge, EndPass
  <1>9. CASE \/ \E f \in Fn : MergeRemovals(f)
             \/ \E s \in ins : MergeRow(s)
             \/ \E p \in uns : MergeUnion(p)
             \/ \E incremental \in SUBSET Fn : RebuildPass(incremental)
    BY <1>9 DEF MergeRemovals, MergeRow, MergeUnion, RebuildPass
  <1> QED
    BY <1>1, <1>2, <1>3, <1>4, <1>5, <1>6, <1>7, <1>8, <1>9 DEF Next, Step

LEMMA AssertedKept ==
    ASSUME TypeOK, TypeOK', Phases, Removals, Asserted, [Next]_vars
    PROVE  Asserted'
  <1>1. ASSUME NEW f \in facts' PROVE Kept(f.key[1], f.key[2], f.val, FALSE)'
    <2>1. CASE f \in facts
      BY <2>1, KeptStays DEF Asserted
    <2>2. CASE f \notin facts
      <3>1. PICK s \in ins' : s.key = f.key /\ s.val = f.val
        BY <2>2, NewFactsAreStaged
      <3> QED
        BY <3>1, StagedIsKept
    <2> QED
      BY <2>1, <2>2
  <1>2. ASSUME NEW e \in eqs' PROVE Equal(e[1], e[2])'
    <2>1. CASE e \in eqs
      BY <2>1, EqualsGrow DEF Asserted
    <2>2. CASE e \notin eqs
      BY <2>2, NewFactsAreStaged, StagedIsEqual
    <2> QED
      BY <2>1, <2>2
  <1> QED
    BY <1>1, <1>2 DEF Asserted

(* Once all is merged and nothing is stale, what is kept is at its canonical key.       *)
LEMMA KeptIsThere ==
    ASSUME TypeOK, ins = {}, uns = {}, \A k \in Key : ~Stale(k),
           NEW f, NEW x, NEW v, NEW b, Kept(f, x, v, b)
    PROVE  \/ WasDropped(f, x)
           \/ LET k == <<f, Find(x)>>
              IN  k \in Key /\ rows[k] # None /\ (f \notin NoMerge => rows[k].val = Find(v)) /\ (b => rows[k].sub)
  <1>1. \A a, c : Equal(a, c) => Find(a) = Find(c)
    BY EqualIsFound DEF TypeOK
  <1>2. CASE \E k \in dropped : k[1] = f /\ Equal(k[2], x)
    BY <1>1, <1>2 DEF WasDropped
  <1>3. CASE \E k \in Key : rows[k] # None /\ Serves(k, rows[k].val, rows[k].sub, f, x, v, b)
    <2>1. PICK k \in Key : rows[k] # None /\ Serves(k, rows[k].val, rows[k].sub, f, x, v, b)
      BY <1>3
    <2>2. k[1] = f /\ Equal(k[2], x) /\ (f \notin NoMerge => Equal(rows[k].val, v)) /\ (b => rows[k].sub)
      BY <2>1 DEF Serves, ServesBy, Equal
    <2>3. Find(k[2]) = k[2] /\ Find(rows[k].val) = rows[k].val
      BY <2>1 DEF Stale, Canonical
    <2>4. k = <<k[1], k[2]>>
      BY DEF Key
    <2>5. k = <<f, Find(x)>>
      BY <1>1, <2>2, <2>3, <2>4
    <2>6. f \notin NoMerge => rows[k].val = Find(v)
      BY <1>1, <2>2, <2>3
    <2> QED
      BY <2>1, <2>2, <2>5, <2>6
  <1> QED
    BY <1>2, <1>3 DEF Kept

LEMMA AtRest ==
    ASSUME TypeOK, Phases, Undisturbed, pc = "idle", ~unbuilt
    PROVE  ins = {} /\ uns = {} /\ todo = {} /\ cur = None /\ \A k \in Key : ~Stale(k)
  <1>1. ins = {} /\ uns = {} /\ todo = {} /\ cur = None /\ ~grew
    BY DEF Phases
  <1>2. UsesOnly(Canonicals)
    BY <1>1 DEF Undisturbed
  <1>3. \A k \in Key : ~Stale(k)
    BY <1>2 DEF UsesOnly, Stale, Canonicals
  <1> QED
    BY <1>1, <1>3

LEMMA ClosingCloses ==
    ASSUME TypeOK, Closing
    PROVE  Closed
  <1> SUFFICES ASSUME pc = "idle", ~unbuilt
               PROVE  /\ \A k \in Key : ~Stale(k)
                      /\ \A e \in eqs : Find(e[1]) = Find(e[2])
                      /\ \A f \in facts : WasDropped(f.key[1], f.key[2]) \/
                            LET row == rows[<<f.key[1], Find(f.key[2])>>]
                            IN  row # None /\ (f.key[1] \notin NoMerge => row.val = Find(f.val))
    BY DEF Closed
  <1>1. ins = {} /\ uns = {} /\ \A k \in Key : ~Stale(k)
    BY AtRest DEF Closing
  <1>2. \A e \in eqs : Find(e[1]) = Find(e[2])
    BY <1>1, EqualIsFound DEF Closing, Asserted, TypeOK
  <1>3. ASSUME NEW f \in facts
        PROVE  WasDropped(f.key[1], f.key[2]) \/
                  LET row == rows[<<f.key[1], Find(f.key[2])>>]
                  IN  row # None /\ (f.key[1] \notin NoMerge => row.val = Find(f.val))
    <2>1. Kept(f.key[1], f.key[2], f.val, FALSE)
      BY DEF Closing, Asserted
    <2> QED
      BY <1>1, <2>1, KeptIsThere
  <1> QED
    BY <1>1, <1>2, <1>3

LEMMA InitClosing == Init => Closing
  <1> SUFFICES ASSUME Init PROVE Closing
    OBVIOUS
  <1>1. Removals /\ Phases /\ Asserted /\ PassComplete
    BY DEF Init, Removals, Phases, Asserted, PassComplete
  <1>2. \A T : UsesOnly(T)
    BY DEF Init, UsesOnly
  <1> QED
    BY <1>1, <1>2 DEF Init, Closing, CaughtUp, Undisturbed

LEMMA ClosingKept == TypeOK /\ TypeOK' /\ Closing /\ [Next]_vars => Closing'
  BY PhasesKept, RemovalsKept, AssertedKept, CaughtUpKept, UndisturbedKept, PassCompleteKept DEF Closing

(* Between operations, unless a failed run has left unions behind, every table is       *)
(* canonical, every union ever asserted holds and every row ever asserted is there      *)
(* under its canonical key with its canonical value, whatever the rules do, in whatever *)
(* order matches are applied, rows, removals and unions merged and tables rebuilt.      *)
THEOREM ClosedBetweenOperations == Spec => []Closed
  <1>1. Init => TypeOK /\ Closing
    BY InitTypes, InitClosing
  <1>2. TypeOK /\ Closing /\ [Next]_vars => TypeOK' /\ Closing'
    BY TypesKept, ClosingKept
  <1>3. TypeOK /\ Closing => Closed
    BY ClosingCloses
  <1> QED
    BY <1>1, <1>2, <1>3, PTL DEF Spec

-----------------------------------------------------------------------------
(* What an action of a match asks for is kept, with the match's names.                *)
Promise(a, e) ==
    /\ a.op \in {"lookup", "set"} => Kept(a.fn, e[a.arg], e[a.val], FALSE)
    /\ a.op = "union" => Equal(e[a.arg], e[a.val])
    /\ a.op = "subsume" => \E v \in Value : Kept(a.fn, e[a.arg], v, TRUE)
PromisedUpTo(r, e, j) == \A i \in DOMAIN Acts(r) : i < j => Promise(Acts(r)[i], e)

\* All that the rule's actions ask for of a match, whatever ids the lookups found.
Extends(full, e) == \A n \in DOMAIN e : n \in DOMAIN full /\ full[n] = e[n]
Promised(r, e) ==
    \E full \in [Scope(r, Len(Acts(r)) + 1) -> Value] :
       Extends(full, e) /\ PromisedUpTo(r, full, Len(Acts(r)) + 1)

(* A match that the rule's runs will not find again was applied, or will be.          *)
Answered(r, e) ==
    \/ [rule |-> r, env |-> e] \in todo
    \/ cur # None /\ cur.rule = r /\ Extends(cur.env, e)
    \/ Promised(r, e)
Old(r, e) == \A i \in DOMAIN Atoms(r) : Holds(r, i, e, Before(lastRun[r]))
OldAnswered ==
    \A r \in RuleName \ lost : lastRun[r] > 0 => \A e \in Envs(r) : Old(r, e) => Answered(r, e)
CurPromised ==
    \A r, e, j : cur # None /\ r = cur.rule /\ e = cur.env /\ j = cur.at => PromisedUpTo(r, e, j)

(* Time.                                                                              *)
Dated ==
    /\ now > 0 /\ \A r \in RuleName : lastRun[r] <= now
    /\ \A k \in Key : rows[k] # None => rows[k].ts <= now

(* The tuples a match rests on are in the tables as long as it is applied.             *)
AtomsThere(r, e) == \A i \in DOMAIN Atoms(r) : KeyOf(Atoms(r)[i], e) \in Key /\ rows[KeyOf(Atoms(r)[i], e)] # None
MatchesThere ==
    /\ \A m \in todo : AtomsThere(m.rule, m.env)
    /\ cur # None => AtomsThere(cur.rule, cur.env)

(* The ids that lookups and subsumes have predicted.                                   *)
PredictedKept ==
    /\ \A w \in Worker, k \in Key : predicted[w][k] # None => Kept(k[1], k[2], predicted[w][k], FALSE)
    /\ pc = "act" => \E rs \in Schedules :
          /\ \A m \in todo : m.rule \in rs
          /\ cur # None => cur.rule \in rs
          /\ \A w \in Worker, k \in Key : predicted[w][k] # None /\ ~LooksUp(rs, k[1]) =>
                \E v \in Value : Kept(k[1], k[2], v, TRUE)

(* A set of naturals has a least element.                                               *)
LEMMA LeastOf ==
    ASSUME NEW T \in SUBSET Nat, T # {}
    PROVE  \E m \in T : \A n \in T : m <= n
  <1> DEFINE R == OpToRel(<, Nat)
  <1>1. IsWellFoundedOn(R, Nat)
    BY NatLessThanWellFounded, Zenon
  <1>2. \A m, n \in Nat : m < n => <<m, n>> \in R
    BY DEF OpToRel
  <1> HIDE DEF R
  <1>3. PICK m \in T : \A n \in T : <<n, m>> \notin R
    BY <1>1, WFMin
  <1>4. ASSUME NEW n \in T PROVE m <= n
    <2>1. ~(n < m)
      BY <1>2, <1>3
    <2> QED
      BY <2>1
  <1> QED
    BY <1>4

(* What an action speaks of is in scope after it.                                       *)
LEMMA NamesUsed ==
    ASSUME NEW r \in RuleName, NEW j \in 1 .. (Len(Acts(r)) + 1), NEW i \in DOMAIN Acts(r), i < j
    PROVE  /\ Acts(r)[i].op # "panic" => Acts(r)[i].arg \in Scope(r, j)
           /\ Acts(r)[i].op \in {"lookup", "set", "union"} => Acts(r)[i].val \in Scope(r, j)
  <1> DEFINE a == Acts(r)[i]
  <1>1. \A x \in DOMAIN Acts(r) : x < i => x < j
    BY RuleFacts
  <1>2. Scope(r, i) \subseteq Scope(r, j)
    BY <1>1 DEF Scope, Bound
  <1>3. a.op = "lookup" => a.val \in Bound(r, j)
    BY DEF Bound
  <1>4. WellFormed(r)
    BY RulesAssumption
  <1>5. /\ a.op # "panic" => a.arg \in Scope(r, i)
        /\ a.op \in {"set", "union"} => a.val \in Scope(r, i)
    BY <1>4 DEF WellFormed
  <1>6. a.op = "lookup" => a.val \in Scope(r, j)
    BY <1>3 DEF Scope
  <1> QED
    BY <1>2, <1>5, <1>6

(* What a match was promised, it is promised whatever names are bound later.            *)
LEMMA PromiseOfMore ==
    ASSUME NEW r \in RuleName, NEW j \in 1 .. (Len(Acts(r)) + 1), NEW e, NEW full,
           \A n \in Scope(r, j) : full[n] = e[n]
    PROVE  PromisedUpTo(r, e, j) => PromisedUpTo(r, full, j)
  <1> SUFFICES ASSUME PromisedUpTo(r, e, j), NEW i \in DOMAIN Acts(r), i < j
               PROVE  Promise(Acts(r)[i], full)
    BY DEF PromisedUpTo
  <1> DEFINE a == Acts(r)[i]
  <1>1. Promise(a, e)
    BY DEF PromisedUpTo
  <1>2. /\ a.op # "panic" => full[a.arg] = e[a.arg]
        /\ a.op \in {"lookup", "set", "union"} => full[a.val] = e[a.val]
    BY NamesUsed
  <1> HIDE DEF a
  <1>3. Promise(a, full)
    BY <1>1, <1>2 DEF Promise
  <1> QED
    BY <1>3 DEF a

(* A promise is kept.                                                                   *)
LEMMA PromiseStays ==
    ASSUME TypeOK, Phases, Removals, [Next]_vars
    PROVE  \A a, e : Promise(a, e) => Promise(a, e)'
  <1> SUFFICES ASSUME NEW a, NEW e, Promise(a, e) PROVE Promise(a, e)'
    OBVIOUS
  <1>1. a.op \in {"lookup", "set"} => Kept(a.fn, e[a.arg], e[a.val], FALSE)'
    BY KeptStays DEF Promise
  <1>2. a.op = "union" => Equal(e[a.arg], e[a.val])'
    BY EqualsGrow DEF Promise
  <1>3. ASSUME a.op = "subsume" PROVE \E v \in Value : Kept(a.fn, e[a.arg], v, TRUE)'
    <2>1. PICK v \in Value : Kept(a.fn, e[a.arg], v, TRUE)
      BY <1>3 DEF Promise
    <2>2. Kept(a.fn, e[a.arg], v, TRUE)'
      BY <2>1, KeptStays
    <2> QED
      BY <2>2
  <1> QED
    BY <1>1, <1>2, <1>3 DEF Promise

LEMMA PromisesStay ==
    ASSUME TypeOK, Phases, Removals, [Next]_vars
    PROVE  /\ \A r, e, j : PromisedUpTo(r, e, j) => PromisedUpTo(r, e, j)'
           /\ \A r, e : Promised(r, e) => Promised(r, e)'
  <1>1. ASSUME NEW r, NEW e, NEW j, PromisedUpTo(r, e, j) PROVE PromisedUpTo(r, e, j)'
    BY <1>1, PromiseStays DEF PromisedUpTo
  <1>2. ASSUME NEW r, NEW e, Promised(r, e) PROVE Promised(r, e)'
    BY <1>1, <1>2 DEF Promised
  <1> QED
    BY <1>1, <1>2

(* Time moves on, and what changes in a table is dated now.                             *)
LEMMA RowsChange ==
    ASSUME TypeOK, Phases, [Next]_vars
    PROVE  \A k \in Key : rows'[k] # None => rows'[k] = rows[k] \/ rows'[k].ts = now
  <1>1. CASE rows' = rows
    BY <1>1
  <1>2. CASE \E f \in Fn : MergeRemovals(f)
    <2>1. PICK f \in Fn : MergeRemovals(f)
      BY <1>2
    <2>2. rows' = [k \in Key |-> IF k \in {d \in dels : d[1] = f} THEN None ELSE rows[k]]
      BY <2>1 DEF MergeRemovals
    <2> QED
      BY <2>2
  <1>3. CASE \E s \in ins : MergeRow(s)
    <2>1. PICK s \in ins : MergeRow(s)
      BY <1>3
    <2>2. \A j \in Key : j # s.key => rows'[j] = rows[j]
      BY <2>1, MergedRow
    <2>3. rows[s.key] = None => rows'[s.key] = [val |-> s.val, sub |-> s.sub, ts |-> now]
      BY <2>1, MergedRow
    <2>4. rows[s.key] # None => rows'[s.key] = rows[s.key] \/ rows'[s.key].ts = now
      BY <2>1, MergedRow
    <2>5. rows[s.key] = None => rows'[s.key].ts = now
      BY <2>3
    <2> QED
      BY <2>2, <2>4, <2>5
  <1> QED
    BY <1>1, <1>2, <1>3, StepKinds

LEMMA TimeMoves ==
    ASSUME TypeOK, [Next]_vars
    PROVE  now <= now' /\ now' \in Nat
  <1>1. now \in Nat
    BY Controls
  <1>2. now' = now \/ now' = now + 1
    <2>1. CASE UNCHANGED vars
      BY <2>1 DEF vars, egraph
    <2>2. CASE (\E k \in Key : AddTerm(k)) \/ (\E new \in Batches : AddValues(new)) \/ (\E rs \in Schedules : RunRules(rs))
      BY <2>2 DEF AddTerm, AddValues, RunRules, egraph
    <2>3. CASE (\E m \in todo, w \in Worker : PickMatch(m, w)) \/ StopEarly \/ DoLookup \/ DoGet \/ DoSet
      BY <2>3 DEF PickMatch, StopEarly, DoLookup, DoGet, DoSet, egraph
    <2>4. CASE DoUnion \/ DoRemove \/ DoSubsume \/ DoPanic \/ EndSearch
      BY <2>4 DEF DoUnion, DoRemove, DoSubsume, DoPanic, EndSearch, egraph
    <2>5. CASE (\E f \in Fn : MergeRemovals(f)) \/ (\E s \in ins : MergeRow(s)) \/ (\E p \in uns : MergeUnion(p))
      BY <2>5 DEF MergeRemovals, MergeRow, MergeUnion
    <2>6. CASE EndMerge \/ (\E incremental \in SUBSET Fn : RebuildPass(incremental)) \/ EndPass
      BY <2>6 DEF EndMerge, RebuildPass, EndPass
    <2> QED
      BY <2>1, <2>2, <2>3, <2>4, <2>5, <2>6 DEF Next, Step
  <1> QED
    BY <1>1, <1>2

(* Only RunRules dates a run of rules, and rules once lost stay so.                     *)
LEMMA RunSteps ==
    ASSUME [Next]_vars
    PROVE  /\ lost \subseteq lost'
           /\ lastRun' = lastRun \/ \E rs \in Schedules : RunRules(rs)
  <1> USE DEF history
  <1>1. CASE UNCHANGED vars
    BY <1>1 DEF vars, egraph
  <1>2. CASE (\E k \in Key : AddTerm(k)) \/ (\E new \in Batches : AddValues(new)) \/ (\E rs \in Schedules : RunRules(rs))
    BY <1>2 DEF AddTerm, AddValues, RunRules, egraph
  <1>3. CASE (\E m \in todo, w \in Worker : PickMatch(m, w)) \/ StopEarly \/ DoLookup \/ DoSet
    BY <1>3 DEF PickMatch, StopEarly, DoLookup, DoSet, egraph
  <1>4. CASE DoGet \/ DoUnion \/ DoRemove \/ DoSubsume \/ DoPanic \/ EndSearch
    BY <1>4 DEF DoGet, DoUnion, DoRemove, DoSubsume, DoPanic, EndSearch, egraph
  <1>5. CASE (\E f \in Fn : MergeRemovals(f)) \/ (\E s \in ins : MergeRow(s)) \/ (\E p \in uns : MergeUnion(p))
    BY <1>5 DEF MergeRemovals, MergeRow, MergeUnion
  <1>6. CASE EndMerge \/ (\E incremental \in SUBSET Fn : RebuildPass(incremental)) \/ EndPass
    BY <1>6 DEF EndMerge, RebuildPass, EndPass, egraph
  <1> QED
    BY <1>1, <1>2, <1>3, <1>4, <1>5, <1>6 DEF Next, Step

LEMMA DatedKept ==
    ASSUME TypeOK, Phases, Dated, [Next]_vars
    PROVE  Dated'
  <1>1. now \in Nat /\ now' \in Nat /\ now <= now' /\ now > 0
    BY TimeMoves, Controls DEF Dated
  <1>2. \A r \in RuleName : lastRun'[r] <= now'
    <2> SUFFICES ASSUME NEW r \in RuleName PROVE lastRun'[r] <= now'
      OBVIOUS
    <2>1. lastRun[r] \in Nat /\ lastRun[r] <= now
      BY Controls DEF Dated
    <2>2. lastRun'[r] = lastRun[r] \/ lastRun'[r] = now
      BY RunSteps DEF RunRules
    <2> QED
      BY <1>1, <2>1, <2>2
  <1>3. ASSUME NEW k \in Key, rows'[k] # None PROVE rows'[k].ts <= now'
    <2>1. CASE rows'[k] = rows[k]
      <3>1. rows[k].ts \in Nat /\ rows[k].ts <= now
        BY <1>3, <2>1 DEF Dated, TypeOK, RowsOK
      <3> QED
        BY <1>1, <2>1, <3>1
    <2>2. CASE rows'[k].ts = now
      BY <1>1, <2>2
    <2> QED
      BY <1>3, <2>1, <2>2, RowsChange
  <1> QED
    BY <1>1, <1>2, <1>3 DEF Dated

(* The steps of a run of rules before it merges.                                        *)
LEMMA ActSteps ==
    ASSUME [Next]_vars, pc' = "act"
    PROVE  \/ \E rs \in Schedules : RunRules(rs)
           \/ pc = "act" /\ UNCHANGED vars
           \/ \E m \in todo, w \in Worker : PickMatch(m, w)
           \/ StopEarly
           \/ DoLookup \/ DoGet \/ DoSet \/ DoUnion \/ DoRemove \/ DoSubsume \/ DoPanic
  <1>1. CASE UNCHANGED vars
    BY <1>1 DEF vars
  <1>2. CASE (\E k \in Key : AddTerm(k)) \/ (\E new \in Batches : AddValues(new)) \/ EndSearch
    BY <1>2 DEF AddTerm, AddValues, EndSearch
  <1>3. CASE (\E f \in Fn : MergeRemovals(f)) \/ (\E s \in ins : MergeRow(s)) \/ (\E p \in uns : MergeUnion(p))
    BY <1>3 DEF MergeRemovals, MergeRow, MergeUnion, Merging
  <1>4. CASE EndMerge \/ (\E incremental \in SUBSET Fn : RebuildPass(incremental)) \/ EndPass
    BY <1>4 DEF EndMerge, RebuildPass, EndPass
  <1> QED
    BY <1>1, <1>2, <1>3, <1>4 DEF Next, Step

(* The match that an action belongs to, and what becomes of it.                         *)
LEMMA MatchBeing ==
    ASSUME TypeOK, cur # None
    PROVE  /\ cur.rule \in RuleName /\ cur.at \in DOMAIN Acts(cur.rule)
           /\ cur.env \in [Scope(cur.rule, cur.at) -> Value]
           /\ Instr = Acts(cur.rule)[cur.at]
           /\ cur = [rule |-> cur.rule, env |-> cur.env, worker |-> cur.worker, at |-> cur.at]
           /\ cur.worker \in Worker
  BY DEF TypeOK, MatchesOK, GoodEnv, Instr

LEMMA Proceeds ==
    ASSUME TypeOK, cur # None, NEW r, r = cur.rule, NEW j, j = cur.at,
           NEW env \in [Scope(r, j + 1) -> Value], Proceed(env)
    PROVE  \/ j = Len(Acts(r)) /\ cur' = None
           \/ j # Len(Acts(r)) /\ cur' # None /\ cur'.rule = r /\ cur'.env = env /\ cur'.at = j + 1
  <1>1. CASE j = Len(Acts(r))
    BY <1>1 DEF Proceed
  <1>2. CASE j # Len(Acts(r))
    <2>1. cur' = [cur EXCEPT !.at = j + 1, !.env = env]
      BY <1>2 DEF Proceed
    <2>2. cur' = [rule |-> r, env |-> env, worker |-> cur.worker, at |-> j + 1]
      BY <2>1, MatchBeing
    <2>3. j + 1 \in DOMAIN Acts(r) /\ r \in RuleName /\ cur.worker \in Worker
      BY <1>2, RuleFacts, MatchBeing
    <2>4. cur' \in [rule : {r}, env : [Scope(r, j + 1) -> Value], worker : Worker, at : {j + 1}]
      BY <2>2, <2>3
    <2>5. cur' # None
      BY <2>3, <2>4, NoneAssumption
    <2> QED
      BY <1>2, <2>2, <2>5
  <1> QED
    BY <1>1, <1>2

LEMMA BindExtends ==
    ASSUME TypeOK, cur # None, Instr.op = "lookup", NEW v \in Value
    PROVE  /\ Bind(Instr.val, v) \in [Scope(cur.rule, cur.at + 1) -> Value]
           /\ Extends(Bind(Instr.val, v), cur.env)
           /\ Bind(Instr.val, v)[Instr.val] = v
           /\ Bind(Instr.val, v)[Instr.arg] = Arg
  <1> DEFINE scope == Scope(cur.rule, cur.at)
  <1>1. Scope(cur.rule, cur.at + 1) = scope \cup {Instr.val}
    BY ActFacts, ScopeGrows DEF Instr
  <1>2. cur.env \in [scope -> Value]
    BY MatchBeing
  <1>3. Instr.val \notin scope
    BY ActFacts
  <1>4. Instr.arg \in scope
    BY MatchBeing, RulesAssumption DEF WellFormed
  <1> HIDE DEF scope
  <1>5. Bind(Instr.val, v) = [n \in scope \cup {Instr.val} |-> IF n = Instr.val THEN v ELSE cur.env[n]]
    BY <1>2 DEF Bind
  <1> QED
    BY <1>1, <1>2, <1>3, <1>4, <1>5 DEF Extends, Arg

LEMMA DoneExtends ==
    ASSUME TypeOK, cur # None, Instr.op # "lookup"
    PROVE  cur.env \in [Scope(cur.rule, cur.at + 1) -> Value] /\ Extends(cur.env, cur.env)
  <1>1. Scope(cur.rule, cur.at + 1) = Scope(cur.rule, cur.at)
    BY ActFacts, ScopeGrows DEF Instr
  <1> QED
    BY <1>1, MatchBeing DEF Extends

(* A row of a table keeps what it says.                                                 *)
LEMMA RowIsKept ==
    ASSUME NEW k \in Key, rows[k] # None
    PROVE  /\ Kept(k[1], k[2], rows[k].val, FALSE)
           /\ rows[k].sub => Kept(k[1], k[2], rows[k].val, TRUE)
  <1>1. /\ Serves(k, rows[k].val, rows[k].sub, k[1], k[2], rows[k].val, FALSE)
        /\ rows[k].sub => Serves(k, rows[k].val, rows[k].sub, k[1], k[2], rows[k].val, TRUE)
    BY EqualLaws DEF Serves, ServesBy
  <1> QED
    BY <1>1 DEF Kept

LEMMA StageIsKept ==
    ASSUME NEW k, NEW v, NEW b, Stage(k, v, b) \in ins'
    PROVE  Kept(k[1], k[2], v, b)' /\ Kept(k[1], k[2], v, FALSE)'
  <1>1. PICK s \in ins' : s.key = k /\ s.val = v /\ s.sub = b
    BY DEF Stage
  <1>2. Kept(s.key[1], s.key[2], s.val, s.sub)' /\ Kept(s.key[1], s.key[2], s.val, FALSE)'
    BY StagedIsKept
  <1> QED
    BY <1>1, <1>2

(* The value that a lookup finds, predicted before or mints is that of a row.           *)
LEMMA KnownIsKept ==
    ASSUME TypeOK, Phases, Removals, PredictedKept, [Next]_vars, cur # None,
           Instr.op \in {"lookup", "subsume"}, NEW b, InsertUnknown(ActKey, b),
           NEW k, k = ActKey, NEW v, v = KnownVal(k)
    PROVE  Kept(k[1], k[2], v, FALSE)'
  <1>1. k \in Key /\ cur.worker \in Worker
    BY ActFacts
  <1>2. CASE rows[k] # None
    <2>1. Kept(k[1], k[2], v, FALSE)
      BY <1>1, <1>2, RowIsKept DEF KnownVal
    <2> QED
      BY <2>1, KeptStays
  <1>3. CASE rows[k] = None /\ predicted[cur.worker][k] # None
    <2>1. Kept(k[1], k[2], v, FALSE)
      BY <1>1, <1>3 DEF KnownVal, PredictedKept
    <2> QED
      BY <2>1, KeptStays
  <1>4. CASE rows[k] = None /\ predicted[cur.worker][k] = None
    <2>1. Stage(k, nextId, b) \in ins' /\ v = nextId
      BY <1>4 DEF InsertUnknown, KnownVal
    <2>2. \E c : Stage(k, v, c) \in ins'
      BY <2>1
    <2> QED
      BY <2>2, StageIsKept
  <1> QED
    BY <1>2, <1>3, <1>4

LEMMA LookupDelivers ==
    ASSUME TypeOK, Phases, Removals, PredictedKept, DoLookup,
           NEW a, a = Instr, NEW r, r = cur.rule, NEW j, j = cur.at
    PROVE  \E env \in [Scope(r, j + 1) -> Value] : Proceed(env) /\ Extends(env, cur.env) /\ Promise(a, env)'
  <1>0. [Next]_vars
    BY DEF Next, Step
  <1>1. cur # None /\ a.op = "lookup" /\ a.fn \notin NoMerge /\ InsertUnknown(ActKey, FALSE)
        /\ Proceed(Bind(a.val, KnownVal(ActKey))) /\ UNCHANGED <<dels, uns, meaning>>
    BY DEF DoLookup, Act
  <1>2. ActKey \in Key /\ ActKey[1] = a.fn /\ ActKey[2] = Arg /\ a.fn \in Con
    BY <1>1, ActFacts DEF Con
  <1>3. PICK k : k = ActKey
    OBVIOUS
  <1>4. PICK v : v = KnownVal(k)
    OBVIOUS
  <1>5. PICK env : env = Bind(a.val, v)
    OBVIOUS
  <1>6. v \in Value
    BY <1>1, <1>2, <1>3, <1>4, InsertOK DEF Value
  <1>7. /\ env \in [Scope(r, j + 1) -> Value] /\ Extends(env, cur.env)
        /\ env[a.val] = v /\ env[a.arg] = k[2]
    BY <1>1, <1>2, <1>3, <1>5, <1>6, BindExtends
  <1>8. Kept(k[1], k[2], v, FALSE)'
    BY <1>0, <1>1, <1>3, <1>4, KnownIsKept
  <1>9. Promise(a, env)'
    BY <1>1, <1>2, <1>3, <1>7, <1>8 DEF Promise
  <1>10. Proceed(env)
    BY <1>1, <1>3, <1>4, <1>5
  <1> QED
    BY <1>7, <1>9, <1>10

LEMMA GetDelivers ==
    ASSUME TypeOK, Phases, Removals, DoGet, cur' # None \/ cur.rule \notin lost',
           NEW a, a = Instr, NEW r, r = cur.rule, NEW j, j = cur.at
    PROVE  \E env \in [Scope(r, j + 1) -> Value] : Proceed(env) /\ Extends(env, cur.env) /\ Promise(a, env)'
  <1>0. [Next]_vars
    BY DEF Next, Step
  <1>1. cur # None /\ a.op = "lookup" /\ a.fn \in NoMerge
    BY DEF DoGet, Act
  <1>2. rows[ActKey] # None /\ Proceed(Bind(a.val, rows[ActKey].val))
    BY DEF DoGet, Halt
  <1>3. ActKey \in Key /\ ActKey[1] = a.fn /\ ActKey[2] = Arg
    BY <1>1, ActFacts
  <1>4. PICK k : k = ActKey
    OBVIOUS
  <1>5. PICK v : v = rows[k].val
    OBVIOUS
  <1>6. PICK env : env = Bind(a.val, v)
    OBVIOUS
  <1>7. v \in Value
    BY <1>2, <1>3, <1>4, <1>5 DEF TypeOK, RowsOK
  <1>8. /\ env \in [Scope(r, j + 1) -> Value] /\ Extends(env, cur.env)
        /\ env[a.val] = v /\ env[a.arg] = k[2]
    BY <1>1, <1>3, <1>4, <1>6, <1>7, BindExtends
  <1>9. Kept(k[1], k[2], v, FALSE)
    BY <1>2, <1>3, <1>4, <1>5, RowIsKept
  <1>10. Kept(k[1], k[2], v, FALSE)'
    BY <1>0, <1>9, KeptStays
  <1>11. Promise(a, env)'
    BY <1>1, <1>3, <1>4, <1>8, <1>10 DEF Promise
  <1>12. Proceed(env)
    BY <1>2, <1>4, <1>5, <1>6
  <1> QED
    BY <1>8, <1>11, <1>12

LEMMA SetDelivers ==
    ASSUME TypeOK, DoSet, NEW a, a = Instr, NEW r, r = cur.rule, NEW j, j = cur.at
    PROVE  \E env \in [Scope(r, j + 1) -> Value] : Proceed(env) /\ Extends(env, cur.env) /\ Promise(a, env)'
  <1>1. cur # None /\ a.op = "set" /\ Proceed(cur.env) /\ Stage(ActKey, cur.env[a.val], FALSE) \in ins'
    BY DEF DoSet, Act, Done
  <1>2. ActKey[1] = a.fn /\ ActKey[2] = cur.env[a.arg]
    BY <1>1, ActFacts DEF Arg
  <1>3. PICK k : k = ActKey
    OBVIOUS
  <1>4. PICK env : env = cur.env
    OBVIOUS
  <1>5. env \in [Scope(r, j + 1) -> Value] /\ Extends(env, cur.env)
    BY <1>1, <1>4, DoneExtends
  <1>6. \E b : Stage(k, env[a.val], b) \in ins'
    BY <1>1, <1>3, <1>4
  <1>7. Kept(k[1], k[2], env[a.val], FALSE)'
    BY <1>6, StageIsKept
  <1>8. k[1] = a.fn /\ k[2] = env[a.arg]
    BY <1>2, <1>3, <1>4
  <1>9. Promise(a, env)'
    BY <1>1, <1>7, <1>8 DEF Promise
  <1>10. Proceed(env)
    BY <1>1, <1>4
  <1> QED
    BY <1>5, <1>9, <1>10

LEMMA UnionDelivers ==
    ASSUME TypeOK, TypeOK', DoUnion, NEW a, a = Instr, NEW r, r = cur.rule, NEW j, j = cur.at
    PROVE  \E env \in [Scope(r, j + 1) -> Value] : Proceed(env) /\ Extends(env, cur.env) /\ Promise(a, env)'
  <1>1. cur # None /\ a.op = "union" /\ Proceed(cur.env) /\ <<cur.env[a.arg], cur.env[a.val]>> \in uns'
    BY DEF DoUnion, Act, Done, Arg
  <1>2. PICK env : env = cur.env
    OBVIOUS
  <1>3. env \in [Scope(r, j + 1) -> Value] /\ Extends(env, cur.env)
    BY <1>1, <1>2, DoneExtends
  <1>4. PICK p \in uns' : p = <<env[a.arg], env[a.val]>>
    BY <1>1, <1>2
  <1>5. Equal(p[1], p[2])'
    BY StagedIsEqual
  <1>6. p[1] = env[a.arg] /\ p[2] = env[a.val]
    BY <1>4
  <1>7. Equal(env[a.arg], env[a.val])'
    BY <1>5, <1>6
  <1>8. Promise(a, env)'
    BY <1>1, <1>7 DEF Promise
  <1>9. Proceed(env)
    BY <1>1, <1>2
  <1> QED
    BY <1>3, <1>8, <1>9

LEMMA RemoveDelivers ==
    ASSUME TypeOK, DoRemove, NEW a, a = Instr, NEW r, r = cur.rule, NEW j, j = cur.at
    PROVE  \E env \in [Scope(r, j + 1) -> Value] : Proceed(env) /\ Extends(env, cur.env) /\ Promise(a, env)'
  <1>1. cur # None /\ a.op = "remove" /\ Proceed(cur.env)
    BY DEF DoRemove, Act, Done
  <1>2. PICK env : env = cur.env
    OBVIOUS
  <1>3. env \in [Scope(r, j + 1) -> Value] /\ Extends(env, cur.env)
    BY <1>1, <1>2, DoneExtends
  <1>4. Promise(a, env)'
    BY <1>1 DEF Promise
  <1>5. Proceed(env)
    BY <1>1, <1>2
  <1> QED
    BY <1>3, <1>4, <1>5

(* A subsume that finds no row is the last action, and nothing but a subsume has made   *)
(* the tuple up.                                                                        *)
LEMMA SubsumeDelivers ==
    ASSUME SubsumesSafe, TypeOK, Phases, Removals, PredictedKept, MatchesThere, DoSubsume,
           NEW a, a = Instr, NEW r, r = cur.rule, NEW j, j = cur.at
    PROVE  \E env \in [Scope(r, j + 1) -> Value] : Proceed(env) /\ Extends(env, cur.env) /\ Promise(a, env)'
  <1>0. [Next]_vars
    BY DEF Next, Step
  <1>1. cur # None /\ a.op = "subsume" /\ pc = "act"
    BY DEF DoSubsume, Act
  <1>2. ActKey \in Key /\ ActKey[1] = a.fn /\ ActKey[2] = cur.env[a.arg] /\ cur.worker \in Worker
    BY <1>1, ActFacts DEF Arg
  <1>3. PICK k : k = ActKey
    OBVIOUS
  <1>4. PICK env : env = cur.env
    OBVIOUS
  <1>5. env \in [Scope(r, j + 1) -> Value] /\ Extends(env, cur.env)
    BY <1>1, <1>4, DoneExtends
  <1>6. k[1] = a.fn /\ k[2] = env[a.arg] /\ k \in Key
    BY <1>2, <1>3, <1>4
  <1>7. CASE rows[k] # None
    <2>1. Proceed(env)
      BY <1>3, <1>4, <1>7 DEF DoSubsume, Done
    <2>2. PICK v \in Value : v = rows[k].val
      BY <1>6, <1>7 DEF TypeOK, RowsOK
    <2>3. CASE rows[k].sub
      <3>1. Kept(k[1], k[2], v, TRUE)
        BY <1>6, <1>7, <2>2, <2>3, RowIsKept
      <3>2. Kept(k[1], k[2], v, TRUE)'
        BY <1>0, <3>1, KeptStays
      <3>3. Promise(a, env)'
        BY <1>1, <1>6, <3>2 DEF Promise
      <3> QED
        BY <1>5, <2>1, <3>3
    <2>4. CASE ~rows[k].sub
      <3>1. Stage(k, v, TRUE) \in ins'
        BY <1>3, <1>7, <2>2, <2>4 DEF DoSubsume
      <3>2. Kept(k[1], k[2], v, TRUE)'
        BY <3>1, StageIsKept
      <3>3. Promise(a, env)'
        BY <1>1, <1>6, <3>2 DEF Promise
      <3> QED
        BY <1>5, <2>1, <3>3
    <2> QED
      BY <2>3, <2>4
  <1>8. CASE rows[k] = None
    <2>1. InsertUnknown(k, TRUE) /\ cur' = None
      BY <1>3, <1>8 DEF DoSubsume, Halt
    <2>2. PICK rs \in Schedules :
             /\ r \in rs
             /\ \A w \in Worker, x \in Key : predicted[w][x] # None /\ ~LooksUp(rs, x[1]) =>
                   \E v \in Value : Kept(x[1], x[2], v, TRUE)
      BY <1>1 DEF PredictedKept
    <2>3. ASSUME NEW i \in DOMAIN Atoms(r), Atoms(r)[i].fn = a.fn, Atoms(r)[i].arg = a.arg PROVE FALSE
      <3>1. AtomsThere(r, env)
        BY <1>1, <1>4 DEF MatchesThere
      <3>2. rows[<<a.fn, env[a.arg]>>] # None
        BY <2>3, <3>1 DEF AtomsThere, KeyOf
      <3>3. k = <<a.fn, env[a.arg]>>
        BY <1>3, <1>4 DEF ActKey, Arg
      <3> QED
        BY <1>8, <3>2, <3>3
    <2>4. a = Acts(r)[j] /\ j \in DOMAIN Acts(r)
      BY <1>1, MatchBeing
    <2>5. j = Len(Acts(r)) /\ ~LooksUp(rs, a.fn)
      BY <1>1, <2>2, <2>3, <2>4 DEF SubsumesSafe
    <2>6. Proceed(env)
      BY <2>1, <2>5 DEF Proceed
    <2>7. \E v \in Value : Kept(k[1], k[2], v, TRUE)'
      <3>1. CASE predicted[cur.worker][k] # None
        <4>1. PICK v \in Value : Kept(k[1], k[2], v, TRUE)
          BY <1>2, <1>6, <2>2, <2>5, <3>1
        <4>2. Kept(k[1], k[2], v, TRUE)'
          BY <1>0, <4>1, KeptStays
        <4> QED
          BY <4>2
      <3>2. CASE predicted[cur.worker][k] = None
        <4>1. PICK v : v = nextId
          OBVIOUS
        <4>2. Stage(k, v, TRUE) \in ins' /\ nextId < MaxId
          BY <1>8, <2>1, <3>2, <4>1 DEF InsertUnknown
        <4>3. v \in Value
          BY <4>1, <4>2, Same, ValuesAssumption DEF Value, Id
        <4>4. Kept(k[1], k[2], v, TRUE)'
          BY <4>2, StageIsKept
        <4> QED
          BY <4>3, <4>4
      <3> QED
        BY <3>1, <3>2
    <2>8. Promise(a, env)'
      BY <1>1, <1>6, <2>7 DEF Promise
    <2> QED
      BY <1>5, <2>6, <2>8
  <1> QED
    BY <1>7, <1>8

DoAct == DoLookup \/ DoGet \/ DoSet \/ DoUnion \/ DoRemove \/ DoSubsume \/ DoPanic

LEMMA ActKeeps ==
    ASSUME TypeOK, DoAct
    PROVE  /\ [Next]_vars
           /\ cur # None /\ pc = "act" /\ pc' = "act"
           /\ UNCHANGED <<leader, rows, lastRun, todo>>
           /\ cur' # None => cur'.rule = cur.rule
  <1>1. [Next]_vars /\ cur # None
    BY DEF DoAct, Next, Step, DoLookup, DoGet, DoSet, DoUnion, DoRemove, DoSubsume, DoPanic, Act
  <1>2. \A env : Proceed(env) /\ cur' # None => cur'.rule = cur.rule
    BY <1>1, MatchBeing DEF Proceed
  <1>3. CASE DoLookup \/ DoGet
    BY <1>1, <1>2, <1>3 DEF DoLookup, DoGet, egraph, Act, Halt
  <1>4. CASE DoSet \/ DoUnion \/ DoRemove
    BY <1>1, <1>2, <1>4 DEF DoSet, DoUnion, DoRemove, egraph, Act, Done
  <1>5. CASE DoSubsume \/ DoPanic
    BY <1>1, <1>2, <1>5 DEF DoSubsume, DoPanic, egraph, Act, Done, Halt
  <1> QED
    BY <1>3, <1>4, <1>5 DEF DoAct

LEMMA ActDelivers ==
    ASSUME SubsumesSafe, TypeOK, TypeOK', Phases, Removals, PredictedKept, MatchesThere, DoAct,
           NEW a, a = Instr, NEW r, r = cur.rule, NEW j, j = cur.at
    PROVE  \/ cur' = None /\ r \in lost'
           \/ \E env \in [Scope(r, j + 1) -> Value] : Proceed(env) /\ Extends(env, cur.env) /\ Promise(a, env)'
  <1>1. CASE DoPanic
    BY <1>1 DEF DoPanic, Halt
  <1> QED
    BY <1>1, LookupDelivers, GetDelivers, SetDelivers, UnionDelivers, RemoveDelivers, SubsumeDelivers DEF DoAct

(* After its action a match is promised one action more.                                *)
LEMMA ActPromises ==
    ASSUME SubsumesSafe, TypeOK, TypeOK', Phases, Removals, PredictedKept, MatchesThere, CurPromised, DoAct,
           NEW r, r = cur.rule, NEW j, j = cur.at
    PROVE  \/ cur' = None /\ r \in lost'
           \/ \E env \in [Scope(r, j + 1) -> Value] :
                 Proceed(env) /\ Extends(env, cur.env) /\ PromisedUpTo(r, env, j + 1)'
  <1>1. cur # None /\ [Next]_vars
    BY ActKeeps
  <1>2. r \in RuleName /\ j \in DOMAIN Acts(r) /\ DOMAIN cur.env = Scope(r, j) /\ Instr = Acts(r)[j]
    BY <1>1, MatchBeing
  <1>3. PICK a : a = Instr
    OBVIOUS
  <1>4. SUFFICES ASSUME NEW env \in [Scope(r, j + 1) -> Value], Proceed(env), Extends(env, cur.env), Promise(a, env)'
                 PROVE  PromisedUpTo(r, env, j + 1)'
    BY <1>3, ActDelivers
  <1>5. j \in 1 .. (Len(Acts(r)) + 1) /\ j \in Nat
    BY <1>2, RuleFacts
  <1>6. PromisedUpTo(r, cur.env, j)
    BY <1>1 DEF CurPromised
  <1>7. \A n \in Scope(r, j) : env[n] = cur.env[n]
    BY <1>2, <1>4 DEF Extends
  <1>8. PromisedUpTo(r, env, j)
    BY <1>2, <1>5, <1>6, <1>7, PromiseOfMore
  <1>9. PromisedUpTo(r, env, j)'
    BY <1>1, <1>8, PromisesStay
  <1>10. a = Acts(r)[j]
    BY <1>2, <1>3
  <1>11. \A i \in DOMAIN Acts(r) : i < j + 1 => i < j \/ i = j
    BY <1>2, RuleFacts
  <1> QED
    BY <1>4, <1>9, <1>10, <1>11 DEF PromisedUpTo

LEMMA CurSteps ==
    ASSUME Phases, cur # None, [Next]_vars
    PROVE  UNCHANGED vars \/ DoAct
  <1>1. pc = "act"
    BY DEF Phases
  <1> QED
    BY <1>1 DEF DoAct, Next, Step, AddTerm, AddValues, RunRules, Begin, PickMatch, StopEarly, EndSearch,
                MergeRemovals, MergeRow, MergeUnion, Merging, EndMerge, RebuildPass, EndPass

LEMMA TodoSteps ==
    ASSUME TypeOK, Phases, [Next]_vars, NEW m \in todo
    PROVE  \/ m \in todo'
           \/ m.rule \in lost'
           \/ cur' # None /\ cur'.rule = m.rule /\ cur'.env = m.env
  <1>1. pc = "act"
    BY DEF Phases
  <1>2. CASE \E q \in todo, w \in Worker : PickMatch(q, w)
    <2>1. PICK q \in todo, w \in Worker : PickMatch(q, w)
      BY <1>2
    <2>2. todo' = todo \ {q} /\ cur' = [rule |-> q.rule, env |-> q.env, worker |-> w, at |-> 1]
      BY <2>1 DEF PickMatch
    <2>3. q.rule \in RuleName /\ q.env \in [Scope(q.rule, 1) -> Value]
      BY DEF TypeOK, MatchesOK, GoodEnv
    <2>4. cur' \in [rule : {q.rule}, env : [Scope(q.rule, 1) -> Value], worker : Worker, at : {1}]
      BY <2>2, <2>3
    <2>5. cur' # None
      BY <2>3, <2>4, RuleFacts, NoneAssumption
    <2> QED
      BY <2>2, <2>5
  <1>3. CASE StopEarly
    BY <1>3 DEF StopEarly
  <1>4. CASE UNCHANGED vars
    BY <1>4 DEF vars, running
  <1>5. CASE DoAct
    BY <1>5, ActKeeps
  <1>6. CASE EndSearch
    BY <1>6 DEF EndSearch
  <1> QED
    BY <1>1, <1>2, <1>3, <1>4, <1>5, <1>6
    DEF DoAct, Next, Step, AddTerm, AddValues, RunRules, Begin,
        MergeRemovals, MergeRow, MergeUnion, Merging, EndMerge, RebuildPass, EndPass

(* A match being applied stays so, or is promised all there is to promise.              *)
LEMMA CurAnswered ==
    ASSUME SubsumesSafe, TypeOK, TypeOK', Phases, Removals, PredictedKept, MatchesThere, CurPromised, [Next]_vars,
           cur # None, NEW r, r = cur.rule, NEW e, Extends(cur.env, e), r \notin lost'
    PROVE  (cur' # None /\ cur'.rule = r /\ Extends(cur'.env, e)) \/ Promised(r, e)'
  <1>1. CASE UNCHANGED vars
    BY <1>1 DEF vars, running, Extends
  <1>2. CASE DoAct
    <2>1. PICK j : j = cur.at
      OBVIOUS
    <2>2. PICK env \in [Scope(r, j + 1) -> Value] :
             Proceed(env) /\ Extends(env, cur.env) /\ PromisedUpTo(r, env, j + 1)'
      BY <1>2, <2>1, ActPromises
    <2>3. Extends(env, e)
      BY <2>2 DEF Extends
    <2>4. CASE j = Len(Acts(r))
      BY <2>2, <2>3, <2>4 DEF Promised
    <2>5. CASE j # Len(Acts(r))
      BY <2>1, <2>2, <2>3, <2>5, Proceeds
    <2> QED
      BY <2>4, <2>5
  <1> QED
    BY <1>1, <1>2, CurSteps

LEMMA CurPromisedKept ==
    ASSUME SubsumesSafe, TypeOK, TypeOK', Phases, Phases', Removals, PredictedKept, MatchesThere, CurPromised, [Next]_vars
    PROVE  CurPromised'
  <1> SUFFICES ASSUME NEW q, NEW f, NEW i, cur' # None, q = cur'.rule, f = cur'.env, i = cur'.at
               PROVE  PromisedUpTo(q, f, i)'
    BY DEF CurPromised
  <1>1. pc' = "act"
    BY DEF Phases
  <1>3. CASE \E rs \in Schedules : RunRules(rs)
    BY <1>3 DEF RunRules, Begin, Phases
  <1>4. CASE UNCHANGED vars
    <2>1. PromisedUpTo(q, f, i)
      BY <1>4 DEF CurPromised, vars, running
    <2> QED
      BY <2>1, PromisesStay
  <1>5. CASE \E m \in todo, w \in Worker : PickMatch(m, w)
    <2>1. i = 1 /\ q \in RuleName
      BY <1>5 DEF PickMatch, TypeOK, MatchesOK
    <2> QED
      BY <2>1, RuleFacts DEF PromisedUpTo
  <1>6. CASE StopEarly
    BY <1>6 DEF StopEarly
  <1>7. CASE DoAct
    <2>1. PICK r, j : r = cur.rule /\ j = cur.at
      OBVIOUS
    <2>2. PICK env \in [Scope(r, j + 1) -> Value] :
             Proceed(env) /\ Extends(env, cur.env) /\ PromisedUpTo(r, env, j + 1)'
      BY <1>7, <2>1, ActPromises
    <2>3. q = r /\ f = env /\ i = j + 1
      BY <1>7, <2>1, <2>2, Proceeds, ActKeeps
    <2> QED
      BY <2>2, <2>3
  <1> QED
    BY <1>1, <1>3, <1>4, <1>5, <1>6, <1>7, ActSteps DEF DoAct

LEMMA NextAtoms ==
    ASSUME NEW r \in RuleName, NEW j \in DOMAIN Acts(r), NEW e, NEW f, \A n \in Scope(r, j) : f[n] = e[n],
           AtomsThere(r, e), rows' = rows
    PROVE  AtomsThere(r, f)'
  <1>1. \A i \in DOMAIN Atoms(r) : KeyOf(Atoms(r)[i], f) = KeyOf(Atoms(r)[i], e)
    BY NamesInScope DEF KeyOf
  <1>2. \A i \in DOMAIN Atoms(r) : KeyOf(Atoms(r)[i], f) \in Key /\ rows'[KeyOf(Atoms(r)[i], f)] # None
    BY <1>1 DEF AtomsThere
  <1> QED
    BY <1>2 DEF AtomsThere

LEMMA MatchesThereKept ==
    ASSUME SubsumesSafe, TypeOK, TypeOK', Phases, Phases', Removals, PredictedKept, MatchesThere, CurPromised, [Next]_vars
    PROVE  MatchesThere'
  <1> SUFFICES ASSUME pc' = "act" PROVE MatchesThere'
    BY DEF MatchesThere, Phases
  <1>1. CASE \E rs \in Schedules : RunRules(rs)
    <2>1. PICK rs \in Schedules : RunRules(rs)
      BY <1>1
    <2>2. /\ todo' = UNION {{[rule |-> r, env |-> e] : e \in Matches(r)} : r \in rs}
          /\ rows' = rows /\ cur' = None
      BY <2>1 DEF RunRules, Begin, Phases
    <2>3. ASSUME NEW m \in todo' PROVE AtomsThere(m.rule, m.env)'
      <3>1. PICK r \in rs : \E e \in Matches(r) : m = [rule |-> r, env |-> e]
        BY <2>2
      <3>2. PICK e \in Matches(r) : m = [rule |-> r, env |-> e]
        BY <3>1
      <3>3. r \in RuleName
        BY ValuesAssumption
      <3>4. \A i \in DOMAIN Atoms(r) : KeyOf(Atoms(r)[i], e) \in Key /\ rows[KeyOf(Atoms(r)[i], e)] # None
        BY <3>3, RowsOfMatch
      <3>5. m.rule = r /\ m.env = e
        BY <3>2
      <3> QED
        BY <2>2, <3>4, <3>5 DEF AtomsThere
    <2> QED
      BY <2>2, <2>3 DEF MatchesThere
  <1>2. CASE UNCHANGED vars
    BY <1>2 DEF MatchesThere, AtomsThere, vars, egraph, running
  <1>3. CASE \E m \in todo, w \in Worker : PickMatch(m, w)
    <2>1. PICK q \in todo, w \in Worker : PickMatch(q, w)
      BY <1>3
    <2>2. rows' = rows /\ todo' \subseteq todo /\ cur'.rule = q.rule /\ cur'.env = q.env
      BY <2>1 DEF PickMatch, egraph
    <2>3. \A m \in todo : AtomsThere(m.rule, m.env)'
      BY <2>2 DEF MatchesThere, AtomsThere
    <2>4. AtomsThere(cur.rule, cur.env)'
      BY <2>2 DEF MatchesThere, AtomsThere
    <2> QED
      BY <2>2, <2>3, <2>4 DEF MatchesThere
  <1>4. CASE StopEarly
    BY <1>4 DEF MatchesThere, StopEarly
  <1>5. CASE DoAct
    <2>1. rows' = rows /\ todo' = todo /\ cur # None
      BY <1>5, ActKeeps
    <2>2. \A m \in todo' : AtomsThere(m.rule, m.env)'
      BY <2>1 DEF MatchesThere, AtomsThere
    <2>3. ASSUME cur' # None PROVE AtomsThere(cur.rule, cur.env)'
      <3>1. PICK r, j : r = cur.rule /\ j = cur.at
        OBVIOUS
      <3>2. PICK env \in [Scope(r, j + 1) -> Value] : Proceed(env) /\ Extends(env, cur.env)
        BY <1>5, <2>3, <3>1, ActPromises
      <3>3. cur'.rule = r /\ cur'.env = env
        BY <2>1, <2>3, <3>1, <3>2, Proceeds
      <3>4. r \in RuleName /\ j \in DOMAIN Acts(r) /\ \A n \in Scope(r, j) : env[n] = cur.env[n]
        BY <2>1, <3>1, <3>2, MatchBeing DEF Extends
      <3>5. AtomsThere(r, cur.env)
        BY <2>1, <3>1 DEF MatchesThere
      <3>6. AtomsThere(r, env)'
        BY <2>1, <3>4, <3>5, NextAtoms
      <3> QED
        BY <3>3, <3>6 DEF AtomsThere
    <2> QED
      BY <2>2, <2>3 DEF MatchesThere
  <1> QED
    BY <1>1, <1>2, <1>3, <1>4, <1>5, ActSteps DEF DoAct

(* A new prediction is that of a lookup or of a subsume, whose row is staged.           *)
LEMMA Predicts ==
    ASSUME TypeOK, [Next]_vars, NEW w \in Worker, NEW k \in Key, predicted'[w][k] # None,
           predicted'[w][k] # predicted[w][k]
    PROVE  /\ DoAct /\ k[1] = Instr.fn /\ predicted'[w][k] \in Value
           /\ \/ Instr.op = "lookup" /\ Stage(k, predicted'[w][k], FALSE) \in ins'
              \/ Instr.op = "subsume" /\ Stage(k, predicted'[w][k], TRUE) \in ins'
  <1>1. DoLookup \/ DoSubsume
    <2>1. CASE UNCHANGED vars
      BY <2>1 DEF vars, running
    <2>2. CASE (\E f \in Key : AddTerm(f)) \/ (\E new \in Batches : AddValues(new)) \/ (\E rs \in Schedules : RunRules(rs))
      BY <2>2 DEF AddTerm, AddValues, RunRules, running
    <2>3. CASE (\E m \in todo, v \in Worker : PickMatch(m, v)) \/ StopEarly \/ DoGet \/ DoSet \/ DoUnion \/ DoRemove \/ DoPanic
      BY <2>3 DEF PickMatch, StopEarly, DoGet, DoSet, DoUnion, DoRemove, DoPanic
    <2>4. CASE EndSearch
      BY <2>4 DEF EndSearch
    <2>5. CASE (\E f \in Fn : MergeRemovals(f)) \/ (\E s \in ins : MergeRow(s)) \/ (\E p \in uns : MergeUnion(p))
      BY <2>5 DEF MergeRemovals, MergeRow, MergeUnion, running
    <2>6. CASE EndMerge \/ (\E incremental \in SUBSET Fn : RebuildPass(incremental)) \/ EndPass
      BY <2>6 DEF EndMerge, RebuildPass, EndPass, running
    <2> QED
      BY <2>1, <2>2, <2>3, <2>4, <2>5, <2>6 DEF Next, Step
  <1>2. DoAct /\ cur # None /\ Instr.op \in {"lookup", "subsume"}
    BY <1>1, ActKeeps DEF DoAct, DoLookup, DoSubsume, Act
  <1>3. ActKey \in Key /\ ActKey[1] = Instr.fn /\ cur.worker \in Worker
    BY <1>2, ActFacts
  <1>4. ASSUME NEW b, InsertUnknown(ActKey, b)
        PROVE  k = ActKey /\ predicted'[w][k] = nextId /\ nextId < MaxId /\ Stage(k, nextId, b) \in ins'
    <2>1. CASE rows[ActKey] # None \/ predicted[cur.worker][ActKey] # None
      BY <1>4, <2>1 DEF InsertUnknown
    <2>2. CASE rows[ActKey] = None /\ predicted[cur.worker][ActKey] = None
      <3>1. /\ nextId < MaxId /\ ins' = ins \cup {Stage(ActKey, nextId, b)}
            /\ predicted' = [predicted EXCEPT ![cur.worker][ActKey] = nextId]
        BY <1>4, <2>2 DEF InsertUnknown
      <3>2. predicted \in [Worker -> [Key -> {None} \cup Id]]
        BY DEF TypeOK, PredictedOK
      <3>3. predicted'[w][k] = IF w = cur.worker /\ k = ActKey THEN nextId ELSE predicted[w][k]
        BY <1>3, <3>1, <3>2
      <3>4. k = ActKey /\ predicted'[w][k] = nextId
        BY <3>3
      <3> QED
        BY <3>1, <3>4
    <2> QED
      BY <2>1, <2>2
  <1>5. nextId < MaxId => nextId \in Value
    BY Same, ValuesAssumption DEF Value, Id
  <1>6. CASE DoLookup
    <2>1. InsertUnknown(ActKey, FALSE) /\ Instr.op = "lookup"
      BY <1>6 DEF DoLookup, Act
    <2>2. k = ActKey /\ predicted'[w][k] = nextId /\ nextId < MaxId /\ Stage(k, nextId, FALSE) \in ins'
      BY <1>4, <2>1
    <2> QED
      BY <1>2, <1>3, <1>5, <2>1, <2>2
  <1>7. CASE DoSubsume
    <2>1. Instr.op = "subsume"
      BY <1>7 DEF DoSubsume, Act
    <2>2. CASE rows[ActKey] = None
      <3>1. InsertUnknown(ActKey, TRUE)
        BY <1>7, <2>2 DEF DoSubsume
      <3>2. k = ActKey /\ predicted'[w][k] = nextId /\ nextId < MaxId /\ Stage(k, nextId, TRUE) \in ins'
        BY <1>4, <3>1
      <3> QED
        BY <1>2, <1>3, <1>5, <2>1, <3>2
    <2>3. CASE rows[ActKey] # None
      BY <1>7, <2>3 DEF DoSubsume
    <2> QED
      BY <2>2, <2>3
  <1> QED
    BY <1>1, <1>6, <1>7

LEMMA PredictedKeptKept ==
    ASSUME TypeOK, Phases, Removals, PredictedKept, [Next]_vars
    PROVE  PredictedKept'
  <1>1. ASSUME NEW w \in Worker, NEW k \in Key, predicted'[w][k] # None
        PROVE  Kept(k[1], k[2], predicted[w][k], FALSE)'
    <2>1. PICK v : v = predicted'[w][k]
      OBVIOUS
    <2>2. Kept(k[1], k[2], v, FALSE)'
      <3>1. CASE v = predicted[w][k]
        <4>1. Kept(k[1], k[2], v, FALSE)
          BY <1>1, <2>1, <3>1 DEF PredictedKept
        <4> QED
          BY <4>1, KeptStays
      <3>2. CASE v # predicted[w][k]
        <4>1. \E b : Stage(k, v, b) \in ins'
          BY <1>1, <2>1, <3>2, Predicts
        <4> QED
          BY <4>1, StageIsKept
      <3> QED
        BY <3>1, <3>2
    <2> QED
      BY <2>1, <2>2 DEF Kept, Serves, ServesBy, EqualBy, Equal
  <1>2. ASSUME pc' = "act", NEW rs \in Schedules, RunRules(rs)
        PROVE  /\ \A m \in todo' : m.rule \in rs
               /\ cur' = None
               /\ \A w \in Worker, k \in Key : predicted'[w][k] = None
    <2>1. todo' = UNION {{[rule |-> r, env |-> e] : e \in Matches(r)} : r \in rs}
      BY <1>2 DEF RunRules
    <2>2. cur' = None /\ \A w \in Worker, k \in Key : predicted'[w][k] = None
      BY <1>2 DEF RunRules, Begin, Phases
    <2> QED
      BY <2>1, <2>2
  <1>3. ASSUME pc' = "act", pc = "act"
        PROVE  \E rs \in Schedules :
                 /\ \A m \in todo' : m.rule \in rs
                 /\ cur' # None => cur'.rule \in rs
                 /\ \A w \in Worker, k \in Key : predicted'[w][k] # None /\ ~LooksUp(rs, k[1]) =>
                       \E v \in Value : Kept(k[1], k[2], v, TRUE)'
    <2>1. PICK rs \in Schedules :
             /\ \A m \in todo : m.rule \in rs
             /\ cur # None => cur.rule \in rs
             /\ \A w \in Worker, k \in Key : predicted[w][k] # None /\ ~LooksUp(rs, k[1]) =>
                   \E v \in Value : Kept(k[1], k[2], v, TRUE)
      BY <1>3 DEF PredictedKept
    <2>2. todo' \subseteq todo /\ (cur' # None => cur'.rule \in rs)
      <3>1. CASE UNCHANGED vars
        BY <2>1, <3>1 DEF vars, running
      <3>2. CASE (\E m \in todo, w \in Worker : PickMatch(m, w)) \/ StopEarly
        BY <2>1, <3>2 DEF PickMatch, StopEarly
      <3>3. CASE DoAct
        BY <2>1, <3>3, ActKeeps
      <3>4. ~ \E s \in Schedules : RunRules(s)
        BY <1>3 DEF RunRules, Begin
      <3> QED
        BY <1>3, <3>1, <3>2, <3>3, <3>4, ActSteps DEF DoAct
    <2>3. ASSUME NEW w \in Worker, NEW k \in Key, predicted'[w][k] # None, ~LooksUp(rs, k[1])
          PROVE  \E v \in Value : Kept(k[1], k[2], v, TRUE)'
      <3>1. CASE predicted'[w][k] = predicted[w][k]
        <4>1. PICK v \in Value : Kept(k[1], k[2], v, TRUE)
          BY <2>1, <2>3, <3>1
        <4>2. Kept(k[1], k[2], v, TRUE)'
          BY <4>1, KeptStays
        <4> QED
          BY <4>2
      <3>2. CASE predicted'[w][k] # predicted[w][k]
        <4>1. DoAct /\ k[1] = Instr.fn /\ predicted'[w][k] \in Value
          BY <2>3, <3>2, Predicts
        <4>2. Instr.op # "lookup"
          <5>1. cur # None
            BY <4>1, ActKeeps
          <5>2. cur.rule \in rs /\ cur.at \in DOMAIN Acts(cur.rule) /\ Instr = Acts(cur.rule)[cur.at]
            BY <2>1, <5>1, MatchBeing
          <5> QED
            BY <2>3, <4>1, <5>2 DEF LooksUp
        <4>3. PICK v \in Value : v = predicted'[w][k]
          BY <4>1
        <4>4. Stage(k, v, TRUE) \in ins'
          BY <2>3, <3>2, <4>2, <4>3, Predicts
        <4>5. Kept(k[1], k[2], v, TRUE)'
          BY <4>4, StageIsKept
        <4> QED
          BY <4>5
      <3> QED
        BY <3>1, <3>2
    <2> QED
      BY <2>1, <2>2, <2>3
  <1>4. ASSUME pc' = "act"
        PROVE  (\E rs \in Schedules : RunRules(rs)) \/ pc = "act"
    BY <1>4, ActSteps, ActKeeps DEF DoAct, PickMatch, StopEarly
  <1> QED
    BY <1>1, <1>2, <1>3, <1>4 DEF PredictedKept

(* A match that is old after a step that runs no rules was as old before it.            *)
LEMMA OldWas ==
    ASSUME TypeOK, Phases, Dated, [Next]_vars, NEW r \in RuleName, lastRun'[r] = lastRun[r],
           NEW e, Old(r, e)'
    PROVE  Old(r, e)
  <1> SUFFICES ASSUME NEW i \in DOMAIN Atoms(r) PROVE Holds(r, i, e, Before(lastRun[r]))
    BY DEF Old
  <1> DEFINE a == Atoms(r)[i]
             k == KeyOf(a, e)
  <1>1. Holds(r, i, e, Before(lastRun[r]))'
    BY DEF Old
  <1>2. k \in Key /\ rows'[k] # None /\ rows'[k].val = e[a.val] /\ ~rows'[k].sub
        /\ rows'[k].ts \in Nat /\ rows'[k].ts < lastRun'[r]
    BY <1>1 DEF Holds, Before, KeyOf
  <1>3. lastRun[r] \in Nat /\ lastRun[r] <= now /\ now \in Nat
    BY Controls DEF Dated
  <1>4. rows'[k].ts # now
    BY <1>2, <1>3
  <1>5. rows'[k] = rows[k]
    BY <1>2, <1>4, RowsChange
  <1> HIDE DEF k
  <1>6. k \in Key /\ rows[k] # None /\ rows[k].val = e[a.val] /\ ~rows[k].sub
        /\ rows[k].ts \in Before(lastRun[r])
    BY <1>2, <1>5 DEF Before
  <1> QED
    BY <1>6 DEF Holds, k

(* What is in the tables is found by the rule's next run, unless all of it is so old    *)
(* that an earlier run has found it.                                                    *)
LEMMA RunFinds ==
    ASSUME TypeOK, NEW r \in RuleName, NEW e \in Envs(r), \A i \in DOMAIN Atoms(r) : Holds(r, i, e, Nat)
    PROVE  e \in Matches(r) \/ (lastRun[r] > 0 /\ Old(r, e))
  <1> DEFINE mid == lastRun[r]
             Ts(i) == rows[KeyOf(Atoms(r)[i], e)].ts
  <1>1. mid \in Nat
    BY Controls
  <1>2. ASSUME NEW i \in DOMAIN Atoms(r)
        PROVE  /\ Ts(i) \in Nat
               /\ Ts(i) >= mid => Holds(r, i, e, Since(mid))
               /\ Ts(i) < mid => Holds(r, i, e, Before(mid))
    BY DEF Holds, Since, Before
  <1>3. CASE ~Rules[r].seminaive \/ (Atoms(r) = <<>> /\ mid = 0)
    BY <1>3 DEF Matches, NaiveMatch
  <1>4. CASE Rules[r].seminaive /\ (Atoms(r) # <<>> \/ mid # 0)
    <2> DEFINE New == {i \in DOMAIN Atoms(r) : Ts(i) >= mid}
    <2>1. DOMAIN Atoms(r) = 1 .. Len(Atoms(r)) /\ Len(Atoms(r)) \in Nat
      BY RuleFacts
    <2>2. CASE New = {}
      <3>1. \A i \in DOMAIN Atoms(r) : Ts(i) < mid
        BY <1>1, <1>2, <2>2
      <3>2. Old(r, e)
        BY <1>2, <3>1 DEF Old
      <3>3. CASE mid # 0
        BY <1>1, <3>2, <3>3
      <3>4. CASE mid = 0
        <4>1. ASSUME NEW i \in DOMAIN Atoms(r) PROVE FALSE
          <5>1. Ts(i) \in Nat /\ Ts(i) < 0
            BY <1>2, <3>1, <3>4
          <5> HIDE DEF Ts
          <5> QED
            BY <5>1
        <4>2. Atoms(r) \in Seq(Range(Atoms(r)))
          BY RulesAssumption DEF WellFormed
        <4>3. Len(Atoms(r)) = 0
          <5>1. 1 \notin DOMAIN Atoms(r)
            BY <4>1
          <5>2. 1 \notin 1 .. Len(Atoms(r))
            BY <2>1, <5>1
          <5> QED
            BY <2>1, <5>2
        <4>4. Atoms(r) = <<>>
          BY <4>2, <4>3
        <4> QED
          BY <1>4, <3>4, <4>4
      <3> QED
        BY <3>3, <3>4
    <2>3. CASE New # {}
      <3>1. New \in SUBSET Nat
        BY <2>1
      <3>2. PICK f \in New : \A i \in New : f <= i
        BY <2>3, <3>1, LeastOf
      <3>3. f \in DOMAIN Atoms(r) /\ Ts(f) >= mid
        OBVIOUS
      <3>4. ASSUME NEW i \in DOMAIN Atoms(r), i < f PROVE Ts(i) < mid
        <4>1. i \notin New
          BY <2>1, <3>2, <3>4
        <4> QED
          BY <1>1, <1>2, <4>1
      <3>5. f \in Focuses(r)
        <4>1. CASE mid # 0
          BY <3>3, <4>1 DEF Focuses
        <4>2. CASE mid = 0
          <5>1. 1 \in New
            BY <1>1, <1>2, <2>1, <3>3, <4>2
          <5>2. f = 1
            BY <2>1, <3>2, <3>3, <5>1
          <5> QED
            BY <3>3, <5>2 DEF Focuses
        <4> QED
          BY <4>1, <4>2
      <3>6. FocusMatch(r, f, e)
        BY <1>2, <3>3, <3>4 DEF FocusMatch
      <3> QED
        BY <1>4, <3>5, <3>6 DEF Matches
    <2> QED
      BY <2>2, <2>3
  <1> QED
    BY <1>3, <1>4

(* What is answered stays so.                                                           *)
LEMMA AnsweredStays ==
    ASSUME SubsumesSafe, TypeOK, TypeOK', Phases, Removals, PredictedKept, MatchesThere, CurPromised, [Next]_vars,
           NEW r \in RuleName, NEW e, Answered(r, e), r \notin lost'
    PROVE  Answered(r, e)'
  <1>1. CASE [rule |-> r, env |-> e] \in todo
    <2> DEFINE m == [rule |-> r, env |-> e]
    <2>1. m \in todo' \/ m.rule \in lost' \/ (cur' # None /\ cur'.rule = m.rule /\ cur'.env = m.env)
      BY <1>1, TodoSteps
    <2> QED
      BY <2>1 DEF Answered, Extends
  <1>2. CASE cur # None /\ cur.rule = r /\ Extends(cur.env, e)
    <2>1. (cur' # None /\ cur'.rule = r /\ Extends(cur'.env, e)) \/ Promised(r, e)'
      BY <1>2, CurAnswered
    <2> QED
      BY <2>1 DEF Answered, Extends
  <1>3. CASE Promised(r, e)
    BY <1>3, PromisesStay DEF Answered
  <1> QED
    BY <1>1, <1>2, <1>3 DEF Answered

LEMMA OldAnsweredKept ==
    ASSUME SubsumesSafe, TypeOK, TypeOK', Phases, Removals, Dated, PredictedKept, MatchesThere, CurPromised,
           OldAnswered, [Next]_vars
    PROVE  OldAnswered'
  <1> SUFFICES ASSUME NEW r \in RuleName, r \notin lost', lastRun'[r] > 0, NEW e \in Envs(r), Old(r, e)'
               PROVE  Answered(r, e)'
    BY DEF OldAnswered, Envs
  <1>1. r \notin lost
    BY RunSteps
  <1>2. CASE lastRun'[r] = lastRun[r]
    <2>1. Answered(r, e)
      BY <1>1, <1>2, OldWas DEF OldAnswered
    <2> QED
      BY <2>1, AnsweredStays
  <1>3. CASE lastRun'[r] # lastRun[r]
    <2>1. PICK rs \in Schedules : RunRules(rs)
      BY <1>3, RunSteps
    <2>2. /\ todo' = UNION {{[rule |-> q, env |-> f] : f \in Matches(q)} : q \in rs}
          /\ rows' = rows /\ r \in rs
      BY <1>3, <2>1, Controls DEF RunRules
    <2>3. \A i \in DOMAIN Atoms(r) : Holds(r, i, e, Nat)
      BY <2>2 DEF Old, Holds, Before
    <2>4. CASE e \in Matches(r)
      <3>1. [rule |-> r, env |-> e] \in todo'
        BY <2>2, <2>4
      <3> QED
        BY <3>1 DEF Answered
    <2>5. CASE lastRun[r] > 0 /\ Old(r, e)
      <3>1. Answered(r, e)
        BY <1>1, <2>5 DEF OldAnswered
      <3> QED
        BY <3>1, AnsweredStays
    <2> QED
      BY <2>3, <2>4, <2>5, RunFinds
  <1> QED
    BY <1>2, <1>3

LEMMA PromiseHolds ==
    ASSUME TypeOK, Closing, pc = "idle", ~unbuilt, NEW a, NEW e, Promise(a, e)
    PROVE  Holding(a, e)
  <1>1. ins = {} /\ uns = {} /\ \A k \in Key : ~Stale(k)
    BY AtRest DEF Closing
  <1>2. \A v, b : Kept(a.fn, e[a.arg], v, b) =>
           \/ WasDropped(a.fn, e[a.arg])
           \/ LET k == <<a.fn, Find(e[a.arg])>>
              IN  k \in Key /\ rows[k] # None /\ (a.fn \notin NoMerge => rows[k].val = Find(v)) /\ (b => rows[k].sub)
    BY <1>1, KeptIsThere
  <1>3. CASE a.op = "union"
    <2>1. Find(e[a.arg]) = Find(e[a.val])
      BY <1>1, <1>3, EqualIsFound DEF Promise, TypeOK
    <2> QED
      BY <1>3, <2>1 DEF Holding
  <1>4. CASE a.op \in {"lookup", "set"}
    <2>1. Kept(a.fn, e[a.arg], e[a.val], FALSE)
      BY <1>4 DEF Promise
    <2> QED
      BY <1>2, <1>4, <2>1 DEF Holding
  <1>5. CASE a.op = "subsume"
    <2>1. PICK v \in Value : Kept(a.fn, e[a.arg], v, TRUE)
      BY <1>5 DEF Promise
    <2> QED
      BY <1>2, <1>5, <2>1 DEF Holding
  <1>6. CASE a.op \notin {"union", "lookup", "set", "subsume"}
    BY <1>6 DEF Holding
  <1> QED
    BY <1>3, <1>4, <1>5, <1>6

LEMMA PromisedHolds ==
    ASSUME TypeOK, Closing, pc = "idle", ~unbuilt, NEW r \in RuleName, NEW e \in Envs(r), Promised(r, e)
    PROVE  HeadHolds(r, e)
  <1> DEFINE end == Len(Acts(r)) + 1
             scope == Scope(r, end)
             bound == Bound(r, end)
  <1>1. PICK full \in [scope -> Value] : Extends(full, e) /\ PromisedUpTo(r, full, end)
    BY DEF Promised
  <1>2. DOMAIN e = Vars(r) \cup DOMAIN Consts(r) /\ scope = DOMAIN e \cup bound
    BY DEF Envs, Scope
  <1> DEFINE x == [n \in bound |-> full[n]]
             all == [n \in DOMAIN e \cup DOMAIN x |-> IF n \in DOMAIN x THEN x[n] ELSE e[n]]
  <1> HIDE DEF bound, scope
  <1>3. x \in [bound -> Value]
    BY <1>1, <1>2
  <1>4. all = full
    <2>1. DOMAIN all = DOMAIN full
      BY <1>1, <1>2
    <2>2. \A n \in DOMAIN full : all[n] = full[n]
      BY <1>1, <1>2 DEF Extends
    <2> QED
      BY <1>1, <2>1, <2>2
  <1>5. ASSUME NEW j \in DOMAIN Acts(r) PROVE Holding(Acts(r)[j], full)
    <2>1. j < end
      BY RuleFacts
    <2>2. Promise(Acts(r)[j], full)
      BY <1>1, <2>1 DEF PromisedUpTo
    <2> QED
      BY <2>2, PromiseHolds
  <1>6. \A j \in DOMAIN Acts(r) : Holding(Acts(r)[j], all)
    BY <1>4, <1>5
  <1> QED
    BY <1>3, <1>6 DEF HeadHolds, bound

(* Every match that the rules will not find again is answered.                          *)
Answering == Closing /\ Dated /\ MatchesThere /\ PredictedKept /\ CurPromised /\ OldAnswered

LEMMA AnsweringHolds == TypeOK /\ Answering => HeadsHold
  <1> SUFFICES ASSUME TypeOK, Answering, pc = "idle", ~unbuilt, NEW r \in RuleName \ lost, lastRun[r] > 0,
                      NEW e \in Envs(r), \A i \in DOMAIN Atoms(r) : Holds(r, i, e, Before(lastRun[r]))
               PROVE  HeadHolds(r, e)
    BY DEF HeadsHold
  <1>1. Answered(r, e)
    BY DEF Answering, OldAnswered, Old
  <1>2. Promised(r, e)
    BY <1>1, AtRest DEF Answered, Answering, Closing
  <1> QED
    BY <1>2, PromisedHolds DEF Answering

LEMMA InitAnswering == Init => Answering
  <1> SUFFICES ASSUME Init PROVE Answering
    OBVIOUS
  <1>1. Dated /\ MatchesThere
    BY DEF Init, Dated, MatchesThere
  <1>2. PredictedKept /\ CurPromised
    BY DEF Init, PredictedKept, CurPromised
  <1>3. OldAnswered
    BY DEF Init, OldAnswered
  <1> QED
    BY <1>1, <1>2, <1>3, InitClosing DEF Answering

LEMMA AnsweringKept ==
    ASSUME SubsumesSafe
    PROVE  TypeOK /\ TypeOK' /\ Answering /\ [Next]_vars => Answering'
  <1> SUFFICES ASSUME TypeOK, TypeOK', Answering, [Next]_vars PROVE Answering'
    OBVIOUS
  <1>1. Closing'
    BY ClosingKept DEF Answering
  <1>2. Phases /\ Phases' /\ Removals
    BY <1>1 DEF Answering, Closing
  <1>3. Dated' /\ PredictedKept'
    BY <1>2, DatedKept, PredictedKeptKept DEF Answering
  <1>4. MatchesThere' /\ CurPromised'
    BY <1>2, MatchesThereKept, CurPromisedKept DEF Answering
  <1>5. OldAnswered'
    BY <1>2, OldAnsweredKept DEF Answering
  <1> QED
    BY <1>1, <1>3, <1>4, <1>5 DEF Answering

(* Seminaive evaluation forgets nothing: between operations, what a rule's actions ask  *)
(* for holds of every match whose rows are all older than the rule's last run, however  *)
(* often ids were united, rows rebuilt and subsumed since; as long as no rule subsumes  *)
(* a tuple that its own run may just have made up.                                      *)
THEOREM HeadsOfRulesHold ==
    ASSUME SubsumesSafe
    PROVE  Spec => []HeadsHold
  <1>1. Init => TypeOK /\ Answering
    BY InitTypes, InitAnswering
  <1>2. TypeOK /\ Answering /\ [Next]_vars => TypeOK' /\ Answering'
    BY TypesKept, AnsweringKept
  <1>3. TypeOK /\ Answering => HeadsHold
    BY AnsweringHolds
  <1> QED
    BY <1>1, <1>2, <1>3, PTL DEF Spec
=============================================================================
