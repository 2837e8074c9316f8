---------------------------------- MODULE EGraph ----------------------------------
(* The e-graph of egglog-bridge: functions stored as tables with a timestamp and   *)
(* a subsumption flag per row, a union-find of displaced ids, rules run by         *)
(* seminaive evaluation, and the rebuild that makes the tables canonical again.    *)
(*                                                                                 *)
(* A run of rules matches against the tables as they are, stages what the actions  *)
(* of the matches write, merges it, and rebuilds when ids were united.  Matches    *)
(* are applied one at a time, each on one of the clones of the ExecutionState the  *)
(* code makes (Worker); a merge takes staged rows and unions in any order, as      *)
(* module Database shows it may.  Keys have one argument; containers, primitives   *)
(* and merge functions other than those of constructors and :no-merge functions    *)
(* are left out.                                                                   *)
EXTENDS Integers, Sequences, FiniteSets, Functions

CONSTANTS
    Fn,         \* the functions: constructors, whose values are ids, and
    NoMerge,    \*   the :no-merge functions among them, whose values are bases
    IdKey,      \* the functions whose argument is an id
    Base,       \* base values, numbers from MaxId up
    Lit,        \* bound: the base values that arguments take
    Input,      \* bound: the functions that callers write to directly
    Rules,      \* rule name -> its atoms, actions, constants, types of names, flags
    Schedules,  \* the sets of rules that run_rules is called with
    Worker,     \* clones of the ExecutionState that apply matches
    Dom,        \* what ids may stand for, and
    Meanings,   \*   interpretations of the constructors in which the rules are true
    None,
    MaxId,      \* bound: ids handed out
    MaxTime,    \* bound: no operation starts at this timestamp
    MaxBatch    \* bound: rows of an add_values

Id == 0 .. (MaxId - 1)
Value == Id \cup Base
Of(type) == IF type = "id" THEN Id ELSE IF type = "lit" THEN Lit ELSE Base
Key == (IdKey \X Id) \cup ((Fn \ IdKey) \X Lit)
RuleName == DOMAIN Rules
ValueOf(f) == IF f \in NoMerge THEN Base ELSE Id
Con == Fn \ NoMerge
Term == Con \X (Dom \cup Base)

(* A rule's names are its variables, which its atoms bind, and its constants;    *)
(* each lookup binds one more.  Scope(r, j) is what its j-th action may use.     *)
Atoms(r) == Rules[r].atoms
Acts(r) == Rules[r].acts
Consts(r) == Rules[r].consts
Type(r, n) == Rules[r].type[n]
Vars(r) == {Atoms(r)[i].arg : i \in DOMAIN Atoms(r)} \cup {Atoms(r)[i].val : i \in DOMAIN Atoms(r)}
Bound(r, j) == {Acts(r)[i].val : i \in {i \in DOMAIN Acts(r) : i < j /\ Acts(r)[i].op = "lookup"}}
Scope(r, j) == Vars(r) \cup DOMAIN Consts(r) \cup Bound(r, j)

\* a.fn takes the value of a.arg and has values like that of a.val.
Fits(r, a) ==
    /\ a.fn \in Fn
    /\ Type(r, a.arg) = IF a.fn \in IdKey THEN "id" ELSE "lit"
    /\ IF a.fn \in NoMerge THEN Type(r, a.val) \in {"lit", "base"} ELSE Type(r, a.val) = "id"

WellFormed(r) ==
    /\ Atoms(r) \in Seq(Range(Atoms(r))) /\ Acts(r) \in Seq(Range(Acts(r))) /\ Acts(r) # <<>>
    /\ \A i \in DOMAIN Atoms(r) : Fits(r, Atoms(r)[i])
    /\ \A c \in DOMAIN Consts(r) : Type(r, c) = "lit" /\ Consts(r)[c] \in Lit
    /\ \A j \in DOMAIN Acts(r) :
         LET a == Acts(r)[j]
         IN  /\ a.op \in {"lookup", "set", "union", "remove", "subsume", "panic"}
             /\ a.op # "panic" => a.arg \in Scope(r, j)
             /\ a.op \in {"lookup", "set", "remove", "subsume"} => Fits(r, a)
             /\ a.op \in {"set", "union"} => a.val \in Scope(r, j)
             /\ a.op = "union" => Type(r, a.arg) = "id" /\ Type(r, a.val) = "id"
             /\ a.op = "lookup" => a.val \notin Scope(r, j)
             /\ a.op = "lookup" /\ a.fn \in NoMerge => Type(r, a.val) = "base"
             /\ a.op = "subsume" => a.fn \in Con

(* Every subsume action is given a tuple that the match rests on, or nothing comes *)
(* after it and no lookup of the run can have made the tuple up.                   *)
LooksUp(rs, f) == \E r \in rs : \E i \in DOMAIN Acts(r) : Acts(r)[i].op = "lookup" /\ Acts(r)[i].fn = f
SubsumesSafe ==
    \A rs \in Schedules : \A r \in rs : \A j \in DOMAIN Acts(r) : Acts(r)[j].op = "subsume" =>
       \/ \E i \in DOMAIN Atoms(r) : Atoms(r)[i].fn = Acts(r)[j].fn /\ Atoms(r)[i].arg = Acts(r)[j].arg
       \/ j = Len(Acts(r)) /\ ~LooksUp(rs, Acts(r)[j].fn)

(* A rule is true in an interpretation when what its set and union actions state *)
(* follows from its atoms and from what the lookups before them have found.      *)
Says(m, a, d) == a.fn \in Con => m[<<a.fn, d[a.arg]>>] = d[a.val]
RuleIsTrue(m, r) ==
    \A j \in DOMAIN Acts(r) : \A d \in [Scope(r, j) -> Dom \cup Base] :
       LET a == Acts(r)[j]
       IN  /\ \A n \in Scope(r, j) : d[n] \in IF Type(r, n) = "id" THEN Dom ELSE Base
           /\ \A i \in DOMAIN Atoms(r) : Says(m, Atoms(r)[i], d)
           /\ \A i \in 1 .. (j - 1) : Acts(r)[i].op = "lookup" => Says(m, Acts(r)[i], d)
           => /\ a.op = "set" => Says(m, a, d)
              /\ a.op = "union" => d[a.arg] = d[a.val]

ASSUME RulesAssumption ==
    \A r \in RuleName : WellFormed(r) /\ \A m \in Meanings : RuleIsTrue(m, r)
ASSUME ValuesAssumption ==
    /\ MaxId \in Nat /\ MaxTime \in Nat /\ MaxBatch \in Nat
    /\ Base \subseteq Int \ Id /\ Lit \subseteq Base
    /\ NoMerge \subseteq Fn /\ IdKey \subseteq Fn
    /\ Schedules \subseteq SUBSET RuleName
    /\ None \notin Value
    /\ Dom # {} /\ Meanings \subseteq [Term -> Dom]
\* What is not there differs from every row and from every match being applied.
ASSUME NoneAssumption ==
    /\ None \notin [val : Value, sub : BOOLEAN, ts : Nat]
    /\ \A r \in RuleName : \A j \in DOMAIN Acts(r) :
          None \notin [rule : {r}, env : [Scope(r, j) -> Value], worker : Worker, at : {j}]

VARIABLES
    leader,     \* the union-find, paths compressed
    rows,       \* per key its row, or None
    seen,       \* per function the displaced ids its table has caught up with
    now,        \* timestamp_counter
    nextId,     \* id_counter
    lastRun,    \* per rule, last_run_at
    pc,         \* "idle", "act", "merge", "rebuild", "pass" (a rebuild's merge)
    caller,     \* "run" or "flush": who merges and rebuilds
    todo,       \* matches of the run not applied yet
    cur,        \* the match being applied, or None
    predicted,  \* per worker and key the id it predicted, or None
    ins, dels, uns,  \* staged rows, removals and unions
    changed,    \* this merge_all changed a table
    grew,       \* ids were displaced since the operation began
    panicked,   \* panic_message is set
    stop,       \* stop_match of this run
    meaning,    \* history: an interpretation in which the callers speak the truth
    den,        \* history: what the ids stand for in it
    facts, eqs, \* history: rows and unions ever staged by a caller or a rule
    dropped,    \* history: keys that a rule removed
    lost,       \* history: rules of which an early stop or a panic cut matches short
    unbuilt     \* history: a failed run merged unions and no rebuild followed

egraph == <<leader, rows, seen, now, nextId, lastRun>>
staged == <<ins, dels, uns>>
running == <<todo, cur, predicted, stop>>
history == <<meaning, den, facts, eqs, dropped, lost, unbuilt>>
vars == <<egraph, staged, running, history, pc, caller, changed, grew, panicked>>

-----------------------------------------------------------------------------
(* The union-find and the tables.                                              *)

Find(v) == IF v \in Id THEN leader[v] ELSE v
Displaced == {i \in Id : leader[i] # i}
Canonical(v) == Find(v) = v
Known(v) == v \in Id => v < nextId
Den(v) == IF v \in Id THEN den[v] ELSE v
True(f) == f.key[1] \in Con => meaning[<<f.key[1], Den(f.key[2])>>] = Den(f.val)

\* DisplacedTable::insert_impl: the lesser root becomes the parent.
Unite(x, y) ==
    LET a == leader[x]
        b == leader[y]
        root == IF a < b THEN a ELSE b
    IN  [i \in Id |-> IF leader[i] \in {a, b} THEN root ELSE leader[i]]

\* The callback of MergeFn::to_callback: a constructor keeps the lesser id and
\* unites the two, a :no-merge function keeps the old value; subsumption sticks.
MergedVal(f, old, new) == IF f \notin NoMerge /\ new < old THEN new ELSE old
MergedSub(old, new) == old \/ new

Stage(k, v, s) == [key |-> k, val |-> v, sub |-> s]
Fact(k, v) == [key |-> k, val |-> v]

Init ==
    /\ leader = [i \in Id |-> i]
    /\ rows = [k \in Key |-> None]
    /\ seen = [f \in Fn |-> {}]
    /\ now = 1 /\ nextId = 0
    /\ lastRun = [r \in RuleName |-> 0]
    /\ pc = "idle" /\ caller = "flush"
    /\ todo = {} /\ cur = None /\ stop = FALSE
    /\ predicted = [w \in Worker |-> [k \in Key |-> None]]
    /\ ins = {} /\ dels = {} /\ uns = {}
    /\ changed = FALSE /\ grew = FALSE /\ panicked = FALSE
    /\ meaning \in Meanings /\ den = [i \in Id |-> CHOOSE d \in Dom : TRUE]
    /\ facts = {} /\ eqs = {} /\ dropped = {} /\ lost = {} /\ unbuilt = FALSE

-----------------------------------------------------------------------------
(* Matching: Query::add_rules_from_cached.  A rule's variables are names; a    *)
(* match binds those of its atoms, and the names of its constants.             *)

Envs(r) == {e \in [Vars(r) \cup DOMAIN Consts(r) -> Value] :
              /\ \A n \in DOMAIN e : e[n] \in Of(Type(r, n))
              /\ \A c \in DOMAIN Consts(r) : e[c] = Consts(r)[c]}

KeyOf(a, e) == <<a.fn, e[a.arg]>>

Since(mid) == {t \in Nat : t >= mid}
Before(mid) == {t \in Nat : t < mid}

\* Atom i of the rule holds of a row whose timestamp is in times.
Holds(r, i, e, times) ==
    LET a == Atoms(r)[i]
    IN  /\ KeyOf(a, e) \in Key
        /\ LET row == rows[KeyOf(a, e)]
           IN row # None /\ row.val = e[a.val] /\ ~row.sub /\ row.ts \in times

\* Mutant: a focus atom sees only what was written after the rule's last run began.
FocusMatchLate(r, focus, e) ==
    LET mid == lastRun[r]
    IN  \A i \in DOMAIN Atoms(r) :
           IF i = focus THEN Holds(r, i, e, Since(mid + 1))
           ELSE IF i < focus THEN Holds(r, i, e, Before(mid))
           ELSE Holds(r, i, e, Nat)

\* Seminaive evaluation with focus atom i: the focus is new, what comes before it old.
FocusMatch(r, focus, e) ==
    LET mid == lastRun[r]
    IN  \A i \in DOMAIN Atoms(r) :
           IF i = focus THEN Holds(r, i, e, Since(mid))
           ELSE IF i < focus THEN Holds(r, i, e, Before(mid))
           ELSE Holds(r, i, e, Nat)

NaiveMatch(r, e) == \A i \in DOMAIN Atoms(r) : Holds(r, i, e, Nat)

\* With mid = 0 every row is new, and only the first focus has anything to match.
Focuses(r) == {i \in DOMAIN Atoms(r) : i = 1 \/ lastRun[r] # 0}

Matches(r) ==
    IF ~Rules[r].seminaive \/ (Atoms(r) = <<>> /\ lastRun[r] = 0)
    THEN {e \in Envs(r) : NaiveMatch(r, e)}
    ELSE {e \in Envs(r) : \E i \in Focuses(r) : FocusMatch(r, i, e)}

-----------------------------------------------------------------------------
(* Operations of callers.                                                      *)

Begin == pc = "idle" /\ now < MaxTime

\* EGraph::add_term: a fresh id for a term that may be known already.
AddTerm(k) ==
    /\ Begin /\ k[1] \in Input \ NoMerge /\ Canonical(k[2]) /\ Known(k[2]) /\ nextId < MaxId
    /\ nextId' = nextId + 1
    /\ ins' = {Stage(k, nextId, FALSE)}
    /\ facts' = facts \cup {Fact(k, nextId)}
    /\ den' = [den EXCEPT ![nextId] = meaning[<<k[1], Den(k[2])>>]]
    /\ pc' = "merge" /\ caller' = "flush" /\ changed' = FALSE /\ grew' = FALSE
    /\ UNCHANGED <<leader, rows, seen, now, lastRun, dels, uns, running, meaning, eqs, dropped,
                   lost, unbuilt, panicked>>

\* EGraph::add_values: rows of canonical ids.
AddValues(new) ==
    /\ Begin
    /\ \A f \in new : True(f) /\ \A v \in {f.key[2], f.val} : Canonical(v) /\ Known(v)
    /\ ins' = {Stage(f.key, f.val, FALSE) : f \in new}
    /\ facts' = facts \cup new
    /\ pc' = "merge" /\ caller' = "flush" /\ changed' = FALSE /\ grew' = FALSE
    /\ UNCHANGED <<egraph, dels, uns, running, meaning, den, eqs, dropped, lost, unbuilt, panicked>>

Mints(m) == {j \in DOMAIN Acts(m.rule) : Acts(m.rule)[j].op \in {"lookup", "subsume"}}

\* run_rules_inner and run_rules_impl: last_run_at moves on before anything runs.
RunRules(rs) ==
    /\ Begin
    /\ todo' = UNION {{[rule |-> r, env |-> e] : e \in Matches(r)} : r \in rs}
    /\ nextId + Cardinality(UNION {{<<m, j>> : j \in Mints(m)} : m \in todo'}) <= MaxId
    /\ lastRun' = [r \in RuleName |-> IF r \in rs THEN now ELSE lastRun[r]]
    /\ pc' = "act" /\ caller' = "run" /\ stop' = FALSE /\ changed' = FALSE /\ grew' = FALSE
    /\ UNCHANGED <<leader, rows, seen, now, nextId, staged, cur, predicted, history, panicked>>

-----------------------------------------------------------------------------
(* Applying matches: ExecutionState::run_instrs.                               *)

PickMatch(m, w) ==
    /\ pc = "act" /\ cur = None /\ m \in todo
    /\ todo' = todo \ {m}
    /\ cur' = [rule |-> m.rule, env |-> m.env, worker |-> w, at |-> 1]
    /\ UNCHANGED <<egraph, staged, predicted, stop, history, pc, caller, changed, grew, panicked>>

\* The join stops looking for matches once an early stop was asked for.
StopEarly ==
    /\ pc = "act" /\ cur = None /\ stop /\ todo # {}
    /\ todo' = {}
    /\ lost' = lost \cup {m.rule : m \in todo}
    /\ UNCHANGED <<egraph, staged, cur, predicted, stop, meaning, den, facts, eqs, dropped, unbuilt,
                   pc, caller, changed, grew, panicked>>

Instr == Acts(cur.rule)[cur.at]
Act(op) == pc = "act" /\ cur # None /\ Instr.op = op
Arg == cur.env[Instr.arg]
ActKey == <<Instr.fn, Arg>>
Bind(x, v) == [n \in DOMAIN cur.env \cup {x} |-> IF n = x THEN v ELSE cur.env[n]]
Proceed(env) == cur' = IF cur.at = Len(Acts(cur.rule)) THEN None
                       ELSE [cur EXCEPT !.at = cur.at + 1, !.env = env]
Done == Proceed(cur.env)
Halt == cur' = None

\* Mutant: predicted values are kept per table, not per key.
KnownValOfTable(k) ==
    LET same == {j \in Key : j[1] = k[1] /\ predicted[cur.worker][j] # None}
    IN  IF rows[k] # None THEN rows[k].val
        ELSE IF same # {} THEN predicted[cur.worker][CHOOSE j \in same : TRUE]
        ELSE nextId

\* Instr::LookupOrInsertDefault: the value in the table, or the one that this
\* ExecutionState predicted, or a fresh id whose row is staged.
KnownVal(k) == IF rows[k] # None THEN rows[k].val
             ELSE IF predicted[cur.worker][k] # None THEN predicted[cur.worker][k]
             ELSE nextId
InsertUnknown(k, s) ==
    IF rows[k] # None \/ predicted[cur.worker][k] # None
    THEN UNCHANGED <<nextId, ins, predicted, facts, den>>
    ELSE /\ nextId < MaxId  \* bound; RunRules has left room for these ids
         /\ nextId' = nextId + 1
         /\ ins' = ins \cup {Stage(k, nextId, s)}
         /\ predicted' = [predicted EXCEPT ![cur.worker][k] = nextId]
         /\ facts' = facts \cup {Fact(k, nextId)}
         /\ den' = [den EXCEPT ![nextId] = meaning[<<k[1], Den(k[2])>>]]

\* RuleBuilder::lookup on a constructor.
DoLookup ==
    /\ Act("lookup") /\ Instr.fn \notin NoMerge
    /\ InsertUnknown(ActKey, FALSE)
    /\ Proceed(Bind(Instr.val, KnownVal(ActKey)))
    /\ UNCHANGED <<leader, rows, seen, now, lastRun, dels, uns, todo, stop, meaning, eqs,
                   dropped, lost, unbuilt, pc, caller, changed, grew, panicked>>

\* RuleBuilder::lookup on a function without a default, which panics when it misses.
DoGet ==
    /\ Act("lookup") /\ Instr.fn \in NoMerge
    /\ IF rows[ActKey] # None
       THEN /\ Proceed(Bind(Instr.val, rows[ActKey].val))
            /\ UNCHANGED <<stop, panicked, lost>>
       ELSE Halt /\ stop' = TRUE /\ panicked' = TRUE /\ lost' = lost \cup {cur.rule}
    /\ UNCHANGED <<egraph, staged, todo, predicted, meaning, den, facts, eqs, dropped, unbuilt,
                   pc, caller, changed, grew>>

\* RuleBuilder::set.
DoSet ==
    /\ Act("set") /\ Done
    /\ LET v == cur.env[Instr.val]
       IN  ins' = ins \cup {Stage(ActKey, v, FALSE)} /\ facts' = facts \cup {Fact(ActKey, v)}
    /\ UNCHANGED <<egraph, dels, uns, todo, predicted, stop, meaning, den, eqs, dropped, lost,
                   unbuilt, pc, caller, changed, grew, panicked>>

\* RuleBuilder::union.
DoUnion ==
    /\ Act("union") /\ Done
    /\ LET pair == <<Arg, cur.env[Instr.val]>>
       IN  uns' = uns \cup {pair} /\ eqs' = eqs \cup {pair}
    /\ UNCHANGED <<egraph, ins, dels, todo, predicted, stop, meaning, den, facts, dropped, lost,
                   unbuilt, pc, caller, changed, grew, panicked>>

\* RuleBuilder::remove.
DoRemove ==
    /\ Act("remove") /\ Done
    /\ dels' = dels \cup {ActKey} /\ dropped' = dropped \cup {ActKey}
    /\ UNCHANGED <<egraph, ins, uns, todo, predicted, stop, meaning, den, facts, eqs, lost,
                   unbuilt, pc, caller, changed, grew, panicked>>

\* RuleBuilder::subsume: insert a subsumed row if the tuple is new, then look the
\* tuple up in the table, halting if it is not there, and mark it.
DoSubsume ==
    /\ Act("subsume")
    /\ IF rows[ActKey] = None
       THEN InsertUnknown(ActKey, TRUE) /\ Halt
       ELSE /\ ins' = IF rows[ActKey].sub THEN ins
                      ELSE ins \cup {Stage(ActKey, rows[ActKey].val, TRUE)}
            /\ Done /\ UNCHANGED <<nextId, predicted, facts, den>>
    /\ UNCHANGED <<leader, rows, seen, now, lastRun, dels, uns, todo, stop, meaning, eqs,
                   dropped, lost, unbuilt, pc, caller, changed, grew, panicked>>

\* RuleBuilder::panic: the message is set, the match halts, the others may stop.
DoPanic ==
    /\ Act("panic") /\ Halt
    /\ stop' = TRUE /\ panicked' = TRUE /\ lost' = lost \cup {cur.rule}
    /\ UNCHANGED <<egraph, staged, todo, predicted, meaning, den, facts, eqs, dropped, unbuilt,
                   pc, caller, changed, grew>>

EndSearch ==
    /\ pc = "act" /\ cur = None /\ todo = {}
    /\ pc' = "merge"
    /\ predicted' = [w \in Worker |-> [k \in Key |-> None]] /\ stop' = FALSE
    /\ UNCHANGED <<egraph, staged, todo, cur, history, caller, changed, grew, panicked>>

-----------------------------------------------------------------------------
(* Database::merge_all, of function tables and of the union-find.              *)

Merging == pc \in {"merge", "pass"}

\* A table merges its removals before its rows.
MergeRemovals(f) ==
    LET gone == {k \in dels : k[1] = f}
    IN  /\ Merging /\ gone # {}
        /\ dels' = dels \ gone
        /\ rows' = [k \in Key |-> IF k \in gone THEN None ELSE rows[k]]
        /\ changed' = (changed \/ \E k \in gone : rows[k] # None)
        /\ UNCHANGED <<leader, seen, now, nextId, lastRun, ins, uns, running, history, pc, caller,
                       grew, panicked>>

MergeRow(s) ==
    LET f == s.key[1]
        old == rows[s.key]
        val == MergedVal(f, old.val, s.val)
        sub == MergedSub(old.sub, s.sub)
        same == old # None /\ val = old.val /\ sub = old.sub
    IN  /\ Merging /\ s \in ins /\ \A k \in dels : k[1] # f
        /\ ins' = ins \ {s}
        /\ rows' = IF same THEN rows
                   ELSE [rows EXCEPT ![s.key] =
                           [val |-> IF old = None THEN s.val ELSE val,
                            sub |-> IF old = None THEN s.sub ELSE sub, ts |-> now]]
        /\ changed' = (changed \/ ~same)
        /\ uns' = IF old = None \/ old.val = s.val \/ f \in NoMerge THEN uns
                  ELSE uns \cup {<<old.val, s.val>>}
        /\ panicked' = (panicked \/ (old # None /\ f \in NoMerge /\ old.val # s.val))
        /\ UNCHANGED <<leader, seen, now, nextId, lastRun, dels, running, history, pc, caller, grew>>

\* DisplacedTable::merge.
MergeUnion(p) ==
    /\ Merging /\ p \in uns
    /\ uns' = uns \ {p}
    /\ IF leader[p[1]] = leader[p[2]]
       THEN UNCHANGED <<leader, changed, grew>>
       ELSE leader' = Unite(p[1], p[2]) /\ changed' = TRUE /\ grew' = TRUE
    /\ UNCHANGED <<rows, seen, now, nextId, lastRun, ins, dels, running, history, pc, caller, panicked>>

Merged == ins = {} /\ dels = {} /\ uns = {}

\* What follows merge_all in flush_updates and in run_rules_inner, which returns
\* an error before it looks at the union-find.
EndMerge ==
    /\ pc = "merge" /\ Merged
    /\ IF caller = "run" /\ panicked
       THEN /\ pc' = "idle" /\ panicked' = FALSE
            /\ unbuilt' = (unbuilt \/ grew)
            /\ UNCHANGED now
       ELSE /\ now' = IF caller = "flush" \/ ~grew THEN now + 1 ELSE now
            /\ pc' = IF grew THEN "rebuild" ELSE "idle"
            /\ UNCHANGED <<panicked, unbuilt>>
    /\ changed' = FALSE /\ grew' = FALSE
    /\ UNCHANGED <<leader, rows, seen, nextId, lastRun, staged, running, meaning, den, facts, eqs,
                   dropped, lost, caller>>

-----------------------------------------------------------------------------
(* EGraph::rebuild with Database::apply_rebuild.                               *)

Stale(k) == rows[k] # None /\ ~(Canonical(k[2]) /\ Canonical(rows[k].val))

\* An incremental rebuild looks at rows with an id displaced since the last one.
RebuiltKeys(incremental) ==
    {k \in Key : /\ Stale(k)
                 /\ k[1] \in incremental =>
                      {k[2], rows[k].val} \cap (Displaced \ seen[k[1]]) # {}}

RebuildPass(incremental) ==
    /\ pc = "rebuild"
    /\ dels' = RebuiltKeys(incremental)
    /\ ins' = {Stage(<<k[1], Find(k[2])>>, Find(rows[k].val), rows[k].sub) : k \in dels'}
    /\ seen' = [f \in Fn |-> Displaced]
    /\ pc' = "pass"
    /\ UNCHANGED <<leader, rows, now, nextId, lastRun, uns, running, history, caller, changed,
                   grew, panicked>>

\* Mutant: one pass is thought to be enough.
EndPassOnce ==
    /\ pc = "pass" /\ Merged
    /\ now' = now + 1 /\ pc' = "idle"
    /\ panicked' = (panicked /\ caller = "flush") /\ unbuilt' = FALSE
    /\ changed' = FALSE /\ grew' = FALSE
    /\ UNCHANGED <<leader, rows, seen, nextId, lastRun, staged, running, meaning, den, facts, eqs,
                   dropped, lost, caller>>

\* Mutant: rows that were looked at count as changed, and time moves only at the end.
EndPassScanned ==
    /\ pc = "pass" /\ Merged
    /\ now' = IF Displaced = {} THEN now + 1 ELSE now
    /\ pc' = IF Displaced # {} THEN "rebuild" ELSE "idle"
    /\ panicked' = (panicked /\ (Displaced # {} \/ caller = "flush"))
    /\ unbuilt' = (unbuilt /\ Displaced # {})
    /\ changed' = FALSE /\ grew' = FALSE
    /\ UNCHANGED <<leader, rows, seen, nextId, lastRun, staged, running, meaning, den, facts, eqs,
                   dropped, lost, caller>>

\* Passes go on until one changes nothing; run_rules then reports a panic.
EndPass ==
    /\ pc = "pass" /\ Merged
    /\ now' = now + 1
    /\ pc' = IF changed THEN "rebuild" ELSE "idle"
    /\ panicked' = (panicked /\ (changed \/ caller = "flush"))
    /\ unbuilt' = (unbuilt /\ changed)
    /\ changed' = FALSE /\ grew' = FALSE
    /\ UNCHANGED <<leader, rows, seen, nextId, lastRun, staged, running, meaning, den, facts, eqs,
                   dropped, lost, caller>>

-----------------------------------------------------------------------------
Step ==
    \/ \E m \in todo, w \in Worker : PickMatch(m, w)
    \/ StopEarly
    \/ DoLookup \/ DoGet \/ DoSet \/ DoUnion \/ DoRemove \/ DoSubsume \/ DoPanic
    \/ EndSearch
    \/ \E f \in Fn : MergeRemovals(f)
    \/ \E s \in ins : MergeRow(s)
    \/ \E p \in uns : MergeUnion(p)
    \/ EndMerge
    \/ \E incremental \in SUBSET Fn : RebuildPass(incremental)
    \/ EndPass

Rows == UNION {{Fact(k, v) : v \in ValueOf(k[1])} : k \in {k \in Key : k[1] \in Input}}
Batches == {new \in {{f, g} : f, g \in Rows} : Cardinality(new) <= MaxBatch}

Next ==
    \/ \E k \in Key : AddTerm(k)
    \/ \E new \in Batches : AddValues(new)
    \/ \E rs \in Schedules : RunRules(rs)
    \/ Step

Spec == Init /\ [][Next]_vars

\* The operations run to their end once begun; nothing makes a caller begin one.
FairSpec == Spec /\ WF_vars(Step)

-----------------------------------------------------------------------------
(* Properties.                                                                 *)

\* An id in use has been handed out.
GoodFact(k, v) == k \in Key /\ v \in ValueOf(k[1]) /\ Known(k[2]) /\ Known(v)
GoodEnv(r, e, scope) ==
    /\ DOMAIN e = scope /\ e \in [scope -> Value]
    /\ \A n \in scope : e[n] \in Of(Type(r, n)) /\ Known(e[n])

LeadersOK ==
    /\ leader \in [Id -> Id] /\ nextId \in 0 .. MaxId
    /\ \A i \in Id : leader[i] <= i /\ leader[leader[i]] = leader[i] /\ (i >= nextId => leader[i] = i)

RowsOK ==
    /\ rows \in [Key -> {None} \cup [val : Value, sub : BOOLEAN, ts : Nat]]
    /\ \A k \in Key : rows[k] # None => GoodFact(k, rows[k].val)

MatchesOK ==
    /\ \A m \in todo : /\ m \in [rule : RuleName, env : {m.env}]
                       /\ GoodEnv(m.rule, m.env, Scope(m.rule, 1))
    /\ cur # None =>
          /\ cur \in [rule : RuleName, env : {cur.env}, worker : Worker, at : DOMAIN Acts(cur.rule)]
          /\ GoodEnv(cur.rule, cur.env, Scope(cur.rule, cur.at))

StagedOK ==
    /\ \A s \in ins : s \in [key : Key, val : Value, sub : BOOLEAN] /\ GoodFact(s.key, s.val)
    /\ dels \subseteq Key
    /\ \A p \in uns : p \in Id \X Id /\ Known(p[1]) /\ Known(p[2])

PredictedOK ==
    /\ predicted \in [Worker -> [Key -> {None} \cup Id]]
    /\ \A w \in Worker, k \in Key : predicted[w][k] # None => GoodFact(k, predicted[w][k])

ControlOK ==
    /\ pc \in {"idle", "act", "merge", "rebuild", "pass"} /\ caller \in {"run", "flush"}
    /\ now \in Nat /\ lastRun \in [RuleName -> Nat] /\ seen \in [Fn -> SUBSET Id]
    /\ {changed, grew, panicked, stop, unbuilt} \subseteq BOOLEAN
    /\ meaning \in Meanings /\ den \in [Id -> Dom]

\* The state has its types: the leader of a class is its least id, as the merge
\* function of constructors takes it to be; every id in a table, staged, predicted or
\* bound by a match has been handed out; and a match has the names bound that the
\* action it has come to may use, each with a value of its type.
TypeOK == LeadersOK /\ RowsOK /\ MatchesOK /\ StagedOK /\ PredictedOK /\ ControlOK

\* Equality saturation is sound: in every interpretation of the constructors in
\* which the rules hold and the callers' rows are true, the e-graph only ever
\* equates ids that stand for the same thing, and keeps only true rows, in the
\* middle of merges and rebuilds as well and whichever ExecutionState predicted ids.
Sound ==
    /\ \A i \in Id : den[leader[i]] = den[i]
    /\ \A k \in Key : rows[k] # None => True(Fact(k, rows[k].val))

WasDropped(f, v) == \E k \in dropped : k[1] = f /\ Find(k[2]) = Find(v)

\* Between operations, when no failed run has left unions behind, the tables are
\* canonical and nothing asserted is missing: unions hold, and every row ever
\* staged is there under its canonical key with its canonical value.
Closed ==
    pc = "idle" /\ ~unbuilt =>
       /\ \A k \in Key : ~Stale(k)
       /\ \A e \in eqs : Find(e[1]) = Find(e[2])
       /\ \A f \in facts : WasDropped(f.key[1], f.key[2]) \/
             LET row == rows[<<f.key[1], Find(f.key[2])>>]
             IN  row # None /\ (f.key[1] \notin NoMerge => row.val = Find(f.val))

\* The action holds already, of the match and the ids its lookups found.
Holding(a, e) ==
    LET k == <<a.fn, Find(e[a.arg])>>
        there == k \in Key /\ rows[k] # None
    IN  CASE a.op = "union" -> Find(e[a.arg]) = Find(e[a.val])
          [] a.op \in {"lookup", "set"} ->
                WasDropped(a.fn, e[a.arg]) \/ (there /\ (a.fn \in NoMerge \/ rows[k].val = Find(e[a.val])))
          [] a.op = "subsume" -> WasDropped(a.fn, e[a.arg]) \/ (there /\ rows[k].sub)
          [] OTHER -> TRUE

HeadHolds(r, e) ==
    \E x \in [Bound(r, Len(Acts(r)) + 1) -> Value] :
       LET all == [n \in DOMAIN e \cup DOMAIN x |-> IF n \in DOMAIN x THEN x[n] ELSE e[n]]
       IN  \A j \in DOMAIN Acts(r) : Holding(Acts(r)[j], all)

\* Seminaive evaluation forgets no match: when every row a match of the rule rests
\* on is older than the rule's last run, and so will not be looked at again, all
\* that its actions ask for is in the e-graph, whatever was merged, displaced and
\* rebuilt in between.
HeadsHold ==
    pc = "idle" /\ ~unbuilt =>
       \A r \in RuleName \ lost : lastRun[r] > 0 =>
          \A e \in {e \in Envs(r) : \A i \in DOMAIN Atoms(r) :
                       Holds(r, i, e, Before(lastRun[r]))} : HeadHolds(r, e)

\* What an operation that succeeds (and so moves the time on) leaves behind needs
\* no rebuild, whatever operations failed before it.
RebuiltOnSuccess ==
    [][pc # "idle" /\ pc' = "idle" /\ now' > now => \A k \in Key : ~Stale(k)']_vars

\* Every operation ends: a rebuild that keeps finding rows to change comes to an end.
OperationsReturn == []<>(pc = "idle")
=============================================================================
