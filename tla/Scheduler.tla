------------------------------ MODULE Scheduler -----------------------------
(***************************************************************************)
(* Custom schedulers (src/scheduler.rs).  For every rule of a ruleset that *)
(* it runs, a scheduler keeps a query rule, whose matches an external      *)
(* function collects in a vector, and an action rule over a table of       *)
(* decided matches.  A step of the ruleset runs the queries of the rules   *)
(* that seek, lets the scheduler choose among the matches in each vector,  *)
(* which are moved to the tables, and runs the action rules.  What is not  *)
(* chosen stays in the vector for the next step.                           *)
(*                                                                         *)
(* The e-graph is reduced to its facts.  A fact in Body[r] is one match of *)
(* r's query; HeadOf[r][f] are the values it gives the variables of r's    *)
(* head, the only ones kept, and Adds[r][h] the facts that the head adds.  *)
(* A match in a vector goes by its fact.  push clones the e-graph: vectors *)
(* are behind pointers, which is why they are cells here.                  *)
(***************************************************************************)
EXTENDS Naturals, FiniteSets, Sequences, SequencesExt

CONSTANTS
    Fact, Rule,
    Body,       \* [Rule -> SUBSET Fact]
    HeadOf,     \* [Rule -> [Fact -> Values]]
    Adds,       \* [Rule -> [Values -> SUBSET Fact]]
    PushBuilt,  \* may callers push once a scheduler has been used?
    CanStop,    \* does the scheduler answer can_stop as the trait's default does?
    Cells,      \* bound: vectors allocated
    Budget      \* bound: calls other than steps

ASSUME RulesAssumption ==
    /\ IsFiniteSet(Rule) /\ IsFiniteSet(Fact)
    /\ \A r \in Rule : Body[r] \subseteq Fact
    /\ \A r \in Rule, f \in Fact : Adds[r][HeadOf[r][f]] \subseteq Fact
    /\ {PushBuilt, CanStop} \subseteq BOOLEAN /\ Cells \in Nat /\ Budget \in Nat

VARIABLES
    eg,         \* the e-graph
    saved,      \* the e-graphs pushed
    cell,       \* the vectors of matches
    used,       \* how many of them are allocated
    pc,         \* what a step does next
    done,       \* in this step every query ran and every match was chosen
    canStop,    \* the last call was a step and reported can_stop
    left        \* environment: what is left of the budget

vars == <<eg, saved, cell, used, pc, done, canStop, left>>

\* What a scheduler knows of a rule it has not run yet.
Unbuilt == [vec |-> 0, seek |-> TRUE]

HeadValues == {HeadOf[r][f] : r \in Rule, f \in Fact}

New ==
    [facts |-> {}, rules |-> {},
     sched |-> FALSE,                           \* is there a scheduler?
     lost |-> FALSE,                            \* were its rulesets dropped?
     info |-> [r \in Rule |-> Unbuilt],         \* SchedulerRuleInfo: vector, should_seek
     sink |-> [r \in Rule |-> 0],               \* the vector CollectMatches writes to
     seen |-> [r \in Rule |-> {}],              \* what a seminaive query has returned
     decided |-> [r \in Rule |-> {}],
     fired |-> [r \in Rule |-> {}],             \* history: matches chosen ...
     applied |-> [r \in Rule |-> {}]]           \* ... and values of heads applied

Built == {r \in Rule : eg.info[r].vec # 0}

Init ==
    /\ eg = New /\ saved = <<>>
    /\ cell = [c \in 1 .. Cells |-> <<>>] /\ used = 0
    /\ pc = "idle" /\ done = FALSE /\ canStop = FALSE /\ left = Budget

\* Vectors for the rules in S.
FreshCells(S) ==
    CHOOSE c \in [S -> used + 1 .. used + Cardinality(S)] : \A a, b \in S : c[a] = c[b] => a = b

-----------------------------------------------------------------------------
(* The caller.                                                              *)

Call == pc = "idle" /\ left > 0 /\ left' = left - 1 /\ canStop' = FALSE /\ UNCHANGED <<pc, done>>

AddFact(f) ==
    /\ Call /\ f \notin eg.facts
    /\ eg' = [eg EXCEPT !.facts = @ \cup {f}]
    /\ UNCHANGED <<saved, cell, used>>

AddRule(r) ==
    /\ Call /\ ~eg.lost /\ r \notin eg.rules
    /\ eg' = [eg EXCEPT !.rules = @ \cup {r}]
    /\ UNCHANGED <<saved, cell, used>>

AddScheduler ==
    /\ Call /\ ~eg.sched
    /\ eg' = [eg EXCEPT !.sched = TRUE]
    /\ UNCHANGED <<saved, cell, used>>

(* What the scheduler held back goes with it; its rules stay in the backend *)
(* and are never run again.                                                 *)
RemoveScheduler ==
    /\ Call /\ eg.sched
    /\ eg' = [eg EXCEPT !.sched = FALSE, !.info = New.info]
    /\ UNCHANGED <<saved, cell, used>>

(* push: the clone's CollectMatches get vectors of their own, but its       *)
(* SchedulerRuleInfo still point to the ones of the original.               *)
Push ==
    /\ Call
    /\ PushBuilt \/ Built = {}
    /\ used + Cardinality(Built) <= Cells
    /\ LET fresh == FreshCells(Built)
           clone == [eg EXCEPT !.sink = [r \in Rule |-> IF r \in Built THEN fresh[r] ELSE @[r]]]
       IN /\ saved' = Append(saved, clone)
          /\ cell' = [c \in 1 .. Cells |->
                IF \E r \in Built : fresh[r] = c
                THEN cell[eg.sink[CHOOSE r \in Built : fresh[r] = c]] ELSE cell[c]]
    /\ used' = used + Cardinality(Built)
    /\ UNCHANGED eg

Pop ==
    /\ Call /\ saved # <<>>
    /\ eg' = Last(saved) /\ saved' = Front(saved)
    /\ UNCHANGED <<cell, used>>

-----------------------------------------------------------------------------
(* step_rules_with_scheduler.                                               *)

(* Step 1: rules that are new to the scheduler get their vector and their   *)
(* rules in the backend.                                                    *)
BeginStep ==
    /\ pc = "idle" /\ eg.sched /\ ~eg.lost
    /\ LET fresh == eg.rules \ Built
           c == FreshCells(fresh)
       IN /\ used + Cardinality(fresh) <= Cells
          /\ used' = used + Cardinality(fresh)
          /\ eg' = [eg EXCEPT
                !.info = [r \in Rule |-> IF r \in fresh THEN [vec |-> c[r], seek |-> TRUE] ELSE @[r]],
                !.sink = [r \in Rule |-> IF r \in fresh THEN c[r] ELSE @[r]],
                !.seen = [r \in Rule |-> IF r \in fresh THEN {} ELSE @[r]],
                !.decided = [r \in Rule |-> IF r \in fresh THEN {} ELSE @[r]],
                !.fired = [r \in Rule |-> IF r \in fresh THEN {} ELSE @[r]],
                !.applied = [r \in Rule |-> IF r \in fresh THEN {} ELSE @[r]]]
    /\ pc' = "query" /\ canStop' = FALSE
    /\ UNCHANGED <<saved, cell, done, left>>

Seekers == {r \in eg.rules : eg.info[r].seek}
Unseen(r) == (eg.facts \cap Body[r]) \ eg.seen[r]

(* Step 2: the queries return what they have not returned before, in any    *)
(* order.                                                                   *)
Query ==
    /\ pc = "query" /\ pc' = "filter"
    /\ \E order \in [Seekers -> UNION {SetToSeqs(Unseen(r)) : r \in Seekers}] :
          /\ \A r \in Seekers : order[r] \in SetToSeqs(Unseen(r))
          /\ cell' = [c \in 1 .. Cells |->
                IF \E r \in Seekers : eg.sink[r] = c
                THEN cell[c] \o order[CHOOSE r \in Seekers : eg.sink[r] = c]
                ELSE cell[c]]
    /\ eg' = [eg EXCEPT !.seen = [r \in Rule |-> @[r] \cup (IF r \in Seekers THEN Unseen(r) ELSE {})]]
    /\ UNCHANGED <<saved, used, done, canStop, left>>

(* Rulesets and schedulers are taken out of the e-graph for the step; an    *)
(* error on the way out leaves them behind.                                 *)
Lose(more) ==
    /\ eg' = [eg EXCEPT !.lost = TRUE, !.sched = FALSE, !.info = New.info, !.rules = {},
                        !.facts = @ \cup more]
    /\ pc' = "idle" /\ done' = FALSE
    /\ UNCHANGED <<saved, cell, used, canStop, left>>

QueryPanics == pc = "query" /\ Lose({})

(* Mutant: the vector is cut, but nothing was moved.                        *)
ResidualCut(matches, chosen) == SubSeq(matches, 1, Len(matches) - Cardinality(chosen))

(* instantiate: each chosen match, the last one first, changes places with  *)
(* the last of the vector, which is cut off.                                *)
SwapRemove(q, c) == [j \in 1 .. Len(q) - 1 |-> IF j = c THEN q[Len(q)] ELSE q[j]]
Residual(matches, chosen) ==
    LET n == Len(matches)
        after[i \in 0 .. n] ==     \* the i last places have been looked at
           IF i = 0 THEN matches
           ELSE IF n + 1 - i \in chosen THEN SwapRemove(after[i - 1], n + 1 - i) ELSE after[i - 1]
    IN  after[n]

(* What a scheduler may do with n matches: choose some, if there are any,   *)
(* and ask for more, at the latest when it has chosen them all.             *)
May(d, n) ==
    /\ d.chosen \subseteq 1 .. n
    /\ n > 0 => d.chosen # {}
    /\ d.chosen = 1 .. n => d.seek

(* Mutant: a rule that has not been sought once is never sought again.      *)
ToldLatched(info, d) == [info EXCEPT !.seek = @ /\ d.seek]

Told(info, d) == [info EXCEPT !.seek = d.seek]

(* Step 3: filter_matches, then the chosen matches go to the tables.        *)
Filter ==
    /\ pc = "filter" /\ pc' = "act"
    /\ LET Vec(r) == cell[eg.info[r].vec] IN
       \E d \in [eg.rules -> [chosen : SUBSET (1 .. Cardinality(eg.facts)), seek : BOOLEAN]] :
          /\ \A r \in eg.rules : May(d[r], Len(Vec(r)))
          /\ LET Chosen(r) == IF r \in eg.rules THEN {Vec(r)[i] : i \in d[r].chosen} ELSE {}
             IN eg' = [eg EXCEPT
                  !.info = [r \in Rule |-> IF r \in eg.rules THEN Told(@[r], d[r]) ELSE @[r]],
                  !.decided = [r \in Rule |-> @[r] \cup {HeadOf[r][f] : f \in Chosen(r)}],
                  !.fired = [r \in Rule |-> @[r] \cup Chosen(r)]]
          /\ cell' = [c \in 1 .. Cells |->
                IF \E r \in eg.rules : eg.info[r].vec = c
                THEN LET owner == CHOOSE r \in eg.rules : eg.info[r].vec = c
                     IN  Residual(cell[c], d[owner].chosen)
                ELSE cell[c]]
          /\ done' = \A r \in eg.rules : eg.info[r].seek /\ d[r].chosen = 1 .. Len(Vec(r))
    /\ UNCHANGED <<saved, used, canStop, left>>

Additions == UNION {UNION {Adds[r][h] : h \in eg.decided[r]} : r \in eg.rules}

(* Mutant: the scheduler is asked whether or not the step changed anything. *)
ActUnchecked ==
    /\ pc = "act" /\ pc' = "idle"
    /\ eg' = [eg EXCEPT !.facts = @ \cup Additions,
                        !.applied = [r \in Rule |-> IF r \in eg.rules THEN @[r] \cup eg.decided[r] ELSE @[r]],
                        !.decided = [r \in Rule |-> IF r \in eg.rules THEN {} ELSE @[r]]]
    /\ canStop' = (CanStop \/ done) /\ done' = FALSE
    /\ UNCHANGED <<saved, cell, used, left>>

(* Steps 4 and 5: the actions of all decided matches, which are removed     *)
(* from their tables.  The run counts as a change if it adds a row, not if  *)
(* it only removes some.  If it changed nothing, the scheduler is asked     *)
(* whether the caller may stop: it says so always, as by default, or only   *)
(* when it left nothing to look for or to choose.                           *)
Act ==
    /\ pc = "act" /\ pc' = "idle"
    /\ eg' = [eg EXCEPT !.facts = @ \cup Additions,
                        !.applied = [r \in Rule |-> IF r \in eg.rules THEN @[r] \cup eg.decided[r] ELSE @[r]],
                        !.decided = [r \in Rule |-> IF r \in eg.rules THEN {} ELSE @[r]]]
    /\ canStop' = (Additions \subseteq eg.facts /\ (CanStop \/ done)) /\ done' = FALSE
    /\ UNCHANGED <<saved, cell, used, left>>

ActPanics == pc = "act" /\ \E some \in SUBSET Additions : Lose(some)

-----------------------------------------------------------------------------
Step == BeginStep \/ Query \/ Filter \/ Act

Next ==
    \/ \E f \in Fact : AddFact(f)
    \/ \E r \in Rule : AddRule(r)
    \/ AddScheduler \/ RemoveScheduler \/ Push \/ Pop
    \/ Step \/ QueryPanics \/ ActPanics

Spec == Init /\ [][Next]_vars

(* The caller keeps stepping, and steps end.                                *)
FairSpec == Spec /\ WF_vars(Step)

-----------------------------------------------------------------------------
\* A rule's query writes to a vector once the scheduler knows the rule, and its
\* decided matches are matches of its query.
Graph ==
    {g \in [facts : SUBSET Fact, rules : SUBSET Rule, sched : BOOLEAN, lost : BOOLEAN,
            info : [Rule -> [vec : 0 .. Cells, seek : BOOLEAN]], sink : [Rule -> 0 .. Cells],
            seen : [Rule -> SUBSET Fact], fired : [Rule -> SUBSET Fact],
            decided : [Rule -> SUBSET HeadValues], applied : [Rule -> SUBSET HeadValues]] :
       \A r \in Rule : /\ g.info[r].vec # 0 => g.sink[r] # 0
                      /\ g.decided[r] \subseteq {HeadOf[r][f] : f \in Fact}}

TypeOK ==
    /\ eg \in Graph /\ saved \in Seq(Graph)
    /\ cell \in [1 .. Cells -> Seq(Fact)] /\ used \in 0 .. Cells
    /\ pc \in {"idle", "query", "filter", "act"}
    /\ done \in BOOLEAN /\ canStop \in BOOLEAN /\ left \in 0 .. Budget
    /\ pc # "idle" => eg.rules \subseteq Built

(* "The matches that are not chosen in this iteration will be delayed to    *)
(* the next iteration": each match of a query is held back in its vector    *)
(* once or was chosen, and what was chosen is decided or applied.  All of   *)
(* them are matches of this e-graph: "Pop reverts the egraph to the last    *)
(* pushed egraph."                                                          *)
Conserved ==
    \A r \in Built :
       LET held == cell[eg.info[r].vec] IN
       /\ eg.seen[r] \subseteq eg.facts
       /\ IsInjective(held)
       /\ ToSet(held) \cap eg.fired[r] = {}
       /\ ToSet(held) \cup eg.fired[r] = eg.seen[r]
       /\ eg.decided[r] \cup eg.applied[r] = {HeadOf[r][f] : f \in eg.fired[r]}

(* can_stop is "true if this run observed no database changes and there is  *)
(* no deferred scheduler work requiring another iteration": no rule has a   *)
(* match left to apply, held back or not looked for.                        *)
StopsSaturated ==
    canStop => \A r \in eg.rules : eg.facts \cap Body[r] \subseteq eg.fired[r]

(* With such a scheduler every match is applied at last, unless its         *)
(* e-graph, rule or scheduler goes.                                         *)
AllApplied ==
    \A r \in Rule, f \in Fact :
       r \in eg.rules /\ f \in eg.facts \cap Body[r] /\ eg.sched
          ~> \/ HeadOf[r][f] \in eg.applied[r]
             \/ r \notin eg.rules \/ f \notin eg.facts \/ ~eg.sched
=============================================================================
