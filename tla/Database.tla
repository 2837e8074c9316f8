------------------------------ MODULE Database ------------------------------
(***************************************************************************)
(* How a Database of core-relations/src/free_join/mod.rs takes updates in  *)
(* and applies them.  Rules and merge functions stage rows in the buffers  *)
(* of an ExecutionState, which marks their tables in the notification list *)
(* and hands the rows over when it is dropped; merge_all takes the marked  *)
(* tables out of the database, runs their merges, in parallel within a     *)
(* stratum of the dependency graph, and repeats that until no table is     *)
(* marked.  A merge calls the merge functions of its table, which read the *)
(* table's read dependencies and stage rows in its write dependencies.     *)
(*                                                                         *)
(* What a row says is left out: applying one adds a tuple, removes one or  *)
(* changes nothing, and may stage further rows.  The indexes of a table    *)
(* are one: to be updated, fresh, or older than its table.                 *)
(***************************************************************************)
EXTENDS Integers, FiniteSets

CONSTANTS
    Table,
    ReadDeps, WriteDeps,    \* of each table, as given to add_table
    Row,            \* the rows that can be staged: a bound on a run
    Worker,         \* the ExecutionStates of rules and API calls
    Buffer,         \* the buffers handed out by new_buffer
    None,
    SimpleBelow,    \* fewer marked tables than this are merged by merge_simple
    KeepBuffers,    \* TRUE: a caller may keep a buffer across a merge_all
    MergeTables,    \* TRUE: callers use merge_table
    Clones          \* TRUE: a clone of the database runs merge_all, too

(* A table is not among its own dependencies, as egglog-bridge, which       *)
(* collects them from merge functions over older tables, sees to.           *)
ASSUME DepsAssumption ==
    /\ ReadDeps \in [Table -> SUBSET Table]
    /\ WriteDeps \in [Table -> SUBSET Table]
    /\ \A t \in Table : t \notin ReadDeps[t] /\ t \notin WriteDeps[t]
ASSUME NoneAssumption ==
    None \notin Table \cup Worker \cup Buffer
ASSUME OwnersAssumption ==
    /\ Table \cap Worker = {}
    /\ Table \cap Buffer = {}
    /\ Worker \cap Buffer = {}
ASSUME OptionsAssumption ==
    /\ SimpleBelow \in Nat
    /\ KeepBuffers \in BOOLEAN
    /\ MergeTables \in BOOLEAN
    /\ Clones \in BOOLEAN

VARIABLES
    known,      \* the tables added
    level,      \* of a known table: its stratum
    place,      \* of a row: where it is on its way into its table
    own,        \* ... whose buffer it is or was in
    tbl,        \* ... and its table
    bufTbl,     \* the table a Buffer is for, or None
    notified,   \* the notification list
    phase,      \* of the database: open to callers, or a stage of a merge
    queue,      \* the tables still to be taken out by this round of a merge
    stratum,    \* the level it has reached
    state,      \* of a table: in the database, or how far its merge is
    bufs,       \* the buffers its merge was given
    must,       \* the rows that lay there when their table's merge began
    chg,        \* of a table: whether its merge reported a new tuple
    ever,       \* ever_changed
    grown,      \* history: a tuple was added since merge_all was called
    index       \* of a table: its cached indexes

rowVars == <<place, own, tbl>>
vars == <<known, level, place, own, tbl, bufTbl, notified, phase, queue,
          stratum, state, bufs, must, chg, ever, grown, index>>

Owner == Table \cup Worker \cup Buffer \cup {None}
Places == {"unused", "buffered", "pending", "gone"}
Phases == {"open", "reset", "simple", "strata", "single", "finish"}
States == {"in", "taken", "merging", "flushing", "done"}

(* The tables a look at the database finds.                                 *)
Present == {t \in known : state[t] = "in"}

Merging == {t \in known : state[t] # "in"}

Init ==
    /\ known = {}
    /\ level = [t \in Table |-> 0]
    /\ place = [r \in Row |-> "unused"]
    /\ own = [r \in Row |-> None]
    /\ tbl = [r \in Row |-> None]
    /\ bufTbl = [b \in Buffer |-> None]
    /\ notified = {}
    /\ phase = "open"
    /\ queue = {}
    /\ stratum = 0
    /\ state = [t \in Table |-> "in"]
    /\ bufs = [t \in Table |-> {}]
    /\ must = {}
    /\ chg = [t \in Table |-> FALSE]
    /\ ever = FALSE
    /\ grown = FALSE
    /\ index = [t \in Table |-> "reset"]

-----------------------------------------------------------------------------
(* Rows on their way                                                        *)

Buffered(o) == {r \in Row : place[r] = "buffered" /\ own[r] = o}
Pending(t) == {r \in Row : place[r] = "pending" /\ tbl[r] = t}

(* Some row is staged for t in a buffer of o.                               *)
StageIn(o, t) ==
    \E r \in Row :
       /\ place[r] = "unused"
       /\ place' = [place EXCEPT ![r] = "buffered"]
       /\ own' = [own EXCEPT ![r] = o]
       /\ tbl' = [tbl EXCEPT ![r] = t]

(* The rows o has buffered for the tables of T are handed to them.          *)
HandOver(o, T) ==
    LET Rows == {r \in Buffered(o) : tbl[r] \in T}
    IN  /\ place' = [r \in Row |-> IF r \in Rows THEN "pending" ELSE place[r]]
        /\ own' = [r \in Row |-> IF r \in Rows THEN None ELSE own[r]]
        /\ tbl' = tbl

(* The rows R are applied or dropped.                                       *)
Remove(R) ==
    /\ place' = [r \in Row |-> IF r \in R THEN "gone" ELSE place[r]]
    /\ tbl' = [r \in Row |-> IF r \in R THEN None ELSE tbl[r]]
    /\ own' = own

-----------------------------------------------------------------------------
(* An open database                                                         *)

(* n is one above the highest level of t's read dependencies.               *)
HasLevel(t, n) ==
    \/ ReadDeps[t] = {} /\ n = 0
    \/ \E d \in ReadDeps[t] :
          /\ n = level[d] + 1
          /\ \A e \in ReadDeps[t] : level[e] <= level[d]

(* add_table                                                                *)
AddTable(t) ==
    /\ phase = "open"
    /\ t \notin known
    /\ ReadDeps[t] \cup WriteDeps[t] \subseteq known
    /\ known' = known \cup {t}
    /\ \E n \in {0} \cup {level[d] + 1 : d \in ReadDeps[t]} :
          HasLevel(t, n) /\ level' = [level EXCEPT ![t] = n]
    /\ UNCHANGED <<rowVars, bufTbl, notified, phase, queue, stratum, state,
                   bufs, must, chg, ever, grown, index>>

(* stage_insert, stage_remove, and the lookups that insert a default:       *)
(* into the buffer, then notify.                                            *)
Stage(w, t) ==
    /\ phase = "open"
    /\ t \in Present
    /\ StageIn(w, t)
    /\ notified' = notified \cup {t}
    /\ UNCHANGED <<known, level, bufTbl, phase, queue, stratum, state, bufs,
                   must, chg, ever, grown, index>>

(* The ExecutionState w is dropped, and its buffers with it.                *)
DropState(w) ==
    /\ phase = "open"
    /\ Buffered(w) # {}
    /\ HandOver(w, Table)
    /\ UNCHANGED <<known, level, bufTbl, notified, phase, queue,
                   stratum, state, bufs, must, chg, ever, grown, index>>

(* new_buffer: the table is marked now, and not when a row is staged.       *)
NewBuffer(b, t) ==
    /\ phase = "open"
    /\ bufTbl[b] = None
    /\ t \in Present
    /\ notified' = notified \cup {t}
    /\ bufTbl' = [bufTbl EXCEPT ![b] = t]
    /\ UNCHANGED <<known, level, rowVars, phase, queue, stratum, state, bufs,
                   must, chg, ever, grown, index>>

BufferStage(b) ==
    /\ phase = "open"
    /\ bufTbl[b] # None
    /\ StageIn(b, bufTbl[b])
    /\ UNCHANGED <<known, level, bufTbl, notified, phase, queue, stratum,
                   state, bufs, must, chg, ever, grown, index>>

DropBuffer(b) ==
    /\ phase = "open"
    /\ bufTbl[b] # None
    /\ HandOver(b, Table)
    /\ bufTbl' = [bufTbl EXCEPT ![b] = None]
    /\ UNCHANGED <<known, level, notified, phase, queue, stratum, state, bufs,
                   must, chg, ever, grown, index>>

(* get_index_from_tableinfo: an index is brought up to date the first time  *)
(* it is wanted after it was reset, and taken as it is from then on.        *)
UseIndex(t) ==
    /\ phase = "open"
    /\ t \in Present
    /\ index' = [index EXCEPT ![t] = IF @ = "reset" THEN "fresh" ELSE @]
    /\ UNCHANGED <<known, level, rowVars, bufTbl, notified, phase, queue,
                   stratum, state, bufs, must, chg, ever, grown>>

(* The caller has the database to itself: no ExecutionState is left.        *)
Exclusive ==
    /\ phase = "open"
    /\ \A w \in Worker : Buffered(w) = {}
    /\ KeepBuffers \/ \A b \in Buffer : bufTbl[b] = None

(* Mutant: the indexes are left for their readers to find out.              *)
ClearRowsOnly(t) ==
    /\ Exclusive
    /\ t \in Present
    /\ Remove(Pending(t))
    /\ index' = [index EXCEPT ![t] = IF @ = "fresh" THEN "stale" ELSE @]
    /\ UNCHANGED <<known, level, bufTbl, notified, phase, queue, stratum,
                   state, bufs, must, chg, ever, grown>>

(* clear_table: with its rows go the updates that wait for it.              *)
ClearTable(t) ==
    /\ Exclusive
    /\ t \in Present
    /\ Remove(Pending(t))
    /\ index' = [index EXCEPT ![t] = "reset"]
    /\ UNCHANGED <<known, level, bufTbl, notified, phase, queue, stratum,
                   state, bufs, must, chg, ever, grown>>

(* The merge_all of a clone, which shares the notification list and nothing *)
(* else: it takes what was marked in this database.                         *)
CloneMerges ==
    /\ Clones
    /\ phase = "open"
    /\ notified' = {}
    /\ UNCHANGED <<known, level, rowVars, bufTbl, phase, queue, stratum,
                   state, bufs, must, chg, ever, grown, index>>

-----------------------------------------------------------------------------
(* merge_all                                                                *)

CallMergeAll ==
    /\ Exclusive
    /\ phase' = "reset"
    /\ UNCHANGED <<known, level, rowVars, bufTbl, notified, queue, stratum,
                   state, bufs, must, chg, ever, grown, index>>

(* apply_rebuild and refresh_rows_for_values: run_on_tables has each table  *)
(* stage the rows R in itself and marks those that did; then merge_all.     *)
RebuildTables(R) ==
    /\ Exclusive
    /\ \A r \in R : place[r] = "unused"
    /\ place' = [r \in Row |-> IF r \in R THEN "pending" ELSE place[r]]
    /\ \E t \in [R -> Present] :
          /\ tbl' = [r \in Row |-> IF r \in R THEN t[r] ELSE tbl[r]]
          /\ notified' = notified \cup {t[r] : r \in R}
    /\ phase' = "reset"
    /\ UNCHANGED <<known, level, own, bufTbl, queue, stratum, state, bufs,
                   must, chg, ever, grown, index>>

(* Mutant: what is marked stays marked.                                     *)
ResetKeeping ==
    /\ phase = "reset"
    /\ queue' = notified
    /\ phase' = IF Cardinality(notified) < SimpleBelow
                THEN "simple" ELSE "strata"
    /\ stratum' = 0
    /\ UNCHANGED <<known, level, rowVars, bufTbl, notified, state, bufs, must,
                   chg, ever, grown, index>>

(* A round begins: the list is taken, and how many it has decides how.      *)
Reset ==
    /\ phase = "reset"
    /\ queue' = notified
    /\ notified' = {}
    /\ phase' = IF Cardinality(notified) < SimpleBelow
                THEN "simple" ELSE "strata"
    /\ stratum' = 0
    /\ UNCHANGED <<known, level, rowVars, bufTbl, state, bufs, must, chg,
                   ever, grown, index>>

(* merge_simple and merge_table: one table after the other is taken out and *)
(* its merge begins, without buffers.                                       *)
TakeSimple(t) ==
    /\ phase \in {"simple", "single"}
    /\ Merging = {}
    /\ t \in queue
    /\ queue' = queue \ {t}
    /\ state' = [state EXCEPT ![t] = "merging"]
    /\ must' = must \cup Pending(t)
    /\ UNCHANGED <<known, level, rowVars, bufTbl, notified, phase, stratum,
                   bufs, chg, ever, grown, index>>

(* Mutant: one round of merge_simple is all.                                *)
SimpleOnce ==
    /\ phase = "simple"
    /\ queue = {}
    /\ Merging = {}
    /\ phase' = "finish"
    /\ UNCHANGED <<known, level, rowVars, bufTbl, notified, queue, stratum,
                   state, bufs, must, chg, ever, grown, index>>

(* merge_simple goes on with the tables marked since, if any.               *)
SimpleAgain ==
    /\ phase = "simple"
    /\ queue = {}
    /\ Merging = {}
    /\ queue' = notified
    /\ notified' = {}
    /\ phase' = IF notified = {} THEN "finish" ELSE phase
    /\ UNCHANGED <<known, level, rowVars, bufTbl, stratum, state, bufs, must,
                   chg, ever, grown, index>>

(* Mutant: the buffers are made when the stratum's tables are taken out.    *)
BeginStratumTogether ==
    /\ phase = "strata"
    /\ Merging = {}
    /\ LET S == {t \in queue : level[t] = stratum}
       IN  /\ queue' = queue \ S
           /\ state' = [t \in Table |-> IF t \in S THEN "taken" ELSE state[t]]
           /\ bufs' = [t \in Table |-> IF t \in S
                                       THEN WriteDeps[t] \cap (Present \ S)
                                       ELSE bufs[t]]
           /\ IF S # {}
              THEN UNCHANGED <<stratum, phase>>
              ELSE IF \E t \in known : level[t] > stratum
                   THEN stratum' = stratum + 1 /\ phase' = phase
                   ELSE stratum' = 0 /\ phase' = "reset"
    /\ UNCHANGED <<known, level, rowVars, bufTbl, notified, must, chg, ever,
                   grown, index>>

(* The marked tables of a stratum: first each gets buffers for its write    *)
(* dependencies, then all are taken out.  When there are none, the next     *)
(* stratum; after the last, the next round.                                 *)
BeginStratum ==
    /\ phase = "strata"
    /\ Merging = {}
    /\ LET S == {t \in queue : level[t] = stratum}
       IN  /\ queue' = queue \ S
           /\ state' = [t \in Table |-> IF t \in S THEN "taken" ELSE state[t]]
           /\ bufs' = [t \in Table |-> IF t \in S THEN WriteDeps[t] \cap Present
                                       ELSE bufs[t]]
           /\ IF S # {}
              THEN UNCHANGED <<stratum, phase>>
              ELSE IF \E t \in known : level[t] > stratum
                   THEN stratum' = stratum + 1 /\ phase' = phase
                   ELSE stratum' = 0 /\ phase' = "reset"
    /\ UNCHANGED <<known, level, rowVars, bufTbl, notified, must, chg, ever,
                   grown, index>>

(* The tables of a stratum are merged in parallel.                          *)
BeginMerge(t) ==
    /\ state[t] = "taken"
    /\ state' = [state EXCEPT ![t] = "merging"]
    /\ must' = must \cup Pending(t)
    /\ UNCHANGED <<known, level, rowVars, bufTbl, notified, phase, queue,
                   stratum, bufs, chg, ever, grown, index>>

(* A row is taken from those that wait for t and applied.                   *)
ApplyRow(t) ==
    /\ state[t] = "merging"
    /\ \E r \in Pending(t), effect \in {"none", "added", "removed"} :
          /\ Remove({r})
          /\ must' = must \ {r}
          /\ chg' = [chg EXCEPT ![t] = @ \/ effect = "added"]
          /\ grown' = (grown \/ effect = "added")
          /\ index' = [index EXCEPT ![t] =
                         IF effect # "none" /\ @ = "fresh" THEN "stale" ELSE @]
    /\ UNCHANGED <<known, level, bufTbl, notified, phase, queue, stratum,
                   state, bufs, ever>>

(* Mutant: a merge leaves its buffers' marks to the tables it is merged     *)
(* with: it does not mark what this round has still to take.                *)
MergeStageUnmarked(t, d) ==
    /\ state[t] = "merging"
    /\ d \in WriteDeps[t]
    /\ d \in bufs[t] \cup Present
    /\ StageIn(t, d)
    /\ notified' = IF d \in Merging THEN notified ELSE notified \cup {d}
    /\ chg' = [chg EXCEPT ![t] = TRUE]
    /\ UNCHANGED <<known, level, bufTbl, phase, queue, stratum, state, bufs,
                   must, ever, grown, index>>

(* A merge function called on the way stages a row in a write dependency,   *)
(* through a buffer it was given or makes now: es.changed.                  *)
MergeStage(t, d) ==
    /\ state[t] = "merging"
    /\ d \in WriteDeps[t]
    /\ d \in bufs[t] \cup Present
    /\ StageIn(t, d)
    /\ notified' = notified \cup {d}
    /\ chg' = [chg EXCEPT ![t] = TRUE]
    /\ UNCHANGED <<known, level, bufTbl, phase, queue, stratum, state, bufs,
                   must, ever, grown, index>>

(* The merge is over when nothing is left of what lay there at its start;   *)
(* what came while it ran it may have seen or not.                          *)
EndMerge(t) ==
    /\ state[t] = "merging"
    /\ must \cap Pending(t) = {}
    /\ state' = [state EXCEPT ![t] = "flushing"]
    /\ UNCHANGED <<known, level, rowVars, bufTbl, notified, phase, queue,
                   stratum, bufs, must, chg, ever, grown, index>>

(* Its ExecutionState is dropped, one buffer at a time.                     *)
Flush(t, d) ==
    /\ state[t] = "flushing"
    /\ \E r \in Buffered(t) : tbl[r] = d
    /\ HandOver(t, {d})
    /\ UNCHANGED <<known, level, bufTbl, notified, phase, queue, stratum,
                   state, bufs, must, chg, ever, grown, index>>

(* merge_simple and merge_table put a table back before the next is taken.  *)
PutBack(t) ==
    /\ phase # "strata"
    /\ state[t] = "flushing"
    /\ Buffered(t) = {}
    /\ state' = [state EXCEPT ![t] = "in"]
    /\ ever' = (ever \/ chg[t])
    /\ chg' = [chg EXCEPT ![t] = FALSE]
    /\ UNCHANGED <<known, level, rowVars, bufTbl, notified, phase, queue,
                   stratum, bufs, must, grown, index>>

(* A stratum waits for all its tables ...                                   *)
Done(t) ==
    /\ phase = "strata"
    /\ state[t] = "flushing"
    /\ Buffered(t) = {}
    /\ state' = [state EXCEPT ![t] = "done"]
    /\ UNCHANGED <<known, level, rowVars, bufTbl, notified, phase, queue,
                   stratum, bufs, must, chg, ever, grown, index>>

(* Mutant: the answer is that of the last stratum merged.                   *)
EndStratumLast ==
    /\ phase = "strata"
    /\ Merging # {}
    /\ \A t \in Merging : state[t] = "done"
    /\ ever' = (\E t \in Merging : chg[t])
    /\ state' = [t \in Table |-> "in"]
    /\ bufs' = [t \in Table |-> {}]
    /\ chg' = [t \in Table |-> FALSE]
    /\ UNCHANGED <<known, level, rowVars, bufTbl, notified, phase, queue,
                   stratum, must, grown, index>>

(* ... and puts them back together.                                         *)
EndStratum ==
    /\ phase = "strata"
    /\ Merging # {}
    /\ \A t \in Merging : state[t] = "done"
    /\ ever' = (ever \/ \E t \in Merging : chg[t])
    /\ state' = [t \in Table |-> "in"]
    /\ bufs' = [t \in Table |-> {}]
    /\ chg' = [t \in Table |-> FALSE]
    /\ UNCHANGED <<known, level, rowVars, bufTbl, notified, phase, queue,
                   stratum, must, grown, index>>

(* merge_all returns, its indexes reset.                                    *)
Finish ==
    /\ phase = "finish"
    /\ phase' = "open"
    /\ index' = [t \in Table |-> "reset"]
    /\ ever' = FALSE
    /\ grown' = FALSE
    /\ UNCHANGED <<known, level, rowVars, bufTbl, notified, queue, stratum,
                   state, bufs, must, chg>>

-----------------------------------------------------------------------------
(* merge_table                                                              *)

CallMergeTable(t) ==
    /\ MergeTables
    /\ Exclusive
    /\ t \in Present
    /\ phase' = "single"
    /\ queue' = {t}
    /\ UNCHANGED <<known, level, rowVars, bufTbl, notified, stratum, state,
                   bufs, must, chg, ever, grown, index>>

ReturnMergeTable ==
    /\ phase = "single"
    /\ queue = {}
    /\ Merging = {}
    /\ phase' = "open"
    /\ ever' = FALSE
    /\ grown' = FALSE
    /\ UNCHANGED <<known, level, rowVars, bufTbl, notified, queue, stratum,
                   state, bufs, must, chg, index>>

-----------------------------------------------------------------------------

MergeStep ==
    \/ Reset \/ SimpleAgain \/ BeginStratum \/ EndStratum \/ Finish
    \/ ReturnMergeTable
    \/ \E t \in Table : \/ TakeSimple(t) \/ BeginMerge(t) \/ ApplyRow(t)
                        \/ EndMerge(t) \/ PutBack(t) \/ Done(t)
    \/ \E t, d \in Table : MergeStage(t, d) \/ Flush(t, d)

CallerStep ==
    \/ \E t \in Table : \/ AddTable(t) \/ UseIndex(t) \/ ClearTable(t)
                        \/ CallMergeTable(t)
    \/ \E w \in Worker : DropState(w) \/ \E t \in Table : Stage(w, t)
    \/ \E b \in Buffer : \/ BufferStage(b) \/ DropBuffer(b)
                         \/ \E t \in Table : NewBuffer(b, t)
    \/ CallMergeAll
    \/ \E R \in SUBSET Row : RebuildTables(R)
    \/ CloneMerges

Next == MergeStep \/ CallerStep

Spec == Init /\ [][Next]_vars

(* merge_all and merge_table run to their end; callers need not call.       *)
FairSpec == Spec /\ WF_vars(MergeStep)

-----------------------------------------------------------------------------
(* Types.                                                                   *)
TypeOK ==
    /\ known \subseteq Table
    /\ level \in [Table -> Nat]
    /\ place \in [Row -> Places]
    /\ own \in [Row -> Owner]
    /\ tbl \in [Row -> Table \cup {None}]
    /\ bufTbl \in [Buffer -> Table \cup {None}]
    /\ notified \subseteq known
    /\ phase \in Phases
    /\ queue \subseteq known
    /\ stratum \in Nat
    /\ state \in [Table -> States]
    /\ bufs \in [Table -> SUBSET known]
    /\ must \subseteq Row
    /\ chg \in [Table -> BOOLEAN]
    /\ ever \in BOOLEAN
    /\ grown \in BOOLEAN
    /\ index \in [Table -> {"reset", "fresh", "stale"}]

(* A row staged and not yet applied has its table marked, or the table is   *)
(* among those this round has still to merge, or its merge is under way and *)
(* will not end before the row is applied: no order of staging, flushing    *)
(* and merging leaves a row behind that no merge will look for.             *)
NothingForgotten ==
    \A r \in Row :
       place[r] \in {"buffered", "pending"}
          => \/ tbl[r] \in notified \cup queue
             \/ state[tbl[r]] = "taken"
             \/ state[tbl[r]] = "merging" /\ r \in must

(* When merge_all is about to return, no update waits anywhere: "merging    *)
(* all pending updates".                                                    *)
MergesAll ==
    phase = "finish" =>
       \A r \in Row : /\ place[r] # "pending"
                      /\ place[r] = "buffered" => own[r] \in Buffer

(* A merge function finds the tables it reads in the database, and for the  *)
(* tables it writes a buffer, or the table to make one; when it does not,   *)
(* the lookup by id panics.                                                 *)
DepsPresent ==
    \A t \in known :
       state[t] \in {"taken", "merging"} =>
          /\ ReadDeps[t] \subseteq Present
          /\ WriteDeps[t] \subseteq bufs[t] \cup Present

(* merge_all returns false only when no table has a tuple it did not have   *)
(* when merge_all was called, in whichever of its rounds it was added.      *)
ReportsGrowth == phase = "finish" /\ grown => ever

(* A caller that uses an index finds what is in the table.                  *)
IndexesFresh ==
    phase = "open" => \A t \in Table : index[t] # "stale"

(* Under fair scheduling a merge ends, however its tables stage rows in     *)
(* each other: every round is paid for with rows.                           *)
MergeReturns == phase # "open" ~> phase = "open"
=============================================================================
