--------------------------- MODULE Database_proofs ---------------------------
(***************************************************************************)
(* That the merges of Database have what they need, lose nothing and       *)
(* report what they add, for any tables, dependencies and number of rows.  *)
(*                                                                         *)
(* Rounds and Strata say where a merge is, Leveled what the strata are     *)
(* worth, Given which buffers a merge holds; DepsPresent follows.  Tracked *)
(* follows every row from its buffer to its table.                         *)
(***************************************************************************)
EXTENDS Database, TLAPS


-----------------------------------------------------------------------------
(* Types                                                                    *)

(* Every variable keeps its type.                                           *)
THEOREM TypeCorrect == Spec => []TypeOK
<1>1. Init => TypeOK
  <2> SUFFICES ASSUME Init PROVE TypeOK
    OBVIOUS
  <2>1. /\ own \in [Row -> Owner]
        /\ tbl \in [Row -> Table \cup {None}]
        /\ bufTbl \in [Buffer -> Table \cup {None}]
    BY DEF Init, Owner
  <2>2. /\ bufs \in [Table -> SUBSET known]
        /\ index \in [Table -> {"reset", "fresh", "stale"}]
        /\ chg \in [Table -> BOOLEAN]
    BY DEF Init
  <2> QED
    BY <2>1, <2>2 DEF Init, TypeOK, Places, Phases, States
<1>2. TypeOK /\ [Next]_vars => TypeOK'
  <2> SUFFICES ASSUME TypeOK, [Next]_vars PROVE TypeOK'
    OBVIOUS
  <2> USE DepsAssumption DEF TypeOK, Owner, Places, Phases, States, Present, rowVars
  <2>1. ASSUME NEW t \in Table, AddTable(t) PROVE TypeOK'
    BY <2>1 DEF AddTable
  <2>2. ASSUME NEW t \in Table, UseIndex(t) PROVE TypeOK'
    BY <2>2 DEF UseIndex
  <2>3. ASSUME NEW t \in Table, ClearTable(t) PROVE TypeOK'
    BY <2>3 DEF ClearTable, Remove
  <2>4. ASSUME NEW t \in Table, CallMergeTable(t) PROVE TypeOK'
    BY <2>4 DEF CallMergeTable
  <2>5. ASSUME NEW w \in Worker, DropState(w) PROVE TypeOK'
    BY <2>5 DEF DropState, HandOver
  <2>6. ASSUME NEW w \in Worker, NEW t \in Table, Stage(w, t) PROVE TypeOK'
    BY <2>6 DEF Stage, StageIn
  <2>7. ASSUME NEW b \in Buffer, BufferStage(b) PROVE TypeOK'
    BY <2>7 DEF BufferStage, StageIn
  <2>8. ASSUME NEW b \in Buffer, DropBuffer(b) PROVE TypeOK'
    BY <2>8 DEF DropBuffer, HandOver
  <2>9. ASSUME NEW b \in Buffer, NEW t \in Table, NewBuffer(b, t) PROVE TypeOK'
    BY <2>9 DEF NewBuffer
  <2>10. CASE CallMergeAll
    BY <2>10 DEF CallMergeAll
  <2>11. ASSUME NEW R \in SUBSET Row, RebuildTables(R) PROVE TypeOK'
    BY <2>11 DEF RebuildTables
  <2>12. CASE CloneMerges
    BY <2>12 DEF CloneMerges
  <2>13. CASE Reset
    BY <2>13 DEF Reset
  <2>14. CASE SimpleAgain
    BY <2>14 DEF SimpleAgain
  <2>15. CASE BeginStratum
    BY <2>15 DEF BeginStratum
  <2>16. CASE EndStratum
    BY <2>16 DEF EndStratum
  <2>17. CASE Finish
    BY <2>17 DEF Finish
  <2>18. CASE ReturnMergeTable
    BY <2>18 DEF ReturnMergeTable
  <2>19. ASSUME NEW t \in Table, TakeSimple(t) PROVE TypeOK'
    BY <2>19 DEF TakeSimple, Pending
  <2>20. ASSUME NEW t \in Table, BeginMerge(t) PROVE TypeOK'
    BY <2>20 DEF BeginMerge, Pending
  <2>21. ASSUME NEW t \in Table, ApplyRow(t) PROVE TypeOK'
    BY <2>21 DEF ApplyRow, Pending, Remove
  <2>22. ASSUME NEW t \in Table, EndMerge(t) PROVE TypeOK'
    BY <2>22 DEF EndMerge
  <2>23. ASSUME NEW t \in Table, PutBack(t) PROVE TypeOK'
    BY <2>23 DEF PutBack
  <2>24. ASSUME NEW t \in Table, Done(t) PROVE TypeOK'
    BY <2>24 DEF Done
  <2>25. ASSUME NEW t \in Table, NEW d \in Table, MergeStage(t, d) PROVE TypeOK'
    <3>1. /\ place' \in [Row -> Places] /\ own' \in [Row -> Owner]
          /\ tbl' \in [Row -> Table \cup {None}]
      BY <2>25 DEF MergeStage, StageIn
    <3>2. notified' \subseteq known'
      BY <2>25 DEF MergeStage
    <3>3. chg' \in [Table -> BOOLEAN]
      BY <2>25 DEF MergeStage
    <3> QED
      BY <2>25, <3>1, <3>2, <3>3 DEF MergeStage
  <2>26. ASSUME NEW t \in Table, NEW d \in Table, Flush(t, d) PROVE TypeOK'
    BY <2>26 DEF Flush, HandOver
  <2>27. CASE UNCHANGED vars
    BY <2>27 DEF vars
  <2> QED
    BY <2>1, <2>2, <2>3, <2>4, <2>5, <2>6, <2>7, <2>8, <2>9, <2>10, <2>11,
       <2>12, <2>13, <2>14, <2>15, <2>16, <2>17, <2>18, <2>19, <2>20, <2>21,
       <2>22, <2>23, <2>24, <2>25, <2>26, <2>27
       DEF Next, MergeStep, CallerStep
<1> QED
  BY <1>1, <1>2, PTL DEF Spec

-----------------------------------------------------------------------------
(* Where a merge is                                                         *)

(* Between rounds no table is out; one at most is while they are merged one *)
(* after the other.                                                         *)
Rounds ==
    /\ phase \in {"open", "reset", "finish"}
          => queue = {} /\ \A t \in Table : state[t] = "in"
    /\ phase = "finish" => notified = {}
    /\ phase \in {"simple", "single"} =>
          /\ \A t \in Table : state[t] \in {"in", "merging", "flushing"}
          /\ \A t, u \in Table : state[t] # "in" /\ state[u] # "in" => t = u
    /\ \A t \in Table : state[t] # "in" => t \in known

(* The tables out are those of one stratum, and the strata below are over.  *)
Strata ==
    phase = "strata" =>
       /\ \A t \in queue : level[t] >= stratum
       /\ \A t \in Table : state[t] # "in" =>
             /\ level[t] = stratum
             /\ \A u \in queue : level[u] > stratum

(* What a table reads lies in a lower stratum.                              *)
Leveled ==
    \A t \in known :
       /\ ReadDeps[t] \subseteq known
       /\ WriteDeps[t] \subseteq known
       /\ \A d \in ReadDeps[t] : level[d] < level[t]

(* A merge of a stratum holds a buffer for each of its write dependencies.  *)
Given ==
    phase = "strata" =>
       \A t \in Table : state[t] # "in" => WriteDeps[t] \subseteq bufs[t]

Course == Rounds /\ Strata /\ Leveled /\ Given

mergeVars == <<known, level, phase, queue, stratum, state, bufs>>

LEMMA CourseKept ==
  ASSUME TypeOK, Course, Next
  PROVE  Course'
<1> USE DepsAssumption
<1> USE DEF TypeOK, Phases, States, Present, Merging
<1>1. ASSUME NEW t \in Table, AddTable(t) PROVE Course'
  <2>1. Leveled'
    BY <1>1 DEF Course, Leveled, AddTable, HasLevel
  <2>2. Rounds' /\ Strata' /\ Given'
    BY <1>1 DEF Course, Rounds, Strata, Given, AddTable
  <2> QED
    BY <2>1, <2>2 DEF Course
<1>2. ASSUME UNCHANGED mergeVars, notified' \subseteq notified \/ phase # "finish"
      PROVE  Course'
  BY <1>2 DEF mergeVars, Course, Rounds, Strata, Leveled, Given
<1>3. CASE CallMergeAll \/ \E R \in SUBSET Row : RebuildTables(R)
  BY <1>3 DEF CallMergeAll, RebuildTables, Exclusive, Course, Rounds, Strata,
              Leveled, Given
<1>4. ASSUME NEW t \in Table, CallMergeTable(t) PROVE Course'
  BY <1>4 DEF CallMergeTable, Exclusive, Course, Rounds, Strata, Leveled, Given
<1>5. CASE Reset
  BY <1>5 DEF Reset, Course, Rounds, Strata, Leveled, Given
<1>6. CASE SimpleAgain
  BY <1>6 DEF SimpleAgain, Course, Rounds, Strata, Leveled, Given
<1>7. CASE BeginStratum
  <2> DEFINE S == {t \in queue : level[t] = stratum}
  <2>1. \A t \in Table : state[t] = "in"
    BY <1>7 DEF BeginStratum, Course, Rounds
  <2>2. Leveled'
    BY <1>7 DEF BeginStratum, Course, Leveled
  <2>3. CASE S # {}
    <3>1. /\ queue' = queue \ S
          /\ phase' = "strata" /\ stratum' = stratum
          /\ state' = [t \in Table |-> IF t \in S THEN "taken" ELSE state[t]]
          /\ bufs' = [t \in Table |-> IF t \in S THEN WriteDeps[t] \cap Present
                                      ELSE bufs[t]]
          /\ known' = known /\ level' = level
      BY <1>7, <2>3 DEF BeginStratum
    <3> HIDE DEF S
    <3>2. S \subseteq queue /\ (\A t \in queue : t \in S <=> level[t] = stratum)
      BY DEF S
    <3>3. Rounds'
      BY <3>1, <3>2, <2>1 DEF Rounds
    <3>4. Strata'
      BY <1>7, <3>1, <3>2, <2>1 DEF BeginStratum, Course, Strata
    <3>5. Given'
      BY <3>1, <3>2, <2>1 DEF Course, Given, Leveled
    <3> QED
      BY <3>3, <3>4, <3>5, <2>2 DEF Course
  <2>4. CASE S = {}
    <3>1. /\ queue' = queue /\ state' = state /\ known' = known /\ level' = level
      BY <1>7, <2>1, <2>4 DEF BeginStratum
    <3>2. \A t \in queue : level[t] > stratum
      BY <1>7, <2>4 DEF BeginStratum, Course, Strata
    <3>3. CASE \E t \in known : level[t] > stratum
      <4>1. phase' = "strata" /\ stratum' = stratum + 1
        BY <1>7, <2>4, <3>3 DEF BeginStratum
      <4> QED
        BY <4>1, <3>1, <3>2, <2>1, <2>2 DEF Course, Rounds, Strata, Given
    <3>4. CASE ~ \E t \in known : level[t] > stratum
      <4>1. phase' = "reset"
        BY <1>7, <2>4, <3>4 DEF BeginStratum
      <4>2. queue = {}
        BY <3>2, <3>4
      <4> QED
        BY <4>1, <4>2, <3>1, <2>1, <2>2 DEF Course, Rounds, Strata, Given
    <3> QED
      BY <3>3, <3>4
  <2> QED
    BY <2>3, <2>4
<1>8. CASE EndStratum
  BY <1>8 DEF EndStratum, Course, Rounds, Strata, Leveled, Given
<1>9. CASE Finish \/ ReturnMergeTable
  BY <1>9 DEF Finish, ReturnMergeTable, Course, Rounds, Strata, Leveled, Given
<1>10. ASSUME NEW t \in Table, TakeSimple(t) PROVE Course'
  BY <1>10 DEF TakeSimple, Course, Rounds, Strata, Leveled, Given
<1>11. ASSUME NEW t \in Table, BeginMerge(t) \/ EndMerge(t) PROVE Course'
  BY <1>11 DEF BeginMerge, EndMerge, Course, Rounds, Strata, Leveled, Given
<1>12. ASSUME NEW t \in Table, PutBack(t) PROVE Course'
  BY <1>12 DEF PutBack, Course, Rounds, Strata, Leveled, Given
<1>13. ASSUME NEW t \in Table, Done(t) PROVE Course'
  BY <1>13 DEF Done, Course, Rounds, Strata, Leveled, Given
<1>14. ASSUME NEW t \in Table,
              UseIndex(t) \/ ClearTable(t) \/ ApplyRow(t) \/
              \E d \in Table : MergeStage(t, d) \/ Flush(t, d)
       PROVE  Course'
  <2>1. UNCHANGED mergeVars
    BY <1>14 DEF mergeVars, UseIndex, ClearTable, ApplyRow, MergeStage, Flush
  <2>2. notified' \subseteq notified \/ phase # "finish"
    BY <1>14 DEF UseIndex, ClearTable, ApplyRow, MergeStage, Flush, Course, Rounds
  <2> QED
    BY <1>2, <2>1, <2>2
<1>15. CASE \/ \E w \in Worker : DropState(w) \/ \E t \in Table : Stage(w, t)
            \/ \E b \in Buffer : \/ BufferStage(b) \/ DropBuffer(b)
                                 \/ \E t \in Table : NewBuffer(b, t)
            \/ CloneMerges
  <2>1. UNCHANGED mergeVars /\ phase # "finish"
    BY <1>15 DEF mergeVars, DropState, Stage, BufferStage, DropBuffer, NewBuffer,
                 CloneMerges
  <2> QED
    BY <1>2, <2>1
<1> QED
  BY <1>1, <1>3, <1>4, <1>5, <1>6, <1>7, <1>8, <1>9, <1>10, <1>11, <1>12, <1>13,
     <1>14, <1>15
     DEF Next, MergeStep, CallerStep

THEOREM CourseHeld == Spec => []Course
<1>1. Init => Course
  BY DEF Init, Course, Rounds, Strata, Leveled, Given
<1>2. TypeOK /\ Course /\ [Next]_vars => Course'
  <2> SUFFICES ASSUME TypeOK, Course, [Next]_vars PROVE Course'
    OBVIOUS
  <2>1. CASE Next
    BY <2>1, CourseKept
  <2>2. CASE UNCHANGED vars
    BY <2>2 DEF vars, Course, Rounds, Strata, Leveled, Given
  <2> QED
    BY <2>1, <2>2
<1> QED
  BY <1>1, <1>2, TypeCorrect, PTL DEF Spec

(* A merge function finds every table it reads, and can write to every      *)
(* table it writes, however tables are spread over strata and rounds.       *)
THEOREM DepsArePresent == Spec => []DepsPresent
<1>1. TypeOK /\ Course => DepsPresent
  <2> SUFFICES ASSUME TypeOK, Course, NEW t \in known,
                      state[t] \in {"taken", "merging"}
               PROVE  /\ ReadDeps[t] \subseteq Present
                      /\ WriteDeps[t] \subseteq bufs[t] \cup Present
    BY DEF DepsPresent
  <2> USE DepsAssumption DEF TypeOK, Phases, Present
  <2>1. CASE phase = "strata"
    BY <2>1 DEF Course, Strata, Leveled, Given
  <2>2. CASE phase \in {"simple", "single"}
    BY <2>2 DEF Course, Rounds, Leveled
  <2>3. phase \notin {"open", "reset", "finish"}
    BY DEF Course, Rounds
  <2> QED
    BY <2>1, <2>2, <2>3
<1> QED
  BY <1>1, TypeCorrect, CourseHeld, PTL

-----------------------------------------------------------------------------
(* What merge_all reports, and what it leaves of the indexes                *)

(* A tuple added is accounted for in ever_changed or by a merge under way.  *)
Accounted ==
    grown => ever \/ \E t \in known : state[t] # "in" /\ chg[t]

THEOREM GrowthReported == Spec => []ReportsGrowth
<1>1. Init => Accounted
  BY DEF Init, Accounted
<1>2. TypeOK /\ Course /\ Accounted /\ [Next]_vars => Accounted'
  <2> SUFFICES ASSUME TypeOK, Course, Accounted, [Next]_vars PROVE Accounted'
    OBVIOUS
  <2> USE DEF TypeOK, States, Accounted
  <2>1. ASSUME UNCHANGED <<grown, ever, state, chg, known>> PROVE Accounted'
    BY <2>1
  <2>2. ASSUME NEW t \in Table, AddTable(t) PROVE Accounted'
    BY <2>2 DEF AddTable
  <2>3. ASSUME NEW t \in Table, ApplyRow(t) PROVE Accounted'
    BY <2>3 DEF ApplyRow, Course, Rounds
  <2>4. ASSUME NEW t \in Table, NEW d \in Table, MergeStage(t, d) PROVE Accounted'
    BY <2>4 DEF MergeStage
  <2>5. ASSUME NEW t \in Table, PutBack(t) PROVE Accounted'
    BY <2>5 DEF PutBack
  <2>6. CASE EndStratum
    BY <2>6 DEF EndStratum, Merging
  <2>7. CASE Finish \/ ReturnMergeTable
    BY <2>7 DEF Finish, ReturnMergeTable
  <2>8. ASSUME NEW t \in Table,
               TakeSimple(t) \/ BeginMerge(t) \/ EndMerge(t) \/ Done(t)
        PROVE  Accounted'
    BY <2>8 DEF TakeSimple, BeginMerge, EndMerge, Done
  <2>9. CASE BeginStratum
    <3>1. UNCHANGED <<grown, ever, chg, known>>
      BY <2>9 DEF BeginStratum
    <3>2. \A t \in known : state[t] = "in"
      BY <2>9 DEF BeginStratum, Merging
    <3> QED
      BY <3>1, <3>2
  <2> QED
    BY <2>1, <2>2, <2>3, <2>4, <2>5, <2>6, <2>7, <2>8, <2>9
       DEF Next, MergeStep, CallerStep, vars, UseIndex, ClearTable,
           CallMergeTable, DropState, Stage, BufferStage, DropBuffer,
           NewBuffer, CallMergeAll, RebuildTables, CloneMerges, Reset,
           SimpleAgain, Flush
<1>3. TypeOK /\ Course /\ Accounted => ReportsGrowth
  BY DEF Accounted, ReportsGrowth, Course, Rounds, TypeOK
<1> QED
  BY <1>1, <1>2, <1>3, TypeCorrect, CourseHeld, PTL DEF Spec

(* Without merge_table an index is stale only while a merge_all runs.       *)
THEOREM IndexesAreFresh == ~ MergeTables => (Spec => []IndexesFresh)
<1> SUFFICES ASSUME ~ MergeTables PROVE Spec => []IndexesFresh
  OBVIOUS
<1> DEFINE I == IndexesFresh /\ phase # "single"
<1>1. Init => I
  BY DEF Init, IndexesFresh
<1>2. TypeOK /\ Course /\ I /\ [Next]_vars => I'
  <2> SUFFICES ASSUME TypeOK, Course, I, [Next]_vars PROVE I'
    OBVIOUS
  <2> USE DEF TypeOK, IndexesFresh
  <2>1. ASSUME UNCHANGED <<index, phase>> PROVE I'
    BY <2>1
  <2>2. ASSUME NEW t \in Table, UseIndex(t) \/ ClearTable(t) PROVE I'
    BY <2>2 DEF UseIndex, ClearTable
  <2>3. ASSUME NEW t \in Table, ApplyRow(t) PROVE I'
    BY <2>3 DEF ApplyRow, Course, Rounds
  <2>4. ASSUME NEW t \in Table, CallMergeTable(t) PROVE I'
    BY <2>4 DEF CallMergeTable
  <2>5. CASE Finish
    BY <2>5 DEF Finish
  <2>6. ASSUME phase' # "open", phase' # "single" PROVE I'
    BY <2>6
  <2>7. CASE ReturnMergeTable
    BY <2>7 DEF ReturnMergeTable
  <2>8. CASE CallMergeAll \/ (\E R \in SUBSET Row : RebuildTables(R)) \/ Reset
             \/ SimpleAgain \/ BeginStratum
    <3>1. phase' # "open" /\ phase' # "single"
      BY <2>8 DEF CallMergeAll, RebuildTables, Reset, SimpleAgain, BeginStratum
    <3> QED
      BY <3>1, <2>6
  <2> QED
    BY <2>1, <2>2, <2>3, <2>4, <2>5, <2>7, <2>8
       DEF Next, MergeStep, CallerStep, vars, AddTable, DropState, Stage,
           BufferStage, DropBuffer, NewBuffer, CloneMerges, TakeSimple,
           BeginMerge, EndMerge, PutBack, Done, EndStratum, MergeStage, Flush
<1> QED
  BY <1>1, <1>2, TypeCorrect, CourseHeld, PTL DEF Spec

-----------------------------------------------------------------------------
(* Where the rows are                                                       *)

Staged(r) == place[r] \in {"buffered", "pending"}

(* A row in a buffer has its table marked and an owner that is still there. *)
InBuffers ==
    \A r \in Row : place[r] = "buffered" =>
       /\ tbl[r] \in notified
       /\ own[r] # None
       /\ own[r] \in Worker => phase = "open"
       /\ own[r] \in Buffer => bufTbl[own[r]] = tbl[r]
       /\ own[r] \in Table => state[own[r]] \in {"merging", "flushing"}

(* A buffer handed out has its table marked until it is given back.         *)
HandedOut ==
    \A b \in Buffer : bufTbl[b] # None => phase = "open" /\ bufTbl[b] \in notified

(* What a merge must still take waits for it.                               *)
Musts ==
    \A r \in must : place[r] = "pending" /\ state[tbl[r]] = "merging"

(* The rows that wait for a merge are those some merge will take.           *)
Waiting ==
    \A r \in Row : place[r] = "pending" =>
       \/ tbl[r] \in notified \cup queue
       \/ state[tbl[r]] = "taken"
       \/ r \in must

Placed == \A r \in Row : Staged(r) => tbl[r] \in known

Tracked == InBuffers /\ HandedOut /\ Musts /\ Waiting /\ Placed

NoLeaks == ~ KeepBuffers /\ ~ Clones

(* Nothing is buffered while a merge is between two rounds.                 *)
LEMMA BuffersEmpty ==
  ASSUME TypeOK, Tracked, phase # "open", \A t \in Table : state[t] = "in"
  PROVE  \A r \in Row : place[r] # "buffered"
<1> SUFFICES ASSUME NEW r \in Row, place[r] = "buffered" PROVE FALSE
  OBVIOUS
<1>1. own[r] \in Table \cup Worker \cup Buffer
  BY DEF TypeOK, Owner, Tracked, InBuffers
<1>2. own[r] \notin Worker /\ own[r] \notin Table
  BY DEF Tracked, InBuffers
<1>3. own[r] \notin Buffer
  <2>1. own[r] \in Buffer => tbl[r] # None
    BY NoneAssumption DEF Tracked, Placed, Staged, TypeOK
  <2> QED
    BY <2>1 DEF Tracked, InBuffers, HandedOut
<1> QED
  BY <1>1, <1>2, <1>3

LEMMA TrackedKept ==
  ASSUME NoLeaks, TypeOK, Course, Tracked, Next, TypeOK'
  PROVE  Tracked'
<1> USE NoneAssumption, OwnersAssumption, DepsAssumption
<1> USE DEF TypeOK, Phases, States, Places, Owner, Tracked, Placed, Staged,
            InBuffers, HandedOut, Musts, Waiting, rowVars
<1>1. ASSUME NEW t \in Table, AddTable(t) PROVE Tracked'
  BY <1>1 DEF AddTable
<1>2. ASSUME NEW t \in Table, UseIndex(t) PROVE Tracked'
  BY <1>2 DEF UseIndex
<1>3. ASSUME NEW t \in Table, ClearTable(t) PROVE Tracked'
  BY <1>3 DEF ClearTable, Remove, Pending, Exclusive, Course, Rounds
<1>4. ASSUME NEW t \in Table, CallMergeTable(t) PROVE Tracked'
  BY <1>4 DEF CallMergeTable, Exclusive, Buffered, NoLeaks, Course, Rounds
<1>5. ASSUME NEW w \in Worker, DropState(w) PROVE Tracked'
  BY <1>5 DEF DropState, HandOver, Buffered
<1>6. ASSUME NEW w \in Worker, NEW t \in Table, Stage(w, t) PROVE Tracked'
  BY <1>6 DEF Stage, StageIn, Present
<1>7. ASSUME NEW b \in Buffer, BufferStage(b) PROVE Tracked'
  BY <1>7 DEF BufferStage, StageIn
<1>8. ASSUME NEW b \in Buffer, DropBuffer(b) PROVE Tracked'
  BY <1>8 DEF DropBuffer, HandOver, Buffered
<1>9. ASSUME NEW b \in Buffer, NEW t \in Table, NewBuffer(b, t) PROVE Tracked'
  BY <1>9 DEF NewBuffer
<1>10. CASE CallMergeAll
  BY <1>10 DEF CallMergeAll, Exclusive, Buffered, NoLeaks
<1>11. ASSUME NEW R \in SUBSET Row, RebuildTables(R) PROVE Tracked'
  BY <1>11 DEF RebuildTables, Exclusive, Buffered, NoLeaks, Present
<1>12. CASE CloneMerges
  BY <1>12 DEF CloneMerges, NoLeaks
<1>13. CASE Reset
  <2>1. \A r \in Row : place[r] # "buffered"
    BY <1>13, BuffersEmpty DEF Reset, Course, Rounds
  <2> QED
    BY <1>13, <2>1 DEF Reset, Course, Rounds
<1>14. CASE SimpleAgain
  <2>1. \A t \in Table : state[t] = "in"
    BY <1>14 DEF SimpleAgain, Merging, Course, Rounds
  <2>2. \A r \in Row : place[r] # "buffered"
    BY <1>14, <2>1, BuffersEmpty DEF SimpleAgain
  <2> QED
    BY <1>14, <2>1, <2>2 DEF SimpleAgain
<1>15. CASE BeginStratum
  <2>1. \A t \in Table : state[t] = "in"
    BY <1>15 DEF BeginStratum, Merging, Course, Rounds
  <2>2. \A r \in Row : place[r] # "buffered"
    BY <1>15, <2>1, BuffersEmpty DEF BeginStratum
  <2>3. must = {}
    BY <2>1
  <2> QED
    BY <1>15, <2>1, <2>2, <2>3 DEF BeginStratum
<1>16. CASE EndStratum
  BY <1>16 DEF EndStratum, Merging, Course, Rounds
<1>17. CASE Finish \/ ReturnMergeTable
  BY <1>17 DEF Finish, ReturnMergeTable
<1>18. ASSUME NEW t \in Table, TakeSimple(t) PROVE Tracked'
  <2>1. \A u \in Table : state[u] = "in"
    BY <1>18 DEF TakeSimple, Merging, Course, Rounds
  <2>2. \A r \in Row : place[r] # "buffered"
    BY <1>18, <2>1, BuffersEmpty DEF TakeSimple
  <2> QED
    BY <1>18, <2>1, <2>2 DEF TakeSimple, Pending
<1>19. ASSUME NEW t \in Table, BeginMerge(t) PROVE Tracked'
  BY <1>19 DEF BeginMerge, Pending
<1>20. ASSUME NEW t \in Table, ApplyRow(t) PROVE Tracked'
  BY <1>20 DEF ApplyRow, Pending, Remove
<1>21. ASSUME NEW t \in Table, EndMerge(t) PROVE Tracked'
  BY <1>21 DEF EndMerge, Pending
<1>22. ASSUME NEW t \in Table, PutBack(t) PROVE Tracked'
  BY <1>22 DEF PutBack, Buffered
<1>23. ASSUME NEW t \in Table, Done(t) PROVE Tracked'
  BY <1>23 DEF Done, Buffered
<1>24. ASSUME NEW t \in Table, NEW d \in Table, MergeStage(t, d) PROVE Tracked'
  BY <1>24 DEF MergeStage, StageIn, Present
<1>25. ASSUME NEW t \in Table, NEW d \in Table, Flush(t, d) PROVE Tracked'
  BY <1>25 DEF Flush, HandOver, Buffered
<1> QED
  BY <1>1, <1>2, <1>3, <1>4, <1>5, <1>6, <1>7, <1>8, <1>9, <1>10, <1>11, <1>12,
     <1>13, <1>14, <1>15, <1>16, <1>17, <1>18, <1>19, <1>20, <1>21, <1>22, <1>23,
     <1>24, <1>25
     DEF Next, MergeStep, CallerStep

THEOREM TrackedHeld == NoLeaks => (Spec => []Tracked)
<1> SUFFICES ASSUME NoLeaks PROVE Spec => []Tracked
  OBVIOUS
<1>1. Init => Tracked
  BY DEF Init, Tracked, InBuffers, HandedOut, Musts, Waiting, Placed, Staged
<1>2. TypeOK /\ TypeOK' /\ Course /\ Tracked /\ [Next]_vars => Tracked'
  <2> SUFFICES ASSUME TypeOK, TypeOK', Course, Tracked, [Next]_vars PROVE Tracked'
    OBVIOUS
  <2>1. CASE Next
    BY <2>1, TrackedKept
  <2>2. CASE UNCHANGED vars
    BY <2>2 DEF vars, Tracked, InBuffers, HandedOut, Musts, Waiting, Placed,
                Staged
  <2> QED
    BY <2>1, <2>2
<1> QED
  BY <1>1, <1>2, TypeCorrect, CourseHeld, PTL DEF Spec

(* As long as callers give their buffers back before a merge and no clone   *)
(* of the database takes its notifications, no staged row is forgotten ...  *)
THEOREM NothingIsForgotten == NoLeaks => (Spec => []NothingForgotten)
<1> SUFFICES ASSUME NoLeaks PROVE Spec => []NothingForgotten
  OBVIOUS
<1>1. TypeOK /\ Tracked => NothingForgotten
  BY DEF TypeOK, Tracked, InBuffers, Musts, Waiting, NothingForgotten
<1> QED
  BY <1>1, TypeCorrect, TrackedHeld, PTL

(* ... and merge_all merges all pending updates.                            *)
THEOREM AllIsMerged == NoLeaks => (Spec => []MergesAll)
<1> SUFFICES ASSUME NoLeaks PROVE Spec => []MergesAll
  OBVIOUS
<1>1. TypeOK /\ Course /\ Tracked => MergesAll
  <2> SUFFICES ASSUME TypeOK, Course, Tracked, phase = "finish"
               PROVE  MergesAll
    BY DEF MergesAll
  <2>1. notified = {} /\ queue = {} /\ \A t \in Table : state[t] = "in"
    BY DEF Course, Rounds
  <2>2. \A r \in Row : place[r] # "buffered"
    BY <2>1, BuffersEmpty
  <2>3. \A r \in Row : place[r] # "pending"
    BY <2>1 DEF Tracked, Waiting, Musts, Placed, Staged, TypeOK
  <2> QED
    BY <2>2, <2>3 DEF MergesAll
<1> QED
  BY <1>1, TypeCorrect, CourseHeld, TrackedHeld, PTL

=============================================================================
