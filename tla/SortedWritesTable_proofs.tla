---------------------- MODULE SortedWritesTable_proofs ----------------------
(***************************************************************************)
(* The hash table holds the live rows, the offsets cut the rows exactly at *)
(* their timestamps, row ids are stable within a generation and merge      *)
(* reports what it changed: for any keys, values, shards and timestamps,   *)
(* any merge function, and serial and parallel merges.  The table keeps    *)
(* the promise of KeyedTable, with merge functions fit for its threads.    *)
(***************************************************************************)
EXTENDS SortedWritesTable, FiniteSetTheorems, FunctionTheorems,
        SequenceTheorems, WellFoundedInduction, TLAPS

DeadRows == {i \in DOMAIN data : ~Live(data[i])}

(* Every row under way has the current timestamp and is in the queue of its *)
(* shard; rows are staged only by a parallel insert, one live row per key.  *)
Current(s, rows) ==
    \A i \in DOMAIN rows : rows[i].t = now /\ (Live(rows[i]) => ShardOf(rows[i].k) = s)

RowsUnderWay ==
    /\ \A h \in Handle, s \in Shard : Current(s, buffered[h].rows[s])
    /\ \A s \in Shard : Current(s, pendRows[s]) /\ Current(s, staged[s])

StagedOnce ==
    /\ ~(phase = "insert" /\ par) => staged = NoRows
    /\ \A s \in Shard : \A i, j \in DOMAIN staged[s] :
          Live(staged[s][i]) /\ staged[s][i].k = staged[s][j].k => i = j

(* HashIsLive, its count put as the number of stale rows.                   *)
Hashed ==
    /\ \A k \in Key : hash[k] # 0 => data[hash[k]].k = k
    /\ \A i \in DOMAIN data : Live(data[i]) => hash[data[i].k] = i
    /\ stale = Cardinality(DeadRows)

(* The rows up to Covered have their offsets; those beyond it are of a      *)
(* parallel insert under way.                                               *)
Covered == IF phase = "insert" /\ par THEN start - 1 ELSE Len(data)

InOrder ==
    /\ \A i, j \in DOMAIN data : i <= j => data[i].t <= data[j].t
    /\ \A i \in DOMAIN data : data[i].t <= now

Offsets ==
    /\ Covered \in 0 .. Len(data)
    /\ \A i \in DOMAIN data : i > Covered => data[i].t = now
    /\ \A t \in Time : offsets[t] # 0 =>
          offsets[t] \in 1 .. Covered /\ data[offsets[t]].t = t
    /\ \A i \in 1 .. Covered : offsets[data[i].t] # 0 /\ offsets[data[i].t] <= i

IInv == TypeOK /\ RowsUnderWay /\ StagedOnce /\ Hashed /\ InOrder /\ Offsets

-----------------------------------------------------------------------------
(* Least and greatest elements.                                             *)

LEMMA LeastElement ==
    ASSUME NEW S \in SUBSET Nat, S # {}
    PROVE  SetMin(S) \in S /\ \A y \in S : SetMin(S) <= y
  <1> DEFINE Below == {0 .. x : x \in S}
  <1>1. Below \subseteq FiniteSubsetsOf(Nat) /\ Below # {}
    <2>1. ASSUME NEW x \in S PROVE 0 .. x \in SUBSET Nat /\ IsFiniteSet(0 .. x)
      BY FS_Interval
    <2> QED
      BY <2>1 DEF FiniteSubsetsOf
  <1>2. IsWellFoundedOn(StrictSubsetOrdering(Nat), FiniteSubsetsOf(Nat))
    BY FS_StrictSubsetOrderingWellFounded
  <1>3. PICK X \in Below : \A Y \in Below : ~(<<Y, X>> \in StrictSubsetOrdering(Nat))
    <2> HIDE DEF Below
    <2> QED
      BY <1>1, <1>2, WFMin
  <1>4. PICK x \in S : X = 0 .. x
    OBVIOUS
  <1>5. ASSUME NEW y \in S PROVE x <= y
    <2> SUFFICES ASSUME y < x PROVE FALSE
      OBVIOUS
    <2>1. 0 .. y \subseteq 0 .. x /\ x \in 0 .. x /\ x \notin 0 .. y
      OBVIOUS
    <2>2. <<0 .. y, 0 .. x>> \in StrictSubsetOrdering(Nat)
      BY <2>1 DEF StrictSubsetOrdering
    <2> QED
      BY <1>3, <1>4, <2>2
  <1> QED
    BY <1>5 DEF SetMin

-----------------------------------------------------------------------------
(* Rows.                                                                    *)

LEMMA OneTo == \A n \in Nat : IsFiniteSet(1 .. n) /\ Cardinality(1 .. n) = n
  BY FS_Interval

LEMMA RowFacts ==
    /\ \A row \in Row : /\ Kill(row) \in Row /\ ~Live(Kill(row))
                         /\ Kill(row).v = row.v /\ Kill(row).t = row.t
    /\ \A row \in Row : Live(row) <=> row.k \in Key
    /\ Fresh \subseteq Row /\ \A row \in Fresh : Live(row)
  BY StaleAssumption DEF Row, Fresh, Kill, Live

LEMMA Constants ==
    /\ MaxTime \in Nat /\ Budget \in Nat /\ Time \subseteq Nat
    /\ 1 \in Time /\ 0 \notin Time
    /\ \A t \in Nat : t \in Time <=> t >= 1 /\ t <= MaxTime
  BY BoundsAssumption DEF Time

LEMMA RowIn ==
    ASSUME TypeOK, NEW i \in DOMAIN data
    PROVE  /\ i \in 1 .. Len(data) /\ data[i] \in Row
           /\ data[i].t \in Time /\ data[i].t \in Nat /\ data[i].v \in Val
           /\ Live(data[i]) <=> data[i].k \in Key
  <1>1. i \in 1 .. Len(data) /\ data[i] \in Row
    BY ElementOfSeq, LenProperties DEF TypeOK
  <1> QED
    BY <1>1, Constants, RowFacts DEF Row

(* Marking one row stale.                                                   *)
LEMMA KillOne ==
    ASSUME NEW d \in Seq(Row), NEW i \in DOMAIN d
    PROVE  LET e == [d EXCEPT ![i] = Kill(@)] IN
           /\ e \in Seq(Row) /\ Len(e) = Len(d) /\ DOMAIN e = DOMAIN d
           /\ \A j \in DOMAIN d : e[j] = IF j = i THEN Kill(d[i]) ELSE d[j]
  <1>1. i \in 1 .. Len(d) /\ d[i] \in Row /\ Kill(d[i]) \in Row
    BY RowFacts, ElementOfSeq, LenProperties
  <1>2. [d EXCEPT ![i] = Kill(@)] = [d EXCEPT ![i] = Kill(d[i])]
    OBVIOUS
  <1> QED
    BY <1>1, <1>2, ExceptSeq, LenProperties

LEMMA DeadIsFinite ==
    ASSUME TypeOK PROVE IsFiniteSet(DeadRows) /\ Cardinality(DeadRows) \in Nat
  <1>1. DOMAIN data = 1 .. Len(data) /\ Len(data) \in Nat
    BY LenProperties DEF TypeOK
  <1>2. IsFiniteSet(DOMAIN data)
    BY <1>1, OneTo
  <1>3. DeadRows \subseteq DOMAIN data
    BY DEF DeadRows
  <1> QED
    BY <1>2, <1>3, FS_Subset, FS_CardinalityType

(* Steps that leave the table and its progress alone.                       *)
LEMMA SameTable ==
    ASSUME IInv, UNCHANGED <<data, stale, hash, offsets, phase, par, start, now>>
    PROVE  Hashed' /\ InOrder' /\ Offsets'
  BY DEF IInv, Hashed, DeadRows, InOrder, Offsets, Covered

LEMMA CurrentEmpty == \A s \in Shard : Current(s, <<>>)
  BY DEF Current

LEMMA CurrentAppend ==
    ASSUME NEW s \in Shard, NEW rows \in Seq(Row), Current(s, rows),
           NEW row \in Row, row.t = now, Live(row) => ShardOf(row.k) = s
    PROVE  Current(s, Append(rows, row))
  <1>1. /\ DOMAIN Append(rows, row) = 1 .. Len(rows) + 1
        /\ Len(rows) \in Nat /\ DOMAIN rows = 1 .. Len(rows)
        /\ Append(rows, row)[Len(rows) + 1] = row
        /\ \A i \in 1 .. Len(rows) : Append(rows, row)[i] = rows[i]
    BY LenProperties
  <1> QED
    BY <1>1 DEF Current

LEMMA CurrentConcat ==
    ASSUME NEW s \in Shard, NEW p \in Seq(Fresh), NEW b \in Seq(Fresh),
           Current(s, p), Current(s, b)
    PROVE  p \o b \in Seq(Fresh) /\ Current(s, p \o b)
  <1>1. /\ p \o b \in Seq(Fresh) /\ Len(p \o b) = Len(p) + Len(b)
        /\ \A i \in 1 .. Len(p) + Len(b) : (p \o b)[i] = IF i <= Len(p) THEN p[i] ELSE b[i - Len(p)]
    BY ConcatProperties
  <1>2. /\ Len(p) \in Nat /\ DOMAIN p = 1 .. Len(p)
        /\ Len(b) \in Nat /\ DOMAIN b = 1 .. Len(b)
        /\ DOMAIN (p \o b) = 1 .. Len(p \o b)
    BY <1>1, LenProperties
  <1>3. ASSUME NEW i \in DOMAIN (p \o b)
        PROVE  (\E j \in DOMAIN p : (p \o b)[i] = p[j]) \/ (\E j \in DOMAIN b : (p \o b)[i] = b[j])
    <2>1. i \in 1 .. Len(p) + Len(b)
      BY <1>1, <1>2
    <2>2. CASE i <= Len(p)
      BY <1>1, <1>2, <2>1, <2>2
    <2>3. CASE ~(i <= Len(p))
      BY <1>1, <1>2, <2>1, <2>3
    <2> QED
      BY <2>2, <2>3
  <1> QED
    BY <1>1, <1>3 DEF Current

LEMMA CurrentTail ==
    ASSUME NEW s \in Shard, NEW rows \in Seq(Row), rows # <<>>, Current(s, rows)
    PROVE  /\ Current(s, Tail(rows))
           /\ Head(rows).t = now /\ (Live(Head(rows)) => ShardOf(Head(rows).k) = s)
  <1>1. /\ Len(rows) \in Nat /\ Len(rows) # 0 /\ DOMAIN rows = 1 .. Len(rows)
        /\ DOMAIN Tail(rows) = 1 .. Len(rows) - 1 /\ Head(rows) = rows[1]
        /\ \A i \in 1 .. Len(rows) - 1 : Tail(rows)[i] = rows[i + 1]
    BY LenProperties, HeadTailProperties, EmptySeq
  <1> QED
    BY <1>1 DEF Current

LEMMA SameCurrent ==
    ASSUME now' = now PROVE \A s \in Shard : \A rows : Current(s, rows) => Current(s, rows)'
  BY DEF Current

(* Staging leaves the table alone.                                          *)
LEMMA SameTypes ==
    ASSUME TypeOK,
           UNCHANGED <<data, stale, hash, offsets, gen, phase, par, staged, start, changed>>,
           buffered' \in [Handle -> [rows : [Shard -> Seq(Fresh)], rems : SUBSET Key]],
           pendRows' \in [Shard -> Seq(Fresh)],
           pendRems' \subseteq Key, now' \in Time, left' \in 0 .. Budget
    PROVE  TypeOK'
  BY DEF TypeOK

-----------------------------------------------------------------------------
(* Staging.                                                                 *)

LEMMA InitIInv == Init => IInv
  <1> SUFFICES ASSUME Init PROVE IInv
    OBVIOUS
  <1>0. Len(data) = 0 /\ DOMAIN data = {} /\ data \in Seq(Row)
    BY DEF Init
  <1>1. TypeOK
    <2>1. NoRows \in [Shard -> Seq(Row)] /\ NoRows \in [Shard -> Seq(Fresh)]
      BY DEF NoRows
    <2>2. EmptyBuffer \in [rows : [Shard -> Seq(Fresh)], rems : SUBSET Key]
      BY <2>1 DEF EmptyBuffer
    <2>3. hash \in [Key -> 0 .. Len(data)] /\ offsets \in [Time -> 0 .. Len(data) + 1]
      BY <1>0 DEF Init
    <2>4. buffered \in [Handle -> [rows : [Shard -> Seq(Fresh)], rems : SUBSET Key]]
      BY <2>2 DEF Init
    <2>5. stale \in Nat /\ gen \in Nat /\ start \in Nat /\ pendRems \subseteq Key
      BY DEF Init
    <2>6. par \in BOOLEAN /\ changed \in BOOLEAN
      BY DEF Init
    <2>7. now \in Time /\ left \in 0 .. Budget /\ phase \in {"idle", "delete", "insert", "rehash"}
      BY Constants DEF Init
    <2>8. pendRows \in [Shard -> Seq(Fresh)] /\ staged \in [Shard -> Seq(Row)]
      BY <2>1 DEF Init
    <2> QED
      BY <1>0, <2>3, <2>4, <2>5, <2>6, <2>7, <2>8 DEF TypeOK
  <1>2. RowsUnderWay /\ StagedOnce
    <2>1. \A s \in Shard : NoRows[s] = <<>>
      BY DEF NoRows
    <2>2. \A h \in Handle : buffered[h].rows = NoRows
      BY DEF Init, EmptyBuffer
    <2> QED
      BY <2>1, <2>2, CurrentEmpty DEF Init, RowsUnderWay, StagedOnce
  <1>3. Hashed
    <2>1. DeadRows = {}
      BY <1>0 DEF DeadRows
    <2> QED
      BY <1>0, <2>1, FS_EmptySet DEF Init, Hashed
  <1>4. InOrder /\ Offsets
    BY <1>0 DEF Init, InOrder, Offsets, Covered
  <1> QED
    BY <1>1, <1>2, <1>3, <1>4 DEF IInv

LEMMA StageInsertKeeps ==
    ASSUME IInv, NEW h \in Handle, NEW k \in Key, NEW v \in Val, StageInsert(h, k, v)
    PROVE  IInv'
  <1> DEFINE row == [k |-> k, v |-> v, t |-> now]
             q == buffered[h].rows[ShardOf(k)]
  <1>0. TypeOK /\ RowsUnderWay /\ StagedOnce
    BY DEF IInv
  <1>1. ShardOf(k) \in Shard /\ q \in Seq(Fresh) /\ row \in Fresh
    BY <1>0, ShardAssumption DEF TypeOK, Fresh
  <1>2. Append(q, row) \in Seq(Fresh) /\ Current(ShardOf(k), Append(q, row))
    <2>1. /\ q \in Seq(Row) /\ row \in Row
          /\ Current(ShardOf(k), q) /\ row.t = now /\ row.k = k
      BY <1>0, <1>1, RowFacts, SeqMonotonic DEF RowsUnderWay
    <2> QED
      BY <1>1, <2>1, CurrentAppend
  <1>3. /\ buffered' \in [Handle -> [rows : [Shard -> Seq(Fresh)], rems : SUBSET Key]]
        /\ \A g \in Handle, s \in Shard : buffered'[g].rows[s] =
              IF g = h /\ s = ShardOf(k) THEN Append(q, row) ELSE buffered[g].rows[s]
    <2> HIDE DEF row
    <2>1. buffered' = [buffered EXCEPT ![h].rows[ShardOf(k)] = Append(@, row)]
      BY DEF StageInsert, row
    <2>2. buffered \in [Handle -> [rows : [Shard -> Seq(Fresh)], rems : SUBSET Key]]
      BY <1>0 DEF TypeOK
    <2> QED
      BY <1>1, <1>2, <2>1, <2>2
  <1>4. TypeOK'
    <2>1. left' \in 0 .. Budget
      BY <1>0, Constants DEF TypeOK, StageInsert
    <2> QED
      BY <1>0, <1>3, <2>1, SameTypes DEF TypeOK, StageInsert
  <1>5. RowsUnderWay'
    <2>1. \A g \in Handle, s \in Shard : Current(s, buffered'[g].rows[s])
      BY <1>0, <1>2, <1>3 DEF RowsUnderWay
    <2> QED
      BY <1>0, <2>1 DEF RowsUnderWay, StageInsert, Current
  <1>6. StagedOnce'
    BY <1>0 DEF StagedOnce, StageInsert
  <1> QED
    BY <1>4, <1>5, <1>6, SameTable DEF IInv, StageInsert

LEMMA StageRemoveKeeps ==
    ASSUME IInv, NEW h \in Handle, NEW k \in Key, StageRemove(h, k)
    PROVE  IInv'
  <1>0. TypeOK /\ RowsUnderWay /\ StagedOnce
    BY DEF IInv
  <1>1. /\ buffered' \in [Handle -> [rows : [Shard -> Seq(Fresh)], rems : SUBSET Key]]
        /\ \A g \in Handle : buffered'[g].rows = buffered[g].rows
    BY <1>0 DEF TypeOK, StageRemove
  <1>2. TypeOK'
    <2>1. left' \in 0 .. Budget
      BY <1>0, Constants DEF TypeOK, StageRemove
    <2> QED
      BY <1>0, <1>1, <2>1, SameTypes DEF TypeOK, StageRemove
  <1>3. RowsUnderWay' /\ StagedOnce'
    BY <1>0, <1>1 DEF RowsUnderWay, StagedOnce, StageRemove, Current
  <1> QED
    BY <1>2, <1>3, SameTable DEF IInv, StageRemove

LEMMA DropBufferKeeps ==
    ASSUME IInv, NEW h \in Handle, DropBuffer(h)
    PROVE  IInv'
  <1>0. TypeOK /\ RowsUnderWay /\ StagedOnce
    BY DEF IInv
  <1>1. ASSUME NEW s \in Shard
        PROVE  pendRows'[s] \in Seq(Fresh) /\ Current(s, pendRows'[s])
    <2>1. /\ pendRows[s] \in Seq(Fresh) /\ buffered[h].rows[s] \in Seq(Fresh)
          /\ pendRows'[s] = pendRows[s] \o buffered[h].rows[s]
          /\ Current(s, pendRows[s]) /\ Current(s, buffered[h].rows[s])
      BY <1>0 DEF TypeOK, DropBuffer, RowsUnderWay
    <2> QED
      BY <2>1, CurrentConcat
  <1>2. /\ buffered' \in [Handle -> [rows : [Shard -> Seq(Fresh)], rems : SUBSET Key]]
        /\ \A g \in Handle, s \in Shard :
              buffered'[g].rows[s] = IF g = h THEN <<>> ELSE buffered[g].rows[s]
    BY <1>0 DEF TypeOK, DropBuffer, EmptyBuffer, NoRows
  <1>3. pendRows' \in [Shard -> Seq(Fresh)]
    BY <1>1 DEF DropBuffer
  <1>4. TypeOK'
    BY <1>0, <1>2, <1>3, SameTypes DEF TypeOK, DropBuffer, envVars
  <1>5. RowsUnderWay'
    <2>1. \A g \in Handle, s \in Shard : Current(s, buffered'[g].rows[s])
      BY <1>0, <1>2, CurrentEmpty DEF RowsUnderWay
    <2> QED
      BY <1>0, <1>1, <2>1, SameCurrent DEF RowsUnderWay, DropBuffer, envVars
  <1>6. StagedOnce'
    BY <1>0 DEF StagedOnce, DropBuffer
  <1> QED
    BY <1>4, <1>5, <1>6, SameTable DEF IInv, DropBuffer, envVars

LEMMA TickKeeps ==
    ASSUME IInv, Tick PROVE IInv'
  <1>0. TypeOK /\ RowsUnderWay /\ StagedOnce /\ Hashed /\ InOrder /\ Offsets
    BY DEF IInv
  <1>1. TypeOK'
    <2>1. now' \in Time
      BY <1>0, Constants DEF TypeOK, Tick
    <2> QED
      BY <1>0, <2>1, SameTypes DEF TypeOK, Tick, queueVars
  <1>2. \A s \in Shard : pendRows[s] = <<>> /\ staged[s] = <<>>
    BY <1>0 DEF Tick, StagedOnce, NoRows
  <1>3. \A h \in Handle, s \in Shard : buffered[h].rows[s] = <<>>
    BY <1>0 DEF Tick, NoRows
  <1>4. RowsUnderWay' /\ StagedOnce'
    BY <1>0, <1>2, <1>3 DEF RowsUnderWay, StagedOnce, Tick, queueVars, Current
  <1>5. Hashed'
    BY <1>0 DEF Hashed, DeadRows, Tick
  <1>6. InOrder'
    <2>1. \A i \in DOMAIN data : data[i].t \in Nat
      BY <1>0, RowIn
    <2> QED
      BY <1>0, <2>1, Constants DEF InOrder, Tick, TypeOK
  <1>7. Offsets'
    <2>1. Covered = Len(data) /\ Covered' = Len(data)
      BY DEF Covered, Tick
    <2> QED
      BY <1>0, <2>1, LenProperties DEF Offsets, Tick, TypeOK
  <1> QED
    BY <1>1, <1>4, <1>5, <1>6, <1>7 DEF IInv

LEMMA ClearKeeps ==
    ASSUME IInv, Clear PROVE IInv'
  <1>0. TypeOK /\ RowsUnderWay /\ StagedOnce /\ Hashed /\ InOrder /\ Offsets
    BY DEF IInv
  <1>1. /\ pendRows' = NoRows /\ \A s \in Shard : NoRows[s] = <<>>
        /\ NoRows \in [Shard -> Seq(Fresh)]
    BY DEF Clear, NoRows
  <1>2. RowsUnderWay' /\ StagedOnce'
    BY <1>0, <1>1 DEF RowsUnderWay, StagedOnce, Clear, Current
  <1>3. CASE data = <<>>
    <2>1. TypeOK'
      <3>1. left' \in 0 .. Budget
        BY <1>0, Constants DEF TypeOK, Clear
      <3> QED
        BY <1>0, <1>1, <1>3, <3>1, SameTypes DEF TypeOK, Clear
    <2> QED
      BY <1>2, <1>3, <2>1, SameTable DEF IInv, Clear
  <1>4. CASE data # <<>>
    <2>1. /\ data' = <<>> /\ stale' = 0 /\ Len(data') = 0 /\ DOMAIN data' = {}
          /\ offsets' = [t \in Time |-> 0] /\ hash' = [k \in Key |-> 0]
          /\ data' \in Seq(Row) /\ gen' = gen + 1
      BY <1>4 DEF Clear
    <2>2. TypeOK'
      <3>1. left' \in 0 .. Budget
        BY <1>0, Constants DEF TypeOK, Clear
      <3> QED
        BY <1>0, <1>1, <2>1, <3>1, Constants DEF TypeOK, Clear
    <2>3. DeadRows' = {}
      BY <2>1 DEF DeadRows
    <2>4. Hashed' /\ InOrder' /\ Offsets'
      BY <2>1, <2>3, FS_EmptySet DEF Hashed, InOrder, Offsets, Covered, Clear
    <2> QED
      BY <1>2, <2>2, <2>4 DEF IInv
  <1> QED
    BY <1>3, <1>4

-----------------------------------------------------------------------------
(* The phases of merge.                                                     *)

LEMMA SameQueues ==
    ASSUME IInv, UNCHANGED <<queueVars, staged, envVars>>
    PROVE  RowsUnderWay'
  BY DEF IInv, RowsUnderWay, Current, queueVars, envVars

LEMMA BeginMergeKeeps ==
    ASSUME IInv, BeginMerge PROVE IInv'
  <1>0. TypeOK /\ StagedOnce /\ Hashed /\ InOrder /\ Offsets
    BY DEF IInv
  <1>1. TypeOK'
    BY <1>0 DEF TypeOK, BeginMerge, queueVars, envVars
  <1>2. RowsUnderWay'
    BY SameQueues DEF BeginMerge, queueVars, envVars
  <1>3. StagedOnce' /\ Hashed' /\ InOrder' /\ Offsets'
    BY <1>0 DEF StagedOnce, Hashed, DeadRows, InOrder, Offsets, Covered, BeginMerge,
                queueVars, envVars
  <1> QED
    BY <1>1, <1>2, <1>3 DEF IInv

LEMMA SkipRehashKeeps ==
    ASSUME IInv, SkipRehash PROVE IInv'
  <1>0. TypeOK /\ StagedOnce /\ Hashed /\ InOrder /\ Offsets
    BY DEF IInv
  <1>1. TypeOK'
    BY <1>0 DEF TypeOK, SkipRehash, queueVars, envVars
  <1>2. RowsUnderWay'
    BY SameQueues DEF SkipRehash, queueVars, envVars
  <1>3. StagedOnce' /\ Hashed' /\ InOrder' /\ Offsets'
    BY <1>0 DEF StagedOnce, Hashed, DeadRows, InOrder, Offsets, Covered, SkipRehash,
                queueVars, envVars
  <1> QED
    BY <1>1, <1>2, <1>3 DEF IInv

LEMMA BeginInsertKeeps ==
    ASSUME IInv, BeginInsert PROVE IInv'
  <1>0. TypeOK /\ StagedOnce /\ Hashed /\ InOrder /\ Offsets
    BY DEF IInv
  <1>1. par' \in BOOLEAN /\ Len(data) \in Nat
    BY <1>0, BoundsAssumption, LenProperties DEF BeginInsert, TypeOK
  <1>2. TypeOK'
    BY <1>0, <1>1 DEF TypeOK, BeginInsert, queueVars, envVars
  <1>3. RowsUnderWay'
    BY SameQueues DEF BeginInsert, queueVars, envVars
  <1>4. StagedOnce' /\ Hashed' /\ InOrder'
    BY <1>0 DEF StagedOnce, Hashed, DeadRows, InOrder, BeginInsert, queueVars, envVars
  <1>5. Covered' = Len(data) /\ Covered = Len(data)
    BY <1>1 DEF BeginInsert, Covered
  <1>6. Offsets'
    BY <1>0, <1>5 DEF Offsets, BeginInsert
  <1> QED
    BY <1>2, <1>3, <1>4, <1>6 DEF IInv

(* Steps that leave the timestamps of the rows alone.                       *)
LEMMA SameOrder ==
    ASSUME IInv, DOMAIN data' = DOMAIN data, Len(data') = Len(data),
           \A i \in DOMAIN data : data'[i].t = data[i].t,
           UNCHANGED <<offsets, now, phase, par, start>>
    PROVE  InOrder' /\ Offsets'
  <1>1. DOMAIN data = 1 .. Len(data) /\ Len(data) \in Nat
    BY LenProperties DEF IInv, TypeOK
  <1>2. Covered' = Covered
    BY DEF Covered
  <1> QED
    BY <1>1, <1>2 DEF IInv, InOrder, Offsets

(* One more stale row.                                                      *)
LEMMA OneMoreDead ==
    ASSUME TypeOK, Hashed, NEW id \in DOMAIN data, Live(data[id]),
           DeadRows' = DeadRows \cup {id}
    PROVE  stale + 1 = Cardinality(DeadRows')
  <1>1. id \notin DeadRows /\ IsFiniteSet(DeadRows) /\ stale = Cardinality(DeadRows)
    BY DeadIsFinite DEF DeadRows, Hashed
  <1> QED
    BY <1>1, FS_AddElement

LEMMA DeleteKeeps ==
    ASSUME IInv, NEW k \in Key, Delete(k) PROVE IInv'
  <1>0. TypeOK /\ RowsUnderWay /\ StagedOnce /\ Hashed /\ InOrder /\ Offsets
    BY DEF IInv
  <1>1. RowsUnderWay' /\ StagedOnce'
    BY <1>0 DEF RowsUnderWay, StagedOnce, Current, Delete, envVars
  <1>2. CASE hash[k] = 0
    <2>1. TypeOK'
      BY <1>0, <1>2 DEF TypeOK, Delete, envVars
    <2>2. Hashed' /\ InOrder' /\ Offsets'
      BY <1>2, SameTable DEF Delete, envVars
    <2> QED
      BY <1>1, <2>1, <2>2 DEF IInv
  <1>3. CASE hash[k] # 0
    <2> DEFINE id == hash[k]
    <2>1. id \in DOMAIN data /\ data[id].k = k /\ Live(data[id])
      BY <1>0, <1>3, LenProperties, StaleAssumption DEF TypeOK, Hashed, Live
    <2>2. data' = [data EXCEPT ![id] = Kill(@)]
      BY <1>3 DEF Delete
    <2>3. /\ data' \in Seq(Row) /\ Len(data') = Len(data) /\ DOMAIN data' = DOMAIN data
          /\ \A j \in DOMAIN data : data'[j] = IF j = id THEN Kill(data[id]) ELSE data[j]
      BY <1>0, <2>1, <2>2, KillOne DEF TypeOK
    <2>4. \A j \in DOMAIN data : data'[j].t = data[j].t
      BY <1>0, <2>3, RowIn, RowFacts
    <2>5. hash' = [hash EXCEPT ![k] = 0] /\ stale' = stale + 1 /\ changed' = TRUE
      BY <1>3 DEF Delete
    <2>6. TypeOK'
      BY <1>0, <2>3, <2>5 DEF TypeOK, Delete, envVars
    <2>7. DeadRows' = DeadRows \cup {id}
      BY <1>0, <2>1, <2>3, RowIn, RowFacts DEF DeadRows
    <2>8. Hashed'
      <3>1. ASSUME NEW j \in Key, hash'[j] # 0 PROVE data'[hash'[j]].k = j
        <4>1. j # k /\ hash'[j] = hash[j] /\ hash[j] # id /\ hash[j] \in DOMAIN data
          BY <1>0, <2>1, <2>5, <3>1, LenProperties DEF TypeOK, Hashed
        <4> QED
          BY <1>0, <2>3, <4>1 DEF Hashed
      <3>2. ASSUME NEW j \in DOMAIN data', Live(data'[j]) PROVE hash'[data'[j].k] = j
        <4>1. j # id /\ data'[j] = data[j] /\ j \in DOMAIN data
          BY <1>0, <2>1, <2>3, <3>2, RowIn, RowFacts
        <4>2. hash[data[j].k] = j /\ data[j].k \in Key
          BY <1>0, <3>2, <4>1, RowIn DEF Hashed
        <4> QED
          BY <1>0, <2>5, <4>1, <4>2 DEF TypeOK
      <3>3. stale' = Cardinality(DeadRows')
        BY <1>0, <2>1, <2>5, <2>7, OneMoreDead
      <3> QED
        BY <3>1, <3>2, <3>3 DEF Hashed
    <2>9. InOrder' /\ Offsets'
      BY <2>3, <2>4, SameOrder DEF Delete, envVars
    <2> QED
      BY <1>1, <2>6, <2>8, <2>9 DEF IInv
  <1> QED
    BY <1>2, <1>3

-----------------------------------------------------------------------------
(* Offsets of the rows of an insert.                                        *)

LEMMA LargestFacts ==
    ASSUME TypeOK
    PROVE  /\ Largest \in 0 .. MaxTime
           /\ Largest # 0 => offsets[Largest] # 0
           /\ \A t \in Time : offsets[t] # 0 => t <= Largest
  <1> DEFINE Bounds == {n \in 0 .. MaxTime : \A t \in Time : offsets[t] # 0 => t <= n}
             m == SetMin(Bounds)
  <1>1. MaxTime \in Bounds /\ Bounds \in SUBSET Nat
    BY Constants
  <1>2. m \in Bounds /\ \A n \in Bounds : m <= n
    <2> HIDE DEF Bounds
    <2> QED
      BY <1>1, LeastElement
  <1>3. ASSUME m # 0 PROVE offsets[m] # 0
    <2> SUFFICES ASSUME offsets[m] = 0 PROVE FALSE
      OBVIOUS
    <2>1. m \in 0 .. MaxTime /\ \A t \in Time : offsets[t] # 0 => t <= m
      BY <1>2
    <2> HIDE DEF m
    <2>2. m - 1 \in 0 .. MaxTime /\ \A t \in Time : offsets[t] # 0 => t <= m - 1
      BY <1>3, <2>1, Constants
    <2> QED
      BY <1>2, <2>2, Constants
  <1>4. \E n \in 0 .. MaxTime :
           /\ n # 0 => offsets[n] # 0
           /\ \A t \in Time : offsets[t] # 0 => t <= n
    BY <1>2, <1>3
  <1> QED
    BY <1>4 DEF Largest

(* The rows after the covered ones get their offset.                        *)
LEMMA ExtendOffsets ==
    ASSUME TypeOK, InOrder, Offsets, now' = now,
           data' \in Seq(Row), Len(data) <= Len(data'), Covered + 1 <= Len(data'),
           \A i \in DOMAIN data : data'[i].t = data[i].t,
           \A i \in DOMAIN data' : i > Covered => data'[i].t = now,
           offsets' = OffsetsWith(now, Covered + 1),
           Covered' = Len(data')
    PROVE  Offsets'
  <1>1. /\ Len(data) \in Nat /\ DOMAIN data = 1 .. Len(data)
        /\ Len(data') \in Nat /\ DOMAIN data' = 1 .. Len(data')
        /\ Covered \in 0 .. Len(data) /\ now \in Time /\ now \in Nat
    BY LenProperties, Constants DEF TypeOK, Offsets
  <1>2. Largest \in 0 .. MaxTime /\ \A t \in Time : offsets[t] # 0 => t <= Largest
    BY LargestFacts
  <1>3. CASE now > Largest
    <2>1. offsets' = [offsets EXCEPT ![now] = Covered + 1]
      BY <1>3 DEF OffsetsWith
    <2>2. \A t \in Time : offsets'[t] = IF t = now THEN Covered + 1 ELSE offsets[t]
      BY <2>1 DEF TypeOK
    <2>3. offsets[now] = 0
      BY <1>1, <1>2, <1>3
    <2>4. ASSUME NEW t \in Time, offsets'[t] # 0
          PROVE  offsets'[t] \in 1 .. Len(data') /\ data'[offsets'[t]].t = t
      <3>1. CASE t = now
        BY <1>1, <2>2, <3>1
      <3>2. CASE t # now
        BY <1>1, <2>2, <2>4, <3>2 DEF Offsets
      <3> QED
        BY <3>1, <3>2
    <2>5. ASSUME NEW i \in 1 .. Len(data')
          PROVE  offsets'[data'[i].t] # 0 /\ offsets'[data'[i].t] <= i
      <3>1. CASE i <= Covered
        <4>1. i \in DOMAIN data /\ data'[i].t = data[i].t /\ data[i].t \in Time
          BY <1>1, <3>1, RowIn
        <4>2. offsets[data[i].t] # 0 /\ offsets[data[i].t] <= i
          BY <1>1, <3>1 DEF Offsets
        <4> QED
          BY <2>2, <2>3, <4>1, <4>2
      <3>2. CASE i > Covered
        BY <1>1, <2>2, <3>2
      <3> QED
        BY <1>1, <3>1, <3>2
    <2> QED
      BY <1>1, <2>4, <2>5 DEF Offsets
  <1>4. CASE ~(now > Largest)
    <2>1. offsets' = offsets
      BY <1>4 DEF OffsetsWith
    <2>2. Largest # 0 /\ Largest \in Time /\ offsets[Largest] # 0
      BY <1>1, <1>2, <1>4, Constants, LargestFacts
    <2>3. Largest <= now
      <3>1. offsets[Largest] \in 1 .. Covered /\ data[offsets[Largest]].t = Largest
        BY <2>2 DEF Offsets
      <3> QED
        BY <1>1, <3>1 DEF InOrder
    <2>4. offsets[now] # 0 /\ offsets[now] \in 1 .. Covered
      <3>1. Largest = now
        BY <1>1, <1>2, <1>4, <2>3
      <3> QED
        BY <1>1, <2>2, <3>1 DEF Offsets
    <2>5. ASSUME NEW t \in Time, offsets[t] # 0
          PROVE  offsets[t] \in 1 .. Len(data') /\ data'[offsets[t]].t = t
      BY <1>1, <2>5 DEF Offsets
    <2>6. ASSUME NEW i \in 1 .. Len(data')
          PROVE  offsets[data'[i].t] # 0 /\ offsets[data'[i].t] <= i
      <3>1. CASE i <= Covered
        BY <1>1, <3>1 DEF Offsets
      <3>2. CASE i > Covered
        BY <1>1, <2>4, <3>2
      <3> QED
        BY <1>1, <3>1, <3>2
    <2> QED
      BY <1>1, <2>1, <2>5, <2>6 DEF Offsets
  <1> QED
    BY <1>3, <1>4

LEMMA EndInsertKeeps ==
    ASSUME IInv, EndInsert PROVE IInv'
  <1>0. TypeOK /\ RowsUnderWay /\ StagedOnce /\ Hashed /\ InOrder /\ Offsets
    BY DEF IInv
  <1>1. Len(data) \in Nat /\ DOMAIN data = 1 .. Len(data) /\ now \in Time
    BY <1>0, LenProperties DEF TypeOK
  <1>2. RowsUnderWay'
    BY SameQueues DEF EndInsert, queueVars, envVars
  <1>3. StagedOnce'
    <2>1. staged = NoRows
      BY <1>0 DEF EndInsert, TypeOK, NoRows
    <2> QED
      BY <1>0, <2>1 DEF StagedOnce, EndInsert
  <1>4. Hashed' /\ InOrder'
    BY <1>0 DEF Hashed, DeadRows, InOrder, EndInsert, queueVars, envVars
  <1>5. CASE par /\ start <= Len(data)
    <2>1. /\ Covered = start - 1 /\ Covered' = Len(data) /\ start \in DOMAIN data
          /\ start > Covered
      BY <1>0, <1>1, <1>5 DEF Covered, EndInsert, Offsets, TypeOK
    <2>2. data[start].t = now
      BY <1>0, <2>1 DEF Offsets
    <2>3. offsets' = OffsetsWith(now, Covered + 1)
      <3>1. Covered + 1 = start
        BY <1>0, <2>1 DEF TypeOK
      <3> QED
        BY <1>5, <2>2, <3>1 DEF EndInsert
    <2>4. Offsets'
      BY <1>0, <1>1, <2>1, <2>3, ExtendOffsets DEF TypeOK, Offsets, EndInsert, envVars
    <2>5. offsets' \in [Time -> 0 .. Len(data) + 1]
      BY <1>0, <1>1, <2>1, <2>3 DEF TypeOK, OffsetsWith
    <2>6. TypeOK'
      BY <1>0, <2>5 DEF TypeOK, EndInsert, queueVars, envVars
    <2> QED
      BY <1>2, <1>3, <1>4, <2>4, <2>6 DEF IInv
  <1>6. CASE ~(par /\ start <= Len(data))
    <2>1. offsets' = offsets
      BY <1>6 DEF EndInsert
    <2>2. Covered = Len(data) /\ Covered' = Len(data)
      BY <1>0, <1>1, <1>6 DEF Covered, EndInsert, Offsets, TypeOK
    <2>3. Offsets'
      BY <1>0, <2>1, <2>2 DEF Offsets, EndInsert
    <2>4. TypeOK'
      BY <1>0, <2>1 DEF TypeOK, EndInsert, queueVars, envVars
    <2> QED
      BY <1>2, <1>3, <1>4, <2>3, <2>4 DEF IInv
  <1> QED
    BY <1>5, <1>6

-----------------------------------------------------------------------------
(* A row of a serial insert.                                                *)

LEMMA MergedFacts ==
    ASSUME NEW old \in Row, NEW new \in Row, Live(new)
    PROVE  /\ Merged(old, new) \in Fresh /\ Merged(old, new) \in Row
           /\ Merged(old, new).k = new.k /\ Merged(old, new).t = new.t
           /\ Merged(old, new).v = Combine(old.v, new.v)
           /\ Live(Merged(old, new))
  <1>1. old.v \in Val /\ new.v \in Val /\ Combine(old.v, new.v) \in Val /\ new.k \in Key
    BY CombineAssumption, RowFacts DEF Row
  <1> DEFINE c == Combine(old.v, new.v)
  <1>2. Merged(old, new) = [new EXCEPT !.v = c]
    BY DEF Merged
  <1> HIDE DEF c
  <1>3. new \in Row /\ c \in Val
    BY <1>1 DEF c
  <1>4. [new EXCEPT !.v = c] \in Fresh /\ [new EXCEPT !.v = c].k = new.k
        /\ [new EXCEPT !.v = c].t = new.t /\ [new EXCEPT !.v = c].v = c
    BY <1>1, <1>3 DEF Row, Fresh
  <1> QED
    BY <1>2, <1>4, RowFacts DEF c

(* The first row of a queue, and the queue without it.                      *)
LEMMA TakeFirst ==
    ASSUME IInv, NEW s \in Shard, pendRows[s] # <<>>, now' = now, buffered' = buffered,
           pendRows' = [pendRows EXCEPT ![s] = Tail(@)]
    PROVE  LET row == Head(pendRows[s]) IN
           /\ row \in Fresh /\ row \in Row /\ Live(row) /\ row.k \in Key
           /\ row.t = now /\ ShardOf(row.k) = s
           /\ pendRows' \in [Shard -> Seq(Fresh)]
           /\ \A u \in Shard : Current(u, pendRows[u])'
           /\ \A h \in Handle, u \in Shard : Current(u, buffered[h].rows[u])'
  <1>0. TypeOK /\ RowsUnderWay
    BY DEF IInv
  <1>1. /\ pendRows[s] \in Seq(Fresh) /\ Head(pendRows[s]) \in Fresh
        /\ Tail(pendRows[s]) \in Seq(Fresh)
    BY <1>0, HeadTailProperties DEF TypeOK
  <1>2. /\ pendRows[s] \in Seq(Row) /\ Head(pendRows[s]) \in Row
        /\ Live(Head(pendRows[s])) /\ Head(pendRows[s]).k \in Key
    BY <1>1, RowFacts, SeqMonotonic DEF Fresh
  <1>3. /\ Current(s, Tail(pendRows[s])) /\ Head(pendRows[s]).t = now
        /\ ShardOf(Head(pendRows[s]).k) = s
    BY <1>0, <1>2, CurrentTail DEF RowsUnderWay
  <1>4. /\ pendRows' \in [Shard -> Seq(Fresh)]
        /\ \A u \in Shard : pendRows'[u] = IF u = s THEN Tail(pendRows[s]) ELSE pendRows[u]
    BY <1>0, <1>1 DEF TypeOK
  <1>5. \A u \in Shard : Current(u, pendRows'[u])
    BY <1>0, <1>3, <1>4 DEF RowsUnderWay
  <1>6. \A u \in Shard : Current(u, pendRows[u])'
    BY <1>5 DEF Current
  <1>7. \A h \in Handle, u \in Shard : Current(u, buffered[h].rows[u])'
    BY <1>0 DEF RowsUnderWay, Current
  <1> QED
    BY <1>1, <1>2, <1>3, <1>4, <1>6, <1>7

(* A row that does not lose is appended; the row it overwrites is killed.   *)
LEMMA SerialInsertRow ==
    ASSUME IInv, NEW s \in Shard, SerialInsert(s)
    PROVE  LET row == Head(pendRows[s])  id == hash[row.k]  new == Len(data) + 1 IN
           \/ /\ id # 0 /\ ~Wins(data[id], row)
              /\ UNCHANGED <<data, stale, hash, offsets, changed>>
           \/ /\ id # 0 => Wins(data[id], row)
              /\ stale' = (IF id = 0 THEN stale ELSE stale + 1)
              /\ hash' = [hash EXCEPT ![row.k] = new]
              /\ offsets' = OffsetsWith(row.t, new) /\ changed' = TRUE
              /\ id # 0 => id \in DOMAIN data /\ data[id].k = row.k /\ Live(data[id])
              /\ data' \in Seq(Row) /\ Len(data') = new /\ DOMAIN data' = 1 .. new
              /\ data'[new].k = row.k /\ data'[new].t = now /\ Live(data'[new])
              /\ data'[new].v = (IF id = 0 THEN row.v ELSE Combine(data[id].v, row.v))
              /\ \A j \in DOMAIN data :
                    data'[j] = IF id # 0 /\ j = id THEN Kill(data[id]) ELSE data[j]
  <1> DEFINE row == Head(pendRows[s])
             id == hash[row.k]
             new == Len(data) + 1
             d == IF id = 0 THEN data ELSE [data EXCEPT ![id] = Kill(@)]
             r == IF id = 0 THEN row ELSE Merged(data[id], row)
  <1>0. TypeOK /\ Hashed /\ phase = "insert" /\ ~par /\ pendRows[s] # <<>>
    BY DEF IInv, SerialInsert
  <1>1. row \in Fresh /\ row \in Row /\ Live(row) /\ row.k \in Key /\ row.t = now
    BY <1>0, TakeFirst DEF SerialInsert, envVars
  <1>2. Len(data) \in Nat /\ DOMAIN data = 1 .. Len(data)
    BY <1>0, LenProperties DEF TypeOK
  <1>3. CASE id # 0 /\ ~Wins(data[id], row)
    BY <1>3 DEF SerialInsert
  <1>4. CASE ~(id # 0 /\ ~Wins(data[id], row))
    <2>1. /\ data' = Append(d, r) /\ stale' = (IF id = 0 THEN stale ELSE stale + 1)
          /\ hash' = [hash EXCEPT ![row.k] = new]
          /\ offsets' = OffsetsWith(row.t, new) /\ changed' = TRUE
      BY <1>4 DEF SerialInsert
    <2>2. id # 0 => id \in DOMAIN data /\ data[id].k = row.k /\ Live(data[id])
      BY <1>0, <1>1, <1>2, StaleAssumption DEF TypeOK, Hashed, Live
    <2>3. /\ r \in Row /\ r.k = row.k /\ r.t = now /\ Live(r)
          /\ r.v = IF id = 0 THEN row.v ELSE Combine(data[id].v, row.v)
      <3>1. CASE id = 0
        BY <1>1, <3>1
      <3>2. CASE id # 0
        <4>1. data[id] \in Row
          BY <1>0, <2>2, <3>2, RowIn
        <4> QED
          BY <1>1, <3>2, <4>1, MergedFacts
      <3> QED
        BY <3>1, <3>2
    <2>4. /\ d \in Seq(Row) /\ Len(d) = Len(data) /\ DOMAIN d = DOMAIN data
          /\ \A j \in DOMAIN data : d[j] = IF id # 0 /\ j = id THEN Kill(data[id]) ELSE data[j]
      <3>1. CASE id = 0
        BY <1>0, <3>1 DEF TypeOK
      <3>2. CASE id # 0
        BY <1>0, <2>2, <3>2, KillOne DEF TypeOK
      <3> QED
        BY <3>1, <3>2
    <2> HIDE DEF d, r
    <2>5. /\ data' \in Seq(Row) /\ Len(data') = new /\ DOMAIN data' = 1 .. new
          /\ data'[new] = r
          /\ \A j \in DOMAIN data : data'[j] = IF id # 0 /\ j = id THEN Kill(data[id]) ELSE data[j]
      BY <1>2, <2>1, <2>3, <2>4
    <2> QED
      BY <1>4, <2>1, <2>2, <2>3, <2>5
  <1> QED
    BY <1>3, <1>4

LEMMA SerialInsertKeeps ==
    ASSUME IInv, NEW s \in Shard, SerialInsert(s) PROVE IInv'
  <1> DEFINE row == Head(pendRows[s])
             id == hash[row.k]
             new == Len(data) + 1
  <1>0. TypeOK /\ RowsUnderWay /\ StagedOnce /\ Hashed /\ InOrder /\ Offsets
    BY DEF IInv
  <1>1. /\ pendRows[s] # <<>> /\ pendRows' = [pendRows EXCEPT ![s] = Tail(@)]
        /\ phase = "insert" /\ ~par
        /\ UNCHANGED <<gen, buffered, pendRems, phase, par, staged, start, now, left>>
    BY DEF SerialInsert, envVars
  <1>2. /\ row \in Fresh /\ row \in Row /\ Live(row) /\ row.k \in Key
        /\ row.t = now /\ ShardOf(row.k) = s
        /\ pendRows' \in [Shard -> Seq(Fresh)]
    BY <1>1, TakeFirst
  <1>3. RowsUnderWay' /\ StagedOnce'
    BY <1>0, <1>1, TakeFirst, SameCurrent DEF RowsUnderWay, StagedOnce
  <1>4. Len(data) \in Nat /\ DOMAIN data = 1 .. Len(data) /\ Covered = Len(data)
    BY <1>0, <1>1, LenProperties DEF TypeOK, Covered
  <1>5. CASE UNCHANGED <<data, stale, hash, offsets, changed>>
    <2>1. TypeOK'
      BY <1>0, <1>1, <1>2, <1>5 DEF TypeOK
    <2> QED
      BY <1>1, <1>3, <1>5, <2>1, SameTable DEF IInv
  <1>6. CASE ~UNCHANGED <<data, stale, hash, offsets, changed>>
    <2>1. /\ stale' = (IF id = 0 THEN stale ELSE stale + 1)
          /\ hash' = [hash EXCEPT ![row.k] = new]
          /\ offsets' = OffsetsWith(row.t, new) /\ changed' = TRUE
      BY <1>6, SerialInsertRow
    <2>2. id # 0 => id \in DOMAIN data /\ data[id].k = row.k /\ Live(data[id])
      BY <1>6, SerialInsertRow
    <2>3. data'[new].k = row.k /\ data'[new].t = now /\ Live(data'[new])
      BY <1>6, SerialInsertRow
    <2>5. /\ data' \in Seq(Row) /\ Len(data') = new /\ DOMAIN data' = 1 .. new
          /\ \A j \in DOMAIN data : data'[j] = IF id # 0 /\ j = id THEN Kill(data[id]) ELSE data[j]
      BY <1>6, SerialInsertRow
    <2>6. \A j \in DOMAIN data : data'[j].t = data[j].t
      BY <1>0, <2>5, RowIn, RowFacts
    <2>7. \A j \in Key : hash'[j] = IF j = row.k THEN new ELSE hash[j]
      BY <1>0, <2>1 DEF TypeOK
    <2>8. TypeOK'
      <3>1. hash' \in [Key -> 0 .. Len(data')]
        <4>1. Len(data') = Len(data) + 1 /\ new \in 0 .. Len(data')
          BY <1>4, <2>5
        <4>2. \A j \in Key : hash'[j] \in 0 .. Len(data')
          <5>1. \A j \in Key : hash[j] \in 0 .. Len(data)
            BY <1>0 DEF TypeOK
          <5>2. \A n \in 0 .. Len(data) : n \in 0 .. Len(data')
            BY <1>4, <4>1
          <5> HIDE DEF new
          <5> QED
            BY <2>7, <4>1, <5>1, <5>2
        <4>3. DOMAIN hash' = Key /\ hash' = [j \in Key |-> hash'[j]]
          BY <1>0, <2>1 DEF TypeOK
        <4> QED
          BY <4>2, <4>3
      <3>2. offsets' \in [Time -> 0 .. Len(data') + 1]
        <4>1. Len(data') = Len(data) + 1 /\ new \in 0 .. Len(data') + 1
          BY <1>4, <2>5
        <4>2. offsets \in [Time -> 0 .. Len(data') + 1]
          BY <1>0, <1>4, <4>1 DEF TypeOK
        <4> HIDE DEF new
        <4> QED
          BY <2>1, <4>1, <4>2 DEF OffsetsWith
      <3>3. stale' \in Nat
        BY <1>0, <2>1 DEF TypeOK
      <3> QED
        BY <1>0, <1>1, <1>2, <2>1, <2>5, <3>1, <3>2, <3>3 DEF TypeOK
    <2>9. Hashed'
      <3>1. ASSUME NEW j \in Key, hash'[j] # 0 PROVE data'[hash'[j]].k = j
        <4>1. CASE j = row.k
          BY <2>3, <2>5, <2>7, <4>1
        <4>2. CASE j # row.k
          <5>1. hash[j] \in DOMAIN data /\ data[hash[j]].k = j /\ hash'[j] = hash[j]
            BY <1>0, <1>4, <2>7, <3>1, <4>2 DEF TypeOK, Hashed
          <5>2. ~(id # 0 /\ hash[j] = id)
            BY <2>2, <4>2, <5>1
          <5> QED
            BY <2>5, <5>1, <5>2
        <4> QED
          BY <4>1, <4>2
      <3>2. ASSUME NEW j \in DOMAIN data', Live(data'[j]) PROVE hash'[data'[j].k] = j
        <4>1. CASE j = new
          BY <1>2, <2>3, <2>5, <2>7, <4>1
        <4>2. CASE j # new
          <5>1. j \in DOMAIN data
            BY <1>4, <2>5, <4>2
          <5>2. ~(id # 0 /\ j = id) /\ data'[j] = data[j]
            BY <1>0, <2>5, <3>2, <5>1, RowIn, RowFacts
          <5>3. hash[data[j].k] = j /\ data[j].k \in Key
            BY <1>0, <3>2, <5>1, <5>2, RowIn DEF Hashed
          <5>4. data[j].k # row.k
            BY <1>4, <5>1, <5>2, <5>3
          <5> QED
            BY <2>7, <5>2, <5>3, <5>4
        <4> QED
          BY <4>1, <4>2
      <3>3. stale' = Cardinality(DeadRows')
        <4>1. DeadRows' = IF id = 0 THEN DeadRows ELSE DeadRows \cup {id}
          <5>1. \A j \in DOMAIN data : ~Live(data'[j]) <=> ~Live(data[j]) \/ (id # 0 /\ j = id)
            BY <1>0, <2>5, RowIn, RowFacts
          <5> QED
            BY <1>4, <2>2, <2>3, <2>5, <5>1 DEF DeadRows
        <4>2. CASE id = 0
          BY <1>0, <2>1, <4>1, <4>2 DEF Hashed
        <4>3. CASE id # 0
          BY <1>0, <2>1, <2>2, <4>1, <4>3, OneMoreDead
        <4> QED
          BY <4>2, <4>3
      <3> QED
        BY <3>1, <3>2, <3>3 DEF Hashed
    <2>10. InOrder'
      <3>1. \A j \in DOMAIN data' : data'[j].t <= now /\ data'[j].t \in Nat
        <4>1. now \in Nat /\ now <= now
          BY <1>0, Constants DEF TypeOK
        <4>2. \A j \in DOMAIN data : data'[j].t <= now /\ data'[j].t \in Nat
          BY <1>0, <2>6, RowIn DEF InOrder
        <4> QED
          BY <1>4, <2>3, <2>5, <4>1, <4>2
      <3>2. ASSUME NEW i \in DOMAIN data', NEW j \in DOMAIN data', i <= j
            PROVE  data'[i].t <= data'[j].t
        <4>1. CASE j = new
          BY <2>3, <2>5, <3>1, <4>1
        <4>2. CASE j # new
          BY <1>0, <1>4, <2>5, <2>6, <3>2, <4>2 DEF InOrder
        <4> QED
          BY <4>1, <4>2
      <3> QED
        BY <1>1, <3>1, <3>2 DEF InOrder
    <2>11. Offsets'
      <3>1. Covered' = Len(data')
        BY <1>1 DEF Covered
      <3>2. offsets' = OffsetsWith(now, Covered + 1)
        BY <1>2, <1>4, <2>1
      <3>3. \A i \in DOMAIN data' : i > Covered => data'[i].t = now
        BY <1>4, <2>3, <2>5
      <3> QED
        BY <1>0, <1>1, <1>4, <2>5, <2>6, <3>1, <3>2, <3>3, ExtendOffsets
    <2> QED
      BY <1>3, <2>8, <2>9, <2>10, <2>11 DEF IInv
  <1> QED
    BY <1>5, <1>6

-----------------------------------------------------------------------------
(* A parallel insert.                                                       *)

LEMMA StagedRowFacts ==
    ASSUME IInv, NEW s \in Shard, NEW k \in Key
    PROVE  /\ StagedRow(s, k) = 0 => \A j \in DOMAIN staged[s] : staged[s][j].k # k
           /\ StagedRow(s, k) # 0 =>
                 /\ StagedRow(s, k) \in DOMAIN staged[s]
                 /\ staged[s][StagedRow(s, k)].k = k
           /\ \A j \in DOMAIN staged[s] : staged[s][j].k = k => j = StagedRow(s, k)
  <1> DEFINE I == {i \in DOMAIN staged[s] : staged[s][i].k = k}
  <1>0. TypeOK /\ StagedOnce
    BY DEF IInv
  <1>1. staged[s] \in Seq(Row) /\ DOMAIN staged[s] = 1 .. Len(staged[s]) /\ Len(staged[s]) \in Nat
    BY <1>0, LenProperties DEF TypeOK
  <1>2. I \in SUBSET Nat /\ 0 \notin I
    BY <1>1
  <1>3. \A i, j \in I : i = j
    BY <1>0, StaleAssumption DEF StagedOnce, Live
  <1>4. StagedRow(s, k) = IF I = {} THEN 0 ELSE SetMin(I)
    BY DEF StagedRow
  <1>5. I # {} => SetMin(I) \in I
    <2> HIDE DEF I
    <2> QED
      BY <1>2, LeastElement
  <1>6. CASE I = {}
    BY <1>4, <1>6
  <1>7. CASE I # {}
    BY <1>2, <1>3, <1>4, <1>5, <1>7
  <1> QED
    BY <1>6, <1>7

(* A row is staged for its key unless it loses to the row staged before.    *)
LEMMA StageRowRow ==
    ASSUME IInv, NEW s \in Shard, StageRow(s)
    PROVE  LET row == Head(pendRows[s])  q == staged[s]  i == StagedRow(s, row.k)
               d == IF i = 0 THEN q ELSE [q EXCEPT ![i] = Kill(@)]
               r == IF i = 0 THEN row ELSE Merged(q[i], row) IN
           /\ row \in Row /\ Live(row) /\ row.k \in Key /\ row.t = now /\ ShardOf(row.k) = s
           /\ q \in Seq(Row) /\ DOMAIN q = 1 .. Len(q) /\ Len(q) \in Nat /\ Current(s, q)
           /\ \A j \in DOMAIN q : q[j] \in Row
           /\ i = 0 => \A j \in DOMAIN q : q[j].k # row.k
           /\ i # 0 => i \in DOMAIN q /\ q[i].k = row.k
           /\ \A j \in DOMAIN q : q[j].k = row.k => j = i
           /\ \/ i # 0 /\ ~Wins(q[i], row) /\ staged' = [staged EXCEPT ![s] = q]
              \/ (i # 0 => Wins(q[i], row)) /\ staged' = [staged EXCEPT ![s] = Append(d, r)]
           /\ r \in Row /\ r.k = row.k /\ r.t = now /\ Live(r)
           /\ r.v = IF i = 0 THEN row.v ELSE Combine(q[i].v, row.v)
           /\ d \in Seq(Row) /\ Len(d) = Len(q) /\ DOMAIN d = DOMAIN q
           /\ \A j \in DOMAIN q : d[j] = IF i # 0 /\ j = i THEN Kill(q[i]) ELSE q[j]
           /\ Append(d, r) \in Seq(Row) /\ DOMAIN Append(d, r) = 1 .. Len(q) + 1
           /\ Append(d, r)[Len(q) + 1] = r
           /\ \A j \in DOMAIN q : Append(d, r)[j] = d[j]
  <1> DEFINE row == Head(pendRows[s])
             q == staged[s]
             i == StagedRow(s, row.k)
             d == IF i = 0 THEN q ELSE [q EXCEPT ![i] = Kill(@)]
             r == IF i = 0 THEN row ELSE Merged(q[i], row)
  <1>0. TypeOK /\ RowsUnderWay /\ StagedOnce /\ Hashed /\ InOrder /\ Offsets
    BY DEF IInv
  <1>1. /\ pendRows[s] # <<>> /\ pendRows' = [pendRows EXCEPT ![s] = Tail(@)]
        /\ phase = "insert" /\ par
        /\ UNCHANGED <<data, stale, hash, offsets, gen, buffered, pendRems, phase, par,
                       start, changed, now, left>>
    BY DEF StageRow, envVars
  <1>2. /\ row \in Row /\ Live(row) /\ row.k \in Key /\ row.t = now /\ ShardOf(row.k) = s
        /\ pendRows' \in [Shard -> Seq(Fresh)]
    BY <1>1, TakeFirst
  <1>3. /\ q \in Seq(Row) /\ DOMAIN q = 1 .. Len(q) /\ Len(q) \in Nat /\ Current(s, q)
        /\ \A j \in DOMAIN q : q[j] \in Row
    BY <1>0, LenProperties, ElementOfSeq DEF TypeOK, RowsUnderWay
  <1>4. /\ i = 0 => \A j \in DOMAIN q : q[j].k # row.k
        /\ i # 0 => i \in DOMAIN q /\ q[i].k = row.k
        /\ \A j \in DOMAIN q : q[j].k = row.k => j = i
    BY <1>2, StagedRowFacts
  <1>5. \/ i # 0 /\ ~Wins(q[i], row) /\ staged' = [staged EXCEPT ![s] = q]
        \/ (i # 0 => Wins(q[i], row)) /\ staged' = [staged EXCEPT ![s] = Append(d, r)]
    <2>1. staged' = [staged EXCEPT ![s] =
            IF i = 0 THEN Append(q, row)
            ELSE IF Wins(q[i], row)
            THEN Append([q EXCEPT ![i] = Kill(@)], Merged(q[i], row))
            ELSE q]
      BY DEF StageRow
    <2>2. CASE i = 0
      BY <2>1, <2>2
    <2>3. CASE i # 0 /\ Wins(q[i], row)
      BY <2>1, <2>3
    <2>4. CASE i # 0 /\ ~Wins(q[i], row)
      BY <2>1, <2>4
    <2> QED
      BY <2>2, <2>3, <2>4
  <1>6. /\ r \in Row /\ r.k = row.k /\ r.t = now /\ Live(r)
        /\ r.v = IF i = 0 THEN row.v ELSE Combine(q[i].v, row.v)
    <2>1. CASE i = 0
      BY <1>2, <2>1
    <2>2. CASE i # 0
      BY <1>2, <1>3, <1>4, <2>2, MergedFacts
    <2> QED
      BY <2>1, <2>2
  <1>7. /\ d \in Seq(Row) /\ Len(d) = Len(q) /\ DOMAIN d = DOMAIN q
        /\ \A j \in DOMAIN q : d[j] = IF i # 0 /\ j = i THEN Kill(q[i]) ELSE q[j]
    <2>1. CASE i = 0
      BY <1>3, <2>1
    <2>2. CASE i # 0
      BY <1>3, <1>4, <2>2, KillOne
    <2> QED
      BY <2>1, <2>2
  <1>8. /\ Append(d, r) \in Seq(Row) /\ DOMAIN Append(d, r) = 1 .. Len(q) + 1
        /\ Append(d, r)[Len(q) + 1] = r
        /\ \A j \in DOMAIN q : Append(d, r)[j] = d[j]
    <2> HIDE DEF d, r
    <2> QED
      BY <1>3, <1>6, <1>7
  <1> QED
    BY <1>2, <1>3, <1>4, <1>5, <1>6, <1>7, <1>8

LEMMA StageRowKeeps ==
    ASSUME IInv, NEW s \in Shard, StageRow(s) PROVE IInv'
  <1> DEFINE row == Head(pendRows[s])
             q == staged[s]
             i == StagedRow(s, row.k)
             d == IF i = 0 THEN q ELSE [q EXCEPT ![i] = Kill(@)]
             r == IF i = 0 THEN row ELSE Merged(q[i], row)
  <1>0. TypeOK /\ RowsUnderWay /\ StagedOnce /\ Hashed /\ InOrder /\ Offsets
    BY DEF IInv
  <1>1. /\ pendRows[s] # <<>> /\ pendRows' = [pendRows EXCEPT ![s] = Tail(@)]
        /\ phase = "insert" /\ par
        /\ UNCHANGED <<data, stale, hash, offsets, gen, buffered, pendRems, phase, par,
                       start, changed, now, left>>
    BY DEF StageRow, envVars
  <1>2. /\ row \in Row /\ Live(row) /\ row.k \in Key /\ row.t = now /\ ShardOf(row.k) = s
        /\ pendRows' \in [Shard -> Seq(Fresh)]
    BY <1>1, TakeFirst
  <1>3. /\ q \in Seq(Row) /\ DOMAIN q = 1 .. Len(q) /\ Len(q) \in Nat /\ Current(s, q)
        /\ \A j \in DOMAIN q : q[j] \in Row
    BY StageRowRow
  <1>4. /\ i = 0 => \A j \in DOMAIN q : q[j].k # row.k
        /\ i # 0 => i \in DOMAIN q /\ q[i].k = row.k
        /\ \A j \in DOMAIN q : q[j].k = row.k => j = i
    BY StageRowRow
  <1>5. staged' = [staged EXCEPT ![s] = q] \/ staged' = [staged EXCEPT ![s] = Append(d, r)]
    BY StageRowRow
  <1>6. r \in Row /\ r.k = row.k /\ r.t = now /\ Live(r)
    BY StageRowRow
  <1>7. /\ d \in Seq(Row) /\ Len(d) = Len(q) /\ DOMAIN d = DOMAIN q
        /\ \A j \in DOMAIN q : d[j] = IF i # 0 /\ j = i THEN Kill(q[i]) ELSE q[j]
    BY StageRowRow
  <1>8. /\ Append(d, r) \in Seq(Row) /\ DOMAIN Append(d, r) = 1 .. Len(q) + 1
        /\ Append(d, r)[Len(q) + 1] = r
        /\ \A j \in DOMAIN q : Append(d, r)[j] = d[j]
    BY StageRowRow
  <1>9. Current(s, Append(d, r))
    <2>1. Current(s, d)
      BY <1>3, <1>4, <1>7, RowFacts DEF Current
    <2> QED
      BY <1>2, <1>6, <1>7, <2>1, CurrentAppend
  <1>10. ASSUME NEW j \in DOMAIN Append(d, r), NEW l \in DOMAIN Append(d, r),
                Live(Append(d, r)[j]), Append(d, r)[j].k = Append(d, r)[l].k
         PROVE  j = l
    <2>1. \A m \in DOMAIN q : Live(d[m]) => d[m] = q[m] /\ d[m].k # row.k
      BY <1>3, <1>4, <1>7, RowFacts
    <2>2. \A m \in DOMAIN q : d[m].k \in Key => d[m] = q[m] /\ d[m].k # row.k
      BY <1>3, <1>7, <2>1, ElementOfSeq, RowFacts
    <2>3. Append(d, r)[j].k \in Key
      <3> HIDE DEF d, r
      <3>1. Append(d, r)[j] \in Row
        BY <1>8, ElementOfSeq, LenProperties
      <3> QED
        BY <1>10, <3>1, RowFacts
    <2> HIDE DEF d, r, row, i
    <2>4. (j \in DOMAIN q /\ Append(d, r)[j] = d[j]) \/ (j = Len(q) + 1 /\ Append(d, r)[j] = r)
      BY <1>3, <1>8
    <2>5. (l \in DOMAIN q /\ Append(d, r)[l] = d[l]) \/ (l = Len(q) + 1 /\ Append(d, r)[l] = r)
      BY <1>3, <1>8
    <2>6. CASE j \in DOMAIN q /\ l \in DOMAIN q /\ Append(d, r)[j] = d[j] /\ Append(d, r)[l] = d[l]
      BY <1>0, <1>10, <2>1, <2>2, <2>3, <2>6 DEF StagedOnce
    <2> QED
      BY <1>6, <1>10, <2>2, <2>3, <2>4, <2>5, <2>6
  <1> HIDE DEF d, r, i
  <1>11. /\ staged' \in [Shard -> Seq(Row)]
         /\ \A u \in Shard : staged'[u] = staged[u] \/ (u = s /\ staged'[u] = Append(d, r))
    BY <1>0, <1>3, <1>5, <1>8 DEF TypeOK
  <1>12. TypeOK'
    BY <1>0, <1>1, <1>2, <1>11 DEF TypeOK
  <1>13. RowsUnderWay'
    <2>1. \A u \in Shard : Current(u, staged'[u])
      BY <1>0, <1>9, <1>11 DEF RowsUnderWay
    <2>2. \A u \in Shard : Current(u, staged[u])'
      BY <1>1, <2>1 DEF Current
    <2> QED
      BY <1>1, <2>2, TakeFirst DEF RowsUnderWay
  <1>14. StagedOnce'
    <2> SUFFICES ASSUME NEW u \in Shard, NEW j \in DOMAIN staged'[u], NEW l \in DOMAIN staged'[u],
                        Live(staged'[u][j]), staged'[u][j].k = staged'[u][l].k
                 PROVE  j = l
      BY <1>1 DEF StagedOnce
    <2> QED
      BY <1>0, <1>10, <1>11 DEF StagedOnce
  <1> QED
    BY <1>1, <1>12, <1>13, <1>14, SameTable DEF IInv

(* The cardinality of a set of numbers moved up by a base.                  *)
LEMMA ShiftCard ==
    ASSUME NEW base \in Nat, NEW T \in SUBSET Nat, IsFiniteSet(T)
    PROVE  /\ IsFiniteSet({base + i : i \in T})
           /\ Cardinality({base + i : i \in T}) = Cardinality(T)
  <1> DEFINE U == {base + i : i \in T}
             f == [i \in T |-> base + i]
  <1>1. f \in Bijection(T, U)
    <2>1. f \in [T -> U]
      OBVIOUS
    <2>2. \A a, b \in T : f[a] = f[b] => a = b
      OBVIOUS
    <2>3. \A u \in U : \E i \in T : f[i] = u
      OBVIOUS
    <2> QED
      BY <2>1, <2>2, <2>3, Fun_IsBij
  <1>2. ExistsBijection(T, U)
    BY <1>1 DEF ExistsBijection
  <1> QED
    BY <1>2, FS_Bijection

LEMMA DisjointCard ==
    ASSUME NEW S, NEW T, IsFiniteSet(S), IsFiniteSet(T), S \cap T = {}
    PROVE  /\ IsFiniteSet(S \cup T)
           /\ Cardinality(S \cup T) = Cardinality(S) + Cardinality(T)
  <1>1. /\ IsFiniteSet(S \cup T)
        /\ Cardinality(S \cup T) = Cardinality(S) + Cardinality(T) - Cardinality(S \cap T)
    BY FS_Union
  <1>2. Cardinality(S \cap T) = 0 /\ Cardinality(S) \in Nat /\ Cardinality(T) \in Nat
    BY FS_EmptySet, FS_CardinalityType
  <1> QED
    BY <1>1, <1>2

(* Where the rows of a flush go, and those they replace.                    *)
LEMMA FlushRow ==
    ASSUME IInv, NEW s \in Shard, Flush(s)
    PROVE  LET block == staged[s]
               base == Len(data)
               Old(i) == hash[block[i].k]
               Loses(i) == Old(i) # 0 /\ ~Wins(data[Old(i)], block[i])
               entered == {i \in StagedLive(s) : ~Loses(i)}
               replaced == {Old(i) : i \in entered} \ {0}
               total == base + Len(block)
           IN
           /\ DOMAIN data' = 1 .. total
           /\ \A i \in entered :
                 /\ i \in DOMAIN block /\ Live(block[i]) /\ block[i].k \in Key
                 /\ StagedRow(s, block[i].k) = i
                 /\ Old(i) # 0 => Old(i) \in DOMAIN data /\ data[Old(i)].k = block[i].k
           /\ replaced \subseteq DOMAIN data /\ \A j \in replaced : Live(data[j])
           /\ \A k \in Key : hash'[k] =
                 IF \E i \in entered : block[i].k = k THEN base + StagedRow(s, k) ELSE hash[k]
           /\ \A j \in DOMAIN data : data'[j] = IF j \in replaced THEN Kill(data[j]) ELSE data[j]
           /\ \A i \in DOMAIN block : data'[base + i] = IF i \in entered THEN block[i] ELSE Kill(block[i])
           /\ \A j \in 1 .. total : j \in DOMAIN data \/ \E i \in DOMAIN block : j = base + i
  <1> DEFINE block == staged[s]
             base == Len(data)
             Old(i) == hash[block[i].k]
             Loses(i) == Old(i) # 0 /\ ~Wins(data[Old(i)], block[i])
             entered == {i \in StagedLive(s) : ~Loses(i)}
             replaced == {Old(i) : i \in entered} \ {0}
             total == base + Len(block)
  <1>0. TypeOK /\ RowsUnderWay /\ Hashed
    BY DEF IInv
  <1>2. /\ data' = [j \in 1 .. total |->
              IF j <= base THEN IF j \in replaced THEN Kill(data[j]) ELSE data[j]
              ELSE IF j - base \in entered THEN block[j - base] ELSE Kill(block[j - base])]
        /\ stale' = stale + Cardinality(DOMAIN block \ entered) + Cardinality(replaced)
        /\ hash' = [k \in Key |->
              IF \E i \in entered : block[i].k = k THEN base + StagedRow(s, k) ELSE hash[k]]
        /\ changed' = (changed \/ StagedLive(s) # {})
    BY DEF Flush, FlushRows
  <1>3. /\ base \in Nat /\ DOMAIN data = 1 .. base
        /\ Len(block) \in Nat /\ DOMAIN block = 1 .. Len(block) /\ total \in Nat
        /\ \A j \in DOMAIN data : data[j] \in Row
        /\ \A i \in DOMAIN block : block[i] \in Row /\ block[i].t = now
    BY <1>0, LenProperties, ElementOfSeq DEF TypeOK, RowsUnderWay, Current
  <1>4. ASSUME NEW i \in entered
        PROVE  /\ i \in DOMAIN block /\ Live(block[i]) /\ block[i].k \in Key
               /\ StagedRow(s, block[i].k) = i
               /\ Old(i) # 0 => Old(i) \in DOMAIN data /\ data[Old(i)].k = block[i].k
    <2>1. i \in DOMAIN block /\ Live(block[i])
      BY DEF StagedLive
    <2>2. block[i].k \in Key
      BY <1>3, <2>1, RowFacts
    <2>3. StagedRow(s, block[i].k) = i
      BY <2>1, <2>2, StagedRowFacts
    <2>4. Old(i) \in 0 .. Len(data) /\ (Old(i) # 0 => data[Old(i)].k = block[i].k)
      BY <1>0, <2>2 DEF TypeOK, Hashed
    <2> QED
      BY <1>3, <2>1, <2>2, <2>3, <2>4
  <1>5. replaced \subseteq DOMAIN data /\ \A j \in replaced : Live(data[j])
    BY <1>3, <1>4, RowFacts
  <1>6. \A k \in Key : hash'[k] =
           IF \E i \in entered : block[i].k = k THEN base + StagedRow(s, k) ELSE hash[k]
    BY <1>2
  <1> HIDE DEF entered, replaced
  <1>7. /\ DOMAIN data' = 1 .. total
        /\ \A j \in DOMAIN data : data'[j] = IF j \in replaced THEN Kill(data[j]) ELSE data[j]
        /\ \A i \in DOMAIN block : data'[base + i] = IF i \in entered THEN block[i] ELSE Kill(block[i])
        /\ \A j \in 1 .. total : j \in DOMAIN data \/ \E i \in DOMAIN block : j = base + i
    <2>1. ASSUME NEW j \in 1 .. total PROVE j \in DOMAIN data \/ \E i \in DOMAIN block : j = base + i
      <3>1. CASE j <= base
        BY <1>3, <3>1
      <3>2. CASE ~(j <= base)
        <4>1. j - base \in DOMAIN block /\ j = base + (j - base)
          BY <1>3, <3>2
        <4> QED
          BY <4>1
      <3> QED
        BY <3>1, <3>2
    <2>2. ASSUME NEW i \in DOMAIN block
          PROVE  base + i \in 1 .. total /\ ~(base + i <= base) /\ (base + i) - base = i
      BY <1>3
    <2>3. \A i \in DOMAIN block : data'[base + i] = IF i \in entered THEN block[i] ELSE Kill(block[i])
      <3> HIDE DEF total, block, base
      <3> QED
        BY <1>2, <2>2
    <2>4. \A j \in DOMAIN data : j \in 1 .. total /\ j <= base
      BY <1>3
    <2>5. \A j \in DOMAIN data : data'[j] = IF j \in replaced THEN Kill(data[j]) ELSE data[j]
      BY <1>2, <2>4
    <2> QED
      BY <1>2, <2>1, <2>3, <2>5
  <1> QED
    BY <1>4, <1>5, <1>6, <1>7 DEF entered, replaced

LEMMA FlushKeeps ==
    ASSUME IInv, NEW s \in Shard, Flush(s) PROVE IInv'
  <1> DEFINE block == staged[s]
             base == Len(data)
             Old(i) == hash[block[i].k]
             Loses(i) == Old(i) # 0 /\ ~Wins(data[Old(i)], block[i])
             entered == {i \in StagedLive(s) : ~Loses(i)}
             replaced == {Old(i) : i \in entered} \ {0}
             lost == {base + i : i \in DOMAIN block \ entered}
             total == base + Len(block)
  <1>0. TypeOK /\ RowsUnderWay /\ StagedOnce /\ Hashed /\ InOrder /\ Offsets
    BY DEF IInv
  <1>1. /\ phase = "insert" /\ par
        /\ UNCHANGED <<offsets, gen, buffered, pendRows, pendRems, phase, par, start, now, left>>
        /\ staged' = [staged EXCEPT ![s] = <<>>]
    BY DEF Flush, FlushRows, queueVars, envVars
  <1>2. /\ data' = [j \in 1 .. total |->
              IF j <= base THEN IF j \in replaced THEN Kill(data[j]) ELSE data[j]
              ELSE IF j - base \in entered THEN block[j - base] ELSE Kill(block[j - base])]
        /\ stale' = stale + Cardinality(DOMAIN block \ entered) + Cardinality(replaced)
        /\ hash' = [k \in Key |->
              IF \E i \in entered : block[i].k = k THEN base + StagedRow(s, k) ELSE hash[k]]
        /\ changed' = (changed \/ StagedLive(s) # {})
    BY DEF Flush, FlushRows
  <1>3. /\ base \in Nat /\ DOMAIN data = 1 .. base
        /\ Len(block) \in Nat /\ DOMAIN block = 1 .. Len(block) /\ total \in Nat
        /\ \A j \in DOMAIN data : data[j] \in Row
        /\ \A i \in DOMAIN block : block[i] \in Row /\ block[i].t = now
    BY <1>0, LenProperties, ElementOfSeq DEF TypeOK, RowsUnderWay, Current
  <1>4. \A i \in entered :
           /\ i \in DOMAIN block /\ Live(block[i]) /\ block[i].k \in Key
           /\ StagedRow(s, block[i].k) = i
           /\ Old(i) # 0 => Old(i) \in DOMAIN data /\ data[Old(i)].k = block[i].k
    BY FlushRow
  <1>5. replaced \subseteq DOMAIN data /\ \A j \in replaced : Live(data[j])
    BY FlushRow
  <1>6. \A k \in Key : hash'[k] =
           IF \E i \in entered : block[i].k = k THEN base + StagedRow(s, k) ELSE hash[k]
    BY <1>2
  <1>7. /\ DOMAIN data' = 1 .. total
        /\ \A j \in DOMAIN data : data'[j] = IF j \in replaced THEN Kill(data[j]) ELSE data[j]
        /\ \A i \in DOMAIN block : data'[base + i] = IF i \in entered THEN block[i] ELSE Kill(block[i])
        /\ \A j \in 1 .. total : j \in DOMAIN data \/ \E i \in DOMAIN block : j = base + i
    BY FlushRow
  <1> HIDE DEF entered, replaced
  <1>8. data' \in Seq(Row) /\ Len(data') = total
    <2>1. ASSUME NEW j \in 1 .. total PROVE data'[j] \in Row
      <3>1. CASE j \in DOMAIN data
        BY <1>3, <1>7, <3>1, RowFacts
      <3>2. CASE j \notin DOMAIN data
        <4>1. PICK i \in DOMAIN block : j = base + i
          BY <1>7, <3>2
        <4>2. block[i] \in Row /\ Kill(block[i]) \in Row
          BY <1>3, RowFacts
        <4>3. data'[j] = block[i] \/ data'[j] = Kill(block[i])
          BY <1>7, <4>1
        <4> QED
          BY <4>2, <4>3
      <3> QED
        BY <3>1, <3>2
    <2>2. data' = [j \in 1 .. total |-> data'[j]]
      BY <1>2
    <2>3. data' \in [1 .. total -> Row]
      BY <2>1, <2>2
    <2> HIDE DEF total
    <2> QED
      BY <1>3, <1>7, <2>3, SeqDef, LenProperties
  <1>9. /\ \A j \in DOMAIN data : data'[j].t = data[j].t
        /\ \A i \in DOMAIN block : data'[base + i].t = now
    <2>1. \A j \in DOMAIN data : data'[j].t = data[j].t
      BY <1>3, <1>7, RowFacts
    <2>2. ASSUME NEW i \in DOMAIN block PROVE data'[base + i].t = now
      <3>1. block[i] \in Row /\ block[i].t = now /\ Kill(block[i]).t = now
        BY <1>3, RowFacts
      <3>2. data'[base + i] = block[i] \/ data'[base + i] = Kill(block[i])
        BY <1>7
      <3> QED
        BY <3>1, <3>2
    <2> QED
      BY <2>1, <2>2
  <1>10. Hashed'
    <2>1. ASSUME NEW k \in Key, hash'[k] # 0 PROVE data'[hash'[k]].k = k
      <3>1. CASE \E i \in entered : block[i].k = k
        <4>1. PICK i \in entered : block[i].k = k
          BY <3>1
        <4>2. hash'[k] = base + i /\ i \in DOMAIN block
          BY <1>4, <1>6, <4>1
        <4> QED
          BY <1>7, <4>1, <4>2
      <3>2. CASE ~\E i \in entered : block[i].k = k
        <4>1. hash'[k] = hash[k] /\ hash[k] \in DOMAIN data /\ data[hash[k]].k = k
          BY <1>0, <1>3, <1>6, <2>1, <3>2 DEF TypeOK, Hashed
        <4>2. hash[k] \notin replaced
          <5> SUFFICES ASSUME hash[k] \in replaced PROVE FALSE
            OBVIOUS
          <5>1. PICK i \in entered : hash[k] = Old(i) /\ Old(i) # 0
            BY DEF replaced
          <5>2. block[i].k = k
            BY <1>4, <4>1, <5>1
          <5> QED
            BY <3>2, <5>2
        <4> QED
          BY <1>7, <4>1, <4>2
      <3> QED
        BY <3>1, <3>2
    <2>2. ASSUME NEW j \in DOMAIN data', Live(data'[j]) PROVE hash'[data'[j].k] = j
      <3>1. CASE j \in DOMAIN data
        <4>1. j \notin replaced /\ data'[j] = data[j]
          BY <1>3, <1>7, <2>2, <3>1, RowFacts
        <4>2. hash[data[j].k] = j /\ data[j].k \in Key
          BY <1>0, <1>3, <2>2, <3>1, <4>1, RowFacts DEF Hashed
        <4>3. ~\E i \in entered : block[i].k = data[j].k
          <5> SUFFICES ASSUME NEW i \in entered, block[i].k = data[j].k PROVE FALSE
            OBVIOUS
          <5>1. Old(i) = j /\ j # 0
            BY <1>3, <3>1, <4>2
          <5> QED
            BY <4>1, <5>1 DEF replaced
        <4> QED
          BY <1>6, <4>1, <4>2, <4>3
      <3>2. CASE j \notin DOMAIN data
        <4>1. PICK i \in DOMAIN block : j = base + i
          BY <1>7, <3>2
        <4>2. i \in entered /\ data'[j] = block[i]
          BY <1>3, <1>7, <2>2, <4>1, RowFacts
        <4> QED
          BY <1>4, <1>6, <4>1, <4>2
      <3> QED
        BY <3>1, <3>2
    <2>3. stale' = Cardinality(DeadRows')
      <3>1. /\ IsFiniteSet(DeadRows) /\ stale = Cardinality(DeadRows) /\ stale \in Nat
        BY <1>0, DeadIsFinite DEF Hashed, TypeOK
      <3>2. IsFiniteSet(replaced) /\ Cardinality(replaced) \in Nat
        <4>1. IsFiniteSet(DOMAIN data)
          BY <1>3, OneTo
        <4> QED
          BY <1>5, <4>1, FS_Subset, FS_CardinalityType
      <3>3. /\ IsFiniteSet(DOMAIN block \ entered)
            /\ DOMAIN block \ entered \in SUBSET Nat
        <4>1. IsFiniteSet(DOMAIN block)
          BY <1>3, OneTo
        <4> QED
          BY <1>3, <4>1, FS_Subset
      <3>4. /\ IsFiniteSet(lost) /\ Cardinality(lost) = Cardinality(DOMAIN block \ entered)
            /\ Cardinality(lost) \in Nat
        <4> DEFINE T == DOMAIN block \ entered
        <4>1. T \in SUBSET Nat /\ IsFiniteSet(T)
          BY <3>3
        <4>2. lost = {base + i : i \in T}
          OBVIOUS
        <4> HIDE DEF T, lost, base
        <4>3. IsFiniteSet(lost) /\ Cardinality(lost) = Cardinality(T)
          BY <1>3, <4>1, <4>2, ShiftCard
        <4> QED
          BY <4>3, FS_CardinalityType DEF T
      <3>5. DeadRows' = (DeadRows \cup replaced) \cup lost
        <4>1. \A j \in DOMAIN data : ~Live(data'[j]) <=> ~Live(data[j]) \/ j \in replaced
          BY <1>3, <1>7, RowFacts
        <4>2. \A i \in DOMAIN block : ~Live(data'[base + i]) <=> i \notin entered
          BY <1>3, <1>4, <1>7, RowFacts
        <4>3. DeadRows' = {j \in 1 .. total : ~Live(data'[j])}
          BY <1>7 DEF DeadRows
        <4>4. \A j \in DOMAIN data : j \in 1 .. total
          BY <1>3
        <4>5. \A i \in DOMAIN block : base + i \in 1 .. total
          BY <1>3
        <4>6. ASSUME NEW j \in DeadRows' PROVE j \in (DeadRows \cup replaced) \cup lost
          BY <1>7, <4>1, <4>2, <4>3 DEF DeadRows
        <4>7. ASSUME NEW j \in (DeadRows \cup replaced) \cup lost PROVE j \in DeadRows'
          BY <1>5, <4>1, <4>2, <4>3, <4>4, <4>5 DEF DeadRows
        <4> QED
          BY <4>6, <4>7
      <3>6. DeadRows \cap replaced = {} /\ (DeadRows \cup replaced) \cap lost = {}
        <4>1. DeadRows \cap replaced = {}
          BY <1>5 DEF DeadRows
        <4>2. DeadRows \cup replaced \subseteq DOMAIN data
          BY <1>5 DEF DeadRows
        <4>3. \A j \in lost : j \notin DOMAIN data
          BY <1>3
        <4> QED
          BY <4>1, <4>2, <4>3
      <3> HIDE DEF lost
      <3>7. /\ IsFiniteSet(DeadRows \cup replaced)
            /\ Cardinality(DeadRows \cup replaced) = Cardinality(DeadRows) + Cardinality(replaced)
        BY <3>1, <3>2, <3>6, DisjointCard
      <3>8. Cardinality((DeadRows \cup replaced) \cup lost)
              = Cardinality(DeadRows \cup replaced) + Cardinality(lost)
        BY <3>4, <3>6, <3>7, DisjointCard
      <3> QED
        BY <1>2, <3>1, <3>2, <3>4, <3>5, <3>7, <3>8
    <2> QED
      BY <2>1, <2>2, <2>3 DEF Hashed
  <1>11. TypeOK'
    <2>1. stale' \in Nat
      <3>1. IsFiniteSet(DeadRows')
        <4>1. DeadRows' \subseteq 1 .. total
          BY <1>7 DEF DeadRows
        <4>2. IsFiniteSet(1 .. total)
          <5>1. total \in Nat
            BY <1>3
          <5> HIDE DEF total
          <5> QED
            BY <5>1, OneTo
        <4> QED
          BY <4>1, <4>2, FS_Subset
      <3> QED
        BY <1>10, <3>1, FS_CardinalityType DEF Hashed
    <2>2. hash' \in [Key -> 0 .. Len(data')]
      <3>1. ASSUME NEW k \in Key PROVE hash'[k] \in 0 .. total
        <4>1. CASE \E i \in entered : block[i].k = k
          <5>1. PICK i \in entered : block[i].k = k
            BY <4>1
          <5>2. hash'[k] = base + i /\ i \in DOMAIN block
            BY <1>4, <1>6, <5>1
          <5> QED
            BY <1>3, <5>2
        <4>2. CASE ~\E i \in entered : block[i].k = k
          <5>1. hash'[k] = hash[k] /\ hash[k] \in 0 .. base
            BY <1>0, <1>6, <4>2 DEF TypeOK
          <5> QED
            BY <1>3, <5>1
        <4> QED
          BY <4>1, <4>2
      <3>2. hash' = [k \in Key |-> hash'[k]]
        BY <1>2
      <3> QED
        BY <1>8, <3>1, <3>2
    <2>3. offsets' \in [Time -> 0 .. Len(data') + 1]
      <3>1. \A n \in 0 .. base + 1 : n \in 0 .. total + 1
        BY <1>3
      <3> QED
        BY <1>0, <1>1, <1>8, <3>1 DEF TypeOK
    <2>4. staged' \in [Shard -> Seq(Row)]
      BY <1>0, <1>1 DEF TypeOK
    <2>5. changed' \in BOOLEAN
      BY <1>2
    <2> QED
      BY <1>0, <1>1, <1>8, <2>1, <2>2, <2>3, <2>4, <2>5 DEF TypeOK
  <1>12. \A u \in Shard : staged'[u] = IF u = s THEN <<>> ELSE staged[u]
    BY <1>0, <1>1 DEF TypeOK
  <1>13. RowsUnderWay' /\ StagedOnce'
    <2>1. \A u \in Shard : Current(u, staged'[u])
      BY <1>0, <1>12, CurrentEmpty DEF RowsUnderWay
    <2>2. RowsUnderWay'
      BY <1>0, <1>1, <2>1 DEF RowsUnderWay, Current
    <2>3. StagedOnce'
      BY <1>0, <1>1, <1>12 DEF StagedOnce
    <2> QED
      BY <2>2, <2>3
  <1>14. InOrder' /\ Offsets'
    <2>1. now \in Nat /\ \A j \in DOMAIN data : data[j].t \in Nat /\ data[j].t <= now
      BY <1>0, RowIn, Constants DEF InOrder, TypeOK
    <2>2. \A j \in DOMAIN data' : data'[j].t <= now /\ data'[j].t \in Nat
      BY <1>7, <1>9, <2>1
    <2>3. ASSUME NEW i \in DOMAIN data', NEW j \in DOMAIN data', i <= j
          PROVE  data'[i].t <= data'[j].t
      <3>1. CASE j \in DOMAIN data
        <4>1. i \in DOMAIN data
          BY <1>3, <1>7, <2>3, <3>1
        <4> QED
          BY <1>0, <1>9, <2>3, <3>1, <4>1 DEF InOrder
      <3>2. CASE j \notin DOMAIN data
        <4>1. data'[j].t = now
          BY <1>7, <1>9, <3>2
        <4> QED
          BY <2>2, <4>1
      <3> QED
        BY <3>1, <3>2
    <2>4. InOrder'
      BY <1>1, <2>2, <2>3 DEF InOrder
    <2>5. Covered' = Covered /\ Covered \in 0 .. base
      BY <1>0, <1>1 DEF Covered, Offsets
    <2>6. \A i \in DOMAIN data' : i > Covered => data'[i].t = now
      BY <1>0, <1>7, <1>9 DEF Offsets
    <2>7. Covered \in 0 .. Len(data')
      BY <1>3, <1>8, <2>5
    <2>8. \A i \in 1 .. Covered : i \in DOMAIN data
      BY <1>3, <2>5
    <2>9. Offsets'
      BY <1>0, <1>1, <1>9, <2>5, <2>6, <2>7, <2>8 DEF Offsets
    <2> QED
      BY <2>4, <2>9
  <1> QED
    BY <1>10, <1>11, <1>13, <1>14 DEF IInv

(* An order of the live rows lists every one of them.                       *)
LEMMA OrderFacts ==
    ASSUME TypeOK, NEW from \in Orders
    PROVE  /\ Cardinality(LiveRows) \in Nat
           /\ from \in [1 .. Cardinality(LiveRows) -> LiveRows]
           /\ \A i, j \in DOMAIN from : from[i] = from[j] => i = j
           /\ \A i \in LiveRows : \E j \in DOMAIN from : from[j] = i
           /\ Regrouped(from) \/ \A i, j \in DOMAIN from : i < j => from[i] < from[j]
  <1> DEFINE n == Cardinality(LiveRows)
  <1>1. IsFiniteSet(LiveRows) /\ n \in Nat
    <2>1. DOMAIN data = 1 .. Len(data) /\ Len(data) \in Nat
      BY LenProperties DEF TypeOK
    <2>2. IsFiniteSet(DOMAIN data)
      BY <2>1, OneTo
    <2>3. LiveRows \subseteq DOMAIN data
      BY DEF LiveRows
    <2> QED
      BY <2>2, <2>3, FS_Subset, FS_CardinalityType
  <1>2. /\ from \in [1 .. n -> LiveRows] /\ Injective(from)
        /\ Regrouped(from) \/ \A i, j \in DOMAIN from : i < j => from[i] < from[j]
    BY DEF Orders
  <1> HIDE DEF n
  <1>3. DOMAIN from = 1 .. n /\ \A i, j \in 1 .. n : from[i] = from[j] => i = j
    BY <1>2 DEF Injective
  <1>4. from \in Injection(1 .. n, LiveRows)
    BY <1>2, <1>3, Fun_IsInj
  <1>5. Cardinality(1 .. n) = n
    BY <1>1, OneTo
  <1>6. from \in Surjection(1 .. n, LiveRows)
    BY <1>1, <1>4, <1>5, FS_Injection DEF n
  <1>7. \A i \in LiveRows : \E j \in 1 .. n : from[j] = i
    <2> DEFINE N == 1 .. n
    <2>1. from \in Surjection(N, LiveRows)
      BY <1>6
    <2> HIDE DEF N
    <2>2. \A i \in LiveRows : \E j \in N : from[j] = i
      BY <2>1, Fun_SurjectionProperties
    <2> QED
      BY <2>2 DEF N
  <1> QED
    BY <1>1, <1>2, <1>3, <1>7 DEF n

LEMMA RehashKeeps ==
    ASSUME IInv, Rehash PROVE IInv'
  <1> DEFINE n == Cardinality(LiveRows)
  <1>0. TypeOK /\ RowsUnderWay /\ StagedOnce /\ Hashed /\ InOrder /\ Offsets
    BY DEF IInv
  <1>1. PICK from \in Orders : Compact(from)
    BY DEF Rehash
  <1>2. /\ phase = "rehash" /\ phase' = "idle" /\ gen' = gen + 1
        /\ UNCHANGED <<buffered, pendRows, pendRems, par, staged, start, changed, now, left>>
    BY DEF Rehash, queueVars, envVars
  <1>3. /\ n \in Nat /\ from \in [1 .. n -> LiveRows] /\ DOMAIN from = 1 .. n
        /\ \A i, j \in 1 .. n : from[i] = from[j] => i = j
        /\ \A i \in LiveRows : \E j \in 1 .. n : from[j] = i
        /\ Regrouped(from) \/ \A i, j \in DOMAIN from : i < j => from[i] < from[j]
    BY <1>0, <1>1, OrderFacts
  <1>4. /\ data' = [j \in 1 .. n |-> data[from[j]]]
        /\ stale' = 0
        /\ hash' = [k \in Key |->
              IF hash[k] = 0 THEN 0 ELSE CHOOSE j \in 1 .. n : from[j] = hash[k]]
        /\ offsets' = [t \in Time |->
              LET J == {j \in 1 .. n : data[from[j]].t = t} IN
              IF J = {} THEN 0 ELSE SetMin(J)]
    BY <1>1, <1>3 DEF Compact
  <1> HIDE DEF n
  <1>5. ASSUME NEW j \in 1 .. n
        PROVE  /\ from[j] \in DOMAIN data /\ Live(data[from[j]]) /\ data'[j] = data[from[j]]
               /\ data'[j] \in Row /\ data'[j].t \in Time /\ data'[j].k \in Key
    <2>1. from[j] \in DOMAIN data /\ Live(data[from[j]]) /\ data'[j] = data[from[j]]
      BY <1>3, <1>4 DEF LiveRows
    <2> QED
      BY <1>0, <2>1, RowIn
  <1>6. data' \in Seq(Row) /\ Len(data') = n /\ DOMAIN data' = 1 .. n
    <2>1. data' \in [1 .. n -> Row]
      BY <1>4, <1>5
    <2> QED
      BY <1>3, <2>1, SeqDef, LenProperties
  <1>7. ASSUME NEW k \in Key
        PROVE  /\ hash[k] = 0 => hash'[k] = 0
               /\ hash[k] # 0 => hash'[k] \in 1 .. n /\ from[hash'[k]] = hash[k]
    <2>1. CASE hash[k] = 0
      BY <1>4, <2>1
    <2>2. CASE hash[k] # 0
      <3>1. hash[k] \in DOMAIN data /\ data[hash[k]].k = k
        BY <1>0, <2>2, LenProperties DEF TypeOK, Hashed
      <3>2. hash[k] \in LiveRows
        BY <1>0, <3>1, RowIn DEF LiveRows
      <3>3. \E j \in 1 .. n : from[j] = hash[k]
        BY <1>3, <3>2
      <3>4. hash'[k] = CHOOSE j \in 1 .. n : from[j] = hash[k]
        BY <1>4, <2>2
      <3> QED
        BY <2>2, <3>3, <3>4
    <2> QED
      BY <2>1, <2>2
  <1>8. Hashed'
    <2>1. \A k \in Key : hash'[k] # 0 => data'[hash'[k]].k = k
      BY <1>0, <1>5, <1>7 DEF Hashed
    <2>2. ASSUME NEW j \in 1 .. n PROVE hash'[data'[j].k] = j
      <3>1. hash[data[from[j]].k] = from[j] /\ from[j] # 0 /\ data[from[j]].k \in Key
        BY <1>0, <1>5, RowIn DEF Hashed
      <3>2. hash'[data'[j].k] \in 1 .. n /\ from[hash'[data'[j].k]] = from[j]
        BY <1>5, <1>7, <3>1
      <3> QED
        BY <1>3, <3>2
    <2>3. DeadRows' = {}
      BY <1>5, <1>6 DEF DeadRows
    <2> QED
      BY <1>4, <1>6, <2>1, <2>2, <2>3, FS_EmptySet DEF Hashed
  <1>9. ASSUME NEW t \in Time
        PROVE  /\ offsets'[t] # 0 => offsets'[t] \in 1 .. n /\ data'[offsets'[t]].t = t
               /\ \A i \in 1 .. n : data'[i].t = t => offsets'[t] # 0 /\ offsets'[t] <= i
    <2> DEFINE J == {j \in 1 .. n : data[from[j]].t = t}
    <2>1. offsets'[t] = IF J = {} THEN 0 ELSE SetMin(J)
      BY <1>4
    <2>2. J \in SUBSET Nat /\ \A j \in J : j \in 1 .. n /\ data'[j].t = t
      BY <1>3, <1>5
    <2>3. \A i \in 1 .. n : data'[i].t = t => i \in J
      BY <1>5
    <2> HIDE DEF J
    <2>4. CASE J = {}
      BY <2>1, <2>3, <2>4
    <2>5. CASE J # {}
      <3>1. SetMin(J) \in J /\ \A y \in J : SetMin(J) <= y
        BY <2>2, <2>5, LeastElement
      <3>2. offsets'[t] = SetMin(J)
        BY <2>1, <2>5
      <3>3. offsets'[t] \in 1 .. n /\ data'[offsets'[t]].t = t
        BY <2>2, <3>1, <3>2
      <3>4. \A i \in 1 .. n : data'[i].t = t => offsets'[t] <= i
        BY <2>3, <3>1, <3>2
      <3>5. offsets'[t] # 0
        BY <1>3, <3>3
      <3> QED
        BY <3>3, <3>4, <3>5
    <2> QED
      BY <2>4, <2>5
  <1>10. InOrder'
    <2>1. ASSUME NEW i \in 1 .. n, NEW j \in 1 .. n, i <= j
          PROVE  data'[i].t <= data'[j].t
      <3>0. data'[i].t \in Nat /\ data'[j].t \in Nat
        BY <1>5, Constants
      <3>1. CASE i = j
        BY <3>0, <3>1
      <3>2. CASE i < j /\ Regrouped(from)
        BY <1>3, <1>5, <3>0, <3>2 DEF Regrouped
      <3>3. CASE i < j /\ from[i] < from[j]
        <4>1. from[i] \in DOMAIN data /\ from[j] \in DOMAIN data /\ from[i] <= from[j]
          BY <1>0, <1>5, <3>3, RowIn
        <4> QED
          BY <1>0, <1>5, <4>1 DEF InOrder
      <3>4. i = j \/ i < j
        BY <1>3, <2>1
      <3> QED
        BY <1>3, <3>1, <3>2, <3>3, <3>4
    <2>2. \A i \in 1 .. n : data'[i].t <= now
      BY <1>0, <1>5 DEF InOrder
    <2> QED
      BY <1>2, <1>6, <2>1, <2>2 DEF InOrder
  <1>11. Offsets'
    <2>1. Covered' = n
      BY <1>2, <1>6 DEF Covered
    <2>2. \A t \in Time : offsets'[t] # 0 => offsets'[t] \in 1 .. n /\ data'[offsets'[t]].t = t
      BY <1>9
    <2>3. \A i \in 1 .. n : offsets'[data'[i].t] # 0 /\ offsets'[data'[i].t] <= i
      BY <1>5, <1>9
    <2>4. n \in 0 .. Len(data') /\ \A i \in 1 .. n : ~(i > n)
      BY <1>3, <1>6
    <2> QED
      BY <1>6, <2>1, <2>2, <2>3, <2>4 DEF Offsets
  <1>12. TypeOK'
    <2>1. hash' \in [Key -> 0 .. n]
      <3>1. \A k \in Key : hash'[k] \in 0 .. n
        BY <1>3, <1>7
      <3>2. hash' = [k \in Key |-> hash'[k]]
        BY <1>4
      <3> QED
        BY <3>1, <3>2
    <2>2. offsets' \in [Time -> 0 .. n + 1]
      <3>1. \A t \in Time : offsets'[t] \in 0 .. n + 1
        BY <1>3, <1>9
      <3>2. offsets' = [t \in Time |-> offsets'[t]]
        BY <1>4
      <3> QED
        BY <3>1, <3>2
    <2>3. stale' \in Nat /\ gen' \in Nat
      BY <1>0, <1>2, <1>4 DEF TypeOK
    <2> QED
      BY <1>0, <1>2, <1>6, <2>1, <2>2, <2>3 DEF TypeOK
  <1>13. RowsUnderWay' /\ StagedOnce'
    <2>1. RowsUnderWay'
      BY <1>0, <1>2 DEF RowsUnderWay, Current
    <2>2. staged = NoRows
      BY <1>0, <1>2 DEF StagedOnce
    <2>3. StagedOnce'
      BY <1>0, <1>2, <2>2 DEF StagedOnce
    <2> QED
      BY <2>1, <2>3
  <1> QED
    BY <1>8, <1>10, <1>11, <1>12, <1>13 DEF IInv

-----------------------------------------------------------------------------
(* The invariant holds.                                                     *)

LEMMA IInvInductive == IInv /\ [Next]_vars => IInv'
  <1> SUFFICES ASSUME IInv, [Next]_vars PROVE IInv'
    OBVIOUS
  <1>1. ASSUME NEW h \in Handle, NEW k \in Key, StageRemove(h, k) PROVE IInv'
    BY <1>1, StageRemoveKeeps
  <1>2. ASSUME NEW h \in Handle, NEW k \in Key, NEW v \in Val, StageInsert(h, k, v) PROVE IInv'
    BY <1>2, StageInsertKeeps
  <1>3. ASSUME NEW h \in Handle, DropBuffer(h) PROVE IInv'
    BY <1>3, DropBufferKeeps
  <1>4. CASE Tick
    BY <1>4, TickKeeps
  <1>5. CASE Clear
    BY <1>5, ClearKeeps
  <1>6. CASE BeginMerge
    BY <1>6, BeginMergeKeeps
  <1>7. CASE BeginInsert
    BY <1>7, BeginInsertKeeps
  <1>8. CASE EndInsert
    BY <1>8, EndInsertKeeps
  <1>9. ASSUME NEW k \in Key, Delete(k) PROVE IInv'
    BY <1>9, DeleteKeeps
  <1>10. ASSUME NEW s \in Shard, SerialInsert(s) PROVE IInv'
    BY <1>10, SerialInsertKeeps
  <1>11. ASSUME NEW s \in Shard, StageRow(s) PROVE IInv'
    BY <1>11, StageRowKeeps
  <1>12. ASSUME NEW s \in Shard, Flush(s) PROVE IInv'
    BY <1>12, FlushKeeps
  <1>13. CASE SkipRehash
    BY <1>13, SkipRehashKeeps
  <1>14. CASE Rehash
    BY <1>14, RehashKeeps
  <1>15. CASE UNCHANGED vars
    <2>1. UNCHANGED <<data, stale, hash, offsets, phase, par, start, now>>
      BY <1>15 DEF vars, envVars
    <2>2. TypeOK' /\ RowsUnderWay' /\ StagedOnce'
      BY <1>15 DEF IInv, TypeOK, RowsUnderWay, StagedOnce, Current, vars, envVars, queueVars
    <2> QED
      BY <2>1, <2>2, SameTable DEF IInv
  <1> QED
    BY <1>1, <1>2, <1>3, <1>4, <1>5, <1>6, <1>7, <1>8, <1>9, <1>10, <1>11, <1>12,
       <1>13, <1>14, <1>15 DEF Next

LEMMA Invariant == Spec => []IInv
  BY InitIInv, IInvInductive, PTL DEF Spec

-----------------------------------------------------------------------------
(* What follows from it in every state.                                     *)

LEMMA LiveCount ==
    ASSUME IInv PROVE Len(data) - stale = Cardinality({k \in Key : hash[k] # 0})
  <1> DEFINE Held == {k \in Key : hash[k] # 0}
             f == [i \in LiveRows |-> data[i].k]
  <1>0. TypeOK /\ Hashed
    BY DEF IInv
  <1>1. Len(data) \in Nat /\ DOMAIN data = 1 .. Len(data)
    BY <1>0, LenProperties DEF TypeOK
  <1>2. IsFiniteSet(DOMAIN data) /\ Cardinality(DOMAIN data) = Len(data)
    BY <1>1, OneTo
  <1>3. LiveRows = DOMAIN data \ DeadRows /\ DOMAIN data \cap DeadRows = DeadRows
    BY DEF LiveRows, DeadRows
  <1>4. IsFiniteSet(LiveRows) /\ Cardinality(LiveRows) = Len(data) - stale
    <2>1. /\ IsFiniteSet(DOMAIN data \ DeadRows)
          /\ Cardinality(DOMAIN data \ DeadRows)
                = Cardinality(DOMAIN data) - Cardinality(DOMAIN data \cap DeadRows)
      BY <1>2, FS_Difference
    <2>2. Cardinality(DOMAIN data \cap DeadRows) = stale
      BY <1>0, <1>3 DEF Hashed
    <2>3. LiveRows = DOMAIN data \ DeadRows
      BY <1>3
    <2> QED
      BY <1>2, <2>1, <2>2, <2>3
  <1>5. \A i \in LiveRows : data[i].k \in Key /\ hash[data[i].k] = i /\ i # 0
    BY <1>0, <1>1, RowIn DEF LiveRows, Hashed
  <1>6. \A k \in Held : hash[k] \in LiveRows /\ data[hash[k]].k = k
    BY <1>0, <1>1, RowIn DEF LiveRows, Hashed, TypeOK
  <1>7. f \in Bijection(LiveRows, Held)
    <2>1. f \in [LiveRows -> Held]
      BY <1>5
    <2>2. \A a, b \in LiveRows : f[a] = f[b] => a = b
      BY <1>5
    <2>3. \A k \in Held : \E i \in LiveRows : f[i] = k
      BY <1>6
    <2> HIDE DEF f, Held
    <2> QED
      BY <2>1, <2>2, <2>3, Fun_IsBij
  <1>8. ExistsBijection(LiveRows, Held)
    BY <1>7 DEF ExistsBijection
  <1>9. Cardinality(Held) = Cardinality(LiveRows)
    <2> HIDE DEF Held
    <2> QED
      BY <1>4, <1>8, FS_Bijection
  <1> QED
    BY <1>4, <1>9

LEMMA HashIsLiveHolds == IInv => HashIsLive
  BY LiveCount DEF IInv, Hashed, HashIsLive

(* The binary search finds where timestamps reach t.                        *)
LEMMA NotBeforeFacts ==
    ASSUME IInv, phase = "idle", NEW t \in Nat
    PROVE  /\ NotBefore(t) \in 1 .. Len(data) + 1
           /\ \A i \in DOMAIN data : i < NotBefore(t) <=> data[i].t < t
  <1> DEFINE J == {offsets[u] : u \in {u \in Time : u >= t /\ offsets[u] # 0}}
  <1>0. TypeOK /\ InOrder /\ Offsets
    BY DEF IInv
  <1>1. Len(data) \in Nat /\ DOMAIN data = 1 .. Len(data) /\ Covered = Len(data)
    BY <1>0, LenProperties DEF TypeOK, Covered
  <1>2. NotBefore(t) = IF J = {} THEN Len(data) + 1 ELSE SetMin(J)
    BY DEF NotBefore
  <1>3. \A i \in DOMAIN data : data[i].t \in Time /\ data[i].t \in Nat
    BY <1>0, RowIn
  <1>4. ASSUME NEW i \in DOMAIN data, ~(data[i].t < t)
        PROVE  offsets[data[i].t] \in J /\ offsets[data[i].t] <= i
    <2>1. offsets[data[i].t] # 0 /\ offsets[data[i].t] <= i
      BY <1>0, <1>1, <1>4 DEF Offsets
    <2>2. data[i].t \in {u \in Time : u >= t /\ offsets[u] # 0}
      BY <1>3, <1>4, <2>1
    <2> QED
      BY <2>1, <2>2
  <1>5. ASSUME NEW n \in J PROVE n \in DOMAIN data /\ data[n].t >= t
    <2>1. PICK u \in Time : u >= t /\ offsets[u] # 0 /\ n = offsets[u]
      OBVIOUS
    <2> QED
      BY <1>0, <1>1, <2>1 DEF Offsets
  <1> HIDE DEF J
  <1>6. CASE J = {}
    BY <1>1, <1>2, <1>4, <1>6
  <1>7. CASE J # {}
    <2> DEFINE m == SetMin(J)
    <2>1. J \in SUBSET Nat
      BY <1>1, <1>5
    <2>2. m \in J /\ \A y \in J : m <= y
      BY <1>7, <2>1, LeastElement
    <2>3. m \in DOMAIN data /\ data[m].t >= t /\ NotBefore(t) = m
      BY <1>2, <1>5, <1>7, <2>2
    <2> HIDE DEF m
    <2>4. ASSUME NEW i \in DOMAIN data, i < m PROVE data[i].t < t
      <3> SUFFICES ASSUME ~(data[i].t < t) PROVE FALSE
        OBVIOUS
      <3>1. offsets[data[i].t] \in J /\ offsets[data[i].t] <= i
        BY <1>4
      <3>2. m <= offsets[data[i].t] /\ offsets[data[i].t] \in Nat
        BY <2>1, <2>2, <3>1
      <3> QED
        BY <1>1, <2>3, <2>4, <3>1, <3>2
    <2>5. ASSUME NEW i \in DOMAIN data, ~(i < m) PROVE ~(data[i].t < t)
      <3>1. m <= i
        BY <1>1, <2>3, <2>5
      <3>2. data[m].t <= data[i].t
        BY <1>0, <2>3, <3>1 DEF InOrder
      <3> QED
        BY <1>3, <2>3, <3>2
    <2> QED
      BY <1>1, <2>3, <2>4, <2>5
  <1> QED
    BY <1>6, <1>7

LEMMA FastSubsetExactHolds == IInv => FastSubsetExact
  <1> SUFFICES ASSUME IInv, phase = "idle",
                      NEW rel \in {"eq", "lt", "le", "gt", "ge"}, NEW t \in Time,
                      NEW i \in DOMAIN data
               PROVE  i \in FastSubset(rel, t) <=> Matches(rel, t, data[i])
    BY DEF FastSubsetExact
  <1>1. t \in Nat /\ t + 1 \in Nat
    BY Constants
  <1>2. TypeOK
    BY DEF IInv
  <1>3. i \in 1 .. Len(data) /\ data[i].t \in Nat /\ Len(data) \in Nat
    BY <1>2, RowIn, LenProperties DEF TypeOK
  <1>4. /\ NotBefore(t) \in 1 .. Len(data) + 1
        /\ i < NotBefore(t) <=> data[i].t < t
    BY <1>1, NotBeforeFacts
  <1>5. /\ NotBefore(t + 1) \in 1 .. Len(data) + 1
        /\ i < NotBefore(t + 1) <=> data[i].t < t + 1
    BY <1>1, NotBeforeFacts
  <1>6. CASE rel = "eq"
    BY <1>1, <1>3, <1>4, <1>5, <1>6 DEF FastSubset, Matches
  <1>7. CASE rel = "lt"
    BY <1>1, <1>3, <1>4, <1>5, <1>7 DEF FastSubset, Matches
  <1>8. CASE rel = "le"
    BY <1>1, <1>3, <1>4, <1>5, <1>8 DEF FastSubset, Matches
  <1>9. CASE rel = "gt"
    BY <1>1, <1>3, <1>4, <1>5, <1>9 DEF FastSubset, Matches
  <1>10. CASE rel = "ge"
    BY <1>1, <1>3, <1>4, <1>5, <1>10 DEF FastSubset, Matches
  <1> QED
    BY <1>6, <1>7, <1>8, <1>9, <1>10

-----------------------------------------------------------------------------
(* What a step may do.                                                      *)

Grows ==
    /\ Len(data) <= Len(data')
    /\ \A i \in DOMAIN data : data'[i] \in {data[i], Kill(data[i])}

Reports == \A k \in Key : phase # "idle" /\ Lookup(k)' # Lookup(k) => changed'

LEMMA SameRows ==
    ASSUME TypeOK, data' = data PROVE Grows /\ (hash' = hash => Reports)
  <1>1. Len(data) \in Nat
    BY LenProperties DEF TypeOK
  <1> QED
    BY <1>1 DEF Grows, Reports, Lookup

LEMMA DeleteStep ==
    ASSUME IInv, NEW k \in Key, Delete(k) PROVE Grows /\ Reports
  <1>0. TypeOK /\ Len(data) \in Nat
    BY LenProperties DEF IInv, TypeOK
  <1>1. CASE hash[k] = 0
    BY <1>0, <1>1, SameRows DEF Delete
  <1>2. CASE hash[k] # 0
    <2>1. hash[k] \in DOMAIN data /\ changed' = TRUE
      BY <1>0, <1>2, LenProperties DEF TypeOK, Delete
    <2>2. data' = [data EXCEPT ![hash[k]] = Kill(@)]
      BY <1>2 DEF Delete
    <2>3. /\ Len(data') = Len(data)
          /\ \A j \in DOMAIN data : data'[j] = IF j = hash[k] THEN Kill(data[hash[k]]) ELSE data[j]
      BY <1>0, <2>1, <2>2, KillOne DEF TypeOK
    <2> QED
      BY <1>0, <2>1, <2>3 DEF Grows, Reports
  <1> QED
    BY <1>1, <1>2

LEMMA SerialInsertStep ==
    ASSUME IInv, NEW s \in Shard, SerialInsert(s) PROVE Grows /\ Reports
  <1>0. TypeOK /\ Len(data) \in Nat
    BY LenProperties DEF IInv, TypeOK
  <1>1. CASE UNCHANGED <<data, stale, hash, offsets, changed>>
    BY <1>0, <1>1, SameRows
  <1>2. CASE ~UNCHANGED <<data, stale, hash, offsets, changed>>
    <2> DEFINE id == hash[Head(pendRows[s]).k]
    <2>1. /\ changed' = TRUE /\ Len(data') = Len(data) + 1
          /\ \A j \in DOMAIN data :
                data'[j] = IF id # 0 /\ j = id THEN Kill(data[id]) ELSE data[j]
      BY <1>2, SerialInsertRow
    <2> HIDE DEF id
    <2> QED
      BY <1>0, <2>1 DEF Grows, Reports
  <1> QED
    BY <1>1, <1>2

LEMMA FlushStep ==
    ASSUME IInv, NEW s \in Shard, Flush(s) PROVE Grows /\ Reports
  <1> DEFINE block == staged[s]
             base == Len(data)
             Old(i) == hash[block[i].k]
             Loses(i) == Old(i) # 0 /\ ~Wins(data[Old(i)], block[i])
             entered == {i \in StagedLive(s) : ~Loses(i)}
             replaced == {Old(i) : i \in entered} \ {0}
             total == base + Len(block)
  <1>0. TypeOK /\ base \in Nat /\ Len(block) \in Nat /\ DOMAIN data = 1 .. base
    BY LenProperties DEF IInv, TypeOK
  <1>1. /\ data' = [j \in 1 .. total |->
              IF j <= base THEN IF j \in replaced THEN Kill(data[j]) ELSE data[j]
              ELSE IF j - base \in entered THEN block[j - base] ELSE Kill(block[j - base])]
        /\ hash' = [k \in Key |->
              IF \E i \in entered : block[i].k = k THEN base + StagedRow(s, k) ELSE hash[k]]
        /\ changed' = (changed \/ StagedLive(s) # {})
    BY DEF Flush, FlushRows
  <1>2. Len(data') = total
    <2>1. DOMAIN data' = 1 .. total
      BY <1>1
    <2>2. data' \in Seq(Row)
      BY FlushKeeps DEF IInv, TypeOK
    <2> HIDE DEF total
    <2> QED
      BY <1>0, <2>1, <2>2, LenProperties DEF total
  <1>3. entered \subseteq StagedLive(s) /\ (StagedLive(s) = {} => entered = {} /\ replaced = {})
    OBVIOUS
  <1>4. \A j \in DOMAIN data : j \in 1 .. total /\ j <= base
    BY <1>0
  <1> HIDE DEF entered, replaced
  <1>5. \A j \in DOMAIN data : data'[j] = IF j \in replaced THEN Kill(data[j]) ELSE data[j]
    BY <1>1, <1>4
  <1>6. Grows
    BY <1>0, <1>2, <1>5 DEF Grows
  <1>7. Reports
    <2> SUFFICES ASSUME NEW k \in Key, ~changed' PROVE Lookup(k)' = Lookup(k)
      BY DEF Reports
    <2>1. entered = {} /\ replaced = {}
      BY <1>1, <1>3
    <2>2. hash'[k] = hash[k]
      BY <1>1, <2>1
    <2>3. hash[k] # 0 => hash[k] \in DOMAIN data
      BY <1>0 DEF TypeOK
    <2> QED
      BY <1>5, <2>1, <2>2, <2>3 DEF Lookup
  <1> QED
    BY <1>6, <1>7

LEMMA RehashLookups ==
    ASSUME IInv, Rehash PROVE \A k \in Key : Lookup(k)' = Lookup(k)
  <1>0. TypeOK /\ Hashed
    BY DEF IInv
  <1>1. PICK from \in Orders : Compact(from)
    BY DEF Rehash
  <1>2. \A i \in LiveRows : \E j \in DOMAIN from : from[j] = i
    BY <1>0, OrderFacts
  <1>3. ASSUME NEW k \in Key PROVE Lookup(k)' = Lookup(k)
    <2>1. CASE hash[k] = 0
      BY <1>1, <2>1 DEF Compact, Lookup
    <2>2. CASE hash[k] # 0
      <3>1. hash[k] \in DOMAIN data /\ data[hash[k]].k = k
        BY <1>0, <2>2, LenProperties DEF TypeOK, Hashed
      <3>2. hash[k] \in LiveRows
        BY <1>0, <3>1, RowIn DEF LiveRows
      <3>3. hash'[k] \in DOMAIN from /\ from[hash'[k]] = hash[k]
        <4>1. hash'[k] = CHOOSE j \in DOMAIN from : from[j] = hash[k]
          BY <1>1, <2>2 DEF Compact
        <4> QED
          BY <1>2, <3>2, <4>1
      <3>4. data'[hash'[k]] = data[hash[k]]
        BY <1>1, <3>3 DEF Compact
      <3>5. hash'[k] # 0
        <4>1. DOMAIN from = 1 .. Cardinality(LiveRows) /\ Cardinality(LiveRows) \in Nat
          BY <1>0, OrderFacts
        <4> QED
          BY <3>3, <4>1
      <3> QED
        BY <2>2, <3>4, <3>5 DEF Lookup
    <2> QED
      BY <2>1, <2>2
  <1> QED
    BY <1>3

LEMMA RehashStep ==
    ASSUME IInv, Rehash PROVE gen' # gen /\ Reports
  BY RehashLookups DEF IInv, TypeOK, Rehash, Reports

LEMMA ClearStep ==
    ASSUME IInv, Clear PROVE (gen' = gen => Grows) /\ Reports
  <1>1. CASE data = <<>>
    BY <1>1, SameRows DEF Clear, IInv
  <1>2. CASE data # <<>>
    BY <1>2 DEF Clear, IInv, TypeOK, Reports
  <1> QED
    BY <1>1, <1>2

LEMMA Step ==
    ASSUME IInv, [Next]_vars PROVE (gen' = gen => Grows) /\ Reports
  <1>0. TypeOK
    BY DEF IInv
  <1>1. ASSUME NEW h \in Handle, NEW k \in Key, NEW v \in Val, StageInsert(h, k, v)
        PROVE  Grows /\ Reports
    BY <1>0, <1>1, SameRows DEF StageInsert
  <1>2. ASSUME NEW h \in Handle, NEW k \in Key, StageRemove(h, k) PROVE Grows /\ Reports
    BY <1>0, <1>2, SameRows DEF StageRemove
  <1>3. ASSUME NEW h \in Handle, DropBuffer(h) PROVE Grows /\ Reports
    BY <1>0, <1>3, SameRows DEF DropBuffer
  <1>4. ASSUME Tick \/ BeginMerge \/ BeginInsert \/ EndInsert \/ SkipRehash
        PROVE  Grows /\ Reports
    BY <1>0, <1>4, SameRows DEF Tick, BeginMerge, BeginInsert, EndInsert, SkipRehash
  <1>5. ASSUME NEW s \in Shard, StageRow(s) PROVE Grows /\ Reports
    BY <1>0, <1>5, SameRows DEF StageRow
  <1>6. ASSUME UNCHANGED vars PROVE Grows /\ Reports
    BY <1>0, <1>6, SameRows DEF vars
  <1> QED
    BY <1>1, <1>2, <1>3, <1>4, <1>5, <1>6, ClearStep, RehashStep, DeleteStep,
       SerialInsertStep, FlushStep DEF Next

-----------------------------------------------------------------------------
(* The values that a queue holds for a key: what the function in OfKey is,  *)
(* and that a queue after another yields its values after the other's.      *)

CollectsUpTo(n, f, k, rows) ==
    f = [i \in 0 .. n |->
           IF i = 0 THEN <<>>
           ELSE IF rows[i].k = k THEN Append(f[i - 1], rows[i].v)
           ELSE f[i - 1]]

Collected(f, k, rows) ==
    /\ OfKey(k, rows) = f[Len(rows)]
    /\ f[0] = <<>>
    /\ \A i \in 1 .. Len(rows) :
          f[i] = IF rows[i].k = k THEN Append(f[i - 1], rows[i].v) ELSE f[i - 1]
    /\ \A i \in 0 .. Len(rows) : f[i] \in Seq(Val)

LEMMA CollectsExists ==
    ASSUME NEW k, NEW rows, NEW m \in Nat
    PROVE  \E f : CollectsUpTo(m, f, k, rows)
  <1> DEFINE T == {n \in Nat : ~\E f : CollectsUpTo(n, f, k, rows)}
  <1> SUFFICES ASSUME T # {} PROVE FALSE
    OBVIOUS
  <1>1. SetMin(T) \in T /\ \A n \in T : SetMin(T) <= n
    <2>1. T \in SUBSET Nat
      OBVIOUS
    <2> HIDE DEF T
    <2> QED
      BY <2>1, LeastElement
  <1>2. PICK n \in T : \A l \in T : n <= l
    BY <1>1, Zenon
  <1>3. n # 0
    <2> DEFINE f == [i \in 0 .. 0 |-> <<>>]
    <2>1. CollectsUpTo(0, f, k, rows)
      BY DEF CollectsUpTo
    <2> QED
      BY <2>1
  <1>4. n \in Nat /\ n - 1 \in Nat /\ n - 1 \notin T
    BY <1>2, <1>3
  <1>5. PICK f : CollectsUpTo(n - 1, f, k, rows)
    BY <1>4
  <1> DEFINE More(g, i) == IF i = 0 THEN <<>>
                           ELSE IF rows[i].k = k THEN Append(g[i - 1], rows[i].v)
                           ELSE g[i - 1]
             g == [i \in 0 .. n |-> IF i = n THEN More(f, n) ELSE f[i]]
  <1>6. \A i \in 0 .. n - 1 : f[i] = More(f, i)
    BY <1>5, Zenon DEF CollectsUpTo
  <1>7. \A i \in 0 .. n : g[i] = IF i = n THEN More(f, n) ELSE f[i]
    BY Zenon
  <1>8. \A i \in 0 .. n : i # 0 => g[i - 1] = f[i - 1]
    <2> HIDE DEF g, More
    <2> QED
      BY <1>4, <1>7
  <1>9. \A i \in 0 .. n : More(g, i) = More(f, i)
    <2> HIDE DEF g
    <2> QED
      BY <1>8
  <1>10. \A i \in 0 .. n : g[i] = More(g, i)
    <2> HIDE DEF g, More
    <2> QED
      BY <1>4, <1>6, <1>7, <1>9
  <1>11. g = [i \in 0 .. n |-> g[i]]
    BY Zenon
  <1>12. g = [i \in 0 .. n |-> More(g, i)]
    <2> HIDE DEF g, More
    <2> QED
      BY <1>10, <1>11
  <1>13. CollectsUpTo(n, g, k, rows)
    BY <1>12, Zenon DEF CollectsUpTo
  <1> QED
    BY <1>2, <1>13, Zenon

LEMMA QueuedValues ==
    ASSUME NEW rows \in Seq(Fresh)
    PROVE  \A i \in 1 .. Len(rows) : rows[i].v \in Val
  <1>1. \A i \in 1 .. Len(rows) : rows[i] \in Fresh
    BY ElementOfSeq
  <1>2. \A row \in Fresh : row.v \in Val
    BY DEF Fresh
  <1> QED
    BY <1>1, <1>2

LEMMA OfKeyCollects ==
    ASSUME NEW k, NEW rows \in Seq(Fresh)
    PROVE  \E f : Collected(f, k, rows)
  <1> DEFINE n == Len(rows)
             f == CHOOSE f : CollectsUpTo(n, f, k, rows)
  <1>0. n \in Nat /\ \A i \in 1 .. n : rows[i].v \in Val
    BY QueuedValues, LenProperties
  <1>1. CollectsUpTo(n, f, k, rows)
    <2>1. \E g : CollectsUpTo(n, g, k, rows)
      BY <1>0, CollectsExists
    <2> QED
      BY <2>1, Zenon
  <1>2. OfKey(k, rows) = f[n]
    BY DEF OfKey, CollectsUpTo
  <1> HIDE DEF f, n
  <1>3. \A i \in 0 .. n : f[i] = IF i = 0 THEN <<>>
                                 ELSE IF rows[i].k = k THEN Append(f[i - 1], rows[i].v)
                                 ELSE f[i - 1]
    BY <1>1, Zenon DEF CollectsUpTo
  <1>4. f[0] = <<>>
    BY <1>0, <1>3
  <1>5. \A i \in 1 .. n : f[i] = IF rows[i].k = k THEN Append(f[i - 1], rows[i].v) ELSE f[i - 1]
    BY <1>0, <1>3
  <1>6. \A i \in 0 .. n : f[i] \in Seq(Val)
    <2> DEFINE Typed(i) == f[i] \in Seq(Val)
               T == {i \in 0 .. n : ~Typed(i)}
    <2> SUFFICES ASSUME T # {} PROVE FALSE
      OBVIOUS
    <2>0. Typed(0)
      BY <1>4
    <2> HIDE DEF Typed
    <2>1. T \in SUBSET Nat
      BY <1>0
    <2>2. SetMin(T) \in T /\ \A i \in T : SetMin(T) <= i
      <3> HIDE DEF T
      <3> QED
        BY <2>1, LeastElement
    <2>3. PICK i \in T : \A j \in T : i <= j
      BY <2>2, Zenon
    <2>4. i \in 1 .. n /\ i - 1 \in 0 .. n
      <3>1. i # 0 /\ i \in 0 .. n
        BY <2>0, <2>3
      <3> QED
        BY <1>0, <3>1
    <2>5. f[i - 1] \in Seq(Val)
      <3>1. Typed(i - 1)
        BY <2>1, <2>3, <2>4
      <3> QED
        BY <3>1 DEF Typed
    <2>6. f[i] \in Seq(Val)
      <3>1. rows[i].v \in Val
        BY <1>0, <2>4
      <3>2. Append(f[i - 1], rows[i].v) \in Seq(Val)
        BY <2>5, <3>1, AppendProperties
      <3>3. f[i] = IF rows[i].k = k THEN Append(f[i - 1], rows[i].v) ELSE f[i - 1]
        BY <1>5, <2>4
      <3> QED
        BY <2>5, <3>2, <3>3
    <2> QED
      BY <2>3, <2>6 DEF Typed
  <1>7. Collected(f, k, rows)
    BY <1>2, <1>4, <1>5, <1>6 DEF n, Collected
  <1> QED
    BY <1>7

LEMMA AppendConcat ==
    ASSUME NEW x \in Seq(Val), NEW y \in Seq(Val), NEW e \in Val
    PROVE  Append(x \o y, e) = x \o Append(y, e)
  <1>1. x \o y \in Seq(Val) /\ <<e>> \in Seq(Val)
    BY ConcatProperties
  <1>2. Append(x \o y, e) = (x \o y) \o <<e>> /\ Append(y, e) = y \o <<e>>
    BY <1>1, AppendIsConcat
  <1> QED
    BY <1>1, <1>2, ConcatAssociative

LEMMA OfKeyConcat ==
    ASSUME NEW k, NEW p \in Seq(Fresh), NEW q \in Seq(Fresh)
    PROVE  /\ OfKey(k, p) \in Seq(Val) /\ OfKey(k, q) \in Seq(Val)
           /\ OfKey(k, p \o q) = OfKey(k, p) \o OfKey(k, q)
  <1> DEFINE m == Len(p)
             n == Len(q)
             s == p \o q
  <1>0. /\ m \in Nat /\ n \in Nat
        /\ s \in Seq(Fresh) /\ Len(s) = m + n
        /\ \A i \in 1 .. m : s[i] = p[i]
        /\ \A i \in 1 .. n : s[m + i] = q[i]
    <2>1. s \in Seq(Fresh) /\ Len(s) = m + n
      BY ConcatProperties
    <2>2. m \in Nat /\ n \in Nat
      BY LenProperties
    <2>3. \A i \in 1 .. m + n : s[i] = IF i <= m THEN p[i] ELSE q[i - m]
      BY ConcatProperties
    <2> HIDE DEF s, m, n
    <2>4. \A i \in 1 .. m : i \in 1 .. m + n /\ i <= m
      BY <2>2
    <2>5. \A i \in 1 .. n : m + i \in 1 .. m + n /\ ~(m + i <= m) /\ m + i - m = i
      BY <2>2
    <2> QED
      BY <2>1, <2>2, <2>3, <2>4, <2>5
  <1>1. PICK f : /\ OfKey(k, p) = f[m] /\ f[0] = <<>>
                 /\ \A i \in 1 .. m : f[i] = IF p[i].k = k THEN Append(f[i - 1], p[i].v) ELSE f[i - 1]
                 /\ \A i \in 0 .. m : f[i] \in Seq(Val)
    <2>1. \E f : Collected(f, k, p)
      BY OfKeyCollects
    <2> QED
      BY <2>1, Zenon DEF Collected
  <1>2. PICK g : /\ OfKey(k, q) = g[n] /\ g[0] = <<>>
                 /\ \A i \in 1 .. n : g[i] = IF q[i].k = k THEN Append(g[i - 1], q[i].v) ELSE g[i - 1]
                 /\ \A i \in 0 .. n : g[i] \in Seq(Val)
    <2>1. \E g : Collected(g, k, q)
      BY OfKeyCollects
    <2> QED
      BY <2>1, Zenon DEF Collected
  <1>3. PICK h : /\ OfKey(k, s) = h[m + n] /\ h[0] = <<>>
                 /\ \A i \in 1 .. m + n : h[i] = IF s[i].k = k THEN Append(h[i - 1], s[i].v) ELSE h[i - 1]
    <2>1. s \in Seq(Fresh) /\ Len(s) = m + n
      BY <1>0
    <2> HIDE DEF s, m, n
    <2>2. \E h : Collected(h, k, s)
      BY <2>1, OfKeyCollects
    <2> QED
      BY <2>1, <2>2, Zenon DEF Collected
  <1>4. \A i \in 1 .. n : q[i].v \in Val
    BY QueuedValues
  <1> HIDE DEF m, n, s
  <1>5. \A i \in 0 .. m : h[i] = f[i]
    <2> DEFINE Same(i) == h[i] = f[i]
               T == {i \in 0 .. m : ~Same(i)}
    <2> SUFFICES ASSUME T # {} PROVE FALSE
      OBVIOUS
    <2>1. T \in SUBSET Nat
      <3> HIDE DEF Same
      <3> QED
        BY <1>0
    <2>2. SetMin(T) \in T /\ \A i \in T : SetMin(T) <= i
      <3> HIDE DEF T
      <3> QED
        BY <2>1, LeastElement
    <2>3. PICK i \in T : \A j \in T : i <= j
      BY <2>2, Zenon
    <2>4. i \in 1 .. m /\ i - 1 \in 0 .. m /\ i \in 1 .. m + n
      BY <1>0, <1>1, <1>3, <2>3
    <2>5. Same(i - 1)
      <3> HIDE DEF Same
      <3> QED
        BY <2>1, <2>3, <2>4
    <2>6. s[i] = p[i]
      BY <1>0, <2>4
    <2>7. h[i] = f[i]
      BY <1>1, <1>3, <2>4, <2>5, <2>6
    <2> QED
      BY <2>3, <2>7
  <1>6. \A i \in 0 .. n : h[m + i] = f[m] \o g[i]
    <2> DEFINE Same(i) == h[m + i] = f[m] \o g[i]
               T == {i \in 0 .. n : ~Same(i)}
    <2> SUFFICES ASSUME T # {} PROVE FALSE
      OBVIOUS
    <2>1. T \in SUBSET Nat
      <3> HIDE DEF Same
      <3> QED
        BY <1>0
    <2>2. SetMin(T) \in T /\ \A i \in T : SetMin(T) <= i
      <3> HIDE DEF T
      <3> QED
        BY <2>1, LeastElement
    <2>3. PICK i \in T : \A j \in T : i <= j
      BY <2>2, Zenon
    <2>4. f[m] \in Seq(Val)
      BY <1>0, <1>1
    <2>5. i # 0
      <3>1. h[m + 0] = f[m]
        BY <1>0, <1>5
      <3>2. f[m] \o g[0] = f[m]
        BY <1>2, <2>4, ConcatEmptySeq
      <3> QED
        BY <2>3, <3>1, <3>2
    <2>6. i \in 1 .. n /\ i - 1 \in 0 .. n /\ m + i \in 1 .. m + n /\ m + i - 1 = m + (i - 1)
      BY <1>0, <2>3, <2>5
    <2>7. h[m + i - 1] = f[m] \o g[i - 1]
      <3>1. Same(i - 1)
        <4> HIDE DEF Same
        <4> QED
          BY <2>1, <2>3, <2>6
      <3> QED
        BY <2>6, <3>1
    <2>8. h[m + i] = IF q[i].k = k THEN Append(h[m + i - 1], q[i].v) ELSE h[m + i - 1]
      BY <1>0, <1>3, <2>6
    <2>9. g[i] = IF q[i].k = k THEN Append(g[i - 1], q[i].v) ELSE g[i - 1]
      BY <1>2, <2>6
    <2>10. g[i - 1] \in Seq(Val) /\ q[i].v \in Val
      BY <1>2, <1>4, <2>6
    <2>11. Append(f[m] \o g[i - 1], q[i].v) = f[m] \o Append(g[i - 1], q[i].v)
      <3> DEFINE x == f[m]
                 y == g[i - 1]
                 e == q[i].v
      <3>1. x \in Seq(Val) /\ y \in Seq(Val) /\ e \in Val
        BY <2>4, <2>10
      <3> HIDE DEF x, y, e
      <3>2. Append(x \o y, e) = x \o Append(y, e)
        BY <3>1, AppendConcat
      <3> QED
        BY <3>2 DEF x, y, e
    <2>12. h[m + i] = f[m] \o g[i]
      BY <2>7, <2>8, <2>9, <2>11
    <2> QED
      BY <2>3, <2>12
  <1>7. m \in 0 .. m /\ n \in 0 .. n
    BY <1>0
  <1>8. f[m] \in Seq(Val) /\ g[n] \in Seq(Val) /\ h[m + n] = f[m] \o g[n]
    BY <1>1, <1>2, <1>6, <1>7
  <1> QED
    BY <1>1, <1>2, <1>3, <1>8 DEF s

(* A queue without its first row.                                           *)
LEMMA OfKeyEmpty == \A k : OfKey(k, <<>>) = <<>>
  <1> SUFFICES ASSUME NEW k PROVE OfKey(k, <<>>) = <<>>
    OBVIOUS
  <1> DEFINE none == <<>>
  <1>1. none \in Seq(Fresh) /\ Len(none) = 0
    OBVIOUS
  <1> HIDE DEF none
  <1>2. PICK f : Collected(f, k, none)
    BY <1>1, OfKeyCollects
  <1>3. OfKey(k, none) = <<>>
    BY <1>1, <1>2 DEF Collected
  <1> QED
    BY <1>3 DEF none

LEMMA HeadOfConcat ==
    ASSUME NEW S, NEW e \in S, NEW q \in Seq(S)
    PROVE  <<e>> \o q # <<>> /\ Head(<<e>> \o q) = e /\ Tail(<<e>> \o q) = q
  <1> DEFINE s == <<e>> \o q
  <1>1. <<e>> \in Seq(S) /\ Len(<<e>>) = 1 /\ <<e>>[1] = e
    OBVIOUS
  <1>2. Len(q) \in Nat /\ q = [i \in 1 .. Len(q) |-> q[i]]
    OBVIOUS
  <1>3. s \in Seq(S) /\ Len(s) = Len(q) + 1
    BY <1>1, <1>2, ConcatProperties
  <1>4. \A i \in 1 .. Len(q) + 1 : s[i] = IF i <= 1 THEN e ELSE q[i - 1]
    BY <1>1, <1>2, ConcatProperties
  <1> HIDE DEF s
  <1>5. s # <<>> /\ Head(s) = e
    BY <1>2, <1>3, <1>4
  <1>6. /\ Tail(s) \in Seq(S) /\ Len(Tail(s)) = Len(q)
        /\ \A i \in 1 .. Len(q) : Tail(s)[i] = q[i]
    BY <1>2, <1>3, <1>4, <1>5, HeadTailProperties
  <1>7. Tail(s) = q
    BY <1>2, <1>6
  <1> QED
    BY <1>5, <1>7 DEF s

LEMMA OfKeyTail ==
    ASSUME NEW k, NEW rows \in Seq(Fresh), rows # <<>>
    PROVE  IF Head(rows).k = k
           THEN /\ OfKey(k, rows) # <<>> /\ Head(OfKey(k, rows)) = Head(rows).v
                /\ Tail(OfKey(k, rows)) = OfKey(k, Tail(rows))
           ELSE OfKey(k, Tail(rows)) = OfKey(k, rows)
  <1> DEFINE row == Head(rows)
             one == <<row>>
             rest == OfKey(k, Tail(rows))
  <1>1. row \in Fresh /\ Tail(rows) \in Seq(Fresh) /\ row.v \in Val
    <2>1. row \in Fresh /\ Tail(rows) \in Seq(Fresh)
      BY HeadTailProperties
    <2>2. \A r \in Fresh : r.v \in Val
      BY DEF Fresh
    <2> QED
      BY <2>1, <2>2
  <1>2. one \in Seq(Fresh) /\ Len(one) = 1 /\ one[1] = row
    BY <1>1
  <1>3. rows = one \o Tail(rows)
    OBVIOUS
  <1> HIDE DEF one
  <1>4. OfKey(k, rows) = OfKey(k, one) \o rest /\ rest \in Seq(Val)
    BY <1>1, <1>2, <1>3, OfKeyConcat
  <1>5. OfKey(k, one) = IF row.k = k THEN <<row.v>> ELSE <<>>
    <2>1. PICK f : /\ OfKey(k, one) = f[Len(one)] /\ f[0] = <<>>
                   /\ \A i \in 1 .. Len(one) :
                         f[i] = IF one[i].k = k THEN Append(f[i - 1], one[i].v) ELSE f[i - 1]
      <3>1. \E f : Collected(f, k, one)
        BY <1>2, OfKeyCollects
      <3> QED
        BY <3>1, Zenon DEF Collected
    <2>2. f[1] = IF one[1].k = k THEN Append(f[0], one[1].v) ELSE f[0]
      <3>1. 1 \in 1 .. Len(one) /\ 1 - 1 = 0
        BY <1>2
      <3>2. f[1] = IF one[1].k = k THEN Append(f[1 - 1], one[1].v) ELSE f[1 - 1]
        BY <2>1, <3>1, Zenon
      <3> QED
        BY <3>1, <3>2
    <2>3. Append(<<>>, row.v) = <<row.v>>
      BY <1>1
    <2> QED
      BY <1>2, <2>1, <2>2, <2>3
  <1> HIDE DEF row, rest
  <1>6. CASE row.k = k
    <2>1. OfKey(k, rows) = <<row.v>> \o rest
      BY <1>4, <1>5, <1>6
    <2>2. /\ <<row.v>> \o rest # <<>> /\ Head(<<row.v>> \o rest) = row.v
          /\ Tail(<<row.v>> \o rest) = rest
      BY <1>1, <1>4, HeadOfConcat
    <2> QED
      BY <1>6, <2>1, <2>2 DEF row, rest
  <1>7. CASE row.k # k
    BY <1>4, <1>5, <1>7, ConcatEmptySeq DEF row, rest
  <1> QED
    BY <1>6, <1>7

-----------------------------------------------------------------------------
(* The promise of KeyedTable: what is staged for a key lies over the value  *)
(* in the table.                                                            *)

Over(x, y) == IF y = Absent THEN x ELSE IF x = Absent THEN y ELSE Combine(x, y)

StagedVal(k) ==
    LET i == StagedRow(ShardOf(k), k) IN
    IF i = 0 THEN Absent ELSE staged[ShardOf(k)][i].v

Seen(k) ==
    /\ Map[k] = Over(Lookup(k), StagedVal(k))
    /\ hash[k] = 0 => Lookup(k) = Absent
    /\ hash[k] # 0 => hash[k] \in DOMAIN data /\ Lookup(k) = data[hash[k]].v /\ Lookup(k) \in Val
    /\ StagedVal(k) \in Val \cup {Absent}
    /\ \A i \in DOMAIN staged[ShardOf(k)] :
          staged[ShardOf(k)][i].k = k => StagedVal(k) = staged[ShardOf(k)][i].v
    /\ (\A i \in DOMAIN staged[ShardOf(k)] : staged[ShardOf(k)][i].k # k) => StagedVal(k) = Absent

AllSeen == \A k \in Key : Seen(k)

LEMMA SeenHolds == IInv => AllSeen
  <1> SUFFICES ASSUME IInv, NEW k \in Key PROVE Seen(k)
    BY DEF AllSeen
  <1> DEFINE s == ShardOf(k)
             i == StagedRow(s, k)
  <1>0. TypeOK /\ Absent \notin Val /\ s \in Shard
    BY StaleAssumption, ShardAssumption DEF IInv
  <1>1. hash[k] = 0 => Lookup(k) = Absent
    BY DEF Lookup
  <1>2. hash[k] # 0 => hash[k] \in DOMAIN data /\ Lookup(k) = data[hash[k]].v /\ Lookup(k) \in Val
    <2> SUFFICES ASSUME hash[k] # 0
                 PROVE  hash[k] \in DOMAIN data /\ Lookup(k) = data[hash[k]].v /\ Lookup(k) \in Val
      OBVIOUS
    <2>1. hash[k] \in DOMAIN data
      BY <1>0, LenProperties DEF TypeOK
    <2> QED
      BY <1>0, <2>1, RowIn DEF Lookup
  <1>3. /\ i = 0 => \A j \in DOMAIN staged[s] : staged[s][j].k # k
        /\ i # 0 => i \in DOMAIN staged[s] /\ staged[s][i].k = k
        /\ \A j \in DOMAIN staged[s] : staged[s][j].k = k => j = i
    BY <1>0, StagedRowFacts
  <1>4. staged[s] \in Seq(Row) /\ \A j \in DOMAIN staged[s] : staged[s][j] \in Row /\ j # 0
    BY <1>0, LenProperties, ElementOfSeq DEF TypeOK
  <1>5. StagedVal(k) = IF i = 0 THEN Absent ELSE staged[s][i].v
    BY DEF StagedVal
  <1>6. i # 0 => staged[s][i].v \in Val
    <2>1. \A row \in Row : row.v \in Val
      BY DEF Row
    <2> HIDE DEF i, s
    <2> QED
      BY <1>3, <1>4, <2>1
  <1>7. Map[k] = Over(Lookup(k), StagedVal(k))
    <2>1. Map[k] = IF i = 0 THEN Lookup(k)
                   ELSE IF hash[k] = 0 THEN staged[s][i].v
                   ELSE Combine(Lookup(k), staged[s][i].v)
      BY DEF Map
    <2> HIDE DEF i, s
    <2> QED
      BY <1>0, <1>1, <1>2, <1>5, <1>6, <2>1 DEF Over
  <1>8. /\ \A j \in DOMAIN staged[s] : staged[s][j].k = k => StagedVal(k) = staged[s][j].v
        /\ (\A j \in DOMAIN staged[s] : staged[s][j].k # k) => StagedVal(k) = Absent
    <2> HIDE DEF i, s
    <2> QED
      BY <1>3, <1>4, <1>5
  <1>9. StagedVal(k) \in Val \cup {Absent}
    <2> HIDE DEF i, s
    <2> QED
      BY <1>5, <1>6
  <1> QED
    BY <1>1, <1>2, <1>7, <1>8, <1>9 DEF Seen

(* Between parallel inserts the map is what lookups see.                    *)
LEMMA UnstagedMap ==
    ASSUME IInv, staged = NoRows, NEW k \in Key
    PROVE  StagedVal(k) = Absent /\ Map[k] = Lookup(k)
  <1>1. ShardOf(k) \in Shard /\ staged[ShardOf(k)] = <<>>
    BY ShardAssumption DEF NoRows
  <1>2. StagedVal(k) = Absent
    BY <1>1, SeenHolds DEF AllSeen, Seen
  <1> QED
    BY <1>2, SeenHolds DEF AllSeen, Seen, Over

LEMMA MapIs == Map = [k \in Key |-> Map[k]] /\ Inserts = [k \in Key |-> Inserts[k]]
  BY DEF Map, Inserts

(* Steps that a user of the table does not notice.                          *)
LEMMA SameMap ==
    ASSUME AllSeen, AllSeen', \A k \in Key : Lookup(k)' = Lookup(k),
           \A k \in Key : StagedVal(k)' = StagedVal(k)
    PROVE  Map' = Map
  <1>1. \A k \in Key : Map'[k] = Map[k]
    BY DEF AllSeen, Seen, Over
  <1>2. Map = [k \in Key |-> Map[k]] /\ Map' = [k \in Key |-> Map'[k]]
    BY DEF Map
  <1> HIDE DEF Map
  <1> QED
    BY <1>1, <1>2

LEMMA SameInserts == pendRows' = pendRows => Inserts' = Inserts
  BY DEF Inserts

LEMMA SameImage ==
    ASSUME UNCHANGED <<data, hash, staged>> PROVE Map' = Map
  BY DEF Map, Lookup, StagedRow

(* What staging adds to a key's queue comes after what it holds; inserting  *)
(* the first row of a queue takes the first value from one key.             *)
LEMMA DropInserts ==
    ASSUME IInv, NEW h \in Handle, DropBuffer(h), NEW k \in Key
    PROVE  /\ Len(Inserts[k]) <= Len(Inserts'[k])
           /\ Inserts[k] = SubSeq(Inserts'[k], 1, Len(Inserts[k]))
  <1> DEFINE p == pendRows[ShardOf(k)]
             b == buffered[h].rows[ShardOf(k)]
             x == OfKey(k, p)
             y == OfKey(k, b)
  <1>1. /\ p \in Seq(Fresh) /\ b \in Seq(Fresh)
        /\ pendRows'[ShardOf(k)] = p \o b
    BY ShardAssumption DEF IInv, TypeOK, DropBuffer
  <1>2. Inserts[k] = x /\ Inserts'[k] = OfKey(k, p \o b)
    BY <1>1 DEF Inserts
  <1> HIDE DEF p, b
  <1>3. x \in Seq(Val) /\ y \in Seq(Val) /\ OfKey(k, p \o b) = x \o y
    BY <1>1, OfKeyConcat
  <1> HIDE DEF x, y
  <1>4. /\ x \o y \in Seq(Val) /\ Len(x \o y) = Len(x) + Len(y)
        /\ Len(x) \in Nat /\ Len(y) \in Nat
        /\ \A i \in 1 .. Len(x) : (x \o y)[i] = x[i]
    BY <1>3, ConcatProperties
  <1>5. x = SubSeq(x \o y, 1, Len(x))
    BY <1>3, <1>4
  <1> QED
    BY <1>2, <1>3, <1>4, <1>5

LEMMA TakeFirstInserts ==
    ASSUME IInv, NEW s \in Shard, pendRows[s] # <<>>,
           pendRows' = [pendRows EXCEPT ![s] = Tail(@)],
           NEW k \in Key, k = Head(pendRows[s]).k, ShardOf(k) = s
    PROVE  /\ Inserts[k] # <<>> /\ Head(Inserts[k]) = Head(pendRows[s]).v
           /\ Inserts' = [Inserts EXCEPT ![k] = Tail(@)]
  <1>0. pendRows \in [Shard -> Seq(Fresh)]
    BY DEF IInv, TypeOK
  <1>1. pendRows[s] \in Seq(Fresh) /\ pendRows'[s] = Tail(pendRows[s])
    BY <1>0
  <1>2. \A j \in Key : Inserts[j] = OfKey(j, pendRows[ShardOf(j)])
                       /\ Inserts'[j] = OfKey(j, pendRows'[ShardOf(j)])
    BY DEF Inserts
  <1>3. /\ Inserts[k] # <<>> /\ Head(Inserts[k]) = Head(pendRows[s]).v
        /\ Inserts'[k] = Tail(Inserts[k])
    <2>1. Inserts[k] = OfKey(k, pendRows[s]) /\ Inserts'[k] = OfKey(k, Tail(pendRows[s]))
      BY <1>1, <1>2
    <2>2. /\ OfKey(k, pendRows[s]) # <<>> /\ Head(OfKey(k, pendRows[s])) = Head(pendRows[s]).v
          /\ Tail(OfKey(k, pendRows[s])) = OfKey(k, Tail(pendRows[s]))
      BY <1>1, OfKeyTail
    <2> QED
      BY <2>1, <2>2
  <1>4. ASSUME NEW j \in Key, j # k PROVE Inserts'[j] = Inserts[j]
    <2>1. CASE ShardOf(j) = s
      <3>1. OfKey(j, Tail(pendRows[s])) = OfKey(j, pendRows[s])
        BY <1>1, <1>4, OfKeyTail
      <3> QED
        BY <1>1, <1>2, <2>1, <3>1
    <2>2. CASE ShardOf(j) # s
      <3>1. pendRows'[ShardOf(j)] = pendRows[ShardOf(j)]
        BY <1>0, <2>2, ShardAssumption
      <3> QED
        BY <1>2, <3>1
    <2> QED
      BY <2>1, <2>2
  <1>5. Inserts = [j \in Key |-> Inserts[j]] /\ Inserts' = [j \in Key |-> Inserts'[j]]
    BY DEF Inserts
  <1> HIDE DEF Inserts
  <1> QED
    BY <1>3, <1>4, <1>5

(* One value is laid over the others of its key.                            *)
LEMMA InsertOne ==
    ASSUME AllSeen, AllSeen', NEW k \in Key, NEW v \in Val,
           Over(Lookup(k)', StagedVal(k)') = Over(Map[k], v),
           \A j \in Key : j # k => Lookup(j)' = Lookup(j) /\ StagedVal(j)' = StagedVal(j),
           Inserts[k] # <<>>, Head(Inserts[k]) = v,
           Inserts' = [Inserts EXCEPT ![k] = Tail(@)],
           phase = "insert", phase' = phase, pendRems' = pendRems
    PROVE  Promise!Insert
  <1>0. Absent \notin Val
    BY StaleAssumption
  <1>1. Map'[k] = Over(Map[k], v)
    BY DEF AllSeen, Seen
  <1>2. \A j \in Key : j # k => Map'[j] = Map[j]
    BY DEF AllSeen, Seen, Over
  <1>3. Map = [j \in Key |-> Map[j]] /\ Map' = [j \in Key |-> Map'[j]]
    BY DEF Map
  <1>4. Over(Map[k], v) = IF Map[k] = Absent THEN v ELSE Combine(Map[k], v)
    BY <1>0 DEF Over
  <1>5. Merging = "insert" /\ Merging' = Merging
    BY DEF Merging
  <1> HIDE DEF Map, Inserts, Merging
  <1>6. Map' = [Map EXCEPT ![k] = IF @ = Absent THEN Head(Inserts[k])
                                  ELSE Combine(@, Head(Inserts[k]))]
    BY <1>1, <1>2, <1>3, <1>4
  <1> QED
    BY <1>5, <1>6 DEF Promise!Insert

LEMMA OverAssociates ==
    ASSUME \A x, y, z \in Val : Combine(Combine(x, y), z) = Combine(x, Combine(y, z)),
           NEW x \in Val \cup {Absent}, NEW y \in Val \cup {Absent}, NEW v \in Val
    PROVE  Over(Over(x, y), v) = Over(x, Over(y, v))
  <1>1. Absent \notin Val /\ \A a, b \in Val : Combine(a, b) \in Val
    BY StaleAssumption, CombineAssumption
  <1>2. CASE x = Absent
    <2>1. Over(x, y) = y /\ Over(x, Over(y, v)) = Over(y, v)
      BY <1>2 DEF Over
    <2> QED
      BY <2>1
  <1>3. CASE y = Absent
    <2>1. Over(x, y) = x /\ Over(y, v) = v
      BY <1>1, <1>3 DEF Over
    <2> QED
      BY <2>1
  <1>4. CASE x # Absent /\ y # Absent
    <2>1. x \in Val /\ y \in Val /\ v # Absent
      BY <1>1, <1>4
    <2>2. Combine(x, y) \in Val /\ Combine(y, v) \in Val
      BY <1>1, <2>1
    <2>3. Combine(x, y) # Absent /\ Combine(y, v) # Absent
      BY <1>1, <2>2
    <2>4. Over(Over(x, y), v) = Combine(Combine(x, y), v)
      BY <2>1, <2>3, <1>4 DEF Over
    <2>5. Over(x, Over(y, v)) = Combine(x, Combine(y, v))
      BY <2>1, <2>3, <1>4 DEF Over
    <2> QED
      BY <2>1, <2>4, <2>5
  <1> QED
    BY <1>2, <1>3, <1>4

-----------------------------------------------------------------------------
(* Each step of the table is one of its promise.                            *)

Same == UNCHANGED <<Map, pendRems, Inserts, Merging>>

LEMMA OutsideStep ==
    ASSUME IInv, IInv'
    PROVE  /\ \A h \in Handle, k \in Key, v \in Val : StageInsert(h, k, v) => Same
           /\ \A h \in Handle, k \in Key : StageRemove(h, k) => Same
           /\ Tick \/ SkipRehash \/ UNCHANGED vars => Same
           /\ BeginMerge => Promise!Begin
           /\ BeginInsert => Promise!Removed
  <1>1. ASSUME UNCHANGED <<data, hash, staged, pendRows, pendRems>>
        PROVE  UNCHANGED <<Map, pendRems, Inserts>>
    BY <1>1, SameImage, SameInserts
  <1>2. \A h \in Handle, k \in Key, v \in Val : StageInsert(h, k, v) => Same
    BY <1>1 DEF StageInsert, Same, Merging
  <1>3. \A h \in Handle, k \in Key : StageRemove(h, k) => Same
    BY <1>1 DEF StageRemove, Same, Merging
  <1>4. Tick \/ SkipRehash \/ UNCHANGED vars => Same
    BY <1>1 DEF Tick, SkipRehash, vars, queueVars, Same, Merging
  <1>5. BeginMerge => Promise!Begin
    BY <1>1 DEF BeginMerge, queueVars, Merging, Promise!Begin
  <1>6. BeginInsert => Promise!Removed
    BY <1>1 DEF BeginInsert, queueVars, Merging, Promise!Removed
  <1> QED
    BY <1>2, <1>3, <1>4, <1>5, <1>6

LEMMA StageStep ==
    ASSUME IInv, NEW h \in Handle, DropBuffer(h) PROVE Promise!Stage
  <1>1. Map' = Map
    BY SameImage DEF DropBuffer
  <1>2. Merging = "no" /\ Merging' = Merging /\ pendRems \subseteq pendRems'
    BY DEF DropBuffer, Merging
  <1>3. \A k \in Key : /\ Len(Inserts[k]) <= Len(Inserts'[k])
                       /\ Inserts[k] = SubSeq(Inserts'[k], 1, Len(Inserts[k]))
    BY DropInserts
  <1> QED
    BY <1>1, <1>2, <1>3 DEF Promise!Stage

LEMMA EmptyInserts ==
    \A k \in Key : pendRows[ShardOf(k)] = <<>> => Inserts[k] = <<>>
  BY OfKeyEmpty DEF Inserts

LEMMA ClearedStep ==
    ASSUME IInv, IInv', AllSeen, AllSeen', Clear PROVE Promise!Clear
  <1>0. phase = "idle" /\ phase' = phase /\ staged' = staged /\ TypeOK
    BY DEF Clear, IInv
  <1>1. staged = NoRows /\ pendRows' = NoRows
    BY <1>0 DEF IInv, StagedOnce, Clear
  <1>2. ASSUME NEW k \in Key PROVE hash'[k] = 0
    <2>1. CASE data = <<>>
      <3>1. hash[k] \in 0 .. 0
        BY <1>0, <2>1 DEF TypeOK
      <3> QED
        BY <2>1, <3>1 DEF Clear
    <2>2. CASE data # <<>>
      BY <2>2 DEF Clear
    <2> QED
      BY <2>1, <2>2
  <1>3. \A k \in Key : ShardOf(k) \in Shard /\ NoRows[ShardOf(k)] = <<>>
    BY ShardAssumption DEF NoRows
  <1>4. \A k \in Key : Map'[k] = Absent /\ Inserts'[k] = <<>>
    <2>1. \A k \in Key : Lookup(k)' = Absent
      BY <1>2 DEF AllSeen, Seen
    <2>2. \A k \in Key : StagedVal(k)' = Absent
      BY <1>0, <1>1, <1>3 DEF AllSeen, Seen
    <2>3. \A k \in Key : Map'[k] = Absent
      BY <2>1, <2>2 DEF AllSeen, Seen, Over
    <2>4. \A k \in Key : Inserts'[k] = <<>>
      BY <1>1, <1>3, OfKeyEmpty DEF Inserts
    <2> QED
      BY <2>3, <2>4
  <1>5. Map' = [k \in Key |-> Map'[k]] /\ Inserts' = [k \in Key |-> Inserts'[k]]
    BY DEF Map, Inserts
  <1>6. Merging = "no" /\ Merging' = Merging /\ pendRems' = {}
    BY <1>0 DEF Merging, Clear
  <1> HIDE DEF Map, Inserts
  <1>7. Map' = [k \in Key |-> Absent] /\ Inserts' = [k \in Key |-> <<>>]
    BY <1>4, <1>5
  <1> QED
    BY <1>6, <1>7 DEF Promise!Clear

LEMMA RemoveStep ==
    ASSUME IInv, AllSeen, AllSeen', NEW k \in Key, Delete(k) PROVE Promise!Remove
  <1>0. TypeOK /\ Hashed /\ phase = "delete" /\ phase' = phase /\ staged' = staged /\ k \in pendRems
    BY DEF IInv, Delete
  <1>1. Lookup(k)' = Absent /\ \A j \in Key : j # k => Lookup(j)' = Lookup(j)
    <2>1. CASE hash[k] = 0
      <3>1. UNCHANGED <<data, hash>>
        BY <2>1 DEF Delete
      <3> QED
        BY <2>1, <3>1 DEF Lookup
    <2>2. CASE hash[k] # 0
      <3>1. hash[k] \in DOMAIN data /\ data[hash[k]].k = k
        BY <1>0, <2>2 DEF AllSeen, Seen, Hashed
      <3>2. hash'[k] = 0 /\ \A j \in Key : j # k => hash'[j] = hash[j]
        BY <1>0, <2>2 DEF Delete, TypeOK
      <3>3. \A j \in DOMAIN data : j # hash[k] => data'[j] = data[j]
        <4>1. data' = [data EXCEPT ![hash[k]] = Kill(@)]
          BY <2>2 DEF Delete
        <4> QED
          BY <1>0, <3>1, <4>1, KillOne DEF TypeOK
      <3>4. ASSUME NEW j \in Key, j # k, hash[j] # 0
            PROVE  hash[j] \in DOMAIN data /\ hash[j] # hash[k]
        BY <1>0, <3>1, <3>4 DEF AllSeen, Seen, Hashed
      <3> QED
        BY <3>2, <3>3, <3>4 DEF Lookup
    <2> QED
      BY <2>1, <2>2
  <1>2. staged = NoRows
    BY <1>0 DEF IInv, StagedOnce
  <1>3. \A j \in Key : StagedVal(j) = Absent /\ StagedVal(j)' = Absent
    <2>1. \A j \in Key : staged[ShardOf(j)] = <<>>
      BY <1>2, ShardAssumption DEF NoRows
    <2> QED
      BY <1>0, <2>1 DEF AllSeen, Seen
  <1>4. Map'[k] = Absent /\ \A j \in Key : j # k => Map'[j] = Map[j]
    BY <1>1, <1>3 DEF AllSeen, Seen, Over
  <1>5. Map = [j \in Key |-> Map[j]] /\ Map' = [j \in Key |-> Map'[j]]
    BY DEF Map
  <1>6. Merging = "delete" /\ Merging' = Merging /\ Inserts' = Inserts /\ pendRems' = pendRems \ {k}
    BY <1>0, SameInserts DEF Merging, Delete
  <1> HIDE DEF Map
  <1>7. Map' = [Map EXCEPT ![k] = Absent]
    BY <1>4, <1>5
  <1> QED
    BY <1>0, <1>6, <1>7 DEF Promise!Remove

LEMMA EndStep ==
    ASSUME IInv, EndInsert PROVE Promise!End
  <1>1. Map' = Map /\ Inserts' = Inserts
    BY SameImage, SameInserts DEF EndInsert, queueVars
  <1>2. \A k \in Key : Inserts[k] = <<>>
    BY EmptyInserts, ShardAssumption DEF EndInsert
  <1>3. Merging = "insert" /\ Merging' = "no" /\ pendRems' = pendRems
    BY DEF EndInsert, Merging, queueVars
  <1> QED
    BY <1>1, <1>2, <1>3 DEF Promise!End

LEMMA RehashSame ==
    ASSUME IInv, AllSeen, AllSeen', Rehash PROVE Same
  <1>1. \A k \in Key : Lookup(k)' = Lookup(k)
    BY RehashLookups
  <1>2. \A k \in Key : StagedVal(k)' = StagedVal(k)
    BY DEF StagedVal, StagedRow, Rehash
  <1>3. Map' = Map
    BY <1>1, <1>2, SameMap
  <1>4. UNCHANGED <<pendRems, Inserts, Merging>>
    BY SameInserts DEF Rehash, queueVars, Merging
  <1> QED
    BY <1>3, <1>4 DEF Same

LEMMA SerialStep ==
    ASSUME IInv, AllSeen, AllSeen', NEW s \in Shard, SerialInsert(s) PROVE Promise!Insert
  <1>0. /\ TypeOK /\ Hashed /\ phase = "insert" /\ phase' = phase /\ ~par
        /\ pendRows[s] # <<>> /\ pendRows' = [pendRows EXCEPT ![s] = Tail(@)]
        /\ staged' = staged /\ pendRems' = pendRems
    BY DEF IInv, SerialInsert
  <1> PICK row \in Fresh : row = Head(pendRows[s]) /\ row.k \in Key /\ ShardOf(row.k) = s
    BY <1>0, TakeFirst DEF SerialInsert, envVars
  <1> PICK k \in Key : k = row.k
    OBVIOUS
  <1>1. row \in Fresh /\ row = Head(pendRows[s]) /\ k \in Key /\ k = row.k /\ ShardOf(k) = s
    OBVIOUS
  <1> DEFINE id == hash[k]
             new == Len(data) + 1
  <1>2. row.v \in Val /\ Absent \notin Val
    BY <1>1, StaleAssumption DEF Fresh
  <1>3. Len(data) \in Nat /\ DOMAIN data = 1 .. Len(data)
    BY <1>0, LenProperties DEF TypeOK
  <1>4. \A j \in Key : StagedVal(j) = Absent /\ StagedVal(j)' = Absent
    <2>1. \A j \in Key : staged[ShardOf(j)] = <<>>
      BY <1>0, ShardAssumption DEF IInv, StagedOnce, NoRows
    <2> QED
      BY <1>0, <2>1 DEF AllSeen, Seen
  <1>5. Map[k] = Lookup(k)
    BY <1>1, <1>4 DEF AllSeen, Seen, Over
  <1>6. /\ Lookup(k)' = Over(Lookup(k), row.v)
        /\ \A j \in Key : j # k => Lookup(j)' = Lookup(j)
    <2>1. CASE id # 0 /\ ~Wins(data[id], row) /\ UNCHANGED <<data, hash>>
      <3>1. \A j \in Key : Lookup(j)' = Lookup(j)
        BY <2>1 DEF Lookup
      <3>2. Lookup(k) = data[id].v /\ Lookup(k) \in Val
        BY <1>1, <2>1 DEF AllSeen, Seen
      <3>3. Combine(data[id].v, row.v) = data[id].v
        BY <2>1 DEF Wins
      <3>4. Over(Lookup(k), row.v) = Lookup(k)
        BY <1>2, <3>2, <3>3 DEF Over
      <3> QED
        BY <1>1, <3>1, <3>4
    <2>2. CASE /\ id # 0 => Wins(data[id], row)
               /\ hash' = [hash EXCEPT ![k] = new]
               /\ id # 0 => id \in DOMAIN data /\ data[id].k = k
               /\ data'[new].v = (IF id = 0 THEN row.v ELSE Combine(data[id].v, row.v))
               /\ \A j \in DOMAIN data :
                     data'[j] = IF id # 0 /\ j = id THEN Kill(data[id]) ELSE data[j]
      <3>1. hash'[k] = new /\ \A j \in Key : j # k => hash'[j] = hash[j]
        BY <1>0, <1>1, <2>2 DEF TypeOK
      <3>2. Lookup(k)' = data'[new].v
        BY <1>3, <3>1 DEF Lookup
      <3>3. data'[new].v = Over(Lookup(k), row.v)
        <4>1. CASE id = 0
          BY <1>1, <1>2, <2>2, <4>1 DEF AllSeen, Seen, Over
        <4>2. CASE id # 0
          <5>1. Lookup(k) = data[id].v /\ Lookup(k) \in Val
            BY <1>1, <4>2 DEF AllSeen, Seen
          <5> QED
            BY <1>2, <2>2, <4>2, <5>1 DEF Over
        <4> QED
          BY <4>1, <4>2
      <3>4. ASSUME NEW j \in Key, j # k PROVE Lookup(j)' = Lookup(j)
        <4>1. hash[j] # 0 => hash[j] \in DOMAIN data /\ data[hash[j]].k = j
          BY <1>0 DEF AllSeen, Seen, Hashed
        <4>2. hash[j] # 0 => ~(id # 0 /\ hash[j] = id)
          BY <2>2, <3>4, <4>1
        <4>3. hash[j] # 0 => data'[hash[j]] = data[hash[j]]
          BY <2>2, <4>1, <4>2
        <4> QED
          BY <3>1, <3>4, <4>3 DEF Lookup
      <3> QED
        BY <3>2, <3>3, <3>4
    <2>3. \/ id # 0 /\ ~Wins(data[id], row) /\ UNCHANGED <<data, hash>>
          \/ /\ id # 0 => Wins(data[id], row)
             /\ hash' = [hash EXCEPT ![k] = new]
             /\ id # 0 => id \in DOMAIN data /\ data[id].k = k
             /\ data'[new].v = (IF id = 0 THEN row.v ELSE Combine(data[id].v, row.v))
             /\ \A j \in DOMAIN data :
                   data'[j] = IF id # 0 /\ j = id THEN Kill(data[id]) ELSE data[j]
      <3>1. k = Head(pendRows[s]).k /\ row = Head(pendRows[s])
        BY <1>1
      <3> QED
        BY <3>1, SerialInsertRow
    <2> QED
      BY <2>1, <2>2, <2>3
  <1>7. Over(Lookup(k)', StagedVal(k)') = Over(Map[k], row.v)
    BY <1>1, <1>4, <1>5, <1>6 DEF Over
  <1>8. /\ Inserts[k] # <<>> /\ Head(Inserts[k]) = row.v
        /\ Inserts' = [Inserts EXCEPT ![k] = Tail(@)]
    BY <1>0, <1>1, TakeFirstInserts
  <1> QED
    BY <1>0, <1>1, <1>2, <1>4, <1>6, <1>7, <1>8, InsertOne

LEMMA StageRowStep ==
    ASSUME MergesInParallel, TRUE \in Parallel,
           IInv, AllSeen, AllSeen', NEW s \in Shard, StageRow(s)
    PROVE  Promise!Insert
  <1>0. /\ TypeOK /\ phase = "insert" /\ phase' = phase /\ UNCHANGED <<data, hash, pendRems>>
        /\ pendRows[s] # <<>> /\ pendRows' = [pendRows EXCEPT ![s] = Tail(@)]
    BY DEF IInv, StageRow
  <1> PICK row \in Fresh : row = Head(pendRows[s]) /\ row.k \in Key /\ ShardOf(row.k) = s
    BY <1>0, TakeFirst DEF StageRow, envVars
  <1> PICK k \in Key : k = row.k
    OBVIOUS
  <1>1. row \in Fresh /\ row = Head(pendRows[s]) /\ k \in Key /\ k = row.k /\ ShardOf(k) = s
    OBVIOUS
  <1> DEFINE q == staged[s]
             i == StagedRow(s, k)
             d == IF i = 0 THEN q ELSE [q EXCEPT ![i] = Kill(@)]
             r == IF i = 0 THEN row ELSE Merged(q[i], row)
  <1>2. row.v \in Val /\ Absent \notin Val
    BY <1>1, StaleAssumption DEF Fresh
  <1>3. \A j \in Key : Lookup(j)' = Lookup(j)
    BY <1>0 DEF Lookup
  <1>4. /\ i = 0 => \A j \in DOMAIN q : q[j].k # k
        /\ i # 0 => i \in DOMAIN q /\ q[i].k = k
        /\ DOMAIN q = 1 .. Len(q) /\ Len(q) \in Nat
    BY <1>1, StageRowRow
  <1>5. /\ i = 0 => StagedVal(k) = Absent
        /\ i # 0 => StagedVal(k) = q[i].v /\ StagedVal(k) \in Val
    <2>1. i # 0 => q[i].v \in Val
      <3>1. i # 0 => q[i] \in Row
        BY <1>1, StageRowRow
      <3> QED
        BY <3>1 DEF Row
    <2> QED
      BY <1>1, <1>4, <2>1 DEF AllSeen, Seen
  <1>6. StagedVal(k)' = Over(StagedVal(k), row.v) /\ \A j \in Key : j # k => StagedVal(j)' = StagedVal(j)
    <2>1. CASE i # 0 /\ ~Wins(q[i], row) /\ staged' = [staged EXCEPT ![s] = q]
      <3>1. staged' = staged
        BY <1>0, <2>1 DEF TypeOK
      <3>2. \A j \in Key : StagedVal(j)' = StagedVal(j)
        BY <3>1 DEF StagedVal, StagedRow
      <3>3. Combine(q[i].v, row.v) = q[i].v
        BY <2>1 DEF Wins
      <3>4. Over(StagedVal(k), row.v) = StagedVal(k)
        BY <1>2, <1>5, <2>1, <3>3 DEF Over
      <3> QED
        BY <1>1, <3>2, <3>4
    <2>2. CASE (i # 0 => Wins(q[i], row)) /\ staged' = [staged EXCEPT ![s] = Append(d, r)]
      <3>1. /\ staged'[s] = Append(d, r)
            /\ \A u \in Shard : u # s => staged'[u] = staged[u]
        BY <1>0, <2>2 DEF TypeOK
      <3>2. /\ r.k = k /\ r.v = IF i = 0 THEN row.v ELSE Combine(q[i].v, row.v)
            /\ \A j \in DOMAIN q : d[j] = IF i # 0 /\ j = i THEN Kill(q[i]) ELSE q[j]
            /\ DOMAIN Append(d, r) = 1 .. Len(q) + 1
            /\ Append(d, r)[Len(q) + 1] = r
            /\ \A j \in DOMAIN q : Append(d, r)[j] = d[j]
        BY <1>1, StageRowRow
      <3>3. r.v = Over(StagedVal(k), row.v)
        BY <1>2, <1>5, <3>2 DEF Over
      <3> HIDE DEF d, r, q, i
      <3>4. StagedVal(k)' = r.v
        <4>1. Len(q) + 1 \in DOMAIN staged'[ShardOf(k)]
          BY <1>1, <1>4, <3>1, <3>2
        <4>2. staged'[ShardOf(k)][Len(q) + 1] = r
          BY <1>1, <3>1, <3>2
        <4> QED
          BY <1>1, <3>2, <4>1, <4>2 DEF AllSeen, Seen
      <3>5. ASSUME NEW j \in Key, j # k PROVE StagedVal(j)' = StagedVal(j)
        <4>1. CASE ShardOf(j) # s
          <5>1. staged'[ShardOf(j)] = staged[ShardOf(j)]
            BY <3>1, <4>1, ShardAssumption
          <5> QED
            BY <5>1 DEF StagedVal, StagedRow
        <4>2. CASE ShardOf(j) = s
          <5>1. staged'[ShardOf(j)] = Append(d, r) /\ staged[ShardOf(j)] = q
            BY <3>1, <4>2 DEF q
          <5>2. CASE \E m \in DOMAIN q : q[m].k = j
            <6>1. PICK m \in DOMAIN q : q[m].k = j
              BY <5>2
            <6>2. ~(i # 0 /\ m = i)
              BY <1>4, <3>5, <6>1
            <6>3. Append(d, r)[m] = q[m] /\ m \in DOMAIN Append(d, r)
              BY <1>4, <3>2, <6>1, <6>2
            <6>4. StagedVal(j) = q[m].v
              BY <5>1, <6>1 DEF AllSeen, Seen
            <6>5. StagedVal(j)' = q[m].v
              BY <5>1, <6>1, <6>3 DEF AllSeen, Seen
            <6> QED
              BY <6>4, <6>5
          <5>3. CASE ~\E m \in DOMAIN q : q[m].k = j
            <6>1. ASSUME NEW m \in DOMAIN Append(d, r) PROVE Append(d, r)[m].k # j
              <7>1. CASE m = Len(q) + 1
                BY <3>2, <3>5, <7>1
              <7>2. CASE m # Len(q) + 1
                <8>1. m \in DOMAIN q
                  BY <1>4, <3>2, <7>2
                <8>2. Append(d, r)[m] = q[m] \/ Append(d, r)[m].k = Stale
                  <9>1. Kill(q[m]).k = Stale
                    <10>1. q[m] \in Row
                      BY <1>1, <8>1, StageRowRow DEF q
                    <10> QED
                      BY <10>1 DEF Kill, Row
                  <9> QED
                    BY <3>2, <8>1, <9>1
                <8> QED
                  BY <5>3, <8>1, <8>2, StaleAssumption
              <7> QED
                BY <7>1, <7>2
            <6>2. StagedVal(j) = Absent
              BY <5>1, <5>3 DEF AllSeen, Seen
            <6>3. StagedVal(j)' = Absent
              BY <5>1, <6>1 DEF AllSeen, Seen
            <6> QED
              BY <6>2, <6>3
          <5> QED
            BY <5>2, <5>3
        <4> QED
          BY <4>1, <4>2
      <3> QED
        BY <3>3, <3>4, <3>5
    <2> QED
      BY <1>1, <2>1, <2>2, StageRowRow
  <1>7. Over(Lookup(k)', StagedVal(k)') = Over(Map[k], row.v)
    <2> DEFINE x == Lookup(k)
               y == StagedVal(k)
               v == row.v
    <2>1. x \in Val \cup {Absent} /\ y \in Val \cup {Absent} /\ v \in Val /\ Map[k] = Over(x, y)
      BY <1>1, <1>2 DEF AllSeen, Seen
    <2>2. Lookup(k)' = x /\ StagedVal(k)' = Over(y, v)
      BY <1>1, <1>3, <1>6
    <2> HIDE DEF x, y, v
    <2>3. Over(Over(x, y), v) = Over(x, Over(y, v))
      BY <2>1, OverAssociates DEF MergesInParallel
    <2>4. Over(Lookup(k)', StagedVal(k)') = Over(Map[k], v)
      BY <2>1, <2>2, <2>3
    <2> QED
      BY <2>4 DEF v
  <1>8. /\ Inserts[k] # <<>> /\ Head(Inserts[k]) = row.v
        /\ Inserts' = [Inserts EXCEPT ![k] = Tail(@)]
    BY <1>0, <1>1, TakeFirstInserts
  <1> QED
    BY <1>0, <1>1, <1>2, <1>3, <1>6, <1>7, <1>8, InsertOne

(* A flush moves the staged values into the table, or drops those that lose *)
(* there: to a user nothing happens.                                        *)
LEMMA FlushSame ==
    ASSUME MergesInParallel, TRUE \in Parallel,
           IInv, AllSeen, AllSeen', NEW s \in Shard, Flush(s)
    PROVE  Same
  <1> DEFINE block == staged[s]
             base == Len(data)
             Old(i) == hash[block[i].k]
             Loses(i) == Old(i) # 0 /\ ~Wins(data[Old(i)], block[i])
             entered == {i \in StagedLive(s) : ~Loses(i)}
             replaced == {Old(i) : i \in entered} \ {0}
  <1>0. /\ TypeOK /\ Hashed /\ staged' = [staged EXCEPT ![s] = <<>>]
        /\ UNCHANGED <<pendRows, pendRems, phase>>
    BY DEF IInv, Flush, FlushRows, queueVars
  <1>1. /\ staged'[s] = <<>> /\ \A u \in Shard : u # s => staged'[u] = staged[u]
        /\ base \in Nat /\ DOMAIN data = 1 .. base /\ DOMAIN block = 1 .. Len(block)
        /\ \A i \in DOMAIN block : block[i] \in Row
    BY <1>0, LenProperties, ElementOfSeq DEF TypeOK
  <1>2. \A i \in entered :
           /\ i \in DOMAIN block /\ block[i].k \in Key
           /\ StagedRow(s, block[i].k) = i
           /\ Old(i) # 0 => Old(i) \in DOMAIN data /\ data[Old(i)].k = block[i].k
    BY FlushRow
  <1>3. \A k \in Key : hash'[k] =
           IF \E i \in entered : block[i].k = k THEN base + StagedRow(s, k) ELSE hash[k]
    BY FlushRow
  <1>4. /\ \A j \in DOMAIN data : data'[j] = IF j \in replaced THEN Kill(data[j]) ELSE data[j]
        /\ \A i \in DOMAIN block : data'[base + i] = IF i \in entered THEN block[i] ELSE Kill(block[i])
    BY FlushRow
  <1>5. \A j \in replaced : \E i \in entered : data[j].k = block[i].k
    BY <1>2
  <1>6. \A i \in DOMAIN block : Live(block[i]) /\ ~Loses(i) => i \in entered
    BY DEF StagedLive
  <1>7. \A i \in entered : ~Loses(i)
    OBVIOUS
  <1> HIDE DEF entered, replaced
  <1>8. ASSUME NEW k \in Key, ~\E i \in entered : block[i].k = k
        PROVE  Lookup(k)' = Lookup(k)
    <2>1. hash'[k] = hash[k]
      BY <1>3, <1>8
    <2>2. hash[k] # 0 => hash[k] \in DOMAIN data /\ data[hash[k]].k = k
      BY <1>0 DEF AllSeen, Seen, Hashed
    <2>3. hash[k] # 0 => hash[k] \notin replaced
      BY <1>5, <1>8, <2>2
    <2>4. hash[k] # 0 => data'[hash[k]] = data[hash[k]]
      BY <1>4, <2>2, <2>3
    <2> QED
      BY <2>1, <2>4 DEF Lookup
  <1>9. ASSUME NEW k \in Key PROVE Map'[k] = Map[k]
    <2> DEFINE x == Lookup(k)
    <2>0. /\ Map[k] = Over(x, StagedVal(k)) /\ Map'[k] = Over(Lookup(k)', StagedVal(k)')
          /\ x \in Val \cup {Absent} /\ Absent \notin Val
      BY StaleAssumption DEF AllSeen, Seen
    <2>1. CASE ShardOf(k) # s
      <3>1. staged'[ShardOf(k)] = staged[ShardOf(k)]
        BY <1>1, <2>1, ShardAssumption
      <3>2. StagedVal(k)' = StagedVal(k)
        BY <3>1 DEF StagedVal, StagedRow
      <3>3. ~\E i \in entered : block[i].k = k
        <4> SUFFICES ASSUME NEW i \in entered, block[i].k = k PROVE FALSE
          OBVIOUS
        <4>1. i \in DOMAIN staged[s] /\ Live(staged[s][i]) /\ staged[s][i].k = k
          BY <1>2, RowFacts, <1>1
        <4>2. ShardOf(k) = s
          BY <4>1 DEF IInv, RowsUnderWay, Current
        <4> QED
          BY <2>1, <4>2
      <3> QED
        BY <1>8, <2>0, <3>2, <3>3
    <2>2. CASE ShardOf(k) = s
      <3>1. StagedVal(k)' = Absent
        BY <1>1, <2>2 DEF AllSeen, Seen
      <3>2. Map'[k] = Lookup(k)'
        BY <2>0, <3>1 DEF Over
      <3>3. CASE \A i \in DOMAIN block : block[i].k # k
        <4>1. StagedVal(k) = Absent
          BY <2>2, <3>3 DEF AllSeen, Seen
        <4>2. Map[k] = x
          BY <2>0, <4>1 DEF Over
        <4> QED
          BY <1>2, <1>8, <3>2, <3>3, <4>2
      <3>4. CASE \E i \in DOMAIN block : block[i].k = k
        <4>1. PICK i \in DOMAIN block : block[i].k = k
          BY <3>4
        <4>2. /\ StagedVal(k) = block[i].v /\ block[i].v \in Val /\ Live(block[i])
              /\ \A j \in DOMAIN block : block[j].k = k => j = i
          <5>1. StagedVal(k) = block[i].v
            BY <2>2, <4>1 DEF AllSeen, Seen
          <5>2. block[i].v \in Val /\ Live(block[i])
            BY <1>1, <4>1, RowFacts DEF Row
          <5>3. \A j \in DOMAIN block : block[j].k = k => j = i
            BY <4>1, StagedRowFacts
          <5> QED
            BY <5>1, <5>2, <5>3
        <4>3. CASE Loses(i)
          <5>1. ~\E j \in entered : block[j].k = k
            BY <1>2, <1>7, <4>2, <4>3
          <5>2. x = data[hash[k]].v /\ Combine(x, block[i].v) = x /\ x \in Val
            BY <4>1, <4>3 DEF AllSeen, Seen, Wins
          <5>3. Over(x, block[i].v) = x
            BY <2>0, <4>2, <5>2 DEF Over
          <5> QED
            BY <1>8, <2>0, <3>2, <4>2, <5>1, <5>3
        <4>4. CASE ~Loses(i)
          <5>1. i \in entered /\ base + i # 0
            BY <1>1, <1>6, <4>2, <4>4
          <5>2. StagedRow(s, k) = i
            BY <1>2, <4>1, <5>1
          <5>3. hash'[k] = base + i
            BY <1>3, <4>1, <5>1, <5>2
          <5>4. data'[base + i] = block[i]
            BY <1>4, <5>1
          <5>5. Lookup(k)' = block[i].v
            BY <5>1, <5>3, <5>4 DEF Lookup
          <5>6. Over(x, block[i].v) = block[i].v
            <6>1. CASE hash[k] = 0
              BY <2>0, <4>2, <6>1 DEF AllSeen, Seen, Over
            <6>2. CASE hash[k] # 0
              <7>1. x = data[hash[k]].v /\ x \in Val
                BY <6>2 DEF AllSeen, Seen
              <7>2. Combine(x, block[i].v) # x
                BY <4>1, <4>4, <6>2, <7>1 DEF Wins
              <7>3. Combine(x, block[i].v) = block[i].v
                BY <4>2, <7>1, <7>2 DEF MergesInParallel
              <7> QED
                BY <2>0, <4>2, <7>1, <7>3 DEF Over
            <6> QED
              BY <6>1, <6>2
          <5> QED
            BY <2>0, <3>2, <4>2, <5>5, <5>6
        <4> QED
          BY <4>3, <4>4
      <3> QED
        BY <3>3, <3>4
    <2> QED
      BY <2>1, <2>2
  <1>10. Map' = Map
    <2>1. Map = [k \in Key |-> Map[k]] /\ Map' = [k \in Key |-> Map'[k]]
      BY DEF Map
    <2> HIDE DEF Map
    <2> QED
      BY <1>9, <2>1
  <1>11. UNCHANGED <<pendRems, Inserts, Merging>>
    BY <1>0, SameInserts DEF Merging
  <1> QED
    BY <1>10, <1>11 DEF Same

-----------------------------------------------------------------------------
LEMMA InitPromise == Init => Promise!Init
  <1> SUFFICES ASSUME Init PROVE Promise!Init
    OBVIOUS
  <1>1. \A k \in Key : ShardOf(k) \in Shard /\ staged[ShardOf(k)] = <<>> /\ pendRows[ShardOf(k)] = <<>>
    BY ShardAssumption DEF Init, NoRows
  <1>2. \A k \in Key : Inserts[k] = <<>>
    BY <1>1, EmptyInserts
  <1>3. \A k \in Key : Map[k] = Absent
    <2>1. IInv /\ staged = NoRows
      BY InitIInv DEF Init
    <2>2. \A k \in Key : Map[k] = Lookup(k)
      BY <2>1, UnstagedMap
    <2> QED
      BY <2>2 DEF Init, Lookup
  <1>4. Merging = "no" /\ pendRems = {}
    BY DEF Init, Merging
  <1>5. Map = [k \in Key |-> Map[k]] /\ Inserts = [k \in Key |-> Inserts[k]]
    BY MapIs
  <1> HIDE DEF Map, Inserts
  <1> QED
    BY <1>2, <1>3, <1>4, <1>5 DEF Promise!Init

(* The threads of a merge run only where merges may use threads.            *)
ParAllowed == phase = "insert" /\ par => TRUE \in Parallel

LEMMA ParAllowedKept ==
    ASSUME IInv, ParAllowed, [Next]_vars PROVE ParAllowed'
  <1>1. CASE BeginInsert
    BY <1>1 DEF BeginInsert, ParAllowed
  <1>2. CASE phase' # "insert" \/ (phase' = phase /\ par' = par)
    BY <1>2 DEF ParAllowed
  <1>3. CASE \E s \in Shard : SerialInsert(s) \/ StageRow(s) \/ Flush(s)
    BY <1>2, <1>3 DEF SerialInsert, StageRow, Flush
  <1>4. CASE \E k \in Key : Delete(k)
    BY <1>2, <1>4 DEF Delete
  <1>5. CASE \E h \in Handle : DropBuffer(h) \/ \E k \in Key : StageRemove(h, k)
    BY <1>2, <1>5 DEF DropBuffer, StageRemove
  <1>6. CASE \E h \in Handle : \E k \in Key : \E v \in Val : StageInsert(h, k, v)
    BY <1>2, <1>6 DEF StageInsert
  <1>7. CASE Tick \/ Clear \/ BeginMerge \/ EndInsert \/ SkipRehash \/ Rehash \/ UNCHANGED vars
    BY <1>2, <1>7 DEF Tick, Clear, BeginMerge, EndInsert, SkipRehash, Rehash, vars
  <1> QED
    BY <1>1, <1>3, <1>4, <1>5, <1>6, <1>7 DEF Next

LEMMA PromiseStep ==
    ASSUME MergesInParallel, IInv, IInv', AllSeen, AllSeen', ParAllowed, [Next]_vars
    PROVE  [Promise!Next]_(Promise!vars)
  <1>1. Same => [Promise!Next]_(Promise!vars)
    BY DEF Same, Promise!vars
  <1>2. ASSUME \/ Promise!Stage \/ Promise!Clear \/ Promise!Begin \/ Promise!Remove
               \/ Promise!Removed \/ Promise!Insert \/ Promise!End
        PROVE  [Promise!Next]_(Promise!vars)
    BY <1>2 DEF Promise!Next
  <1>3. ASSUME NEW h \in Handle, NEW k \in Key, NEW v \in Val, StageInsert(h, k, v)
        PROVE  Same
    BY <1>3, OutsideStep
  <1>4. ASSUME NEW h \in Handle, NEW k \in Key, StageRemove(h, k) PROVE Same
    BY <1>4, OutsideStep
  <1>5. ASSUME NEW h \in Handle, DropBuffer(h) PROVE Promise!Stage
    BY <1>5, StageStep
  <1>6. CASE Tick \/ SkipRehash \/ UNCHANGED vars
    BY <1>1, <1>6, OutsideStep
  <1>7. CASE Clear
    BY <1>2, <1>7, ClearedStep
  <1>8. CASE BeginMerge
    BY <1>2, <1>8, OutsideStep
  <1>9. CASE BeginInsert
    BY <1>2, <1>9, OutsideStep
  <1>10. CASE EndInsert
    BY <1>2, <1>10, EndStep
  <1>11. ASSUME NEW k \in Key, Delete(k) PROVE Promise!Remove
    BY <1>11, RemoveStep
  <1>12. ASSUME NEW s \in Shard, SerialInsert(s) PROVE Promise!Insert
    BY <1>12, SerialStep
  <1>13. ASSUME NEW s \in Shard, StageRow(s) PROVE Promise!Insert
    <2>1. TRUE \in Parallel
      BY <1>13 DEF StageRow, ParAllowed
    <2> QED
      BY <1>13, <2>1, StageRowStep
  <1>14. ASSUME NEW s \in Shard, Flush(s) PROVE Same
    <2>1. TRUE \in Parallel
      BY <1>14 DEF Flush, ParAllowed
    <2> QED
      BY <1>14, <2>1, FlushSame
  <1>15. CASE Rehash
    BY <1>1, <1>15, RehashSame
  <1> QED
    BY <1>1, <1>2, <1>3, <1>4, <1>5, <1>6, <1>7, <1>8, <1>9, <1>10, <1>11, <1>12,
       <1>13, <1>14, <1>15 DEF Next

-----------------------------------------------------------------------------
(* The variables of the table have their types: a hash entry and an offset  *)
(* are always ids of rows, or 0 (SortedWritesTable in core-relations).      *)
THEOREM TypeCorrect == Spec => []TypeOK
  <1>1. IInv => TypeOK
    BY DEF IInv
  <1> QED
    BY <1>1, Invariant, PTL

(* The hash table holds the live rows and nothing else, and the table's     *)
(* length counts its keys, through serial and parallel merges and rehashes. *)
THEOREM HashCorrect == Spec => []HashIsLive
  BY HashIsLiveHolds, Invariant, PTL

(* fast_subset answers a constraint on the timestamp exactly between merges.*)
THEOREM SubsetsAreExact == Spec => []FastSubsetExact
  BY FastSubsetExactHolds, Invariant, PTL

(* A row id stands for the same row, alive or marked stale, for as long as  *)
(* the generation lasts: what TableVersion promises its readers.            *)
THEOREM RowIdsAreStable == Spec => RowsStable
  <1>1. IInv /\ [Next]_vars => [gen' = gen => Grows]_vars
    BY Step
  <1>2. [gen' = gen => Grows]_vars =>
        [gen' = gen =>
           /\ Len(data) <= Len(data')
           /\ \A i \in DOMAIN data : data'[i] \in {data[i], Kill(data[i])}]_vars
    BY DEF Grows
  <1> QED
    BY <1>1, <1>2, Invariant, PTL DEF Spec, RowsStable

(* A merge that changes what any lookup returns reports that it changed the *)
(* table, and no later step of it takes the report back.                    *)
THEOREM ChangesAreReported == Spec => ChangesReported
  <1>1. IInv /\ [Next]_vars =>
        [\A k \in Key : phase # "idle" /\ Lookup(k)' # Lookup(k) => changed']_vars
    BY Step DEF Reports
  <1> QED
    BY <1>1, Invariant, PTL DEF Spec, ChangesReported

(* A table keeps the promise of KeyedTable: it is a map from keys to values *)
(* that a merge alone changes, removals first and then the insertions of    *)
(* each key in the order they were staged, however many threads insert and  *)
(* in whatever batches.  Merges with threads need an associative merge      *)
(* function that returns one of its arguments.                              *)
THEOREM TableKeepsItsPromise ==
    ASSUME MergesInParallel PROVE Spec => KeepsPromise
  <1>1. Init => Promise!Init /\ ParAllowed
    BY InitPromise DEF Init, ParAllowed
  <1>2. IInv /\ ParAllowed /\ [Next]_vars => ParAllowed'
    BY ParAllowedKept
  <1>3. IInv /\ IInv' /\ AllSeen /\ AllSeen' /\ ParAllowed /\ [Next]_vars
        => [Promise!Next]_(Promise!vars)
    BY PromiseStep
  <1>4. IInv => AllSeen
    BY SeenHolds
  <1>5. IInv' => AllSeen'
    BY <1>4, PTL
  <1> QED
    BY <1>1, <1>2, <1>3, <1>4, <1>5, Invariant, PTL DEF Spec, KeepsPromise, Promise!Spec

=============================================================================
