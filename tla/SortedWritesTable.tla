------------------------- MODULE SortedWritesTable -------------------------
(***************************************************************************)
(* The table of core-relations/src/table/mod.rs: an append-only buffer of  *)
(* rows, in which an overwritten or removed row is only marked stale, a    *)
(* hash table from keys to their live rows, and the rows at which each     *)
(* value of the sort column (a timestamp) begins.  Mutations are staged in *)
(* buffers, flushed to queues per shard when a buffer is dropped, and      *)
(* applied by merge, serially or with a thread per shard.                  *)
(*                                                                         *)
(* A row is its key, its value and its timestamp; row ids count from 1.    *)
(* Nothing reads the table while it is merging (merge takes &mut self), so *)
(* the threads of a parallel merge touch disjoint keys and what they share *)
(* is the order in which they append: a shard's step is atomic.            *)
(***************************************************************************)
EXTENDS Naturals, FiniteSets, Sequences

CONSTANTS
    Key, Val,
    Stale,              \* the value that marks a stale row
    Absent,             \* "no row" in a lookup
    Shard,              \* the shards of the hash table, a set of numbers
    ShardOf(_),         \* the shard of a key
    Combine(_, _),      \* what the merge function makes of an old and a new value
    Handle,             \* mutation buffers
    MaxTime,            \* timestamps are 1 .. MaxTime
    Budget,             \* bound: mutations staged and clears in all
    Batch,              \* staged rows that trigger a flush of a parallel insert
    StaleFloor,         \* stale rows always tolerated (16 in the code)
    Parallel            \* may a merge use threads?  a subset of BOOLEAN

ASSUME StaleAssumption == Stale \notin Key /\ Absent \notin Val
ASSUME ShardAssumption == Shard \subseteq Nat /\ \A k \in Key : ShardOf(k) \in Shard
ASSUME BoundsAssumption ==
    /\ MaxTime \in Nat \ {0} /\ Budget \in Nat /\ Batch \in Nat \ {0}
    /\ StaleFloor \in Nat
    /\ Parallel \subseteq BOOLEAN /\ Parallel # {}
ASSUME CombineAssumption == \A x, y \in Val : Combine(x, y) \in Val

(* What a parallel merge needs of the merge function to combine rows as the *)
(* serial one does: it is associative, and what it makes of two values is   *)
(* one of them (parallel_insert keeps the incoming row, whatever the merge  *)
(* function wrote).                                                         *)
MergesInParallel ==
    TRUE \in Parallel =>
        /\ \A x, y \in Val : Combine(x, y) \in {x, y}
        /\ \A x, y, z \in Val : Combine(Combine(x, y), z) = Combine(x, Combine(y, z))

Time == 1 .. MaxTime
Row == [k : Key \cup {Stale}, v : Val, t : Time]
Fresh == [k : Key, v : Val, t : Time]       \* a row as it is staged

VARIABLES
    data,       \* the rows
    stale,      \* how many of them are counted as stale
    hash,       \* the row of each key, 0 if it has none
    offsets,    \* where each timestamp begins, 0 if it does not
    gen,        \* the generation: row ids are stable within one
    buffered,   \* what each mutation buffer holds: rows per shard, keys to remove
    pendRows,   \* the rows pending, a queue per shard
    pendRems,   \* the keys pending removal
    phase,      \* what merge is doing
    par,        \* whether it does so with a thread per shard
    staged,     \* StagedOutputs of each shard
    start,      \* next_offset: the first row of a parallel insert
    changed,    \* what merge will report
    now,        \* environment: the current timestamp
    left        \* environment: what is left of the budget

envVars == <<now, left>>
queueVars == <<buffered, pendRows, pendRems>>
vars == <<data, stale, hash, offsets, gen, queueVars, phase, par, staged,
          start, changed, envVars>>

Live(row) == row.k # Stale
Kill(row) == [row EXCEPT !.k = Stale]
SetMin(S) == CHOOSE x \in S : \A y \in S : x <= y
NoRows == [s \in Shard |-> <<>>]
EmptyBuffer == [rows |-> NoRows, rems |-> {}]

Init ==
    /\ data = <<>> /\ stale = 0
    /\ hash = [k \in Key |-> 0]
    /\ offsets = [t \in Time |-> 0]
    /\ gen = 0
    /\ buffered = [h \in Handle |-> EmptyBuffer]
    /\ pendRows = NoRows /\ pendRems = {}
    /\ phase = "idle" /\ par = FALSE
    /\ staged = NoRows
    /\ start = 0
    /\ changed = FALSE
    /\ now = 1 /\ left = Budget

-----------------------------------------------------------------------------
(* Staging.                                                                 *)

StageInsert(h, k, v) ==
    /\ phase = "idle" /\ left > 0 /\ left' = left - 1
    /\ buffered' = [buffered EXCEPT ![h].rows[ShardOf(k)] = Append(@, [k |-> k, v |-> v, t |-> now])]
    /\ UNCHANGED <<data, stale, hash, offsets, gen, pendRows, pendRems, phase,
                   par, staged, start, changed, now>>

StageRemove(h, k) ==
    /\ phase = "idle" /\ left > 0 /\ left' = left - 1
    /\ buffered' = [buffered EXCEPT ![h].rems = @ \cup {k}]
    /\ UNCHANGED <<data, stale, hash, offsets, gen, pendRows, pendRems, phase,
                   par, staged, start, changed, now>>

(* Buffer::drop flushes what the buffer holds, shard by shard.              *)
DropBuffer(h) ==
    /\ phase = "idle"
    /\ buffered[h] # EmptyBuffer
    /\ pendRows' = [s \in Shard |-> pendRows[s] \o buffered[h].rows[s]]
    /\ pendRems' = pendRems \cup buffered[h].rems
    /\ buffered' = [buffered EXCEPT ![h] = EmptyBuffer]
    /\ UNCHANGED <<data, stale, hash, offsets, gen, phase, par, staged, start,
                   changed, envVars>>

(* The caller moves on to a later timestamp only between merges.            *)
Tick ==
    /\ phase = "idle" /\ now < MaxTime /\ now' = now + 1
    /\ pendRows = NoRows /\ \A h \in Handle : buffered[h].rows = NoRows
    /\ UNCHANGED <<data, stale, hash, offsets, gen, queueVars, phase, par,
                   staged, start, changed, left>>

(* Mutant: a cleared table keeps its generation.                            *)
ClearSameGen ==
    /\ phase = "idle" /\ left > 0 /\ left' = left - 1
    /\ pendRows' = NoRows /\ pendRems' = {}
    /\ data' = <<>> /\ stale' = 0
    /\ offsets' = [t \in Time |-> 0]
    /\ hash' = [k \in Key |-> 0]
    /\ UNCHANGED <<gen, buffered, phase, par, staged, start, changed, now>>

(* clear drops what is pending too, and starts a generation.                *)
Clear ==
    /\ phase = "idle" /\ left > 0 /\ left' = left - 1
    /\ pendRows' = NoRows /\ pendRems' = {}
    /\ IF data = <<>> THEN UNCHANGED <<data, stale, hash, offsets, gen>>
       ELSE /\ data' = <<>> /\ stale' = 0
            /\ offsets' = [t \in Time |-> 0]
            /\ hash' = [k \in Key |-> 0]
            /\ gen' = gen + 1
    /\ UNCHANGED <<buffered, phase, par, staged, start, changed, now>>

-----------------------------------------------------------------------------
(* merge: do_delete.                                                        *)

BeginMerge ==
    /\ phase = "idle" /\ phase' = "delete"
    /\ changed' = FALSE
    /\ UNCHANGED <<data, stale, hash, offsets, gen, queueVars, par, staged,
                   start, envVars>>

Delete(k) ==
    /\ phase = "delete" /\ k \in pendRems
    /\ pendRems' = pendRems \ {k}
    /\ IF hash[k] = 0 THEN UNCHANGED <<data, stale, hash, changed>>
       ELSE /\ data' = [data EXCEPT ![hash[k]] = Kill(@)]
            /\ stale' = stale + 1
            /\ hash' = [hash EXCEPT ![k] = 0]
            /\ changed' = TRUE
    /\ UNCHANGED <<offsets, gen, buffered, pendRows, phase, par, staged,
                   start, envVars>>

BeginInsert ==
    /\ phase = "delete" /\ pendRems = {}
    /\ phase' = "insert"
    /\ par' \in Parallel
    /\ start' = Len(data) + 1
    /\ UNCHANGED <<data, stale, hash, offsets, gen, queueVars, staged, changed,
                   envVars>>

-----------------------------------------------------------------------------
(* do_insert.                                                               *)

(* The merge function returned true: its output differs from the old row.   *)
Wins(old, new) == Combine(old.v, new.v) # old.v

Merged(old, new) == [new EXCEPT !.v = Combine(old.v, new.v)]

(* The largest timestamp of the table, 0 if there is none.                  *)
Largest ==
    CHOOSE m \in 0 .. MaxTime :
        /\ m # 0 => offsets[m] # 0
        /\ \A t \in Time : offsets[t] # 0 => t <= m

(* A row with timestamp t is written at index i.                            *)
OffsetsWith(t, i) ==
    IF t > Largest THEN [offsets EXCEPT ![t] = i] ELSE offsets

NoRowsBefore(s) == \A u \in Shard : u < s => pendRows[u] = <<>>

(* Mutant: the row that is overwritten is not counted as stale.             *)
SerialInsertUncounted(s) ==
    /\ phase = "insert" /\ ~par /\ NoRowsBefore(s) /\ pendRows[s] # <<>>
    /\ pendRows' = [pendRows EXCEPT ![s] = Tail(@)]
    /\ LET row == Head(pendRows[s])  id == hash[row.k]  new == Len(data) + 1 IN
       IF id # 0 /\ ~Wins(data[id], row)
       THEN UNCHANGED <<data, stale, hash, offsets, changed>>
       ELSE /\ data' = IF id = 0 THEN Append(data, row)
                       ELSE Append([data EXCEPT ![id] = Kill(@)], Merged(data[id], row))
            /\ hash' = [hash EXCEPT ![row.k] = new]
            /\ offsets' = OffsetsWith(row.t, new)
            /\ changed' = TRUE
            /\ UNCHANGED stale
    /\ UNCHANGED <<gen, buffered, pendRems, phase, par, staged, start, envVars>>

(* Mutant: a new value of an old key does not count as a change.            *)
SerialInsertSilent(s) ==
    /\ phase = "insert" /\ ~par /\ NoRowsBefore(s) /\ pendRows[s] # <<>>
    /\ pendRows' = [pendRows EXCEPT ![s] = Tail(@)]
    /\ LET row == Head(pendRows[s])  id == hash[row.k]  new == Len(data) + 1 IN
       IF id # 0 /\ ~Wins(data[id], row)
       THEN UNCHANGED <<data, stale, hash, offsets, changed>>
       ELSE /\ data' = IF id = 0 THEN Append(data, row)
                       ELSE Append([data EXCEPT ![id] = Kill(@)], Merged(data[id], row))
            /\ stale' = IF id = 0 THEN stale ELSE stale + 1
            /\ hash' = [hash EXCEPT ![row.k] = new]
            /\ offsets' = OffsetsWith(row.t, new)
            /\ changed' = (changed \/ id = 0)
    /\ UNCHANGED <<gen, buffered, pendRems, phase, par, staged, start, envVars>>

(* serial_insert takes one row from the first queue that has any.           *)
SerialInsert(s) ==
    /\ phase = "insert" /\ ~par /\ NoRowsBefore(s) /\ pendRows[s] # <<>>
    /\ pendRows' = [pendRows EXCEPT ![s] = Tail(@)]
    /\ LET row == Head(pendRows[s])  id == hash[row.k]  new == Len(data) + 1 IN
       IF id # 0 /\ ~Wins(data[id], row)
       THEN UNCHANGED <<data, stale, hash, offsets, changed>>
       ELSE /\ data' = IF id = 0 THEN Append(data, row)
                       ELSE Append([data EXCEPT ![id] = Kill(@)], Merged(data[id], row))
            /\ stale' = IF id = 0 THEN stale ELSE stale + 1
            /\ hash' = [hash EXCEPT ![row.k] = new]
            /\ offsets' = OffsetsWith(row.t, new)
            /\ changed' = TRUE
    /\ UNCHANGED <<gen, buffered, pendRems, phase, par, staged, start, envVars>>

(* The index of the live row of key k in a shard's staged rows, 0 if none.  *)
StagedRow(s, k) ==
    LET I == {i \in DOMAIN staged[s] : staged[s][i].k = k} IN
    IF I = {} THEN 0 ELSE SetMin(I)

StagedLive(s) == {i \in DOMAIN staged[s] : Live(staged[s][i])}

(* parallel_insert, phase 1: rows of one key that arrive in the same merge  *)
(* are merged with each other first.                                        *)
StageRow(s) ==
    /\ phase = "insert" /\ par /\ pendRows[s] # <<>>
    /\ Cardinality(StagedLive(s)) < Batch
    /\ pendRows' = [pendRows EXCEPT ![s] = Tail(@)]
    /\ LET row == Head(pendRows[s])  q == staged[s]  i == StagedRow(s, row.k) IN
       staged' = [staged EXCEPT ![s] =
          IF i = 0 THEN Append(q, row)
          ELSE IF Wins(q[i], row) THEN Append([q EXCEPT ![i] = Kill(@)], Merged(q[i], row))
          ELSE q]
    /\ UNCHANGED <<data, stale, hash, offsets, gen, buffered, pendRems, phase,
                   par, start, changed, envVars>>

(* Mutant: a batch is flushed as it is, over the rows flushed before.       *)
FlushOver(s) ==
    LET block == staged[s]
        base == Len(data)
        entered == StagedLive(s)
        replaced == {hash[block[i].k] : i \in entered} \ {0}
    IN
    /\ data' = [j \in 1 .. base + Len(block) |->
          IF j <= base THEN IF j \in replaced THEN Kill(data[j]) ELSE data[j]
          ELSE block[j - base]]
    /\ stale' = stale + Cardinality(DOMAIN block \ entered) + Cardinality(replaced)
    /\ hash' = [k \in Key |->
          IF \E i \in entered : block[i].k = k
          THEN base + StagedRow(s, k) ELSE hash[k]]
    /\ changed' = (changed \/ entered # {})
    /\ staged' = [staged EXCEPT ![s] = <<>>]

(* Phases 2 and 3: the staged rows are appended as one block, and each is   *)
(* then entered for its key, or marked stale if it loses to the row there.  *)
FlushRows(s) ==
    LET block == staged[s]
        base == Len(data)
        Old(i) == hash[block[i].k]
        Loses(i) == Old(i) # 0 /\ ~Wins(data[Old(i)], block[i])
        entered == {i \in StagedLive(s) : ~Loses(i)}
        replaced == {Old(i) : i \in entered} \ {0}
    IN
    /\ data' = [j \in 1 .. base + Len(block) |->
          IF j <= base THEN IF j \in replaced THEN Kill(data[j]) ELSE data[j]
          ELSE IF j - base \in entered THEN block[j - base] ELSE Kill(block[j - base])]
    /\ stale' = stale + Cardinality(DOMAIN block \ entered) + Cardinality(replaced)
    /\ hash' = [k \in Key |->
          IF \E i \in entered : block[i].k = k
          THEN base + StagedRow(s, k) ELSE hash[k]]
    /\ changed' = (changed \/ StagedLive(s) # {})
    /\ staged' = [staged EXCEPT ![s] = <<>>]

Flush(s) ==
    /\ phase = "insert" /\ par /\ staged[s] # <<>>
    /\ pendRows[s] = <<>> \/ Cardinality(StagedLive(s)) >= Batch
    /\ FlushRows(s)
    /\ UNCHANGED <<offsets, gen, queueVars, phase, par, start, envVars>>

(* Mutant: the rows of a parallel insert get no offset.                     *)
EndInsertNoOffset ==
    /\ phase = "insert"
    /\ \A s \in Shard : pendRows[s] = <<>> /\ staged[s] = <<>>
    /\ phase' = "rehash"
    /\ UNCHANGED <<data, stale, hash, offsets, gen, queueVars, par, staged,
                   start, changed, envVars>>

(* SortChecker: the rows of a parallel insert have one timestamp (asserted),*)
(* which begins where the insert did.                                       *)
EndInsert ==
    /\ phase = "insert"
    /\ \A s \in Shard : pendRows[s] = <<>> /\ staged[s] = <<>>
    /\ phase' = "rehash"
    /\ offsets' = IF par /\ start <= Len(data)
                  THEN OffsetsWith(data[start].t, start) ELSE offsets
    /\ UNCHANGED <<data, stale, hash, gen, queueVars, par, staged, start,
                   changed, envVars>>

-----------------------------------------------------------------------------
(* maybe_rehash.                                                            *)

Worthwhile ==
    stale > IF StaleFloor >= Len(data) \div 2 THEN StaleFloor ELSE Len(data) \div 2

SkipRehash ==
    /\ phase = "rehash" /\ ~Worthwhile /\ phase' = "idle"
    /\ UNCHANGED <<data, stale, hash, offsets, gen, queueVars, par, staged,
                   start, changed, envVars>>

LiveRows == {i \in DOMAIN data : Live(data[i])}

(* The live rows are written out again in the order "from": as they were by *)
(* rehash, regrouped by shard within each timestamp by parallel_rehash.     *)
Compact(from) ==
    /\ data' = [j \in DOMAIN from |-> data[from[j]]]
    /\ stale' = 0
    /\ hash' = [k \in Key |->
          IF hash[k] = 0 THEN 0 ELSE CHOOSE j \in DOMAIN from : from[j] = hash[k]]
    /\ offsets' = [t \in Time |->
          LET J == {j \in DOMAIN from : data[from[j]].t = t} IN
          IF J = {} THEN 0 ELSE SetMin(J)]

Injective(f) == \A i, j \in DOMAIN f : f[i] = f[j] => i = j

(* A parallel rehash keeps the order of timestamps and goes by shard below. *)
Regrouped(f) ==
    /\ TRUE \in Parallel
    /\ \A i, j \in DOMAIN f : i < j =>
          LET x == data[f[i]]  y == data[f[j]] IN
          x.t < y.t \/ (x.t = y.t /\ ShardOf(x.k) <= ShardOf(y.k))

Orders ==
    {f \in [1 .. Cardinality(LiveRows) -> LiveRows] :
        /\ Injective(f)
        /\ Regrouped(f) \/ \A i, j \in DOMAIN f : i < j => f[i] < f[j]}

Rehash ==
    /\ phase = "rehash" /\ Worthwhile /\ phase' = "idle"
    /\ gen' = gen + 1
    /\ \E from \in Orders : Compact(from)
    /\ UNCHANGED <<queueVars, par, staged, start, changed, envVars>>

-----------------------------------------------------------------------------
Next ==
    \/ \E h \in Handle, k \in Key : StageRemove(h, k) \/ \E v \in Val : StageInsert(h, k, v)
    \/ \E h \in Handle : DropBuffer(h)
    \/ Tick \/ Clear \/ BeginMerge \/ BeginInsert \/ EndInsert
    \/ \E k \in Key : Delete(k)
    \/ \E s \in Shard : SerialInsert(s) \/ StageRow(s) \/ Flush(s)
    \/ SkipRehash \/ Rehash

Spec == Init /\ [][Next]_vars

-----------------------------------------------------------------------------
TypeOK ==
    /\ data \in Seq(Row)
    /\ stale \in Nat
    /\ hash \in [Key -> 0 .. Len(data)]
    /\ offsets \in [Time -> 0 .. Len(data) + 1]
    /\ gen \in Nat
    /\ buffered \in [Handle -> [rows : [Shard -> Seq(Fresh)], rems : SUBSET Key]]
    /\ pendRows \in [Shard -> Seq(Fresh)]
    /\ pendRems \subseteq Key
    /\ phase \in {"idle", "delete", "insert", "rehash"}
    /\ par \in BOOLEAN
    /\ staged \in [Shard -> Seq(Row)]
    /\ start \in Nat
    /\ changed \in BOOLEAN
    /\ now \in Time
    /\ left \in 0 .. Budget

(* The hash table holds the live rows, each under its key, and nothing      *)
(* else; the table's length, rows less stale rows, counts its keys.         *)
HashIsLive ==
    /\ \A k \in Key : hash[k] # 0 => data[hash[k]].k = k
    /\ \A i \in DOMAIN data : Live(data[i]) => hash[data[i].k] = i
    /\ Len(data) - stale = Cardinality({k \in Key : hash[k] # 0})

(* binary_search_sort_val: the rows from which on timestamps are at least   *)
(* t, and more than t.                                                      *)
NotBefore(t) ==
    LET J == {offsets[u] : u \in {u \in Time : u >= t /\ offsets[u] # 0}} IN
    IF J = {} THEN Len(data) + 1 ELSE SetMin(J)

(* fast_subset of a constraint on the timestamp.                            *)
FastSubset(rel, t) ==
    CASE rel = "eq" -> NotBefore(t) .. NotBefore(t + 1) - 1
      [] rel = "lt" -> 1 .. NotBefore(t) - 1
      [] rel = "le" -> 1 .. NotBefore(t + 1) - 1
      [] rel = "gt" -> NotBefore(t + 1) .. Len(data)
      [] rel = "ge" -> NotBefore(t) .. Len(data)

Matches(rel, t, row) ==
    CASE rel = "eq" -> row.t = t
      [] rel = "lt" -> row.t < t
      [] rel = "le" -> row.t <= t
      [] rel = "gt" -> row.t > t
      [] rel = "ge" -> row.t >= t

(* Outside a merge, a range of row ids stands for a constraint on the       *)
(* timestamp exactly: seminaive evaluation reads its deltas so.             *)
FastSubsetExact ==
    phase = "idle" =>
        \A rel \in {"eq", "lt", "le", "gt", "ge"}, t \in Time, i \in DOMAIN data :
            i \in FastSubset(rel, t) <=> Matches(rel, t, data[i])

(* What lookups of a key see, through the rows and the hash.                *)
Lookup(k) == IF hash[k] = 0 THEN Absent ELSE data[hash[k]].v

(* Row ids are stable within a generation: rows are only appended, and      *)
(* marked stale.                                                            *)
RowsStable ==
    [][gen' = gen =>
          /\ Len(data) <= Len(data')
          /\ \A i \in DOMAIN data : data'[i] \in {data[i], Kill(data[i])}]_vars

(* merge reports a change if any lookup changed.                            *)
ChangesReported ==
    [][\A k \in Key : phase # "idle" /\ Lookup(k)' # Lookup(k) => changed']_vars

(* "The return value indicates whether or not the contents of the vector    *)
(* should be used": when the merge function returns true for an old and an  *)
(* incoming row, what it wrote to the vector becomes the new row.           *)
MergeOutputUsed ==
    [][\A k \in Key :
          phase = "insert" /\ hash[k] # 0 /\ hash'[k] # hash[k] =>
              LET s == ShardOf(k)
                  old == data[hash[k]]
                  new == IF par THEN staged[s][StagedRow(s, k)] ELSE Head(pendRows[s])
              IN data'[hash'[k]] = Merged(old, new)]_vars

(* The table keeps the promise of KeyedTable.  A value staged by a parallel *)
(* insert counts as combined with the value in the table.                   *)
Map ==
    [k \in Key |->
        LET i == StagedRow(ShardOf(k), k) IN
        IF i = 0 THEN Lookup(k)
        ELSE IF hash[k] = 0 THEN staged[ShardOf(k)][i].v
        ELSE Combine(Lookup(k), staged[ShardOf(k)][i].v)]

(* The values that a queue of rows holds for key k.                         *)
OfKey(k, rows) ==
    LET upTo[i \in 0 .. Len(rows)] ==
          IF i = 0 THEN <<>>
          ELSE IF rows[i].k = k THEN Append(upTo[i - 1], rows[i].v)
          ELSE upTo[i - 1]
    IN upTo[Len(rows)]

Inserts == [k \in Key |-> OfKey(k, pendRows[ShardOf(k)])]

Merging ==
    CASE phase \in {"idle", "rehash"} -> "no"
      [] phase = "delete" -> "delete"
      [] phase = "insert" -> "insert"

Promise == INSTANCE KeyedTable WITH
    map <- Map,
    removals <- pendRems,
    inserts <- Inserts,
    merging <- Merging

KeepsPromise == Promise!Spec
=============================================================================
