SPECIFICATION Spec
CONSTANTS
    Key = {1, 2}
    Val = {1, 2}
    Stale = Stale
    Absent = Absent
    Shard = {0, 1}
    ShardOf <- OddEven
    Combine <- Larger
    Handle = {h1, h2}
    MaxTime = 2
    Budget = 4
    Batch = 2
    StaleFloor = 0
    Parallel = {TRUE, FALSE}
INVARIANTS
    HashIsLive
    FastSubsetExact
PROPERTIES
    RowsStable
    ChangesReported
    KeepsPromise
