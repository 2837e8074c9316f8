SPECIFICATION Spec
CONSTANTS
    Key = {1}
    Val = {1, 2, 3}
    Stale = Stale
    Absent = Absent
    Shard = {0, 1}
    ShardOf <- OddEven
    Combine <- BitOr
    Handle = {h1}
    MaxTime = 1
    Budget = 3
    Batch = 2
    StaleFloor = 1
    Parallel = {TRUE}
PROPERTIES
    MergeOutputUsed
