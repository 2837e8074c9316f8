SPECIFICATION FairSpec
CONSTANTS
    uf = uf
    f = f
    g = g
    h = h
    Table = {uf, f, g}
    ReadDeps <- Reads3
    WriteDeps <- Writes3
    Row = {r1, r2, r3}
    Worker = {w1, w2}
    Buffer = {b1}
    None = None
    SimpleBelow = 2
    KeepBuffers = FALSE
    MergeTables = FALSE
    Clones = FALSE
INVARIANTS
    NothingForgotten
    MergesAll
    ReportsGrowth
    IndexesFresh
PROPERTIES
    MergeReturns
