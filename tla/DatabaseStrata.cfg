SPECIFICATION Spec
CONSTANTS
    uf = uf
    f = f
    g = g
    h = h
    Table = {uf, f, g, h}
    ReadDeps <- Reads4
    WriteDeps <- Writes4
    Row = {r1, r2}
    Worker = {w1}
    Buffer = {b1}
    None = None
    SimpleBelow = 4
    KeepBuffers = TRUE
    MergeTables = TRUE
    Clones = TRUE
SYMMETRY Symmetry
INVARIANTS
    DepsPresent
