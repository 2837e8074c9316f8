SPECIFICATION Spec
CONSTANTS
    Fn = {"num", "f", "g", "tag"}
    NoMerge = {"tag"}
    IdKey = {"f", "g", "tag"}
    Base = {100, 101}
    Lit = {100}
    Input = {"num", "f", "tag"}
    Rules <- Program
    Schedules <- Calls
    Dom <- Bits
    Meanings <- NegationAndIdentity
    Worker = {w1, w2}
    None = None
    MaxId = 4
    MaxTime = 5
    MaxBatch = 1
PROPERTIES
    RebuiltOnSuccess
CHECK_DEADLOCK FALSE
