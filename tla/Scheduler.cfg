SPECIFICATION FairSpec
CONSTANTS
    f1 = f1
    f2 = f2
    f3 = f3
    spread = spread
    close = close
    Fact = {f1, f2, f3}
    Rule = {spread, close}
    Body <- Bodies
    HeadOf <- Heads
    Adds <- Additional
    PushBuilt = FALSE
    CanStop = FALSE
    Cells = 4
    Budget = 5
INVARIANTS
    Conserved
    StopsSaturated
PROPERTIES
    AllApplied
CHECK_DEADLOCK FALSE
