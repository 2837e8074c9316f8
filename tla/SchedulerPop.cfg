SPECIFICATION Spec
CONSTANTS
    f1 = f1
    f2 = f2
    f3 = f3
    spread = spread
    close = close
    Fact = {f1, f2, f3}
    Rule = {spread, close}
    Body <- Bodies
    HeadOf <- Heads
    Adds <- Additional
    PushBuilt = TRUE
    CanStop = FALSE
    Cells = 6
    Budget = 6
INVARIANTS
    Conserved
CHECK_DEADLOCK FALSE
