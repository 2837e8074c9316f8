SPECIFICATION LockFairSpec
CONSTANTS
    Thread = {t1, t2}
    Tok = {k1, k2, k3, k4}
    None = None
INVARIANTS
    NoLostWakeup
PROPERTIES
    GateSafety
    GateLive
