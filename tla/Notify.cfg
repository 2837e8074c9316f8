SPECIFICATION FairSpec
CONSTANTS
    Thread = {t1, t2, t3}
    Item = {k1, k2}
INVARIANTS
    OwedIsUnderWay
    ResetMissesNone
PROPERTIES
    AllReported
