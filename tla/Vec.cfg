SPECIFICATION FairSpec
CONSTANTS
    Thread = {t1, t2}
    None = None
    Val = {a, b}
    Fill = fill
    Uninit = uninit
    MaxLen = 5
    Callers = {{"push", "read"}, {"resize", "read"}}
INVARIANTS
    PublishedValid
    WritesUnseen
PROPERTIES
    IsLog
    CallsReturn
