SPECIFICATION Spec
CONSTANTS
    Thread = {t1}
    None = None
    Val = {a}
    Fill = fill
    Uninit = uninit
    MaxLen = 5
    Callers = {{"push", "resize", "read"}}
INVARIANTS
    PublishedValid
