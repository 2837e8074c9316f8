SPECIFICATION FairSpec
CONSTANTS
    Thread = {t1, t2}
    None = None
    MaxElt = 2
    Capacity = 2
    Ops = {"find", "same", "union", "reset", "copy"}
INVARIANTS
    Forest
    Answers
PROPERTIES
    MergesWhatWasAsked
    CallsReturn
