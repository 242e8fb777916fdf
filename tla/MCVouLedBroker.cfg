SPECIFICATION Spec
CONSTANTS
    p = p
    s = s
    m = m
    c = c
    x = x
    y = y
    z = z
    none = none
    NoDoc = none
    Docs = {m}
    Databases <- OnlyNewBroker
    Openings <- EmptyOpening
    Dates = {1}
    Qtys = {1}
    MaxRev = 7
    MaxGens = 1
    MaxClock = 4
INVARIANTS
    ReversalUndoesOnePosting
