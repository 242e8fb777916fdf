SPECIFICATION Spec
CONSTANTS
    d1 = d1
    c1 = c1
    c2 = c2
    f1 = f1
    f2 = f2
    Docs = {d1}
    KindOf <- MCKindOf
    Clients = {c1, c2}
    Files = {f1, f2}
    MaxAttachments = 1
    MaxRev = 9
    Dates = {1, 2}
    Qtys = {1}
SYMMETRY Symmetric
INVARIANTS
    TypeOK
    NothingPendingOnceReviewed
PROPERTIES
    NoLostUpdate
    FrozenOnceReviewed
