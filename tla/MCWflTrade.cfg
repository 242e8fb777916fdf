SPECIFICATION Spec
CONSTANTS
    p = p
    r1 = r1
    r2 = r2
    d0 = d0
    d1 = d1
    d2 = d2
    s0 = s0
    s1 = s1
    s2 = s2
    a = a
    b = b
    l = l
    none = none
    None = none
    Docs = {p, r1, r2, d0, d1, d2, s0, s1, s2}
    Actors = {a, b}
    Lines = {l}
    Dates = {1, 2}
    MaxQty = 1
    Cutovers = {1, 2}
    Casts <- MCCasts
CONSTRAINT StoryBounds
SYMMETRY Interchangeable
INVARIANTS
    TypeOK
    QuantitiesWithinOrder
    StatusTellsTruth
    StagesHangTogether
    PayablesFollowReceipts
