SPECIFICATION Spec
CONSTANTS
    c1 = c1
    c2 = c2
    ann = ann
    bob = bob
    low = low
    UP = UP
    None = None
    Clients = {c1, c2}
    Actors = {ann, bob}
    Keys = {low, UP}
    d1 = d1
    d2 = d2
    d3 = d3
    d4 = d4
    cat = cat
    pen = pen
    ink = ink
    eve = eve
    sup = sup
    car = car
    Objects <- MCObjects
    Rank <- MCRank
    KindOf <- MCKindOf
    Canonical <- MCCanonical
    Stories <- ResolvingOnly
    MaxVersions = 2
    MaxRevision = 3
SYMMETRY Interchangeable
INVARIANT ResolvedStayEffective
