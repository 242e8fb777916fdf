SPECIFICATION Spec
CONSTANTS
    p = p
    s = s
    m = m
    c = c
    x = x
    y = y
    z = z
    none = none
    NoDoc = none
    Docs = {p, s, m, c, x, y, z}
    Databases <- MCDatabases
    Openings <- MCOpenings
    Dates = {1, 2}
    Qtys = {1}
    MaxRev = 10
    MaxGens = 3
    MaxClock = 5
CONSTRAINT StoryBounds
INVARIANTS
    TypeOK
    LedgerMatchesVouchers
    StockNeverNegative
    ControlMatchesGenerations
    GoodsAndCashReversedOnce
PROPERTIES
    ImplementsLedSync
    AppendsToActiveOnly
