SPECIFICATION Spec
CONSTANTS
    d1 = d1
    d2 = d2
    t1 = t1
    t2 = t2
    none = none
    Docs = {d1, d2}
    Txs = {t1, t2}
    None = none
    Cutovers <- MCCutovers
    MaxDocRev = 3
    MaxCtlRev = 6
SYMMETRY Symmetric
INVARIANTS
    TypeOK
    ChecksStillHold
    NoCircularWait
    BookMatchesExecuted
PROPERTIES
    ImplementsLedSync
