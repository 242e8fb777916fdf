SPECIFICATION Spec
CONSTANTS
    ann = ann
    bob = bob
    cat = cat
    super = super
    staff = staff
    extra = extra
    s1 = s1
    s2 = s2
    s3 = s3
    r1 = r1
    r2 = r2
    None = None
    Users = {ann, bob, cat}
    Roles = {super, staff, extra}
    Superadmin = super
    LockThreshold = 2
    Requests = {r1, r2}
    Sessions = {s1, s2, s3}
    Stories <- AllStories
    MaxRevision = 3
    MaxAttempts = 3
SYMMETRY Interchangeable
CHECK_DEADLOCK FALSE
INVARIANTS
    TypeOK
    NobodyLockedOut
    LiveSessionsAreCurrent
PROPERTIES
    PasswordChangesInTurn
