SPECIFICATION FairSpec
CONSTANTS
    f1 = f1
    u1 = u1
    u2 = u2
    Files = {f1}
    Uploads = {u1, u2}
    NoFile = NoFile
INVARIANTS
    TypeOK
    ReadyOnDisk
PROPERTIES
    ReadyUntilRemoved
    NothingLeftBehind
    UploadsAndRemovalsEnd
