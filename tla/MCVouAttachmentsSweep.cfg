SPECIFICATION Spec
CONSTANTS
    f1 = f1
    u1 = u1
    u2 = u2
    Files = {f1}
    Uploads = {u1, u2}
    NoFile = NoFile
PROPERTIES
    SweepSparesReferenced
