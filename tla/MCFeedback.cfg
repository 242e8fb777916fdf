SPECIFICATION Spec
CONSTANTS
    c1 = c1
    c2 = c2
    p1 = p1
    p2 = p2
    x1 = x1
    f1 = f1
    f2 = f2
    None = None
    Cleaner = Cleaner
    Clients = {c1, c2}
    Publishers = {p1, p2}
    Feedback = {f1, f2}
    Files = {x1}
    MaxAttempts = 3
    DailyLimit = 1
    MaxActive = 1
    DailyFiles = 1
    Stories <- AllStories
CHECK_DEADLOCK FALSE
INVARIANTS
    TypeOK
    OneIssueEach
    BytesHaveRows
    SubmittedKept
PROPERTIES
    EveryFeedbackEnds
