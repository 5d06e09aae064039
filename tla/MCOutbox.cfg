\* A reply and a merge request note: an unclear post, a replay, a fault, a crash.
SPECIFICATION FairSpec
CONSTANTS
    r1 = r1
    r2 = r2
    x1 = x1
    x2 = x2
    t1 = t1
    t2 = t2
    None = None
    Records = {r1, r2}
    Keys = {x1, x2}
    KeyOf <- MCKeyOf
    Texts = {t1, t2}
    TextOf <- MCTextOf
    Notes = {r2}
    Replies = {r1}
    Attempts = 2
    MaxUnclear = 1
    MaxReplays = 1
    MaxFaults = 1
    MaxCrashes = 1
INVARIANTS
    PostedIsDelivered
    ResendIsExplained
PROPERTIES
    ImplementsMailbox
    EveryRecordAnswered
CHECK_DEADLOCK FALSE
