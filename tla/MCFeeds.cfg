SPECIFICATION FeedsSpec
CONSTANTS
    MaxTS = 3
    MaxFaults = 1
    m1 = m1
    m2 = m2
    Logged = {m1, m2}
    None = None
    MaxLines = 6
    MaxUpsets = 2
PROPERTIES
    PollPassesAdmitted
    EveryReplyAdmitted
    LoggedIsAdmitted
CHECK_DEADLOCK FALSE
