SPECIFICATION Spec
CONSTANTS
    m1 = m1
    m2 = m2
    m3 = m3
    r1 = r1
    r2 = r2
    Messages = {m1, m2, m3}
    Roots = {r1, r2}
    RootOf <- MCRootOf
    Pointed = {m2, m3}
    Tagged = {m3}
    TriageLimit = 2
    CooldownN = 1
    Span = 1
    None = None
    MaxTicks = 1
    MaxFaults = 1
INVARIANTS
    LimitHolds
    CooldownHolds
PROPERTIES
    VerdictIsTheAgents
CHECK_DEADLOCK FALSE
