SPECIFICATION Spec
CONSTANTS
    r1 = r1
    r2 = r2
    h1 = h1
    h2 = h2
    Roots = {r1, r2}
    Committees = {r1}
    Hands = {h1, h2}
    MaxSuffix = 2
    None = None
    MaxMessages = 2
    MaxWindows = 3
    MaxHead = 1
    MaxTrouble = 1
SYMMETRY Symmetry
INVARIANTS
    AgentsApart
    ReviewIsExact
PROPERTIES
    LocalChangesStay
    RecordedTreeStays
    NotMovedUnderWork
CHECK_DEADLOCK FALSE
