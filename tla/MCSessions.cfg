SPECIFICATION Spec
CONSTANTS
    Hooks = {h1, h2}
    MaxTime = 3
    MaxEvents = 3
    MaxCloses = 1
    MaxKills = 1
INVARIANTS
    CountsAreReal
    TimelineAddsUp
    ClosedIsReported
SYMMETRY Symmetry
CHECK_DEADLOCK FALSE
