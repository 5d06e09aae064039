\* Two prompts, two deliverers, a fault, a crash.
SPECIFICATION FairSpec
CONSTANTS
    p1 = p1
    p2 = p2
    p3 = p3
    d1 = d1
    d2 = d2
    k1 = k1
    k2 = k2
    k3 = k3
    None = None
    Prompts = {p1, p2}
    Deliverers = {d1, d2}
    Drains = {k1, k2}
    MaxFaults = 1
    MaxCrashes = 1
INVARIANTS AcceptedIsKept
PROPERTIES QueueOrder DrainEmptiesQueue WaitingSurvivesRestart
CHECK_DEADLOCK FALSE
