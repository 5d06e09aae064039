\* Two messages of one thread, a failed write, a crash and a restart.
SPECIFICATION FairSpec
CONSTANTS
    m1 = m1
    m2 = m2
    r1 = r1
    w = w
    g1 = g1
    g2 = g2
    NoItem = NoItem
    Roots <- MCRoots
    RootOf <- MCRootOf
    Worker = w
    Goroutines <- MCGoroutines
    Feeds = {"main"}
    QueueSize = 1
    SeenCapacity = 1
    Ids <- MCIds
    Attempts = 2
    MaxCopies = 1
    MaxSignals = 0
    MaxFaults = 1
    MaxCrashes = 1
INVARIANTS NothingLost DeferredHasWaker
PROPERTIES EventuallySettled
CHECK_DEADLOCK FALSE
