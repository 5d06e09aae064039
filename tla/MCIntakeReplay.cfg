\* One message, its dead letter replayed on two signals, a failed write, a crash.
SPECIFICATION Spec
CONSTANTS
    m1 = m1
    m2 = m2
    r1 = r1
    w = w
    g1 = g1
    g2 = g2
    NoItem = NoItem
    Roots <- MCRoots
    RootOf <- MCRootOf
    Worker = w
    Goroutines <- MCGoroutines
    Feeds = {"main"}
    QueueSize = 1
    SeenCapacity = 1
    Ids = {m1}
    Attempts = 2
    MaxCopies = 1
    MaxSignals = 2
    MaxFaults = 1
    MaxCrashes = 1
PROPERTIES DeadLetterLeavesAnswered ImplementsAdmission
CHECK_DEADLOCK FALSE
