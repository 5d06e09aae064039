SPECIFICATION FairSpec
CONSTANTS
    t1 = t1
    t2 = t2
    user = user
    new = new
    r1 = r1
    r2 = r2
    Threads = {t1, t2}
    UserWindows = {user}
    NewWindows = {new}
    Requests = {r1, r2}
    ThreadOf <- MCThreadOf
    WindowOf <- MCWindowOf
    Forced = {r2}
    Daemon = Daemon
    None = None
    MaxMishaps = 1
INVARIANTS
    StoresAreCurrent
    OneThreadPerWindow
    SessionFollowsWindow
PROPERTIES
    AppliedUntilAnswered
    EveryRequestAnswered
CHECK_DEADLOCK FALSE
