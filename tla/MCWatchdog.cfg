SPECIFICATION FairSpec
CONSTANTS
    Sessions = {s}
    Rounds = {r}
    After = 1
    Cooldown = 1
    MaxOccurs = 3
    MaxFaults = 1
PROPERTIES
    OncePerCooldown
    ConditionTold
CHECK_DEADLOCK FALSE
