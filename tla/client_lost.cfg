SPECIFICATION SysSpec
CONSTANTS
    None = None
    p1 = p1
    p2 = p2
    a = a
    b = b
    Page = {p1}
    Entity = {a}
    Task = {"mutate"}
    MaxMutations = 2
    MaxClock = 1
    ClockStepsBack = FALSE
    MaxLosses = 0
    MaxReloads = 0
INVARIANT NothingLost
