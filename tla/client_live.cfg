SPECIFICATION SysFairSpec
CONSTANTS
    None = None
    p1 = p1
    p2 = p2
    a = a
    b = b
    Page = {p1}
    Entity = {a}
    Task = {"mutate", "keep_local"}
    MaxMutations = 2
    MaxClock = 1
    ClockStepsBack = FALSE
    MaxLosses = 2
    MaxReloads = 1
PROPERTY OutboxDrains
