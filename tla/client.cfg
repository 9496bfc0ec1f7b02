SPECIFICATION SysSpec
CONSTANTS
    None = None
    p1 = p1
    p2 = p2
    a = a
    b = b
    Page = {p1, p2}
    Entity = {a, b}
    Task = {"mutate", "keep_local", "keep_server", "discard"}
    MaxMutations = 4
    MaxClock = 2
    ClockStepsBack = FALSE
    MaxLosses = 2
    MaxReloads = 1
INVARIANT TypeOK
INVARIANT OnePlaceEach
INVARIANT FirstInFirstDecided
INVARIANT DependentsNeverOvertake
PROPERTY OnlyStaleWritesLose
SYMMETRY Pages
CONSTRAINT Smaller
