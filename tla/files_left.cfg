SPECIFICATION Spec
CONSTANTS
    None = None
    File = {f1}
    Purger = {p1}
INVARIANT RetentionFindsAll
CHECK_DEADLOCK FALSE
