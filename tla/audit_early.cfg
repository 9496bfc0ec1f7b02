SPECIFICATION Spec
CONSTANTS
    None = None
    i1 = i1
    i2 = i2
    b1 = b1
    b2 = b2
    l1 = l1
    l2 = l2
    t1 = t1
    t2 = t2
    Import = {i1, i2}
    Bill = {b1}
    Line = {l1}
    Txn = {t1}
    MaxEdits = 0
INVARIANT NothingIsLeftOpen
CHECK_DEADLOCK FALSE
