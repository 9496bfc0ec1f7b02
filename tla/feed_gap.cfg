SPECIFICATION Spec
CONSTANTS
    t1 = t1
    t2 = t2
    t3 = t3
    p1 = p1
    p2 = p2
    a = a
    b = b
    Entity = {a, b}
    Transaction = {t1, t2}
    Page = {p1}
    Limit = 2
    MaxPuts = 0
INVARIANT MirrorConverges
