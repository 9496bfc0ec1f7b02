SPECIFICATION Spec
CONSTANTS
    None = None
    m1 = m1
    m2 = m2
    m3 = m3
    u1 = u1
    u2 = u2
    e1 = e1
    w1 = w1
    w2 = w2
    Worker = {w1, w2}
    User = {u1}
    MutationId = {m1, m2, m3}
    Entity = {e1}
    Mutation <- TwoWriters
    MaxFailures = 0
INVARIANT NoSilentOverwrite
