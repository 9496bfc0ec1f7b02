SPECIFICATION PlatformSpec
CONSTANTS
    t1 = t1
    t2 = t2
    t3 = t3
    p1 = p1
    a = a
    b = b
    w1 = w1
    w2 = w2
    u1 = u1
    u2 = u2
    i1 = i1
    c1 = c1
    c2 = c2
    r1 = r1
    s1 = s1
    s2 = s2
    d1 = d1
    k1 = k1
    f1 = f1
    f2 = f2
    bill = bill
    late1 = late1
    None = None
    Entity = {a, b}
    Transaction = {t1, t2, t3}
    Page = {p1}
    Limit = 2
    MaxPuts = 1
    Worker = {w1, w2}
    User = {u1, u2}
    Invite = {i1}
    Challenge = {c1, c2}
    Code = {r1}
    Session = {s1, s2}
    Device = {d1}
    Discord = {k1}
    MaxPasskeys = 2
    MaxRequests = 4
    Once = {bill}
    Daily = {late1}
    Window <- Windows
    PerDay = 3
    Cooldown = 4
    Horizon = 4
    Preferences <- TwoPreferences
    File = {f1, f2}
SYMMETRY Alike
CONSTRAINT Within
INVARIANT PlatformTypeOK
INVARIANT CursorIsCovered
INVARIANT FeedIsInOrder
INVARIANT OneTimeThings
INVARIANT DevicesAndPasskeys
INVARIANT FilesAreAccounted
INVARIANT RemindersAreSaidOnce
PROPERTY NothingComesBack
CHECK_DEADLOCK FALSE
