SPECIFICATION PlatformSpec
CONSTANTS
    t1 = t1
    t2 = t2
    t3 = t3
    p1 = p1
    a = a
    b = b
    w1 = w1
    w2 = w2
    u1 = u1
    u2 = u2
    i1 = i1
    c1 = c1
    c2 = c2
    r1 = r1
    s1 = s1
    s2 = s2
    d1 = d1
    k1 = k1
    f1 = f1
    f2 = f2
    bill = bill
    late1 = late1
    None = None
    Entity = {}
    Transaction = {}
    Page = {p1}
    Limit = 2
    MaxPuts = 0
    Worker = {w1, w2}
    User = {u1}
    Invite = {}
    Challenge = {}
    Code = {r1}
    Session = {s1}
    Device = {}
    Discord = {}
    MaxPasskeys = 2
    MaxRequests = 0
    Once = {bill}
    Daily = {late1}
    Window <- Windows
    PerDay = 3
    Cooldown = 4
    Horizon = 4
    Preferences <- TwoPreferences
    File = {}
INVARIANT CooldownIsKept
CHECK_DEADLOCK FALSE
