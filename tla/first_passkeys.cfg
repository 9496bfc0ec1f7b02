SPECIFICATION Spec
CONSTANTS
    None = None
    Worker = {w1, w2}
    User = {u1}
    Invite = {}
    Challenge = {c1, c2}
    Code = {r1}
    Session = {s1}
    Device = {}
    Discord = {}
    MaxPasskeys = 2
    MaxRequests = 4
INVARIANT CodesComeWithPasskey
CHECK_DEADLOCK FALSE
