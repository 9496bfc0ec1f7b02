SPECIFICATION BookSpec
CONSTANTS
    w1 = w1
    w2 = w2
    t1 = t1
    t2 = t2
    g = g
    l = l
    card = card
    cash = cash
    settle = settle
    stock = stock
    inv = inv
    sec = sec
    equity = equity
    visa = visa
    jcb = jcb
    m1 = m1
    m2 = m2
    m3 = m3
    None = None
    Worker = {w1, w2}
    Group = {g}
    Limit = {l}
    Account = {card, cash, settle, stock, equity}
    Card = {card}
    Inv = {inv}
    Settlement <- OneSettlement
    Asset <- OneAsset
    Security = {sec}
    Equity = equity
    Txn = {t1, t2}
    Currency = {"TWD", "USD"}
    Home = "TWD"
    Existing <- AtStart
    Backup <- BackedUp
    Entries <- Pairs
    MaxRequests = 3
    LastDate = 3
    Terms = {"a", "b"}
    Settlements = {"confirmed", "skipped"}
    MaxCalls = 4
    Billed = {visa, jcb}
    CreditLimit = 20
    Scenario = {}
    Days = 70
    Similar = {{m2, m3}}
    Statement = {}
    Context <- Contexts
    MaxRows = 2
    MaxInputs = 4
SYMMETRY Alike
CONSTRAINT Within
INVARIANT UsedAccountsAreKept
CHECK_DEADLOCK FALSE
