SPECIFICATION Spec
CONSTANTS
    None = None
    Keep = Keep
    w1 = w1
    w2 = w2
    t1 = t1
    t2 = t2
    t3 = t3
    cash = cash
    stock = stock
    fund = fund
    card = card
    food = food
    gains = gains
    equity = equity
    Worker = {w1, w2}
    Txn = {t1, t2, t3}
    Account = {cash, stock, fund, card, food, gains, equity}
    Kind <- Kinds
    Currency <- OneCurrency
    Closing = {equity, card}
    Settlement <- SettledInCash
    Equity = equity
    Day = {0, 1, 2}
    Payload <- Payloads
    Edit <- Edits
    MaxEdits = 2
CONSTRAINT OneKindOfBook
SYMMETRY Workers
INVARIANT EntryIsRegenerated
CHECK_DEADLOCK FALSE
