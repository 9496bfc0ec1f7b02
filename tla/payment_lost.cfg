SPECIFICATION Spec
CONSTANTS
    None = None
    Worker = {w1}
    LastDate = 2
    Terms = {"a"}
    Settlements = {"confirmed", "skipped"}
    MaxRequests = 2
INVARIANT NoPaymentIsForgotten
CHECK_DEADLOCK FALSE
