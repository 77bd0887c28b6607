SPECIFICATION FairSpec
CONSTANTS
    Requests = {r1, r2}
    Ids = {x1, x2}
    Deliveries = {d1, d2}
    Topups = {p1}
    Amount = 2
    MaxCost = 2
    Opening = 1
    SpendLimit = 2
    MaxFailures = 1
    None = None
INVARIANTS
    TypeOK
    WalletFollowsLedger
    AnswerIsCharged
PROPERTIES
    PaidIsCredited
CHECK_DEADLOCK FALSE
