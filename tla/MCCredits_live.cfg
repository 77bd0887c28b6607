SPECIFICATION FairSpec
CONSTANTS
    Callers = {c1, c2}
    Webhooks = {}
    Adjusters = {}
    Admins = {}
    Recoverers = {w1}
    Preloading = {c1, c2}
    Tasks = {t1, t2}
    Serialized = {t1}
    Automated = {}
    Quotes = {2}
    Actuals = {3}
    Opening = 4
    Adjustments = {}
    MonthlyCredits = 2
    CarryoverCap = 4
    PerRunLimit = 2
    DailyLimit = 3
    MonthlyLimit = 4
    Enforced = TRUE
    MaxAttempts = 2
    MaxDay = 1
    None = None
PROPERTIES
    HoldsResolve
    SessionsEnd
CHECK_DEADLOCK FALSE
