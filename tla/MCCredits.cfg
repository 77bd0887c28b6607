SPECIFICATION Spec
CONSTANTS
    Callers = {c1, c2}
    Webhooks = {}
    Adjusters = {}
    Admins = {a1}
    Recoverers = {w1}
    Preloading = {c1, c2}
    Tasks = {t1, t2}
    Serialized = {t1}
    Automated = {t2}
    Quotes = {2}
    Actuals = {1, 2, 3}
    Opening = 4
    Adjustments = {}
    MonthlyCredits = 2
    CarryoverCap = 4
    PerRunLimit = 2
    DailyLimit = 2
    MonthlyLimit = 3
    Enforced = TRUE
    MaxAttempts = 3
    MaxDay = 2
    None = None
INVARIANTS
    TypeOK
    ChargedOnce
    OneHoldPerTask
    ReportChargedOnce
PROPERTIES
    BudgetKept
SYMMETRY SessionSymmetry
CHECK_DEADLOCK FALSE
