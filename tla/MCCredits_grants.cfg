SPECIFICATION Spec
CONSTANTS
    Callers = {c1}
    Webhooks = {e1, e2}
    Adjusters = {j1}
    Admins = {a1, a2}
    Recoverers = {w1}
    Preloading = {c1}
    Tasks = {t1}
    Serialized = {}
    Automated = {}
    Quotes = {2}
    Actuals = {1, 3}
    Opening = 3
    Adjustments <- OneUpOneDown
    MonthlyCredits = 2
    CarryoverCap = 4
    PerRunLimit = 2
    DailyLimit = 3
    MonthlyLimit = 4
    Enforced = TRUE
    MaxAttempts = 1
    MaxDay = 1
    None = None
INVARIANTS
    NeverOverRefunded
    KeysMoveOnce
PROPERTIES
    FreshPosts
SYMMETRY SessionSymmetry
CHECK_DEADLOCK FALSE
