SPECIFICATION Spec
CONSTANTS
    Requests = {q1, q2}
    Workers = {w1, w2}
    Cancelers = {c1}
    RunsPerDay = 2
    MaxMessages = 3
    Faults = {"raise", "die", "queue_down"}
    None = None
INVARIANTS
    TypeOK
    HoldFollowsOutcome
    GoalChargedOnce
    ActiveRunHasWorker
PROPERTIES
    LegalTransitions
SYMMETRY SessionSymmetry
CHECK_DEADLOCK FALSE
