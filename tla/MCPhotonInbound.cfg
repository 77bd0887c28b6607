SPECIFICATION FairSpec
CONSTANTS
    Deliveries = {d1, d2}
    Workers = {w1, w2}
    MAX_ATTEMPTS = 3
    MaxMessages = 2
    MaxCrashes = 2
    MaxChanges = 1
    None = None
INVARIANTS
    TypeOK
    OneWorkerAtATime
    AgentRunsOnce
PROPERTIES
    ClaimedEnds
CHECK_DEADLOCK FALSE
