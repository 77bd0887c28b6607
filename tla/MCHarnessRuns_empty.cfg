SPECIFICATION Spec
CONSTANTS
    Requests = {q1, q2}
    Workers = {w1}
    Cancelers = {}
    RunsPerDay = 2
    MaxMessages = 3
    Faults = {}
    None = None
PROPERTIES
    EmptyEvidenceDegrades
CHECK_DEADLOCK FALSE
