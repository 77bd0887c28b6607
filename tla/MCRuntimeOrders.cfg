SPECIFICATION Spec
CONSTANTS
    Threads = {t1, t2}
    o1 = o1
    o2 = o2
    Orders <- MCOrders
    Immediate = {o1}
    ReduceOnly = {o2}
    Commands <- MCCommands
    MaxRestarts = 1
    None = None
SYMMETRY Symmetry
INVARIANTS
    TypeOK
    SentIsJournaled
    UncertainHasOwner
PROPERTIES
    JournalGrowsLegally
CHECK_DEADLOCK FALSE
