SPECIFICATION Spec
CONSTANTS
    Confirmers = {h1, h2}
    Intents = {i1}
    NoIntent = NoIntent
    Cancelers = {c1}
    Syncers = {s1, s2}
    Sources = {"admin", "strategy"}
    Quantity = 1
INVARIANTS
    TypeOK
    SubmittedAtMostOnce
    OnlyJournaledOrdersSent
    RejectedByAnswer
    NeverOverbooked
SYMMETRY ActorSymmetry
