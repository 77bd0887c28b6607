SPECIFICATION FairSpec
CONSTANTS
    Confirmers = {h1}
    Intents = {i1}
    NoIntent = NoIntent
    Cancelers = {c1}
    Syncers = {s1}
    Sources = {"user_confirmed"}
    Quantity = 2
PROPERTIES
    UnknownResolves
    SettledOrdersSettle
    ImplementsLifecycle
