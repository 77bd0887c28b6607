SPECIFICATION Spec
CONSTANTS
    Confirmers = {h1, h2}
    Intents = {i1, i2}
    NoIntent = NoIntent
    Cancelers = {}
    Syncers = {}
    Sources = {"user_confirmed"}
    Quantity = 1
PROPERTY OrderFrequencyKept
SYMMETRY ActorSymmetry
