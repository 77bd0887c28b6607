SPECIFICATION GateSpec
CONSTANTS
    Confirmers = {c1}
    Admins = {a1, a2}
    Scopes = {"mandate"}
    Testers = {t1}
    Reconcilers = {r1}
    StaticGate = TRUE
INVARIANTS
    GateTypeOK
    BadReconciliationPauses
    GateImpliesNoSwitch
PROPERTIES
    ImplementsAdmission
SYMMETRY AdminSymmetry
