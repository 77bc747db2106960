SPECIFICATION Spec
CONSTANTS
    c1 = c1  c2 = c2  f1 = f1
    KC = KC  KF = KF
    None = None
    CapRes = {c1}
    FactRes = {f1}
    KindOf <- OneEachKind
    Values = {1, 2}
    Extras = {1, 2}
    Client = "http"
    MaxEnv = 3
    MaxFaults = 1
INVARIANTS NoSilentOrphan
PROPERTIES WithdrawnOnlyIfGone WantedConverges ReportsConverge
