SPECIFICATION Spec
CONSTANTS
    c1 = c1  c2 = c2  f1 = f1
    KC = KC  KF = KF
    None = None
    CapRes = {c1, c2}
    FactRes = {}
    KindOf <- TwoOfAKind
    Values = {1}
    Extras = {1, 2}
    Client = "db"
    MaxEnv = 3
    MaxFaults = 2
PROPERTIES WantedNeverDestroyed WantedConverges
