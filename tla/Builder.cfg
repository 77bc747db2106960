SPECIFICATION Spec
CONSTANTS
    i1 = i1  i2 = i2
    None = None
    Instances <- Two
    Limit = 2
    MaxEdits = 3
    MaxReports = 3
    MaxFaults = 1
INVARIANTS TrackedIsBuilt
PROPERTIES BuildsForward BuilderSettles
