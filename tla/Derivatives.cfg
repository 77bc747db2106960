SPECIFICATION DSpec
CONSTANTS
    i1 = i1  i2 = i2
    p1 = p1  p2 = p2
    None = None
    Instances <- One
    Parts <- TwoParts
    Wanted <- Needs
    Limit = 2
    MaxEdits = 3
    MaxReports = 2
    MaxMaster = 1
    MaxFaults = 1
INVARIANTS FamilyTogether MasterBuilt
PROPERTIES PartActiveIfBuilt PartReportsTaken MasterReaches
