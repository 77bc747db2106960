SPECIFICATION Spec
CONSTANTS
    c1 = c1
    c2 = c2
    Confs <- MCConfs
    None = None
    Grace = 1
    MaxTargets = 2
    MaxEvents = 1
    MaxFaults = 1
    MaxMissed = 1
INVARIANTS JournalIntact DoneMeansBooted FinishedRebootKept
PROPERTIES ForcedNotAfterOffListed PowerSettles
