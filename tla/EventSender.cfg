SPECIFICATION Spec
CONSTANTS
    e1 = e1  e2 = e2  e3 = e3
    Events = {e1, e2, e3}
    None = None
    Limit = 2
    MaxFaults = 2
    MaxForgets = 1
INVARIANTS NoneLost
PROPERTIES BackOnlyIfForgotten EventsDelivered
