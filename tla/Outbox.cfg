SPECIFICATION Spec
CONSTANTS
    w1 = w1  w2 = w2  ra = ra  rb = rb
    None = None
    Writers <- SomeWriters
    Resources <- SomeResources
    BatchSize = 2
    MaxEvents = 3
    MaxFaults = 2
INVARIANTS NothingLost
PROPERTIES LogNext Drains
