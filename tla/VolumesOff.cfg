SPECIFICATION Spec
CONSTANTS
    root1 = root1  root2 = root2  data = data
    m1 = m1  m2 = m2
    fast = fast  slow = slow  scratch = scratch  twin = twin
    None = None
    Volumes <- ThreeVolumes
    Machines <- TwoMachines
    Pools <- SomePools
    Sizes <- TwoSizes
    PoolAttr <- Attr
    VolumeAttr <- Kind
    WantedAs <- Wants
    FirstWant <- Both
    FirstDom <- TwoMachines
    MaxChanges = 2
    MaxFlips = 1
    MaxFaults = 0
PROPERTIES DetachedKept
