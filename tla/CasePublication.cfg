SPECIFICATION LiveSpec
CONSTANTS
    c1 = c1
    c2 = c2
    m1 = m1
    m2 = m2
    None = None
    Event = {1, 2}
    Case = {c1, c2}
    Manager = {m1, m2}
    MaxEpoch = 1
    MaxFaults = 1
INVARIANTS
    AcknowledgedIsActive
    ShownIsWhole
PROPERTIES
    ImplementsSharedCases
    EventuallyPublished
CHECK_DEADLOCK FALSE
