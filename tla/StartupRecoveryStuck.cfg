SPECIFICATION LiveSpec
CONSTANTS
    o1 = o1
    o2 = o2
    o3 = o3
    s1 = s1
    s2 = s2
    w1 = w1
    w2 = w2
    None = None
    Request = {o1, o2}
    Operation = {o1, o2}
    Worker = {w1, w2}
    Source = {s1, s2}
    Deletable = {}
    SourceOf <- MCSourceOf
    MaxCrashes = 1
PROPERTIES
    PreparedIsResolved
CHECK_DEADLOCK FALSE
