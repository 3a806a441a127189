SPECIFICATION ClientSpec
CONSTANTS
    o1 = o1
    o2 = o2
    o3 = o3
    s1 = s1
    s2 = s2
    w1 = w1
    w2 = w2
    None = None
    Request <- MCOperation
    Operation <- MCOperation
    Worker = {w1, w2}
    Source = {s1, s2}
    Deletable = {s1}
    SourceOf <- MCSourceOf
SYMMETRY MCSymmetry
INVARIANTS
    LedgerIsDense
    EpochsAsPlanned
    ActiveClosureComplete
    AcknowledgedIsPublished
PROPERTIES
    NeverActivatesDeleted
CHECK_DEADLOCK FALSE
