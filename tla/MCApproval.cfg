SPECIFICATION ApprovalSpec
CONSTANTS
    r1 = r1
    r2 = r2
    r3 = r3
    o1 = o1
    o2 = o2
    o3 = o3
    Request = {r1, r2, r3}
    Operation = {o1, o2, o3}
    None = None
SYMMETRY MCSymmetry
INVARIANTS
    WrittenOnce
    ExecutionMatchesBinding
    AcknowledgedWasApplied
CHECK_DEADLOCK FALSE
