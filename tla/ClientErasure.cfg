SPECIFICATION LiveSpec
CONSTANTS
    c1 = c1
    p1 = p1
    p2 = p2
    b1 = b1
    b2 = b2
    Case = {c1}
    Server = {p1, p2}
    Backup = {b1, b2}
    MaxFaults = 1
INVARIANTS
    VaultLast
    ScopeStaysProven
    LastStepIsAccepted
PROPERTIES
    ImplementsErasure
    EventuallyErased
CHECK_DEADLOCK FALSE
