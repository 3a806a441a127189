SPECIFICATION Spec
CONSTANTS
    c1 = c1
    p1 = p1
    p2 = p2
    b1 = b1
    b2 = b2
    Case = {c1}
    Server = {p1}
    Backup = {b1}
    MaxFaults = 0
INVARIANTS
    NothingStaysShared
CHECK_DEADLOCK FALSE
