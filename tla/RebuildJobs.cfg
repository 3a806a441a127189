SPECIFICATION Spec
CONSTANTS
    w1 = w1
    w2 = w2
    None = None
    Job = {ordinary, deletion, rollback}
    DeletionJob = {deletion}
    RollbackJob = {rollback}
    Worker = {w1, w2}
    MaxVersion = 2
SYMMETRY MCSymmetry
INVARIANTS
    OneJobInFlight
    OneBuilder
    IntentIsTrue
    DeletionIsEffective
    LabelsAreTrue
    ReadyIsComplete
PROPERTIES
    RebuildKeepsFacts
    ImplementsRebuildQueue
