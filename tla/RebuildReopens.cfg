SPECIFICATION LiveSpec
CONSTANTS
    w1 = w1
    w2 = w2
    None = None
    Job = {ordinary}
    DeletionJob = {}
    RollbackJob = {}
    Worker = {w1}
    MaxVersion = 1
PROPERTIES
    RebuildReopens
