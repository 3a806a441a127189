SPECIFICATION LiveSpec
CONSTANTS
    w1 = w1
    w2 = w2
    None = None
    Job = {deletion}
    DeletionJob = {deletion}
    RollbackJob = {}
    Worker = {w1}
    MaxVersion = 1
PROPERTIES
    JobsFinish
