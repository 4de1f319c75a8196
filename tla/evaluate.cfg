SPECIFICATION SpecBatch
CONSTANTS
    MaxSteps = 1
    N = 3
    Followed = 2
    Chunks = 2
    PipeSize = 1
    Warnings = 2
    Capacities <- SmallMachines
    Requests = {0, 2}
INVARIANTS EvidenceIsTheBatch BoxIsBudgeted
PROPERTIES EvaluationEnds NothingOutlivesItsParent
CHECK_DEADLOCK FALSE
