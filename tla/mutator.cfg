SPECIFICATION Spec
CONSTANTS
    Runs = {r1, r2}
    MaxBrokers = 2
    MaxFaults = 1
INVARIANTS NothingIsLeftUp ProviderLoginIsNeverLost
PROPERTIES BrokersOutliveTheContainer AStopIsItsOwnRuns AStopEndsTheCall
CHECK_DEADLOCK FALSE
