SPECIFICATION Spec
CONSTANTS
    Runs = {r1, r2}
    MaxTokens = 4
    MaxFaults = 1
INVARIANTS LoginIsNeverLost
PROPERTY EveryRunRegisters
