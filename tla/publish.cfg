SPECIFICATION Spec
CONSTANTS
    Publishers = {"p", "q"}
    Refs = {"run", "submit"}
    Programs = {"x", "y"}
    MaxCommits = 3
    MaxFaults = 1
INVARIANTS ReturnedIsFetchable LandingStays
PROPERTY EventuallyDressed
