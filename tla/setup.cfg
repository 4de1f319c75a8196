SPECIFICATION Spec
CONSTANTS
  Machines <- AllMachines
  Options <- AllOptions
  MaxFaults = 1
INVARIANTS CleanRunIsReady
PROPERTIES SetupConverges
CHECK_DEADLOCK FALSE
