CONSTANTS
    ProbeDeadline = 3
    ReadyBudget = 4
    ResourceBudget = 4
    ProcessBudget = 20
SPECIFICATION FairSpec
INVARIANTS TypeOK ProbeCloseFits CleanExit
PROPERTIES ShutdownEnds FlightSettles
CHECK_DEADLOCK FALSE
