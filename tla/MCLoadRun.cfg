CONSTANTS
    Users = {u1}
    Stock = 2
    MaxLosses = 1
    Scenarios = 2
SPECIFICATION FairSpec
INVARIANTS TerminationExact QuietAfterLoad ResultsTrusted ReportSeen
PROPERTY InterruptEnds
CHECK_DEADLOCK FALSE
