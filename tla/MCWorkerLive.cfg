CONSTANTS
    Workers = {w1}
    NoWorker = NoWorker
    MaxRestarts = 1
SPECIFICATION FairSpec
PROPERTIES BootCompletes StopCompletes
CHECK_DEADLOCK FALSE
