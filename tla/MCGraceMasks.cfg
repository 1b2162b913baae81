CONSTANTS
    Workers = {w1}
    NoWorker = NoWorker
    MaxRestarts = 0
SPECIFICATION Spec
INVARIANT ConfirmedNeverMasked
CHECK_DEADLOCK FALSE
