CONSTANTS
    Workers = {w1, w2}
    NoWorker = NoWorker
    MaxRestarts = 1
SPECIFICATION Spec
SYMMETRY Symmetry
INVARIANTS TypeOK BootDiffIsQuiet ReadyMeansServing
CHECK_DEADLOCK FALSE
