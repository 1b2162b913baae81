CONSTANTS
    StartsAt = 5
    EndsAt = 6
    GuardSkew = 0
    MaxStaleness = 3
    SampleWindow = 2
    Ahead = 2
    Flights = {f1, f2}
    MaxTime = 7
    MaxRtt = 2
    MaxSteps = 1
    StepSize = 5
SPECIFICATION Spec
SYMMETRY Symmetry
CHECK_DEADLOCK FALSE
INVARIANT NoFalseRefusal
