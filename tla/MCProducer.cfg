CONSTANTS
    Calls = {c1, c2, c3}
    MaxInFlight = 2
    Timeout = 1
    Backoff = 2
SPECIFICATION FairSpec
INVARIANTS SlotsExact OneGenerationInUse RetirementBounded
PROPERTIES EnqueueSettles CircuitRecloses CloseIsFinal
