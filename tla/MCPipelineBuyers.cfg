CONSTANTS
    Users = {u1, u2}
    Rids = {r1}
    NoRid = NoRid
    TotalStock = 1
    StartsAt = 0
    EndsAt = 1
    MaxNow = 0
    Attempts = 1
    MaxStalledCount = 1
    MaxCrashes = 0
    MaxResolveAborts = 0
    MaxLosses = 0
    LateAdds = TRUE
SPECIFICATION Spec
SYMMETRY Symmetry
INVARIANTS NoOversell UnitsNeverInflated PersistedHoldsReservation
PROPERTY ImplementsLifecycle
