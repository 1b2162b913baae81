CONSTANTS
    Users = {u1}
    Rids = {r1, r2}
    NoRid = NoRid
    TotalStock = 1
    StartsAt = 0
    EndsAt = 1
    MaxNow = 0
    Attempts = 1
    MaxStalledCount = 0
    MaxCrashes = 1
    MaxResolveAborts = 1
    MaxLosses = 1
    LateAdds = TRUE
SPECIFICATION Spec
SYMMETRY Symmetry
PROPERTY PersistedIsFinal
