CONSTANTS
    Users = {u1, u2}
    Rids = {r1}
    NoRid = NoRid
    TotalStock = 1
    StartsAt = 0
    EndsAt = 1
    MaxNow = 0
    Attempts = 1
    MaxStalledCount = 0
    MaxCrashes = 0
    MaxResolveAborts = 1
    MaxLosses = 0
    LateAdds = FALSE
SPECIFICATION Spec
SYMMETRY Symmetry
INVARIANT NoOversell
