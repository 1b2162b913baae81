CONSTANTS
    Users = {u1}
    Rids = {r1, r2}
    NoRid = NoRid
    TotalStock = 1
    StartsAt = 0
    EndsAt = 1
    MaxNow = 1
    Attempts = 2
    MaxStalledCount = 0
    MaxCrashes = 1
    MaxResolveAborts = 0
    MaxLosses = 0
    LateAdds = FALSE
SPECIFICATION FairSpec
INVARIANT CompensatedOnce
PROPERTIES ImplementsLifecycle WithdrawnOnlyByOwnFailure ConfirmationSettles
