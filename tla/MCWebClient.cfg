CONSTANTS
    Users = {u1, u2}
    Rids = {r1, r2}
    NoRid = NoRid
    NoUser = NoUser
    TotalStock = 1
    StartsAt = 1
    EndsAt = 2
    MaxNow = 2
    MaxDrift = 1
    UserMax = 1
    MaxGestures = 2
SPECIFICATION WebSpec
SYMMETRY Symmetry
INVARIANTS BuyersMatchLedger UnitsAccounted WebTypeOK FeedbackIsForField LookupIsCurrent PollingFollowsPage OldSnapshotIsReplaced
PROPERTIES ConfirmedOnlyInWindow SoldOutOnlyToOthers
CHECK_DEADLOCK FALSE
