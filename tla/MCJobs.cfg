SPECIFICATION FairSpec
CONSTANTS
    w1 = w1
    w2 = w2
    Nobody = Nobody
    Worker = {w1, w2}
    OwnerAlert = {quota, expiry}
    Nudge = {nudge}
    MaxRecords = 2
    Threshold = 2
    DisableAfter = 0
    DeleteAfter = 1
    MaxTime = 3
    MaxTroubles = 1
    MaxWrites = 1
INVARIANTS TypeOK SellerKnows
PROPERTIES ToldOnce CleanupSparesThePaid AlertsGetOut
CHECK_DEADLOCK FALSE
