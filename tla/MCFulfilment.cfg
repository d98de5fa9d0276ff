SPECIFICATION FairSpec
CONSTANTS
    Chat = {a}
    Voucher = {v1}
    Own = Own
    None = None
    MaxOrders = 1
    MaxUpdates = 4
    MaxIncidents = 1
INVARIANTS TypeOK OnceAtATime ToldIsSaved
PROPERTIES DeliversOnce CatchesUp
