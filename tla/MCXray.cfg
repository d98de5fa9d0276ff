SPECIFICATION FairSpec
CONSTANTS
    User = {u1}
    MaxTransports = 2
    MaxChanges = 2
    MaxFailures = 1
INVARIANTS TypeOK MirrorTells OldKeyIsGone XrayIsManaged
PROPERTIES Reconciles
CHECK_DEADLOCK FALSE
