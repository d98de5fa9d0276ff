SPECIFICATION FairSpec
CONSTANTS
    User = {u1}
    MaxTransports = 1
    MaxChanges = 1
    MaxFailures = 0
PROPERTIES LapsedAreCutOff
CHECK_DEADLOCK FALSE
