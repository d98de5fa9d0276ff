SPECIFICATION FairSpec
CONSTANTS
    Session = {s1, s2}
    Worker = {w1,w2}
    Addr = {a1}
    NoDict = NoDict
    Operator = {o1}
    Ops = {"delete", "regenerate"}
    MaxConn = 1
    StrictIp = FALSE
    AcceptYields = FALSE
    MaxRotations = 1
PROPERTIES DeniedSessionsEnd EntriesAreReleased
