SPECIFICATION Spec
CONSTANTS
    Session = {s1, s2, s3}
    Worker = {w1}
    Addr = {a1, a2}
    NoDict = NoDict
    Operator = {o1}
    Ops = {"delete", "regenerate", "restore"}
    MaxConn = 2
    StrictIp = TRUE
    AcceptYields = FALSE
    MaxRotations = 1
INVARIANTS TypeOK EverySessionTracked LimitsHold
SYMMETRY SessionSymmetry
