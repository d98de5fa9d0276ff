SPECIFICATION Spec
CONSTANTS
    Worker = {w1, w2}
    Change = {c1, c2}
    Nobody = Nobody
    Calls = {"mutate"}
    MaxCalls = 3
    MaxFailures = 0
INVARIANTS NoClobber
SYMMETRY ClusterSymmetry
CHECK_DEADLOCK FALSE
