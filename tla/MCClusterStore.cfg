SPECIFICATION FairSpec
CONSTANTS
    Worker = {w1, w2}
    Change = {c1, c2}
    Nobody = Nobody
    Calls = {"mutate", "note", "flush", "force", "replace"}
    MaxCalls = 2
    MaxFailures = 1
INVARIANTS TypeOK NoClobberOutsideWindows
PROPERTIES EveryWorkerLearns
