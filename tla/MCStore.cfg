SPECIFICATION FairSpec
CONSTANTS
    Change = {c1}
    Handler = {h1,h2}
    Loop = {loop}
    DiskFlush = DiskFlush
    Shutdown = Shutdown
    NoTask = NoTask
    MaxFailures = 1
    DirSyncWorks = TRUE
    PowerMayFail = TRUE
INVARIANTS TypeOK AckedSurvives
PROPERTIES EveryCallReturns SavedUnlessAWriteFails KeepsPromises
