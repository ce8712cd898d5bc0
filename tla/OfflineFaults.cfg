\* One tab and one fault: a lost answer, a refused batch, a failed upload or a closed tab.
SPECIFICATION FairSpec
CONSTANTS
    Id = {1}
    MaxReports = 1
    Tab = {t1}
    Request = {r1, r2}
    None = None
    MaxEdit = 1
    ScanRetryLimit = 2
    FaultLimit = 1
    RoutesCommit = TRUE
INVARIANTS
    ReportsAreSound
    SyncedIsStored
PROPERTIES
    EverySubmissionSettles
