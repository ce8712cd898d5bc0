\* The route as it is: the session is closed without a commit.
SPECIFICATION Spec
CONSTANTS
    Id = {1}
    MaxReports = 1
    Tab = {t1}
    Request = {r1}
    None = None
    MaxEdit = 0
    ScanRetryLimit = 2
    FaultLimit = 0
    RoutesCommit = FALSE
INVARIANTS
    SyncedIsStored
