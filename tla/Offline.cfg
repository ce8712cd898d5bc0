\* Two tabs send one report, which the officer edits and queues again.
SPECIFICATION Spec
CONSTANTS
    Id = {1}
    MaxReports = 1
    Tab = {t1, t2}
    Request = {r1, r2}
    None = None
    MaxEdit = 1
    ScanRetryLimit = 2
    FaultLimit = 0
    RoutesCommit = TRUE
SYMMETRY Symmetry
PROPERTIES
    SyncedIsFinal
