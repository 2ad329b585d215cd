\* Two runs with up to two records each, two threads, three requests, one crash:
\* a request that is overlapped, a save cut short, and the import after it.
CONSTANTS
    RunId = {1, 2}
    Thread = {t1, t2}
    Boot = Boot
    MaxFiles = 2
    MaxRequests = 3
    MaxCrashes = 1
SYMMETRY ThreadSymmetry
SPECIFICATION HistorySpec
INVARIANTS
    RegistryMirrorsFiles
    FinishedIsListed
    ResetIsFinal
CHECK_DEADLOCK FALSE
