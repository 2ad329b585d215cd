\* Two requests that two threads may confirm, repeat and overlap, over two artifacts
\* of a job and two other rows that refer to it, all of which come at any time.
CONSTANTS
    JobId = {j1}
    ArtifactId = {a1, a2}
    Request = {q1, q2}
    Confirmer = {c1, c2}
    Nothing = Nothing
    MaxReports = 2
SPECIFICATION FairSpec
INVARIANTS
    HalfDeletedIsRetryable
PROPERTIES
    CleanupCompletes
CHECK_DEADLOCK FALSE
