\* Jobs: two that change twice, so that an event may be listed before an earlier
\* one, a late answer, and two errors: broken connections or failed requests.
\* Local: two runs, one poll under way besides the request of a start, one loss.
CONSTANTS
    Job = {j1, j2}
    NoJob = NoJob
    MaxChanges = 2
    MaxAnswers = 1
    MaxErrors = 2
    Slot = {q1}
    Starter = Starter
    MaxRuns = 2
    MaxIncidents = 1
SPECIFICATION WebSpec
INVARIANTS
    StreamIsCurrent
    ClientKeepsWatch
    CompletedIsWhole
PROPERTIES
    OwnNewsIsReceived
    StartedRunIsFollowed
CHECK_DEADLOCK FALSE
