\* One job, two workers, up to three attempts: enough for a worker to be
\* declared dead, superseded, and to come back while a second one executes.
CONSTANTS
    Job = {j1}
    Worker = {w1, w2}
    Stage = {s1}
    NoJob = NoJob
    NoWorker = NoWorker
    NoStage = NoStage
    MaxAttempt = 3
    FullProgress = 1
    MaxUnit = 2
SPECIFICATION FairSpec
INVARIANTS
    RowsInStep
PROPERTIES
    ClosedAttemptsAreFinal
    KeepsContract
    AbandonedAttemptEnds
CHECK_DEADLOCK FALSE
