\* One event with two publishers and two workers: duplicates come from an
\* overrun lease, an unclear refusal, a crash or a lost worker.
CONSTANTS
    OutboxEvent = {e1}
    Publisher = {p1, p2}
    Worker = {w1, w2}
    NoEvent = NoEvent
    MaxRetry = 1
    MaxFaults = 3
SPECIFICATION FairSpec
INVARIANTS
    ExecutedOnce
    NothingVanishes
PROPERTIES
    EventuallyPublished
    EventuallyHandled
CHECK_DEADLOCK FALSE
