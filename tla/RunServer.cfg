\* Two pipelines, which overlap while the first one saves, and a revision and an
\* archiver that may write the same metadata file at the same time.
CONSTANTS
    Run = {r1, r2}
    Revision = {v1}
    Archiver = {a1}
    Nobody = Nobody
    NoRecord = NoRecord
SPECIFICATION FairSpec
INVARIANTS
    StatusIsHeld
    FirstVersionKept
PROPERTIES
    RunningEnds
CHECK_DEADLOCK FALSE
