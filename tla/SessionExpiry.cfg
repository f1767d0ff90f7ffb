SPECIFICATION FairSpec
CONSTANTS
    TTLs = {0, 2}
    Retention = 1
    Second = 2
    Execs = {e1}
    MaxTime = 4
INVARIANTS
    WakeUpPlanned
PROPERTIES
    IdleSessionEnds
    ExpiresOnlyIdle
    RetentionKept
CHECK_DEADLOCK FALSE
