SPECIFICATION FairSpec
CONSTANTS
    Worker = {w1, w2}
    Threshold = 2
    Overlap = 1
    Capacity = 2
    CallLimit = 3
    MaxRuns = 3
    MaxNow = 2
    MaxFaults = 2
INVARIANTS
    TypeOK
    RunsAccounted
PROPERTIES
    CheckpointNeverGoesBack
    FollowupsSettle
CHECK_DEADLOCK FALSE
