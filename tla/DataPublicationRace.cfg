SPECIFICATION FairSpec
CONSTANTS
    Pub = {p1, p2}
    NoPub = NoPub
    Dataset = "core"
    MaxClock = 1
    MaxFaults = 0
PROPERTIES
    RedisConverges
    ReceiptsSettle
\* Publishers, faults and the clock are bounded: the environment may be done.
CHECK_DEADLOCK FALSE
