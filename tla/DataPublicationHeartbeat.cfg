SPECIFICATION FairSpec
CONSTANTS
    Pub = {p1}
    NoPub = NoPub
    Dataset = "live"
    MaxClock = 0
    MaxFaults = 1
PROPERTIES
    ReceiptsSettle
\* Publishers, faults and the clock are bounded: the environment may be done.
CHECK_DEADLOCK FALSE
