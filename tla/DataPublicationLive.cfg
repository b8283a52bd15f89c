SPECIFICATION Spec
CONSTANTS
    Pub = {p1, p2}
    NoPub = NoPub
    Dataset = "live"
    MaxClock = 1
    MaxFaults = 0
SYMMETRY PubSymmetry
INVARIANTS
    LiveSourceOrder
\* Publishers, faults and the clock are bounded: the environment may be done.
CHECK_DEADLOCK FALSE
