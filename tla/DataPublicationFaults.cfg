SPECIFICATION Spec
CONSTANTS
    Pub = {p1, p2}
    NoPub = NoPub
    Dataset = "core"
    MaxClock = 0
    MaxFaults = 1
SYMMETRY PubSymmetry
INVARIANTS
    TypeOK
    PointerServable
    PointerOrdered
    ReceiptsTruthful
PROPERTIES
    RevisionNeverRegresses
    ImplementsStore
\* Publishers, faults and the clock are bounded: the environment may be done.
CHECK_DEADLOCK FALSE
