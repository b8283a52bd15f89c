SPECIFICATION FairSpec
CONSTANTS
    Entry = {1, 2, 3}
    ChunkSize = 2
    MaxRetryCycles = 1
    Attempts = 2
    MaxGen = 2
    MaxFaults = 2
INVARIANTS
    TypeOK
    ScanCoversEntries
    ScanSurvivesRetries
PROPERTIES
    ScanCompletes
CHECK_DEADLOCK FALSE
