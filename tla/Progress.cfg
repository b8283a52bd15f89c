SPECIFICATION ProgressSpec
CONSTANTS
    WeekEdition = {d1, d2}
    Key = {k1, k2}
    ContentWorker = cw
    MaxWeekFaults = 1
    Report = {r1, r2}
    PublicId = {p1}
    Private = {r2}
    Source = {s}
    MaxStorageFaults = 1
    MaxReopens = 1
    Structure = {points}
    Cascade = {c1}
    MaxCascadeFaults = 1
    Membership = {"a", "b"}
    MaxAttempts = 2
    MaxCommands = 1
    MaxSetupFaults = 1
    MaxGameweeks = 1
    SyncEntry = {e1}
    SyncCase <- MCSyncCase
    LiveWorker = {w1, w2}
    LiveCase <- MCLiveCase
    Account = {a1, a2}
    Handle = {h1, h2}
    XUser = {u1, u2, u3}
    LegacyUser = {u3}
    Partition = {p}
    MaxManifests = 2
    MaxLookups = 2
    MaxScans = 2
    MaxAuthors = 1
INVARIANTS
    WeekInv
    CascadeInv
    EventSyncInv
    
    
PROPERTIES
    WeekPointerNeverGoesBack
    SetupSteps
    WorkIsFinished
\* Commands, faults and the owner's moves are bounded: a component may be done.
CHECK_DEADLOCK FALSE
