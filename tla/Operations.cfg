SPECIFICATION OperationsSpec
CONSTANTS
    Candidate = {n1, n2}
    Story = {s1}
    Edition = {e1}
    AcqRun = {aq1, aq2}
    Receipt = {rcA, rcB, rcC}
    RunOf <- MCRunOf
    Public = {rcA, rcC}
    rcA = rcA
    rcB = rcB
    rcC = rcC
    aq1 = aq1
    aq2 = aq2
    Report = {r1, r2}
    PublicId = {p1, p2}
    Private = {r2}
    Source = {s}
    MaxStorageFaults = 1
    MaxReopens = 0
    Membership = {"a", "b"}
    MaxAttempts = 2
    MaxCommands = 2
    MaxSetupFaults = 0
    MaxGameweeks = 1
    PlanRequest <- MCPlanRequest
    LastGameweek = 4
    OverallRank <- MCOverallRank
    ResultsOf <- MCResultsOf
    MaxCorrections = 1
    IntakeCase <- MCIntakeCase
    IntakeWorker = {1, 2}
    MaxIntakeRuns = 3
    CreditLimit = 2
    rj1 = rj1
    rj2 = rj2
    rj3 = rj3
    rj4 = rj4
    RefreshJob = {rj1, rj2, rj3, rj4}
    NoParent = NoParent
    PhaseOf <- MCPhaseOf
    ParentOf <- MCParentOf
    MaxRefreshFaults = 2
    Capturer = {c1, c2}
    SnapDispatcher = {d1}
    OverrideKey = {k1}
    SnapDate = {1}
    MaxSnapRevision = 2
    MaxSnapFaults = 1
    UnderstatRun = {u1, u2}
    UTeam = {"t1"}
    UMatch = {"m1"}
    URequest <- MCRequest
    UnderstatAttempts = 1
    MaxUnderstatFaults = 1
    MaxSourceVersion = 2
    fb1 = fb1
    fb2 = fb2
    fl1 = fl1
    FplCall = {fb1, fb2, fl1}
    FplPriority <- MCFplPriority
    FplMaxInflight = 2
    FplLiveReserve = 1
    FplMaxRetries = 1
    FplTimeout = 1
    FplDeadline = 1
    FplLease = 2
    FplMaxDeaths = 1
INVARIANTS
    EditorialInv
    
    SetupInv
    CompetitionInv
    
    RefreshInv
    SnapInv
    
    
PROPERTIES
    SnapSteps
\* Commands, faults and the owner's moves are bounded: a component may be done.
CHECK_DEADLOCK FALSE
