SPECIFICATION FairSpec
CONSTANTS
    Obl = {o1}
    Pass = {scheduler, api}
    Scheduler = scheduler
    NoPass = NoPass
    CurrentDayOnly = TRUE
    MaxGen = 2
    MaxFaults = 2
INVARIANTS
    TypeOK
    SucceededDidWork
PROPERTIES
    FailuresAccounted
    TerminalIsFinal
    ObligationsSettle
