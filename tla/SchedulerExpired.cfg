SPECIFICATION Spec
CONSTANTS
    Obl = {o1}
    Pass = {scheduler}
    Scheduler = scheduler
    NoPass = NoPass
    CurrentDayOnly = TRUE
    MaxGen = 0
    MaxFaults = 0
INVARIANTS
    SuccessIsEvidence
