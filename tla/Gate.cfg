SPECIFICATION Spec
CONSTANTS
    u1 = u1
    r1 = r1
    r2 = r2
    Units <- MCUnit
    Requests <- MCRequests
    MaxRequests = 2
    Window = 1
    Threshold = 1
    TempAfter = 1
    TempWindow = 1
    TempDuration = 2
    LongAfter = 2
    LongWindow = 2
    LongDuration = 3
    MaxBans = 2
    MaxClock = 4
    MaxFaults = 2
SYMMETRY MCSymmetry
INVARIANTS TypeOK DurableBanEnforced LiftedStaysLifted
CHECK_DEADLOCK FALSE
