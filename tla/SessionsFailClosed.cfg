SPECIFICATION Spec
CONSTANTS
    r1 = r1
    r2 = r2
    t1 = t1
    t2 = t2
    t3 = t3
    a1 = a1
    a2 = a2
    None = None
    Requests <- MCRequests
    TowerIds <- MCTowers3
    AuditIds <- MCAudits
    MaxSecret = 2
    MaxFaults = 1
PROPERTY FailClosed
CHECK_DEADLOCK FALSE
