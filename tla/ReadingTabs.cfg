SPECIFICATION Spec
CONSTANTS
    t1 = t1
    t2 = t2
    A = A
    B = B
    Local = Local
    None = None
    Tabs <- MCTabs
    Accounts <- MCAccount
    ThreadIds <- MCIds1
    Clocks <- MCClocks1
    Ayahs <- MCAyahs
    ThreadQuota = 9
    SnapshotLimit = 1
    ThreadCap = 2
    FlushBatch = 1
    MaxSwitches = 0
    MaxRemote = 1
    MaxFaults = 1
PROPERTY ReadingGoesOn
SYMMETRY MCSymmetry
CHECK_DEADLOCK FALSE
