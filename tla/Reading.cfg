SPECIFICATION Spec
CONSTANTS
    t1 = t1
    t2 = t2
    A = A
    B = B
    Local = Local
    None = None
    Tabs <- MCTab
    Accounts <- MCAccounts
    ThreadIds <- MCIds2
    Clocks <- MCClocks2
    Ayahs <- MCAyahs
    ThreadQuota = 9
    SnapshotLimit = 1
    ThreadCap = 2
    FlushBatch = 1
    MaxSwitches = 2
    MaxRemote = 0
    MaxFaults = 1
SYMMETRY MCAccountSymmetry
INVARIANTS TypeOK OwnChangesShown OneAccountEach ChangesDigested
PROPERTY NeverBackwards
CHECK_DEADLOCK FALSE
