SPECIFICATION Spec
CONSTANTS
    r1 = r1
    r2 = r2
    b1 = b1
    Requests <- MCRequests
    BackupCodes <- MCBackup
    MaxCounter = 1
    MaxSecret = 2
    MaxFactor = 2
    MaxSids = 2
    MaxTokens = 3
SYMMETRY MCSymmetry
INVARIANTS TypeOK EachCodeOnce FreshMeansBothFactors
PROPERTIES TrustChangesProven HalfLoginDies
CHECK_DEADLOCK FALSE
