SPECIFICATION FairSpec
CONSTANTS
    A = A
    B = B
    m = m
    p = p
    All = All
    Domains <- MCDomains
    Mutations <- MCMixed
    Poison <- MCPoison
    FlushBatch = 2
    Rejections = 2
    MaxFailures = 1
    MaxFaults = 1
PROPERTY Drains
