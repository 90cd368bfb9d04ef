SPECIFICATION Spec
CONSTANTS
    A = A
    B = B
    m = m
    p = p
    All = All
    Domains <- MCDomains
    Mutations <- MCMixed
    Poison <- MCPoison
    FlushBatch = 2
    Rejections = 2
    MaxFailures = 1
    MaxFaults = 2
SYMMETRY Symmetry
INVARIANTS TypeOK DeadLettersPaidFor NoFlushForgotten QuietWithoutDomains FifoAtServer
PROPERTY NothingLost
