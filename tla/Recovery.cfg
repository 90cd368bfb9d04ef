SPECIFICATION Spec
CONSTANTS
    r1 = r1
    r2 = r2
    e1 = e1
    e2 = e2
    s1 = s1
    s2 = s2
    NoEmail = NoEmail
    Requests <- MCRequests
    Emails <- MCEmails
    Spellings <- MCSpellings
    Normal <- MCNormal
    MaxCodes = 3
    MaxTokens = 2
    MaxSecret = 4
SYMMETRY MCSymmetry
INVARIANT TypeOK
PROPERTIES VerifiedByItsOwner ResetByItsOwner ImplementsOneTimeToken
CHECK_DEADLOCK FALSE
