SPECIFICATION Spec
CONSTANTS
    a = a
    b = b
    c = c
    D = D
    F = F
    v = v
    w = w
    BookmarkIds <- MCBookmarks3
    FolderIds <- MCFolders
    DefaultFolder = D
    Verses <- MCVerses
    Clocks <- MCClocks
    BookmarkQuota = 2
    FolderQuota = 2
    MaxBatch = 1
    Skew = 1
    MaxNow = 1
SYMMETRY Symmetry3
INVARIANTS TypeOK LiveKeyUnique LiveBookmarkHasLiveFolder BookmarkQuotaHolds
PROPERTIES NewerBookmarkSurvives OthersUntouched StampsFallOnlyInCascade
