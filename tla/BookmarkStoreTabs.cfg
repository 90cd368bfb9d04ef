SPECIFICATION Spec
CONSTANTS
    s = s
    t = t
    a = a
    b = b
    D = D
    F = F
    v = v
    Tabs <- MCTabs
    BookmarkIds <- MCTwo
    FolderIds <- MCFolders
    DefaultFolder = D
    OldFolders <- MCFolders
    Verses <- MCVerse
    Clocks <- MCClocks2
    BookmarkQuota = 9
    FolderQuota = 9
    FlushBatch = 1
    MaxFolderDeletes = 1
    MaxRemote = 0
    MaxFaults = 1
SYMMETRY TabSymmetry
INVARIANTS TypeOK OverlaysRetired DrainedIsDigested
