SPECIFICATION FairSpec
CONSTANTS
    s = s
    t = t
    a = a
    b = b
    D = D
    F = F
    v = v
    Tabs <- MCTabs
    BookmarkIds <- MCOne
    FolderIds <- MCFolders
    DefaultFolder = D
    OldFolders <- MCFolders
    Verses <- MCVerse
    Clocks <- MCClock1
    BookmarkQuota = 9
    FolderQuota = 9
    FlushBatch = 1
    MaxFolderDeletes = 1
    MaxRemote = 1
    MaxFaults = 2
PROPERTY ViewConverges
