CONSTANTS
    Threads = {t1, t2}
    NoThread = NoThread
    Depth = 2
    NodePage <- OwnPages
    DirPages <- TwoPages
    EntryPage <- SharedPage
SPECIFICATION Spec
SYMMETRY ThreadSymmetry
INVARIANTS TypeOK OldEntriesGo DirectoryWaitsForNeighbour
PROPERTY UsedEntryLost
CHECK_DEADLOCK FALSE
