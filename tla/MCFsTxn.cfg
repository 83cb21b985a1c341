CONSTANTS
    Threads = {t1, t2}
    NoThread = NoThread
    Keys <- Names
    MaxId = 5
    NoNode = NoNode
    Dirs = {0, 1, 2, 3}
    PathOf <- Paths
    PageOf <- NodePages
    DirPage <- TwoOnPage
    MaxLog = 2
    MaxCrashes = 1
SPECIFICATION Spec
SYMMETRY Symmetric
ACTION_CONSTRAINT FewMissing
INVARIANTS TypeOK CountsAgree DirectoriesLead HangsNeedNeighbours
CHECK_DEADLOCK FALSE
