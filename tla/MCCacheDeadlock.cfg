CONSTANTS
    Threads = {t1, t2}
    NoThread = NoThread
    Depth = 2
    NodePage <- OwnPages
    DirPages <- TwoPages
    EntryPage <- SharedPage
SPECIFICATION Spec
SYMMETRY ThreadSymmetry
INVARIANT ThreadsGoOn
CHECK_DEADLOCK FALSE
