CONSTANTS
    Threads = {t1, t2}
    NoThread = NoThread
    Users = {u1, u2, u3}
    NoUser = NoUser
    MaxElems = 2
    MaxTime = 2
    MaxVersion = 2
SPECIFICATION Spec
SYMMETRY Symmetric
INVARIANTS TypeOK QueueOfCache OldOnlyWithinSecond GoneOnlyForReason
