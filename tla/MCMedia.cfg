CONSTANTS
    Threads = {t1, t2}
    NoThread = NoThread
    Importer = offimport
    Nodes = {n1, n2}
    NoNode = NoNode
    Around <- OnePage
    Labels = {"default"}
    NoLabel = "none"
    Default = "default"
    MaxId = 1
    PageOf <- OwnPages
    MaxAge = 3
    NoMedium = 99
SPECIFICATION Spec
INVARIANTS TypeOK OldIdsLeadOnlyToNewer StaysFirst OnOwnVolume
PROPERTY HandlersEnd
ACTION_CONSTRAINT FewKinds
CHECK_DEADLOCK FALSE
