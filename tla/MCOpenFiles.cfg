CONSTANTS
    Nodes = {n1, n2}
    n2 = n2
    f3 = f3
    Files = {f1, f2, f3}
    NoFile = NoFile
    NoNode = NoNode
    MaxSlots = 2
    MaxSize = 1
    MaxTime = 1
    Changing = {n1}
    Opening <- BothButF3
    Refused = {"write", "truncate"}
SPECIFICATION Spec
INVARIANTS TypeOK SizeCoversFile TimeCoversWrites SlotsExclusive SizeWithinFile UtimensStays
PROPERTY OpenReturns
