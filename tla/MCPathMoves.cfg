CONSTANTS
    Names = {a, b}
    MaxId = 3
    NoNode = NoNode
    MaxEntries = 3
    MaxDepth = 3
    Writers = {"user"}
SPECIFICATION MovesSpec
SYMMETRY NameSymmetry
INVARIANT LinkCountExact
CHECK_DEADLOCK FALSE
