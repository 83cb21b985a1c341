CONSTANTS
    Names = {a, b}
    MaxId = 2
    NoNode = NoNode
    NoPath = NoPath
    MaxDepth = 2
    MaxLeft = 2
    UnlinkFiles = TRUE
    Refusing = TRUE
SPECIFICATION BackingSpec
SYMMETRY NameSymmetry
INVARIANTS StorageTypeOK WrittenStays NoForeignBytes NoFileForgotten
