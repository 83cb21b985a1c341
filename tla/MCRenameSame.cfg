CONSTANTS
    Names = {a, b}
    MaxId = 3
    NoNode = NoNode
SPECIFICATION Spec
INVARIANT SameNodeRenameIsNoOp
