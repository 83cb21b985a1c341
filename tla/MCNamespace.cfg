CONSTANTS
    Names = {a, b}
    MaxId = 3
    NoNode = NoNode
SPECIFICATION Spec
SYMMETRY NameSymmetry
INVARIANTS TypeOK LinkCountExact NodeIffNamed TreeShape AllAttached
PROPERTIES NoTraceOfFailure TreeSpec
