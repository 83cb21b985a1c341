CONSTANTS
    Names = {a, b}
    MaxId = 2
    NoNode = NoNode
    MaxEntries = 2
    MaxDepth = 2
    Writers = {"user"}
SPECIFICATION PathSpec
SYMMETRY NameSymmetry
INVARIANTS CacheTypeOK StaleOnlyBelowMoved AnswersLikeUncached
