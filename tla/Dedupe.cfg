SPECIFICATION Spec
CONSTANTS
    Values = {v1, v2, v3, v4}
    Limit = 2
    MaxOrder = 7
INVARIANTS
    BoundedAndEvictable
    MapIsWindow
PROPERTIES
    NoNeedlessEviction
    ImplementsWindow
SYMMETRY ValueSymmetry
