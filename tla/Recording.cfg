SPECIFICATION Spec
CONSTANTS
    Windows = {w1, w2, w3}
    Recorders = {p1, p2}
    Events = {e1, e2}
    NoEvent = NoEvent
    NoOne = NoOne
    MaxSeq = 3
SYMMETRY Symmetry
INVARIANTS
    IInv
PROPERTY ImplementsWindowLog
