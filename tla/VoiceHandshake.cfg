SPECIFICATION HSpec
CONSTANTS
    Channels = {a, b}
    Calls = {u1, u2, u3}
    Nil = Nil
    MaxSession = 3
SYMMETRY Symmetry
CHECK_DEADLOCK FALSE
INVARIANTS
    HTypeOK
    ClosedMeansDown
    LoneCallOpens
