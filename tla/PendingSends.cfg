SPECIFICATION PSpec
CONSTANTS
    Sends = {s1, s2}
    Others = {o1, o2}
SYMMETRY Symmetry
CHECK_DEADLOCK FALSE
INVARIANTS
    PTypeOK
    NoGhosts
    ConsumedShown
    OneAtATimeNoRepeats
