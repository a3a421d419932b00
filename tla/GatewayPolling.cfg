SPECIFICATION FairSpec
CONSTANTS
    Pollers = {p1, p2}
    Listeners = {l1, l2}
    Conns = {c1, c2}
    None = None
CHECK_DEADLOCK FALSE
INVARIANTS
    TypeOK
PROPERTIES
    NeverReplaced
    WokenByPump
