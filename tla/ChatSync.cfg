SPECIFICATION Spec
CONSTANTS
    Msgs = {m1, m2}
    Fetches = {f1, f2}
    Poller = Poller
    NoEvent = NoEvent
    MaxRev = 2
    MaxChanges = 3
    QueueCap = 2
SYMMETRY Symmetry
CHECK_DEADLOCK FALSE
INVARIANTS
    TypeOK
    NeverStale
    Converged
PROPERTY FoldFresh
