SPECIFICATION Spec
CONSTANTS
    Msgs = {m1}
    Fetches = {f1}
    Poller = Poller
    NoEvent = NoEvent
    MaxRev = 2
    MaxChanges = 3
    QueueCap = 2
SYMMETRY Symmetry
CHECK_DEADLOCK FALSE
INVARIANT NoResurrection
