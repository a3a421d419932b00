SPECIFICATION Spec
CONSTANTS
    Users = {me, u1}
    Self = me
    Channels = {c1, c2}
    Nowhere = Nowhere
    Fetches = {f1, f2}
    Calls = {k1}
    QueueCap = 2
    MaxChanges = 3
    MaxReady = 2
SYMMETRY Symmetry
CHECK_DEADLOCK FALSE
INVARIANTS
    TypeOK
    RosterFollows
    Converged
PROPERTY OwnLeaveEndsCall
