SPECIFICATION DSpec
CONSTANTS
    Dms = {d1, d2}
    Rooms = {r1, r2}
    Hidden = {r2}
    Unplaced = {d2}
    Existing = {d1, r1}
    Fetches = {f1, f2}
    QueueCap = 1
    Null = Null
CHECK_DEADLOCK FALSE
INVARIANTS
    DTypeOK
    Listed
PROPERTY Announced
