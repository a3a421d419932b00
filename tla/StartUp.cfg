SPECIFICATION Spec
CONSTANTS
    Messengers = {m1, m2}
    Saved = {m1, m2}
    Nobody = Nobody
    Queries = {client_user, rooms}
    ClientUser = client_user
    Attempts = 1
    MaxCrashes = 1
CHECK_DEADLOCK FALSE
INVARIANTS
    TypeOK
    OneExchange
    CommitVerified
PROPERTY StartUpEnds
