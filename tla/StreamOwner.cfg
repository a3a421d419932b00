SPECIFICATION FairSpec
CONSTANTS
    Streams = {s1, s2, s3}
    MaxOwners = 2
    OneTask = TRUE
CHECK_DEADLOCK FALSE
INVARIANTS
    TypeOK
    KilledOnlyUnowned
PROPERTY DroppedEnds
