SPECIFICATION Spec
CONSTANTS
    Streams = {s1, s2}
    Nobody = Nobody
    Speakers = {u1}
    MaxCalls = 2
    MaxKeys = 3
    MaxFrames = 2
    MaxDrops = 2
    MaxRetries = 1
    NonceSpace = 4
CHECK_DEADLOCK FALSE
INVARIANTS
    TypeOK
    NonceFresh
    OneLateFrame
PROPERTY SpeakersHeard
