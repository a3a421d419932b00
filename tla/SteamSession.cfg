SPECIFICATION Spec
CONSTANTS
    Queries = {1, 2, 3}
    Stream = stream
    Nobody = Nobody
    NoText = NoText
    Texts = {m1}
    GroupTexts = {m1}
    Wants <- AppCalls
    MaxSessions = 2
    MaxPolls = 2
    MaxIdle = 1
    MaxAttempts = 1
CHECK_DEADLOCK FALSE
INVARIANTS
    TypeOK
    OneSession
    NeverTwice
    RoutedWithinSession
PROPERTIES
    Heard
    StreamEnds
