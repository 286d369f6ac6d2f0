\* Sessions of one player, an anonymous one and one known by UUID only end
\* while statements fail and operators are at work; all sessions end at last.
SPECIFICATION Spec
CONSTANTS
    Enders = {e1, e2}
    s1 = s1
    s2 = s2
    s3 = s3
    s4 = s4
    p1 = p1
    Sessions = {s1, s2, s3, s4}
    Players = {p1}
    Nobody = Nobody
    NameOf <- NamesIn
    HasUUID <- SomeUUIDs
    StartTime <- StartsIn
    KnownPlayers = {p1}
    Limits = {1, 2}
    FirstLimit = 1
    MaxRetries = 2
    MaxFaults = 2
    MayDelete = TRUE
    None = None
INVARIANTS CountedOnce HistoryBounded RecordSurvives AllCounted
CHECK_DEADLOCK FALSE
