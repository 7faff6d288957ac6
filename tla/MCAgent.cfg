SPECIFICATION MCSpec
CONSTANTS
    NULL = NULL
    seqReserveBlock = 2
    eventBuffer = 2
    criticalPushAttempts = 2
    MaxSeq = 4
    MaxStarts = 2
    DesiredSets = {d1, d2}
    MaxGen = 2
    MaxBeats = 2
    d1 = d1
    d2 = d2
    Codes = {200, 201, 202, 204, 401, 403, 404, 500, 503}
    MaxClientTries = 2
    Wishes = {d1, d2}
    MaxEvents = 2
    MaxWishes = 1
    MaxPushAttempts = 2
    MaxBeatTries = 1
INVARIANTS
    NotOvertaken
    InterruptedIsRetryable
    ClientsAgree
PROPERTIES
    SeqNeverRegresses
    DaemonStops
    ServingGoesOn
    EventsRecorded
    DesiredFollowsWish
CHECK_DEADLOCK FALSE
