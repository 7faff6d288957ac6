SPECIFICATION RegistrySpec
CONSTANTS
    NULL = NULL
    DONE = DONE
    Agents = {a1, a2}
    Enrolled = {a1}
    Tokens = {t1}
    SiteTokens = {}
    Slots = {r1, r2, r3}
    MaxSent = 2
    MaxGeneration = 2
    a1 = a1
    a2 = a2
    t1 = t1
    r1 = r1
    r2 = r2
    r3 = r3
SYMMETRY SlotSymmetry
INVARIANTS
    EnrolmentHolds
    PresenceIsNewest
    FencesHold
