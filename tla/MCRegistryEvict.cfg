SPECIFICATION RegistrySpec
CONSTANTS
    NULL = NULL
    DONE = DONE
    Agents = {a1}
    Enrolled = {a1}
    Tokens = {t1}
    SiteTokens = {}
    Slots = {r1, r2}
    MaxSent = 1
    MaxGeneration = 2
    a1 = a1
    t1 = t1
    r1 = r1
    r2 = r2
SYMMETRY SlotSymmetry
INVARIANTS
    RevocationEvicts
