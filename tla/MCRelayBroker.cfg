SPECIFICATION RelaySpec
CONSTANTS
    NULL = NULL
    Agents = {a1}
    MaxCalls = 2
    MaxClaims = 2
    MaxGeneration = 1
    MaxChunks = 2
    BufferChunks = 1
    TerminalHistory = 1
    Modes = {"buffered", "stream"}
CONSTRAINT RichAlone
INVARIANTS
    NoOrphanedWork
    FencedWorkIsDead
PROPERTIES
    FirstEndWins
CHECK_DEADLOCK FALSE
