\* Three engine processes, a ring of two blocks that a dead process may have
\* locked, and four blocks in all; warnings at most every second pass.
SPECIFICATION FocusSpec
CONSTANTS
    Engines = {a, b, c}
    NoOne = NoOne
    Gone = Gone
    Headers <- MCHeaders
    Backlogs <- MCBacklogs
    EngineBlock = 4
    MaxFrames = 8
    MayStall = FALSE
    PlayerStates = {0, 1}
    StaleLimit = 2
    PacingLimit = 2
    MaxBlocks = 3
INVARIANTS
    LockTrue
    FramesInOrder
PROPERTIES
    TroubleTold
CHECK_DEADLOCK FALSE
