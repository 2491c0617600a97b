\* One thread of commands, a demotion after two slow blocks, four operations;
\* three directions and six blocks of one object;
\* three tables of positions.
SPECIFICATION FocusSpec
CONSTANTS
    Users = {osc}
    StrikeLimit = 2
    XfadeBlocks = 2
    MaxOps = 4
    Prompt = TRUE
    Places = {p1, p2, p3}
    MaxBlocks = 6
    Tables <- MCTables
    Queries <- MCQueries
    StackDepth = 3
INVARIANTS
    NoJump
    DemotionTold
    RequestHonoured
    LevelKept
    NearestFound
PROPERTIES
    DemotionHeard
