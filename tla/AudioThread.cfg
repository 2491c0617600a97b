\* Two objects in the table and every claim in time for the next publish; a
\* cache of four slots for two objects that move five times through six bins,
\* three of them with one home slot; three frames and more of time code through
\* a ring of three samples; seven packets out of nine numbers, in any order.
SPECIFICATION FocusSpec
CONSTANTS
    Objects = {o1, o2}
    Lag = 0
    StoreDepth = 2
    MaxVersion = 5
    MAX_CACHE = 4
    Directions = {d1, d2, d3}
    Widths = {0, 3}
    Active = 2
    MaxMoves = 5
    CapacityPow2 = 4
    FrameBits = 3
    BlockSize = 2
    MaxSamples = 10
    Stream <- Sent
    STATE_MAX_OBJECTS = 2
    WINDOW_SIZE = 4
    BURST_THRESH = 3
    WINDOW_MS = 1
    SofaNames = {"a", "b"}
    MaxArrivals = 7
    MaxClock = 3
INVARIANTS
    ConsistentSnapshot
    TimecodeTrue
    NewestWins
    BurstTold
PROPERTIES
    ImplementsAtomicSnapshot
    CacheServes
