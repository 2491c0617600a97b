CONSTANTS
    N = 2
    Width = 8
    None = None
    Commands <- MCCommands
    Packets <- MCPackets
    MaxObjects = 1
    Channels = {1}
    Cadence = TRUE
    MaxStarts = 2
SPECIFICATION PathSpec
INVARIANT LastWordCounts
INVARIANT BlockRendersWhole
INVARIANT WireFaithful
PROPERTY ImplementsQueue
