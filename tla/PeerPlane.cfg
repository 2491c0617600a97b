\* Two peers at one address for two slots, two echoed addresses, two messages
\* and one echo each second.
SPECIFICATION Spec
CONSTANTS
    Peers <- MCPeers
    Addresses <- MCAddresses
    Bits <- MCBits
    SlotCount = 2
    Ttl = 1
    RateLimit = 1
    Stale = 1
    Interval = 2
    MaxBurst = 2
INVARIANTS
    NoSilentGap
    StaleTold
PROPERTIES
    PingingStays
CHECK_DEADLOCK FALSE
