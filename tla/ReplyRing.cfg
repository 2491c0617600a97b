\* Two senders, a ring of three slots (two usable), four calls: the ring goes
\* more than once around, one stop and restart.
SPECIFICATION Spec
CONSTANTS
    Senders = {control, audio}
    Cap = 3
    MaxReplies = 4
    MaxStops = 1
    MayLap = FALSE
INVARIANTS
    CountedOnce
PROPERTIES
    ImplementsReplyQueue
    Delivered
CHECK_DEADLOCK FALSE
