SPECIFICATION FairSpec
CONSTANTS
    Catalog = {kemar, cipic}
    StartPath = kemar
    Garbage = Garbage
    Partial = Partial
    Patience = 2
    MaxActive = 2
    MaxSelects = 2
    MaxStops = 1
INVARIANTS
    LiveSetWhole
PROPERTIES
    SelectionTaken
    SwapEnds
