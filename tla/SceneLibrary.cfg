SPECIFICATION FocusSpec
CONSTANTS
    Scenes = {intro, finale}
    IndexName = IndexName
    Arguments = {intro, finale}
    NoNote = NoNote
    Notes = {plain, braced}
    Braced = {braced}
    MaxSaves = 2
    MaxFaults = 1
    MaxCrashes = 2
    Documents <- MCDocuments
    Digits = 1000000
INVARIANTS
    IndexAgrees
    TextFaithful
PROPERTY NothingLost
