SPECIFICATION FairSpec
CONSTANTS
    Objects = {"obj1", "obj2"}
    SceneFrame <- MCSceneFrame
    CueLists <- MCCueLists
    RateNum = 3
    RateDen = 2
    IntMax = 3
    ClockSteps <- MCClockSteps
    Indices <- MCIndices
    MaxTime = 10
    MaxStepsBack = 1
    MaxGeneration = 3
INVARIANTS
    Coherent
PROPERTIES
    AutoAdvanceJustified
    DwellEnds
