SPECIFICATION PlaneFairSpec
CONSTANTS
    Objects = {0, 1}
    SceneFrame <- MCSceneFrame
    CueLists <- MCCueLists
    RateNum = 1
    RateDen = 1
    IntMax = 4
    ClockSteps <- MCClockSteps
    Indices <- MCIndices
    MaxTime = 3
    MaxStepsBack = 0
    MaxGeneration = 5
    MailboxCap = 4
    FifoCap = 4
    Packets <- MCPackets
    MaxPackets = 2
INVARIANTS
    TableFollowsEngine
PROPERTY Settles
