CONSTANTS
    Fixes <- Walk
    SameSpot = 2
    Heartbeat = 3
    MaxSpeed = 1
    JumpWindow = 1
    DayLength = 2
    MaxRecords = 3
    Drop = 1
    DeferAbove = 1
    MaxDiff = 1
    Legacy <- OldFile
SPECIFICATION Spec
INVARIANTS Ordered RestsAreShort FindsClosest UnsavedIsPending DailyCurrent
PROPERTIES KeepsAnchors
