SPECIFICATION FairStartSpec
CONSTANTS
    Chunk = 2
    MaxFile = 5
    Cases <- MCCases
    Wait = 1
    TryFor = 2
    Answer = 1
    Conns = 1
    ConnTime = 2
    Secs = 8
    Room = 2
    MaxFrames = 4
    MaxClients = 2
    MaxEvents = 4
    Exchange = 2
CHECK_DEADLOCK FALSE
INVARIANT EachHadItsTurn
INVARIANT AnsweredOnce
INVARIANT ClockRight
INVARIANT NothingLost
INVARIANT HandedWhole
INVARIANT NicsKept
PROPERTY WaitsEnd
