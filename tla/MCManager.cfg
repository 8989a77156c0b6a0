CONSTANTS
    Server <- MCTwoServers
    KindOf <- MCKindOfTwo
    None = None
    DefaultTime = 1
    Credit = 1
    MaxTaps = 2
    MaxMoves = 1
    MaxCredits = 1
    MaxEvents = 1
SPECIFICATION FairSpec
INVARIANTS TypeOK ConnectedIsTimed TimedIsConnected ScreenIsTrue
PROPERTIES FreeConnectionEnds
CHECK_DEADLOCK FALSE
