SPECIFICATION FairSpec
CONSTANTS
    WIDTH = 3
    NoNet = NoNet
    MaxNetworks = 4
INVARIANTS TypeOK RoutesAreDecided DoneIsDisjoint RegularIsAsserted
PROPERTY LoopEnds
CHECK_DEADLOCK FALSE
