SPECIFICATION FairSpec
CONSTANTS
    Network = {wifi, cell}
    NoNetwork = NoNetwork
    Events = {"network", "screen", "pause", "apiPause", "stop"}
    NetChangeReconnect = TRUE
    MaxEvents = 3
    Waits = {5}
    MaxRestarts = 1
    MaxCounts = 1
INVARIANTS TypeOK HoldHasRelease
PROPERTY HoldReleased
CHECK_DEADLOCK FALSE
