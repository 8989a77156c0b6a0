SPECIFICATION Spec
CONSTANTS
    Network = {wifi, cell}
    NoNetwork = NoNetwork
    Events = {"network", "screen", "pause", "stop"}
    NetChangeReconnect = FALSE
    MaxEvents = 5
    Waits = {0}
    MaxRestarts = 2
    MaxCounts = 0
PROPERTY ReleaseOnlyIfWanted
CHECK_DEADLOCK FALSE
