CONSTANTS
    Name = {fra, nyc}
    NoTunnel = NoTunnel
    MAX_RETRY = 1
    MaxRequests = 3
    MaxJobs = 2
    MaxFailures = 2
    MaxSetups = 2
SPECIFICATION Spec
SYMMETRY Symmetry
INVARIANTS TypeOK OrderlyStateIsBackend DisconnectedMeansDown RunningIsKnown RetriesSuffice
CHECK_DEADLOCK FALSE
