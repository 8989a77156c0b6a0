SPECIFICATION Spec
CONSTANTS
    Profile = {p, q}
    NoProfile = NoProfile
    UserPass = {q}
    NeedsPassword = {q}
    RETRY_INTERVAL = 5000
    MAX_RETRY_INTERVAL = 15000
    Statuses = {"CHILD_SA_UP", "CHILD_SA_DOWN", "LOOKUP_FAILED", "INSTRUCTION"}
    UserOps = {"connect", "disconnect", "reconnect", "alwaysOn", "revoke", "destroy"}
    MaxRequests = 3
    MaxReports = 2
INVARIANTS TypeOK NoStaleReport RetryHasProfile CountdownAlive StateMatchesDaemon BlockedUntilReplaced
PROPERTIES ImplementsConnection
CHECK_DEADLOCK FALSE
