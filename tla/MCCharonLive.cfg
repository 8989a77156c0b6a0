SPECIFICATION FairSpec
CONSTANTS
    Profile = {p}
    NoProfile = NoProfile
    UserPass = {}
    NeedsPassword = {}
    RETRY_INTERVAL = 5000
    MAX_RETRY_INTERVAL = 15000
    Statuses = {"CHILD_SA_UP", "CHILD_SA_DOWN", "LOOKUP_FAILED", "IMC"}
    UserOps = {"connect", "disconnect", "reconnect", "alwaysOn", "revoke", "destroy"}
    MaxRequests = 2
    MaxReports = 2
PROPERTIES
    DisconnectServed
    DestroyReturns
    RetryFires
CHECK_DEADLOCK FALSE
