SPECIFICATION Spec
CONSTANTS
    Profile = {p, q}
    NoProfile = NoProfile
    UserPass = {q}
    NeedsPassword = {q}
    RETRY_INTERVAL = 5000
    MAX_RETRY_INTERVAL = 15000
    Statuses = {"CHILD_SA_UP", "CHILD_SA_DOWN", "LOOKUP_FAILED"}
    UserOps = {"connect", "disconnect"}
    MaxRequests = 3
    MaxReports = 2
PROPERTY NoRetryUnlessWanted
CHECK_DEADLOCK FALSE
