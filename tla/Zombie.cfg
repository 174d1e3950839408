SPECIFICATION Spec
CONSTANTS
    Runs = {1, 2}
    Mons = {"a"}
    MonOf <- OneMon
    Limit <- LimitOne
    External = {}
    ReceiptRuns = {}
    PlanRuns = {}
    Digests = {}
    MaxAttempts = 1
    Retryable = {"process_exit_nonzero", "launch_error"}
    ZeroBackoff = FALSE
    HasTimeout = FALSE
    Requests = {"operator"}
    Launches = {"spawned", "event"}
    Signs = {"plain"}
    EarlyWake = FALSE
    AttemptCap = 0
    MaxCrashes = 0
PROPERTIES
    FinishedIsFinal
CHECK_DEADLOCK FALSE
