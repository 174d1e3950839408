SPECIFICATION Spec
CONSTANTS
    Runs = {1, 2}
    Mons = {"a"}
    MonOf <- OneMon
    Limit <- LimitOne
    External = {}
    ReceiptRuns = {}
    PlanRuns = {1, 2}
    Digests = {}
    MaxAttempts = 2
    Retryable = {"process_exit_nonzero", "launch_error"}
    ZeroBackoff = FALSE
    HasTimeout = FALSE
    Requests = {"plan", "start", "stop", "close", "review", "cancel"}
    Launches = {"spawned", "reject"}
    Signs = {"plain"}
    EarlyWake = FALSE
    AttemptCap = 0
    MaxCrashes = 0
INVARIANTS
    AssignmentFollowsRun
PROPERTIES
    FinishedIsFinal
CHECK_DEADLOCK FALSE
