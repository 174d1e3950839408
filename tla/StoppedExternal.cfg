SPECIFICATION Spec
CONSTANTS
    Runs = {1}
    Mons = {"a"}
    MonOf <- OneMon
    Limit <- LimitOne
    External = {1}
    ReceiptRuns = {}
    PlanRuns = {}
    Digests = {}
    MaxAttempts = 2
    Retryable = {"process_exit_nonzero", "launch_error"}
    ZeroBackoff = FALSE
    HasTimeout = FALSE
    Requests = {"external", "stop"}
    Launches = {"spawned", "reject"}
    Signs = {"plain"}
    EarlyWake = FALSE
    AttemptCap = 0
    MaxCrashes = 0
INVARIANTS
    EndedRunSettlesExternal
CHECK_DEADLOCK FALSE
