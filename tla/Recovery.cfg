SPECIFICATION Spec
CONSTANTS
    Runs = {1, 2}
    Mons = {"a"}
    MonOf <- OneMon
    Limit <- LimitOne
    External = {}
    ReceiptRuns = {}
    PlanRuns = {2}
    Digests = {}
    MaxAttempts = 2
    Retryable = {"process_exit_nonzero", "launch_error", "credential_expired", "harness_noop"}
    ZeroBackoff = TRUE
    HasTimeout = TRUE
    Requests = {"operator", "plan", "start", "stop", "cancel"}
    Launches = {"spawned", "event", "reject", "mcp", "throw"}
    Signs = {"plain", "mcp", "credential", "silent"}
    EarlyWake = TRUE
    AttemptCap = 2
    MaxCrashes = 2
INVARIANTS
    LiveProcessesWithinLimit
    OneProcessPerRun
    SlotIsAccountedFor
PROPERTIES
    LostIsFinal
CHECK_DEADLOCK FALSE
