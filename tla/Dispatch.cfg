SPECIFICATION Spec
CONSTANTS
    Runs = {1, 2, 3}
    Mons = {"a"}
    MonOf <- OneMon
    Limit <- LimitTwo
    External = {}
    ReceiptRuns = {}
    PlanRuns = {}
    Digests = {}
    MaxAttempts = 2
    Retryable = {"process_exit_nonzero", "launch_error"}
    ZeroBackoff = FALSE
    HasTimeout = TRUE
    Requests = {"operator", "stop", "cancel"}
    Launches = {"spawned", "reject"}
    Signs = {"plain"}
    EarlyWake = FALSE
    AttemptCap = 0
    MaxCrashes = 0
INVARIANTS
    ProcessInv
    FailureIsRetriedOrFinal
    WorkConserving
PROPERTIES
    LifecycleIsRespected
    NoOvertaking
CHECK_DEADLOCK FALSE
