SPECIFICATION FairSpec
CONSTANTS
    Runs = {1, 2}
    Mons = {"a"}
    MonOf <- OneMon
    Limit <- LimitOne
    External = {1, 2}
    ReceiptRuns = {2}
    PlanRuns = {}
    Digests = {"d1", "d2"}
    MaxAttempts = 2
    Retryable = {"process_exit_nonzero", "launch_error"}
    ZeroBackoff = FALSE
    HasTimeout = TRUE
    Requests = {"external", "start", "external_cancel", "complete"}
    Launches = {"spawned", "reject"}
    Signs = {"plain"}
    EarlyWake = FALSE
    AttemptCap = 0
    MaxCrashes = 2
INVARIANTS
    SucceededHasEvidence
    ExternalInv
PROPERTIES
    VerdictIsFinal
    ContractKept
    QueuedRunLeavesQueue
    ProcessEnds
    CancellationIsAnswered
CHECK_DEADLOCK FALSE
