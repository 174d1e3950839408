SPECIFICATION DispatchSpec
CONSTANTS
    Runs = {1}
    Limit = 1
    Isolated = {1}
    Context = {}
    Claims = {}
    Unmountable = {}
    Linking = {}
    External = {}
    Launches = {"spawned", "reject"}
    MaxAttempts = 1
    Window = 1
    AttemptCap = 1
    MaxFaults = 1
PROPERTIES
    QueuedWorkIsRestartSafe
CHECK_DEADLOCK FALSE
