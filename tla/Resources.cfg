SPECIFICATION FairSpec
CONSTANTS
    Runs = {1, 2}
    Limit = 1
    Isolated = {1}
    Context = {2}
    Claims = {2}
    Unmountable = {2}
    Linking = {1}
    External = {1}
    Launches = {"spawned", "event", "reject"}
    MaxAttempts = 2
    Window = 1
    AttemptCap = 1
    MaxFaults = 3
INVARIANTS
    HoldingsInv
    CredentialsOfTheAttempt
    ScratchOfLiveProcess
    AvailableFileExists
PROPERTIES
    ExpiredIsCleaned
CHECK_DEADLOCK FALSE
