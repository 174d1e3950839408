SPECIFICATION FairSpec
CONSTANTS
    Runs = {1, 2, 3}
    Threads = {1, 2}
    Mons = {"mon"}
    MonOf <- OneMon
    Limit <- LimitOne
    External = {}
    ReceiptRuns = {}
    PlanRuns = {}
    Digests = {}
    Idle = 1
    Hard = 2
    KillGrace = TRUE
    Reasons = {"user_closed_widget", "user_marked_resolved"}
    Outcomes = {"stopped"}
    MaxTurns = 2
    MaxCrashes = 1
INVARIANTS
    ThreadInv
    TurnHoldsSlot
    TokenOnlyDuringItsTurn
PROPERTIES
    CleanCloseMeansAnswered
    NotKilledWhileActive
    MessageAnswered
CHECK_DEADLOCK FALSE
