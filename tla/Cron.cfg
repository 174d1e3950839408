SPECIFICATION FairSpec

CONSTANTS
    Schedules = {1, 2}
    Integration = {1}
    Mons = {"seia"}
    Exprs = {"each", "once"}
    Occurs <- MCOccurs
    Limit <- OneSlot
    MaxTime = 3
    MaxRuns = 7
    MaxEvents = 1

INVARIANTS
    ScheduleInv
PROPERTIES
    ImplementsContract
    OwedIsRun
CHECK_DEADLOCK FALSE
