SPECIFICATION FairSpec
CONSTANTS
    Mons = {"m"}
    MaxSends = 2
    MaxLosses = 1
INVARIANTS
    RailInv
PROPERTIES
    RailIsStable
    ConsoleConverges
    SendEnds
CHECK_DEADLOCK FALSE
