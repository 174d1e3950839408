SPECIFICATION FairSpec
CONSTANTS
    Keys = {"k1", "k2"}
    Clients = {1, 2, 3}
    KeyOf <- RequestKeys
    DigestOf <- RequestDigests
    PolicyOf <- RequestPolicies
    PredecessorOf <- RequestPredecessors
    NoKey = "no key"
    LaunchKinds <- MonLaunches
    Handled = {"k2"}
    MaxAttempts <- MonAttempts
    AttemptCap = 1
    MaxCrashes = 1
INVARIANTS
    RequestInv
PROPERTIES
    EvidenceIsFinal
    VerdictIsRead
    ContractKept
CHECK_DEADLOCK FALSE
