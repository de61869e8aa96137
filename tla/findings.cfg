SPECIFICATION Spec
CONSTANTS
    Contexts = {"net", "exec1"}
    Expectable = {"net"}
    Batches <- MCBatches
    Lifetimes = {1}
    ClosedDays = 1
    Ids = {"f1", "f2", "f3"}
    NoId = "none"
    MaxClock = 2
    MaxBatches = 2
CHECK_DEADLOCK FALSE
INVARIANTS OneOpen EvidenceConserved OpenFindingsCount
PROPERTIES ClosedByAnalystOnly
