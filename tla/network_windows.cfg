SPECIFICATION WindowSpec
CONSTANTS
    Day = 3
    Baseline = 1
    Minimum = 1
    MinWindows = 1
    Floor = 2
    Factor = 2
    IdleLimit = 1
    BatchLimit = 2
    MaxWindow = 6
    Amounts = {1, 3}
    MaxBatches = 3
    MaxDecisions = 1
INVARIANTS WindowTypeOK ReferenceIsClean ShiftsAreReported
