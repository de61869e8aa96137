SPECIFICATION FairSpec
CONSTANTS
    MaxClock = 7
    Window = 2
    CatchupWindow = 4
    Lookback = 5
    MaxEvents = 4
    MaxSlices = 3
    MaxBatch = 5
    Modes = {"auto", "broad", "cribl_flat_sysmon"}
    Loads <- MCLoads
    MaxFailures = 3
INVARIANTS CollectedRange BatchBounded SteadySpansFit
PROPERTIES BacklogIsCollected
