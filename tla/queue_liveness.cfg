SPECIFICATION FairSpec
CONSTANTS
    Sources = {s1}
    NoSource = NoSource
    WebKinds = {}
    Operations = {"cancel", "keep retrying"}
    Backends = {"sqlite"}
    MaxJobs = 2
    Cap = 3
    MaxClock = 1
    Window = 0
    Lookback = 0
    Configs = {c1}
    HasHosts = TRUE
    DbFaults = FALSE
    MaxCrashes = 1
    MaxRetries = 0
INVARIANTS RunningIsOwned
PROPERTIES RunningJobsEnd QueuedJobsRun CancellationHonoured
