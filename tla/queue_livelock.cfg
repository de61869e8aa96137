SPECIFICATION FairSpec
CONSTANTS
    Sources = {s1}
    NoSource = NoSource
    WebKinds = {"import"}
    Operations = {}
    Backends = {"postgresql"}
    MaxJobs = 2
    Cap = 2
    MaxClock = 1
    Window = 0
    Lookback = 0
    Configs = {c1}
    HasHosts = TRUE
    DbFaults = FALSE
    MaxCrashes = 0
    MaxRetries = 1
PROPERTIES QueuedJobsRun
