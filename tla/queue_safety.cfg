SPECIFICATION Spec
CONSTANTS
    Sources = {s1}
    NoSource = NoSource
    WebKinds = {"import"}
    Operations = {"toggle", "save", "retry", "cancel"}
    Backends = {"postgresql", "sqlite"}
    MaxJobs = 2
    Cap = 2
    MaxClock = 2
    Window = 1
    Lookback = 1
    Configs = {c1}
    HasHosts = FALSE
    DbFaults = TRUE
    MaxCrashes = 1
    MaxRetries = 1
INVARIANTS ExactlyOnce ImportsIngestedOnce
PROPERTIES RefinesCursor ImportsKept
