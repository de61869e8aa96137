SPECIFICATION Spec
CONSTANTS
    Starts <- MCStarts
    Links <- MCLinks
    Ts <- MCTs
    Guid <- MCGuid
    Context <- MCContext
    Remote = {"b2", "n3"}
    Odd = {"b2", "b4"}
    External = {"l3", "l5"}
    NoGuid = "no guid"
    None = "none"
    Day = 2
    Baseline = 1
    Minimum = 1
    ProcessDays = 1
    Tolerance = 0
    MaxClock = 6
INVARIANTS JoinedAreReported ReportedWasUnknown
