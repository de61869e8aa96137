SPECIFICATION FairSpec
CONSTANTS
    Workers = {"w1", "w2"}
    NoWorker = "nobody"
    Sources = {"a", "b"}
    Jobs = {"a1", "a2", "b1", "b2"}
    NoJob = "none"
    SourceOf <- MCSourceOf
    MaxClock = 2
    Busy <- MCBusy
    MaxFaults = 2
INVARIANTS CountedOnce CursorCovers SummaryCountsAll
PROPERTIES EverythingIngested
