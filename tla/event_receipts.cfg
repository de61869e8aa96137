SPECIFICATION Spec
CONSTANTS
    c1 = c1
    c2 = c2
    c3 = c3
    b1 = b1
    b2 = b2
    b3 = b3
    Events = {1, 2, 3, 4, 5}
    Contexts = {c1, c2, c3}
    Batches = {b1, b2, b3}
    Ts <- MCTs
    Context <- MCContext
    Content <- MCContent
    Day = 3
    Baseline = 1
    Dedup = 2
    Tolerance = 2
    MaxReceipts = 4
    MaxContexts = 2
    MaxClock = 10
INVARIANTS BatchCountsOnce ContextsBounded SummariesAgree
PROPERTIES CountedApart
