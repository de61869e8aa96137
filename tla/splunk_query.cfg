SPECIFICATION Spec
CONSTANTS
    Numerals <- MCNumerals
    Words <- MCWords
    Cases <- MCCases
    PageSize = 2
INVARIANTS SliceIsWhole InferredIsTrue EventsDelivered SupportedFailsClosed SearchesRemoved
PROPERTIES QueriesEnd
CHECK_DEADLOCK FALSE
