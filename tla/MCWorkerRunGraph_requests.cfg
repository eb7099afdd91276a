SPECIFICATION FairSpec
CONSTANTS
    Steps <- MCSteps
    Partial <- MCPartial
    RequestIds <- MCRequestIds
    Serial <- MCSteps
    NumParts = 2
    Redelivered = {1}
    IntRange = 2
    num_tracked_request_ids = 2
INVARIANT LastAfterExecutor
INVARIANT NoUseAfterFree
INVARIANT AtMostOnce
INVARIANT TracksRecent
PROPERTY RequestsEnd
CHECK_DEADLOCK FALSE
